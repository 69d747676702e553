----------------------------- MODULE MdocParser -----------------------------
(***************************************************************************)
(* CBOR as the mdoc programs and circuits read it: the recursive parser of *)
(* credentials, the headers they are written with, and the decoder of one  *)
(* header byte, as a program and as a circuit.                             *)
(*                                                                         *)
(* A result is [ok |-> TRUE, val |-> ...] or [ok |-> FALSE, err |-> ...].  *)
(* The wording of an error is left out, its kind is kept.                  *)
(***************************************************************************)
EXTENDS Integers, Sequences, Loops

CONSTANTS MaxDepth,    \* MAX_DEPTH of the parser
          IndexBits    \* bits of an index of the attribute circuit

Ok(v) == [ok |-> TRUE, val |-> v]
Err(e) == [ok |-> FALSE, err |-> e]

\* r?, and the rest of the function on its value.
Then(r, rest(_)) == Strictly(r, LAMBDA x : IF x.ok THEN Strictly(x.val, rest) ELSE x)

\* data[from..to], when it is there.
Slice(data, from, to) == SubSeq(data, from + 1, to)
read_bytes(data, offset, len) == IF offset + len > Len(data) THEN Err("Cbor") ELSE Ok(Slice(data, offset, offset + len))
from_be(bytes) == For(0, 1, Len(bytes), LAMBDA acc, i : 256 * acc + bytes[i])

-----------------------------------------------------------------------------
(* The parser. *)

\* A header: its major type, what the low five bits say, the number it holds.
header(data, start) ==
  Then(read_bytes(data, start, 1), LAMBDA b :
    LET info == b[1] % 32
        found(extra) == [major |-> b[1] \div 32, info |-> info, offset |-> start + 1 + Len(extra),
                         num |-> IF extra = <<>> THEN info ELSE from_be(extra)]
    IN IF info <= 23 THEN Ok(found(<<>>))
       ELSE IF info <= 27 THEN Then(read_bytes(data, start + 1, 2^(info - 24)), LAMBDA extra : Ok(found(extra)))
       ELSE Err("Cbor"))

\* String::from_utf8, for the texts used here: they are ASCII, and a byte that
\* is not stands for anything that is no text.
utf8(bytes) == \A i \in 1 .. Len(bytes) : bytes[i] < 128

Kinds == <<"integer", "integer", "bytes", "text", "array", "map", "tag", "other">>

\* Every element of an array takes a byte at least: a longer loop fails too.
Rounds(h, data) == IF h.num > Len(data) THEN Len(data) + 1 ELSE h.num

\* The nesting limit bounds the recursion of the parser.  (A defect: by one more.)
too_deep_Off(depth) == depth > MaxDepth + 1
too_deep(depth) == depth > MaxDepth

parse_val(data) ==
  LET parse[s \in (0 .. Len(data)) \X (0 .. MaxDepth + 2)] ==
        IF too_deep(s[2]) THEN Err("Cbor")
        ELSE Then(header(data, s[1]), LAMBDA h :
          LET el(num, bytes, items, end) ==
                Ok([kind |-> Kinds[h.major + 1], num |-> num, bytes |-> bytes, items |-> items, start |-> s[1], end |-> end])
              child(offset) == parse[<<offset, s[2] + 1>>]
              each(n) == For(Ok([items |-> <<>>, offset |-> h.offset]), 1, n, LAMBDA acc, i :
                           Then(acc, LAMBDA a : Then(child(a.offset), LAMBDA e :
                             Ok([items |-> Append(a.items, e), offset |-> e.end]))))
          IN CASE h.major \in {0, 7} -> el(h.num, <<>>, <<>>, h.offset)
               [] h.major = 1 -> el(-1 - h.num, <<>>, <<>>, h.offset)
               [] h.major \in {2, 3} ->
                    Then(read_bytes(data, h.offset, h.num), LAMBDA b :
                      IF h.major = 3 /\ ~utf8(b) THEN Err("Cbor") ELSE el(0, b, <<>>, h.offset + h.num))
               [] h.major = 4 -> Then(each(Rounds(h, data)), LAMBDA a : el(0, <<>>, a.items, a.offset))
               [] h.major = 5 ->
                    Then(each(2 * Rounds(h, data)), LAMBDA a :
                      el(0, <<>>, [i \in 1 .. Len(a.items) \div 2 |-> <<a.items[2 * i - 1], a.items[2 * i]>>], a.offset))
               [] h.major = 6 -> Then(child(h.offset), LAMBDA e : el(h.num, <<>>, <<e>>, e.end)))
  IN parse[<<0, 0>>]

\* One item and nothing after it.
parse_exact(data) ==
  Then(parse_val(data), LAMBDA e : IF e.end # Len(data) THEN Err("Cbor") ELSE Ok(e))

-----------------------------------------------------------------------------
(* Writing headers, always the shortest.  (4 bytes: TLC has no longer        *)
(* numbers, and the code takes 8 only for a length above 2^32.)              *)

to_be(n, size) == [i \in 1 .. size |-> (n \div 256^(size - i)) % 256]

\* A defect: one byte for 256.
append_len_Off(major, len) ==
  CASE len <= 23 -> <<major + len>>
    [] len \in 24 .. 256 -> <<major + 24>> \o to_be(len, 1)
    [] len \in 257 .. 65535 -> <<major + 25>> \o to_be(len, 2)
    [] len > 65535 -> <<major + 26>> \o to_be(len, 4)
append_len(major, len) ==
  CASE len <= 23 -> <<major + len>>
    [] len \in 24 .. 255 -> <<major + 24>> \o to_be(len, 1)
    [] len \in 256 .. 65535 -> <<major + 25>> \o to_be(len, 2)
    [] len > 65535 -> <<major + 26>> \o to_be(len, 4)

append_text_len(len) == append_len(96, len)
append_bytes_len(len) == append_len(64, len)
encode_cbor_string(s) == append_text_len(Len(s)) \o s

-----------------------------------------------------------------------------
(* What one header byte says, computed by a program ...                      *)

decode_one_v8(v) ==
  LET count == v % 32
      type == v \div 32
      atomp == type \in {0, 1}
      stringp == type \in {2, 3}
      itemsp == type \in {4, 5}
      simple == type = 7 /\ count \in 20 .. 23
      good_count == count <= 24 \/ ((atomp \/ type = 6) /\ count <= 27)
      base == IF count < 24 THEN 1 ELSE <<2, 3, 5, 9>>[(count % 4) + 1]
  IN [atomp |-> atomp, itemsp |-> itemsp, stringp |-> stringp, arrayp |-> type = 4, mapp |-> type = 5,
      tagp |-> type = 6, specialp |-> type = 7, simple_specialp |-> simple,
      count0_23 |-> count < 24, count24_27 |-> count \in 24 .. 27, count24 |-> count = 24,
      count25 |-> count = 25, count26 |-> count = 26, count27 |-> count = 27,
      length_plus_next_v8 |-> v \in {88, 120}, count_is_next_v8 |-> v \in {152, 184},
      invalid |-> (type = 7 /\ ~simple) \/ ~good_count,
      length |-> base + IF stringp /\ count < 24 THEN count ELSE 0]

\* ... and by a circuit, from masks of the bits.  (A defect: the last is not looked
\* at.)
eqmask_Narrow(x, val, mask, n) == \A i \in 0 .. n - 2 : Bit(mask, i) = 1 => Bit(x, i) = Bit(val, i)
eqmask(x, val, mask, n) == \A i \in 0 .. n - 1 : Bit(mask, i) = 1 => Bit(x, i) = Bit(val, i)

decode_circuit(v) ==
  LET count == v % 32
      tag == v \div 32
      atomp == eqmask(tag, 0, 6, 3)
      stringp == eqmask(tag, 2, 6, 3)
      itemsp == eqmask(tag, 4, 6, 3)
      specialp == eqmask(tag, 7, 7, 3)
      tagp == eqmask(tag, 6, 7, 3)
      count0_23 == ~eqmask(count, 24, 24, 5)
      count24_27 == eqmask(count, 24, 28, 5)
      count24 == eqmask(count, 24, 31, 5)
      simple == specialp /\ eqmask(count, 20, 28, 5)
      good_count == count24 \/ count0_23 \/ ((atomp \/ tagp) /\ count24_27)
      select(bit, one, zero) == IF bit THEN one ELSE zero
      low == Bit(count, 0) = 1
      base == select(count0_23, 1, select(Bit(count, 1) = 1, select(low, 9, 5), select(low, 3, 2)))
  IN [atomp |-> atomp, itemsp |-> itemsp, stringp |-> stringp,
      arrayp |-> eqmask(tag, 4, 7, 3), mapp |-> eqmask(tag, 5, 7, 3),
      tagp |-> tagp, specialp |-> specialp, simple_specialp |-> simple,
      count0_23 |-> count0_23, count24_27 |-> count24_27, count24 |-> count24,
      count25 |-> eqmask(count, 25, 31, 5), count26 |-> eqmask(count, 26, 31, 5), count27 |-> eqmask(count, 27, 31, 5),
      length_plus_next_v8 |-> count24 /\ stringp, count_is_next_v8 |-> count24 /\ itemsp,
      invalid |-> (specialp /\ ~simple) \/ ~good_count,
      length |-> base + select(stringp /\ count0_23, count, 0)]

-----------------------------------------------------------------------------
(***************************************************************************)
(* The parser of mdoc credentials: it walks the CBOR of a device response, *)
(* takes out what the circuits need, and locates in the signed bytes every *)
(* field the circuits look at.                                             *)
(*                                                                         *)
(* A name of the format is as long as it really is and made of one letter  *)
(* of its own.                                                             *)
(***************************************************************************)
CONSTANT MaxShaBlocks   \* K_MAX_SHA_BLOCKS: blocks of the signed message

Name(letter, n) == [i \in 1 .. n |-> letter]
DigestID == Name(1, 8)
Random == Name(2, 6)
ElementIdentifier == Name(3, 17)
ElementValue == Name(4, 12)
Documents == Name(5, 9)
IssuerSigned == Name(6, 12)
IssuerAuth == Name(7, 10)
DeviceSigned == Name(8, 12)
DeviceAuth == Name(9, 10)
DeviceSignature == Name(10, 15)
NameSpaces == Name(11, 10)
DeviceKeyInfo == Name(12, 13)
DeviceKey == Name(13, 9)
DocType == Name(14, 7)
ValidityInfo == Name(15, 12)
ValidFrom == Name(16, 9)
ValidUntil == Name(17, 10)
ValueDigests == Name(18, 12)
Signature1 == Name(19, 10)
DeviceAuthentication == Name(20, 20)

\* Headers that are written and looked for as they stand.
K_TAG24 == <<216, 24>>
K_COSE_SIGN1_SIGNING_HEADER == <<132, 106>> \o Signature1 \o <<67, 161, 1, 38, 64>>
K_COSE1_PREFIX_LEN == Len(K_COSE_SIGN1_SIGNING_HEADER) + 1
K_DEVICE_AUTHENTICATION_HEADER == <<132, 116>> \o DeviceAuthentication

\* SHA-256, as 32 bytes that depend on all of the message.
Digest(msg) ==
  Strictly(For(7, 1, Len(msg), LAMBDA acc, i : (31 * acc + msg[i] + 1) % 65521), LAMBDA h :
    [i \in 1 .. 32 |-> IF i % 2 = 1 THEN h \div 256 ELSE h % 256])

\* A number of 256 bits, as its 32 bytes with the most significant first.
from_bytes_be(bytes) ==
  LET n == Len(bytes) IN IF n >= 32 THEN SubSeq(bytes, n - 31, n) ELSE [i \in 1 .. 32 - n |-> 0] \o bytes

-----------------------------------------------------------------------------
(* Values that must be there.  Every early return of the code is a Then.     *)

\* What must be there once.  (A defect: the first is taken.)
only_First(found) == IF found = <<>> THEN Err("MissingField") ELSE Ok(found[1])
only(found) ==
  IF Len(found) > 1 THEN Err("DuplicateField") ELSE IF found = <<>> THEN Err("MissingField") ELSE Ok(found[1])

\* The one entry of a map whose key satisfies a test.
entry_unique(map, is(_)) ==
  IF map.kind # "map" THEN Err("UnexpectedType") ELSE only(SelectSeq(map.items, LAMBDA kv : is(kv[1])))

map_entry_unique(map, key) == entry_unique(map, LAMBDA k : k.kind = "text" /\ k.bytes = key)
required_map_value(map, key) == Then(map_entry_unique(map, key), LAMBDA kv : Ok(kv[2]))
required_map_key(map, key) == Then(map_entry_unique(map, key), LAMBDA kv : Ok(kv[1].start))
required_array(el) == IF el.kind = "array" THEN Ok(el.items) ELSE Err("UnexpectedType")
required_cose_sign1_array(el) ==
  IF el.kind = "tag" /\ el.num = 18 THEN required_array(el.items[1]) ELSE required_array(el)
required_bytes(el) == IF el.kind = "bytes" THEN Ok(el.bytes) ELSE Err("UnexpectedType")
required_tagged_bytes(el, tag) ==
  IF el.kind = "tag" /\ el.num = tag THEN required_bytes(el.items[1]) ELSE Err("UnexpectedType")

get(items, i) == IF i < Len(items) THEN Ok(items[i + 1]) ELSE Err("MissingField")

\* A coordinate that is there twice fails for the second one before the type
\* of the second one is looked at, and after that of the first.
required_device_coordinate(key, coordinate) ==
  IF key.kind # "map" THEN Err("UnexpectedType")
  ELSE LET found == SelectSeq(key.items, LAMBDA kv : kv[1].kind = "integer" /\ kv[1].num = coordinate) IN
       IF found = <<>> THEN Err("MissingField")
       ELSE Then(required_bytes(found[1][2]), LAMBDA b : IF Len(found) > 1 THEN Err("DuplicateField") ELSE Ok(b))

\* Where the digest of an item is, in the map of the signed object.
required_digest_offset(value_digests, namespace, digest_id) ==
  Then(required_map_value(value_digests, namespace), LAMBDA ns :
    Then(entry_unique(ns, LAMBDA k : k.kind = "integer" /\ k.num = digest_id), LAMBDA kv : Ok(kv[2].start)))

parse_signature(bytes) ==
  IF Len(bytes) # 64 THEN Err("InvalidLength")
  ELSE Ok(<<from_bytes_be(SubSeq(bytes, 1, 32)), from_bytes_be(SubSeq(bytes, 33, 64))>>)

\* The signed object has the one layout the circuits know: a header of five
\* bytes, and room for the padding of the hash.
validate_mso_layout(wrapped, map) ==
  IF K_COSE1_PREFIX_LEN + 2 + Len(wrapped) > 64 * MaxShaBlocks - 9 \/ Len(wrapped) > 65535 THEN Err("TooBig")
  ELSE IF \/ Len(map) < 256
          \/ SubSeq(wrapped, 1, 3) # K_TAG24 \o <<89>>
          \/ Len(wrapped) # Len(map) + 5
          \/ from_be(SubSeq(wrapped, 4, 5)) # Len(map) THEN Err("UnsupportedEncoding")
  ELSE Ok(<<>>)

-----------------------------------------------------------------------------
(* Attributes. *)

FieldNames == <<DigestID, Random, ElementIdentifier, ElementValue>>

\* One pair of an item: the slot it fills, and the number of a digest.
take_field(acc, kv, i) ==
  LET slot == {f \in 1 .. 4 : FieldNames[f] = kv[1].bytes}
      f == CHOOSE g \in slot : TRUE
      filled == [acc EXCEPT !.slots[f] = i - 1, !.length = Append(@, kv[2].end - kv[1].start)]
  IN IF kv[1].kind # "text" THEN Err("UnexpectedType")
     ELSE IF slot = {} THEN Err("UnknownField")
     ELSE IF acc.slots[f] >= 0 THEN Err("DuplicateField")
     ELSE IF f # 1 THEN Ok(filled)
     ELSE IF kv[2].kind # "integer" THEN Err("UnexpectedType")
     ELSE IF kv[2].num < 0 THEN Err("InvalidValue")
     ELSE Ok([filled EXCEPT !.digest_id = kv[2].num])

\* The fields of an item in the order they come in, as offsets into the item
\* with its two headers, and the order as the physical place of every field.
compute_witness(name, cbor_value, item, inner, value_digests, namespace) ==
  IF inner.kind # "map" THEN Err("UnexpectedType")
  ELSE IF Len(inner.items) # 4 THEN Err("InvalidLength")
  ELSE
    Then(For(Ok([slots |-> <<-1, -1, -1, -1>>, length |-> <<>>, digest_id |-> -1]), 1, 4,
             LAMBDA acc, i : Then(acc, LAMBDA a : take_field(a, inner.items[i], i))), LAMBDA w :
      IF \E f \in 1 .. 4 : w.slots[f] < 0 THEN Err("MissingField")
      ELSE
        LET prefix_len == Len(item) - inner.end
            offset(i) == SumOver(1, i - 1, LAMBDA j : w.length[j]) + prefix_len + inner.items[1][1].start
        IN Then(required_digest_offset(value_digests, namespace, w.digest_id), LAMBDA digest :
             Ok([name |-> name, cbor_value |-> cbor_value, cbor_issuer_signed_item |-> item,
                 mso_digest_offset_in_preimage |-> digest,
                 field_locator |-> [slot_position |-> Build(4, offset), length |-> w.length,
                                    permutation |-> SumOver(1, 4, LAMBDA f : w.slots[f] * 4^(f - 1))]])))

\* One signed item, of the bytes of the credential.
extract_attr(el, mdoc, value_digests, namespace) ==
  Then(required_tagged_bytes(el, 24), LAMBDA map :
    Then(parse_exact(map), LAMBDA item :
      Then(required_map_value(item, ElementIdentifier), LAMBDA id :
        IF id.kind # "text" THEN Err("UnexpectedType")
        ELSE Then(required_map_value(item, ElementValue), LAMBDA value :
          compute_witness(id.bytes, Slice(map, value.start, value.end), Slice(mdoc, el.start, el.end),
                          item, value_digests, namespace)))))

extract_attrs(issuer_signed, mdoc, value_digests) ==
  Then(required_map_value(issuer_signed, NameSpaces), LAMBDA namespaces :
    IF namespaces.kind # "map" THEN Err("UnexpectedType")
    ELSE
      LET namespace(attrs, i) ==
            LET ns == namespaces.items[i][1]
                items(array) == ForEach(Ok(attrs), array, LAMBDA acc, el : Then(acc, LAMBDA a :
                  Then(extract_attr(el, mdoc, value_digests, ns.bytes), LAMBDA w : Ok(Append(a, w)))))
            IN IF ns.kind # "text" THEN Err("UnexpectedType")
               ELSE IF \E j \in 1 .. i - 1 : namespaces.items[j][1].bytes = ns.bytes THEN Err("DuplicateField")
               ELSE Then(required_array(namespaces.items[i][2]), items)
      IN For(Ok(<<>>), 1, Len(namespaces.items), LAMBDA acc, i : Then(acc, LAMBDA a : namespace(a, i))))

-----------------------------------------------------------------------------
(* The messages that are signed, and the whole credential. *)

\* What the issuer signed, and what the device signed.
format_cose_sign1_message(payload) == K_COSE_SIGN1_SIGNING_HEADER \o append_bytes_len(Len(payload)) \o payload
\* A defect: the outer length is that of the inner structure.
device_authentication_Inner(transcript, doc_type) ==
  LET structure == K_DEVICE_AUTHENTICATION_HEADER \o transcript \o encode_cbor_string(doc_type) \o <<216, 24, 65, 160>>
      payload == K_TAG24 \o append_bytes_len(Len(structure)) \o structure
  IN K_COSE_SIGN1_SIGNING_HEADER \o append_bytes_len(Len(structure)) \o payload
device_authentication(transcript, doc_type) ==
  LET structure == K_DEVICE_AUTHENTICATION_HEADER \o transcript \o encode_cbor_string(doc_type) \o <<216, 24, 65, 160>>
      payload == K_TAG24 \o append_bytes_len(Len(structure)) \o structure
  IN K_COSE_SIGN1_SIGNING_HEADER \o append_bytes_len(Len(payload)) \o payload
compute_transcript_hash(transcript, doc_type) == Digest(device_authentication(transcript, doc_type))

\* The map in the tagged byte string.
unwrap_mso(el) ==
  IF ~(el.kind = "tag" /\ el.num = 24) THEN Err("InvalidValue") ELSE required_bytes(el.items[1])

\* What is taken out of the issuer's part: the signed bytes and the parsed map.
issuer_part(auth) ==
  Then(required_cose_sign1_array(auth), LAMBDA array :
  Then(get(array, 2), LAMBDA payload :
  Then(required_bytes(payload), LAMBDA wrapped :
  Then(parse_exact(wrapped), LAMBDA el :
  Then(unwrap_mso(el), LAMBDA map :
  Then(validate_mso_layout(wrapped, map), LAMBDA valid :
  Then(parse_exact(map), LAMBDA mso :
    Ok([array |-> array, cbor_mso |-> format_cose_sign1_message(wrapped), mso |-> mso]))))))))

device_key(mso) ==
  Then(required_map_value(mso, DeviceKeyInfo), LAMBDA info :
  Then(required_map_value(info, DeviceKey), LAMBDA key :
  Then(required_device_coordinate(key, -2), LAMBDA x :
  Then(required_device_coordinate(key, -3), LAMBDA y :
    Ok(<<from_bytes_be(x), from_bytes_be(y)>>)))))

signature_of(array) ==
  Then(get(array, 3), LAMBDA el : Then(required_bytes(el), LAMBDA bytes : parse_signature(bytes)))

device_signature(doc) ==
  Then(required_map_value(doc, DeviceSigned), LAMBDA signed :
  Then(required_map_value(signed, DeviceAuth), LAMBDA auth :
  Then(required_map_value(auth, DeviceSignature), LAMBDA sig :
  Then(required_cose_sign1_array(sig), LAMBDA array : signature_of(array)))))

\* Where the keys of the fields the circuit looks at start, in the map.
mso_offsets(mso) ==
  Then(required_map_key(mso, DocType), LAMBDA doc_type :
  Then(required_map_value(mso, ValidityInfo), LAMBDA validity :
  Then(required_map_key(validity, ValidFrom), LAMBDA from :
  Then(required_map_key(validity, ValidUntil), LAMBDA until :
  Then(required_map_key(mso, DeviceKeyInfo), LAMBDA key :
  Then(required_map_key(mso, ValueDigests), LAMBDA digests :
    Ok([doc_type |-> doc_type, valid_from |-> from, valid_until |-> until, device_key |-> key, value_digests |-> digests])))))))

parse_mdoc(mdoc, transcript, doc_type) ==
  Then(parse_exact(mdoc), LAMBDA root :
  Then(required_map_value(root, Documents), LAMBDA docs :
  Then(required_array(docs), LAMBDA array :
  Then(get(array, 0), LAMBDA doc :
  Then(required_map_value(doc, IssuerSigned), LAMBDA issuer_signed :
  Then(required_map_value(issuer_signed, IssuerAuth), LAMBDA auth :
  Then(issuer_part(auth), LAMBDA issuer :
  Then(device_key(issuer.mso), LAMBDA pk :
  Then(signature_of(issuer.array), LAMBDA issuer_sig :
  Then(device_signature(doc), LAMBDA device_sig :
  Then(mso_offsets(issuer.mso), LAMBDA offsets :
  Then(required_map_value(issuer.mso, ValueDigests), LAMBDA value_digests :
  Then(extract_attrs(issuer_signed, mdoc, value_digests), LAMBDA attrs :
    Ok([issuer_sig_digest |-> Digest(issuer.cbor_mso), issuer_sig |-> issuer_sig, device_pk |-> pk,
        device_sig_digest |-> compute_transcript_hash(transcript, doc_type), device_sig |-> device_sig,
        doc_type |-> doc_type, offsets |-> offsets, attrs |-> attrs, cbor_mso |-> issuer.cbor_mso]))))))))))))))
=============================================================================
