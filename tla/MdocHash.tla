------------------------------ MODULE MdocHash ------------------------------
(***************************************************************************)
(* The circuit that checks a presentation against the object the issuer    *)
(* signed, and its part that checks one disclosed attribute; and the       *)
(* program that makes their inputs from a parsed credential.               *)
(*                                                                         *)
(* The circuit is what it asserts of its inputs.  Shifting a buffer,       *)
(* hashing a message and authentication codes are circuits of their own    *)
(* (modules AnalogCircuit and Sha256) and appear by what they compute.     *)
(***************************************************************************)
EXTENDS MdocParser

\* Prefixes the circuits look for.
K_DIGEST_ID == <<104>> \o DigestID
K_RANDOM_ID == <<102>> \o Random
K_ELEMENT_IDENTIFIER_PREFIX == <<113>> \o ElementIdentifier
K_ELEMENT_VALUE_PREFIX == <<108>> \o ElementValue
K_DOCTYPE_HEADER_CHECK_CBOR == <<103>> \o DocType
K_VALID_FROM_CHECK_CBOR == <<105>> \o ValidFrom \o <<192, 116>>
K_VALID_UNTIL_CHECK_CBOR == <<106>> \o ValidUntil \o <<192, 116>>
K_DEVICE_KEY_INFO_CHECK_CBOR == <<109>> \o DeviceKeyInfo \o <<161, 105>> \o DeviceKey \o <<164, 1, 2, 32, 1, 33, 88, 32>>
K_VALUE_DIGESTS_CHECK_CBOR == <<108>> \o ValueDigests
K_TAG32 == <<88, 32>>
K_TIMESTAMP_LEN == 20
AttrBlocks == 2                      \* K_MAX_ATTR_SHA_BLOCKS
MaxName == 32                        \* bytes of a disclosed name
MaxValue == 64                       \* bytes of a disclosed value

zeros(n) == [i \in 1 .. n |-> 0]

\* The padding of a message; a message that does not fit has none.
sha_padding(msg, maxBlocks) ==
  LET nblocks == (Len(msg) + 72) \div 64
      fill == 64 * nblocks - 9 - Len(msg)
  IN IF nblocks > maxBlocks THEN Err("Panic")
     ELSE Ok([nblocks |-> nblocks,
              bytes |-> msg \o <<128>> \o zeros(fill) \o zeros(4) \o to_be(8 * Len(msg), 4) \o zeros(64 * (maxBlocks - nblocks))])
\* What the circuit of a message asserts of bytes, a length and a hash.
assert_message_hash(bytes, nblocks, len, hash, maxBlocks) ==
  /\ len <= Len(bytes)
  /\ Strictly(SubSeq(bytes, 1, len), LAMBDA msg :
       LET p == sha_padding(msg, maxBlocks)
       IN p.ok /\ p.val.nblocks = nblocks /\ p.val.bytes = bytes /\ Digest(msg) = hash)

\* The k elements of a buffer from a place in it, zero beyond its end.
shift_bitvec(amount, k, buf) == [i \in 1 .. k |-> IF amount + i <= Len(buf) THEN buf[amount + i] ELSE 0]
bytes_at(buf, at, want) == SubSeq(buf, at + 1, at + Len(want)) = want
\* r = a + b without overflow.
checked_add(r, a, b) == r = a + b /\ a + b < 2^IndexBits
lexicographic_leq(a, b) ==
  \/ a = b
  \/ \E i \in 1 .. Len(a) : a[i] < b[i] /\ \A j \in 1 .. i - 1 : a[j] = b[j]

-----------------------------------------------------------------------------
(* The attribute circuit.                                                    *)
(* given: preimage [data, len], field_locator [slot_position, length,        *)
(* permutation], name and value [data, len], expected_digest.                *)

\* tag 24, a byte string of one length byte, a map of four.
assert_preimage_header(preimage) ==
  /\ bytes_at(preimage.data, 0, <<216, 24, 88>>)
  /\ bytes_at(preimage.data, 4, <<164>>)
  /\ checked_add(preimage.len, preimage.data[4], 4)

\* The four fields fill the item from the fifth byte to its end.  (A defect: the
\* end is open.)
assert_segments_Open(locator, payload_len) ==
  /\ locator.slot_position[1] = 5
  /\ \A j \in 1 .. 3 : checked_add(locator.slot_position[j + 1], locator.slot_position[j], locator.length[j])
assert_segments(locator, payload_len) ==
  /\ locator.slot_position[1] = 5
  /\ \A j \in 1 .. 3 : checked_add(locator.slot_position[j + 1], locator.slot_position[j], locator.length[j])
  /\ checked_add(payload_len, locator.slot_position[4], locator.length[4])

assert_permutation(permutation) == \A i, j \in 1 .. 4 : i < j => permutation[i] # permutation[j]

slot_offset_and_len(slot, locator) ==
  LET at == locator.permutation[slot + 1]
  IN [offset |-> shift_bitvec(at, 1, locator.slot_position)[1], len |-> shift_bitvec(at, 1, locator.length)[1]]

\* The header of the value accounts for the length of the field.
assert_cbor_length(buf, expected_len, val_hdr_index, atom) ==
  Strictly(decode_circuit(buf[val_hdr_index + 1]), LAMBDA cbor :
    LET v_len == cbor.length + IF cbor.length_plus_next_v8 THEN buf[val_hdr_index + 2] ELSE 0
    IN /\ ~cbor.invalid
       /\ v_len < 2^IndexBits /\ checked_add(expected_len, val_hdr_index, v_len)
       /\ atom => ~cbor.count27)

assert_item_slot_key_only(slot, locator, data, key_id, is_unsigned) ==
  LET slice == slot_offset_and_len(slot, locator)
  IN Strictly(shift_bitvec(slice.offset, 64 * AttrBlocks - 9, data), LAMBDA got :
       bytes_at(got, 0, key_id) /\ assert_cbor_length(got, slice.len, Len(key_id), is_unsigned))

format_element(max, prefix, val) == prefix \o val \o zeros(max - Len(prefix) - Len(val))
assert_prefix_equal(max, got, want, len) == \A j \in 1 .. max : j - 1 < len => got[j] = want[j]

assert_item_slot_key_value(slot, locator, data, max_len, prefix, val) ==
  LET slice == slot_offset_and_len(slot, locator)
      expected_len == Len(prefix) + val.len
  IN Strictly(shift_bitvec(slice.offset, 64 * AttrBlocks - 9, data), LAMBDA got :
       /\ expected_len < 2^IndexBits
       /\ assert_prefix_equal(max_len, got, format_element(max_len, prefix, val.data), expected_len)
       /\ slice.len = expected_len)

assert_sha_digest(given) ==
  assert_message_hash(given.preimage.data, AttrBlocks, given.preimage.len, given.expected_digest, AttrBlocks)

assert_attribute(given) ==
  LET locator == given.field_locator
      data == given.preimage.data
  IN /\ assert_preimage_header(given.preimage)
     /\ assert_segments(locator, given.preimage.len)
     /\ assert_permutation(locator.permutation)
     /\ assert_item_slot_key_only(0, locator, data, K_DIGEST_ID, TRUE)
     /\ assert_item_slot_key_only(1, locator, data, K_RANDOM_ID, FALSE)
     /\ assert_item_slot_key_value(2, locator, data, Len(K_ELEMENT_IDENTIFIER_PREFIX) + 1 + MaxName,
                                   K_ELEMENT_IDENTIFIER_PREFIX, given.name)
     /\ assert_item_slot_key_value(3, locator, data, Len(K_ELEMENT_VALUE_PREFIX) + 1 + MaxValue,
                                   K_ELEMENT_VALUE_PREFIX, given.value)
     /\ assert_sha_digest(given)

-----------------------------------------------------------------------------
(* The circuit of a presentation. *)

\* A field of the signed bytes, inside them and past their first five.
shift_preimage(offset, given, len) ==
  [inside |-> 5 <= offset /\ offset < given.preimage.len, bytes |-> shift_bitvec(offset, len, given.preimage.value)]

assert_mso_sha256_hash(given) ==
  assert_message_hash(given.preimage.value, given.nblocks, given.preimage.len, given.issuer_sig_e, MaxShaBlocks)

\* The key, and the bytes after its value's header, whose length is not looked
\* at: a type that starts with the expected one passes.
assert_mso_doc_type(given) ==
  LET n == Len(K_DOCTYPE_HEADER_CHECK_CBOR)
  IN Strictly(shift_preimage(given.offsets.doc_type, given, n + 35), LAMBDA s :
       LET from == n + IF s.bytes[n + 1] = 120 THEN 2 ELSE 1
       IN /\ s.inside
          /\ given.suppress_doc_type_check \/
               /\ bytes_at(s.bytes, 0, K_DOCTYPE_HEADER_CHECK_CBOR)
               /\ \A i \in 1 .. 32 : i - 1 < given.expected_doc_type.len => s.bytes[from + i] = given.expected_doc_type.data[i])

\* A date of the signed bytes, compared with now.
assert_date(given, offset, key, cmp(_)) ==
  Strictly(shift_preimage(offset, given, Len(key) + K_TIMESTAMP_LEN), LAMBDA s :
    s.inside /\ bytes_at(s.bytes, 0, key) /\ cmp(SubSeq(s.bytes, Len(key) + 1, Len(key) + K_TIMESTAMP_LEN)))
assert_mso_validity(given) ==
  /\ assert_date(given, given.offsets.valid_from, K_VALID_FROM_CHECK_CBOR, LAMBDA from : lexicographic_leq(from, given.now))
  /\ assert_date(given, given.offsets.valid_until, K_VALID_UNTIL_CHECK_CBOR, LAMBDA until : lexicographic_leq(given.now, until))

assert_key(key, buf_be) == key = buf_be
assert_mso_device_key(given) ==
  LET n == Len(K_DEVICE_KEY_INFO_CHECK_CBOR)
  IN Strictly(shift_preimage(given.offsets.device_key, given, n + 67), LAMBDA s :
       /\ s.inside
       /\ bytes_at(s.bytes, 0, K_DEVICE_KEY_INFO_CHECK_CBOR)
       /\ assert_key(given.device_pk[1], SubSeq(s.bytes, n + 1, n + 32))
       /\ bytes_at(s.bytes, n + 32, <<34>> \o K_TAG32)
       /\ assert_key(given.device_pk[2], SubSeq(s.bytes, n + 36, n + 67)))

assert_mso_value_digests(given) ==
  Strictly(shift_preimage(given.offsets.value_digests, given, Len(K_VALUE_DIGESTS_CHECK_CBOR)), LAMBDA s :
    s.inside /\ bytes_at(s.bytes, 0, K_VALUE_DIGESTS_CHECK_CBOR))

\* The digest an attribute hashes to is read where the prover says it is.
assert_attributes(given) ==
  \A i \in 1 .. Len(given.attributes) :
    Strictly(shift_preimage(given.attributes[i].mso_digest_offset_in_preimage, given, 34), LAMBDA s :
      /\ s.inside
      /\ bytes_at(s.bytes, 0, K_TAG32)
      /\ assert_attribute([preimage |-> given.attributes[i].preimage, field_locator |-> given.attributes[i].field_locator,
                           name |-> given.disclosed[i].name, value |-> given.disclosed[i].value,
                           expected_digest |-> SubSeq(s.bytes, 3, 34)]))

assert_valid_presentation(given) ==
  /\ assert_mso_sha256_hash(given)
  /\ assert_mso_doc_type(given)
  /\ assert_mso_validity(given)
  /\ assert_mso_device_key(given)
  /\ assert_mso_value_digests(given)
  /\ assert_attributes(given)

\* Codes are free: equal only for equal messages and keys.
compute_tag(message, av, ap) == <<message, av, ap>>
assert_mac_tags(given) ==
  /\ given.mac_e = compute_tag(given.issuer_sig_e, given.mac_av, given.mac_ap[1])
  /\ given.mac_device_pkx = compute_tag(given.device_pk[1], given.mac_av, given.mac_ap[2])
  /\ given.mac_device_pky = compute_tag(given.device_pk[2], given.mac_av, given.mac_ap[3])

assert_valid_presentation_and_macs(given) == assert_valid_presentation(given) /\ assert_mac_tags(given)

-----------------------------------------------------------------------------
(* The inputs of the circuit. *)

get_attribute(parsed, name) ==
  LET found == SelectSeq(parsed.attrs, LAMBDA a : a.name = name)
  IN IF found = <<>> THEN Err("Panic") ELSE Ok(found[1])
hash_input_of_parsed_mdoc(parsed, req_attr_ids, now) ==
  Then(ForEach(Ok(<<>>), req_attr_ids, LAMBDA acc, id : Then(acc, LAMBDA attrs :
         Then(get_attribute(parsed, id), LAMBDA a :
           Ok(Append(attrs, [a EXCEPT !.name = encode_cbor_string(a.name)]))))), LAMBDA attrs :
    Ok([attrs |-> attrs, now |-> now, suppress_doc_type_check |-> FALSE, expected_doc_type |-> parsed.doc_type,
        cbor_mso |-> parsed.cbor_mso, issuer_sig_e |-> parsed.issuer_sig_digest, device_pk |-> parsed.device_pk,
        offsets |-> parsed.offsets]))

\* Offsets into the map become offsets into the signed bytes, which start
\* with the prefix, a length, and a header of five bytes.  (A defect: the
\* length is forgotten.)
preimage_base_offset_Short == K_COSE1_PREFIX_LEN + 5
preimage_base_offset == K_COSE1_PREFIX_LEN + 7

compute_mac_tags(input, mac) ==
  [mac_e |-> compute_tag(input.issuer_sig_e, mac.av, mac.ap[1]),
   mac_device_pkx |-> compute_tag(input.device_pk[1], mac.av, mac.ap[2]),
   mac_device_pky |-> compute_tag(input.device_pk[2], mac.av, mac.ap[3])]

hash_given(input, mac) ==
  Then(sha_padding(input.cbor_mso, MaxShaBlocks), LAMBDA mso :
    Then(ForEach(Ok(<<>>), input.attrs, LAMBDA acc, a : Then(acc, LAMBDA done :
           Then(sha_padding(a.cbor_issuer_signed_item, AttrBlocks), LAMBDA p :
             Ok(Append(done, [padded_preimage |-> p.bytes, len |-> Len(a.cbor_issuer_signed_item),
                              mso_digest_offset |-> preimage_base_offset + a.mso_digest_offset_in_preimage,
                              field_locator |-> a.field_locator]))))), LAMBDA attrs :
      Ok([input |-> input, mac |-> mac, tags |-> compute_mac_tags(input, mac), preimage |-> mso.bytes, nblocks |-> mso.nblocks,
          offsets |-> [f \in DOMAIN input.offsets |-> preimage_base_offset + input.offsets[f]], attrs |-> attrs])))

\* Onto wires: bytes beyond a slot are dropped, its length is kept.
slot(bytes, n) == [data |-> shift_bitvec(0, n, bytes), len |-> Len(bytes) % 2^IndexBits]
evaluate_given(g) ==
  [disclosed |-> Build(Len(g.input.attrs), LAMBDA i :
     [name |-> slot(g.input.attrs[i].name, MaxName), value |-> slot(g.input.attrs[i].cbor_value, MaxValue)]),
   now |-> shift_bitvec(0, K_TIMESTAMP_LEN, g.input.now),
   suppress_doc_type_check |-> g.input.suppress_doc_type_check,
   expected_doc_type |-> slot(g.input.expected_doc_type, 32),
   preimage |-> [value |-> g.preimage, len |-> Len(g.input.cbor_mso)],
   nblocks |-> g.nblocks, issuer_sig_e |-> g.input.issuer_sig_e, device_pk |-> g.input.device_pk,
   offsets |-> g.offsets,
   attributes |-> Build(Len(g.attrs), LAMBDA i :
     LET a == g.attrs[i] IN
     [preimage |-> [data |-> a.padded_preimage, len |-> a.len],
      mso_digest_offset_in_preimage |-> a.mso_digest_offset,
      field_locator |-> [a.field_locator EXCEPT !.permutation = [j \in 1 .. 4 |-> (@ \div 4^(j - 1)) % 4]]]),
   mac_e |-> g.tags.mac_e, mac_device_pkx |-> g.tags.mac_device_pkx, mac_device_pky |-> g.tags.mac_device_pky,
   mac_av |-> g.mac.av, mac_ap |-> g.mac.ap]

\* From a credential to the inputs of the circuit.
presentation(mdoc, transcript, doc_type, names, now, mac) ==
  Then(parse_mdoc(mdoc, transcript, doc_type), LAMBDA parsed :
    Then(hash_input_of_parsed_mdoc(parsed, names, now), LAMBDA input :
      Then(hash_given(input, mac), LAMBDA g : Ok(evaluate_given(g)))))
=============================================================================
