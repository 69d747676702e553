---------------------------- MODULE MdocSession ----------------------------
(***************************************************************************)
(* A presentation of a mobile document (applications/mdoc_zk/runtime),     *)
(* generations 1 and 2: circuits are provided, the prover checks the       *)
(* request, parses the document, commits the witnesses of two circuits on  *)
(* one transcript, draws the MAC key that ties them, and proves both; the  *)
(* verifier replays this against its own request.                          *)
(*                                                                         *)
(* A zero-knowledge proof is the statement it is about: circuit, public    *)
(* inputs and everything on the transcript before it.  Modules ZkV1 and    *)
(* Ligero justify that one for another statement is refused.  The two      *)
(* fields are one small field; a byte string is a head that fits its slot, *)
(* a tail that does not, and a length.                                     *)
(***************************************************************************)
EXTENDS Integers, Sequences, FiniteSets, SequencesExt, FiniteSetsExt

CONSTANTS
  q,          \* order of the field of the MACs, a prime
  Scenarios,  \* <<prover's side, verifier's side, document, pads>>
  Damages     \* what may happen to a proof on its way

VARIABLES
  pc,
  gen,          \* generation of the proof system, 1 or 2
  prover,       \* what the prover was called with
  verifier,     \* what the verifier was called with
  doc,          \* the document the prover holds
  ap,           \* the prover's MAC pads, one for each half
  plog, av,     \* prover: transcript, MAC key
  wire,         \* the proof: <<macs, hash proof, signature proof>>
  damage,       \* what happened to it
  vlog, vav,    \* verifier: transcript, MAC key
  keylogs,      \* the transcripts from which keys were drawn
  result        \* error code of the role that stopped, or "ok"

vars == <<pc, gen, prover, verifier, doc, ap, plog, av, wire, damage, vlog, vav,
          keylogs, result>>

Halves == 1 .. 6       \* issuer digest and the two device key coordinates
F == 0 .. q - 1

\* Two encoded values that fit a slot and agree there are the same.
SlotsTell(d, r) ==
  \A i \in DOMAIN d.items, k \in DOMAIN r.attrs :
    LET v == d.items[i].value
        w == r.attrs[k].value
    IN v.head = w.head /\ v.len = w.len /\ w.len <= 64 /\ w.kind # "other" => v = w

\* The field of the MACs has no zero divisors.  Encoded strings have lengths.
ASSUME SessionAssumption ==
  /\ q \in Nat \ {0, 1}
  /\ \A a, b \in F : (a * b) % q = 0 => a = 0 \/ b = 0
  /\ Damages \subseteq {"none", "truncated", "extended", "mac", "hash", "sig", "proof"}
  /\ \A s \in Scenarios :
       /\ s.gen \in {1, 2}
       /\ s.pads \in [Halves -> F] /\ s.doc.m \in [Halves -> F]
       /\ s.doc.mso_len \in Nat /\ s.doc.until \in Nat
       /\ Len(s.doc.items) \in Nat /\ DOMAIN s.doc.items = 1 .. Len(s.doc.items)
       /\ \A i \in DOMAIN s.doc.items : s.doc.items[i].len \in Nat
       /\ \A r \in {s.prover, s.verifier} :
            /\ Len(r.attrs) \in Nat /\ DOMAIN r.attrs = 1 .. Len(r.attrs)
            /\ \A i \in DOMAIN r.attrs : r.attrs[i].value.len \in Nat
       /\ SlotsTell(s.doc, s.verifier)

\* The error of the first check that fails.
FirstError(checks) ==
  LET failed == {i \in DOMAIN checks : ~checks[i][1]} IN
  IF failed = {} THEN "ok" ELSE checks[Min(failed)][2]

-----------------------------------------------------------------------------
(***************************************************************************)
(* Circuits: specifications, archives and providers.  An archive has a     *)
(* combined id, a version, names of entries, and the circuits in them: for *)
(* how many attributes, in the layout of which version, and whether they   *)
(* are the ones compiled for presentations (genuine).  Ids are declared:   *)
(* no role computes the id of a payload, for circuits are trusted.         *)
(***************************************************************************)
is_supported_version_v1(version) == version \in 5 .. 7
is_supported_version_v2(version) == version \in {8}

\* ZK_SPECS of generation 1: one per version and number of attributes.
SpecTable == {[version |-> x, num_attributes |-> n, hash |-> <<x, n>>] : x \in 5 .. 7, n \in 1 .. 4}

\* read_archive
ReadArchive(file) == file.framing = "lfa2" /\ ~file.trailing

\* Mutant of from_compressed_v1: any archive will do.
from_compressed_v1_AnyId(spec, file) ==
  FirstError(<< <<ReadArchive(file), "CircuitParsingFailure">> >>)

from_compressed_v1(spec, file) ==
  FirstError(<< <<ReadArchive(file), "CircuitParsingFailure">>,
                <<file.id = spec.hash, "HashParsingFailure">> >>)

\* materialize_from, load.
materialize_v1(spec, file) ==
  IF spec \notin SpecTable THEN "InvalidZkSpecVersion"
  ELSE IF file.framing = "missing" THEN "GeneralFailure"
  ELSE from_compressed_v1(spec, file)

from_compressed_v2(spec, file) ==
  FirstError(<<
    <<is_supported_version_v2(spec.version), "InvalidZkSpecVersion">>,
    <<ReadArchive(file), "CircuitParsingFailure">>,
    <<file.id = spec.hash /\ file.version = spec.version, "HashParsingFailure">>,
    <<file.entries = {"sig", "hash"}, "CircuitParsingFailure">> >>)

\* read_next: a bundle carries its own specification.
read_next(spec, file) ==
  IF \/ file.framing = "missing"
     \/ spec.version # 8 \/ spec.num_attributes \notin 1 .. 4
  THEN "Err" ELSE from_compressed_v2(spec, file)

\* decompress_circuits of generation 1: an archive or two bare circuits, and
\* no comparison with the specification.
decompress_circuits_v1(file) ==
  CASE file.framing = "lfa2"  -> {"sig", "hash"} \subseteq file.entries
    [] file.framing = "plain" -> TRUE
    [] OTHER -> FALSE

\* for_spec of generation 2.
for_spec(spec, file) ==
  /\ ReadArchive(file)
  /\ file.entries = {"sig", "hash"}
  /\ file.id = spec.hash /\ file.version = spec.version
  /\ file.ids_match

-----------------------------------------------------------------------------
(***************************************************************************)
(* The request.                                                            *)
(***************************************************************************)
same_namespace_v1(attrs) == \A i \in DOMAIN attrs : attrs[i].ns = attrs[1].ns
same_namespace_v2(attrs) == \A i \in DOMAIN attrs : attrs[i].ns = attrs[1].ns

parse_pk_coordinate(key) == key # "malformed"

\* Mutant of public_inputs_fit: values of any length.
public_inputs_fit_AnyValue(r) ==
  r.now.len = 20 /\ Len(r.doc_type) <= 32 /\ \A i \in DOMAIN r.attrs : r.attrs[i].idlen <= 32

\* idlen is the length of the encoded name.
public_inputs_fit(r) ==
  /\ r.now.len = 20
  /\ Len(r.doc_type) <= 32
  /\ \A i \in DOMAIN r.attrs : r.attrs[i].idlen <= 32 /\ r.attrs[i].value.len <= 64

circuit_supports(r) == \A i \in DOMAIN r.attrs : r.attrs[i].value.kind # "other"

\* push_input_attrs, push_input_hash of generation 1 subtract lengths.
push_input_hash_v1_panics(r) ==
  \/ r.now.len > 20
  \/ \E i \in DOMAIN r.attrs :
       LET a == r.attrs[i] IN
       IF r.spec.version >= 7 THEN a.idlen > 32 \/ a.value.len > 64
       ELSE a.idlen + 13 + a.value.len > 96

ProverChecks_v1(r) ==
  FirstError(<< <<is_supported_version_v1(r.spec.version), "InvalidZkSpecVersion">>,
                <<same_namespace_v1(r.attrs), "NamespacesMissing">>,
                <<parse_pk_coordinate(r.key), "InvalidInput">>,
                <<decompress_circuits_v1(r.file), "CircuitParsingFailure">> >>)

ProverChecks_v2(r) ==
  FirstError(<< <<is_supported_version_v2(r.spec.version), "InvalidZkSpecVersion">>,
                <<Len(r.attrs) = r.spec.num_attributes, "InvalidInput">>,
                <<same_namespace_v2(r.attrs), "NamespacesMissing">>,
                <<public_inputs_fit(r), "InvalidInput">>,
                <<circuit_supports(r), "UnsupportedAttribute">>,
                <<parse_pk_coordinate(r.key), "InvalidInput">>,
                <<for_spec(r.spec, r.file), "CircuitParsingFailure">> >>)

VerifierChecks_v1(r) ==
  FirstError(<< <<is_supported_version_v1(r.spec.version), "InvalidZkSpecVersion">>,
                <<same_namespace_v1(r.attrs), "AttributeNumberMismatch">>,
                <<decompress_circuits_v1(r.file), "CircuitParsingFailure">> >>)

VerifierChecks_v2(r) ==
  FirstError(<< <<is_supported_version_v2(r.spec.version), "InvalidZkSpecVersion">>,
                <<Len(r.attrs) = r.spec.num_attributes, "AttributeNumberMismatch">>,
                <<same_namespace_v2(r.attrs), "AttributeNumberMismatch">>,
                <<public_inputs_fit(r), "InvalidInput">>,
                <<circuit_supports(r), "UnsupportedAttribute">>,
                <<parse_pk_coordinate(r.key), "InvalidInput">>,
                <<for_spec(r.spec, r.file), "CircuitParsingFailure">> >>)

-----------------------------------------------------------------------------
(***************************************************************************)
(* The document and the witnesses made of it.                              *)
(***************************************************************************)
Blocks(bytes) == (bytes + 9 + 63) \div 64

max_shablocks(version) == IF version <= 6 THEN 35 ELSE 40

\* validate_mso_layout: 18 bytes of header and 2 of length are in front.
ParseError(d) ==
  FirstError(<< <<d.mso_len + 20 <= 40 * 64 - 9, "TaggedMsoTooBig">>,
                <<d.parses, "MsoDecodingFailure">> >>)

\* get_attribute: the first item of that name, of whatever namespace.
get_attribute(d, id) == SelectInSeq(d.items, LAMBDA it : it.id = id)
Items(d, r) == [i \in DOMAIN r.attrs |-> d.items[get_attribute(d, r.attrs[i].id)]]

AttributesFound(d, r) == \A i \in DOMAIN r.attrs : get_attribute(d, r.attrs[i].id) # 0

\* Number of public inputs of a hash circuit of generation 1.
PublicCount_v1(version, n) == 1 + n * (IF version >= 7 THEN 784 ELSE 776) + 20 * 8 + 7

\* Does the number of public inputs suit the circuit?
PublicCountOk(r) ==
  IF gen = 1
  THEN PublicCount_v1(r.spec.version, Len(r.attrs)) = PublicCount_v1(r.file.layout, r.file.nattr)
  ELSE Len(r.attrs) = r.file.nattr

\* A signature is degenerate under a key if a number or a point that its
\* witness has to invert is zero: module Ecdsa's Panics says when.
Degenerate(d, r) == r.key \in d.issuer_sig.degenerate \/ d.device_sig.degenerate

\* push_witness_sig.  Generation 1 also unwraps the conversion of s, which is
\* reduced if it is below the order of the curve.
push_witness_sig_panics(d, r) ==
  \/ Degenerate(d, r)
  \/ gen = 1 /\ ~(d.issuer_sig.reduced /\ d.device_sig.reduced)

\* A requested value is shorter than the header its first byte announces.
HeaderCut(attr) == attr.value.len < attr.value.header

\* push_witness_hash, push_witness_attrs, push_witness_sig, and the assertion
\* in ZkProver::commit.  A build that checks for overflow panics where the
\* length of a header is subtracted; one that does not goes on.
WitnessError_v1(d, r, checked) ==
  IF Blocks(d.mso_len + 20) > max_shablocks(r.spec.version) THEN "panic"
  ELSE LET its == Items(d, r)
           bad == {i \in DOMAIN its : \/ its[i].len >= 256 \/ Blocks(its[i].len) > 2
                                      \/ checked /\ HeaderCut(r.attrs[i])}
       IN IF bad # {} THEN IF its[Min(bad)].len >= 256 THEN "AttributeTooLong" ELSE "panic"
          ELSE IF \/ push_witness_sig_panics(d, r) \/ ~PublicCountOk(r)
                  \/ push_input_hash_v1_panics(r)
               THEN "panic" ELSE "ok"

\* Mutant of WitnessError_v2: padding a long item is unwrapped.
WitnessError_v2_Unwraps(d, r) ==
  FirstError(<< <<Blocks(d.mso_len + 20) <= 40, "TaggedMsoTooBig">>,
                <<\A i \in DOMAIN r.attrs : Items(d, r)[i].len <= 119, "panic">>,
                <<~push_witness_sig_panics(d, r), "panic">>,
                <<Len(r.attrs) = r.file.nattr, "GeneralFailure">> >>)

\* K_MAX_ATTR_CBOR_LEN is 119; a witness of the wrong length is an error.
WitnessError_v2(d, r) ==
  FirstError(<< <<Blocks(d.mso_len + 20) <= 40, "TaggedMsoTooBig">>,
                <<\A i \in DOMAIN r.attrs : Items(d, r)[i].len <= 119, "AttributeTooLong">>,
                <<~push_witness_sig_panics(d, r), "panic">>,
                <<Len(r.attrs) = r.file.nattr, "GeneralFailure">> >>)

WitnessHash(d, r, pads) ==
  [m |-> d.m, ap |-> pads, items |-> Items(d, r), from |-> d.from, until |-> d.until,
   doc_type |-> d.doc_type]
WitnessSig(d, pads) == [m |-> d.m, ap |-> pads, issuer |-> d.issuer, signed |-> d.signed]

\* Tags of the two generations.
compute_mac_v1(key, pad, m) == ((key + pad) * m) % q
compute_mac_v2(key, pad, m) == (key * m + pad) % q
Tag(key, pad, m) == IF gen = 1 THEN compute_mac_v1(key, pad, m) ELSE compute_mac_v2(key, pad, m)

push_macs(m, key, pads) == [i \in Halves |-> Tag(key, pads[i], m[i])]

\* Public inputs.  Generation 2 copies what fits into a slot, and the length in
\* ten bits.
push_input_hash_v1(r, macs, key) ==
  [attrs |-> [i \in DOMAIN r.attrs |-> [id |-> r.attrs[i].id, value |-> r.attrs[i].value]],
   now |-> r.now, macs |-> macs, av |-> key]

\* Mutant of push_input_hash_v2: without the time of the presentation.
push_input_hash_v2_NoTime(r, macs, key) ==
  [attrs |-> [i \in DOMAIN r.attrs |->
                [id |-> r.attrs[i].id, head |-> r.attrs[i].value.head,
                 len |-> r.attrs[i].value.len % 1024]],
   now |-> prover.now, macs |-> macs, av |-> key, doc_type |-> r.doc_type]

push_input_hash_v2(r, macs, key) ==
  [attrs |-> [i \in DOMAIN r.attrs |->
                [id |-> r.attrs[i].id, head |-> r.attrs[i].value.head,
                 len |-> r.attrs[i].value.len % 1024]],
   now |-> r.now, macs |-> macs, av |-> key, doc_type |-> r.doc_type]

push_input_hash(r, macs, key) ==
  IF gen = 1 THEN push_input_hash_v1(r, macs, key) ELSE push_input_hash_v2(r, macs, key)

\* compute_transcript_hash
compute_transcript_hash(transcript, doc_type) == <<transcript, doc_type>>

push_input_sig(r, macs, key) ==
  [key |-> r.key, e2 |-> compute_transcript_hash(r.transcript, r.doc_type),
   macs |-> macs, av |-> key]

-----------------------------------------------------------------------------
(***************************************************************************)
(* The two statements.  The preimage of an attribute fills two blocks.     *)
(* The document type of generation 2 is compared up to its expected        *)
(* length.                                                                 *)
(***************************************************************************)
assert_mac(w, pub) == \A i \in Halves : pub.macs[i] = Tag(pub.av, w.ap[i], w.m[i])

assert_attributes(w, pub) ==
  /\ Len(w.items) = Len(pub.attrs)
  /\ \A i \in DOMAIN pub.attrs :
       LET it == w.items[i] IN
       /\ Blocks(it.len) = 2
       /\ it.id = pub.attrs[i].id
       /\ IF gen = 1 THEN it.value = pub.attrs[i].value
          ELSE it.value.head = pub.attrs[i].head /\ it.value.len = pub.attrs[i].len

assert_mso_validity(w, pub) == pub.now.len = 20 /\ w.from <= pub.now.t /\ pub.now.t <= w.until

assert_mso_doc_type(w, pub) == IsPrefix(pub.doc_type, w.doc_type)

assert_hash(circuit, w, pub) ==
  circuit.genuine =>
    /\ assert_attributes(w, pub) /\ assert_mso_validity(w, pub)
    /\ gen = 2 => assert_mso_doc_type(w, pub)
    /\ assert_mac(w, pub)

assert_signatures_and_macs(circuit, w, pub) ==
  circuit.genuine => /\ pub.key = w.issuer
                     /\ pub.e2 = w.signed
                     /\ assert_mac(w, pub)

Circuits(r) == [id |-> r.file.id, nattr |-> r.file.nattr, genuine |-> r.file.genuine]

-----------------------------------------------------------------------------
(***************************************************************************)
(* Actions.                                                                *)
(***************************************************************************)
Init ==
  /\ pc = "provide"
  /\ \E s \in Scenarios :
       /\ gen = s.gen /\ prover = s.prover /\ verifier = s.verifier
       /\ doc = s.doc /\ ap = s.pads
  /\ plog = <<>> /\ av = 0 /\ wire = <<>> /\ damage = "none"
  /\ vlog = <<>> /\ vav = 0 /\ keylogs = {} /\ result = "ok"

Stop(error) == pc' = "stopped" /\ result' = error

Advance(error, to) == IF error = "ok" THEN pc' = to /\ UNCHANGED result ELSE Stop(error)

\* A side gets its circuits from a provider, or directly from its caller.
Provided(r) ==
  IF r.via = "caller" THEN "ok"
  ELSE IF gen = 1 THEN materialize_v1(r.spec, r.file) ELSE read_next(r.spec, r.file)

Provide ==
  /\ pc = "provide"
  /\ Advance(IF Provided(prover) # "ok" THEN Provided(prover) ELSE Provided(verifier), "check")
  /\ UNCHANGED <<gen, prover, verifier, doc, ap, plog, av, wire, damage, vlog, vav, keylogs>>

\* run_mdoc_prover_inner, up to the circuits.
ProverCheck ==
  /\ pc = "check"
  /\ Advance(IF gen = 1 THEN ProverChecks_v1(prover) ELSE ProverChecks_v2(prover), "witness")
  /\ plog' = << <<"session", prover.transcript>> >>
  /\ UNCHANGED <<gen, prover, verifier, doc, ap, av, wire, damage, vlog, vav, keylogs>>

ParseMdoc ==
  /\ pc = "witness"
  /\ \E checked \in BOOLEAN :
       Advance(IF ParseError(doc) # "ok" THEN ParseError(doc)
               ELSE IF ~AttributesFound(doc, prover) THEN "AttributeNotFound"
               ELSE IF gen = 1 THEN WitnessError_v1(doc, prover, checked)
               ELSE WitnessError_v2(doc, prover), "commit_hash")
  /\ UNCHANGED <<gen, prover, verifier, doc, ap, plog, av, wire, damage, vlog, vav, keylogs>>

CommitHash ==
  /\ pc = "commit_hash"
  /\ plog' = Append(plog, <<"hash", WitnessHash(doc, prover, ap)>>)
  /\ pc' = "commit_sig"
  /\ UNCHANGED <<gen, prover, verifier, doc, ap, av, wire, damage, vlog, vav, keylogs, result>>

\* Mutant of CommitSig: the key is drawn first.
CommitSig_KeyFirst ==
  /\ pc = "commit_sig"
  /\ \E k \in F : av' = k
  /\ keylogs' = keylogs \cup {plog}
  /\ plog' = plog \o << <<"key">>, <<"sig", WitnessSig(doc, ap)>> >>
  /\ pc' = "prove_hash"
  /\ wire' = <<push_macs(doc.m, av', ap)>>
  /\ UNCHANGED <<gen, prover, verifier, doc, ap, damage, vlog, vav, result>>

CommitSig ==
  /\ pc = "commit_sig"
  /\ plog' = Append(plog, <<"sig", WitnessSig(doc, ap)>>)
  /\ pc' = "draw"
  /\ UNCHANGED <<gen, prover, verifier, doc, ap, av, wire, damage, vlog, vav, keylogs, result>>

\* The key, from both commitments, and the tags.
DrawKey ==
  /\ pc = "draw"
  /\ \E k \in F : av' = k
  /\ keylogs' = keylogs \cup {plog}
  /\ plog' = Append(plog, <<"key">>)
  /\ wire' = <<push_macs(doc.m, av', ap)>>
  /\ pc' = "prove_hash"
  /\ UNCHANGED <<gen, prover, verifier, doc, ap, damage, vlog, vav, result>>

\* A proof carries its commitment and is about circuit, inputs and transcript.
ProofOf(r, half, w, pub, log) ==
  [commitment |-> <<half, w>>, statement |-> <<Circuits(r), pub, log>>]

ProveHash ==
  /\ pc = "prove_hash"
  /\ LET w == WitnessHash(doc, prover, ap)
         pub == push_input_hash(prover, wire[1], av)
     IN IF ~assert_hash(Circuits(prover), w, pub)
        THEN Stop("GeneralFailure") /\ UNCHANGED <<plog, wire>>
        ELSE /\ wire' = Append(wire, ProofOf(prover, "hash", w, pub, plog))
             /\ plog' = Append(plog, <<"hash proof", pub>>)
             /\ pc' = "prove_sig" /\ UNCHANGED result
  /\ UNCHANGED <<gen, prover, verifier, doc, ap, av, damage, vlog, vav, keylogs>>

ProveSig ==
  /\ pc = "prove_sig"
  /\ LET w == WitnessSig(doc, ap)
         pub == push_input_sig(prover, wire[1], av)
     IN IF ~assert_signatures_and_macs(Circuits(prover), w, pub)
        THEN Stop("GeneralFailure") /\ UNCHANGED <<plog, wire>>
        ELSE /\ wire' = Append(wire, ProofOf(prover, "sig", w, pub, plog))
             /\ plog' = Append(plog, <<"sig proof", pub>>)
             /\ pc' = "sent" /\ UNCHANGED result
  /\ UNCHANGED <<gen, prover, verifier, doc, ap, av, damage, vlog, vav, keylogs>>

\* What the way to the verifier makes of the proof w.
Damaged(w, d) ==
  CASE d = "none"      -> w
    [] d = "truncated" -> SubSeq(w, 1, 2)
    [] d = "extended"  -> Append(w, <<>>)
    [] d = "mac"       -> [w EXCEPT ![1][1] = (@ + 1) % q]
    [] d = "hash"      -> [w EXCEPT ![2].commitment[2].until = @ + 1]
    [] d = "sig"       -> [w EXCEPT ![3].commitment[2].ap[6] = (@ + 1) % q]
    [] d = "proof"     -> [w EXCEPT ![3].statement = <<>>]

Deliver ==
  /\ pc = "sent"
  /\ \E d \in Damages : damage' = d /\ wire' = Damaged(wire, d)
  /\ pc' = "verify"
  /\ UNCHANGED <<gen, prover, verifier, doc, ap, plog, av, vlog, vav, keylogs, result>>

\* run_mdoc_verifier_inner, up to the proof; MdocProof::read.
VerifierCheck ==
  /\ pc = "verify"
  /\ LET e == IF gen = 1 THEN VerifierChecks_v1(verifier) ELSE VerifierChecks_v2(verifier) IN
     Advance(IF e # "ok" THEN e
             ELSE IF Len(wire) < 3 THEN "HashParsingFailure"
             ELSE IF Len(wire) > 3 THEN "GeneralFailure" ELSE "ok", "receive")
  /\ vlog' = << <<"session", verifier.transcript>> >>
  /\ UNCHANGED <<gen, prover, verifier, doc, ap, plog, av, wire, damage, vav, keylogs>>

\* Mutant of ReceiveCommitments: in the other order.
ReceiveCommitments_Swapped ==
  /\ pc = "receive"
  /\ vlog' = vlog \o <<wire[3].commitment, wire[2].commitment>>
  /\ pc' = "vdraw"
  /\ UNCHANGED <<gen, prover, verifier, doc, ap, plog, av, wire, damage, vav, keylogs, result>>

ReceiveCommitments ==
  /\ pc = "receive"
  /\ vlog' = vlog \o <<wire[2].commitment, wire[3].commitment>>
  /\ pc' = "vdraw"
  /\ UNCHANGED <<gen, prover, verifier, doc, ap, plog, av, wire, damage, vav, keylogs, result>>

\* Equal transcripts draw equal keys.
VerifierDraw ==
  /\ pc = "vdraw"
  /\ IF vlog \in keylogs THEN vav' = av ELSE \E k \in F : vav' = k
  /\ keylogs' = keylogs \cup {vlog}
  /\ vlog' = Append(vlog, <<"key">>)
  /\ pc' = "verify_hash"
  /\ UNCHANGED <<gen, prover, verifier, doc, ap, plog, av, wire, damage, result>>

VerifyHash ==
  /\ pc = "verify_hash"
  /\ LET pub == push_input_hash(verifier, wire[1], vav) IN
     /\ Advance(IF gen = 1 /\ push_input_hash_v1_panics(verifier) THEN "panic"
                ELSE IF ~PublicCountOk(verifier) THEN "AttributeNumberMismatch"
                ELSE IF wire[2].statement # <<Circuits(verifier), pub, vlog>> THEN "GeneralFailure"
                ELSE "ok", "verify_sig")
     /\ vlog' = Append(vlog, <<"hash proof", pub>>)
  /\ UNCHANGED <<gen, prover, verifier, doc, ap, plog, av, wire, damage, vav, keylogs>>

\* Mutant of VerifySig: the signature proof is not looked at.
VerifySig_Unchecked ==
  /\ pc = "verify_sig"
  /\ Advance(IF ~parse_pk_coordinate(verifier.key) THEN "InvalidInput" ELSE "ok", "accepted")
  /\ UNCHANGED <<gen, prover, verifier, doc, ap, plog, av, wire, damage, vlog, vav, keylogs>>

\* Generation 1 parses the issuer's key only here.
VerifySig ==
  /\ pc = "verify_sig"
  /\ Advance(IF ~parse_pk_coordinate(verifier.key) THEN "InvalidInput"
             ELSE IF wire[3].statement #
                     <<Circuits(verifier), push_input_sig(verifier, wire[1], vav), vlog>>
                  THEN "GeneralFailure" ELSE "ok", "accepted")
  /\ UNCHANGED <<gen, prover, verifier, doc, ap, plog, av, wire, damage, vlog, vav, keylogs>>

Done == pc \in {"accepted", "stopped"} /\ UNCHANGED vars

Next == \/ Provide \/ ProverCheck \/ ParseMdoc \/ CommitHash \/ CommitSig \/ DrawKey
        \/ ProveHash \/ ProveSig \/ Deliver
        \/ VerifierCheck \/ ReceiveCommitments \/ VerifierDraw \/ VerifyHash \/ VerifySig
        \/ Done

Spec == Init /\ [][Next]_vars

-----------------------------------------------------------------------------
(***************************************************************************)
(* Properties.                                                             *)
(***************************************************************************)
\* What run_mdoc_prover produces for a request, run_mdoc_verifier accepts for
\* the same request, whichever of the two draws, orders or checks first: the
\* verifier stops only if the proof was damaged or its side differs.
Complete ==
  (vlog # <<>> /\ pc = "stopped") => damage # "none" \/ verifier # prover

\* The verifier accepts only if it has seen exactly what the prover sent, and,
\* if its circuits are genuine, only if the document in the prover's hands has
\* every value the verifier asked for, is valid at the verifier's time, is
\* signed by the verifier's issuer, and the device has signed the verifier's
\* session and document type.  Namespaces are no public input, and the document
\* type is compared up to the length the verifier expects.  That circuits are
\* genuine is the caller's to know; a provider, and generation 2 always, refuse
\* an archive that declares another id than the specification's.
AcceptedMeansAsked ==
  /\ pc = "accepted" => damage = "none" /\ vlog = SubSeq(plog, 1, Len(vlog))
  /\ pc = "accepted" /\ (verifier.via = "provider" \/ gen = 2) =>
      verifier.file.id = verifier.spec.hash
  /\ pc = "accepted" /\ verifier.file.genuine =>
      /\ \A i \in DOMAIN verifier.attrs :
           \E j \in DOMAIN doc.items : /\ doc.items[j].id = verifier.attrs[i].id
                                       /\ doc.items[j].value = verifier.attrs[i].value
      /\ doc.from <= verifier.now.t /\ verifier.now.t <= doc.until
      /\ doc.issuer = verifier.key
      /\ doc.signed = <<verifier.transcript, verifier.doc_type>>
      /\ gen = 2 => IsPrefix(verifier.doc_type, doc.doc_type)

\* Whether a transcript holds the commitment of a half.
Holds(log, half) == \E i \in DOMAIN log : log[i][1] = half

\* Keys under which one tag fits the value m of the hash circuit and the value
\* m2 of the signature circuit; a pad that is not committed yet may be any.
Confusing(log, m, pad, m2, pad2) ==
  LET pads  == IF Holds(log, "hash") THEN {pad} ELSE F
      pads2 == IF Holds(log, "sig") THEN {pad2} ELSE F
  IN {k \in F : \E x \in pads, y \in pads2 : Tag(k, x, m) = Tag(k, y, m2)}

\* The MAC ties the circuits: whatever two different values a prover may have
\* committed on the transcripts the keys are drawn from, at most one key hides
\* the difference.
MacTies ==
  \A log \in keylogs : \A m, m2, pad, pad2 \in F :
    m # m2 => Cardinality(Confusing(log, m, pad, m2, pad2)) <= 1

\* Which calls may panic instead of answering with an error code.  A prover of
\* generation 2 panics for a degenerate signature and for nothing else; one of
\* generation 1 also where it subtracts a length that is too large, hashes more
\* blocks than its circuits have, or unwraps a number that is not reduced.  A
\* verifier panics only in generation 1, and only for its own request: no proof
\* can make it.
PanicsExplained ==
  /\ result = "panic" =>
       \/ Degenerate(doc, prover)
       \/ /\ gen = 1
          /\ \/ push_input_hash_v1_panics(prover) \/ push_input_hash_v1_panics(verifier)
             \/ ~PublicCountOk(prover)
             \/ ~(doc.issuer_sig.reduced /\ doc.device_sig.reduced)
             \/ \E i \in DOMAIN prover.attrs : HeaderCut(prover.attrs[i])
             \/ Blocks(doc.mso_len + 20) > 35
             \/ \E j \in DOMAIN doc.items : doc.items[j].len \in 120 .. 255
  /\ result = "panic" /\ vlog # <<>> => gen = 1 /\ push_input_hash_v1_panics(verifier)
=============================================================================
