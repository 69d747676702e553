------------------------- MODULE MdocSessionProofs -------------------------
(***************************************************************************)
(* Proofs about MdocSession, for every set of scenarios: requests,         *)
(* circuits and documents of both roles, and every damage to a proof.      *)
(***************************************************************************)
EXTENDS MdocSession, FiniteSetTheorems, NaturalsInduction, WellFoundedInduction, TLAPS

(***************************************************************************)
(* Sequences of early returns.                                             *)
(***************************************************************************)
LEMMA MinIsLeast ==
  ASSUME NEW T, T \subseteq Nat, T # {}
  PROVE  Min(T) \in T /\ \A y \in T : Min(T) <= y
<1>1. IsWellFoundedOn(OpToRel(<, Nat), Nat)
  BY NatLessThanWellFounded
<1>2. PICK x \in T : \A y \in T : ~(<<y, x>> \in OpToRel(<, Nat))
  BY <1>1, WFMin, Zenon
<1>3. \A y \in T : ~(y < x)
  BY <1>2 DEF OpToRel
<1>4. \A y \in T : x <= y
  BY <1>3
<1>5. \E z \in T : \A y \in T : z <= y
  BY <1>4
<1> QED
  BY <1>5, Zenon DEF Min

LEMMA FirstErrorIs ==
  ASSUME NEW n \in Nat, NEW checks, DOMAIN checks = 1 .. n
  PROVE  \/ FirstError(checks) = "ok" /\ \A i \in 1 .. n : checks[i][1]
         \/ \E i \in 1 .. n : ~checks[i][1] /\ FirstError(checks) = checks[i][2]
<1> DEFINE failed == {i \in DOMAIN checks : ~checks[i][1]}
<1>1. failed \subseteq Nat /\ failed \subseteq 1 .. n
  OBVIOUS
<1>2. FirstError(checks) = IF failed = {} THEN "ok" ELSE checks[Min(failed)][2]
  BY Zenon DEF FirstError
<1>3. CASE failed = {}
  BY <1>2, <1>3, Zenon
<1>4. CASE failed # {}
  <2>1. Min(failed) \in failed
    BY <1>1, <1>4, MinIsLeast
  <2>2. FirstError(checks) = checks[Min(failed)][2]
    BY <1>2, <1>4, Zenon
  <2> QED
    BY <1>1, <2>1, <2>2, Zenon
<1> QED
  BY <1>3, <1>4

\* All checks pass, or the error is the one of a check.
LEMMA ChecksOk ==
  ASSUME NEW n \in Nat, NEW checks, DOMAIN checks = 1 .. n,
         \A i \in 1 .. n : checks[i][2] # "ok"
  PROVE  FirstError(checks) = "ok" <=> \A i \in 1 .. n : checks[i][1]
BY FirstErrorIs, Zenon

LEMMA ChecksNotPanic ==
  ASSUME NEW n \in Nat, NEW checks, DOMAIN checks = 1 .. n,
         \A i \in 1 .. n : checks[i][2] # "panic"
  PROVE  FirstError(checks) # "panic"
BY FirstErrorIs

LEMMA FromCompressedV1 ==
  ASSUME NEW spec, NEW file
  PROVE  /\ from_compressed_v1(spec, file) # "panic"
         /\ from_compressed_v1(spec, file) = "ok" => file.id = spec.hash
<1> DEFINE c == << <<ReadArchive(file), "CircuitParsingFailure">>,
                   <<file.id = spec.hash, "HashParsingFailure">> >>
<1>1. DOMAIN c = 1 .. 2 /\ 2 \in Nat
  OBVIOUS
<1>2. \A i \in 1 .. 2 : c[i][2] # "panic" /\ c[i][2] # "ok"
  OBVIOUS
<1>3. c[2][1] = (file.id = spec.hash)
  OBVIOUS
<1>4. from_compressed_v1(spec, file) = FirstError(c)
  BY DEF from_compressed_v1
<1> HIDE DEF c
<1>5. FirstError(c) # "panic"
  BY <1>1, <1>2, ChecksNotPanic
<1>6. FirstError(c) = "ok" => \A i \in 1 .. 2 : c[i][1]
  BY <1>1, <1>2, ChecksOk
<1>7. 2 \in 1 .. 2
  OBVIOUS
<1> QED
  BY <1>3, <1>4, <1>5, <1>6, <1>7, Zenon

LEMMA FromCompressedV2 ==
  ASSUME NEW spec, NEW file
  PROVE  from_compressed_v2(spec, file) # "panic"
<1> DEFINE c ==
      << <<is_supported_version_v2(spec.version), "InvalidZkSpecVersion">>,
         <<ReadArchive(file), "CircuitParsingFailure">>,
         <<file.id = spec.hash /\ file.version = spec.version, "HashParsingFailure">>,
         <<file.entries = {"sig", "hash"}, "CircuitParsingFailure">> >>
<1>1. DOMAIN c = 1 .. 4 /\ 4 \in Nat
  OBVIOUS
<1>2. \A i \in 1 .. 4 : c[i][2] # "panic"
  OBVIOUS
<1>3. from_compressed_v2(spec, file) = FirstError(c)
  BY DEF from_compressed_v2
<1> HIDE DEF c
<1> QED
  BY <1>1, <1>2, <1>3, ChecksNotPanic

LEMMA VerifierChecksV2 ==
  ASSUME NEW r
  PROVE  /\ VerifierChecks_v2(r) # "panic"
         /\ VerifierChecks_v2(r) = "ok" <=>
              /\ is_supported_version_v2(r.spec.version)
              /\ Len(r.attrs) = r.spec.num_attributes
              /\ same_namespace_v2(r.attrs)
              /\ public_inputs_fit(r) /\ circuit_supports(r)
              /\ parse_pk_coordinate(r.key) /\ for_spec(r.spec, r.file)
<1> DEFINE c ==
      << <<is_supported_version_v2(r.spec.version), "InvalidZkSpecVersion">>,
         <<Len(r.attrs) = r.spec.num_attributes, "AttributeNumberMismatch">>,
         <<same_namespace_v2(r.attrs), "AttributeNumberMismatch">>,
         <<public_inputs_fit(r), "InvalidInput">>,
         <<circuit_supports(r), "UnsupportedAttribute">>,
         <<parse_pk_coordinate(r.key), "InvalidInput">>,
         <<for_spec(r.spec, r.file), "CircuitParsingFailure">> >>
<1>1. DOMAIN c = 1 .. 7 /\ 7 \in Nat
  OBVIOUS
<1>2. \A i \in 1 .. 7 : c[i][2] # "panic" /\ c[i][2] # "ok"
  OBVIOUS
<1>3. /\ c[1][1] = is_supported_version_v2(r.spec.version)
      /\ c[2][1] = (Len(r.attrs) = r.spec.num_attributes)
      /\ c[3][1] = same_namespace_v2(r.attrs)
      /\ c[4][1] = public_inputs_fit(r)
      /\ c[5][1] = circuit_supports(r)
      /\ c[6][1] = parse_pk_coordinate(r.key)
      /\ c[7][1] = for_spec(r.spec, r.file)
  OBVIOUS
<1>4. VerifierChecks_v2(r) = FirstError(c)
  BY DEF VerifierChecks_v2
<1> HIDE DEF c
<1>5. FirstError(c) # "panic"
  BY <1>1, <1>2, ChecksNotPanic
<1>6. FirstError(c) = "ok" <=> \A i \in 1 .. 7 : c[i][1]
  BY <1>1, <1>2, ChecksOk
<1>7. (\A i \in 1 .. 7 : c[i][1]) <=>
        c[1][1] /\ c[2][1] /\ c[3][1] /\ c[4][1] /\ c[5][1] /\ c[6][1] /\ c[7][1]
  <2>1. \A i \in 1 .. 7 : i = 1 \/ i = 2 \/ i = 3 \/ i = 4 \/ i = 5 \/ i = 6 \/ i = 7
    OBVIOUS
  <2> QED
    BY <2>1
<1> QED
  BY <1>3, <1>4, <1>5, <1>6, <1>7, Zenon

LEMMA ProverChecksV1 ==
  ASSUME NEW r
  PROVE  /\ ProverChecks_v1(r) # "panic"
         /\ ProverChecks_v1(r) = "ok" <=>
              /\ is_supported_version_v1(r.spec.version)
              /\ same_namespace_v1(r.attrs)
              /\ parse_pk_coordinate(r.key)
              /\ decompress_circuits_v1(r.file)
<1> DEFINE c ==
      << <<is_supported_version_v1(r.spec.version), "InvalidZkSpecVersion">>,
         <<same_namespace_v1(r.attrs), "NamespacesMissing">>,
         <<parse_pk_coordinate(r.key), "InvalidInput">>,
         <<decompress_circuits_v1(r.file), "CircuitParsingFailure">> >>
<1>1. DOMAIN c = 1 .. 4 /\ 4 \in Nat
  OBVIOUS
<1>2. \A i \in 1 .. 4 : c[i][2] # "panic" /\ c[i][2] # "ok"
  OBVIOUS
<1>3. /\ c[1][1] = (is_supported_version_v1(r.spec.version))
      /\ c[2][1] = (same_namespace_v1(r.attrs))
      /\ c[3][1] = (parse_pk_coordinate(r.key))
      /\ c[4][1] = (decompress_circuits_v1(r.file))
  OBVIOUS
<1>4. ProverChecks_v1(r) = FirstError(c)
  BY DEF ProverChecks_v1
<1> HIDE DEF c
<1>5. FirstError(c) # "panic"
  BY <1>1, <1>2, ChecksNotPanic
<1>6. FirstError(c) = "ok" <=> \A i \in 1 .. 4 : c[i][1]
  BY <1>1, <1>2, ChecksOk
<1>7. (\A i \in 1 .. 4 : c[i][1]) <=>
        c[1][1] /\ c[2][1] /\ c[3][1] /\ c[4][1]
  <2>1. \A i \in 1 .. 4 : i = 1 \/ i = 2 \/ i = 3 \/ i = 4
    OBVIOUS
  <2> QED
    BY <2>1
<1> QED
  BY <1>3, <1>4, <1>5, <1>6, <1>7, Zenon

LEMMA VerifierChecksV1 ==
  ASSUME NEW r
  PROVE  /\ VerifierChecks_v1(r) # "panic"
         /\ VerifierChecks_v1(r) = "ok" <=>
              /\ is_supported_version_v1(r.spec.version)
              /\ same_namespace_v1(r.attrs)
              /\ decompress_circuits_v1(r.file)
<1> DEFINE c ==
      << <<is_supported_version_v1(r.spec.version), "InvalidZkSpecVersion">>,
         <<same_namespace_v1(r.attrs), "AttributeNumberMismatch">>,
         <<decompress_circuits_v1(r.file), "CircuitParsingFailure">> >>
<1>1. DOMAIN c = 1 .. 3 /\ 3 \in Nat
  OBVIOUS
<1>2. \A i \in 1 .. 3 : c[i][2] # "panic" /\ c[i][2] # "ok"
  OBVIOUS
<1>3. /\ c[1][1] = (is_supported_version_v1(r.spec.version))
      /\ c[2][1] = (same_namespace_v1(r.attrs))
      /\ c[3][1] = (decompress_circuits_v1(r.file))
  OBVIOUS
<1>4. VerifierChecks_v1(r) = FirstError(c)
  BY DEF VerifierChecks_v1
<1> HIDE DEF c
<1>5. FirstError(c) # "panic"
  BY <1>1, <1>2, ChecksNotPanic
<1>6. FirstError(c) = "ok" <=> \A i \in 1 .. 3 : c[i][1]
  BY <1>1, <1>2, ChecksOk
<1>7. (\A i \in 1 .. 3 : c[i][1]) <=>
        c[1][1] /\ c[2][1] /\ c[3][1]
  <2>1. \A i \in 1 .. 3 : i = 1 \/ i = 2 \/ i = 3
    OBVIOUS
  <2> QED
    BY <2>1
<1> QED
  BY <1>3, <1>4, <1>5, <1>6, <1>7, Zenon

LEMMA ProverChecksV2 ==
  ASSUME NEW r
  PROVE  /\ ProverChecks_v2(r) # "panic"
         /\ ProverChecks_v2(r) = "ok" <=>
              /\ is_supported_version_v2(r.spec.version)
              /\ Len(r.attrs) = r.spec.num_attributes
              /\ same_namespace_v2(r.attrs)
              /\ public_inputs_fit(r)
              /\ circuit_supports(r)
              /\ parse_pk_coordinate(r.key)
              /\ for_spec(r.spec, r.file)
<1> DEFINE c ==
      << <<is_supported_version_v2(r.spec.version), "InvalidZkSpecVersion">>,
         <<Len(r.attrs) = r.spec.num_attributes, "InvalidInput">>,
         <<same_namespace_v2(r.attrs), "NamespacesMissing">>,
         <<public_inputs_fit(r), "InvalidInput">>,
         <<circuit_supports(r), "UnsupportedAttribute">>,
         <<parse_pk_coordinate(r.key), "InvalidInput">>,
         <<for_spec(r.spec, r.file), "CircuitParsingFailure">> >>
<1>1. DOMAIN c = 1 .. 7 /\ 7 \in Nat
  OBVIOUS
<1>2. \A i \in 1 .. 7 : c[i][2] # "panic" /\ c[i][2] # "ok"
  OBVIOUS
<1>3. /\ c[1][1] = (is_supported_version_v2(r.spec.version))
      /\ c[2][1] = (Len(r.attrs) = r.spec.num_attributes)
      /\ c[3][1] = (same_namespace_v2(r.attrs))
      /\ c[4][1] = (public_inputs_fit(r))
      /\ c[5][1] = (circuit_supports(r))
      /\ c[6][1] = (parse_pk_coordinate(r.key))
      /\ c[7][1] = (for_spec(r.spec, r.file))
  OBVIOUS
<1>4. ProverChecks_v2(r) = FirstError(c)
  BY DEF ProverChecks_v2
<1> HIDE DEF c
<1>5. FirstError(c) # "panic"
  BY <1>1, <1>2, ChecksNotPanic
<1>6. FirstError(c) = "ok" <=> \A i \in 1 .. 7 : c[i][1]
  BY <1>1, <1>2, ChecksOk
<1>7. (\A i \in 1 .. 7 : c[i][1]) <=>
        c[1][1] /\ c[2][1] /\ c[3][1] /\ c[4][1] /\ c[5][1] /\ c[6][1] /\ c[7][1]
  <2>1. \A i \in 1 .. 7 : i = 1 \/ i = 2 \/ i = 3 \/ i = 4 \/ i = 5 \/ i = 6 \/ i = 7
    OBVIOUS
  <2> QED
    BY <2>1
<1> QED
  BY <1>3, <1>4, <1>5, <1>6, <1>7, Zenon

LEMMA WitnessErrorV2 ==
  ASSUME NEW d, NEW r
  PROVE  /\ WitnessError_v2(d, r) = "panic" => push_witness_sig_panics(d, r)
         /\ WitnessError_v2(d, r) = "ok" => Len(r.attrs) = r.file.nattr
<1> DEFINE c ==
      << <<Blocks(d.mso_len + 20) <= 40, "TaggedMsoTooBig">>,
         <<\A i \in DOMAIN r.attrs : Items(d, r)[i].len <= 119, "AttributeTooLong">>,
         <<~push_witness_sig_panics(d, r), "panic">>,
         <<Len(r.attrs) = r.file.nattr, "GeneralFailure">> >>
<1>1. DOMAIN c = 1 .. 4 /\ 4 \in Nat
  OBVIOUS
<1>2. \A i \in 1 .. 4 : c[i][2] # "ok"
  OBVIOUS
<1>3. \A i \in 1 .. 4 : i # 3 => c[i][2] # "panic"
  OBVIOUS
<1>4. c[3][1] = ~push_witness_sig_panics(d, r) /\ c[4][1] = (Len(r.attrs) = r.file.nattr)
  OBVIOUS
<1>5. WitnessError_v2(d, r) = FirstError(c)
  BY DEF WitnessError_v2
<1> HIDE DEF c
<1>6. FirstError(c) = "ok" <=> \A i \in 1 .. 4 : c[i][1]
  BY <1>1, <1>2, ChecksOk
<1>7. (\A i \in 1 .. 4 : c[i][1]) => c[4][1]
  OBVIOUS
<1>8. FirstError(c) = "ok" \/ \E i \in 1 .. 4 : ~c[i][1] /\ FirstError(c) = c[i][2]
  BY <1>1, FirstErrorIs
<1>9. FirstError(c) = "panic" => ~c[3][1]
  BY <1>3, <1>8
<1> QED
  BY <1>4, <1>5, <1>6, <1>7, <1>9, Zenon

LEMMA ParseErrors ==
  ASSUME NEW d
  PROVE  /\ ParseError(d) # "panic"
         /\ ParseError(d) = "ok" <=>
              /\ d.mso_len + 20 <= 40 * 64 - 9
              /\ d.parses
<1> DEFINE c ==
      << <<d.mso_len + 20 <= 40 * 64 - 9, "TaggedMsoTooBig">>,
         <<d.parses, "MsoDecodingFailure">> >>
<1>1. DOMAIN c = 1 .. 2 /\ 2 \in Nat
  OBVIOUS
<1>2. \A i \in 1 .. 2 : c[i][2] # "panic" /\ c[i][2] # "ok"
  OBVIOUS
<1>3. /\ c[1][1] = (d.mso_len + 20 <= 40 * 64 - 9)
      /\ c[2][1] = (d.parses)
  OBVIOUS
<1>4. ParseError(d) = FirstError(c)
  BY DEF ParseError
<1> HIDE DEF c
<1>5. FirstError(c) # "panic"
  BY <1>1, <1>2, ChecksNotPanic
<1>6. FirstError(c) = "ok" <=> \A i \in 1 .. 2 : c[i][1]
  BY <1>1, <1>2, ChecksOk
<1>7. (\A i \in 1 .. 2 : c[i][1]) <=>
        c[1][1] /\ c[2][1]
  <2>1. \A i \in 1 .. 2 : i = 1 \/ i = 2
    OBVIOUS
  <2> QED
    BY <2>1
<1> QED
  BY <1>3, <1>4, <1>5, <1>6, <1>7, Zenon

-----------------------------------------------------------------------------
(***************************************************************************)
(* Panics.                                                                 *)
(***************************************************************************)
\* What the roles were called with is one of the scenarios.
Given ==
  \E s \in Scenarios : /\ gen = s.gen /\ prover = s.prover /\ verifier = s.verifier
                       /\ doc = s.doc /\ ap = s.pads

SideFacts(r) ==
  /\ Len(r.attrs) \in Nat /\ DOMAIN r.attrs = 1 .. Len(r.attrs)
  /\ \A i \in DOMAIN r.attrs : r.attrs[i].value.len \in Nat

DocFacts ==
  /\ ap \in [Halves -> F] /\ doc.m \in [Halves -> F]
  /\ doc.mso_len \in Nat /\ doc.until \in Nat
  /\ Len(doc.items) \in Nat /\ DOMAIN doc.items = 1 .. Len(doc.items)
  /\ \A i \in DOMAIN doc.items : doc.items[i].len \in Nat

LEMMA GivenFacts ==
  Given => gen \in {1, 2} /\ SideFacts(prover) /\ SideFacts(verifier) /\ DocFacts
<1> SUFFICES ASSUME Given
             PROVE  gen \in {1, 2} /\ SideFacts(prover) /\ SideFacts(verifier) /\ DocFacts
  OBVIOUS
<1>1. PICK s \in Scenarios :
        /\ gen = s.gen /\ prover = s.prover /\ verifier = s.verifier
        /\ doc = s.doc /\ ap = s.pads
  BY DEF Given
<1>2. gen \in {1, 2} /\ DocFacts
  BY <1>1, SessionAssumption DEF DocFacts
<1>3. SideFacts(prover) /\ SideFacts(verifier)
  BY <1>1, SessionAssumption DEF SideFacts
<1> QED
  BY <1>2, <1>3

\* An item that is asked for and found is one of the document's.
LEMMA ItemFound ==
  ASSUME DocFacts, NEW r, AttributesFound(doc, r), NEW i \in DOMAIN r.attrs
  PROVE  /\ get_attribute(doc, r.attrs[i].id) \in DOMAIN doc.items
         /\ Items(doc, r)[i] = doc.items[get_attribute(doc, r.attrs[i].id)]
<1> DEFINE id == r.attrs[i].id
           found == {x \in 1 .. Len(doc.items) : doc.items[x].id = id}
<1>1. get_attribute(doc, id) = IF found # {} THEN Min(found) ELSE 0
  BY DEF get_attribute, SelectInSeq
<1>2. get_attribute(doc, id) # 0
  BY DEF AttributesFound
<1>3. found # {}
  BY <1>1, <1>2
<1>4. found \subseteq Nat /\ found \subseteq DOMAIN doc.items
  BY DEF DocFacts
<1>5. Min(found) \in found
  BY <1>3, <1>4, MinIsLeast
<1>6. get_attribute(doc, id) \in DOMAIN doc.items
  BY <1>1, <1>3, <1>4, <1>5
<1> QED
  BY <1>6 DEF Items

\* Why a prover of generation 1 panics.
PanicCause ==
  \/ push_input_hash_v1_panics(prover) \/ push_input_hash_v1_panics(verifier)
  \/ ~PublicCountOk(prover)
  \/ ~(doc.issuer_sig.reduced /\ doc.device_sig.reduced)
  \/ \E i \in DOMAIN prover.attrs : HeaderCut(prover.attrs[i])
  \/ Blocks(doc.mso_len + 20) > 35
  \/ \E x \in DOMAIN doc.items : doc.items[x].len \in 120 .. 255

LEMMA WitnessPanics ==
  ASSUME Given, AttributesFound(doc, prover), NEW checked \in BOOLEAN,
         WitnessError_v1(doc, prover, checked) = "panic", gen = 1
  PROVE  Degenerate(doc, prover) \/ PanicCause
<1> DEFINE its == Items(doc, prover)
           bad == {i \in DOMAIN its : \/ its[i].len >= 256 \/ Blocks(its[i].len) > 2
                                      \/ checked /\ HeaderCut(prover.attrs[i])}
<1>0. DocFacts /\ SideFacts(prover)
  BY GivenFacts
<1>1. CASE Blocks(doc.mso_len + 20) > max_shablocks(prover.spec.version)
  <2>1. Blocks(doc.mso_len + 20) \in Int
    BY <1>0 DEF DocFacts, Blocks
  <2> QED
    BY <1>1, <2>1 DEF max_shablocks, PanicCause
<1>2. CASE /\ ~(Blocks(doc.mso_len + 20) > max_shablocks(prover.spec.version))
           /\ bad # {}
  <2>1. DOMAIN its = DOMAIN prover.attrs
    BY DEF Items
  <2>2. bad \subseteq Nat
    BY <1>0, <2>1 DEF SideFacts
  <2>3. Min(bad) \in bad
    BY <1>2, <2>2, MinIsLeast
  <2> DEFINE i == Min(bad)
             n == its[i].len
  <2>4. ~(n >= 256)
    BY <1>2 DEF WitnessError_v1
  <2>5. i \in DOMAIN prover.attrs /\ (Blocks(n) > 2 \/ HeaderCut(prover.attrs[i]))
    BY <2>1, <2>3, <2>4
  <2> HIDE DEF its, i
  <2>6. CASE HeaderCut(prover.attrs[i])
    BY <2>5, <2>6 DEF PanicCause
  <2>7. CASE Blocks(n) > 2
    <3>1. PICK x \in DOMAIN doc.items : its[i] = doc.items[x]
      BY <1>0, <2>5, ItemFound DEF its
    <3>2. n \in Nat
      BY <1>0, <3>1 DEF DocFacts
    <3>3. n \in 120 .. 255
      BY <2>4, <2>7, <3>2 DEF Blocks
    <3> QED
      BY <3>1, <3>3 DEF PanicCause
  <2> QED
    BY <2>5, <2>6, <2>7
<1>3. CASE /\ ~(Blocks(doc.mso_len + 20) > max_shablocks(prover.spec.version))
           /\ bad = {}
  <2>1. \/ push_witness_sig_panics(doc, prover) \/ ~PublicCountOk(prover)
        \/ push_input_hash_v1_panics(prover)
    BY <1>3 DEF WitnessError_v1
  <2> QED
    BY <2>1 DEF PanicCause, push_witness_sig_panics
<1> QED
  BY <1>1, <1>2, <1>3

Asked == <<gen, prover, verifier, doc, ap>>

LEMMA AskedKept == [Next]_vars => UNCHANGED Asked
BY DEF Next, vars, Asked, Provide, ProverCheck, ParseMdoc, CommitHash, CommitSig, DrawKey,
       ProveHash, ProveSig, Deliver, VerifierCheck, ReceiveCommitments, VerifierDraw,
       VerifyHash, VerifySig, Done

LEMMA GivenInit == Init => Given
BY DEF Init, Given

LEMMA GivenNext == Given /\ [Next]_vars => Given'
BY AskedKept DEF Given, Asked

LEMMA ProvidedNotPanic == ASSUME NEW r PROVE Provided(r) # "panic"
BY FromCompressedV1, FromCompressedV2 DEF Provided, materialize_v1, read_next

LEMMA ResultOf ==
  ASSUME NEW e, NEW to, Advance(e, to)
  PROVE  result' = result \/ result' = e
BY DEF Advance, Stop

-----------------------------------------------------------------------------
(***************************************************************************)
(* The session, phase by phase.                                            *)
(***************************************************************************)
HashWitness == WitnessHash(doc, prover, ap)
SigWitness == WitnessSig(doc, ap)
Macs == push_macs(doc.m, av, ap)
HashInput == push_input_hash(prover, Macs, av)
SigInput == push_input_sig(prover, Macs, av)

\* A transcript up to the commitments, the key and the hash proof.
Session(r) == <<"session", r.transcript>>
Committed(r, h, s) == <<Session(r), h, s>>
Keyed(r, h, s) == <<Session(r), h, s, <<"key">>>>
HashProven(r, h, s, pub) == <<Session(r), h, s, <<"key">>, <<"hash proof", pub>>>>

HashCommitment == <<"hash", HashWitness>>
SigCommitment == <<"sig", SigWitness>>

ProverCommitted == Committed(prover, HashCommitment, SigCommitment)
ProverKeyed == Keyed(prover, HashCommitment, SigCommitment)
ProverHashProven == HashProven(prover, HashCommitment, SigCommitment, HashInput)

HashProof == ProofOf(prover, "hash", HashWitness, HashInput, ProverKeyed)
SigProof == ProofOf(prover, "sig", SigWitness, SigInput, ProverHashProven)
Sent == <<Macs, HashProof, SigProof>>

VerifierCommitted == Committed(verifier, wire[2].commitment, wire[3].commitment)
VerifierKeyed == Keyed(verifier, wire[2].commitment, wire[3].commitment)
VerifierHashInput == push_input_hash(verifier, wire[1], vav)
VerifierHashProven ==
  HashProven(verifier, wire[2].commitment, wire[3].commitment, VerifierHashInput)

\* What has been checked by the time a role gets somewhere.
ProvidedOk == Provided(prover) = "ok" /\ Provided(verifier) = "ok"
CheckedOk ==
  /\ ProvidedOk
  /\ gen = 1 => ProverChecks_v1(prover) = "ok"
  /\ gen # 1 => ProverChecks_v2(prover) = "ok"
WitnessOk ==
  /\ CheckedOk
  /\ AttributesFound(doc, prover)
  /\ PublicCountOk(prover)
  /\ gen = 1 => ~push_input_hash_v1_panics(prover)
HashProvedOk == WitnessOk /\ assert_hash(Circuits(prover), HashWitness, HashInput)
ProvedOk ==
  HashProvedOk /\ assert_signatures_and_macs(Circuits(prover), SigWitness, SigInput)
DeliveredOk == ProvedOk /\ damage \in Damages /\ wire = Damaged(Sent, damage)
VerifierOk ==
  /\ gen = 1 => VerifierChecks_v1(verifier) = "ok"
  /\ gen # 1 => VerifierChecks_v2(verifier) = "ok"
ReceivedOk == DeliveredOk /\ VerifierOk /\ Len(wire) = 3

\* The prover's transcript at the end.
PlogDone == \E x : plog = Append(ProverHashProven, x)

Before == vlog = <<>> /\ keylogs = {}
Between == vlog = <<>> /\ keylogs = {ProverCommitted}

\* Equal transcripts have drawn equal keys.
SameKey == VerifierCommitted = ProverCommitted => vav = av

HashAccepted == wire[2].statement = <<Circuits(verifier), VerifierHashInput, VerifierKeyed>>
SigAccepted ==
  wire[3].statement =
    <<Circuits(verifier), push_input_sig(verifier, wire[1], vav), VerifierHashProven>>

PhProvide == Before
PhCheck == Before /\ ProvidedOk
PhWitness == Before /\ CheckedOk /\ plog = <<Session(prover)>>
PhCommitHash == Before /\ WitnessOk /\ plog = <<Session(prover)>>
PhCommitSig == Before /\ WitnessOk /\ plog = <<Session(prover), HashCommitment>>
PhDraw == Before /\ WitnessOk /\ plog = ProverCommitted
PhProveHash == Between /\ WitnessOk /\ plog = ProverKeyed /\ wire = <<Macs>>
PhProveSig ==
  Between /\ HashProvedOk /\ plog = ProverHashProven /\ wire = <<Macs, HashProof>>
PhSent == Between /\ ProvedOk /\ PlogDone /\ wire = Sent
PhVerify == Between /\ DeliveredOk /\ PlogDone
PhReceive ==
  /\ keylogs = {ProverCommitted} /\ ReceivedOk /\ PlogDone
  /\ vlog = <<Session(verifier)>>
PhVdraw ==
  /\ keylogs = {ProverCommitted} /\ ReceivedOk /\ PlogDone
  /\ vlog = VerifierCommitted
PhVerifyHash == ReceivedOk /\ PlogDone /\ SameKey /\ vlog = VerifierKeyed
PhVerifySig == ReceivedOk /\ PlogDone /\ SameKey /\ HashAccepted /\ vlog = VerifierHashProven
PhAccepted == PhVerifySig /\ SigAccepted

Phases ==
  /\ pc = "provide" => PhProvide
  /\ pc = "check" => PhCheck
  /\ pc = "witness" => PhWitness
  /\ pc = "commit_hash" => PhCommitHash
  /\ pc = "commit_sig" => PhCommitSig
  /\ pc = "draw" => PhDraw
  /\ pc = "prove_hash" => PhProveHash
  /\ pc = "prove_sig" => PhProveSig
  /\ pc = "sent" => PhSent
  /\ pc = "verify" => PhVerify
  /\ pc = "receive" => PhReceive
  /\ pc = "vdraw" => PhVdraw
  /\ pc = "verify_hash" => PhVerifyHash
  /\ pc = "verify_sig" => PhVerifySig
  /\ pc = "accepted" => PhAccepted

LEMMA PhaseOf ==
  \/ pc' = "stopped"
  \/ pc' = "provide" /\ PhProvide'
  \/ pc' = "check" /\ PhCheck'
  \/ pc' = "witness" /\ PhWitness'
  \/ pc' = "commit_hash" /\ PhCommitHash'
  \/ pc' = "commit_sig" /\ PhCommitSig'
  \/ pc' = "draw" /\ PhDraw'
  \/ pc' = "prove_hash" /\ PhProveHash'
  \/ pc' = "prove_sig" /\ PhProveSig'
  \/ pc' = "sent" /\ PhSent'
  \/ pc' = "verify" /\ PhVerify'
  \/ pc' = "receive" /\ PhReceive'
  \/ pc' = "vdraw" /\ PhVdraw'
  \/ pc' = "verify_hash" /\ PhVerifyHash'
  \/ pc' = "verify_sig" /\ PhVerifySig'
  \/ pc' = "accepted" /\ PhAccepted'
  => Phases'
BY DEF Phases

\* What depends on the call alone stays.
LEMMA AskedSame ==
  ASSUME UNCHANGED Asked
  PROVE  /\ HashWitness' = HashWitness /\ SigWitness' = SigWitness
         /\ HashCommitment' = HashCommitment /\ SigCommitment' = SigCommitment
         /\ Session(prover)' = Session(prover) /\ Session(verifier)' = Session(verifier)
         /\ ProverCommitted' = ProverCommitted /\ ProverKeyed' = ProverKeyed
         /\ ProvidedOk' = ProvidedOk /\ CheckedOk' = CheckedOk /\ WitnessOk' = WitnessOk
         /\ VerifierOk' = VerifierOk
<1>1. /\ gen' = gen /\ prover' = prover /\ verifier' = verifier
      /\ doc' = doc /\ ap' = ap
  BY DEF Asked
<1>2. HashWitness' = HashWitness /\ SigWitness' = SigWitness
  BY <1>1 DEF HashWitness, SigWitness
<1>3. HashCommitment' = HashCommitment /\ SigCommitment' = SigCommitment
  BY <1>2 DEF HashCommitment, SigCommitment
<1>4. Session(prover)' = Session(prover) /\ Session(verifier)' = Session(verifier)
  BY <1>1 DEF Session
<1>5. ProverCommitted' = ProverCommitted /\ ProverKeyed' = ProverKeyed
  BY <1>1, <1>3 DEF ProverCommitted, ProverKeyed
<1>6. ProvidedOk' = ProvidedOk
  BY <1>1 DEF ProvidedOk, Provided
<1>7. CheckedOk' = CheckedOk
  BY <1>1, <1>6 DEF CheckedOk
<1>8. WitnessOk' = WitnessOk
  BY <1>1, <1>7 DEF WitnessOk, PublicCountOk
<1>9. VerifierOk' = VerifierOk
  BY <1>1 DEF VerifierOk
<1> QED
  BY <1>2, <1>3, <1>4, <1>5, <1>6, <1>7, <1>8, <1>9

\* And what depends on the prover's key stays with the key.
LEMMA KeySame ==
  ASSUME UNCHANGED Asked, UNCHANGED av
  PROVE  /\ Macs' = Macs /\ HashInput' = HashInput /\ SigInput' = SigInput
         /\ ProverHashProven' = ProverHashProven
         /\ HashProof' = HashProof /\ SigProof' = SigProof /\ Sent' = Sent
         /\ HashProvedOk' = HashProvedOk /\ ProvedOk' = ProvedOk
<1>1. /\ gen' = gen /\ prover' = prover /\ verifier' = verifier
      /\ doc' = doc /\ ap' = ap
  BY DEF Asked
<1>2. Macs' = Macs
  BY <1>1 DEF Macs, push_macs, Tag
<1>3. HashInput' = HashInput /\ SigInput' = SigInput
  BY <1>1, <1>2 DEF HashInput, SigInput, push_input_hash, push_input_hash_v1,
     push_input_hash_v2, push_input_sig
<1>4. ProverHashProven' = ProverHashProven
  BY <1>1, <1>3, AskedSame DEF ProverHashProven
<1>5. HashProof' = HashProof /\ SigProof' = SigProof
  BY <1>1, <1>3, <1>4, AskedSame DEF HashProof, SigProof, ProofOf
<1>6. Sent' = Sent
  BY <1>2, <1>5 DEF Sent
<1>7. HashProvedOk' = HashProvedOk
  BY <1>1, <1>3, AskedSame DEF HashProvedOk, assert_hash, assert_attributes,
     assert_mso_validity, assert_mso_doc_type, assert_mac, Tag
<1>8. ProvedOk' = ProvedOk
  BY <1>1, <1>3, <1>7, AskedSame DEF ProvedOk, assert_signatures_and_macs, assert_mac, Tag
<1> QED
  BY <1>2, <1>3, <1>4, <1>5, <1>6, <1>7, <1>8

LEMMA AppendTuple ==
  ASSUME NEW S, NEW s \in Seq(S), NEW x \in S, NEW t \in Seq(S), Len(t) = Len(s) + 1,
         t[Len(t)] = x, \A i \in 1 .. Len(s) : t[i] = s[i]
  PROVE  Append(s, x) = t
OBVIOUS

LEMMA AppendOne ==
  ASSUME NEW a, NEW b
  PROVE  Append(<<a>>, b) = <<a, b>>
<1> DEFINE S == {a, b}
           s == <<a>>
           t == <<a, b>>
<1>1. /\ s \in Seq(S) /\ b \in S /\ t \in Seq(S)
      /\ Len(t) = Len(s) + 1 /\ t[Len(t)] = b
  OBVIOUS
<1>2. \A i \in 1 .. Len(s) : t[i] = s[i]
  OBVIOUS
<1> QED
  BY <1>1, <1>2, AppendTuple, Zenon

LEMMA AppendTwo ==
  ASSUME NEW a, NEW b, NEW c
  PROVE  Append(<<a, b>>, c) = <<a, b, c>>
<1> DEFINE S == {a, b, c}
           s == <<a, b>>
           t == <<a, b, c>>
<1>1. /\ s \in Seq(S) /\ c \in S /\ t \in Seq(S)
      /\ Len(t) = Len(s) + 1 /\ t[Len(t)] = c
  OBVIOUS
<1>2. \A i \in 1 .. Len(s) : t[i] = s[i]
  OBVIOUS
<1> QED
  BY <1>1, <1>2, AppendTuple, Zenon

LEMMA AppendThree ==
  ASSUME NEW a, NEW b, NEW c, NEW d
  PROVE  Append(<<a, b, c>>, d) = <<a, b, c, d>>
<1> DEFINE S == {a, b, c, d}
           s == <<a, b, c>>
           t == <<a, b, c, d>>
<1>1. /\ s \in Seq(S) /\ d \in S /\ t \in Seq(S)
      /\ Len(t) = Len(s) + 1 /\ t[Len(t)] = d
  OBVIOUS
<1>2. \A i \in 1 .. Len(s) : t[i] = s[i]
  OBVIOUS
<1> QED
  BY <1>1, <1>2, AppendTuple, Zenon

LEMMA AppendFour ==
  ASSUME NEW a, NEW b, NEW c, NEW d, NEW e
  PROVE  Append(<<a, b, c, d>>, e) = <<a, b, c, d, e>>
<1> DEFINE S == {a, b, c, d, e}
           s == <<a, b, c, d>>
           t == <<a, b, c, d, e>>
<1>1. /\ s \in Seq(S) /\ e \in S /\ t \in Seq(S)
      /\ Len(t) = Len(s) + 1 /\ t[Len(t)] = e
  OBVIOUS
<1>2. \A i \in 1 .. Len(s) : t[i] = s[i]
  OBVIOUS
<1> QED
  BY <1>1, <1>2, AppendTuple, Zenon

LEMMA AdvanceCases ==
  ASSUME NEW e, NEW to, Advance(e, to)
  PROVE  (e = "ok" /\ pc' = to) \/ (e # "ok" /\ pc' = "stopped")
BY DEF Advance, Stop

LEMMA ProvidePhase == Phases /\ Provide => Phases'
<1> SUFFICES ASSUME Phases, Provide PROVE Phases'
  OBVIOUS
<1>1. PhProvide /\ UNCHANGED Asked /\ UNCHANGED <<vlog, keylogs>>
  BY DEF Phases, Provide, Asked
<1> DEFINE e == IF Provided(prover) # "ok" THEN Provided(prover) ELSE Provided(verifier)
<1>a. Advance(e, "check") /\ (e = "ok" => ProvidedOk)
  BY DEF Provide, ProvidedOk
<1> HIDE DEF e
<1>2. pc' = "stopped" \/ (pc' = "check" /\ ProvidedOk)
  BY <1>a DEF Advance, Stop
<1>3. pc' = "check" => PhCheck'
  BY <1>1, <1>2, AskedSame DEF PhProvide, PhCheck, Before
<1> QED
  BY <1>2, <1>3, PhaseOf

LEMMA ProverCheckPhase == Phases /\ ProverCheck => Phases'
<1> SUFFICES ASSUME Phases, ProverCheck PROVE Phases'
  OBVIOUS
<1>1. PhCheck /\ UNCHANGED Asked /\ UNCHANGED <<vlog, keylogs>>
  BY DEF Phases, ProverCheck, Asked
<1> DEFINE e == IF gen = 1 THEN ProverChecks_v1(prover) ELSE ProverChecks_v2(prover)
<1>a. Advance(e, "witness") /\ (e = "ok" => CheckedOk)
  BY <1>1 DEF ProverCheck, CheckedOk, PhCheck
<1> HIDE DEF e
<1>2. pc' = "stopped" \/ (pc' = "witness" /\ CheckedOk)
  BY <1>a DEF Advance, Stop
<1>3. plog' = <<Session(prover)>>
  BY DEF ProverCheck, Session
<1>4. pc' = "witness" => PhWitness'
  BY <1>1, <1>2, <1>3, AskedSame DEF PhCheck, PhWitness, Before
<1> QED
  BY <1>2, <1>4, PhaseOf

LEMMA WitnessPasses ==
  ASSUME Given, CheckedOk, AttributesFound(doc, prover),
         NEW checked, gen = 1 => WitnessError_v1(doc, prover, checked) = "ok",
         gen # 1 => WitnessError_v2(doc, prover) = "ok"
  PROVE  WitnessOk
<1>1. CASE gen = 1
  BY <1>1 DEF WitnessError_v1, WitnessOk
<1>2. CASE gen # 1
  <2>1. Len(prover.attrs) = prover.file.nattr
    BY <1>2, WitnessErrorV2
  <2> QED
    BY <1>2, <2>1 DEF WitnessOk, PublicCountOk
<1> QED
  BY <1>1, <1>2

LEMMA ParseMdocPhase == Given /\ Phases /\ ParseMdoc => Phases'
<1> SUFFICES ASSUME Given, Phases, ParseMdoc PROVE Phases'
  OBVIOUS
<1>1. PhWitness /\ UNCHANGED Asked /\ UNCHANGED <<plog, vlog, keylogs>>
  BY DEF Phases, ParseMdoc, Asked
<1>2. PICK checked :
        \/ pc' = "stopped"
        \/ /\ pc' = "commit_hash" /\ AttributesFound(doc, prover)
           /\ gen = 1 => WitnessError_v1(doc, prover, checked) = "ok"
           /\ gen # 1 => WitnessError_v2(doc, prover) = "ok"
  BY AdvanceCases DEF ParseMdoc
<1>3. pc' = "stopped" \/ (pc' = "commit_hash" /\ WitnessOk)
  <2>1. CheckedOk
    BY <1>1 DEF PhWitness
  <2> QED
    BY <1>2, <2>1, WitnessPasses, Zenon
<1>4. pc' = "commit_hash" => PhCommitHash'
  BY <1>1, <1>3, AskedSame DEF PhWitness, PhCommitHash, Before
<1> QED
  BY <1>3, <1>4, PhaseOf

LEMMA CommitHashPhase == Phases /\ CommitHash => Phases'
<1> SUFFICES ASSUME Phases, CommitHash PROVE Phases'
  OBVIOUS
<1>1. PhCommitHash /\ UNCHANGED Asked /\ UNCHANGED <<vlog, keylogs>> /\ pc' = "commit_sig"
  BY DEF Phases, CommitHash, Asked
<1>2. plog' = <<Session(prover), HashCommitment>>
  BY <1>1, AppendOne DEF CommitHash, PhCommitHash, HashCommitment, HashWitness
<1>3. PhCommitSig'
  BY <1>1, <1>2, AskedSame DEF PhCommitHash, PhCommitSig, Before
<1> QED
  BY <1>1, <1>3, PhaseOf

LEMMA CommitSigPhase == Phases /\ CommitSig => Phases'
<1> SUFFICES ASSUME Phases, CommitSig PROVE Phases'
  OBVIOUS
<1>1. PhCommitSig /\ UNCHANGED Asked /\ UNCHANGED <<vlog, keylogs>> /\ pc' = "draw"
  BY DEF Phases, CommitSig, Asked
<1>2. plog' = ProverCommitted
  BY <1>1, AppendTwo DEF CommitSig, PhCommitSig, SigCommitment, SigWitness,
     ProverCommitted, Committed
<1>3. PhDraw'
  BY <1>1, <1>2, AskedSame DEF PhCommitSig, PhDraw, Before
<1> QED
  BY <1>1, <1>3, PhaseOf

LEMMA DrawKeyPhase == Phases /\ DrawKey => Phases'
<1> SUFFICES ASSUME Phases, DrawKey PROVE Phases'
  OBVIOUS
<1>1. PhDraw /\ UNCHANGED Asked /\ vlog' = vlog /\ pc' = "prove_hash"
  BY DEF Phases, DrawKey, Asked
<1>2. plog' = ProverKeyed
  BY <1>1, AppendThree DEF DrawKey, PhDraw, ProverCommitted, Committed, ProverKeyed, Keyed
<1>3. keylogs' = {ProverCommitted}
  BY <1>1 DEF DrawKey, PhDraw, Before
<1>4. wire' = <<Macs'>>
  BY <1>1 DEF DrawKey, Macs, push_macs, Tag, Asked
<1>5. PhProveHash'
  BY <1>1, <1>2, <1>3, <1>4, AskedSame DEF PhDraw, PhProveHash, Before, Between
<1> QED
  BY <1>1, <1>5, PhaseOf

LEMMA ProveHashPhase == Phases /\ ProveHash => Phases'
<1> SUFFICES ASSUME Phases, ProveHash PROVE Phases'
  OBVIOUS
<1>1. PhProveHash /\ UNCHANGED Asked /\ UNCHANGED av /\ UNCHANGED <<vlog, keylogs>>
  BY DEF Phases, ProveHash, Asked
<1>2. wire[1] = Macs
  BY <1>1 DEF PhProveHash
<1>3. \/ pc' = "stopped"
      \/ /\ assert_hash(Circuits(prover), HashWitness, HashInput)
         /\ wire' = Append(wire, ProofOf(prover, "hash", HashWitness, HashInput, plog))
         /\ plog' = Append(plog, <<"hash proof", HashInput>>)
         /\ pc' = "prove_sig"
  BY <1>2 DEF ProveHash, Stop, HashWitness, HashInput
<1>4. ASSUME pc' # "stopped" PROVE PhProveSig'
  <2>1. plog' = ProverHashProven
    BY <1>1, <1>3, <1>4, AppendFour DEF PhProveHash, ProverKeyed, Keyed,
       ProverHashProven, HashProven
  <2>2. wire' = <<Macs, HashProof>>
    BY <1>1, <1>3, <1>4, AppendOne DEF PhProveHash, HashProof
  <2>3. HashProvedOk
    BY <1>1, <1>3, <1>4 DEF PhProveHash, HashProvedOk
  <2> QED
    BY <1>1, <2>1, <2>2, <2>3, AskedSame, KeySame DEF PhProveHash, PhProveSig, Between
<1> QED
  BY <1>3, <1>4, PhaseOf

LEMMA ProveSigPhase == Phases /\ ProveSig => Phases'
<1> SUFFICES ASSUME Phases, ProveSig PROVE Phases'
  OBVIOUS
<1>1. PhProveSig /\ UNCHANGED Asked /\ UNCHANGED av /\ UNCHANGED <<vlog, keylogs>>
  BY DEF Phases, ProveSig, Asked
<1>2. wire[1] = Macs
  BY <1>1 DEF PhProveSig
<1>3. \/ pc' = "stopped"
      \/ /\ assert_signatures_and_macs(Circuits(prover), SigWitness, SigInput)
         /\ wire' = Append(wire, ProofOf(prover, "sig", SigWitness, SigInput, plog))
         /\ plog' = Append(plog, <<"sig proof", SigInput>>)
         /\ pc' = "sent"
  BY <1>2 DEF ProveSig, Stop, SigWitness, SigInput
<1>4. ASSUME pc' # "stopped" PROVE PhSent'
  <2>1. \E x : plog' = Append(ProverHashProven, x)
    BY <1>1, <1>3, <1>4 DEF PhProveSig
  <2>2. wire' = Sent
    BY <1>1, <1>3, <1>4, AppendTwo DEF PhProveSig, SigProof, Sent
  <2>3. ProvedOk
    BY <1>1, <1>3, <1>4 DEF PhProveSig, ProvedOk
  <2> QED
    BY <1>1, <2>1, <2>2, <2>3, AskedSame, KeySame DEF PhProveSig, PhSent, Between, PlogDone
<1> QED
  BY <1>3, <1>4, PhaseOf

\* What the verifier has read stays with the proof and its key.
LEMMA WireSame ==
  ASSUME UNCHANGED Asked, UNCHANGED av, UNCHANGED <<wire, damage, plog>>
  PROVE  /\ VerifierCommitted' = VerifierCommitted /\ VerifierKeyed' = VerifierKeyed
         /\ DeliveredOk' = DeliveredOk /\ ReceivedOk' = ReceivedOk /\ PlogDone' = PlogDone
<1>1. wire' = wire /\ damage' = damage /\ plog' = plog /\ verifier' = verifier
  BY DEF Asked
<1>2. VerifierCommitted' = VerifierCommitted /\ VerifierKeyed' = VerifierKeyed
  BY <1>1 DEF VerifierCommitted, VerifierKeyed
<1>3. DeliveredOk' = DeliveredOk
  BY <1>1, KeySame DEF DeliveredOk
<1>4. ReceivedOk' = ReceivedOk
  BY <1>1, <1>3, AskedSame DEF ReceivedOk
<1>5. PlogDone' = PlogDone
  BY <1>1, KeySame DEF PlogDone
<1> QED
  BY <1>2, <1>3, <1>4, <1>5

LEMMA VerifierSame ==
  ASSUME UNCHANGED Asked, UNCHANGED av, UNCHANGED <<wire, damage, plog>>, UNCHANGED vav
  PROVE  /\ VerifierHashInput' = VerifierHashInput
         /\ VerifierHashProven' = VerifierHashProven
         /\ SameKey' = SameKey
         /\ HashAccepted' = HashAccepted /\ SigAccepted' = SigAccepted
<1>1. wire' = wire /\ verifier' = verifier /\ gen' = gen /\ prover' = prover
  BY DEF Asked
<1>2. VerifierHashInput' = VerifierHashInput
  BY <1>1 DEF VerifierHashInput, push_input_hash, push_input_hash_v1, push_input_hash_v2
<1>3. VerifierHashProven' = VerifierHashProven
  BY <1>1, <1>2 DEF VerifierHashProven
<1>4. SameKey' = SameKey
  BY WireSame, AskedSame DEF SameKey
<1>5. HashAccepted' = HashAccepted
  BY <1>1, <1>2, WireSame DEF HashAccepted
<1>6. SigAccepted' = SigAccepted
  BY <1>1, <1>3 DEF SigAccepted
<1> QED
  BY <1>2, <1>3, <1>4, <1>5, <1>6

LEMMA DeliverPhase == Phases /\ Deliver => Phases'
<1> SUFFICES ASSUME Phases, Deliver PROVE Phases'
  OBVIOUS
<1>1. PhSent /\ UNCHANGED Asked /\ UNCHANGED av /\ UNCHANGED <<plog, vlog, keylogs>>
      /\ pc' = "verify"
  BY DEF Phases, Deliver, Asked
<1>2. damage' \in Damages /\ wire' = Damaged(Sent, damage')
  BY <1>1 DEF Deliver, PhSent
<1>3. PhVerify'
  BY <1>1, <1>2, AskedSame, KeySame
  DEF PhSent, PhVerify, Between, DeliveredOk, PlogDone
<1> QED
  BY <1>1, <1>3, PhaseOf

LEMMA DamagedLength ==
  ASSUME DeliveredOk
  PROVE  Len(wire) \in Nat
<1>1. /\ damage \in {"none", "truncated", "extended", "mac", "hash", "sig", "proof"}
      /\ wire = Damaged(Sent, damage)
  BY SessionAssumption DEF DeliveredOk
<1> DEFINE S == {Sent[1], Sent[2], Sent[3], <<>>}
<1>2. Sent \in Seq(S) /\ Len(Sent) = 3
  BY DEF Sent
<1> QED
  BY <1>1, <1>2 DEF Damaged

LEMMA NeitherSide ==
  ASSUME NEW n \in Nat, ~(n < 3), ~(n > 3)
  PROVE  n = 3
OBVIOUS

LEMMA VerifierCheckPhase == Phases /\ VerifierCheck => Phases'
<1> SUFFICES ASSUME Phases, VerifierCheck PROVE Phases'
  OBVIOUS
<1>1. /\ PhVerify /\ UNCHANGED Asked /\ UNCHANGED av
      /\ UNCHANGED <<wire, damage, plog>> /\ UNCHANGED keylogs
  BY DEF Phases, VerifierCheck, Asked
<1> DEFINE e == IF gen = 1 THEN VerifierChecks_v1(verifier) ELSE VerifierChecks_v2(verifier)
           x == IF e # "ok" THEN e
                ELSE IF Len(wire) < 3 THEN "HashParsingFailure"
                ELSE IF Len(wire) > 3 THEN "GeneralFailure" ELSE "ok"
<1>2. Advance(x, "receive")
  BY DEF VerifierCheck
<1>3. DeliveredOk /\ Len(wire) \in Nat
  BY <1>1, DamagedLength DEF PhVerify
<1>4. x = "ok" => ReceivedOk
  <2>1. x = "ok" => e = "ok" /\ ~(Len(wire) < 3) /\ ~(Len(wire) > 3)
    BY Zenon
  <2>2. e = "ok" => VerifierOk
    BY DEF VerifierOk
  <2>3. Len(wire) \in Nat /\ ~(Len(wire) < 3) /\ ~(Len(wire) > 3) => Len(wire) = 3
    BY NeitherSide, Zenon
  <2> HIDE DEF x, e
  <2> QED
    BY <1>3, <2>1, <2>2, <2>3, Zenon DEF ReceivedOk
<1> HIDE DEF x
<1>5. pc' = "stopped" \/ (pc' = "receive" /\ ReceivedOk)
  BY <1>2, <1>4 DEF Advance, Stop
<1>6. vlog' = <<Session(verifier)>>
  BY DEF VerifierCheck, Session
<1>7. pc' = "receive" => PhReceive'
  BY <1>1, <1>5, <1>6, AskedSame, WireSame DEF PhVerify, PhReceive, Between
<1> QED
  BY <1>5, <1>7, PhaseOf

LEMMA ConcatTuple ==
  ASSUME NEW S, NEW s \in Seq(S), NEW u \in Seq(S), NEW t \in Seq(S),
         Len(t) = Len(s) + Len(u), \A i \in 1 .. Len(s) : t[i] = s[i],
         \A i \in 1 .. Len(u) : t[Len(s) + i] = u[i]
  PROVE  s \o u = t
OBVIOUS

LEMMA ConcatOneTwo ==
  ASSUME NEW a, NEW b, NEW c
  PROVE  <<a>> \o <<b, c>> = <<a, b, c>>
<1> DEFINE S == {a, b, c}
           s == <<a>>
           u == <<b, c>>
           t == <<a, b, c>>
<1>1. s \in Seq(S) /\ u \in Seq(S) /\ t \in Seq(S) /\ Len(t) = Len(s) + Len(u)
  OBVIOUS
<1>2. \A i \in 1 .. Len(s) : t[i] = s[i]
  OBVIOUS
<1>3. \A i \in 1 .. Len(u) : t[Len(s) + i] = u[i]
  OBVIOUS
<1> QED
  BY <1>1, <1>2, <1>3, ConcatTuple, Zenon

LEMMA ReceivePhase == Phases /\ ReceiveCommitments => Phases'
<1> SUFFICES ASSUME Phases, ReceiveCommitments PROVE Phases'
  OBVIOUS
<1>1. /\ PhReceive /\ UNCHANGED Asked /\ UNCHANGED av
      /\ UNCHANGED <<wire, damage, plog>> /\ UNCHANGED keylogs /\ pc' = "vdraw"
  BY DEF Phases, ReceiveCommitments, Asked
<1>2. vlog' = VerifierCommitted
  BY <1>1, ConcatOneTwo
  DEF ReceiveCommitments, PhReceive, VerifierCommitted, Committed
<1>3. PhVdraw'
  BY <1>1, <1>2, AskedSame, WireSame DEF PhReceive, PhVdraw
<1> QED
  BY <1>1, <1>3, PhaseOf

LEMMA VerifierDrawPhase == Phases /\ VerifierDraw => Phases'
<1> SUFFICES ASSUME Phases, VerifierDraw PROVE Phases'
  OBVIOUS
<1>1. /\ PhVdraw /\ UNCHANGED Asked /\ UNCHANGED av
      /\ UNCHANGED <<wire, damage, plog>> /\ pc' = "verify_hash"
  BY DEF Phases, VerifierDraw, Asked
<1>2. vlog' = VerifierKeyed
  BY <1>1, AppendThree
  DEF VerifierDraw, PhVdraw, VerifierCommitted, Committed, VerifierKeyed, Keyed
<1>3. VerifierCommitted = ProverCommitted => vav' = av
  BY <1>1 DEF VerifierDraw, PhVdraw
<1>4. SameKey'
  BY <1>1, <1>3, AskedSame, WireSame DEF SameKey
<1>5. PhVerifyHash'
  BY <1>1, <1>2, <1>4, WireSame DEF PhVdraw, PhVerifyHash
<1> QED
  BY <1>1, <1>5, PhaseOf

LEMMA VerifyHashPhase == Phases /\ VerifyHash => Phases'
<1> SUFFICES ASSUME Phases, VerifyHash PROVE Phases'
  OBVIOUS
<1>1. /\ PhVerifyHash /\ UNCHANGED Asked /\ UNCHANGED av
      /\ UNCHANGED <<wire, damage, plog>> /\ UNCHANGED vav
  BY DEF Phases, VerifyHash, Asked
<1> DEFINE x == IF gen = 1 /\ push_input_hash_v1_panics(verifier) THEN "panic"
                ELSE IF ~PublicCountOk(verifier) THEN "AttributeNumberMismatch"
                ELSE IF wire[2].statement # <<Circuits(verifier), VerifierHashInput, vlog>>
                THEN "GeneralFailure" ELSE "ok"
<1>2. Advance(x, "verify_sig") /\ vlog' = Append(vlog, <<"hash proof", VerifierHashInput>>)
  BY DEF VerifyHash, VerifierHashInput
<1>3. x = "ok" => HashAccepted
  BY <1>1 DEF PhVerifyHash, HashAccepted
<1> HIDE DEF x
<1>4. pc' = "stopped" \/ (pc' = "verify_sig" /\ HashAccepted)
  BY <1>2, <1>3 DEF Advance, Stop
<1>5. vlog' = VerifierHashProven
  BY <1>1, <1>2, AppendFour
  DEF PhVerifyHash, VerifierKeyed, Keyed, VerifierHashProven, HashProven
<1>6. pc' = "verify_sig" => PhVerifySig'
  BY <1>1, <1>4, <1>5, WireSame, VerifierSame DEF PhVerifyHash, PhVerifySig
<1> QED
  BY <1>4, <1>6, PhaseOf

LEMMA VerifySigPhase == Phases /\ VerifySig => Phases'
<1> SUFFICES ASSUME Phases, VerifySig PROVE Phases'
  OBVIOUS
<1>1. /\ PhVerifySig /\ UNCHANGED Asked /\ UNCHANGED av
      /\ UNCHANGED <<wire, damage, plog>> /\ UNCHANGED vav /\ UNCHANGED vlog
  BY DEF Phases, VerifySig, Asked
<1> DEFINE x == IF ~parse_pk_coordinate(verifier.key) THEN "InvalidInput"
                ELSE IF wire[3].statement #
                        <<Circuits(verifier), push_input_sig(verifier, wire[1], vav), vlog>>
                     THEN "GeneralFailure" ELSE "ok"
<1>2. Advance(x, "accepted")
  BY DEF VerifySig
<1>3. x = "ok" => SigAccepted
  BY <1>1 DEF PhVerifySig, SigAccepted
<1> HIDE DEF x
<1>4. pc' = "stopped" \/ (pc' = "accepted" /\ SigAccepted)
  BY <1>2, <1>3 DEF Advance, Stop
<1>5. pc' = "accepted" => PhAccepted'
  BY <1>1, <1>4, WireSame, VerifierSame DEF PhVerifySig, PhAccepted
<1> QED
  BY <1>4, <1>5, PhaseOf

LEMMA StutterPhase == Phases /\ UNCHANGED vars => Phases'
<1> SUFFICES ASSUME Phases, UNCHANGED vars PROVE Phases'
  OBVIOUS
<1>1. /\ UNCHANGED Asked /\ UNCHANGED av /\ UNCHANGED <<wire, damage, plog>>
      /\ UNCHANGED vav /\ UNCHANGED <<vlog, keylogs>>
  BY DEF vars, Asked
<1>2. /\ pc' = pc /\ plog' = plog /\ wire' = wire /\ vlog' = vlog /\ keylogs' = keylogs
  BY DEF vars
<1>3. Before' = Before /\ Between' = Between
  BY <1>1, <1>2, AskedSame DEF Before, Between
<1>4. /\ PhProvide' = PhProvide /\ PhCheck' = PhCheck /\ PhWitness' = PhWitness
      /\ PhCommitHash' = PhCommitHash /\ PhCommitSig' = PhCommitSig /\ PhDraw' = PhDraw
  BY <1>1, <1>2, <1>3, AskedSame
  DEF PhProvide, PhCheck, PhWitness, PhCommitHash, PhCommitSig, PhDraw
<1>5. /\ PhProveHash' = PhProveHash /\ PhProveSig' = PhProveSig /\ PhSent' = PhSent
      /\ PhVerify' = PhVerify
  BY <1>1, <1>2, <1>3, AskedSame, KeySame, WireSame
  DEF PhProveHash, PhProveSig, PhSent, PhVerify
<1>6. PhReceive' = PhReceive /\ PhVdraw' = PhVdraw
  BY <1>1, <1>2, AskedSame, WireSame DEF PhReceive, PhVdraw
<1>7. /\ PhVerifyHash' = PhVerifyHash /\ PhVerifySig' = PhVerifySig
      /\ PhAccepted' = PhAccepted
  BY <1>1, <1>2, WireSame, VerifierSame DEF PhVerifyHash, PhVerifySig, PhAccepted
<1> QED
  BY <1>2, <1>4, <1>5, <1>6, <1>7 DEF Phases

LEMMA PhasesInit == Init => Phases
BY DEF Init, Phases, PhProvide, Before

LEMMA PhasesNext == Given /\ Phases /\ [Next]_vars => Phases'
BY ProvidePhase, ProverCheckPhase, ParseMdocPhase, CommitHashPhase, CommitSigPhase,
   DrawKeyPhase, ProveHashPhase, ProveSigPhase, DeliverPhase, VerifierCheckPhase,
   ReceivePhase, VerifierDrawPhase, VerifyHashPhase, VerifySigPhase, StutterPhase
DEF Next, Done

-----------------------------------------------------------------------------
(***************************************************************************)
(* Which calls panic.                                                      *)
(***************************************************************************)
\* Nothing follows a panic.
PanicStops == result = "panic" => pc = "stopped"

LEMMA StopsOf ==
  ASSUME NEW e, NEW to, Advance(e, to)
  PROVE  result' = result \/ pc' = "stopped"
BY DEF Advance, Stop

LEMMA PanicStopsNext == PanicStops /\ [Next]_vars => PanicStops'
<1> SUFFICES ASSUME PanicStops, [Next]_vars, result' = "panic" PROVE pc' = "stopped"
  BY DEF PanicStops
<1>1. CASE result = "panic"
  <2>1. pc = "stopped"
    BY <1>1 DEF PanicStops
  <2> QED
    BY <2>1 DEF Next, vars, Done, Provide, ProverCheck, ParseMdoc, CommitHash, CommitSig, DrawKey,
                ProveHash, ProveSig, Deliver, VerifierCheck, ReceiveCommitments, VerifierDraw,
                VerifyHash, VerifySig
<1>2. CASE result # "panic"
  <2>1. CASE Provide \/ ProverCheck \/ ParseMdoc \/ VerifierCheck \/ VerifyHash \/ VerifySig
    BY <1>2, <2>1, StopsOf DEF Provide, ProverCheck, ParseMdoc, VerifierCheck, VerifyHash, VerifySig
  <2>2. CASE ProveHash \/ ProveSig
    BY <1>2, <2>2 DEF ProveHash, ProveSig, Stop
  <2>3. CASE UNCHANGED result
    BY <1>2, <2>3
  <2> QED
    BY <2>1, <2>2, <2>3
    DEF Next, vars, CommitHash, CommitSig, DrawKey, Deliver, ReceiveCommitments, VerifierDraw, Done
<1> QED
  BY <1>1, <1>2

\* The causes depend on the call alone.
Explained ==
  /\ result = "panic" => Degenerate(doc, prover) \/ (gen = 1 /\ PanicCause)
  /\ result = "panic" /\ vlog # <<>> => gen = 1 /\ push_input_hash_v1_panics(verifier)

LEMMA ExplainedIs == Explained <=> PanicsExplained
BY DEF Explained, PanicsExplained, PanicCause

LEMMA CausesKept ==
  UNCHANGED Asked =>
    /\ (Degenerate(doc, prover) \/ (gen = 1 /\ PanicCause))
         => (Degenerate(doc, prover) \/ (gen = 1 /\ PanicCause))'
    /\ gen = 1 /\ push_input_hash_v1_panics(verifier)
         => (gen = 1 /\ push_input_hash_v1_panics(verifier))'
BY DEF Asked, PanicCause, PublicCountOk

LEMMA PanicsNext == Given /\ Phases /\ PanicStops /\ Explained /\ [Next]_vars => Explained'
<1> SUFFICES ASSUME Given, Phases, PanicStops, Explained, [Next]_vars, result' = "panic"
             PROVE  /\ Degenerate(doc, prover) \/ (gen = 1 /\ PanicCause)
                    /\ vlog' # <<>> => gen = 1 /\ push_input_hash_v1_panics(verifier)
  BY AskedKept, CausesKept DEF Explained
<1>1. CASE result = "panic"
  <2>1. pc = "stopped"
    BY <1>1 DEF PanicStops
  <2>2. vlog' = vlog
    BY <2>1 DEF Next, vars, Done, Provide, ProverCheck, ParseMdoc, CommitHash, CommitSig, DrawKey,
                ProveHash, ProveSig, Deliver, VerifierCheck, ReceiveCommitments, VerifierDraw,
                VerifyHash, VerifySig
  <2> QED
    BY <1>1, <2>2 DEF Explained
<1>2. CASE result # "panic"
  <2>1. CASE Provide
    BY <1>2, <2>1, ResultOf, ProvidedNotPanic DEF Provide
  <2>2. CASE ProverCheck
    BY <1>2, <2>2, ResultOf, ProverChecksV1, ProverChecksV2 DEF ProverCheck
  <2>3. CASE ParseMdoc
    <3>1. PICK checked \in BOOLEAN :
            Advance(IF ParseError(doc) # "ok" THEN ParseError(doc)
                    ELSE IF ~AttributesFound(doc, prover) THEN "AttributeNotFound"
                    ELSE IF gen = 1 THEN WitnessError_v1(doc, prover, checked)
                    ELSE WitnessError_v2(doc, prover), "commit_hash")
      BY <2>3 DEF ParseMdoc
    <3>2. vlog' = <<>>
      BY <2>3 DEF ParseMdoc, Phases, PhWitness, Before
    <3> DEFINE e == IF ParseError(doc) # "ok" THEN ParseError(doc)
                    ELSE IF ~AttributesFound(doc, prover) THEN "AttributeNotFound"
                    ELSE IF gen = 1 THEN WitnessError_v1(doc, prover, checked)
                    ELSE WitnessError_v2(doc, prover)
    <3>3. e = "panic"
      BY <1>2, <3>1, ResultOf
    <3>4. ParseError(doc) # "panic"
      BY ParseErrors
    <3>5. CASE gen = 1
      <4>1. AttributesFound(doc, prover) /\ WitnessError_v1(doc, prover, checked) = "panic"
        BY <3>3, <3>4, <3>5
      <4> QED
        BY <3>2, <3>5, <4>1, WitnessPanics
    <3>6. CASE gen # 1
      <4>1. WitnessError_v2(doc, prover) = "panic"
        BY <3>3, <3>4, <3>6
      <4>2. push_witness_sig_panics(doc, prover)
        BY <4>1, WitnessErrorV2
      <4> QED
        BY <3>2, <3>6, <4>2 DEF push_witness_sig_panics
    <3> QED
      BY <3>5, <3>6
  <2>4. CASE VerifierCheck
    BY <1>2, <2>4, ResultOf, VerifierChecksV1, VerifierChecksV2 DEF VerifierCheck
  <2>5. CASE VerifyHash
    <3> DEFINE pub == push_input_hash(verifier, wire[1], vav)
               e == IF gen = 1 /\ push_input_hash_v1_panics(verifier) THEN "panic"
                    ELSE IF ~PublicCountOk(verifier) THEN "AttributeNumberMismatch"
                    ELSE IF wire[2].statement # <<Circuits(verifier), pub, vlog>>
                    THEN "GeneralFailure" ELSE "ok"
    <3>1. Advance(e, "verify_sig")
      BY <2>5 DEF VerifyHash
    <3>2. e = "panic" => gen = 1 /\ push_input_hash_v1_panics(verifier)
      OBVIOUS
    <3> HIDE DEF e
    <3>3. e = "panic"
      BY <1>2, <3>1, ResultOf
    <3> QED
      BY <3>2, <3>3 DEF PanicCause
  <2>6. CASE VerifySig
    BY <1>2, <2>6, ResultOf DEF VerifySig
  <2>7. CASE ProveHash \/ ProveSig
    BY <1>2, <2>7 DEF ProveHash, ProveSig, Stop
  <2>8. CASE UNCHANGED result
    BY <1>2, <2>8
  <2> QED
    BY <2>1, <2>2, <2>3, <2>4, <2>5, <2>6, <2>7, <2>8
    DEF Next, vars, CommitHash, CommitSig, DrawKey, Deliver, ReceiveCommitments, VerifierDraw, Done
<1> QED
  BY <1>1, <1>2

\* For every request, circuit and document: a prover of generation 2 panics
\* only for a degenerate signature, one of generation 1 also for the lengths
\* and numbers named, and a verifier only in generation 1 and for its own
\* request, whatever proof it is given.
THEOREM PanicsBounded == Spec => []PanicsExplained
<1>1. Init => PanicStops /\ Explained
  BY DEF Init, PanicStops, Explained
<1> QED
  BY <1>1, GivenInit, GivenNext, PhasesInit, PhasesNext, PanicStopsNext, PanicsNext, ExplainedIs, PTL
  DEF Spec

-----------------------------------------------------------------------------
(***************************************************************************)
(* The MAC ties the circuits.                                              *)
(***************************************************************************)
\* Equal remainders differ by a multiple.
LEMMA SameRemainder ==
  ASSUME NEW x \in Int, NEW y \in Int, x % q = y % q
  PROVE  \E d \in Int : x - y = q * d
<1>0. q \in Nat \ {0}
  BY SessionAssumption
<1> DEFINE a == x \div q
           b == y \div q
<1>1. a \in Int /\ x = q * a + (x % q)
  BY <1>0
<1>2. b \in Int /\ y = q * b + (y % q)
  BY <1>0
<1>3. x % q \in Int
  BY <1>0
<1> HIDE DEF a, b
<1>4. q * (a - b) = q * a - q * b
  BY <1>0, <1>1, <1>2
<1>5. x - y = q * (a - b)
  <2> DEFINE t == x % q
             u == q * a
             w == q * b
  <2>1. u \in Int /\ w \in Int /\ t \in Int
    BY <1>0, <1>1, <1>2, <1>3
  <2>2. x = u + t /\ y = w + t
    BY <1>1, <1>2
  <2>3. q * (a - b) = u - w
    BY <1>4
  <2> HIDE DEF t, u, w
  <2> QED
    BY <2>1, <2>2, <2>3
<1> QED
  BY <1>1, <1>2, <1>5

LEMMA NoRemainder ==
  ASSUME NEW a \in F, NEW b \in F, NEW d \in Int, a * b = q * d
  PROVE  a = 0 \/ b = 0
<1>0. q \in Nat \ {0} /\ a \in Nat /\ b \in Nat
  BY SessionAssumption DEF F
<1>1. (q * d) % q = 0
  BY <1>0
<1>2. (a * b) % q = 0
  BY <1>1
<1> QED
  BY <1>2, SessionAssumption

LEMMA ProductVanishes ==
  ASSUME NEW a \in F, NEW b \in F, NEW c \in F, NEW e \in F, NEW d \in Int,
         (a - b) * (c - e) = q * d
  PROVE  a = b \/ c = e
<1>0. q \in Nat \ {0} /\ a \in Nat /\ b \in Nat /\ c \in Nat /\ e \in Nat
  BY SessionAssumption DEF F
<1>1. q * (0 - d) = 0 - q * d /\ 0 - d \in Int
  BY <1>0
<1>2. /\ (b - a) * (c - e) = 0 - (a - b) * (c - e)
      /\ (a - b) * (e - c) = 0 - (a - b) * (c - e)
      /\ (b - a) * (e - c) = (a - b) * (c - e)
  BY <1>0
<1>3. CASE a >= b /\ c >= e
  <2>1. a - b \in F /\ c - e \in F
    BY <1>0, <1>3 DEF F
  <2>2. a - b = 0 \/ c - e = 0
    BY <2>1, NoRemainder
  <2> QED
    BY <1>0, <2>2
<1>4. CASE b >= a /\ c >= e
  <2>1. b - a \in F /\ c - e \in F
    BY <1>0, <1>4 DEF F
  <2>2. b - a = 0 \/ c - e = 0
    BY <1>1, <1>2, <2>1, NoRemainder
  <2> QED
    BY <1>0, <2>2
<1>5. CASE a >= b /\ e >= c
  <2>1. a - b \in F /\ e - c \in F
    BY <1>0, <1>5 DEF F
  <2>2. a - b = 0 \/ e - c = 0
    BY <1>1, <1>2, <2>1, NoRemainder
  <2> QED
    BY <1>0, <2>2
<1>6. CASE b >= a /\ e >= c
  <2>1. b - a \in F /\ e - c \in F
    BY <1>0, <1>6 DEF F
  <2>2. b - a = 0 \/ e - c = 0
    BY <1>2, <2>1, NoRemainder
  <2> QED
    BY <1>0, <2>2
<1> QED
  BY <1>0, <1>3, <1>4, <1>5, <1>6

\* Two keys under which the tags of two different values agree are the same.
LEMMA OneKey ==
  ASSUME NEW k \in F, NEW l \in F, NEW m \in F, NEW m2 \in F, NEW x \in F, NEW y \in F,
         Tag(k, x, m) = Tag(k, y, m2), Tag(l, x, m) = Tag(l, y, m2), m # m2
  PROVE  k = l
<1>0. /\ q \in Nat \ {0} /\ k \in Nat /\ l \in Nat /\ m \in Nat /\ m2 \in Nat
      /\ x \in Nat /\ y \in Nat
  BY SessionAssumption DEF F
<1>1. (k - l) * (m - m2) = (k * m - k * m2) - (l * m - l * m2)
  BY <1>0
<1>2. \A d, e \in Int : q * (d - e) = q * d - q * e
  BY <1>0
<1>3. CASE gen = 1
  <2>1. /\ ((k + x) * m) % q = ((k + y) * m2) % q
        /\ ((l + x) * m) % q = ((l + y) * m2) % q
    BY <1>3 DEF Tag, compute_mac_v1
  <2>2. PICK d \in Int : (k + x) * m - (k + y) * m2 = q * d
    <3>1. (k + x) * m \in Int /\ (k + y) * m2 \in Int
      BY <1>0
    <3> QED
      BY <2>1, <3>1, SameRemainder, Zenon
  <2>3. PICK e \in Int : (l + x) * m - (l + y) * m2 = q * e
    <3>1. (l + x) * m \in Int /\ (l + y) * m2 \in Int
      BY <1>0
    <3> QED
      BY <2>1, <3>1, SameRemainder, Zenon
  <2>4. /\ (k + x) * m = k * m + x * m /\ (k + y) * m2 = k * m2 + y * m2
        /\ (l + x) * m = l * m + x * m /\ (l + y) * m2 = l * m2 + y * m2
    BY <1>0
  <2>5. (k * m - k * m2) - (l * m - l * m2) = q * d - q * e
    <3> DEFINE A == k * m  B == k * m2  C == l * m  D == l * m2  X == x * m  Y == y * m2
    <3>1. /\ A \in Int /\ B \in Int /\ C \in Int /\ D \in Int /\ X \in Int /\ Y \in Int
          /\ q * d \in Int /\ q * e \in Int
      BY <1>0
    <3>2. (A + X) - (B + Y) = q * d /\ (C + X) - (D + Y) = q * e
      BY <2>2, <2>3, <2>4
    <3> HIDE DEF A, B, C, D, X, Y
    <3>3. (A - B) - (C - D) = q * d - q * e
      BY <3>1, <3>2
    <3> QED
      BY <3>3 DEF A, B, C, D
  <2>6. (k - l) * (m - m2) = q * (d - e) /\ d - e \in Int
    BY <1>1, <1>2, <2>5
  <2> QED
    BY <2>6, ProductVanishes
<1>4. CASE gen # 1
  <2>1. /\ (k * m + x) % q = (k * m2 + y) % q
        /\ (l * m + x) % q = (l * m2 + y) % q
    BY <1>4 DEF Tag, compute_mac_v2
  <2>2. PICK d \in Int : (k * m + x) - (k * m2 + y) = q * d
    <3>1. (k * m + x) \in Int /\ (k * m2 + y) \in Int
      BY <1>0
    <3> QED
      BY <2>1, <3>1, SameRemainder, Zenon
  <2>3. PICK e \in Int : (l * m + x) - (l * m2 + y) = q * e
    <3>1. (l * m + x) \in Int /\ (l * m2 + y) \in Int
      BY <1>0
    <3> QED
      BY <2>1, <3>1, SameRemainder, Zenon
  <2>5. (k * m - k * m2) - (l * m - l * m2) = q * d - q * e
    <3> DEFINE A == k * m  B == k * m2  C == l * m  D == l * m2
    <3>1. /\ A \in Int /\ B \in Int /\ C \in Int /\ D \in Int
          /\ q * d \in Int /\ q * e \in Int
      BY <1>0
    <3>2. (A + x) - (B + y) = q * d /\ (C + x) - (D + y) = q * e
      BY <2>2, <2>3
    <3> HIDE DEF A, B, C, D
    <3>3. (A - B) - (C - D) = q * d - q * e
      BY <1>0, <3>1, <3>2
    <3> QED
      BY <3>3 DEF A, B, C, D
  <2>6. (k - l) * (m - m2) = q * (d - e) /\ d - e \in Int
    BY <1>1, <1>2, <2>5
  <2> QED
    BY <2>6, ProductVanishes
<1> QED
  BY <1>3, <1>4

LEMMA AtMostOne ==
  ASSUME NEW S, \A a, b \in S : a = b
  PROVE  Cardinality(S) <= 1
<1>1. CASE S = {}
  BY <1>1, FS_EmptySet
<1>2. CASE S # {}
  <2>1. PICK a \in S : TRUE
    BY <1>2
  <2>2. S = {a}
    BY <2>1
  <2> QED
    BY <2>2, FS_Singleton
<1> QED
  BY <1>1, <1>2

\* Both circuits are committed wherever a key is drawn.
KeysTied == \A log \in keylogs : Holds(log, "hash") /\ Holds(log, "sig")

LEMMA TiedKeysTie == KeysTied => MacTies
<1> SUFFICES ASSUME KeysTied, NEW log \in keylogs,
                    NEW m \in F, NEW m2 \in F, NEW pad \in F, NEW pad2 \in F, m # m2
             PROVE  Cardinality(Confusing(log, m, pad, m2, pad2)) <= 1
  BY DEF MacTies
<1>1. Holds(log, "hash") /\ Holds(log, "sig")
  BY DEF KeysTied
<1>2. Confusing(log, m, pad, m2, pad2) = {k \in F : Tag(k, pad, m) = Tag(k, pad2, m2)}
  BY <1>1 DEF Confusing
<1>3. \A a, b \in {k \in F : Tag(k, pad, m) = Tag(k, pad2, m2)} : a = b
  BY OneKey
<1> QED
  BY <1>2, <1>3, AtMostOne

LEMMA CommittedHolds ==
  ASSUME NEW r, NEW h, NEW s, h[1] = "hash", s[1] = "sig"
  PROVE  Holds(Committed(r, h, s), "hash") /\ Holds(Committed(r, h, s), "sig")
<1> DEFINE log == Committed(r, h, s)
<1>1. DOMAIN log = 1 .. 3 /\ log[2] = h /\ log[3] = s
  BY DEF Committed
<1>2. 2 \in 1 .. 3 /\ 3 \in 1 .. 3
  OBVIOUS
<1> HIDE DEF log
<1>3. Holds(log, "hash") /\ Holds(log, "sig")
  BY <1>1, <1>2 DEF Holds
<1> QED
  BY <1>3 DEF log

\* What arrives, for each damage that leaves three parts.
LEMMA SentIs ==
  /\ DOMAIN Sent = 1 .. 3 /\ Sent[1] = Macs /\ Sent[2] = HashProof /\ Sent[3] = SigProof
  /\ HashProof.commitment = HashCommitment /\ SigProof.commitment = SigCommitment
  /\ HashProof.statement = <<Circuits(prover), HashInput, ProverKeyed>>
  /\ SigProof.statement = <<Circuits(prover), SigInput, ProverHashProven>>
BY DEF Sent, HashProof, SigProof, ProofOf, HashCommitment, SigCommitment

LEMMA MacDamaged ==
  ASSUME wire = Damaged(Sent, "mac")
  PROVE  /\ wire[1] = [Macs EXCEPT ![1] = (Macs[1] + 1) % q]
         /\ wire[2] = HashProof /\ wire[3] = SigProof
<1>1. wire = [Sent EXCEPT ![1][1] = (Sent[1][1] + 1) % q]
  BY DEF Damaged
<1> QED
  BY <1>1, SentIs

LEMMA SecondReplaced ==
  ASSUME NEW c, NEW x, NEW d, DOMAIN c = 1 .. 2, d = [c EXCEPT ![2] = x]
  PROVE  d[1] = c[1] /\ d[2] = x
OBVIOUS

LEMMA HashDamaged ==
  ASSUME wire = Damaged(Sent, "hash")
  PROVE  /\ wire[1] = Macs /\ wire[3] = SigProof
         /\ wire[2].statement = HashProof.statement
         /\ wire[2].commitment[1] = "hash"
         /\ wire[2].commitment[2].until = HashWitness.until + 1
<1>1. wire = [Sent EXCEPT ![2].commitment[2].until = Sent[2].commitment[2].until + 1]
  BY DEF Damaged
<1>2. wire[1] = Macs /\ wire[3] = SigProof
  BY <1>1, SentIs
<1>3. wire[2] = [HashProof EXCEPT !.commitment[2].until = HashProof.commitment[2].until + 1]
  BY <1>1, SentIs
<1>4. /\ DOMAIN HashProof = {"commitment", "statement"}
      /\ DOMAIN HashCommitment = 1 .. 2 /\ HashCommitment[1] = "hash"
      /\ HashCommitment[2] = HashWitness
      /\ "until" \in DOMAIN HashWitness
  BY DEF HashProof, ProofOf, HashCommitment, HashWitness, WitnessHash
<1>5. wire[2].statement = HashProof.statement
  BY <1>3, <1>4
<1>6. wire[2].commitment = [HashCommitment EXCEPT ![2].until = HashCommitment[2].until + 1]
  BY <1>3, <1>4, SentIs
<1> DEFINE y == [HashWitness EXCEPT !.until = HashWitness.until + 1]
<1>y. wire[2].commitment = [HashCommitment EXCEPT ![2] = y]
  BY <1>4, <1>6
<1> HIDE DEF y
<1> DEFINE c == HashCommitment
           d == wire[2].commitment
<1>d. DOMAIN c = 1 .. 2 /\ d = [c EXCEPT ![2] = y]
  BY <1>4, <1>y
<1> HIDE DEF c, d
<1>7. d[1] = c[1] /\ d[2] = y
  BY <1>d, SecondReplaced
<1> USE DEF c, d
<1>8. wire[2].commitment[2] = [HashWitness EXCEPT !.until = HashWitness.until + 1]
  BY <1>7 DEF y
<1>9. wire[2].commitment[2].until = HashWitness.until + 1
  BY <1>4, <1>8
<1> QED
  BY <1>2, <1>4, <1>5, <1>7, <1>9

LEMMA SigDamaged ==
  ASSUME wire = Damaged(Sent, "sig"), DocFacts
  PROVE  /\ wire[1] = Macs /\ wire[2] = HashProof
         /\ wire[3].statement = SigProof.statement
         /\ wire[3].commitment[1] = "sig"
         /\ wire[3].commitment[2].ap[6] = (ap[6] + 1) % q
<1>1. wire = [Sent EXCEPT ![3].commitment[2].ap[6] = (Sent[3].commitment[2].ap[6] + 1) % q]
  BY DEF Damaged
<1>2. wire[1] = Macs /\ wire[2] = HashProof
  BY <1>1, SentIs
<1> DEFINE x == (SigProof.commitment[2].ap[6] + 1) % q
<1>3. wire[3] = [SigProof EXCEPT !.commitment[2].ap[6] = x]
  BY <1>1, SentIs
<1>4. /\ DOMAIN SigProof = {"commitment", "statement"}
      /\ DOMAIN SigCommitment = 1 .. 2 /\ SigCommitment[1] = "sig"
      /\ SigCommitment[2] = SigWitness
      /\ "ap" \in DOMAIN SigWitness /\ SigWitness.ap = ap
  BY DEF SigProof, ProofOf, SigCommitment, SigWitness, WitnessSig
<1>x. x = (ap[6] + 1) % q
  BY <1>4, SentIs
<1> HIDE DEF x
<1>5. wire[3].statement = SigProof.statement
  BY <1>3, <1>4
<1>6. wire[3].commitment = [SigCommitment EXCEPT ![2].ap[6] = x]
  BY <1>3, <1>4, SentIs
<1> DEFINE y == [SigWitness EXCEPT !.ap[6] = x]
<1>y. wire[3].commitment = [SigCommitment EXCEPT ![2] = y]
  BY <1>4, <1>6
<1> HIDE DEF y
<1> DEFINE c == SigCommitment
           d == wire[3].commitment
<1>d. DOMAIN c = 1 .. 2 /\ d = [c EXCEPT ![2] = y]
  BY <1>4, <1>y
<1> HIDE DEF c, d
<1>7. d[1] = c[1] /\ d[2] = y
  BY <1>d, SecondReplaced
<1> USE DEF c, d
<1>8. wire[3].commitment[2] = [SigWitness EXCEPT !.ap[6] = x]
  BY <1>7 DEF y
<1>9. wire[3].commitment[2].ap = [ap EXCEPT ![6] = x]
  BY <1>4, <1>8
<1>10. 6 \in DOMAIN ap
  BY DEF DocFacts, Halves
<1>11. wire[3].commitment[2].ap[6] = x
  BY <1>9, <1>10
<1> QED
  BY <1>2, <1>4, <1>5, <1>7, <1>11, <1>x

LEMMA ProofDamaged ==
  ASSUME wire = Damaged(Sent, "proof")
  PROVE  /\ wire[1] = Macs /\ wire[2] = HashProof
         /\ wire[3].statement = <<>>
         /\ wire[3].commitment = SigCommitment
<1>1. wire = [Sent EXCEPT ![3].statement = <<>>]
  BY DEF Damaged
<1>2. wire[1] = Macs /\ wire[2] = HashProof /\ wire[3] = [SigProof EXCEPT !.statement = <<>>]
  BY <1>1, SentIs
<1>3. DOMAIN SigProof = {"commitment", "statement"}
  BY DEF SigProof, ProofOf
<1> QED
  BY <1>2, <1>3, SentIs

LEMMA AppendLonger ==
  ASSUME NEW S, NEW s \in Seq(S), NEW x \in S
  PROVE  Len(Append(s, x)) = Len(s) + 1
OBVIOUS

LEMMA ThreeParts ==
  ASSUME ReceivedOk
  PROVE  /\ wire = Damaged(Sent, damage)
         /\ damage \in {"none", "mac", "hash", "sig", "proof"}
<1>1. /\ damage \in {"none", "truncated", "extended", "mac", "hash", "sig", "proof"}
      /\ wire = Damaged(Sent, damage) /\ Len(wire) = 3
  BY SessionAssumption DEF ReceivedOk, DeliveredOk
<1> DEFINE S == {Sent[1], Sent[2], Sent[3], <<>>}
<1>2. Sent \in Seq(S) /\ Len(Sent) = 3
  BY DEF Sent
<1>3. damage # "truncated"
  <2>1. Len(SubSeq(Sent, 1, 2)) = 2
    BY <1>2
  <2> QED
    BY <1>1, <2>1 DEF Damaged
<1>4. damage # "extended"
  <2>0. <<>> \in S
    OBVIOUS
  <2> HIDE DEF S
  <2>1. Len(Append(Sent, <<>>)) = 3 + 1
    BY <1>2, <2>0, AppendLonger
  <2> QED
    BY <1>1, <2>1 DEF Damaged
<1> QED
  BY <1>1, <1>3, <1>4

LEMMA CommitmentKinds ==
  ASSUME ReceivedOk, DocFacts
  PROVE  wire[2].commitment[1] = "hash" /\ wire[3].commitment[1] = "sig"
<1>1. /\ HashProof.commitment[1] = "hash" /\ SigProof.commitment[1] = "sig"
      /\ SigCommitment[1] = "sig"
  BY SentIs DEF HashCommitment, SigCommitment
<1>2. CASE damage = "none"
  BY <1>1, <1>2, ThreeParts, SentIs DEF Damaged
<1>3. CASE damage = "mac"
  BY <1>1, <1>3, ThreeParts, MacDamaged
<1>4. CASE damage = "hash"
  BY <1>1, <1>4, ThreeParts, HashDamaged
<1>5. CASE damage = "sig"
  BY <1>1, <1>5, ThreeParts, SigDamaged
<1>6. CASE damage = "proof"
  BY <1>1, <1>6, ThreeParts, ProofDamaged
<1> QED
  BY <1>2, <1>3, <1>4, <1>5, <1>6, ThreeParts

LEMMA KeysTiedNext == Given /\ Phases /\ KeysTied /\ [Next]_vars => KeysTied'
<1> SUFFICES ASSUME Given, Phases, KeysTied, [Next]_vars PROVE KeysTied'
  OBVIOUS
<1>1. keylogs' = keylogs => KeysTied'
  BY DEF KeysTied, Holds
<1>2. CASE DrawKey
  <2>1. plog = ProverCommitted /\ keylogs' = keylogs \cup {plog}
    BY <1>2 DEF DrawKey, Phases, PhDraw
  <2>2. Holds(ProverCommitted, "hash") /\ Holds(ProverCommitted, "sig")
    BY CommittedHolds DEF ProverCommitted, HashCommitment, SigCommitment
  <2> QED
    BY <2>1, <2>2 DEF KeysTied, Holds
<1>3. CASE VerifierDraw
  <2>1. vlog = VerifierCommitted /\ ReceivedOk /\ keylogs' = keylogs \cup {vlog}
    BY <1>3 DEF VerifierDraw, Phases, PhVdraw
  <2>2. wire[2].commitment[1] = "hash" /\ wire[3].commitment[1] = "sig"
    BY <2>1, CommitmentKinds, GivenFacts
  <2>3. Holds(VerifierCommitted, "hash") /\ Holds(VerifierCommitted, "sig")
    BY <2>2, CommittedHolds DEF VerifierCommitted
  <2> QED
    BY <2>1, <2>3 DEF KeysTied, Holds
<1>4. CASE ~(DrawKey \/ VerifierDraw)
  <2>1. keylogs' = keylogs
    BY <1>4 DEF Next, vars, Done, Provide, ProverCheck, ParseMdoc, CommitHash, CommitSig,
       ProveHash, ProveSig, Deliver, VerifierCheck, ReceiveCommitments, VerifyHash, VerifySig
  <2> QED
    BY <1>1, <2>1
<1> QED
  BY <1>2, <1>3, <1>4

\* For every field without zero divisors and whatever happened to the proof:
\* both roles draw their keys only from transcripts that hold both commitments,
\* so no two different values share a tag under more than one key.
THEOREM MacsTie == Spec => []MacTies
<1>1. Init => KeysTied
  BY DEF Init, KeysTied
<1> QED
  BY <1>1, GivenInit, GivenNext, PhasesInit, PhasesNext, KeysTiedNext, TiedKeysTie, PTL
  DEF Spec

-----------------------------------------------------------------------------
(***************************************************************************)
(* What acceptance means.                                                  *)
(***************************************************************************)
LEMMA NextRemainder ==
  ASSUME NEW x \in F
  PROVE  (x + 1) % q # x
<1>1. q \in Nat /\ q > 1 /\ x \in Nat /\ x < q
  BY SessionAssumption DEF F
<1>2. CASE x + 1 < q
  BY <1>1, <1>2
<1>3. CASE x + 1 = q
  BY <1>1, <1>3
<1> QED
  BY <1>1, <1>2, <1>3

LEMMA TagInField ==
  ASSUME NEW k \in Int, NEW x \in F, NEW m \in F
  PROVE  Tag(k, x, m) \in F
<1>1. q \in Nat \ {0} /\ x \in Int /\ m \in Int
  BY SessionAssumption DEF F
<1>2. \A y \in Int : y % q \in F
  BY <1>1 DEF F
<1>3. (k + x) * m \in Int /\ k * m + x \in Int
  BY <1>1
<1> QED
  BY <1>2, <1>3 DEF Tag, compute_mac_v1, compute_mac_v2

KeyInField == av \in F

LEMMA KeyInFieldInv == (Init => KeyInField) /\ (KeyInField /\ [Next]_vars => KeyInField')
<1>1. 0 \in F
  BY SessionAssumption DEF F
<1>2. Init => KeyInField
  BY <1>1 DEF Init, KeyInField
<1>3. KeyInField /\ [Next]_vars => KeyInField'
  BY DEF KeyInField, Next, vars, Done, Provide, ProverCheck, ParseMdoc, CommitHash, CommitSig,
     DrawKey, ProveHash, ProveSig, Deliver, VerifierCheck, ReceiveCommitments, VerifierDraw,
     VerifyHash, VerifySig
<1> QED
  BY <1>2, <1>3

LEMMA KeyInt == KeyInField => av \in Int
BY SessionAssumption DEF KeyInField, F

\* A proof whose statement survived names what the prover proved.
LEMMA StatementsSent ==
  ASSUME ReceivedOk, DocFacts, damage # "proof"
  PROVE  /\ wire[2].statement = <<Circuits(prover), HashInput, ProverKeyed>>
         /\ wire[3].statement = <<Circuits(prover), SigInput, ProverHashProven>>
<1>1. CASE damage = "none"
  BY <1>1, ThreeParts, SentIs DEF Damaged
<1>2. CASE damage = "mac"
  BY <1>2, ThreeParts, MacDamaged, SentIs
<1>3. CASE damage = "hash"
  BY <1>3, ThreeParts, HashDamaged, SentIs
<1>4. CASE damage = "sig"
  BY <1>4, ThreeParts, SigDamaged, SentIs
<1> QED
  BY <1>1, <1>2, <1>3, <1>4, ThreeParts

LEMMA SameTriple ==
  ASSUME NEW a, NEW b, NEW c, NEW d, NEW e, NEW f, <<a, b, c>> = <<d, e, f>>
  PROVE  a = d /\ b = e /\ c = f
<1>1. <<a, b, c>>[1] = <<d, e, f>>[1] /\ <<a, b, c>>[2] = <<d, e, f>>[2]
      /\ <<a, b, c>>[3] = <<d, e, f>>[3]
  BY Zenon
<1> QED
  BY <1>1

LEMMA SameProven ==
  ASSUME NEW r, NEW h, NEW s, NEW p, NEW r2, NEW h2, NEW s2, NEW p2,
         HashProven(r, h, s, p) = HashProven(r2, h2, s2, p2)
  PROVE  Session(r) = Session(r2) /\ h = h2 /\ s = s2
<1> DEFINE a == HashProven(r, h, s, p)
           b == HashProven(r2, h2, s2, p2)
<1>1. a[1] = Session(r) /\ a[2] = h /\ a[3] = s
  BY DEF HashProven
<1>2. b[1] = Session(r2) /\ b[2] = h2 /\ b[3] = s2
  BY DEF HashProven
<1>3. a[1] = b[1] /\ a[2] = b[2] /\ a[3] = b[3]
  BY Zenon
<1> QED
  BY <1>1, <1>2, <1>3, Zenon

LEMMA InputFields ==
  ASSUME NEW r, NEW macs, NEW key
  PROVE  /\ push_input_hash(r, macs, key).macs = macs
         /\ push_input_hash(r, macs, key).now = r.now
         /\ DOMAIN push_input_hash(r, macs, key).attrs = DOMAIN r.attrs
         /\ push_input_sig(r, macs, key).key = r.key
         /\ push_input_sig(r, macs, key).e2 = <<r.transcript, r.doc_type>>
         /\ push_input_sig(r, macs, key).macs = macs
BY DEF push_input_hash, push_input_hash_v1, push_input_hash_v2, push_input_sig,
   compute_transcript_hash

\* Both roles have proved and checked one statement, of an undamaged proof.
Agreed ==
  /\ damage = "none" /\ wire = Sent
  /\ Circuits(verifier) = Circuits(prover)
  /\ push_input_hash(verifier, Macs, vav) = HashInput
  /\ push_input_sig(verifier, Macs, vav) = SigInput
  /\ VerifierHashProven = ProverHashProven

LEMMA AcceptedAgreed ==
  ASSUME Given, KeyInField, PhAccepted
  PROVE  Agreed
<1>1. ReceivedOk /\ HashAccepted /\ SigAccepted /\ DocFacts
  BY GivenFacts DEF PhAccepted, PhVerifySig
<1>2. damage # "proof"
  <2>1. \A a, b, c : <<a, b, c>> # <<>>
    OBVIOUS
  <2>2. ASSUME damage = "proof" PROVE FALSE
    BY <1>1, <2>1, <2>2, ThreeParts, ProofDamaged DEF SigAccepted
  <2> QED
    BY <2>2
<1>3. /\ Circuits(prover) = Circuits(verifier) /\ HashInput = VerifierHashInput
      /\ SigInput = push_input_sig(verifier, wire[1], vav)
      /\ ProverHashProven = VerifierHashProven
  <2>1. <<Circuits(prover), HashInput, ProverKeyed>>
          = <<Circuits(verifier), VerifierHashInput, VerifierKeyed>>
    BY <1>1, <1>2, StatementsSent DEF HashAccepted
  <2>2. <<Circuits(prover), SigInput, ProverHashProven>>
          = <<Circuits(verifier), push_input_sig(verifier, wire[1], vav), VerifierHashProven>>
    BY <1>1, <1>2, StatementsSent DEF SigAccepted
  <2>3. Circuits(prover) = Circuits(verifier) /\ HashInput = VerifierHashInput
    BY <2>1, SameTriple, Zenon
  <2>4. /\ SigInput = push_input_sig(verifier, wire[1], vav)
        /\ ProverHashProven = VerifierHashProven
    BY <2>2, SameTriple, Zenon
  <2> QED
    BY <2>3, <2>4
<1>4. wire[1] = Macs
  BY <1>3, InputFields DEF SigInput
<1>5. HashCommitment = wire[2].commitment /\ SigCommitment = wire[3].commitment
  BY <1>3, SameProven DEF ProverHashProven, VerifierHashProven
<1>6. damage # "mac"
  <2>1. 1 \in Halves /\ DOMAIN Macs = Halves
    BY DEF Macs, push_macs, Halves
  <2>2. ASSUME damage = "mac" PROVE FALSE
    <3>1. Macs = [Macs EXCEPT ![1] = (Macs[1] + 1) % q]
      BY <1>1, <1>4, <2>2, ThreeParts, MacDamaged
    <3>2. Macs[1] = (Macs[1] + 1) % q
      BY <2>1, <3>1
    <3>3. Macs[1] = Tag(av, ap[1], doc.m[1]) /\ ap[1] \in F /\ doc.m[1] \in F
      BY <1>1, <2>1 DEF Macs, push_macs, DocFacts
    <3>4. Macs[1] \in F
      BY <3>3, TagInField, KeyInt
    <3> QED
      BY <3>2, <3>4, NextRemainder
  <2> QED
    BY <2>2
<1>7. damage # "hash"
  <2>1. HashCommitment[2].until = doc.until /\ HashWitness.until = doc.until
    BY DEF HashCommitment, HashWitness, WitnessHash
  <2>2. doc.until \in Nat
    BY <1>1 DEF DocFacts
  <2>3. ASSUME damage = "hash" PROVE FALSE
    <3>1. doc.until = doc.until + 1
      BY <1>1, <1>5, <2>1, <2>3, ThreeParts, HashDamaged
    <3> QED
      BY <2>2, <3>1
  <2> QED
    BY <2>3
<1>8. damage # "sig"
  <2>1. SigCommitment[2].ap[6] = ap[6]
    BY DEF SigCommitment, SigWitness, WitnessSig
  <2>2. ap[6] \in F
    BY <1>1 DEF DocFacts, Halves
  <2>3. ASSUME damage = "sig" PROVE FALSE
    <3>1. ap[6] = (ap[6] + 1) % q
      BY <1>1, <1>5, <2>1, <2>3, ThreeParts, SigDamaged
    <3> QED
      BY <2>2, <3>1, NextRemainder
  <2> QED
    BY <2>3
<1>9. damage = "none" /\ wire = Sent
  BY <1>1, <1>2, <1>6, <1>7, <1>8, ThreeParts DEF Damaged
<1> QED
  BY <1>3, <1>4, <1>9 DEF Agreed, VerifierHashInput

\* Circuits a provider or generation 2 has checked declare the id of the
\* specification.
LEMMA CircuitsDeclared ==
  ASSUME Given, ProvidedOk, VerifierOk, verifier.via = "provider" \/ gen = 2
  PROVE  verifier.file.id = verifier.spec.hash
<1>1. gen \in {1, 2}
  BY GivenFacts
<1>2. CASE gen = 1
  <2>1. materialize_v1(verifier.spec, verifier.file) = "ok"
    BY <1>2 DEF ProvidedOk, Provided
  <2>2. from_compressed_v1(verifier.spec, verifier.file) = "ok"
    BY <2>1 DEF materialize_v1
  <2> QED
    BY <2>2, FromCompressedV1
<1>3. CASE gen = 2
  <2>1. VerifierChecks_v2(verifier) = "ok"
    BY <1>3 DEF VerifierOk
  <2>2. for_spec(verifier.spec, verifier.file)
    BY <2>1, VerifierChecksV2, Zenon
  <2> QED
    BY <2>2 DEF for_spec
<1> QED
  BY <1>1, <1>2, <1>3

\* Of generation 2: a value the request may ask for, cut to its slot and its
\* length to ten bits, is still the value.
LEMMA ValueFits ==
  ASSUME Given, VerifierOk, gen = 2, NEW j \in DOMAIN doc.items,
         NEW i \in DOMAIN verifier.attrs,
         doc.items[j].value.head = verifier.attrs[i].value.head,
         doc.items[j].value.len = verifier.attrs[i].value.len % 1024
  PROVE  doc.items[j].value = verifier.attrs[i].value
<1>1. PICK s \in Scenarios : verifier = s.verifier /\ doc = s.doc
  BY DEF Given
<1>2. SideFacts(verifier)
  BY GivenFacts
<1>3. VerifierChecks_v2(verifier) = "ok"
  BY DEF VerifierOk
<1>4. public_inputs_fit(verifier) /\ circuit_supports(verifier)
  BY <1>3, VerifierChecksV2, Zenon
<1> DEFINE n == verifier.attrs[i].value.len
<1>5. n \in Nat /\ n <= 64 /\ verifier.attrs[i].value.kind # "other"
  BY <1>2, <1>4 DEF SideFacts, public_inputs_fit, circuit_supports
<1>6. n % 1024 = n
  <2> HIDE DEF n
  <2> QED
    BY <1>5
<1>7. doc.items[j].value.len = n
  BY <1>6
<1>8. SlotsTell(doc, verifier)
  <2>1. \A z \in Scenarios : SlotsTell(z.doc, z.verifier)
    BY SessionAssumption
  <2> QED
    BY <1>1, <2>1
<1> DEFINE v == doc.items[j].value
           w == verifier.attrs[i].value
<1>9. v.head = w.head /\ v.len = w.len /\ w.len <= 64 /\ w.kind # "other" => v = w
  BY <1>8 DEF SlotsTell
<1> QED
  BY <1>5, <1>7, <1>9, Zenon

LEMMA AttributesHeld ==
  ASSUME Given, VerifierOk, WitnessOk, Agreed,
         assert_attributes(HashWitness, HashInput), NEW i \in DOMAIN verifier.attrs
  PROVE  \E j \in DOMAIN doc.items : /\ doc.items[j].id = verifier.attrs[i].id
                                     /\ doc.items[j].value = verifier.attrs[i].value
<1> DEFINE pub == push_input_hash(verifier, Macs, vav)
           a == verifier.attrs[i]
           j == get_attribute(doc, prover.attrs[i].id)
<1>0. gen \in {1, 2} /\ DocFacts
  BY GivenFacts
<1>1. pub = HashInput
  BY DEF Agreed
<1>2. DOMAIN pub.attrs = DOMAIN verifier.attrs /\ DOMAIN HashInput.attrs = DOMAIN prover.attrs
  BY InputFields DEF HashInput
<1>3. i \in DOMAIN prover.attrs /\ i \in DOMAIN pub.attrs
  BY <1>1, <1>2, Zenon
<1>4. j \in DOMAIN doc.items /\ Items(doc, prover)[i] = doc.items[j]
  BY <1>0, <1>3, ItemFound DEF WitnessOk
<1>5. HashWitness.items = Items(doc, prover)
  BY DEF HashWitness, WitnessHash
<1>6. /\ doc.items[j].id = pub.attrs[i].id
      /\ gen = 1 => doc.items[j].value = pub.attrs[i].value
      /\ gen # 1 => /\ doc.items[j].value.head = pub.attrs[i].head
                    /\ doc.items[j].value.len = pub.attrs[i].len
  <2>1. i \in DOMAIN HashInput.attrs /\ HashWitness.items[i] = doc.items[j]
    BY <1>1, <1>3, <1>4, <1>5, Zenon
  <2>2. /\ HashWitness.items[i].id = HashInput.attrs[i].id
        /\ IF gen = 1 THEN HashWitness.items[i].value = HashInput.attrs[i].value
           ELSE /\ HashWitness.items[i].value.head = HashInput.attrs[i].head
                /\ HashWitness.items[i].value.len = HashInput.attrs[i].len
    BY <2>1, Zenon DEF assert_attributes
  <2> HIDE DEF j, pub
  <2> QED
    BY <1>1, <2>1, <2>2
<1>7. CASE gen = 1
  <2>1. pub.attrs[i].id = a.id /\ pub.attrs[i].value = a.value
    BY <1>7 DEF push_input_hash, push_input_hash_v1
  <2> QED
    BY <1>4, <1>6, <1>7, <2>1, Zenon
<1>8. CASE gen = 2
  <2>1. /\ pub.attrs[i].id = a.id /\ pub.attrs[i].head = a.value.head
        /\ pub.attrs[i].len = a.value.len % 1024
    BY <1>8 DEF push_input_hash, push_input_hash_v2
  <2>2. gen # 1
    BY <1>8
  <2> HIDE DEF pub, j
  <2>3. /\ doc.items[j].value.head = a.value.head
        /\ doc.items[j].value.len = a.value.len % 1024
    BY <1>6, <2>1, <2>2
  <2>4. doc.items[j].value = a.value
    BY <1>4, <1>8, <2>3, ValueFits
  <2>5. doc.items[j].id = a.id
    BY <1>6, <2>1
  <2> QED
    BY <1>4, <2>4, <2>5
<1> QED
  BY <1>0, <1>7, <1>8

LEMMA PrefixOfAppend ==
  ASSUME NEW S, NEW s \in Seq(S), NEW x \in S
  PROVE  SubSeq(Append(s, x), 1, Len(s)) = s
OBVIOUS

LEMMA AcceptedIsAsked ==
  ASSUME Given, KeyInField, PhAccepted
  PROVE  /\ damage = "none" /\ vlog = SubSeq(plog, 1, Len(vlog))
         /\ verifier.via = "provider" \/ gen = 2 => verifier.file.id = verifier.spec.hash
         /\ verifier.file.genuine =>
              /\ \A i \in DOMAIN verifier.attrs :
                   \E j \in DOMAIN doc.items :
                     /\ doc.items[j].id = verifier.attrs[i].id
                     /\ doc.items[j].value = verifier.attrs[i].value
              /\ doc.from <= verifier.now.t /\ verifier.now.t <= doc.until
              /\ doc.issuer = verifier.key
              /\ doc.signed = <<verifier.transcript, verifier.doc_type>>
              /\ gen = 2 => IsPrefix(verifier.doc_type, doc.doc_type)
<1>1. Agreed
  BY AcceptedAgreed
<1>2. /\ ReceivedOk /\ PlogDone /\ vlog = VerifierHashProven
  BY DEF PhAccepted, PhVerifySig
<1>3. ProvedOk /\ HashProvedOk /\ WitnessOk /\ ProvidedOk /\ VerifierOk
  BY <1>2 DEF ReceivedOk, DeliveredOk, ProvedOk, HashProvedOk, WitnessOk, CheckedOk
<1>4. vlog = SubSeq(plog, 1, Len(vlog))
  <2>1. PICK x : plog = Append(ProverHashProven, x)
    BY <1>2 DEF PlogDone
  <2>2. vlog = ProverHashProven
    BY <1>1, <1>2 DEF Agreed
  <2> DEFINE t == ProverHashProven
             S == {t[1], t[2], t[3], t[4], t[5], x}
  <2>3. t \in Seq(S) /\ x \in S
    BY DEF ProverHashProven, HashProven
  <2> HIDE DEF t, S
  <2>4. SubSeq(Append(t, x), 1, Len(t)) = t
    BY <2>3, PrefixOfAppend
  <2> QED
    BY <2>1, <2>2, <2>4 DEF t
<1>5. ASSUME verifier.file.genuine
      PROVE  /\ \A i \in DOMAIN verifier.attrs :
                  \E j \in DOMAIN doc.items :
                    /\ doc.items[j].id = verifier.attrs[i].id
                    /\ doc.items[j].value = verifier.attrs[i].value
             /\ doc.from <= verifier.now.t /\ verifier.now.t <= doc.until
             /\ doc.issuer = verifier.key
             /\ doc.signed = <<verifier.transcript, verifier.doc_type>>
             /\ gen = 2 => IsPrefix(verifier.doc_type, doc.doc_type)
  <2>2. Circuits(prover).genuine
    BY <1>1, <1>5 DEF Agreed, Circuits
  <2>3. /\ assert_attributes(HashWitness, HashInput)
        /\ assert_mso_validity(HashWitness, HashInput)
        /\ gen = 2 => assert_mso_doc_type(HashWitness, HashInput)
    BY <1>3, <2>2 DEF HashProvedOk, assert_hash
  <2>4. SigInput.key = SigWitness.issuer /\ SigInput.e2 = SigWitness.signed
    BY <1>3, <2>2 DEF ProvedOk, assert_signatures_and_macs
  <2>5. HashInput.now = verifier.now
    BY <1>1, InputFields DEF Agreed
  <2>6. SigInput.key = verifier.key /\ SigInput.e2 = <<verifier.transcript, verifier.doc_type>>
    BY <1>1, InputFields DEF Agreed
  <2>7. doc.issuer = verifier.key /\ doc.signed = <<verifier.transcript, verifier.doc_type>>
    BY <2>4, <2>6 DEF SigWitness, WitnessSig
  <2>8. doc.from <= verifier.now.t /\ verifier.now.t <= doc.until
    BY <2>3, <2>5 DEF assert_mso_validity, HashWitness, WitnessHash
  <2>9. ASSUME gen = 2 PROVE IsPrefix(verifier.doc_type, doc.doc_type)
    <3>1. HashInput.doc_type = verifier.doc_type
      <4>1. push_input_hash(verifier, Macs, vav).doc_type = verifier.doc_type
        BY <2>9 DEF push_input_hash, push_input_hash_v2
      <4> QED
        BY <1>1, <4>1 DEF Agreed
    <3>2. HashWitness.doc_type = doc.doc_type
      BY DEF HashWitness, WitnessHash
    <3>3. IsPrefix(HashInput.doc_type, HashWitness.doc_type)
      BY <2>3, <2>9 DEF assert_mso_doc_type
    <3> QED
      BY <3>1, <3>2, <3>3, Zenon
  <2>10. \A i \in DOMAIN verifier.attrs :
           \E j \in DOMAIN doc.items : /\ doc.items[j].id = verifier.attrs[i].id
                                       /\ doc.items[j].value = verifier.attrs[i].value
    BY <1>1, <1>3, <2>3, AttributesHeld
  <2> QED
    BY <2>7, <2>8, <2>9, <2>10, Zenon
<1>6. verifier.via = "provider" \/ gen = 2 => verifier.file.id = verifier.spec.hash
  BY <1>3, CircuitsDeclared
<1> QED
  BY <1>1, <1>4, <1>5, <1>6, Zenon DEF Agreed

\* For every request, document and set of circuits, and every damage: an
\* accepted presentation was not altered, and if the verifier's circuits are
\* genuine the document holds what the verifier asked for.
THEOREM AcceptedHolds == Spec => []AcceptedMeansAsked
<1>1. Given /\ KeyInField /\ Phases => AcceptedMeansAsked
  <2> SUFFICES ASSUME Given, KeyInField, Phases, pc = "accepted" PROVE AcceptedMeansAsked
    BY Zenon DEF AcceptedMeansAsked
  <2>1. PhAccepted
    BY DEF Phases
  <2> QED
    BY <2>1, AcceptedIsAsked, Zenon DEF AcceptedMeansAsked
<1> QED
  BY <1>1, GivenInit, GivenNext, KeyInFieldInv, PhasesInit, PhasesNext, PTL DEF Spec

-----------------------------------------------------------------------------
(***************************************************************************)
(* Completeness.                                                           *)
(***************************************************************************)
Honest == damage = "none" /\ verifier = prover

LEMMA HonestWire ==
  ASSUME Honest, DeliveredOk
  PROVE  /\ wire = Sent /\ Len(wire) = 3
         /\ VerifierCommitted = ProverCommitted /\ VerifierKeyed = ProverKeyed
<1>1. wire = Sent
  BY DEF Honest, DeliveredOk, Damaged
<1>2. Len(Sent) = 3
  BY DEF Sent
<1>3. wire[2].commitment = HashCommitment /\ wire[3].commitment = SigCommitment
  BY <1>1, SentIs
<1>4. VerifierCommitted = ProverCommitted /\ VerifierKeyed = ProverKeyed
  BY <1>3 DEF VerifierCommitted, ProverCommitted, VerifierKeyed, ProverKeyed, Honest
<1> QED
  BY <1>1, <1>2, <1>4

\* Every check of the verifier is one the prover has passed.
LEMMA HonestChecks ==
  ASSUME Honest, CheckedOk
  PROVE  VerifierOk /\ parse_pk_coordinate(verifier.key)
<1>1. CASE gen = 1
  <2>1. ProverChecks_v1(verifier) = "ok"
    BY <1>1 DEF CheckedOk, Honest
  <2>2. VerifierChecks_v1(verifier) = "ok" /\ parse_pk_coordinate(verifier.key)
    BY <2>1, ProverChecksV1, VerifierChecksV1, Zenon
  <2> QED
    BY <1>1, <2>2 DEF VerifierOk
<1>2. CASE gen # 1
  <2>1. ProverChecks_v2(verifier) = "ok"
    BY <1>2 DEF CheckedOk, Honest
  <2>2. VerifierChecks_v2(verifier) = "ok" /\ parse_pk_coordinate(verifier.key)
    BY <2>1, ProverChecksV2, VerifierChecksV2, Zenon
  <2> QED
    BY <1>2, <2>2 DEF VerifierOk
<1> QED
  BY <1>1, <1>2

LEMMA HonestInputs ==
  ASSUME Honest, DeliveredOk, SameKey
  PROVE  /\ vav = av /\ VerifierHashInput = HashInput
         /\ push_input_sig(verifier, wire[1], vav) = SigInput
         /\ VerifierHashProven = ProverHashProven
<1>1. vav = av /\ wire = Sent
  BY HonestWire DEF SameKey
<1>2. wire[1] = Macs /\ wire[2].commitment = HashCommitment /\ wire[3].commitment = SigCommitment
  BY <1>1, SentIs
<1>3. VerifierHashInput = HashInput /\ push_input_sig(verifier, wire[1], vav) = SigInput
  BY <1>1, <1>2 DEF VerifierHashInput, HashInput, SigInput, Honest
<1>4. VerifierHashProven = ProverHashProven
  BY <1>2, <1>3 DEF VerifierHashProven, ProverHashProven, Honest
<1> QED
  BY <1>1, <1>3, <1>4

LEMMA VerifierCheckComplete == Phases /\ VerifierCheck /\ pc' = "stopped" => ~Honest'
<1> SUFFICES ASSUME Phases, VerifierCheck, Honest PROVE pc' = "receive"
  BY DEF VerifierCheck, Honest
<1>1. DeliveredOk
  BY DEF Phases, VerifierCheck, PhVerify
<1>2. CheckedOk
  BY <1>1 DEF DeliveredOk, ProvedOk, HashProvedOk, WitnessOk
<1>3. VerifierOk /\ Len(wire) = 3
  BY <1>1, <1>2, HonestWire, HonestChecks
<1> DEFINE e == IF gen = 1 THEN VerifierChecks_v1(verifier) ELSE VerifierChecks_v2(verifier)
           x == IF e # "ok" THEN e
                ELSE IF Len(wire) < 3 THEN "HashParsingFailure"
                ELSE IF Len(wire) > 3 THEN "GeneralFailure" ELSE "ok"
<1>4. Advance(x, "receive")
  BY DEF VerifierCheck
<1>5. e = "ok"
  BY <1>3 DEF VerifierOk
<1> HIDE DEF e
<1>6. x = "ok"
  BY <1>3, <1>5
<1> HIDE DEF x
<1> QED
  BY <1>4, <1>6 DEF Advance

LEMMA VerifyHashComplete == Phases /\ VerifyHash /\ pc' = "stopped" => ~Honest'
<1> SUFFICES ASSUME Phases, VerifyHash, Honest PROVE pc' = "verify_sig"
  BY DEF VerifyHash, Honest
<1>1. ReceivedOk /\ SameKey /\ vlog = VerifierKeyed
  BY DEF Phases, VerifyHash, PhVerifyHash
<1>2. DeliveredOk
  BY <1>1 DEF ReceivedOk
<1>3. WitnessOk
  BY <1>2 DEF DeliveredOk, ProvedOk, HashProvedOk
<1> DEFINE x == IF gen = 1 /\ push_input_hash_v1_panics(verifier) THEN "panic"
                ELSE IF ~PublicCountOk(verifier) THEN "AttributeNumberMismatch"
                ELSE IF wire[2].statement # <<Circuits(verifier), VerifierHashInput, vlog>>
                THEN "GeneralFailure" ELSE "ok"
<1>4. Advance(x, "verify_sig")
  BY DEF VerifyHash, VerifierHashInput
<1>5. ~(gen = 1 /\ push_input_hash_v1_panics(verifier)) /\ PublicCountOk(verifier)
  BY <1>3 DEF WitnessOk, Honest
<1>6. wire[2].statement = <<Circuits(verifier), VerifierHashInput, vlog>>
  <2>1. VerifierHashInput = HashInput /\ vlog = ProverKeyed /\ wire[2] = HashProof
    BY <1>1, <1>2, HonestWire, HonestInputs, SentIs
  <2> QED
    BY <2>1, SentIs DEF Honest
<1>7. x = "ok"
  BY <1>5, <1>6, Zenon
<1> HIDE DEF x
<1> QED
  BY <1>4, <1>7 DEF Advance

LEMMA VerifySigComplete == Phases /\ VerifySig /\ pc' = "stopped" => ~Honest'
<1> SUFFICES ASSUME Phases, VerifySig, Honest PROVE pc' = "accepted"
  BY DEF VerifySig, Honest
<1>1. ReceivedOk /\ SameKey /\ vlog = VerifierHashProven
  BY DEF Phases, VerifySig, PhVerifySig
<1>2. DeliveredOk
  BY <1>1 DEF ReceivedOk
<1>3. CheckedOk
  BY <1>2 DEF DeliveredOk, ProvedOk, HashProvedOk, WitnessOk
<1> DEFINE p == push_input_sig(verifier, wire[1], vav)
           x == IF ~parse_pk_coordinate(verifier.key) THEN "InvalidInput"
                ELSE IF wire[3].statement # <<Circuits(verifier), p, vlog>>
                     THEN "GeneralFailure" ELSE "ok"
<1>4. Advance(x, "accepted")
  BY DEF VerifySig
<1>5. parse_pk_coordinate(verifier.key)
  BY <1>3, HonestChecks
<1>6. wire[3].statement = <<Circuits(verifier), p, vlog>>
  <2>1. p = SigInput /\ vlog = ProverHashProven /\ wire[3] = SigProof
    BY <1>1, <1>2, HonestWire, HonestInputs, SentIs
  <2> HIDE DEF p
  <2> QED
    BY <2>1, SentIs DEF Honest
<1>7. x = "ok"
  BY <1>5, <1>6, Zenon
<1> HIDE DEF x
<1> QED
  BY <1>4, <1>7 DEF Advance

LEMMA CompleteNext == Phases /\ Complete /\ [Next]_vars => Complete'
<1> SUFFICES ASSUME Phases, Complete, [Next]_vars, vlog' # <<>>, pc' = "stopped"
             PROVE  ~Honest'
  BY DEF Complete, Honest
<1>1. CASE UNCHANGED vars \/ Done
  BY <1>1 DEF Complete, Honest, Done, vars
<1>2. CASE Provide \/ ProverCheck \/ ParseMdoc
  <2>1. vlog = <<>> /\ vlog' = vlog
    BY <1>2 DEF Phases, Provide, ProverCheck, ParseMdoc, PhProvide, PhCheck, PhWitness, Before
  <2> QED
    BY <2>1
<1>3. CASE CommitHash \/ CommitSig \/ DrawKey \/ Deliver \/ ReceiveCommitments \/ VerifierDraw
  BY <1>3 DEF CommitHash, CommitSig, DrawKey, Deliver, ReceiveCommitments, VerifierDraw
<1>4. CASE ProveHash \/ ProveSig
  <2>1. vlog = <<>> /\ vlog' = vlog
    BY <1>4 DEF Phases, ProveHash, ProveSig, PhProveHash, PhProveSig, Between
  <2> QED
    BY <2>1
<1> QED
  BY <1>1, <1>2, <1>3, <1>4, VerifierCheckComplete, VerifyHashComplete, VerifySigComplete
  DEF Next

\* For every request and document: once the prover has produced a proof and it
\* arrives as sent, a verifier with the same request does not refuse it.
THEOREM HonestAccepted == Spec => []Complete
<1>1. Init => Complete
  BY DEF Init, Complete
<1> QED
  BY <1>1, GivenInit, GivenNext, PhasesInit, PhasesNext, CompleteNext, PTL DEF Spec
=============================================================================
