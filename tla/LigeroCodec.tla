----------------------------- MODULE LigeroCodec -----------------------------
(***************************************************************************)
(* The wire format of a Ligero proof: LigeroProof::write_to_buf and read,  *)
(* with the readers and writers of runtime/proto/util they call.           *)
(*                                                                         *)
(* Four vectors of field elements, the nonces, the column openings req in  *)
(* runs that alternate between field and subfield encodings, and the       *)
(* Merkle path.  Each turn of a loop is an action.  A behaviour either     *)
(* writes a proof and reads it back ("honest"), or reads any bytes and     *)
(* writes again what was read ("any").  Bytes of the second kind are       *)
(* chosen as they are read.                                                *)
(***************************************************************************)
EXTENDS Integers, SequencesExt

CONSTANTS
  B,            \* values of a byte: 256 in the code
  SizeBytes,    \* bytes of a size: 4
  FieldBytes,   \* bytes of a field element
  SubBytes,     \* bytes of a subfield element
  DigestBytes,  \* bytes of a digest or nonce: 32
  P,            \* field elements are 0 .. P - 1, encoded by their value
  Embed,        \* the subfield element of each subfield encoding's value
  MAX_RUN_LEN,  \* 2^25
  Geometries,   \* records of LigeroGeometry
  Proofs(_)     \* proofs a prover may hand to the writer, for a geometry

\* LigeroProof: y_ldt, y_dot, y_quad_0 and y_quad_2, the nonces of the opened
\* columns, the columns, and the digests of the Merkle path.
ProofType ==
  [y : [1 .. 4 -> Seq(Nat)], nonce : Seq(Nat), req : Seq(Nat), path : Seq(Nat)]

ASSUME CodecAssumption ==
  /\ B \in Nat /\ B > 1 /\ P \in Nat
  /\ {SizeBytes, FieldBytes, SubBytes, DigestBytes} \subseteq Nat \ {0}
  /\ MAX_RUN_LEN \in Nat
  /\ DOMAIN Embed \subseteq Nat /\ \A u \in DOMAIN Embed : Embed[u] \in Nat
  /\ \A g \in Geometries :
       /\ g \in [block : Nat, dblock : Nat, r : Nat, nrow : Nat, nreq : Nat, mc_pathlen : Nat]
       /\ g.block <= g.dblock
       /\ Proofs(g) \subseteq ProofType

VARIABLES
  input,         \* "honest" or "any"
  geom,          \* the geometry both sides use
  side,          \* "write" or "read"
  pc,            \* section of the format being written or read
  proof,         \* the proof written
  got,           \* the proof read so far
  out,           \* bytes written
  consumed,      \* bytes read
  sec,           \* which of the four vectors
  j,             \* turns made of the innermost loop
  ci,            \* req elements in finished runs
  subfield_run, first_run, runlen,
  nruns          \* run lengths read

vars == <<input, geom, side, pc, proof, got, out, consumed, sec, j, ci,
          subfield_run, first_run, runlen, nruns>>
position == <<sec, j, ci, subfield_run, first_run, runlen>>

-----------------------------------------------------------------------------
(***************************************************************************)
(* Scalars.                                                                *)
(***************************************************************************)
\* Little-endian value of the last q bytes, for every q, and of all of them.
Values(c) ==
  LET v[q \in 0 .. Len(c)] == IF q = 0 THEN 0 ELSE c[Len(c) + 1 - q] + B * v[q - 1]
  IN  v
Value(c) == Values(c)[Len(c)]

\* The w bytes of a value: the remainders of dividing by B again and again.
Quotients(n, w) == LET v[q \in 0 .. w] == IF q = 0 THEN n ELSE v[q - 1] \div B IN v
Bytes(n, w) == [q \in 1 .. w |-> Quotients(n, w)[q - 1] % B]

\* Values that fit in w bytes: B^w of them.
Powers(w) == LET v[q \in 0 .. w] == IF q = 0 THEN 1 ELSE B * v[q - 1] IN v
MaxSize == Powers(SizeBytes)[SizeBytes] - 1

\* Encodings are wide enough, a prover's elements are reduced, its digests and
\* nonces have DigestBytes bytes, and its path is no longer than Merkle allows.
ASSUME ProverAssumption ==
  LET D == Powers(DigestBytes)[DigestBytes] IN
  /\ P <= Powers(FieldBytes)[FieldBytes]
  /\ \A u \in DOMAIN Embed : u < Powers(SubBytes)[SubBytes]
  /\ \A g \in Geometries : \A p \in Proofs(g) :
       /\ \A s \in 1 .. 4 : \A x \in 1 .. Len(p.y[s]) : p.y[s][x] < P
       /\ \A x \in 1 .. Len(p.req) : p.req[x] < P
       /\ \A x \in 1 .. Len(p.nonce) : p.nonce[x] < D
       /\ \A x \in 1 .. Len(p.path) : p.path[x] < D
       /\ Len(p.path) <= g.nreq * g.mc_pathlen

\* SF::contains and the subfield codec.
InSubfield(e) == \E u \in DOMAIN Embed : Embed[u] = e
SubCode(e) == CHOOSE u \in DOMAIN Embed : Embed[u] = e

\* read_subfield_elt: the bytes parse, and are those the element is written as.
SubOk(c) ==
  /\ Value(c) \in DOMAIN Embed
  /\ Bytes(SubCode(Embed[Value(c)]), SubBytes) = c

\* read_elt_field: bytes_to_element refuses values that are not reduced.
FieldOk(c) == Value(c) < P

\* Lengths of y_ldt, y_dot, y_quad_0 and y_quad_2.
YLen(s) == <<geom.block, geom.dblock, geom.r, geom.dblock - geom.block>>[s]
Total == geom.nreq * geom.nrow

-----------------------------------------------------------------------------
(***************************************************************************)
(* write_to_buf.                                                           *)
(***************************************************************************)
Writing(section) == side = "write" /\ pc = section
Emit(c) == out' = out \o c

\* The assertions on the lengths of the proof's vectors.
WellShaped ==
  /\ \A s \in 1 .. 4 : Len(proof.y[s]) = YLen(s)
  /\ Len(proof.nonce) = geom.nreq
  /\ Len(proof.req) = Total

WriteStart ==
  /\ Writing("start") /\ WellShaped
  /\ pc' = "y" /\ sec' = 1 /\ j' = 0
  /\ UNCHANGED <<input, geom, side, proof, got, out, consumed, ci, subfield_run,
                 first_run, runlen, nruns>>

WriteY ==
  /\ Writing("y") /\ j < YLen(sec)
  /\ Emit(Bytes(proof.y[sec][j + 1], FieldBytes))
  /\ j' = j + 1
  /\ UNCHANGED <<input, geom, side, pc, proof, got, consumed, sec, ci, subfield_run,
                 first_run, runlen, nruns>>

WriteNonce ==
  /\ Writing("nonce") /\ j < geom.nreq
  /\ Emit(Bytes(proof.nonce[j + 1], DigestBytes))
  /\ j' = j + 1
  /\ UNCHANGED <<input, geom, side, pc, proof, got, consumed, sec, ci, subfield_run,
                 first_run, runlen, nruns>>

\* Length of the longest run of the current kind from ci.
RunLen ==
  CHOOSE len \in 0 .. Total - ci :
    /\ \A q \in ci + 1 .. ci + len : InSubfield(proof.req[q]) = subfield_run
    /\ ci + len < Total => InSubfield(proof.req[ci + len + 1]) # subfield_run

WriteRunLen ==
  /\ Writing("run") /\ ci < Total /\ RunLen <= MaxSize
  /\ Emit(Bytes(RunLen, SizeBytes))
  /\ runlen' = RunLen /\ j' = 0 /\ pc' = "elts"
  /\ UNCHANGED <<input, geom, side, proof, got, consumed, sec, ci, subfield_run,
                 first_run, nruns>>

\* write_subfield_elt refuses nothing here: a run holds elements of its kind.
WriteElt ==
  LET e == proof.req[ci + j + 1] IN
  /\ Writing("elts") /\ j < runlen
  /\ Emit(IF subfield_run THEN Bytes(SubCode(e), SubBytes) ELSE Bytes(e, FieldBytes))
  /\ j' = j + 1
  /\ UNCHANGED <<input, geom, side, pc, proof, got, consumed, sec, ci, subfield_run,
                 first_run, runlen, nruns>>

WritePathLen ==
  /\ Writing("run") /\ ci >= Total /\ Len(proof.path) <= MaxSize
  /\ Emit(Bytes(Len(proof.path), SizeBytes))
  /\ j' = 0 /\ pc' = "path"
  /\ UNCHANGED <<input, geom, side, proof, got, consumed, sec, ci, subfield_run,
                 first_run, runlen, nruns>>

WriteDigest ==
  /\ Writing("path") /\ j < Len(proof.path)
  /\ Emit(Bytes(proof.path[j + 1], DigestBytes))
  /\ j' = j + 1
  /\ UNCHANGED <<input, geom, side, pc, proof, got, consumed, sec, ci, subfield_run,
                 first_run, runlen, nruns>>

\* An assertion fails: a length, or a size that does not fit in a u32.
WritePanics ==
  /\ \/ Writing("start") /\ ~WellShaped
     \/ Writing("run") /\ ci < Total /\ RunLen > MaxSize
     \/ Writing("run") /\ ci >= Total /\ Len(proof.path) > MaxSize
  /\ pc' = "panicked"
  /\ UNCHANGED <<input, geom, side, proof, got, out, consumed, position, nruns>>

-----------------------------------------------------------------------------
(***************************************************************************)
(* read.                                                                   *)
(***************************************************************************)
Reading(section) == side = "read" /\ pc = section

\* The next w bytes of the input, if there are that many.
Chunks(w) ==
  IF input = "any" THEN [1 .. w -> 0 .. B - 1]
  ELSE IF Len(consumed) + w <= Len(out)
  THEN {SubSeq(out, Len(consumed) + 1, Len(consumed) + w)}
  ELSE {}

Eof(w) == input = "any" \/ Len(consumed) + w > Len(out)

\* Width of what is read next.
Width ==
  IF pc \in {"run", "path_len"} THEN SizeBytes
  ELSE IF pc \in {"nonce", "path"} THEN DigestBytes
  ELSE IF pc = "elts" /\ subfield_run THEN SubBytes
  ELSE FieldBytes

\* The inner loop of the current section has another turn.
MoreToRead ==
  /\ side = "read"
  /\ \/ pc = "y" /\ j < YLen(sec)
     \/ pc = "nonce" /\ j < geom.nreq
     \/ pc = "run" /\ ci < Total
     \/ pc = "elts" /\ j < runlen
     \/ pc = "path_len"
     \/ pc = "path" /\ j < runlen

\* Mutants of RunOk: empty runs anywhere, and no bound on the total.
RunOk_Empty(v) == v < MAX_RUN_LEN /\ ci + v <= Total
RunOk_NoTotal(v) == ~(v = 0 /\ ~first_run) /\ v < MAX_RUN_LEN

RunOk(v) == ~(v = 0 /\ ~first_run) /\ v < MAX_RUN_LEN /\ ci + v <= Total

\* Mutant of EltOk: a subfield element may use the field encoding.
EltOk_AnyEncoding(c) == IF subfield_run THEN SubOk(c) ELSE FieldOk(c)

EltOk(c) == IF subfield_run THEN SubOk(c) ELSE FieldOk(c) /\ ~InSubfield(Value(c))

\* The tests the code makes on what it has just read.
Accepts(c) ==
  /\ pc = "y" => FieldOk(c)
  /\ pc = "run" => RunOk(Value(c))
  /\ pc = "elts" => EltOk(c)
  /\ pc = "path_len" => Value(c) <= geom.nreq * geom.mc_pathlen

Take(section, c) ==
  /\ Reading(section) /\ MoreToRead /\ Accepts(c)
  /\ consumed' = consumed \o c
  /\ UNCHANGED <<input, geom, side, proof, out>>

ReadY(c) ==
  /\ Take("y", c)
  /\ got' = [got EXCEPT !.y[sec] = Append(@, Value(c))]
  /\ j' = j + 1
  /\ UNCHANGED <<pc, sec, ci, subfield_run, first_run, runlen, nruns>>

ReadNonce(c) ==
  /\ Take("nonce", c)
  /\ got' = [got EXCEPT !.nonce = Append(@, Value(c))]
  /\ j' = j + 1
  /\ UNCHANGED <<pc, sec, ci, subfield_run, first_run, runlen, nruns>>

ReadRunLen(c) ==
  /\ Take("run", c)
  /\ runlen' = Value(c) /\ first_run' = FALSE /\ j' = 0 /\ pc' = "elts"
  /\ nruns' = nruns + 1
  /\ UNCHANGED <<got, sec, ci, subfield_run>>

ReadElt(c) ==
  /\ Take("elts", c)
  /\ got' = [got EXCEPT !.req = Append(@, IF subfield_run THEN Embed[Value(c)] ELSE Value(c))]
  /\ j' = j + 1
  /\ UNCHANGED <<pc, sec, ci, subfield_run, first_run, runlen, nruns>>

ReadPathLen(c) ==
  /\ Take("path_len", c)
  /\ runlen' = Value(c) /\ j' = 0 /\ pc' = "path"
  /\ UNCHANGED <<got, sec, ci, subfield_run, first_run, nruns>>

ReadDigest(c) ==
  /\ Take("path", c)
  /\ got' = [got EXCEPT !.path = Append(@, Value(c))]
  /\ j' = j + 1
  /\ UNCHANGED <<pc, sec, ci, subfield_run, first_run, runlen, nruns>>

\* The bytes run out, or a test fails.
ReadErr ==
  /\ MoreToRead
  /\ Eof(Width) \/ \E c \in Chunks(Width) : ~Accepts(c)
  /\ pc' = "rejected"
  /\ UNCHANGED <<input, geom, side, proof, got, out, consumed, position, nruns>>

-----------------------------------------------------------------------------
(***************************************************************************)
(* Ends of loops, the same in both functions, and ends of the functions.   *)
(***************************************************************************)
NextSection ==
  /\ pc = "y" /\ j = YLen(sec)
  /\ j' = 0
  /\ IF sec < 4 THEN sec' = sec + 1 /\ pc' = pc ELSE sec' = sec /\ pc' = "nonce"
  /\ UNCHANGED <<input, geom, side, proof, got, out, consumed, ci, subfield_run,
                 first_run, runlen, nruns>>

\* Mutant of StartRuns: the first run is a subfield run.
StartRuns_SubfieldFirst ==
  /\ pc = "nonce" /\ j = geom.nreq
  /\ ci' = 0 /\ subfield_run' = (side = "write") /\ first_run' = TRUE /\ runlen' = 0
  /\ pc' = "run"
  /\ UNCHANGED <<input, geom, side, proof, got, out, consumed, sec, j, nruns>>

StartRuns ==
  /\ pc = "nonce" /\ j = geom.nreq
  /\ ci' = 0 /\ subfield_run' = FALSE /\ first_run' = TRUE /\ runlen' = 0
  /\ pc' = "run"
  /\ UNCHANGED <<input, geom, side, proof, got, out, consumed, sec, j, nruns>>

EndRun ==
  /\ pc = "elts" /\ j = runlen
  /\ ci' = ci + runlen /\ subfield_run' = ~subfield_run
  /\ pc' = "run"
  /\ UNCHANGED <<input, geom, side, proof, got, out, consumed, sec, j, first_run,
                 runlen, nruns>>

ReadRunsDone ==
  /\ Reading("run") /\ ci >= Total
  /\ pc' = "path_len"
  /\ UNCHANGED <<input, geom, side, proof, got, out, consumed, position, nruns>>

\* Ok: in an honest behaviour the bytes are read back, in the other the proof
\* read is written again.
WriteOk ==
  /\ Writing("path") /\ j = Len(proof.path)
  /\ IF input = "honest" THEN side' = "read" /\ pc' = "y" ELSE side' = side /\ pc' = "done"
  /\ sec' = 1 /\ j' = 0
  /\ UNCHANGED <<input, geom, proof, got, out, consumed, ci, subfield_run, first_run,
                 runlen, nruns>>

ReadOk ==
  /\ Reading("path") /\ j = runlen
  /\ IF input = "any" THEN side' = "write" /\ pc' = "start" /\ proof' = got
     ELSE pc' = "done" /\ UNCHANGED <<side, proof>>
  /\ UNCHANGED <<input, geom, got, out, consumed, position, nruns>>

-----------------------------------------------------------------------------
NoProof == [y |-> <<<<>>, <<>>, <<>>, <<>>>>, nonce |-> <<>>, req |-> <<>>, path |-> <<>>]

Init ==
  /\ geom \in Geometries
  /\ \/ input = "honest" /\ proof \in Proofs(geom) /\ side = "write" /\ pc = "start"
     \/ input = "any" /\ proof = NoProof /\ side = "read" /\ pc = "y"
  /\ got = NoProof /\ out = <<>> /\ consumed = <<>>
  /\ sec = 1 /\ j = 0 /\ ci = 0 /\ subfield_run = FALSE /\ first_run = TRUE
  /\ runlen = 0 /\ nruns = 0

Write ==
  \/ WriteStart \/ WriteY \/ WriteNonce \/ WriteRunLen \/ WriteElt \/ WritePathLen
  \/ WriteDigest \/ WritePanics \/ WriteOk

Read ==
  \/ \E c \in Chunks(Width) :
       ReadY(c) \/ ReadNonce(c) \/ ReadRunLen(c) \/ ReadElt(c) \/ ReadPathLen(c) \/ ReadDigest(c)
  \/ ReadErr \/ ReadRunsDone \/ ReadOk

Next == Write \/ Read \/ NextSection \/ StartRuns \/ EndRun

Spec == Init /\ [][Next]_vars

-----------------------------------------------------------------------------
(***************************************************************************)
(* Properties.                                                             *)
(***************************************************************************)
\* Type invariant; in particular read never holds more of a vector than the
\* geometry says, and reads no more runs than that, whatever the input: two empty
\* runs in a row would leave ci where it was.
TypeOK ==
  /\ input \in {"honest", "any"} /\ geom \in Geometries /\ side \in {"write", "read"}
  /\ pc \in {"start", "y", "nonce", "run", "elts", "path_len", "path",
             "done", "rejected", "panicked"}
  /\ proof \in ProofType /\ got \in ProofType
  /\ \A s \in 1 .. 4 : Len(got.y[s]) <= YLen(s)
  /\ Len(got.nonce) <= geom.nreq /\ Len(got.req) <= Total
  /\ Len(got.path) <= geom.nreq * geom.mc_pathlen
  /\ out \in Seq(0 .. B - 1) /\ consumed \in Seq(0 .. B - 1)
  /\ sec \in 1 .. 4 /\ j \in Nat /\ ci \in 0 .. Total /\ runlen \in Nat /\ nruns \in 0 .. Total + 1
  /\ subfield_run \in BOOLEAN /\ first_run \in BOOLEAN

\* One encoding per proof: whatever bytes read accepts, write_to_buf produces
\* the same bytes from the proof read, and does not panic on it.
Canonical ==
  input = "any" =>
    /\ pc # "panicked"
    /\ pc = "done" => out = consumed

\* What the prover writes is read back as the same proof and to the last byte.
\* The reader refuses it only where a run reaches MAX_RUN_LEN, which the writer
\* does not look at.
HasLongRun ==
  \E q \in 1 .. Total - MAX_RUN_LEN + 1 :
    \A x \in q .. q + MAX_RUN_LEN - 1 : InSubfield(proof.req[x]) = InSubfield(proof.req[q])

RoundTrip ==
  input = "honest" =>
    /\ pc = "rejected" => HasLongRun
    /\ pc = "done" => got = proof /\ consumed = out
=============================================================================
