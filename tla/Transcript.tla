----------------------------- MODULE Transcript -----------------------------
(***************************************************************************)
(* The Fiat-Shamir transcript of runtime/random/src/transcript.rs.         *)
(*                                                                         *)
(* Every message is absorbed into a SHA-256 accumulator as a tag, a length *)
(* (for strings and arrays) and the raw bytes.  Challenge bytes come from  *)
(* an AES-256 counter-mode generator seeded from the accumulated hash; the *)
(* generator is cached between draws and dropped by every write.           *)
(*                                                                         *)
(* SHA-256 and AES are ideal: a digest is the absorbed byte stream itself, *)
(* and byte `off` of PRF block `block` under key `key` is the record of    *)
(* the three.  Replicas stand for the transcripts alive at one time (the   *)
(* prover's, the verifier's, a clone).                                     *)
(***************************************************************************)
EXTENDS Integers, SequencesExt

CONSTANTS
  Replica,        \* transcript objects
  Byte,           \* byte values
  EltSizes,       \* serialized_size_bytes of the fields in use
  PrfBlock,       \* bytes per AES block (16)
  MAX_PRF_BLOCKS, \* blocks one key may produce (2^40)
  MaxAbsorbed,    \* bound: bytes absorbed by one replica
  MaxLen,         \* bound: length of a string or of an array
  MaxPrefix,      \* bound: length of the prefix given to Transcript::new
  MaxDraw,        \* bound: bytes drawn since the last write
  MaxKeyed        \* bound: bytes absorbed by a replica that draws

ASSUME TranscriptAssumption ==
  /\ {0, 1, 2} \subseteq Byte /\ 0 .. MaxLen \subseteq Byte
  /\ EltSizes \subseteq Nat \ {0}
  /\ PrfBlock \in Nat \ {0}
  /\ MAX_PRF_BLOCKS \in Nat
  /\ MaxAbsorbed \in Nat /\ MaxLen \in Nat /\ MaxDraw \in Nat
  /\ MaxPrefix \in 0 .. MaxLen
  /\ MaxKeyed \in Nat

VARIABLES
  hash_accumulator, \* bytes absorbed by each replica
  prf,              \* pseudorandom_generator: at most one generator
  left,             \* bytes the call of `bytes` in progress still owes
  msgs,             \* history: messages absorbed
  stream,           \* history: bytes drawn since the last write
  panicked          \* replicas whose caller hit "too many blocks"

vars == <<hash_accumulator, prf, left, msgs, stream, panicked>>

-----------------------------------------------------------------------------
(***************************************************************************)
(* Framing.                                                                *)
(***************************************************************************)
TAG_BSTR == 0
TAG_FIELD_ELEM == 1
TAG_ARRAY == 2

Elt(size) == [1 .. size -> Byte]

\* The field is the type parameter of each call: it is known to the caller and
\* leaves no trace in the bytes but their number.
Bstr(data) == [tag |-> TAG_BSTR, data |-> data]
FieldElem(size, e) == [tag |-> TAG_FIELD_ELEM, size |-> size, elt |-> e]
Array(size, es) == [tag |-> TAG_ARRAY, size |-> size, elts |-> es]

\* The little-endian u64 length is one symbol: no length reaches 2^64.
length(x) == <<x>>

tag(t) == <<t>>

\* The elements of an array, one after the other and without separators.
EltsBytes(size, es) ==
  [i \in 1 .. size * Len(es) |->
     es[((i - 1) \div size) + 1][((i - 1) % size) + 1]]

\* Mutant of FramedBstr: the length prefix is dropped.
FramedBstr_NoLength(data) == tag(TAG_BSTR) \o data

FramedBstr(data) == tag(TAG_BSTR) \o length(Len(data)) \o data
FramedElt(e) == tag(TAG_FIELD_ELEM) \o e
FramedArray(size, es) ==
  tag(TAG_ARRAY) \o length(Len(es)) \o EltsBytes(size, es)

-----------------------------------------------------------------------------
(***************************************************************************)
(* The generator FsPrf.                                                    *)
(***************************************************************************)
NoPrf == <<>>

PrfByte(key, block, off) == [key |-> key, block |-> block, off |-> off]

FsPrfNew(key) ==
  [key |-> key, block_counter |-> 0, read_pointer |-> PrfBlock, buffer |-> 0]

\* Mutant of Refill: the block counter is not advanced.
Refill_SameBlock(g) == [g EXCEPT !.read_pointer = 0, !.buffer = g.block_counter]

\* output_buffer is the PRF of the block number, so the number stands for it.
Refill(g) ==
  [key |-> g.key, block_counter |-> g.block_counter + 1,
   read_pointer |-> 0, buffer |-> g.block_counter]

\* Mutant of Ready: the buffer is refilled one byte late.
Ready_Late(g) == IF g.read_pointer > PrfBlock THEN Refill(g) ELSE g

\* Refill the buffer when it is used up.
Ready(g) == IF g.read_pointer = PrfBlock THEN Refill(g) ELSE g

-----------------------------------------------------------------------------
(***************************************************************************)
(* Operations.  A transcript is used through &mut, so no call on a replica *)
(* starts while `bytes` runs on it.                                        *)
(***************************************************************************)
Idle(r) == left[r] = 0 /\ r \notin panicked

\* Mutant of Absorb: the cached generator survives the write.
Absorb_KeepsPrf(r, m, bytes) ==
  /\ Idle(r)
  /\ Len(hash_accumulator[r] \o bytes) <= MaxAbsorbed
  /\ hash_accumulator' = [hash_accumulator EXCEPT ![r] = @ \o bytes]
  /\ msgs' = [msgs EXCEPT ![r] = Append(@, m)]
  /\ stream' = [stream EXCEPT ![r] = <<>>]
  /\ UNCHANGED <<prf, left, panicked>>

\* write_untyped: every write drops the generator and extends the hash.
Absorb(r, m, bytes) ==
  /\ Idle(r)
  /\ Len(hash_accumulator[r] \o bytes) <= MaxAbsorbed
  /\ hash_accumulator' = [hash_accumulator EXCEPT ![r] = @ \o bytes]
  /\ prf' = [prf EXCEPT ![r] = NoPrf]
  /\ msgs' = [msgs EXCEPT ![r] = Append(@, m)]
  /\ stream' = [stream EXCEPT ![r] = <<>>]
  /\ UNCHANGED <<left, panicked>>

WriteBytes(r, data) == Absorb(r, Bstr(data), FramedBstr(data))

\* The zeros go in as whole buffers and a remainder: n zero bytes in all.
Write0(r, n) == WriteBytes(r, [i \in 1 .. n |-> 0])

WriteEltField(r, size, e) == Absorb(r, FieldElem(size, e), FramedElt(e))

WriteEltFieldSlice(r, size, es) ==
  Absorb(r, Array(size, es), FramedArray(size, es))

\* Mutant of Bytes: a call drops what the one before left of its block.
Bytes_WholeBlocks(r, len) ==
  /\ Idle(r)
  /\ Len(stream[r]) + len <= MaxDraw
  /\ Len(hash_accumulator[r]) <= MaxKeyed
  /\ prf' = [prf EXCEPT ![r] =
               IF @ = NoPrf THEN FsPrfNew(hash_accumulator[r])
                            ELSE [@ EXCEPT !.read_pointer = PrfBlock]]
  /\ left' = [left EXCEPT ![r] = len]
  /\ UNCHANGED <<hash_accumulator, msgs, stream, panicked>>

\* bytes(len): seed the generator from the current hash unless one is cached.
Bytes(r, len) ==
  /\ Idle(r)
  /\ Len(stream[r]) + len <= MaxDraw
  /\ Len(hash_accumulator[r]) <= MaxKeyed
  /\ prf' = [prf EXCEPT ![r] =
               IF @ = NoPrf THEN FsPrfNew(hash_accumulator[r]) ELSE @]
  /\ left' = [left EXCEPT ![r] = len]
  /\ UNCHANGED <<hash_accumulator, msgs, stream, panicked>>

\* One turn of the loop in FsPrf::bytes.
BytesStep(r) ==
  /\ left[r] > 0 /\ r \notin panicked
  /\ prf[r].read_pointer = PrfBlock => prf[r].block_counter < MAX_PRF_BLOCKS
  /\ LET g == Ready(prf[r])
     IN  /\ stream' = [stream EXCEPT ![r] =
                         Append(@, PrfByte(g.key, g.buffer, g.read_pointer))]
         /\ prf' = [prf EXCEPT ![r] = [g EXCEPT !.read_pointer = @ + 1]]
  /\ left' = [left EXCEPT ![r] = @ - 1]
  /\ UNCHANGED <<hash_accumulator, msgs, panicked>>

\* The assertion of refill fails.
TooManyBlocks(r) ==
  /\ left[r] > 0 /\ r \notin panicked
  /\ prf[r].read_pointer = PrfBlock
  /\ prf[r].block_counter >= MAX_PRF_BLOCKS
  /\ panicked' = panicked \cup {r}
  /\ UNCHANGED <<hash_accumulator, prf, left, msgs, stream>>

\* Clone keeps the hash and the generator, in mid-block or not.
Clone(r, s) ==
  /\ r # s /\ Idle(r) /\ Idle(s)
  /\ hash_accumulator' = [hash_accumulator EXCEPT ![s] = hash_accumulator[r]]
  /\ prf' = [prf EXCEPT ![s] = prf[r]]
  /\ msgs' = [msgs EXCEPT ![s] = msgs[r]]
  /\ stream' = [stream EXCEPT ![s] = stream[r]]
  /\ UNCHANGED <<left, panicked>>

\* Transcript::new absorbs the caller's prefix.
Init ==
  /\ \E init \in [Replica -> BoundedSeq(Byte, MaxPrefix)] :
       /\ msgs = [r \in Replica |-> <<Bstr(init[r])>>]
       /\ hash_accumulator = [r \in Replica |-> FramedBstr(init[r])]
  /\ prf = [r \in Replica |-> NoPrf]
  /\ left = [r \in Replica |-> 0]
  /\ stream = [r \in Replica |-> <<>>]
  /\ panicked = {}

Next ==
  \/ \E r \in Replica, data \in BoundedSeq(Byte, MaxLen) : WriteBytes(r, data)
  \/ \E r \in Replica, n \in 0 .. MaxLen : Write0(r, n)
  \/ \E r \in Replica, size \in EltSizes :
       \E e \in Elt(size) : WriteEltField(r, size, e)
  \/ \E r \in Replica, size \in EltSizes :
       \E es \in BoundedSeq(Elt(size), MaxLen) : WriteEltFieldSlice(r, size, es)
  \/ \E r \in Replica, len \in 1 .. MaxDraw : Bytes(r, len)
  \/ \E r \in Replica : BytesStep(r)
  \/ \E r \in Replica : TooManyBlocks(r)
  \/ \E r, s \in Replica : Clone(r, s)

Spec == Init /\ [][Next]_vars

-----------------------------------------------------------------------------
(***************************************************************************)
(* Properties.                                                             *)
(***************************************************************************)
Generator ==
  [key : Seq(Byte), block_counter : Nat, read_pointer : 0 .. PrfBlock,
   buffer : Nat]

Drawn == [key : Seq(Byte), block : Nat, off : Nat]

\* Type invariant of the transcript state (Transcript and FsPrf fields).
TypeOK ==
  /\ hash_accumulator \in [Replica -> Seq(Byte)]
  /\ prf \in [Replica -> Generator \cup {NoPrf}]
  /\ left \in [Replica -> Nat]
  /\ DOMAIN msgs = Replica
  /\ stream \in [Replica -> Seq(Drawn)]
  /\ panicked \subseteq Replica

\* Every byte drawn since the last write is keyed by the hash of everything
\* absorbed, and the k-th of them is byte k of the counter-mode key stream: a
\* generator that outlived a write, a skipped block or a restarted counter
\* would show (write_untyped, bytes and refill of transcript.rs).
ChallengeBound ==
  \A r \in Replica : \A k \in 1 .. Len(stream[r]) :
    /\ stream[r][k].key = hash_accumulator[r]
    /\ stream[r][k].off < PrfBlock
    /\ k = stream[r][k].block * PrfBlock + stream[r][k].off + 1

\* A prover and a verifier whose transcripts absorbed the same bytes draw the
\* same challenges, however each of them splits its draws over calls of
\* `bytes` and whether or not one is a clone taken in the middle of a block.
Agreement ==
  \A r, s \in Replica :
    hash_accumulator[r] = hash_accumulator[s] =>
      \A k \in 1 .. Len(stream[r]) :
        k <= Len(stream[s]) => stream[r][k] = stream[s][k]

\* The two sides of a protocol write elements of the same field at the same
\* place, where both write an element or both an array.
SameFields(ms, ks) ==
  \A i \in DOMAIN ms \cap DOMAIN ks :
    ms[i].tag = ks[i].tag /\ ms[i].tag # TAG_BSTR => ms[i].size = ks[i].size

\* The tags and length prefixes make the absorbed stream uniquely decodable for
\* a reader who knows the fields: different histories of messages, of different
\* number, kinds, lengths and mixed element sizes, never hash alike as long as
\* the fields agree place by place.
Canonical ==
  \A r, s \in Replica :
    hash_accumulator[r] = hash_accumulator[s] /\ SameFields(msgs[r], msgs[s])
      => msgs[r] = msgs[s]

\* What the comment on Transcript says without that condition: "prepending each
\* input with a tag and a length prefix [...] ensures canonical serialization".
\* Values(ms) are the messages without their fields.
Values(ms) ==
  [i \in DOMAIN ms |-> [k \in DOMAIN ms[i] \ {"size"} |-> ms[i][k]]]

CanonicalForAllFields ==
  \A r, s \in Replica :
    hash_accumulator[r] = hash_accumulator[s] => Values(msgs[r]) = Values(msgs[s])

-----------------------------------------------------------------------------
(***************************************************************************)
(* The refinement of the ideal Fiat-Shamir oracle.                         *)
(***************************************************************************)
\* The messages that can be absorbed, and the bytes each is absorbed as.
Strings == {Bstr(d) : d \in BoundedSeq(Byte, MaxLen)}
Elements(size) == {FieldElem(size, e) : e \in Elt(size)}
Arrays(size) == {Array(size, es) : es \in BoundedSeq(Elt(size), MaxLen)}

Message ==
  Strings \cup UNION {Elements(size) \cup Arrays(size) : size \in EltSizes}

Framed(m) ==
  CASE m.tag = TAG_BSTR -> FramedBstr(m.data)
    [] m.tag = TAG_FIELD_ELEM -> FramedElt(m.elt)
    [] m.tag = TAG_ARRAY -> FramedArray(m.size, m.elts)

\* The n-th byte of the key stream for the messages ms.
OracleByte(ms, n) ==
  [key |-> FlattenSeq([i \in DOMAIN ms |-> Framed(ms[i])]), n |-> n]

FlatStream(r) ==
  [k \in DOMAIN stream[r] |->
     [key |-> stream[r][k].key,
      n |-> stream[r][k].block * PrfBlock + stream[r][k].off + 1]]

Oracle == INSTANCE FiatShamirOracle
            WITH Challenge <- OracleByte,
                 stream <- [r \in Replica |-> FlatStream(r)]

\* The transcript implements the ideal oracle: the cached generator, its
\* buffer and counter, the framing and Clone are invisible; what is drawn
\* depends on the absorbed messages alone (Transcript::bytes).
ImplementsOracle == Oracle!Spec
=============================================================================
