-------------------------- MODULE TranscriptProofs --------------------------
(***************************************************************************)
(* Proofs about Transcript, for every block size, block limit and number   *)
(* of replicas: what is drawn is a function of what was absorbed.          *)
(***************************************************************************)
EXTENDS Transcript, NaturalsInduction, WellFoundedInduction, TLAPS

(***************************************************************************)
(* Arithmetic.                                                             *)
(***************************************************************************)

\* The position of a byte inside an array of equal-sized elements.
LEMMA DivModBound ==
  ASSUME NEW b \in Nat \ {0}, NEW n \in Nat, NEW i \in 1 .. b * n
  PROVE  /\ ((i - 1) \div b) + 1 \in 1 .. n
         /\ ((i - 1) % b) + 1 \in 1 .. b
<1> DEFINE q == (i - 1) \div b
           m == (i - 1) % b
<1>0. b * n \in Nat
  OBVIOUS
<1>1. /\ q \in Nat /\ m \in 0 .. b - 1
      /\ i - 1 = b * q + m
  BY <1>0
<1>2. q < n
  <2> SUFFICES ASSUME q >= n PROVE FALSE
    BY <1>1
  <2>1. b * q >= b * n
    BY <1>1, <1>0
  <2> QED
    BY <2>1, <1>1, <1>0
<1> QED
  BY <1>1, <1>2

\* A quotient and a remainder are determined by the number they make up.
LEMMA DivModUnique ==
  ASSUME NEW b \in Nat \ {0}, NEW q \in Nat, NEW p \in Nat,
         NEW r \in Nat, NEW s \in Nat, r < b, s < b,
         q * b + r = p * b + s
  PROVE  q = p /\ r = s
<1>1. ASSUME NEW x \in Nat, NEW y \in Nat, x < y
      PROVE  x * b + b <= y * b
  <2>1. y = x + 1 + (y - x - 1) /\ y - x - 1 \in Nat
    BY <1>1
  <2>2. y * b = x * b + b + (y - x - 1) * b
    BY <2>1
  <2>3. (y - x - 1) * b \in Nat
    BY <2>1
  <2> QED
    BY <2>2, <2>3
<1>2. ~(q < p)
  BY <1>1
<1>3. ~(p < q)
  BY <1>1
<1> QED
  BY <1>2, <1>3

LEMMA AppendFacts ==
  ASSUME NEW S, NEW s \in Seq(S), NEW e \in S
  PROVE  /\ Append(s, e) \in Seq(S)
         /\ Append(s, e) # <<>>
         /\ Len(Append(s, e)) = Len(s) + 1
         /\ Append(s, e)[Len(s) + 1] = e
         /\ \A k \in 1 .. Len(s) : Append(s, e)[k] = s[k]
OBVIOUS

(***************************************************************************)
(* Framing produces bytes.                                                 *)
(***************************************************************************)
LEMMA BoundedSeqIsSeq ==
  ASSUME NEW S, NEW n \in Nat, NEW s \in BoundedSeq(S, n)
  PROVE  s \in Seq(S) /\ Len(s) \in 0 .. n
BY DEF BoundedSeq, SeqOf

LEMMA FramedBstrType ==
  ASSUME NEW data \in BoundedSeq(Byte, MaxLen)
  PROVE  FramedBstr(data) \in Seq(Byte)
<1>1. data \in Seq(Byte) /\ Len(data) \in Byte
  BY BoundedSeqIsSeq, TranscriptAssumption
<1>2. tag(TAG_BSTR) \in Seq(Byte) /\ length(Len(data)) \in Seq(Byte)
  BY <1>1, TranscriptAssumption DEF tag, length, TAG_BSTR
<1> QED
  BY <1>1, <1>2 DEF FramedBstr

LEMMA FramedEltType ==
  ASSUME NEW size \in EltSizes, NEW e \in Elt(size)
  PROVE  FramedElt(e) \in Seq(Byte)
<1>1. e \in Seq(Byte)
  BY TranscriptAssumption DEF Elt
<1>2. tag(TAG_FIELD_ELEM) \in Seq(Byte)
  BY TranscriptAssumption DEF tag, TAG_FIELD_ELEM
<1> QED
  BY <1>1, <1>2 DEF FramedElt

LEMMA EltsBytesType ==
  ASSUME NEW size \in EltSizes, NEW es \in Seq(Elt(size))
  PROVE  EltsBytes(size, es) \in Seq(Byte) /\ Len(EltsBytes(size, es)) = size * Len(es)
<1>1. size * Len(es) \in Nat
  BY TranscriptAssumption
<1>2. ASSUME NEW i \in 1 .. size * Len(es)
      PROVE  es[((i - 1) \div size) + 1][((i - 1) % size) + 1] \in Byte
  <2>1. /\ ((i - 1) \div size) + 1 \in 1 .. Len(es)
        /\ ((i - 1) % size) + 1 \in 1 .. size
    BY DivModBound, TranscriptAssumption
  <2>2. es[((i - 1) \div size) + 1] \in Elt(size)
    BY <2>1
  <2> QED
    BY <2>1, <2>2 DEF Elt
<1> QED
  BY <1>1, <1>2 DEF EltsBytes

LEMMA FramedArrayType ==
  ASSUME NEW size \in EltSizes, NEW es \in BoundedSeq(Elt(size), MaxLen)
  PROVE  FramedArray(size, es) \in Seq(Byte)
<1>1. es \in Seq(Elt(size)) /\ Len(es) \in Byte
  BY BoundedSeqIsSeq, TranscriptAssumption
<1>2. EltsBytes(size, es) \in Seq(Byte)
  BY <1>1, EltsBytesType
<1>3. tag(TAG_ARRAY) \in Seq(Byte) /\ length(Len(es)) \in Seq(Byte)
  BY <1>1, TranscriptAssumption DEF tag, length, TAG_ARRAY
<1> QED
  BY <1>2, <1>3 DEF FramedArray

LEMMA ZerosType ==
  ASSUME NEW n \in 0 .. MaxLen
  PROVE  [i \in 1 .. n |-> 0] \in BoundedSeq(Byte, MaxLen)
BY TranscriptAssumption DEF BoundedSeq, SeqOf

\* Every action that writes is an Absorb of some bytes.
LEMMA WritesAbsorb ==
  ASSUME Next
  PROVE  \/ \E r \in Replica, bytes \in Seq(Byte) : \E m : Absorb(r, m, bytes)
         \/ \E r \in Replica, len \in 1 .. MaxDraw : Bytes(r, len)
         \/ \E r \in Replica : BytesStep(r)
         \/ \E r \in Replica : TooManyBlocks(r)
         \/ \E r, s \in Replica : Clone(r, s)
<1>1. ASSUME NEW r \in Replica, NEW data \in BoundedSeq(Byte, MaxLen),
             WriteBytes(r, data)
      PROVE  \E bytes \in Seq(Byte) : \E m : Absorb(r, m, bytes)
  BY <1>1, FramedBstrType DEF WriteBytes
<1>2. ASSUME NEW r \in Replica, NEW n \in 0 .. MaxLen, Write0(r, n)
      PROVE  \E bytes \in Seq(Byte) : \E m : Absorb(r, m, bytes)
  BY <1>1, <1>2, ZerosType DEF Write0
<1>3. ASSUME NEW r \in Replica, NEW size \in EltSizes, NEW e \in Elt(size),
             WriteEltField(r, size, e)
      PROVE  \E bytes \in Seq(Byte) : \E m : Absorb(r, m, bytes)
  BY <1>3, FramedEltType DEF WriteEltField
<1>4. ASSUME NEW r \in Replica, NEW size \in EltSizes,
             NEW es \in BoundedSeq(Elt(size), MaxLen),
             WriteEltFieldSlice(r, size, es)
      PROVE  \E bytes \in Seq(Byte) : \E m : Absorb(r, m, bytes)
  BY <1>4, FramedArrayType DEF WriteEltFieldSlice
<1> QED
  BY <1>1, <1>2, <1>3, <1>4 DEF Next

-----------------------------------------------------------------------------
(***************************************************************************)
(* Type correctness.                                                       *)
(***************************************************************************)
\* A generator is not NoPrf, and a call in progress has one.
Seeded == \A r \in Replica : left[r] > 0 => prf[r] \in Generator

LEMMA GeneratorIsSome == ASSUME NEW g \in Generator PROVE g # NoPrf
BY DEF Generator, NoPrf

LEMMA ReadyType ==
  ASSUME NEW g \in Generator
  PROVE  /\ Ready(g) \in Generator
         /\ Ready(g).read_pointer < PrfBlock
         /\ Ready(g).key = g.key
<1>1. Refill(g) \in Generator /\ Refill(g).read_pointer = 0 /\ Refill(g).key = g.key
  BY TranscriptAssumption DEF Refill, Generator
<1> QED
  BY <1>1, TranscriptAssumption DEF Ready, Generator

LEMMA StepGenerator ==
  ASSUME NEW g \in Generator, g.read_pointer < PrfBlock
  PROVE  /\ [g EXCEPT !.read_pointer = @ + 1] \in Generator
         /\ PrfByte(g.key, g.buffer, g.read_pointer) \in Drawn
<1>1. g.read_pointer + 1 \in 0 .. PrfBlock
  BY TranscriptAssumption DEF Generator
<1>2. [g EXCEPT !.read_pointer = @ + 1] \in Generator
  BY <1>1 DEF Generator
<1>3. PrfByte(g.key, g.buffer, g.read_pointer) \in Drawn
  BY TranscriptAssumption DEF Generator, PrfByte, Drawn
<1> QED
  BY <1>2, <1>3

LEMMA DrawnEqual ==
  ASSUME NEW a \in Drawn, NEW b \in Drawn, a.key = b.key, a.block = b.block, a.off = b.off
  PROVE  a = b
BY DEF Drawn

\* Every replica begins with a prefix that is a string like any other.
LEMMA InitPrefix ==
  ASSUME Init
  PROVE  \E init \in [Replica -> BoundedSeq(Byte, MaxLen)] :
           /\ msgs = [q \in Replica |-> <<Bstr(init[q])>>]
           /\ hash_accumulator = [q \in Replica |-> FramedBstr(init[q])]
<1>1. PICK init \in [Replica -> BoundedSeq(Byte, MaxPrefix)] :
        /\ msgs = [q \in Replica |-> <<Bstr(init[q])>>]
        /\ hash_accumulator = [q \in Replica |-> FramedBstr(init[q])]
  BY DEF Init
<1>2. ASSUME NEW q \in Replica PROVE init[q] \in BoundedSeq(Byte, MaxLen)
  <2>1. init[q] \in BoundedSeq(Byte, MaxPrefix)
    BY <1>1
  <2>2. 0 .. MaxPrefix \subseteq 0 .. MaxLen
    BY TranscriptAssumption
  <2> QED
    BY <2>1, <2>2 DEF BoundedSeq, SeqOf
<1>3. init \in [Replica -> BoundedSeq(Byte, MaxLen)]
  BY <1>1, <1>2
<1> QED
  BY <1>1, <1>3

\* The type invariant is inductive together with Seeded.
LEMMA TypeInit == Init => TypeOK /\ Seeded
<1> SUFFICES ASSUME Init PROVE TypeOK /\ Seeded
  OBVIOUS
<1>1. hash_accumulator \in [Replica -> Seq(Byte)]
  BY InitPrefix, FramedBstrType
<1> QED
  BY <1>1 DEF Init, TypeOK, Seeded, NoPrf

LEMMA TypeNext == TypeOK /\ Seeded /\ [Next]_vars => (TypeOK /\ Seeded)'
<1> SUFFICES ASSUME TypeOK, Seeded, [Next]_vars PROVE (TypeOK /\ Seeded)'
  OBVIOUS
<1>1. ASSUME NEW r \in Replica, NEW bytes \in Seq(Byte), NEW m, Absorb(r, m, bytes)
      PROVE  (TypeOK /\ Seeded)'
  <2>1. hash_accumulator' \in [Replica -> Seq(Byte)]
    BY <1>1 DEF TypeOK, Absorb
  <2>2. prf' \in [Replica -> Generator \cup {NoPrf}]
    BY <1>1 DEF TypeOK, Absorb
  <2>3. stream' \in [Replica -> Seq(Drawn)]
    BY <1>1 DEF TypeOK, Absorb
  <2>4. Seeded'
    BY <1>1 DEF TypeOK, Absorb, Seeded, Idle
  <2> QED
    BY <1>1, <2>1, <2>2, <2>3, <2>4 DEF TypeOK, Absorb
<1>2. ASSUME NEW r \in Replica, NEW len \in 1 .. MaxDraw, Bytes(r, len)
      PROVE  (TypeOK /\ Seeded)'
  <2>1. FsPrfNew(hash_accumulator[r]) \in Generator
    BY TranscriptAssumption DEF TypeOK, FsPrfNew, Generator
  <2>2. prf' \in [Replica -> Generator \cup {NoPrf}]
    BY <1>2, <2>1 DEF TypeOK, Bytes
  <2>3. prf'[r] \in Generator
    BY <1>2, <2>1 DEF TypeOK, Bytes
  <2>4. left' \in [Replica -> Nat]
    BY <1>2, TranscriptAssumption DEF TypeOK, Bytes
  <2>5. Seeded'
    BY <1>2, <2>3 DEF TypeOK, Bytes, Seeded
  <2> QED
    BY <1>2, <2>2, <2>4, <2>5 DEF TypeOK, Bytes
<1>3. ASSUME NEW r \in Replica, BytesStep(r)
      PROVE  (TypeOK /\ Seeded)'
  <2> DEFINE g == Ready(prf[r])
             h == [g EXCEPT !.read_pointer = @ + 1]
             b == PrfByte(g.key, g.buffer, g.read_pointer)
  <2>1. prf[r] \in Generator
    BY <1>3 DEF Seeded, BytesStep
  <2>2. g \in Generator /\ g.read_pointer < PrfBlock
    BY <2>1, ReadyType
  <2>3. h \in Generator
    BY <2>2, StepGenerator
  <2>4. b \in Drawn
    BY <2>2, StepGenerator
  <2>5. /\ stream' = [stream EXCEPT ![r] = Append(@, b)]
        /\ prf' = [prf EXCEPT ![r] = h]
        /\ left' = [left EXCEPT ![r] = @ - 1]
        /\ left[r] > 0
        /\ UNCHANGED <<hash_accumulator, msgs, panicked>>
    BY <1>3 DEF BytesStep
  <2> HIDE DEF g, h, b
  <2>6. prf' \in [Replica -> Generator \cup {NoPrf}]
    BY <2>3, <2>5 DEF TypeOK
  <2>7. stream' \in [Replica -> Seq(Drawn)]
    BY <2>4, <2>5 DEF TypeOK
  <2>8. left' \in [Replica -> Nat]
    BY <2>5 DEF TypeOK
  <2>9. Seeded'
    BY <2>3, <2>5 DEF TypeOK, Seeded
  <2> QED
    BY <2>5, <2>6, <2>7, <2>8, <2>9 DEF TypeOK
<1>4. ASSUME NEW r \in Replica, TooManyBlocks(r)
      PROVE  (TypeOK /\ Seeded)'
  BY <1>4 DEF TypeOK, Seeded, TooManyBlocks
<1>5. ASSUME NEW r \in Replica, NEW s \in Replica, Clone(r, s)
      PROVE  (TypeOK /\ Seeded)'
  <2>1. stream' \in [Replica -> Seq(Drawn)]
    BY <1>5 DEF TypeOK, Clone
  <2>2. Seeded'
    BY <1>5 DEF TypeOK, Clone, Seeded, Idle
  <2> QED
    BY <1>5, <2>1, <2>2 DEF TypeOK, Clone
<1>6. CASE UNCHANGED vars
  BY <1>6 DEF vars, TypeOK, Seeded
<1> QED
  BY <1>1, <1>2, <1>3, <1>4, <1>5, <1>6, WritesAbsorb

\* The transcript state is well typed in every reachable state.
THEOREM TypeCorrect == Spec => []TypeOK
<1>1. Init => TypeOK /\ Seeded
  BY TypeInit
<1>2. TypeOK /\ Seeded /\ [Next]_vars => (TypeOK /\ Seeded)'
  BY TypeNext
<1> QED
  BY <1>1, <1>2, PTL DEF Spec

-----------------------------------------------------------------------------
(***************************************************************************)
(* Challenges are bound to the messages.  Position ties a live generator   *)
(* to the history: it is keyed by the current hash, holds the block before *)
(* its counter, and has produced exactly the bytes of the stream.          *)
(***************************************************************************)
AtPosition(g, acc, n) ==
  /\ g.key = acc
  /\ n + PrfBlock = g.block_counter * PrfBlock + g.read_pointer
  /\ g.block_counter = 0 => g.read_pointer = PrfBlock
  /\ g.block_counter > 0 => g.block_counter = g.buffer + 1

Position ==
  \A r \in Replica :
    /\ prf[r] = NoPrf => stream[r] = <<>>
    /\ prf[r] # NoPrf => AtPosition(prf[r], hash_accumulator[r], Len(stream[r]))

IInv == TypeOK /\ Seeded /\ Position /\ ChallengeBound

\* Where byte k of the key stream comes from.
IsByte(b, acc, k) ==
  /\ b.key = acc
  /\ b.off < PrfBlock
  /\ k = b.block * PrfBlock + b.off + 1

\* A key stream has one byte at a position.
LEMMA SameByte ==
  ASSUME NEW a \in Drawn, NEW b \in Drawn, NEW acc, NEW k \in Nat,
         IsByte(a, acc, k), IsByte(b, acc, k)
  PROVE  a = b
<1>1. PICK q \in Nat, m \in Nat : q = a.block /\ m = a.off
  BY DEF Drawn
<1>2. PICK p \in Nat, n \in Nat : p = b.block /\ n = b.off
  BY DEF Drawn
<1>3. m < PrfBlock /\ n < PrfBlock /\ k = q * PrfBlock + m + 1 /\ k = p * PrfBlock + n + 1
  BY <1>1, <1>2 DEF IsByte
<1>4. q * PrfBlock \in Nat /\ p * PrfBlock \in Nat
  BY TranscriptAssumption
<1>5. q * PrfBlock + m = p * PrfBlock + n
  BY <1>3, <1>4
<1>6. q = p /\ m = n
  BY <1>3, <1>5, DivModUnique, TranscriptAssumption
<1>7. a.key = b.key
  BY DEF IsByte
<1> QED
  BY <1>1, <1>2, <1>6, <1>7, DrawnEqual

\* One turn of the loop hands out byte n + 1 and moves the generator past it.
LEMMA DrawStep ==
  ASSUME NEW g \in Generator, NEW acc, NEW n \in Nat, AtPosition(g, acc, n)
  PROVE  LET q == Ready(g)
         IN  /\ IsByte(PrfByte(q.key, q.buffer, q.read_pointer), acc, n + 1)
             /\ AtPosition([q EXCEPT !.read_pointer = @ + 1], acc, n + 1)
<1> DEFINE q == Ready(g)
           h == [q EXCEPT !.read_pointer = @ + 1]
<1>0. q \in Generator /\ q.read_pointer < PrfBlock
  BY ReadyType
<1>1. /\ q.key = acc
      /\ q.block_counter > 0
      /\ q.block_counter = q.buffer + 1
      /\ n + PrfBlock = q.block_counter * PrfBlock + q.read_pointer
  <2>1. CASE g.read_pointer = PrfBlock
    <3>1. /\ q.key = g.key
          /\ q.block_counter = g.block_counter + 1
          /\ q.read_pointer = 0
          /\ q.buffer = g.block_counter
      BY <2>1 DEF Ready, Refill, Generator
    <3>2. (g.block_counter + 1) * PrfBlock = g.block_counter * PrfBlock + PrfBlock
      BY TranscriptAssumption DEF Generator
    <3>3. /\ g.key = acc /\ n + PrfBlock = g.block_counter * PrfBlock + PrfBlock
          /\ g.block_counter \in Nat
      BY <2>1 DEF AtPosition, Generator
    <3>4. n + PrfBlock = q.block_counter * PrfBlock + q.read_pointer
      BY <3>1, <3>2, <3>3, TranscriptAssumption
    <3> QED
      BY <3>1, <3>3, <3>4
  <2>2. CASE g.read_pointer # PrfBlock
    BY <2>2, TranscriptAssumption DEF Ready, AtPosition, Generator
  <2> QED
    BY <2>1, <2>2
<1> HIDE DEF q
<1>2. /\ h.key = q.key /\ h.block_counter = q.block_counter
      /\ h.buffer = q.buffer /\ h.read_pointer = q.read_pointer + 1
  BY <1>0 DEF Generator
<1> HIDE DEF h
<1>3. q.block_counter * PrfBlock = q.buffer * PrfBlock + PrfBlock
  BY <1>0, <1>1, TranscriptAssumption DEF Generator
<1>4. q.buffer * PrfBlock \in Nat
  BY <1>0, TranscriptAssumption DEF Generator
<1>5. IsByte(PrfByte(q.key, q.buffer, q.read_pointer), acc, n + 1)
  <2>1. q.read_pointer \in Nat
    BY <1>0, TranscriptAssumption DEF Generator
  <2>2. n + 1 = q.buffer * PrfBlock + q.read_pointer + 1
    BY <1>1, <1>3, <1>4, <2>1, TranscriptAssumption
  <2> QED
    BY <1>0, <1>1, <2>2 DEF IsByte, PrfByte
<1>6. AtPosition(h, acc, n + 1)
  <2>1. h.block_counter * PrfBlock = q.block_counter * PrfBlock
    BY <1>2
  <2>2. q.block_counter * PrfBlock \in Nat /\ q.read_pointer \in Nat
    BY <1>0, TranscriptAssumption DEF Generator
  <2>3. n + 1 + PrfBlock = h.block_counter * PrfBlock + h.read_pointer
    BY <1>1, <1>2, <2>1, <2>2, TranscriptAssumption
  <2>4. h.block_counter > 0 /\ h.block_counter = h.buffer + 1 /\ h.key = acc
    BY <1>1, <1>2
  <2> QED
    BY <2>3, <2>4 DEF AtPosition
<1> QED
  BY <1>5, <1>6 DEF q, h

LEMMA BoundIsByte ==
  ChallengeBound <=> \A r \in Replica : \A k \in 1 .. Len(stream[r]) :
                       IsByte(stream[r][k], hash_accumulator[r], k)
BY DEF ChallengeBound, IsByte

LEMMA BoundInit == Init => Position /\ ChallengeBound
BY DEF Init, Position, ChallengeBound, NoPrf

\* One turn of the loop appends the next byte of the key stream.
LEMMA DrawsByte ==
  ASSUME IInv, NEW r \in Replica, BytesStep(r)
  PROVE  \E b \in Drawn : /\ stream' = [stream EXCEPT ![r] = Append(@, b)]
                          /\ IsByte(b, hash_accumulator[r], Len(stream[r]) + 1)
<1> DEFINE g == Ready(prf[r])
           b == PrfByte(g.key, g.buffer, g.read_pointer)
<1>1. prf[r] \in Generator /\ prf[r] # NoPrf
  BY GeneratorIsSome DEF IInv, Seeded, BytesStep
<1>2. Len(stream[r]) \in Nat
  BY DEF IInv, TypeOK
<1>3. AtPosition(prf[r], hash_accumulator[r], Len(stream[r]))
  BY <1>1 DEF IInv, Position
<1>4. IsByte(b, hash_accumulator[r], Len(stream[r]) + 1)
  BY <1>1, <1>2, <1>3, DrawStep
<1>5. b \in Drawn
  BY <1>1, ReadyType, StepGenerator
<1>6. stream' = [stream EXCEPT ![r] = Append(@, b)]
  BY DEF BytesStep
<1> HIDE DEF b
<1> QED
  BY <1>4, <1>5, <1>6

LEMMA BoundNext == IInv /\ [Next]_vars => (Position /\ ChallengeBound)'
<1> SUFFICES ASSUME TypeOK, Seeded, Position, ChallengeBound, [Next]_vars
             PROVE  (Position /\ ChallengeBound)'
  BY DEF IInv
<1>1. ASSUME NEW r \in Replica, NEW bytes \in Seq(Byte), NEW m, Absorb(r, m, bytes)
      PROVE  (Position /\ ChallengeBound)'
  <2>1. /\ prf'[r] = NoPrf /\ stream'[r] = <<>> /\ Len(stream'[r]) = 0
        /\ \A x \in Replica \ {r} :
             /\ hash_accumulator'[x] = hash_accumulator[x]
             /\ prf'[x] = prf[x] /\ stream'[x] = stream[x]
    BY <1>1 DEF TypeOK, Absorb
  <2>2. Position'
    BY <2>1 DEF Position
  <2>3. ASSUME NEW x \in Replica, NEW k \in 1 .. Len(stream'[x])
        PROVE  IsByte(stream'[x][k], hash_accumulator'[x], k)
    <3>1. x # r
      BY <2>1, <2>3
    <3> QED
      BY <2>1, <3>1, BoundIsByte
  <2>4. ChallengeBound'
    BY <2>3 DEF ChallengeBound, IsByte
  <2> QED
    BY <2>2, <2>4
<1>2. ASSUME NEW r \in Replica, NEW len \in 1 .. MaxDraw, Bytes(r, len)
      PROVE  (Position /\ ChallengeBound)'
  <2>1. ChallengeBound'
    BY <1>2 DEF Bytes, ChallengeBound
  <2> DEFINE new == FsPrfNew(hash_accumulator[r])
  <2>2. AtPosition(new, hash_accumulator[r], 0)
    BY TranscriptAssumption DEF FsPrfNew, AtPosition
  <2>3. new # NoPrf
    BY GeneratorIsSome, TranscriptAssumption DEF FsPrfNew, Generator, TypeOK
  <2>4. prf[r] = NoPrf => prf'[r] = new /\ Len(stream[r]) = 0
    BY <1>2 DEF Bytes, TypeOK, Position
  <2>5. prf[r] # NoPrf => prf'[r] = prf[r]
    BY <1>2 DEF Bytes, TypeOK
  <2>6. \A x \in Replica \ {r} : prf'[x] = prf[x]
    BY <1>2 DEF Bytes, TypeOK
  <2>7. hash_accumulator' = hash_accumulator /\ stream' = stream
    BY <1>2 DEF Bytes
  <2> HIDE DEF new
  <2>8. Position'
    BY <2>2, <2>3, <2>4, <2>5, <2>6, <2>7 DEF Position
  <2> QED
    BY <2>1, <2>8
<1>3. ASSUME NEW r \in Replica, BytesStep(r)
      PROVE  (Position /\ ChallengeBound)'
  <2> DEFINE g == Ready(prf[r])
             h == [g EXCEPT !.read_pointer = @ + 1]
             b == PrfByte(g.key, g.buffer, g.read_pointer)
  <2>1. prf[r] \in Generator /\ prf[r] # NoPrf
    BY <1>3, GeneratorIsSome DEF Seeded, BytesStep
  <2>2. Len(stream[r]) \in Nat
    BY DEF TypeOK
  <2>3. AtPosition(prf[r], hash_accumulator[r], Len(stream[r]))
    BY <2>1 DEF Position
  <2>4. /\ IsByte(b, hash_accumulator[r], Len(stream[r]) + 1)
        /\ AtPosition(h, hash_accumulator[r], Len(stream[r]) + 1)
    BY <2>1, <2>2, <2>3, DrawStep
  <2>5. h # NoPrf
    <3>1. g \in Generator /\ g.read_pointer < PrfBlock
      BY <2>1, ReadyType
    <3>2. h \in Generator
      BY <3>1, StepGenerator
    <3> QED
      BY <3>2, GeneratorIsSome
  <2>5a. b \in Drawn
    BY <2>1, ReadyType, StepGenerator
  <2>6. /\ stream' = [stream EXCEPT ![r] = Append(@, b)]
        /\ prf' = [prf EXCEPT ![r] = h]
        /\ hash_accumulator' = hash_accumulator
    BY <1>3 DEF BytesStep
  <2> HIDE DEF g, h, b
  <2>7. /\ stream'[r] = Append(stream[r], b)
        /\ prf'[r] = h
        /\ \A x \in Replica \ {r} : stream'[x] = stream[x] /\ prf'[x] = prf[x]
    BY <2>6 DEF TypeOK
  <2>8. /\ Len(stream'[r]) = Len(stream[r]) + 1
        /\ stream'[r] # <<>>
        /\ stream'[r][Len(stream[r]) + 1] = b
        /\ \A k \in 1 .. Len(stream[r]) : stream'[r][k] = stream[r][k]
    <3>1. stream[r] \in Seq(Drawn)
      BY DEF TypeOK
    <3> QED
      BY <2>5a, <2>7, <3>1, AppendFacts
  <2>9. Position'
    BY <2>4, <2>5, <2>6, <2>7, <2>8 DEF Position
  <2>10. ASSUME NEW x \in Replica, NEW k \in 1 .. Len(stream'[x])
         PROVE  IsByte(stream'[x][k], hash_accumulator'[x], k)
    <3>1. CASE x # r
      BY <3>1, <2>6, <2>7, BoundIsByte
    <3>2. CASE x = r /\ k = Len(stream[r]) + 1
      BY <3>2, <2>4, <2>6, <2>8
    <3>3. CASE x = r /\ k # Len(stream[r]) + 1
      <4>1. k \in 1 .. Len(stream[r])
        BY <3>3, <2>2, <2>8
      <4>2. IsByte(stream[r][k], hash_accumulator[r], k)
        BY <4>1, BoundIsByte
      <4> QED
        BY <3>3, <4>1, <4>2, <2>6, <2>8
    <3> QED
      BY <3>1, <3>2, <3>3
  <2>11. ChallengeBound'
    BY <2>10 DEF ChallengeBound, IsByte
  <2> QED
    BY <2>9, <2>11
<1>4. ASSUME NEW r \in Replica, TooManyBlocks(r)
      PROVE  (Position /\ ChallengeBound)'
  BY <1>4 DEF TooManyBlocks, Position, ChallengeBound
<1>5. ASSUME NEW r \in Replica, NEW s \in Replica, Clone(r, s)
      PROVE  (Position /\ ChallengeBound)'
  <2>1. \A x \in Replica : \E y \in Replica :
          /\ hash_accumulator'[x] = hash_accumulator[y]
          /\ prf'[x] = prf[y] /\ stream'[x] = stream[y]
    BY <1>5 DEF Clone, TypeOK
  <2>2. Position'
    BY <2>1 DEF Position
  <2>3. ASSUME NEW x \in Replica, NEW k \in 1 .. Len(stream'[x])
        PROVE  IsByte(stream'[x][k], hash_accumulator'[x], k)
    BY <2>1, BoundIsByte
  <2>4. ChallengeBound'
    BY <2>3 DEF ChallengeBound, IsByte
  <2> QED
    BY <2>2, <2>4
<1>6. CASE UNCHANGED vars
  BY <1>6 DEF vars, Position, ChallengeBound
<1> QED
  BY <1>1, <1>2, <1>3, <1>4, <1>5, <1>6, WritesAbsorb

\* Every byte drawn is the next byte of the key stream of the current hash.
THEOREM ChallengesBound == Spec => []ChallengeBound
<1>1. Init => IInv
  BY TypeInit, BoundInit DEF IInv
<1>2. IInv /\ [Next]_vars => IInv'
  BY TypeNext, BoundNext DEF IInv
<1>3. IInv => ChallengeBound
  BY DEF IInv
<1> QED
  BY <1>1, <1>2, <1>3, PTL DEF Spec

LEMMA BoundAgree == TypeOK /\ ChallengeBound => Agreement
<1> SUFFICES ASSUME TypeOK, ChallengeBound,
                    NEW r \in Replica, NEW s \in Replica,
                    hash_accumulator[r] = hash_accumulator[s],
                    NEW k \in 1 .. Len(stream[r]), k <= Len(stream[s])
             PROVE  stream[r][k] = stream[s][k]
  BY DEF Agreement
<1> DEFINE a == stream[r][k]
           b == stream[s][k]
<1>0. k \in 1 .. Len(stream[s])
  BY DEF TypeOK
<1>1. a \in Drawn /\ b \in Drawn
  BY <1>0 DEF TypeOK
<1>2. IsByte(a, hash_accumulator[r], k) /\ IsByte(b, hash_accumulator[s], k)
  BY <1>0, BoundIsByte
<1> HIDE DEF a, b
<1>3. k \in Nat
  BY DEF TypeOK
<1>6. a = b
  BY <1>1, <1>2, <1>3, SameByte
<1> QED
  BY <1>6 DEF a, b

\* Replicas that absorbed the same bytes draw the same challenges.
THEOREM ReplicasAgree == Spec => []Agreement
<1>1. TypeOK /\ ChallengeBound => Agreement
  BY BoundAgree
<1> QED
  BY <1>1, TypeCorrect, ChallengesBound, PTL

-----------------------------------------------------------------------------
(***************************************************************************)
(* Framing can be undone.  What a message is absorbed as begins with its   *)
(* tag and tells its own length, and its bytes determine it.               *)
(***************************************************************************)
LEMMA ConcatFacts ==
  ASSUME NEW n \in Nat, NEW h \in Seq(Byte), NEW u \in Seq(Byte), Len(h) = n
  PROVE  /\ h \o u \in Seq(Byte)
         /\ Len(h \o u) = n + Len(u)
         /\ \A i \in 1 .. n : (h \o u)[i] = h[i]
         /\ \A i \in 1 .. Len(u) : (h \o u)[n + i] = u[i]
OBVIOUS

LEMMA TagFacts ==
  ASSUME NEW t \in Byte, NEW u \in Seq(Byte)
  PROVE  /\ tag(t) \o u \in Seq(Byte)
         /\ Len(tag(t) \o u) = 1 + Len(u)
         /\ (tag(t) \o u)[1] = t
         /\ \A i \in 1 .. Len(u) : (tag(t) \o u)[1 + i] = u[i]
<1> DEFINE h == tag(t)
<1>1. h \in Seq(Byte) /\ Len(h) = 1 /\ h[1] = t
  BY DEF tag
<1> HIDE DEF h
<1>2. /\ h \o u \in Seq(Byte)
      /\ Len(h \o u) = 1 + Len(u)
      /\ \A i \in 1 .. 1 : (h \o u)[i] = h[i]
      /\ \A i \in 1 .. Len(u) : (h \o u)[1 + i] = u[i]
  BY <1>1, 1 \in Nat, ConcatFacts, Zenon
<1>3. (h \o u)[1] = t
  BY <1>1, <1>2
<1> QED
  BY <1>2, <1>3 DEF h

\* f is the tag t, the length x and the bytes u.
TagLength(f, t, x, u) ==
  /\ f \in Seq(Byte)
  /\ Len(f) = 2 + Len(u)
  /\ f[1] = t
  /\ f[2] = x
  /\ \A i \in 1 .. Len(u) : f[2 + i] = u[i]

LEMMA TagLengthFacts ==
  ASSUME NEW t \in Byte, NEW x \in Byte, NEW u \in Seq(Byte)
  PROVE  TagLength(tag(t) \o length(x) \o u, t, x, u)
<1> DEFINE h == tag(t) \o length(x)
<1>1. h \in Seq(Byte) /\ Len(h) = 2 /\ h[1] = t /\ h[2] = x
  BY DEF tag, length
<1> HIDE DEF h
<1>2. /\ h \o u \in Seq(Byte)
      /\ Len(h \o u) = 2 + Len(u)
      /\ \A i \in 1 .. 2 : (h \o u)[i] = h[i]
      /\ \A i \in 1 .. Len(u) : (h \o u)[2 + i] = u[i]
  BY <1>1, 2 \in Nat, ConcatFacts, Zenon
<1>3. (h \o u)[1] = t /\ (h \o u)[2] = x
  BY <1>1, <1>2
<1> QED
  BY <1>2, <1>3 DEF h, TagLength

\* Byte j of element i of an array.
LEMMA EltsByte ==
  ASSUME NEW size \in EltSizes, NEW es \in Seq(Elt(size)), NEW i \in 1 .. Len(es), NEW j \in 1 .. size
  PROVE  /\ size * (i - 1) + j \in 1 .. size * Len(es)
         /\ EltsBytes(size, es)[size * (i - 1) + j] = es[i][j]
<1> DEFINE k == size * (i - 1) + j
           q == (k - 1) \div size
           m == (k - 1) % size
<1>0. size \in Nat \ {0} /\ Len(es) \in Nat /\ i \in Nat /\ j \in Nat /\ i - 1 \in Nat
  BY TranscriptAssumption
<1>1. size * (i - 1) \in Nat /\ size * Len(es) \in Nat
  BY <1>0
<1>2. size * (i - 1) + size <= size * Len(es)
  <2>1. PICK d \in Nat : Len(es) = (i - 1) + 1 + d
    BY <1>0
  <2>2. size * Len(es) = size * (i - 1) + size + size * d
    BY <1>0, <2>1
  <2>3. size * d \in Nat
    BY <1>0, <2>1
  <2> QED
    BY <1>0, <1>1, <2>2, <2>3
<1>3. k \in 1 .. size * Len(es)
  BY <1>0, <1>1, <1>2
<1>4. q \in Nat /\ m \in Nat /\ m < size /\ k - 1 = size * q + m
  BY <1>0, <1>1
<1>5. q = i - 1 /\ m = j - 1
  <2>1. k - 1 = size * (i - 1) + (j - 1)
    BY <1>0, <1>1
  <2>2. q * size = size * q /\ (i - 1) * size = size * (i - 1)
    BY <1>0, <1>4
  <2>3. q * size + m = (i - 1) * size + (j - 1)
    BY <1>4, <2>1, <2>2
  <2>4. j - 1 \in Nat /\ j - 1 < size
    BY <1>0
  <2> HIDE DEF q, m, k
  <2> QED
    BY <1>0, <1>4, <2>3, <2>4, DivModUnique
<1>6. EltsBytes(size, es)[k] = es[q + 1][m + 1]
  BY <1>3 DEF EltsBytes
<1> QED
  BY <1>0, <1>3, <1>5, <1>6

(***************************************************************************)
(* A message and the bytes it is absorbed as.                              *)
(***************************************************************************)
LEMMA MessageCases ==
  ASSUME NEW m \in Message
  PROVE  \/ \E d \in BoundedSeq(Byte, MaxLen) : m = Bstr(d)
         \/ \E size \in EltSizes : \E e \in Elt(size) : m = FieldElem(size, e)
         \/ \E size \in EltSizes : \E es \in BoundedSeq(Elt(size), MaxLen) :
              m = Array(size, es)
<1>1. m \in Strings \/ \E size \in EltSizes : m \in Elements(size) \cup Arrays(size)
  BY Zenon DEF Message
<1>2. m \in Strings => \E d \in BoundedSeq(Byte, MaxLen) : m = Bstr(d)
  BY DEF Strings
<1>3. \A size \in EltSizes :
        m \in Elements(size) => \E e \in Elt(size) : m = FieldElem(size, e)
  BY DEF Elements
<1>4. \A size \in EltSizes :
        m \in Arrays(size) => \E es \in BoundedSeq(Elt(size), MaxLen) : m = Array(size, es)
  BY DEF Arrays
<1> QED
  BY <1>1, <1>2, <1>3, <1>4, Zenon

LEMMA MessageMembers ==
  ASSUME NEW size \in EltSizes
  PROVE  /\ Strings \subseteq Message
         /\ Elements(size) \subseteq Message
         /\ Arrays(size) \subseteq Message
BY Zenon DEF Message

LEMMA BstrFacts ==
  ASSUME NEW d \in BoundedSeq(Byte, MaxLen)
  PROVE  /\ Bstr(d) \in Message
         /\ Framed(Bstr(d)) = FramedBstr(d)
         /\ Framed(Bstr(d)) \in Seq(Byte)
         /\ Len(Framed(Bstr(d))) = 2 + Len(d)
         /\ Framed(Bstr(d))[1] = TAG_BSTR
         /\ Framed(Bstr(d))[2] = Len(d)
         /\ \A i \in 1 .. Len(d) : Framed(Bstr(d))[2 + i] = d[i]
<1>1. d \in Seq(Byte) /\ Len(d) \in Byte /\ TAG_BSTR \in Byte
  BY BoundedSeqIsSeq, TranscriptAssumption DEF TAG_BSTR
<1>2. Bstr(d) \in Message
  BY DEF Message, Strings
<1>3. Framed(Bstr(d)) = FramedBstr(d)
  BY DEF Framed, Bstr, TAG_BSTR, TAG_FIELD_ELEM, TAG_ARRAY
<1>4. TagLength(FramedBstr(d), TAG_BSTR, Len(d), d)
  BY <1>1, TagLengthFacts, Zenon DEF FramedBstr
<1> QED
  BY <1>2, <1>3, <1>4 DEF TagLength

LEMMA FieldElemFacts ==
  ASSUME NEW size \in EltSizes, NEW e \in Elt(size)
  PROVE  /\ FieldElem(size, e) \in Message
         /\ Framed(FieldElem(size, e)) = FramedElt(e)
         /\ Framed(FieldElem(size, e)) \in Seq(Byte)
         /\ Len(Framed(FieldElem(size, e))) = 1 + size
         /\ Framed(FieldElem(size, e))[1] = TAG_FIELD_ELEM
         /\ \A i \in 1 .. size : Framed(FieldElem(size, e))[1 + i] = e[i]
<1>1. e \in Seq(Byte) /\ Len(e) = size /\ TAG_FIELD_ELEM \in Byte
  BY TranscriptAssumption DEF Elt, TAG_FIELD_ELEM
<1>2. FieldElem(size, e) \in Message
  BY MessageMembers DEF Elements
<1>3. Framed(FieldElem(size, e)) = FramedElt(e)
  BY DEF Framed, FieldElem, TAG_BSTR, TAG_FIELD_ELEM, TAG_ARRAY
<1>4. /\ FramedElt(e) \in Seq(Byte)
      /\ Len(FramedElt(e)) = 1 + Len(e)
      /\ FramedElt(e)[1] = TAG_FIELD_ELEM
      /\ \A i \in 1 .. Len(e) : FramedElt(e)[1 + i] = e[i]
  BY <1>1, TagFacts DEF FramedElt
<1> QED
  BY <1>1, <1>2, <1>3, <1>4

LEMMA ArrayFacts ==
  ASSUME NEW size \in EltSizes, NEW es \in BoundedSeq(Elt(size), MaxLen)
  PROVE  /\ Array(size, es) \in Message
         /\ Framed(Array(size, es)) = FramedArray(size, es)
         /\ Framed(Array(size, es)) \in Seq(Byte)
         /\ Len(Framed(Array(size, es))) = 2 + size * Len(es)
         /\ Framed(Array(size, es))[1] = TAG_ARRAY
         /\ Framed(Array(size, es))[2] = Len(es)
         /\ \A i \in 1 .. size * Len(es) :
              Framed(Array(size, es))[2 + i] = EltsBytes(size, es)[i]
<1>1. es \in Seq(Elt(size)) /\ Len(es) \in Byte /\ Len(es) \in Nat /\ TAG_ARRAY \in Byte
  BY BoundedSeqIsSeq, TranscriptAssumption DEF TAG_ARRAY
<1>2. Array(size, es) \in Message
  BY MessageMembers DEF Arrays
<1>3. Framed(Array(size, es)) = FramedArray(size, es)
  BY DEF Framed, Array, TAG_BSTR, TAG_FIELD_ELEM, TAG_ARRAY
<1>4. EltsBytes(size, es) \in Seq(Byte) /\ Len(EltsBytes(size, es)) = size * Len(es)
  BY <1>1, EltsBytesType
<1>5. TagLength(FramedArray(size, es), TAG_ARRAY, Len(es), EltsBytes(size, es))
  BY <1>1, <1>4, TagLengthFacts, Zenon DEF FramedArray
<1> QED
  BY <1>2, <1>3, <1>4, <1>5 DEF TagLength

LEMMA FramedType ==
  ASSUME NEW m \in Message
  PROVE  /\ Framed(m) \in Seq(Byte)
         /\ Len(Framed(m)) \in Nat \ {0}
         /\ m.tag = Framed(m)[1]
         /\ m.tag \in {TAG_BSTR, TAG_FIELD_ELEM, TAG_ARRAY}
<1>1. ASSUME NEW d \in BoundedSeq(Byte, MaxLen), m = Bstr(d)
      PROVE  /\ Framed(m) \in Seq(Byte) /\ Len(Framed(m)) # 0
             /\ Framed(m)[1] = TAG_BSTR /\ m.tag = TAG_BSTR
  <2>1. Len(d) \in Nat
    BY BoundedSeqIsSeq, TranscriptAssumption
  <2>2. /\ Framed(m) \in Seq(Byte) /\ Len(Framed(m)) = 2 + Len(d)
        /\ Framed(m)[1] = TAG_BSTR
    BY <1>1, BstrFacts
  <2>3. m.tag = TAG_BSTR
    BY <1>1 DEF Bstr
  <2> QED
    BY <2>1, <2>2, <2>3
<1>2. ASSUME NEW size \in EltSizes, NEW e \in Elt(size), m = FieldElem(size, e)
      PROVE  /\ Framed(m) \in Seq(Byte) /\ Len(Framed(m)) # 0
             /\ Framed(m)[1] = TAG_FIELD_ELEM /\ m.tag = TAG_FIELD_ELEM
  <2>1. /\ Framed(m) \in Seq(Byte) /\ Len(Framed(m)) = 1 + size
        /\ Framed(m)[1] = TAG_FIELD_ELEM
    BY <1>2, FieldElemFacts
  <2>2. m.tag = TAG_FIELD_ELEM
    BY <1>2 DEF FieldElem
  <2> QED
    BY <2>1, <2>2, TranscriptAssumption
<1>3. ASSUME NEW size \in EltSizes, NEW es \in BoundedSeq(Elt(size), MaxLen),
             m = Array(size, es)
      PROVE  /\ Framed(m) \in Seq(Byte) /\ Len(Framed(m)) # 0
             /\ Framed(m)[1] = TAG_ARRAY /\ m.tag = TAG_ARRAY
  <2>1. Len(es) \in Nat /\ size \in Nat
    BY BoundedSeqIsSeq, TranscriptAssumption
  <2>2. size * Len(es) \in Nat
    BY <2>1
  <2>3. /\ Framed(m) \in Seq(Byte) /\ Len(Framed(m)) = 2 + size * Len(es)
        /\ Framed(m)[1] = TAG_ARRAY
    BY <1>3, ArrayFacts
  <2>4. m.tag = TAG_ARRAY
    BY <1>3 DEF Array
  <2> QED
    BY <2>2, <2>3, <2>4
<1>4. /\ Framed(m) \in Seq(Byte) /\ Len(Framed(m)) # 0
      /\ m.tag = Framed(m)[1]
      /\ m.tag \in {TAG_BSTR, TAG_FIELD_ELEM, TAG_ARRAY}
  BY <1>1, <1>2, <1>3, MessageCases
<1> QED
  BY <1>4

\* Two messages absorbed at the same place of one byte stream are the same:
\* the shorter framing is not the beginning of the longer one.
Overlap(f, g) == \A j \in Nat \ {0} : j <= Len(f) /\ j <= Len(g) => f[j] = g[j]

LEMMA SameBstr ==
  ASSUME NEW d \in BoundedSeq(Byte, MaxLen), NEW c \in BoundedSeq(Byte, MaxLen),
         Overlap(Framed(Bstr(d)), Framed(Bstr(c)))
  PROVE  Bstr(d) = Bstr(c)
<1> DEFINE f == Framed(Bstr(d))
           g == Framed(Bstr(c))
<1>1. /\ d \in Seq(Byte) /\ Len(d) \in Nat
      /\ c \in Seq(Byte) /\ Len(c) \in Nat
  BY BoundedSeqIsSeq, TranscriptAssumption
<1>2. /\ Len(f) = 2 + Len(d) /\ f[2] = Len(d)
      /\ \A i \in 1 .. Len(d) : f[2 + i] = d[i]
  BY BstrFacts
<1>3. /\ Len(g) = 2 + Len(c) /\ g[2] = Len(c)
      /\ \A i \in 1 .. Len(c) : g[2 + i] = c[i]
  BY BstrFacts
<1>4. Overlap(f, g)
  OBVIOUS
<1> HIDE DEF f, g
<1>5. f[2] = g[2]
  BY <1>1, <1>2, <1>3, <1>4 DEF Overlap
<1>6. Len(d) = Len(c)
  BY <1>2, <1>3, <1>5
<1>7. ASSUME NEW i \in 1 .. Len(d) PROVE d[i] = c[i]
  <2>1. 2 + i \in Nat \ {0} /\ 2 + i <= Len(f) /\ 2 + i <= Len(g)
    BY <1>1, <1>2, <1>3, <1>6
  <2>2. f[2 + i] = g[2 + i]
    BY <1>4, <2>1 DEF Overlap
  <2> QED
    BY <1>2, <1>3, <1>6, <2>2
<1>8. d = c
  BY <1>1, <1>6, <1>7
<1> QED
  BY <1>8

LEMMA SameElt ==
  ASSUME NEW size \in EltSizes, NEW d \in Elt(size), NEW c \in Elt(size), \A i \in 1 .. size : d[i] = c[i]
  PROVE  d = c
<1>1. d = [i \in 1 .. size |-> d[i]] /\ c = [i \in 1 .. size |-> c[i]]
  BY DEF Elt
<1>2. [i \in 1 .. size |-> d[i]] = [i \in 1 .. size |-> c[i]]
  BY Zenon
<1> QED
  BY <1>1, <1>2, Zenon

LEMMA SameFieldElem ==
  ASSUME NEW size \in EltSizes, NEW d \in Elt(size), NEW c \in Elt(size),
         Overlap(Framed(FieldElem(size, d)), Framed(FieldElem(size, c)))
  PROVE  FieldElem(size, d) = FieldElem(size, c)
<1> DEFINE f == Framed(FieldElem(size, d))
           g == Framed(FieldElem(size, c))
<1>1. size \in Nat
  BY TranscriptAssumption
<1>2. Len(f) = 1 + size /\ \A i \in 1 .. size : f[1 + i] = d[i]
  BY FieldElemFacts
<1>3. Len(g) = 1 + size /\ \A i \in 1 .. size : g[1 + i] = c[i]
  BY FieldElemFacts
<1>4. Overlap(f, g)
  OBVIOUS
<1> HIDE DEF f, g
<1>5. ASSUME NEW i \in 1 .. size PROVE d[i] = c[i]
  <2>1. 1 + i \in Nat \ {0} /\ 1 + i <= Len(f) /\ 1 + i <= Len(g)
    BY <1>1, <1>2, <1>3
  <2>2. f[1 + i] = g[1 + i]
    BY <1>4, <2>1 DEF Overlap
  <2> QED
    BY <1>2, <1>3, <2>2
<1>6. d = c
  BY <1>5, SameElt
<1> QED
  BY <1>6

LEMMA SameArray ==
  ASSUME NEW size \in EltSizes, NEW d \in BoundedSeq(Elt(size), MaxLen), NEW c \in BoundedSeq(Elt(size), MaxLen),
         Overlap(Framed(Array(size, d)), Framed(Array(size, c)))
  PROVE  Array(size, d) = Array(size, c)
<1> DEFINE f == Framed(Array(size, d))
           g == Framed(Array(size, c))
           n == size * Len(d)
<1>1. /\ d \in Seq(Elt(size)) /\ Len(d) \in Nat
      /\ c \in Seq(Elt(size)) /\ Len(c) \in Nat
  BY BoundedSeqIsSeq, TranscriptAssumption
<1>2. /\ Len(f) = 2 + size * Len(d) /\ f[2] = Len(d)
      /\ \A i \in 1 .. size * Len(d) : f[2 + i] = EltsBytes(size, d)[i]
  BY ArrayFacts
<1>3. /\ Len(g) = 2 + size * Len(c) /\ g[2] = Len(c)
      /\ \A i \in 1 .. size * Len(c) : g[2 + i] = EltsBytes(size, c)[i]
  BY ArrayFacts
<1>4. Overlap(f, g)
  OBVIOUS
<1>5. size * Len(d) \in Nat /\ size * Len(c) \in Nat
  BY <1>1, TranscriptAssumption
<1> HIDE DEF f, g
<1>6. Len(d) = Len(c)
  <2>1. 2 <= Len(f) /\ 2 <= Len(g)
    BY <1>2, <1>3, <1>5
  <2>2. f[2] = g[2]
    BY <1>4, <2>1 DEF Overlap
  <2> QED
    BY <1>2, <1>3, <2>2
<1>7. n \in Nat /\ Len(f) = 2 + n /\ Len(g) = 2 + n
  BY <1>2, <1>3, <1>5, <1>6
<1>8. /\ \A i \in 1 .. n : f[2 + i] = EltsBytes(size, d)[i]
      /\ \A i \in 1 .. n : g[2 + i] = EltsBytes(size, c)[i]
  BY <1>2, <1>3, <1>6
<1> HIDE DEF n
<1>9. ASSUME NEW k \in 1 .. n PROVE EltsBytes(size, d)[k] = EltsBytes(size, c)[k]
  <2>1. 2 + k \in Nat \ {0} /\ 2 + k <= Len(f) /\ 2 + k <= Len(g)
    BY <1>7
  <2>2. f[2 + k] = g[2 + k]
    BY <1>4, <2>1 DEF Overlap
  <2> QED
    BY <1>8, <2>2
<1>10. ASSUME NEW i \in 1 .. Len(d) PROVE d[i] = c[i]
  <2>1. i \in 1 .. Len(c) /\ d[i] \in Elt(size) /\ c[i] \in Elt(size)
    BY <1>1, <1>6
  <2>2. ASSUME NEW j \in 1 .. size PROVE d[i][j] = c[i][j]
    <3> DEFINE k == size * (i - 1) + j
    <3>1. k \in 1 .. n /\ EltsBytes(size, d)[k] = d[i][j]
      BY <1>1, EltsByte DEF n
    <3>2. EltsBytes(size, c)[k] = c[i][j]
      BY <1>1, <2>1, EltsByte
    <3> HIDE DEF k
    <3> QED
      BY <1>9, <3>1, <3>2
  <2> QED
    BY <2>1, <2>2, SameElt
<1>11. d = c
  BY <1>1, <1>6, <1>10
<1> QED
  BY <1>11

\* Elements, or arrays, of one field.
SameField(m, k) == m.tag = k.tag /\ m.tag # TAG_BSTR => m.size = k.size

LEMMA SameMessage ==
  ASSUME NEW m \in Message, NEW k \in Message, Overlap(Framed(m), Framed(k)),
         SameField(m, k)
  PROVE  m = k
<1>1. m.tag = k.tag
  <2>1. /\ Len(Framed(m)) \in Nat \ {0} /\ m.tag = Framed(m)[1]
        /\ Len(Framed(k)) \in Nat \ {0} /\ k.tag = Framed(k)[1]
    BY FramedType
  <2>2. Framed(m)[1] = Framed(k)[1]
    BY <2>1 DEF Overlap
  <2> QED
    BY <2>1, <2>2
<1>2. /\ \A d : Bstr(d).tag = 0
      /\ \A z, e : FieldElem(z, e).tag = 1 /\ FieldElem(z, e).size = z
      /\ \A z, es : Array(z, es).tag = 2 /\ Array(z, es).size = z
  BY DEF Bstr, FieldElem, Array, TAG_BSTR, TAG_FIELD_ELEM, TAG_ARRAY
<1>3. CASE \E d \in BoundedSeq(Byte, MaxLen) : m = Bstr(d)
  <2>1. \E c \in BoundedSeq(Byte, MaxLen) : k = Bstr(c)
    BY <1>1, <1>2, <1>3, MessageCases
  <2> QED
    BY <1>3, <2>1, SameBstr
<1>4. ASSUME NEW size \in EltSizes, NEW e \in Elt(size), m = FieldElem(size, e)
      PROVE  m = k
  <2>1. PICK z \in EltSizes : \E c \in Elt(z) : k = FieldElem(z, c)
    BY <1>1, <1>2, <1>4, MessageCases
  <2>2. PICK c \in Elt(z) : k = FieldElem(z, c)
    BY <2>1
  <2>3. z = size
    BY <1>1, <1>2, <1>4, <2>2 DEF SameField, TAG_BSTR
  <2> QED
    BY <1>4, <2>2, <2>3, SameFieldElem
<1>5. ASSUME NEW size \in EltSizes, NEW es \in BoundedSeq(Elt(size), MaxLen),
             m = Array(size, es)
      PROVE  m = k
  <2>1. PICK z \in EltSizes : \E c \in BoundedSeq(Elt(z), MaxLen) : k = Array(z, c)
    BY <1>1, <1>2, <1>5, MessageCases
  <2>2. PICK c \in BoundedSeq(Elt(z), MaxLen) : k = Array(z, c)
    BY <2>1
  <2>3. z = size
    BY <1>1, <1>2, <1>5, <2>2 DEF SameField, TAG_BSTR
  <2> QED
    BY <1>5, <2>2, <2>3, SameArray
<1> QED
  BY <1>3, <1>4, <1>5, MessageCases

-----------------------------------------------------------------------------
(***************************************************************************)
(* The absorbed bytes are the framed messages one after the other: o[i] is *)
(* where message i begins, and o[Len(ms) + 1] the end of the stream.       *)
(***************************************************************************)
LEMMA LeastNat ==
  ASSUME NEW T, T \subseteq Nat, T # {}
  PROVE  \E x \in T : \A y \in T : x <= y
<1>1. IsWellFoundedOn(OpToRel(<, Nat), Nat)
  BY NatLessThanWellFounded
<1>2. PICK x \in T : \A y \in T : ~(<<y, x>> \in OpToRel(<, Nat))
  BY <1>1, WFMin, Zenon
<1>3. \A y \in T : ~(y < x)
  BY <1>2 DEF OpToRel
<1>4. \A y \in T : x <= y
  BY <1>3
<1> QED
  BY <1>4

Placed(ms, acc, o, i) ==
  /\ o[i + 1] = o[i] + Len(Framed(ms[i]))
  /\ \A j \in 1 .. Len(Framed(ms[i])) : acc[o[i] + j] = Framed(ms[i])[j]

Offsets(ms, acc, o) ==
  /\ o \in [1 .. Len(ms) + 1 -> 0 .. Len(acc)]
  /\ o[1] = 0
  /\ o[Len(ms) + 1] = Len(acc)
  /\ \A i \in 1 .. Len(ms) : Placed(ms, acc, o, i)

Parse(ms, acc) == ms \in Seq(Message) /\ \E o : Offsets(ms, acc, o)

\* Every replica's stream can be cut into its messages.
Parsed == \A r \in Replica : Parse(msgs[r], hash_accumulator[r])

LEMMA NextOffset ==
  ASSUME NEW acc \in Seq(Byte), NEW ms \in Seq(Message), NEW ks \in Seq(Message),
         SameFields(ms, ks),
         NEW o, Offsets(ms, acc, o), NEW p, Offsets(ks, acc, p),
         NEW i \in Nat \ {0}, i <= Len(ms), i <= Len(ks), o[i] = p[i]
  PROVE  ms[i] = ks[i] /\ o[i + 1] = p[i + 1]
<1> DEFINE f == Framed(ms[i])
           g == Framed(ks[i])
<1>1. i \in 1 .. Len(ms) /\ i \in 1 .. Len(ks)
  OBVIOUS
<1>2. ms[i] \in Message /\ ks[i] \in Message
  BY <1>1
<1>3. Placed(ms, acc, o, i) /\ Placed(ks, acc, p, i)
  BY <1>1 DEF Offsets
<1>4. Len(f) \in Nat /\ Len(g) \in Nat
  BY <1>2, FramedType
<1>5. ASSUME NEW j \in Nat \ {0}, j <= Len(f), j <= Len(g) PROVE f[j] = g[j]
  <2>1. j \in 1 .. Len(f) /\ j \in 1 .. Len(g)
    BY <1>4, <1>5
  <2>2. acc[o[i] + j] = f[j]
    BY <1>3, <2>1 DEF Placed
  <2>3. acc[p[i] + j] = g[j]
    BY <1>3, <2>1 DEF Placed
  <2> QED
    BY <2>2, <2>3
<1>6. SameField(ms[i], ks[i])
  BY <1>1 DEF SameFields, SameField
<1>7. ms[i] = ks[i]
  BY <1>2, <1>5, <1>6, SameMessage DEF Overlap
<1> QED
  BY <1>3, <1>7 DEF Placed

LEMMA SameOffsets ==
  ASSUME NEW acc \in Seq(Byte), NEW ms \in Seq(Message), NEW ks \in Seq(Message),
         SameFields(ms, ks),
         NEW o, Offsets(ms, acc, o), NEW p, Offsets(ks, acc, p),
         NEW i \in Nat \ {0}, i <= Len(ms) + 1, i <= Len(ks) + 1
  PROVE  o[i] = p[i]
<1> DEFINE T == {n \in Nat \ {0} : /\ n <= Len(ms) + 1 /\ n <= Len(ks) + 1
                                   /\ o[n] # p[n]}
<1> SUFFICES ASSUME T # {} PROVE FALSE
  OBVIOUS
<1>1. PICK n \in T : \A y \in T : n <= y
  BY LeastNat
<1>2. n # 1
  BY DEF Offsets
<1>3. /\ n - 1 \in Nat \ {0} /\ n - 1 <= Len(ms) /\ n - 1 <= Len(ks)
      /\ n - 1 < n
  BY <1>2
<1>4. o[n - 1] = p[n - 1]
  BY <1>1, <1>3
<1>5. o[(n - 1) + 1] = p[(n - 1) + 1]
  BY <1>3, <1>4, NextOffset
<1> QED
  BY <1>5

LEMMA NotShorter ==
  ASSUME NEW acc \in Seq(Byte), NEW ms \in Seq(Message), NEW ks \in Seq(Message),
         SameFields(ms, ks),
         NEW o, Offsets(ms, acc, o), NEW p, Offsets(ks, acc, p)
  PROVE  ~(Len(ms) < Len(ks))
<1> SUFFICES ASSUME Len(ms) < Len(ks) PROVE FALSE
  OBVIOUS
<1> DEFINE n == Len(ms) + 1
<1>1. /\ n \in Nat \ {0} /\ n <= Len(ms) + 1 /\ n <= Len(ks) + 1
      /\ n \in 1 .. Len(ks) /\ n + 1 \in 1 .. Len(ks) + 1
  OBVIOUS
<1>2. o[n] = Len(acc)
  BY DEF Offsets
<1>3. p[n] = Len(acc)
  BY <1>1, <1>2, SameOffsets
<1>4. Len(Framed(ks[n])) \in Nat \ {0}
  BY <1>1, FramedType
<1>5. p[n + 1] = Len(acc) + Len(Framed(ks[n]))
  BY <1>1, <1>3 DEF Offsets, Placed
<1>6. p[n + 1] \in 0 .. Len(acc)
  BY <1>1 DEF Offsets
<1> HIDE DEF n
<1> QED
  BY <1>4, <1>5, <1>6

LEMMA SameFieldsCommute ==
  ASSUME NEW ms, NEW ks, SameFields(ms, ks)
  PROVE  SameFields(ks, ms)
BY DEF SameFields

\* One stream has one parse for given fields.
LEMMA UniqueParse ==
  ASSUME NEW acc \in Seq(Byte), NEW ms, NEW ks, Parse(ms, acc), Parse(ks, acc),
         SameFields(ms, ks)
  PROVE  ms = ks
<1>1. ms \in Seq(Message) /\ ks \in Seq(Message)
  BY DEF Parse
<1>2. PICK o : Offsets(ms, acc, o)
  BY DEF Parse
<1>3. PICK p : Offsets(ks, acc, p)
  BY DEF Parse
<1>4. Len(ms) = Len(ks)
  <2>1. ~(Len(ms) < Len(ks))
    BY <1>1, <1>2, <1>3, NotShorter
  <2>2. ~(Len(ks) < Len(ms))
    BY <1>1, <1>2, <1>3, SameFieldsCommute, NotShorter
  <2> QED
    BY <1>1, <2>1, <2>2
<1>5. ASSUME NEW i \in 1 .. Len(ms) PROVE ms[i] = ks[i]
  <2>1. /\ i \in Nat \ {0} /\ i <= Len(ms) /\ i <= Len(ks)
        /\ i <= Len(ms) + 1 /\ i <= Len(ks) + 1
    BY <1>1, <1>4
  <2>2. o[i] = p[i]
    BY <1>1, <1>2, <1>3, <2>1, SameOffsets
  <2> QED
    BY <1>1, <1>2, <1>3, <2>1, <2>2, NextOffset
<1> QED
  BY <1>1, <1>4, <1>5

LEMMA ParseOne ==
  ASSUME NEW m \in Message
  PROVE  Parse(<<m>>, Framed(m))
<1> DEFINE o == [i \in 1 .. 2 |-> IF i = 1 THEN 0 ELSE Len(Framed(m))]
<1>1. Framed(m) \in Seq(Byte) /\ Len(Framed(m)) \in Nat
  BY FramedType
<1>2. <<m>> \in Seq(Message) /\ Len(<<m>>) = 1 /\ <<m>>[1] = m
  OBVIOUS
<1>3. /\ o \in [1 .. 1 + 1 -> 0 .. Len(Framed(m))]
      /\ o[1] = 0 /\ o[1 + 1] = Len(Framed(m))
  BY <1>1
<1>4. \A j \in 1 .. Len(Framed(m)) : Framed(m)[o[1] + j] = Framed(m)[j]
  BY <1>1, <1>3
<1> HIDE DEF o
<1>5. Placed(<<m>>, Framed(m), o, 1)
  <2>1. o[1 + 1] = o[1] + Len(Framed(m))
    BY <1>1, <1>3
  <2> QED
    BY <1>2, <1>4, <2>1 DEF Placed
<1>6. \A i \in 1 .. 1 : Placed(<<m>>, Framed(m), o, i)
  BY <1>5
<1>7. Offsets(<<m>>, Framed(m), o)
  BY <1>2, <1>3, <1>6, Zenon DEF Offsets
<1> QED
  BY <1>2, <1>7 DEF Parse

LEMMA ParseAppend ==
  ASSUME NEW acc \in Seq(Byte), NEW ms, Parse(ms, acc), NEW m \in Message
  PROVE  Parse(Append(ms, m), acc \o Framed(m))
<1> DEFINE ks == Append(ms, m)
           n == Len(ms)
           f == Framed(m)
           bcc == acc \o f
<1>1. ms \in Seq(Message) /\ n \in Nat
  BY DEF Parse
<1>2. PICK o : Offsets(ms, acc, o)
  BY DEF Parse
<1> DEFINE p == [i \in 1 .. n + 2 |->
                   IF i <= n + 1 THEN o[i] ELSE Len(acc) + Len(f)]
<1>3. f \in Seq(Byte) /\ Len(f) \in Nat /\ Len(acc) \in Nat
  BY FramedType
<1>4. /\ ks \in Seq(Message) /\ Len(ks) = n + 1 /\ ks[n + 1] = m
      /\ \A i \in 1 .. n : ks[i] = ms[i]
  BY <1>1, AppendFacts
<1>5. /\ bcc \in Seq(Byte)
      /\ Len(bcc) = Len(acc) + Len(f)
      /\ \A i \in 1 .. Len(acc) : bcc[i] = acc[i]
      /\ \A i \in 1 .. Len(f) : bcc[Len(acc) + i] = f[i]
  BY <1>3, ConcatFacts
<1>6. /\ o \in [1 .. n + 1 -> 0 .. Len(acc)] /\ o[1] = 0 /\ o[n + 1] = Len(acc)
      /\ \A i \in 1 .. n : Placed(ms, acc, o, i)
  BY <1>2 DEF Offsets
<1> HIDE DEF ks, n, f, bcc
<1>7. /\ \A i \in 1 .. n + 1 : p[i] = o[i]
      /\ p[n + 2] = Len(acc) + Len(f)
  BY <1>1
<1>8. p \in [1 .. (n + 1) + 1 -> 0 .. Len(bcc)]
  <2>1. ASSUME NEW i \in 1 .. n + 2
        PROVE  (IF i <= n + 1 THEN o[i] ELSE Len(acc) + Len(f)) \in 0 .. Len(bcc)
    <3>1. CASE i <= n + 1
      <4>1. o[i] \in 0 .. Len(acc)
        BY <1>1, <1>6, <3>1
      <4> QED
        BY <1>3, <1>5, <3>1, <4>1
    <3>2. CASE ~(i <= n + 1)
      BY <1>3, <1>5, <3>2
    <3> QED
      BY <3>1, <3>2
  <2>2. (n + 1) + 1 = n + 2
    BY <1>1
  <2> QED
    BY <2>1, <2>2
<1> HIDE DEF p
<1>9. p[1] = 0 /\ p[(n + 1) + 1] = Len(bcc)
  BY <1>1, <1>5, <1>6, <1>7
<1>10. ASSUME NEW i \in 1 .. n PROVE Placed(ks, bcc, p, i)
  <2> DEFINE g == Framed(ms[i])
  <2>1. ks[i] = ms[i] /\ ms[i] \in Message
    BY <1>1, <1>4 DEF n
  <2>2. g \in Seq(Byte) /\ Len(g) \in Nat
    BY <2>1, FramedType
  <2>3. /\ o[i + 1] = o[i] + Len(g)
        /\ \A j \in 1 .. Len(g) : acc[o[i] + j] = g[j]
    BY <1>6 DEF Placed
  <2> HIDE DEF g
  <2>4. o[i] \in 0 .. Len(acc) /\ o[i + 1] \in 0 .. Len(acc)
    BY <1>1, <1>6
  <2>5. p[i] = o[i] /\ p[i + 1] = o[i + 1]
    BY <1>1, <1>7
  <2>6. ASSUME NEW j \in 1 .. Len(g) PROVE bcc[p[i] + j] = g[j]
    <3>1. o[i] + j \in 1 .. Len(acc)
      BY <1>3, <2>2, <2>3, <2>4
    <3> QED
      BY <1>5, <2>3, <2>5, <3>1
  <2> QED
    BY <2>1, <2>3, <2>5, <2>6 DEF Placed, g
<1>11. Placed(ks, bcc, p, n + 1)
  <2>1. p[n + 1] = Len(acc) /\ p[(n + 1) + 1] = Len(acc) + Len(f)
    BY <1>1, <1>6, <1>7
  <2>2. \A j \in 1 .. Len(f) : bcc[p[n + 1] + j] = f[j]
    BY <1>5, <2>1
  <2> QED
    BY <1>4, <2>1, <2>2 DEF Placed, f
<1>12. \A i \in 1 .. n + 1 : Placed(ks, bcc, p, i)
  BY <1>1, <1>10, <1>11
<1>13. Offsets(ks, bcc, p)
  BY <1>4, <1>8, <1>9, <1>12, Zenon DEF Offsets
<1> QED
  BY <1>4, <1>13 DEF Parse, ks, bcc, f

\* Every action that writes absorbs the framing of some message.
LEMMA WritesFrame ==
  ASSUME Next
  PROVE  \/ \E r \in Replica, m \in Message : Absorb(r, m, Framed(m))
         \/ \E r \in Replica, len \in 1 .. MaxDraw : Bytes(r, len)
         \/ \E r \in Replica : BytesStep(r)
         \/ \E r \in Replica : TooManyBlocks(r)
         \/ \E r, s \in Replica : Clone(r, s)
<1>1. ASSUME NEW r \in Replica, NEW data \in BoundedSeq(Byte, MaxLen),
             WriteBytes(r, data)
      PROVE  \E m \in Message : Absorb(r, m, Framed(m))
  BY <1>1, BstrFacts, Zenon DEF WriteBytes
<1>2. ASSUME NEW r \in Replica, NEW n \in 0 .. MaxLen, Write0(r, n)
      PROVE  \E m \in Message : Absorb(r, m, Framed(m))
  BY <1>1, <1>2, ZerosType DEF Write0
<1>3. ASSUME NEW r \in Replica, NEW size \in EltSizes, NEW e \in Elt(size),
             WriteEltField(r, size, e)
      PROVE  \E m \in Message : Absorb(r, m, Framed(m))
  BY <1>3, FieldElemFacts, Zenon DEF WriteEltField
<1>4. ASSUME NEW r \in Replica, NEW size \in EltSizes,
             NEW es \in BoundedSeq(Elt(size), MaxLen),
             WriteEltFieldSlice(r, size, es)
      PROVE  \E m \in Message : Absorb(r, m, Framed(m))
  BY <1>4, ArrayFacts, Zenon DEF WriteEltFieldSlice
<1> QED
  BY <1>1, <1>2, <1>3, <1>4 DEF Next

LEMMA ParsedInit == Init => Parsed
<1> SUFFICES ASSUME Init, NEW r \in Replica
             PROVE  Parse(msgs[r], hash_accumulator[r])
  BY DEF Parsed
<1>1. PICK init \in [Replica -> BoundedSeq(Byte, MaxLen)] :
        /\ msgs = [q \in Replica |-> <<Bstr(init[q])>>]
        /\ hash_accumulator = [q \in Replica |-> FramedBstr(init[q])]
  BY InitPrefix
<1> DEFINE d == init[r]
<1>2. d \in BoundedSeq(Byte, MaxLen)
  BY <1>1
<1>3. msgs[r] = <<Bstr(d)>> /\ hash_accumulator[r] = FramedBstr(d)
  BY <1>1
<1> HIDE DEF d
<1>4. Parse(<<Bstr(d)>>, Framed(Bstr(d)))
  BY <1>2, BstrFacts, ParseOne
<1> QED
  BY <1>2, <1>3, <1>4, BstrFacts

LEMMA ParsedNext == TypeOK /\ Parsed /\ [Next]_vars => Parsed'
<1> SUFFICES ASSUME TypeOK, Parsed, [Next]_vars, NEW q \in Replica
             PROVE  Parse(msgs'[q], hash_accumulator'[q])
  BY DEF Parsed
<1>0. /\ Parse(msgs[q], hash_accumulator[q])
      /\ hash_accumulator[q] \in Seq(Byte)
  BY DEF Parsed, TypeOK
<1>1. ASSUME NEW r \in Replica, NEW m \in Message, Absorb(r, m, Framed(m))
      PROVE  Parse(msgs'[q], hash_accumulator'[q])
  <2>1. CASE q = r
    <3>1. /\ msgs'[q] = Append(msgs[q], m)
          /\ hash_accumulator'[q] = hash_accumulator[q] \o Framed(m)
      BY <1>1, <2>1 DEF Absorb, TypeOK
    <3> QED
      BY <1>0, <3>1, ParseAppend
  <2>2. CASE q # r
    BY <1>0, <1>1, <2>2 DEF Absorb, TypeOK
  <2> QED
    BY <2>1, <2>2
<1>2. ASSUME NEW r \in Replica, NEW s \in Replica, Clone(r, s)
      PROVE  Parse(msgs'[q], hash_accumulator'[q])
  <2>1. \/ msgs'[q] = msgs[q] /\ hash_accumulator'[q] = hash_accumulator[q]
        \/ msgs'[q] = msgs[r] /\ hash_accumulator'[q] = hash_accumulator[r]
    BY <1>2 DEF Clone, TypeOK
  <2> QED
    BY <1>0, <2>1 DEF Parsed
<1>3. CASE UNCHANGED <<msgs, hash_accumulator>>
  BY <1>0, <1>3
<1> QED
  BY <1>1, <1>2, <1>3, WritesFrame
  DEF Bytes, BytesStep, TooManyBlocks, vars

\* Replicas whose hashes agree, and whose elements are of the same fields place
\* by place, absorbed the same messages: the tags and the length prefixes make
\* the framing uniquely decodable, for any number of fields and any mixture.
THEOREM FramingCanonical == Spec => []Canonical
<1>1. TypeOK /\ Parsed => Canonical
  <2> SUFFICES ASSUME TypeOK, Parsed, NEW r \in Replica, NEW s \in Replica,
                      hash_accumulator[r] = hash_accumulator[s],
                      SameFields(msgs[r], msgs[s])
               PROVE  msgs[r] = msgs[s]
    BY DEF Canonical
  <2>1. /\ Parse(msgs[r], hash_accumulator[r])
        /\ Parse(msgs[s], hash_accumulator[r])
        /\ hash_accumulator[r] \in Seq(Byte)
    BY DEF Parsed, TypeOK
  <2> QED
    BY <2>1, UniqueParse
<1> QED
  BY <1>1, ParsedInit, ParsedNext, TypeCorrect, PTL DEF Spec

-----------------------------------------------------------------------------
(***************************************************************************)
(* The refinement of FiatShamirOracle.  What FlattenSeq computes is shown  *)
(* from a function that satisfies its recursion: such a function is unique *)
(* and the invariant carries one.                                          *)
(***************************************************************************)
Flattens(f, seqs) ==
  f = [i \in 1 .. Len(seqs) |-> IF i = 1 THEN seqs[i] ELSE f[i - 1] \o seqs[i]]

LEMMA FlattenIs ==
  ASSUME NEW seqs, Len(seqs) \in Nat \ {0}, NEW c, Flattens(c, seqs)
  PROVE  FlattenSeq(seqs) = c[Len(seqs)]
<1> DEFINE n == Len(seqs)
           fl == CHOOSE f : Flattens(f, seqs)
<1>1. Flattens(fl, seqs)
  BY Zenon
<1>2. FlattenSeq(seqs) = fl[n]
  BY DEF FlattenSeq, Flattens
<1> HIDE DEF fl
<1>3. \A i \in 1 .. n : fl[i] = IF i = 1 THEN seqs[i] ELSE fl[i - 1] \o seqs[i]
  BY <1>1 DEF Flattens
<1>4. \A i \in 1 .. n : c[i] = IF i = 1 THEN seqs[i] ELSE c[i - 1] \o seqs[i]
  BY DEF Flattens
<1> DEFINE T == {i \in 1 .. n : fl[i] # c[i]}
<1>5. T = {}
  <2> SUFFICES ASSUME T # {} PROVE FALSE
    OBVIOUS
  <2>0. T \subseteq Nat
    OBVIOUS
  <2> HIDE DEF T
  <2>1. PICK i \in T : \A j \in T : i <= j
    BY <2>0, LeastNat
  <2> USE DEF T
  <2>2. i # 1
    BY <1>3, <1>4
  <2>3. i - 1 \in 1 .. n /\ i - 1 < i
    BY <2>2
  <2>4. fl[i - 1] = c[i - 1]
    BY <2>1, <2>3
  <2>5. fl[i] = fl[i - 1] \o seqs[i] /\ c[i] = c[i - 1] \o seqs[i]
    BY <1>3, <1>4, <2>2
  <2> QED
    BY <2>4, <2>5
<1>6. n \in 1 .. n
  OBVIOUS
<1> QED
  BY <1>2, <1>5, <1>6

\* c[i] is the stream after the first i messages.
Accumulation(ms, acc, c) ==
  /\ c = [i \in 1 .. Len(ms) |->
            IF i = 1 THEN Framed(ms[i]) ELSE c[i - 1] \o Framed(ms[i])]
  /\ c[Len(ms)] = acc

Accumulate(ms, acc) ==
  ms \in Seq(Message) /\ ms # <<>> /\ \E c : Accumulation(ms, acc, c)

\* Every replica hashed the framings of its messages, in order.
Accumulated == \A r \in Replica : Accumulate(msgs[r], hash_accumulator[r])

LEMMA AccumulateFlatten ==
  ASSUME NEW ms, NEW acc, Accumulate(ms, acc)
  PROVE  FlattenSeq([i \in DOMAIN ms |-> Framed(ms[i])]) = acc
<1> DEFINE seqs == [i \in DOMAIN ms |-> Framed(ms[i])]
           n == Len(ms)
<1>1. ms \in Seq(Message) /\ n \in Nat \ {0} /\ DOMAIN ms = 1 .. n
  BY DEF Accumulate
<1>2. PICK c : Accumulation(ms, acc, c)
  BY DEF Accumulate
<1>3. Len(seqs) = n /\ \A i \in 1 .. n : seqs[i] = Framed(ms[i])
  BY <1>1
<1> HIDE DEF seqs
<1>4. /\ c = [i \in 1 .. n |->
               IF i = 1 THEN Framed(ms[i]) ELSE c[i - 1] \o Framed(ms[i])]
      /\ c[n] = acc
  BY <1>2 DEF Accumulation
<1> HIDE DEF n
<1>5. [i \in 1 .. n |->
         IF i = 1 THEN Framed(ms[i]) ELSE c[i - 1] \o Framed(ms[i])]
      = [i \in 1 .. n |-> IF i = 1 THEN seqs[i] ELSE c[i - 1] \o seqs[i]]
  BY <1>3
<1>6. Flattens(c, seqs)
  BY <1>3, <1>4, <1>5, Zenon DEF Flattens
<1>7. FlattenSeq(seqs) = c[n]
  BY <1>1, <1>3, <1>6, FlattenIs
<1> QED
  BY <1>4, <1>7 DEF seqs

LEMMA AccumulateOne ==
  ASSUME NEW m \in Message
  PROVE  Accumulate(<<m>>, Framed(m))
<1> DEFINE c == [i \in 1 .. 1 |-> Framed(m)]
<1>1. <<m>> \in Seq(Message) /\ <<m>> # <<>> /\ Len(<<m>>) = 1 /\ <<m>>[1] = m
  OBVIOUS
<1>2. c = [i \in 1 .. 1 |->
             IF i = 1 THEN Framed(<<m>>[i]) ELSE c[i - 1] \o Framed(<<m>>[i])]
  OBVIOUS
<1>3. c[1] = Framed(m)
  OBVIOUS
<1> HIDE DEF c
<1>4. Accumulation(<<m>>, Framed(m), c)
  BY <1>1, <1>2, <1>3, Zenon DEF Accumulation
<1> QED
  BY <1>1, <1>4 DEF Accumulate

LEMMA AccumulateAppend ==
  ASSUME NEW ms, NEW acc, Accumulate(ms, acc), NEW m \in Message
  PROVE  Accumulate(Append(ms, m), acc \o Framed(m))
<1> DEFINE ks == Append(ms, m)
           n == Len(ms)
<1>1. ms \in Seq(Message) /\ n \in Nat \ {0}
  BY DEF Accumulate
<1>2. PICK c : Accumulation(ms, acc, c)
  BY DEF Accumulate
<1>3. /\ ks \in Seq(Message) /\ ks # <<>> /\ Len(ks) = n + 1 /\ ks[n + 1] = m
      /\ \A i \in 1 .. n : ks[i] = ms[i]
  BY <1>1, AppendFacts
<1> HIDE DEF ks
<1>4. /\ \A i \in 1 .. n :
           c[i] = IF i = 1 THEN Framed(ms[i]) ELSE c[i - 1] \o Framed(ms[i])
      /\ c[n] = acc
  BY <1>2 DEF Accumulation
<1> HIDE DEF n
<1> DEFINE d == [i \in 1 .. n + 1 |-> IF i = n + 1 THEN acc \o Framed(m) ELSE c[i]]
<1>5. /\ \A i \in 1 .. n : d[i] = c[i]
      /\ d[n + 1] = acc \o Framed(m)
      /\ d = [i \in 1 .. n + 1 |-> d[i]]
  BY <1>1
<1> HIDE DEF d
<1>6. ASSUME NEW i \in 1 .. n + 1
      PROVE  d[i] = IF i = 1 THEN Framed(ks[i]) ELSE d[i - 1] \o Framed(ks[i])
  <2>1. CASE i \in 1 .. n
    <3>0. i # 1 => i - 1 \in 1 .. n
      BY <1>1, <2>1
    <3>1. d[i] = c[i] /\ ks[i] = ms[i] /\ (i # 1 => d[i - 1] = c[i - 1])
      BY <1>3, <1>5, <2>1, <3>0
    <3> QED
      BY <1>4, <2>1, <3>1
  <2>2. CASE i = n + 1
    <3>0. i # 1 /\ i - 1 = n /\ n \in 1 .. n
      BY <1>1, <2>2
    <3>1. d[i - 1] = acc /\ ks[i] = m
      BY <1>3, <1>4, <1>5, <2>2, <3>0
    <3> QED
      BY <1>5, <2>2, <3>0, <3>1
  <2> QED
    BY <1>1, <2>1, <2>2
<1>7. d = [i \in 1 .. n + 1 |->
             IF i = 1 THEN Framed(ks[i]) ELSE d[i - 1] \o Framed(ks[i])]
  BY <1>5, <1>6
<1>8. Accumulation(ks, acc \o Framed(m), d)
  BY <1>3, <1>5, <1>7, Zenon DEF Accumulation
<1> QED
  BY <1>3, <1>8 DEF Accumulate, ks

LEMMA AccumulatedInit == Init => Accumulated
<1> SUFFICES ASSUME Init, NEW r \in Replica
             PROVE  Accumulate(msgs[r], hash_accumulator[r])
  BY DEF Accumulated
<1>1. PICK init \in [Replica -> BoundedSeq(Byte, MaxLen)] :
        /\ msgs = [q \in Replica |-> <<Bstr(init[q])>>]
        /\ hash_accumulator = [q \in Replica |-> FramedBstr(init[q])]
  BY InitPrefix
<1> DEFINE d == init[r]
<1>2. d \in BoundedSeq(Byte, MaxLen)
  BY <1>1
<1>3. msgs[r] = <<Bstr(d)>> /\ hash_accumulator[r] = FramedBstr(d)
  BY <1>1
<1> HIDE DEF d
<1>4. Accumulate(<<Bstr(d)>>, Framed(Bstr(d)))
  BY <1>2, BstrFacts, AccumulateOne
<1> QED
  BY <1>2, <1>3, <1>4, BstrFacts

LEMMA AccumulatedNext == TypeOK /\ Accumulated /\ [Next]_vars => Accumulated'
<1> SUFFICES ASSUME TypeOK, Accumulated, [Next]_vars, NEW q \in Replica
             PROVE  Accumulate(msgs'[q], hash_accumulator'[q])
  BY DEF Accumulated
<1>0. Accumulate(msgs[q], hash_accumulator[q])
  BY DEF Accumulated
<1>1. ASSUME NEW r \in Replica, NEW m \in Message, Absorb(r, m, Framed(m))
      PROVE  Accumulate(msgs'[q], hash_accumulator'[q])
  <2>1. CASE q = r
    <3>1. /\ msgs'[q] = Append(msgs[q], m)
          /\ hash_accumulator'[q] = hash_accumulator[q] \o Framed(m)
      BY <1>1, <2>1 DEF Absorb, TypeOK
    <3> QED
      BY <1>0, <3>1, AccumulateAppend
  <2>2. CASE q # r
    BY <1>0, <1>1, <2>2 DEF Absorb, TypeOK
  <2> QED
    BY <2>1, <2>2
<1>2. ASSUME NEW r \in Replica, NEW s \in Replica, Clone(r, s)
      PROVE  Accumulate(msgs'[q], hash_accumulator'[q])
  <2>1. \/ msgs'[q] = msgs[q] /\ hash_accumulator'[q] = hash_accumulator[q]
        \/ msgs'[q] = msgs[r] /\ hash_accumulator'[q] = hash_accumulator[r]
    BY <1>2 DEF Clone, TypeOK
  <2> QED
    BY <1>0, <2>1 DEF Accumulated
<1>3. CASE UNCHANGED <<msgs, hash_accumulator>>
  BY <1>0, <1>3
<1> QED
  BY <1>1, <1>2, <1>3, WritesFrame
  DEF Bytes, BytesStep, TooManyBlocks, vars

\* What the oracle calls the bytes of a stream.
FlatByte(b) == [key |-> b.key, n |-> b.block * PrfBlock + b.off + 1]

Flat(s) == [k \in DOMAIN s |-> FlatByte(s[k])]

LEMMA FlatIsFlat ==
  /\ \A r : FlatStream(r) = Flat(stream[r])
  /\ \A r : FlatStream(r)' = Flat(stream'[r])
BY DEF FlatStream, Flat, FlatByte

LEMMA FlatEmpty == Flat(<<>>) = <<>>
BY DEF Flat

LEMMA FlatAppend ==
  ASSUME NEW s \in Seq(Drawn), NEW b \in Drawn
  PROVE  Flat(Append(s, b)) = Append(Flat(s), FlatByte(b)) /\ Len(Flat(s)) = Len(s)
<1> DEFINE B == {FlatByte(d) : d \in Drawn}
           n == Len(s)
<1>1. Flat(s) \in Seq(B) /\ Len(Flat(s)) = n /\ n \in Nat
  BY DEF Flat
<1>2. /\ Append(s, b) \in Seq(Drawn) /\ Len(Append(s, b)) = n + 1
      /\ Append(s, b)[n + 1] = b
      /\ \A k \in 1 .. n : Append(s, b)[k] = s[k]
  BY AppendFacts
<1>3. /\ Append(Flat(s), FlatByte(b)) \in Seq(B)
      /\ Len(Append(Flat(s), FlatByte(b))) = n + 1
      /\ Append(Flat(s), FlatByte(b))[n + 1] = FlatByte(b)
      /\ \A k \in 1 .. n : Append(Flat(s), FlatByte(b))[k] = Flat(s)[k]
  <2>1. FlatByte(b) \in B
    OBVIOUS
  <2> HIDE DEF B
  <2> QED
    BY <1>1, <2>1, AppendFacts
<1>4. Flat(Append(s, b)) \in Seq(B) /\ Len(Flat(Append(s, b))) = n + 1
  BY <1>2 DEF Flat
<1>5. ASSUME NEW k \in 1 .. n + 1
      PROVE  Flat(Append(s, b))[k] = Append(Flat(s), FlatByte(b))[k]
  <2>1. Flat(Append(s, b))[k] = FlatByte(Append(s, b)[k])
    BY <1>2 DEF Flat
  <2>2. CASE k \in 1 .. n
    <3>1. Flat(s)[k] = FlatByte(s[k])
      BY <2>2 DEF Flat
    <3> QED
      BY <1>2, <1>3, <2>1, <2>2, <3>1
  <2>3. CASE k = n + 1
    BY <1>2, <1>3, <2>1, <2>3
  <2>4. k \in 1 .. n \/ k = n + 1
    BY <1>1
  <2> QED
    BY <2>2, <2>3, <2>4
<1> HIDE DEF B
<1> QED
  BY <1>1, <1>3, <1>4, <1>5

LEMMA OracleInit == Init => Oracle!Init
<1> SUFFICES ASSUME Init PROVE Oracle!Init
  OBVIOUS
<1>1. PICK init \in [Replica -> BoundedSeq(Byte, MaxLen)] :
        msgs = [r \in Replica |-> <<Bstr(init[r])>>]
  BY InitPrefix
<1>2. ASSUME NEW r \in Replica PROVE <<Bstr(init[r])>> \in {<<m>> : m \in Message}
  BY <1>1, BstrFacts
<1>3. msgs \in [Replica -> {<<m>> : m \in Message}]
  BY <1>1, <1>2
<1>4. ASSUME NEW r \in Replica PROVE FlatStream(r) = <<>>
  BY FlatIsFlat, FlatEmpty DEF Init
<1>5. [r \in Replica |-> FlatStream(r)] = [r \in Replica |-> <<>>]
  BY <1>4, Zenon
<1> QED
  BY <1>3, <1>5 DEF Oracle!Init

LEMMA OracleStep ==
  IInv /\ Accumulated /\ [Next]_vars
    => [Oracle!Next]_<<msgs, [r \in Replica |-> FlatStream(r)]>>
<1> DEFINE F == [q \in Replica |-> FlatStream(q)]
           G == [q \in Replica |-> Flat(stream[q])]
           H == [q \in Replica |-> Flat(stream'[q])]
<1>1. F = G /\ F' = H
  BY FlatIsFlat
<1> SUFFICES ASSUME IInv, Accumulated, [Next]_vars
             PROVE  Oracle!Next \/ UNCHANGED <<msgs, F>>
  BY Zenon
<1>2. stream \in [Replica -> Seq(Drawn)] /\ DOMAIN msgs = Replica
  BY DEF IInv, TypeOK
<1>3. ASSUME NEW r \in Replica, NEW m \in Message, Absorb(r, m, Framed(m))
      PROVE  Oracle!Next
  <2>1. ASSUME NEW q \in Replica
        PROVE  Flat(stream'[q]) = IF q = r THEN <<>> ELSE Flat(stream[q])
    BY <1>2, <1>3, FlatEmpty DEF Absorb
  <2>2. H = [G EXCEPT ![r] = <<>>]
    BY <2>1
  <2>3. msgs' = [msgs EXCEPT ![r] = Append(@, m)]
    BY <1>3 DEF Absorb
  <2>4. Oracle!Absorb(r)
    BY <1>1, <2>2, <2>3 DEF Oracle!Absorb
  <2> QED
    BY <2>4 DEF Oracle!Next
<1>4. ASSUME NEW r \in Replica, BytesStep(r)
      PROVE  Oracle!Next
  <2> DEFINE s == stream[r]
  <2>1. PICK b \in Drawn : /\ stream' = [stream EXCEPT ![r] = Append(@, b)]
                           /\ IsByte(b, hash_accumulator[r], Len(s) + 1)
    BY <1>4, DrawsByte
  <2>2. s \in Seq(Drawn)
    BY <1>2
  <2>3. FlattenSeq([i \in DOMAIN msgs[r] |-> Framed(msgs[r][i])])
          = hash_accumulator[r]
    BY AccumulateFlatten DEF Accumulated
  <2>4. FlatByte(b) = OracleByte(msgs[r], Len(Flat(s)) + 1)
    <3>1. b.key = hash_accumulator[r]
          /\ b.block * PrfBlock + b.off + 1 = Len(Flat(s)) + 1
      BY <2>1, <2>2, FlatAppend DEF IsByte
    <3> QED
      BY <2>3, <3>1 DEF FlatByte, OracleByte
  <2>5. Flat(Append(s, b)) = Append(Flat(s), OracleByte(msgs[r], Len(Flat(s)) + 1))
    BY <2>1, <2>2, <2>4, FlatAppend
  <2>6. ASSUME NEW q \in Replica
        PROVE  Flat(stream'[q]) =
                 IF q = r THEN Append(Flat(s), OracleByte(msgs[r], Len(Flat(s)) + 1))
                          ELSE Flat(stream[q])
    BY <1>2, <2>1, <2>5
  <2>7. H = [G EXCEPT ![r] = Append(@, OracleByte(msgs[r], Len(@) + 1))]
    BY <2>6
  <2>8. UNCHANGED msgs
    BY <1>4 DEF BytesStep
  <2>9. Oracle!Draw(r)
    BY <1>1, <2>7, <2>8 DEF Oracle!Draw
  <2> QED
    BY <2>9 DEF Oracle!Next
<1>5. ASSUME NEW r \in Replica, NEW s \in Replica, Clone(r, s)
      PROVE  Oracle!Next
  <2>1. ASSUME NEW q \in Replica
        PROVE  Flat(stream'[q]) = IF q = s THEN Flat(stream[r]) ELSE Flat(stream[q])
    BY <1>2, <1>5 DEF Clone
  <2>2. H = [G EXCEPT ![s] = G[r]]
    BY <2>1
  <2>3. msgs' = [msgs EXCEPT ![s] = msgs[r]]
    BY <1>5 DEF Clone
  <2>4. Oracle!Copy(r, s)
    BY <1>1, <2>2, <2>3 DEF Oracle!Copy
  <2> QED
    BY <2>4 DEF Oracle!Next
<1>6. ASSUME UNCHANGED <<msgs, stream>>
      PROVE  UNCHANGED <<msgs, F>>
  BY <1>1, <1>6
<1> HIDE DEF F
<1> QED
  BY <1>3, <1>4, <1>5, <1>6, WritesFrame DEF Bytes, TooManyBlocks, vars

\* The transcript implements the ideal oracle: generator, buffer, counter,
\* framing and clones are invisible in what is drawn.
THEOREM TranscriptImplementsOracle == Spec => ImplementsOracle
<1>1. Init => IInv /\ Accumulated
  BY TypeInit, BoundInit, AccumulatedInit DEF IInv
<1>2. IInv /\ Accumulated /\ [Next]_vars => (IInv /\ Accumulated)'
  BY TypeNext, BoundNext, AccumulatedNext DEF IInv
<1> QED
  BY <1>1, <1>2, OracleInit, OracleStep, PTL DEF Spec, ImplementsOracle, Oracle!Spec
=============================================================================
