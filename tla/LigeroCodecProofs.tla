------------------------- MODULE LigeroCodecProofs -------------------------
(***************************************************************************)
(* Proofs about LigeroCodec: type correctness, that a proof has one        *)
(* encoding, and that the prover's encoding is read back, for every size   *)
(* of bytes, field and geometry.                                           *)
(*                                                                         *)
(* Reader and writer never run together, so the last two compare each with *)
(* a path: the spots the writer passes in the format, with what it has     *)
(* written at each.  An encoding that read accepts is such a path for the  *)
(* proof read; the writer of a proof makes one, which the reader retraces. *)
(***************************************************************************)
EXTENDS LigeroCodec, SequenceTheorems, NaturalsInduction, WellFoundedInduction, TLAPS

(***************************************************************************)
(* Numbers.  The recursive functions of the module are defined on 0 .. w;  *)
(* that there are such functions, and what they satisfy, is shown with a   *)
(* least counterexample.                                                   *)
(***************************************************************************)
LEMMA LeastNat ==
  ASSUME NEW T, T \subseteq Nat, T # {}
  PROVE  \E x \in T : \A y \in T : x <= y
<1>1. IsWellFoundedOn(OpToRel(<, Nat), Nat)
  BY NatLessThanWellFounded
<1>2. PICK x \in T : \A y \in T : ~(<<y, x>> \in OpToRel(<, Nat))
  BY <1>1, WFMin, Zenon
<1>3. \A y \in T : ~(y < x)
  BY <1>2 DEF OpToRel
<1>4. \A y \in T : x <= y
  BY <1>3
<1> QED
  BY <1>4

Byte == 0 .. B - 1

LEMMA Basics ==
  /\ B \in Nat /\ B > 1 /\ B # 0
  /\ SizeBytes \in Nat /\ FieldBytes \in Nat /\ SubBytes \in Nat /\ DigestBytes \in Nat
BY CodecAssumption

\* Dividing by B takes the low digit off.
LEMMA LowDigit ==
  ASSUME NEW d \in Byte, NEW v \in Nat
  PROVE  /\ d + B * v \in Nat
         /\ (d + B * v) \div B = v
         /\ ((d + B * v) % B) = d
<1>1. B \in Nat \ {0} /\ d \in Nat /\ d < B
  BY Basics DEF Byte
<1>2. B * v \in Nat
  BY <1>1
<1>3. d + B * v \in Nat
  BY <1>1, <1>2
<1>4. (d + B * v) \div B = v
  BY <1>1, <1>2, <1>3
<1>5. ((d + B * v) % B) = d
  BY <1>1, <1>2, <1>3, <1>4
<1> QED
  BY <1>3, <1>4, <1>5

LEMMA DivNat ==
  ASSUME NEW n \in Nat
  PROVE  n \div B \in Nat /\ (n % B) \in Byte
BY Basics DEF Byte

\* There is a function that starts with a and goes on by any step, when the
\* step is given as a function.
LEMMA Recursion ==
  ASSUME NEW a \in Nat, NEW w \in Nat, NEW step \in [1 .. w -> [Nat -> Nat]]
  PROVE  \E f \in [0 .. w -> Nat] :
           f[0] = a /\ \A q \in 1 .. w : f[q] = step[q][f[q - 1]]
<1> DEFINE Good(n) == \E f \in [0 .. n -> Nat] :
             f[0] = a /\ \A q \in 1 .. n : f[q] = step[q][f[q - 1]]
           T == {n \in 0 .. w : ~Good(n)}
<1> HIDE DEF Good
<1>1. ASSUME T # {} PROVE FALSE
  <2>1. PICK n \in T : \A m \in T : n <= m
    <3>1. T \subseteq Nat
      OBVIOUS
    <3> HIDE DEF T
    <3> QED
      BY <1>1, <3>1, LeastNat, Zenon
  <2>2. n \in 0 .. w /\ ~Good(n)
    OBVIOUS
  <2>3. n # 0
    <3>1. [q \in 0 .. 0 |-> a] \in [0 .. 0 -> Nat]
      OBVIOUS
    <3>2. [q \in 0 .. 0 |-> a][0] = a /\ \A q \in 1 .. 0 : FALSE
      OBVIOUS
    <3>3. Good(0)
      BY <3>1, <3>2 DEF Good
    <3> QED
      BY <2>2, <3>3
  <2>4. n - 1 \in 0 .. w /\ n - 1 \notin T
    BY <2>1, <2>2, <2>3
  <2>5. PICK f \in [0 .. n - 1 -> Nat] :
          f[0] = a /\ \A q \in 1 .. n - 1 : f[q] = step[q][f[q - 1]]
    BY <2>4 DEF Good
  <2> DEFINE g == [q \in 0 .. n |-> IF q = n THEN step[n][f[n - 1]] ELSE f[q]]
  <2>6. f[n - 1] \in Nat /\ step[n][f[n - 1]] \in Nat
    <3>1. f[n - 1] \in Nat
      BY <2>2, <2>3, <2>5
    <3>2. n \in 1 .. w
      BY <2>2, <2>3
    <3> QED
      BY <3>1, <3>2
  <2>7. g \in [0 .. n -> Nat]
    <3>1. \A q \in 0 .. n : q # n => q \in 0 .. n - 1
      BY <2>2
    <3>2. \A q \in 0 .. n : (IF q = n THEN step[n][f[n - 1]] ELSE f[q]) \in Nat
      BY <2>5, <2>6, <3>1
    <3> QED
      BY <3>2
  <2>8. g[0] = a
    BY <2>2, <2>3, <2>5
  <2>9. \A q \in 1 .. n : g[q] = step[q][g[q - 1]]
    <3> SUFFICES ASSUME NEW q \in 1 .. n PROVE g[q] = step[q][g[q - 1]]
      OBVIOUS
    <3>1. q - 1 \in 0 .. n /\ q - 1 # n /\ g[q - 1] = f[q - 1]
      BY <2>2
    <3>2. CASE q = n
      BY <3>1, <3>2
    <3>3. CASE q # n
      <4>1. q \in 1 .. n - 1 /\ g[q] = f[q]
        BY <2>2, <3>3
      <4> QED
        BY <2>5, <3>1, <4>1
    <3> QED
      BY <3>2, <3>3
  <2>10. Good(n)
    BY <2>7, <2>8, <2>9 DEF Good
  <2> QED
    BY <2>2, <2>10
<1>2. Good(w)
  <2>1. w \in 0 .. w
    OBVIOUS
  <2> QED
    BY <1>1, <2>1, Zenon
<1> QED
  BY <1>2 DEF Good

\* What holds at 0 and is passed on by every step holds everywhere.
LEMMA Steps ==
  ASSUME NEW w \in Nat, NEW S, NEW v, v[0] \in S,
         \A q \in 1 .. w : v[q - 1] \in S => v[q] \in S
  PROVE  \A q \in 0 .. w : v[q] \in S
<1> DEFINE T == {q \in 0 .. w : v[q] \notin S}
<1> SUFFICES ASSUME T # {} PROVE FALSE
  OBVIOUS
<1>1. T \subseteq Nat
  OBVIOUS
<1>2. PICK q \in T : \A p \in T : q <= p
  <2> HIDE DEF T
  <2> QED
    BY <1>1, LeastNat, Zenon
<1>3. q \in 0 .. w /\ v[q] \notin S /\ q # 0
  OBVIOUS
<1>4. q - 1 \in 0 .. w /\ q - 1 \notin T
  BY <1>2, <1>3
<1>5. v[q - 1] \in S /\ q \in 1 .. w
  BY <1>3, <1>4
<1> QED
  BY <1>3, <1>5

LEMMA ValuesRec ==
  ASSUME NEW w \in Nat, NEW c \in [1 .. w -> Byte]
  PROVE  /\ Len(c) = w
         /\ Values(c) \in [0 .. w -> Nat] /\ Values(c)[0] = 0
         /\ \A q \in 1 .. w : Values(c)[q] = c[w + 1 - q] + B * Values(c)[q - 1]
<1>1. Len(c) = w
  OBVIOUS
<1> DEFINE step == [q \in 1 .. w |-> [x \in Nat |-> c[w + 1 - q] + B * x]]
<1>2. \A q \in 1 .. w : c[w + 1 - q] \in Byte
  OBVIOUS
<1>3. \A q \in 1 .. w, x \in Nat : c[w + 1 - q] + B * x \in Nat
  BY <1>2, LowDigit
<1>4. step \in [1 .. w -> [Nat -> Nat]]
  BY <1>3
<1>5. \A q \in 1 .. w, x \in Nat : step[q][x] = c[w + 1 - q] + B * x
  OBVIOUS
<1> HIDE DEF step
<1>6. PICK f \in [0 .. w -> Nat] :
        f[0] = 0 /\ \A q \in 1 .. w : f[q] = step[q][f[q - 1]]
  <2>1. 0 \in Nat
    OBVIOUS
  <2> QED
    BY <1>4, <2>1, Recursion
<1>7. \A q \in 0 .. w : q # 0 => (q \in 1 .. w /\ f[q - 1] \in Nat)
  OBVIOUS
<1>8. f = [q \in 0 .. w |-> IF q = 0 THEN 0 ELSE c[w + 1 - q] + B * f[q - 1]]
  BY <1>5, <1>6, <1>7
<1> DEFINE Is(v) == v = [q \in 0 .. Len(c) |->
                          IF q = 0 THEN 0 ELSE c[Len(c) + 1 - q] + B * v[q - 1]]
<1>9. Is(f)
  BY <1>1, <1>8
<1>10. Values(c) = CHOOSE v : Is(v)
  BY DEF Values
<1>11. Is(Values(c))
  BY <1>9, <1>10
<1> DEFINE v == Values(c)
<1>12. v = [q \in 0 .. w |-> IF q = 0 THEN 0 ELSE c[w + 1 - q] + B * v[q - 1]]
  BY <1>1, <1>11
<1> HIDE DEF v
<1>13. v[0] = 0 /\ \A q \in 1 .. w : v[q] = c[w + 1 - q] + B * v[q - 1]
  BY <1>12
<1>14. \A q \in 1 .. w : v[q - 1] \in Nat => v[q] \in Nat
  BY <1>3, <1>13
<1>15. \A q \in 0 .. w : v[q] \in Nat
  <2>1. v[0] \in Nat
    BY <1>13
  <2> QED
    BY <1>14, <2>1, Steps, Zenon
<1> QED
  BY <1>1, <1>12, <1>13, <1>15 DEF v

LEMMA QuotientsRec ==
  ASSUME NEW w \in Nat, NEW n \in Nat
  PROVE  /\ Quotients(n, w) \in [0 .. w -> Nat] /\ Quotients(n, w)[0] = n
         /\ \A q \in 1 .. w : Quotients(n, w)[q] = Quotients(n, w)[q - 1] \div B
<1> DEFINE step == [q \in 1 .. w |-> [x \in Nat |-> x \div B]]
<1>1. \A x \in Nat : x \div B \in Nat
  BY DivNat
<1>2. step \in [1 .. w -> [Nat -> Nat]]
  BY <1>1
<1>3. \A q \in 1 .. w, x \in Nat : step[q][x] = x \div B
  OBVIOUS
<1> HIDE DEF step
<1>4. PICK f \in [0 .. w -> Nat] :
        f[0] = n /\ \A q \in 1 .. w : f[q] = step[q][f[q - 1]]
  BY <1>2, Recursion
<1>5. \A q \in 0 .. w : q # 0 => (q \in 1 .. w /\ f[q - 1] \in Nat)
  OBVIOUS
<1>6. f = [q \in 0 .. w |-> IF q = 0 THEN n ELSE f[q - 1] \div B]
  BY <1>3, <1>4, <1>5
<1> DEFINE Is(v) == v = [q \in 0 .. w |-> IF q = 0 THEN n ELSE v[q - 1] \div B]
<1>7. Quotients(n, w) = CHOOSE v : Is(v)
  BY DEF Quotients
<1>8. Is(Quotients(n, w))
  BY <1>6, <1>7
<1> DEFINE v == Quotients(n, w)
<1>9. v = [q \in 0 .. w |-> IF q = 0 THEN n ELSE v[q - 1] \div B]
  BY <1>8
<1> HIDE DEF v
<1>10. v[0] = n /\ \A q \in 1 .. w : v[q] = v[q - 1] \div B
  BY <1>9
<1>11. \A q \in 0 .. w : v[q] \in Nat
  <2>1. v[0] \in Nat
    BY <1>10
  <2>2. \A q \in 1 .. w : v[q - 1] \in Nat => v[q] \in Nat
    BY <1>1, <1>10, Zenon
  <2> QED
    BY <2>1, <2>2, Steps, Zenon
<1> QED
  BY <1>9, <1>10, <1>11 DEF v

LEMMA PowersRec ==
  ASSUME NEW w \in Nat
  PROVE  /\ Powers(w) \in [0 .. w -> Nat] /\ Powers(w)[0] = 1
         /\ \A q \in 1 .. w : Powers(w)[q] = B * Powers(w)[q - 1]
<1> DEFINE step == [q \in 1 .. w |-> [x \in Nat |-> B * x]]
<1>1. \A x \in Nat : B * x \in Nat
  BY Basics
<1>2. step \in [1 .. w -> [Nat -> Nat]]
  BY <1>1
<1>3. \A q \in 1 .. w, x \in Nat : step[q][x] = B * x
  OBVIOUS
<1> HIDE DEF step
<1>4. PICK f \in [0 .. w -> Nat] :
        f[0] = 1 /\ \A q \in 1 .. w : f[q] = step[q][f[q - 1]]
  <2>1. 1 \in Nat
    OBVIOUS
  <2> QED
    BY <1>2, <2>1, Recursion
<1>5. \A q \in 0 .. w : q # 0 => (q \in 1 .. w /\ f[q - 1] \in Nat)
  OBVIOUS
<1>6. f = [q \in 0 .. w |-> IF q = 0 THEN 1 ELSE B * f[q - 1]]
  BY <1>3, <1>4, <1>5
<1> DEFINE Is(v) == v = [q \in 0 .. w |-> IF q = 0 THEN 1 ELSE B * v[q - 1]]
<1>7. Powers(w) = CHOOSE v : Is(v)
  BY DEF Powers
<1>8. Is(Powers(w))
  BY <1>6, <1>7
<1> DEFINE v == Powers(w)
<1>9. v = [q \in 0 .. w |-> IF q = 0 THEN 1 ELSE B * v[q - 1]]
  BY <1>8
<1> HIDE DEF v
<1>10. v[0] = 1 /\ \A q \in 1 .. w : v[q] = B * v[q - 1]
  BY <1>9
<1>11. \A q \in 0 .. w : v[q] \in Nat
  <2>1. v[0] \in Nat
    BY <1>10
  <2>2. \A q \in 1 .. w : v[q - 1] \in Nat => v[q] \in Nat
    BY <1>1, <1>10, Zenon
  <2> QED
    BY <2>1, <2>2, Steps, Zenon
<1> QED
  BY <1>9, <1>10, <1>11 DEF v

LEMMA BytesType ==
  ASSUME NEW n \in Nat, NEW w \in Nat
  PROVE  Bytes(n, w) \in [1 .. w -> Byte]
<1>1. \A q \in 1 .. w : Quotients(n, w)[q - 1] \in Nat
  BY QuotientsRec
<1>2. \A q \in 1 .. w : (Quotients(n, w)[q - 1] % B) \in Byte
  BY <1>1, DivNat
<1> QED
  BY <1>2 DEF Bytes

\* Decoding and encoding again gives the same bytes: a number that was read
\* is written as it was.
LEMMA BytesOfValue ==
  ASSUME NEW w \in Nat, NEW c \in [1 .. w -> Byte]
  PROVE  Value(c) \in Nat /\ Bytes(Value(c), w) = c
<1> DEFINE v == Values(c)
           n == v[w]
           f == Quotients(n, w)
           T == {q \in 0 .. w : f[q] # v[w - q]}
<1>1. /\ Len(c) = w /\ v \in [0 .. w -> Nat]
      /\ \A q \in 1 .. w : v[q] = c[w + 1 - q] + B * v[q - 1]
  BY ValuesRec
<1>2. Value(c) = n /\ n \in Nat
  BY <1>1 DEF Value
<1> HIDE DEF v, n
<1>3. /\ f \in [0 .. w -> Nat] /\ f[0] = n
      /\ \A q \in 1 .. w : f[q] = f[q - 1] \div B
  BY <1>2, QuotientsRec
<1> HIDE DEF f
<1>4. \A q \in 1 .. w : /\ w - (q - 1) \in 1 .. w /\ w + 1 - (w - (q - 1)) = q
                        /\ (w - (q - 1)) - 1 = w - q /\ w - q \in 0 .. w
  OBVIOUS
<1>5. \A q \in 1 .. w : v[w - (q - 1)] = c[q] + B * v[w - q]
  <2> SUFFICES ASSUME NEW q \in 1 .. w PROVE v[w - (q - 1)] = c[q] + B * v[w - q]
    OBVIOUS
  <2>1. v[w - (q - 1)] = c[w + 1 - (w - (q - 1))] + B * v[(w - (q - 1)) - 1]
    BY <1>1, <1>4, Zenon
  <2> QED
    BY <1>4, <2>1, Zenon
<1>6. \A q \in 1 .. w : /\ v[w - (q - 1)] \div B = v[w - q]
                        /\ (v[w - (q - 1)] % B) = c[q]
  <2> SUFFICES ASSUME NEW q \in 1 .. w
               PROVE  /\ v[w - (q - 1)] \div B = v[w - q]
                      /\ (v[w - (q - 1)] % B) = c[q]
    OBVIOUS
  <2>1. c[q] \in Byte /\ v[w - q] \in Nat
    BY <1>1, <1>4
  <2> QED
    BY <1>5, <2>1, LowDigit
<1>7. T = {}
  <2> SUFFICES ASSUME T # {} PROVE FALSE
    OBVIOUS
  <2>1. T \subseteq Nat
    OBVIOUS
  <2>2. PICK q \in T : \A p \in T : q <= p
    <3> HIDE DEF T
    <3> QED
      BY <2>1, LeastNat, Zenon
  <2>3. q \in 0 .. w /\ f[q] # v[w - q]
    OBVIOUS
  <2>4. q # 0
    BY <1>3, <2>3 DEF n
  <2>5. q \in 1 .. w /\ q - 1 \in 0 .. w /\ q - 1 \notin T
    BY <2>2, <2>3, <2>4
  <2>6. f[q - 1] = v[w - (q - 1)]
    BY <2>5
  <2> QED
    BY <1>3, <1>6, <2>3, <2>5, <2>6, Zenon
<1>8. \A q \in 1 .. w : (f[q - 1] % B) = c[q]
  <2> SUFFICES ASSUME NEW q \in 1 .. w PROVE (f[q - 1] % B) = c[q]
    OBVIOUS
  <2>1. q - 1 \in 0 .. w /\ q - 1 \notin T
    BY <1>7
  <2>2. f[q - 1] = v[w - (q - 1)]
    BY <2>1
  <2> QED
    BY <1>6, <2>2, Zenon
<1>9. Bytes(n, w) = [q \in 1 .. w |-> f[q - 1] % B]
  BY DEF Bytes, f
<1>10. Bytes(n, w) = c
  BY <1>8, <1>9
<1> QED
  BY <1>2, <1>10

LEMMA DigitBelow ==
  ASSUME NEW d \in Byte, NEW v \in Nat, NEW p \in Nat, v < p
  PROVE  d + B * v < B * p
<1>1. B \in Nat /\ d \in Nat /\ d < B
  BY Basics DEF Byte
<1>2. PICK e \in Nat : p = v + 1 + e
  <2>1. p - v - 1 \in Nat /\ p = v + 1 + (p - v - 1)
    OBVIOUS
  <2> QED
    BY <2>1
<1>3. B * p = B * v + B + B * e /\ B * v \in Nat /\ B * e \in Nat
  BY <1>1, <1>2
<1> QED
  BY <1>1, <1>3

\* A number read from w bytes is below B^w.
LEMMA ValueBelow ==
  ASSUME NEW w \in Nat, NEW c \in [1 .. w -> Byte]
  PROVE  Value(c) \in Nat /\ Powers(w)[w] \in Nat /\ Value(c) < Powers(w)[w]
<1> DEFINE v == Values(c)
           p == Powers(w)
           T == {q \in 0 .. w : ~(v[q] < p[q])}
<1>1. /\ Len(c) = w /\ v \in [0 .. w -> Nat] /\ v[0] = 0
      /\ \A q \in 1 .. w : v[q] = c[w + 1 - q] + B * v[q - 1]
  BY ValuesRec
<1>2. /\ p \in [0 .. w -> Nat] /\ p[0] = 1
      /\ \A q \in 1 .. w : p[q] = B * p[q - 1]
  BY PowersRec
<1>3. Value(c) = v[w]
  BY <1>1 DEF Value
<1> HIDE DEF v, p
<1>4. T = {}
  <2> SUFFICES ASSUME T # {} PROVE FALSE
    OBVIOUS
  <2>1. T \subseteq Nat
    OBVIOUS
  <2>2. PICK q \in T : \A m \in T : q <= m
    <3> HIDE DEF T
    <3> QED
      BY <2>1, LeastNat, Zenon
  <2>3. q \in 0 .. w /\ ~(v[q] < p[q])
    OBVIOUS
  <2>4. q # 0
    BY <1>1, <1>2, <2>3
  <2>5. q \in 1 .. w /\ q - 1 \in 0 .. w /\ q - 1 \notin T
    BY <2>2, <2>3, <2>4
  <2>6. v[q - 1] < p[q - 1] /\ v[q - 1] \in Nat /\ p[q - 1] \in Nat /\ c[w + 1 - q] \in Byte
    BY <1>1, <1>2, <2>5
  <2>7. c[w + 1 - q] + B * v[q - 1] < B * p[q - 1]
    BY <2>6, DigitBelow
  <2>8. v[q] < p[q]
    BY <1>1, <1>2, <2>5, <2>7, Zenon
  <2> QED
    BY <2>3, <2>8
<1>5. w \in 0 .. w
  OBVIOUS
<1>6. v[w] < p[w] /\ v[w] \in Nat /\ p[w] \in Nat
  BY <1>1, <1>2, <1>4, <1>5
<1> QED
  BY <1>3, <1>6 DEF p

LEMMA SizeFits ==
  ASSUME NEW c \in [1 .. SizeBytes -> Byte]
  PROVE  Value(c) \in Nat /\ MaxSize \in Int /\ Value(c) <= MaxSize
BY ValueBelow, Basics DEF MaxSize

(***************************************************************************)
(* Types, and where in its vectors each side is.                           *)
(***************************************************************************)
Limit == geom.nreq * geom.mc_pathlen

YTo(m, k) ==
  \A s \in 1 .. 4 : Len(got.y[s]) = IF s < m THEN YLen(s) ELSE IF s = m THEN k ELSE 0

YFull == \A s \in 1 .. 4 : Len(got.y[s]) = YLen(s)

ReadShape ==
  side = "read" =>
    /\ pc # "start" /\ pc # "panicked"
    /\ pc = "y" =>
         /\ j <= YLen(sec) /\ YTo(sec, j) /\ Len(got.nonce) = 0 /\ Len(got.req) = 0
         /\ Len(got.path) = 0 /\ nruns = 0
    /\ pc = "nonce" =>
         /\ j <= geom.nreq /\ YFull /\ Len(got.nonce) = j /\ Len(got.req) = 0
         /\ Len(got.path) = 0 /\ nruns = 0
    /\ pc = "run" =>
         /\ YFull /\ Len(got.nonce) = geom.nreq /\ Len(got.req) = ci /\ Len(got.path) = 0
         /\ nruns <= ci + 1 /\ (first_run => nruns = 0)
    /\ pc = "elts" =>
         /\ YFull /\ Len(got.nonce) = geom.nreq /\ Len(got.req) = ci + j /\ Len(got.path) = 0
         /\ j <= runlen /\ ci + runlen <= Total /\ nruns <= ci + runlen + 1 /\ ~first_run
    /\ pc = "path_len" =>
         /\ YFull /\ Len(got.nonce) = geom.nreq /\ Len(got.req) = Total /\ Len(got.path) = 0
    /\ pc = "path" =>
         /\ YFull /\ Len(got.nonce) = geom.nreq /\ Len(got.req) = Total
         /\ Len(got.path) = j /\ j <= runlen /\ runlen <= Limit

OfKind(len) ==
  \A q \in ci + 1 .. ci + len : InSubfield(proof.req[q]) = subfield_run

WriteShape ==
  side = "write" =>
    /\ pc # "path_len" /\ pc # "rejected"
    /\ input = "honest" => got = NoProof /\ consumed = <<>> /\ nruns = 0
    /\ input = "any" =>
         got = proof /\ YFull /\ Len(got.nonce) = geom.nreq /\ Len(got.req) = Total
    /\ pc \notin {"start", "panicked"} => WellShaped
    /\ pc = "y" => j <= YLen(sec)
    /\ pc = "nonce" => j <= geom.nreq
    /\ pc = "elts" => j <= runlen /\ ci + runlen <= Total /\ OfKind(runlen)
    /\ pc = "path" => j <= Len(proof.path)

TInv == TypeOK /\ ReadShape /\ WriteShape

LEMMA Lengths ==
  ASSUME geom \in Geometries
  PROVE  /\ \A s \in 1 .. 4 : YLen(s) \in Nat
         /\ Total \in Nat /\ Limit \in Nat /\ geom.nreq \in Nat
<1>1. /\ geom.block \in Nat /\ geom.dblock \in Nat /\ geom.r \in Nat /\ geom.nrow \in Nat
      /\ geom.nreq \in Nat /\ geom.mc_pathlen \in Nat /\ geom.block <= geom.dblock
  BY CodecAssumption
<1>2. Total \in Nat /\ Limit \in Nat
  BY <1>1 DEF Total, Limit
<1>3. geom.dblock - geom.block \in Nat
  BY <1>1
<1>4. \A s \in 1 .. 4 : YLen(s) \in Nat
  BY <1>1, <1>3 DEF YLen
<1> QED
  BY <1>1, <1>2, <1>4

LEMMA SeqIsFunction ==
  ASSUME NEW S, NEW s \in Seq(S)
  PROVE  s \in [1 .. Len(s) -> S] /\ Len(s) \in Nat
OBVIOUS

LEMMA FunctionIsSeq ==
  ASSUME NEW S, NEW w \in Nat, NEW c \in [1 .. w -> S]
  PROVE  c \in Seq(S) /\ Len(c) = w
OBVIOUS

LEMMA ConcatBytes ==
  ASSUME NEW s \in Seq(Byte), NEW w \in Nat, NEW c \in [1 .. w -> Byte]
  PROVE  s \o c \in Seq(Byte) /\ Len(s \o c) = Len(s) + w
BY FunctionIsSeq

LEMMA ChunkType ==
  ASSUME TypeOK, NEW w \in Nat, NEW c \in Chunks(w)
  PROVE  c \in [1 .. w -> Byte]
<1>1. CASE input = "any"
  BY <1>1 DEF Chunks, Byte
<1>2. CASE input # "any"
  <2>1. /\ Len(consumed) + w <= Len(out)
        /\ c = SubSeq(out, Len(consumed) + 1, Len(consumed) + w)
    BY <1>2 DEF Chunks
  <2>2. out \in Seq(Byte) /\ consumed \in Seq(Byte) /\ Len(out) \in Nat /\ Len(consumed) \in Nat
    BY DEF TypeOK, Byte
  <2>3. c \in Seq(Byte) /\ Len(c) = w
    <3> DEFINE m == Len(consumed)
    <3>1. m \in Nat /\ m + w <= Len(out) /\ (m + w) - (m + 1) + 1 = w
      BY <2>1, <2>2
    <3> HIDE DEF m
    <3>2. c = SubSeq(out, m + 1, m + w)
      BY <2>1 DEF m
    <3> QED
      BY <2>2, <3>1, <3>2
  <2> QED
    BY <2>3, SeqIsFunction
<1> QED
  BY <1>1, <1>2

LEMMA InitTInv == Init => TInv
<1> SUFFICES ASSUME Init PROVE TInv
  OBVIOUS
<1>1. NoProof \in ProofType
  <2> DEFINE e == <<<<>>, <<>>, <<>>, <<>>>>
  <2>1. <<>> \in Seq(Nat)
    OBVIOUS
  <2>2. e \in Seq(Seq(Nat)) /\ Len(e) = 4
    BY <2>1
  <2>3. e \in [1 .. 4 -> Seq(Nat)]
    <3> HIDE DEF e
    <3> QED
      BY <2>2, SeqIsFunction
  <2> HIDE DEF e
  <2>4. NoProof = [y |-> e, nonce |-> <<>>, req |-> <<>>, path |-> <<>>]
    BY DEF NoProof, e
  <2> QED
    BY <2>1, <2>3, <2>4 DEF ProofType
<1>2. proof \in ProofType
  BY <1>1, CodecAssumption DEF Init
<1>3. /\ \A s \in 1 .. 4 : YLen(s) \in Nat
      /\ Total \in Nat /\ Limit \in Nat /\ geom.nreq \in Nat
  BY Lengths DEF Init
<1>4. \A s \in 1 .. 4 : Len(got.y[s]) = 0
  BY DEF Init, NoProof
<1>5. Len(got.nonce) = 0 /\ Len(got.req) = 0 /\ Len(got.path) = 0
  BY DEF Init, NoProof
<1>6. TypeOK
  <2>1. got \in ProofType /\ out \in Seq(0 .. B - 1) /\ consumed \in Seq(0 .. B - 1)
    BY <1>1 DEF Init
  <2>2. \A s \in 1 .. 4 : Len(got.y[s]) <= YLen(s)
    BY <1>3, <1>4
  <2>3. /\ Len(got.nonce) <= geom.nreq /\ Len(got.req) <= Total
        /\ Len(got.path) <= geom.nreq * geom.mc_pathlen
    BY <1>3, <1>5 DEF Limit
  <2>4. ci \in 0 .. Total /\ nruns \in 0 .. Total + 1
    BY <1>3 DEF Init
  <2>5. /\ input \in {"honest", "any"} /\ geom \in Geometries /\ side \in {"write", "read"}
        /\ pc \in {"start", "y"}
    BY DEF Init
  <2>6. sec \in 1 .. 4 /\ j \in Nat /\ runlen \in Nat
    BY DEF Init
  <2>7. subfield_run \in BOOLEAN /\ first_run \in BOOLEAN
    BY Zenon DEF Init
  <2> QED
    BY <1>2, <2>1, <2>2, <2>3, <2>4, <2>5, <2>6, <2>7 DEF TypeOK
<1>7. ReadShape
  <2>1. YTo(1, 0)
    BY <1>4 DEF YTo
  <2> QED
    BY <1>3, <1>5, <2>1 DEF ReadShape, Init
<1>8. WriteShape
  BY DEF WriteShape, Init
<1> QED
  BY <1>6, <1>7, <1>8 DEF TInv

(***************************************************************************)
(* The type invariant in parts, so that a step shows only what it changes. *)
(***************************************************************************)
CtlOK ==
  /\ input \in {"honest", "any"} /\ geom \in Geometries /\ side \in {"write", "read"}
  /\ pc \in {"start", "y", "nonce", "run", "elts", "path_len", "path",
             "done", "rejected", "panicked"}
  /\ proof \in ProofType

GotOK ==
  /\ got \in ProofType
  /\ \A s \in 1 .. 4 : Len(got.y[s]) <= YLen(s)
  /\ Len(got.nonce) <= geom.nreq /\ Len(got.req) <= Total /\ Len(got.path) <= Limit

CtrOK ==
  /\ sec \in 1 .. 4 /\ j \in Nat /\ ci \in 0 .. Total /\ runlen \in Nat
  /\ nruns \in 0 .. Total + 1

FlagOK == subfield_run \in BOOLEAN /\ first_run \in BOOLEAN

LEMMA TypeParts ==
  /\ TypeOK <=> /\ CtlOK /\ GotOK /\ CtrOK /\ FlagOK
                /\ out \in Seq(Byte) /\ consumed \in Seq(Byte)
  /\ TypeOK' <=> /\ CtlOK' /\ GotOK' /\ CtrOK' /\ FlagOK'
                 /\ out' \in Seq(Byte) /\ consumed' \in Seq(Byte)
<1>1. TypeOK <=> /\ CtlOK /\ GotOK /\ CtrOK /\ FlagOK
                 /\ out \in Seq(Byte) /\ consumed \in Seq(Byte)
  BY Zenon DEF TypeOK, CtlOK, GotOK, CtrOK, FlagOK, Byte, Limit
<1>2. TypeOK' <=> /\ CtlOK' /\ GotOK' /\ CtrOK' /\ FlagOK'
                  /\ out' \in Seq(Byte) /\ consumed' \in Seq(Byte)
  BY Zenon DEF TypeOK, CtlOK, GotOK, CtrOK, FlagOK, Byte, Limit
<1> QED
  BY <1>1, <1>2

LEMMA GeomSame ==
  ASSUME geom' = geom
  PROVE  /\ \A s : YLen(s)' = YLen(s)
         /\ Total' = Total /\ Limit' = Limit
BY DEF YLen, Total, Limit

LEMMA AppendNat ==
  ASSUME NEW s \in Seq(Nat), NEW v \in Nat
  PROVE  Append(s, v) \in Seq(Nat) /\ Len(Append(s, v)) = Len(s) + 1
OBVIOUS

\* What the writer emits are bytes.
LEMMA EmitBytes ==
  ASSUME out \in Seq(Byte), NEW n \in Nat, NEW w \in Nat, Emit(Bytes(n, w))
  PROVE  out' \in Seq(Byte)
BY BytesType, ConcatBytes DEF Emit

(***************************************************************************)
(* Steps of the writer.                                                    *)
(***************************************************************************)
\* The longest run of elements of one kind.
IsRunLen(len) ==
  /\ len \in 0 .. Total - ci /\ OfKind(len)
  /\ ci + len < Total => InSubfield(proof.req[ci + len + 1]) # subfield_run

LEMMA RunLenExists ==
  ASSUME TypeOK
  PROVE  RunLen \in Nat /\ IsRunLen(RunLen)
<1>1. Total \in Nat /\ ci \in 0 .. Total
  BY Lengths DEF TypeOK
<1> DEFINE Stop(len) == ci + len < Total => InSubfield(proof.req[ci + len + 1]) # subfield_run
           T == {len \in 0 .. Total - ci : Stop(len)}
<1>2. Total - ci \in T /\ T \subseteq Nat
  BY <1>1
<1>3. PICK len \in T : \A m \in T : len <= m
  <2> HIDE DEF T
  <2> QED
    BY <1>2, LeastNat
<1>4. len \in 0 .. Total - ci /\ Stop(len)
  OBVIOUS
<1>5. ASSUME NEW q \in ci + 1 .. ci + len
      PROVE  InSubfield(proof.req[q]) = subfield_run
  <2>1. q - ci - 1 \in 0 .. Total - ci /\ q - ci - 1 < len /\ ci + (q - ci - 1) + 1 = q
    BY <1>1, <1>4
  <2>2. q - ci - 1 \notin T
    BY <1>3, <1>4, <2>1
  <2>3. ~Stop(q - ci - 1)
    BY <2>1, <2>2
  <2> QED
    BY <2>1, <2>3
<1>6. IsRunLen(len)
  BY <1>4, <1>5 DEF IsRunLen, OfKind
<1>7. RunLen = CHOOSE x \in 0 .. Total - ci :
        /\ \A q \in ci + 1 .. ci + x : InSubfield(proof.req[q]) = subfield_run
        /\ ci + x < Total => InSubfield(proof.req[ci + x + 1]) # subfield_run
  BY DEF RunLen
<1>8. /\ RunLen \in 0 .. Total - ci
      /\ \A q \in ci + 1 .. ci + RunLen : InSubfield(proof.req[q]) = subfield_run
      /\ ci + RunLen < Total => InSubfield(proof.req[ci + RunLen + 1]) # subfield_run
  <2> HIDE DEF T, Stop
  <2> QED
    BY <1>4, <1>6, <1>7, Zenon DEF IsRunLen, OfKind
<1> QED
  BY <1>1, <1>8 DEF IsRunLen, OfKind

LEMMA WriterKeeps ==
  ASSUME TInv, side = "write", side' = "write",
         UNCHANGED <<input, geom, proof, got, consumed, nruns>>,
         pc' \in {"y", "nonce", "run", "elts", "path", "done", "panicked"},
         out' \in Seq(Byte), sec' \in 1 .. 4, j' \in Nat, ci' \in 0 .. Total,
         runlen' \in Nat, FlagOK',
         pc' # "panicked" => WellShaped,
         pc' = "y" => j' <= YLen(sec'),
         pc' = "nonce" => j' <= geom.nreq,
         pc' = "elts" => j' <= runlen' /\ ci' + runlen' <= Total /\ OfKind(runlen)',
         pc' = "path" => j' <= Len(proof.path)
  PROVE  TInv'
<1>1. /\ CtlOK /\ GotOK /\ CtrOK /\ consumed \in Seq(Byte)
  BY TypeParts DEF TInv
<1>2. /\ \A s : YLen(s)' = YLen(s)
      /\ Total' = Total /\ Limit' = Limit
  BY GeomSame
<1>3. CtlOK'
  BY <1>1 DEF CtlOK
<1>4. GotOK'
  BY <1>1, <1>2 DEF GotOK
<1>5. CtrOK'
  BY <1>1, <1>2 DEF CtrOK
<1>6. TypeOK'
  BY <1>1, <1>3, <1>4, <1>5, TypeParts
<1>7. ReadShape'
  BY DEF ReadShape
<1>8. WellShaped => WellShaped'
  BY <1>2 DEF WellShaped
<1>9. YFull => YFull'
  BY <1>2 DEF YFull
<1>10. WriteShape'
  BY <1>2, <1>8, <1>9 DEF TInv, WriteShape
<1> QED
  BY <1>6, <1>7, <1>10 DEF TInv

LEMMA WriteStartType ==
  ASSUME TInv, WriteStart
  PROVE  TInv'
<1>1. /\ CtlOK /\ CtrOK /\ FlagOK /\ out \in Seq(Byte)
      /\ \A s \in 1 .. 4 : YLen(s) \in Nat
  BY TypeParts, Lengths DEF TInv, TypeOK
<1>2. FlagOK'
  BY <1>1, Zenon DEF WriteStart, FlagOK
<1>3. sec' = 1 /\ 1 \in 1 .. 4 /\ j' = 0 /\ 0 \in Nat /\ 0 <= YLen(1)
  BY <1>1 DEF WriteStart
<1> QED
  BY <1>1, <1>2, <1>3, WriterKeeps DEF WriteStart, Writing, CtrOK

LEMMA ElementNat ==
  ASSUME NEW s \in Seq(Nat), NEW k \in Nat, k < Len(s)
  PROVE  s[k + 1] \in Nat
OBVIOUS

LEMMA WriteYType ==
  ASSUME TInv, WriteY
  PROVE  TInv'
<1>1. /\ CtlOK /\ CtrOK /\ FlagOK /\ out \in Seq(Byte) /\ proof \in ProofType
      /\ \A s \in 1 .. 4 : YLen(s) \in Nat
  BY TypeParts, Lengths DEF TInv, TypeOK
<1>2. FlagOK'
  BY <1>1, Zenon DEF WriteY, FlagOK
<1>3. WellShaped /\ j \in Nat /\ sec \in 1 .. 4 /\ j < YLen(sec)
  BY <1>1 DEF TInv, WriteShape, WriteY, Writing, CtrOK
<1>4. proof.y[sec] \in Seq(Nat) /\ Len(proof.y[sec]) = YLen(sec)
  BY <1>1, <1>3 DEF ProofType, WellShaped
<1>5. proof.y[sec][j + 1] \in Nat
  BY <1>3, <1>4, ElementNat
<1>6. out' \in Seq(Byte)
  BY <1>1, <1>5, Basics, EmitBytes DEF WriteY
<1>7. j' = j + 1 /\ j' \in Nat /\ j' <= YLen(sec)
  BY <1>1, <1>3 DEF WriteY
<1> QED
  BY <1>1, <1>2, <1>3, <1>6, <1>7, WriterKeeps DEF WriteY, Writing, CtrOK

LEMMA WriteNonceType ==
  ASSUME TInv, WriteNonce
  PROVE  TInv'
<1>1. /\ CtlOK /\ CtrOK /\ FlagOK /\ out \in Seq(Byte) /\ proof \in ProofType
      /\ geom.nreq \in Nat
  BY TypeParts, Lengths DEF TInv, TypeOK
<1>2. FlagOK'
  BY <1>1, Zenon DEF WriteNonce, FlagOK
<1>3. WellShaped /\ j \in Nat /\ j < geom.nreq
  BY <1>1 DEF TInv, WriteShape, WriteNonce, Writing, CtrOK
<1>4. proof.nonce \in Seq(Nat) /\ Len(proof.nonce) = geom.nreq
  BY <1>1, <1>3 DEF ProofType, WellShaped
<1>5. proof.nonce[j + 1] \in Nat
  BY <1>1, <1>3, <1>4
<1>6. out' \in Seq(Byte)
  BY <1>1, <1>5, Basics, EmitBytes DEF WriteNonce
<1>7. j' = j + 1 /\ j' \in Nat /\ j' <= geom.nreq
  BY <1>1, <1>3 DEF WriteNonce
<1> QED
  BY <1>1, <1>2, <1>3, <1>6, <1>7, WriterKeeps DEF WriteNonce, Writing, CtrOK

LEMMA WriteRunLenType ==
  ASSUME TInv, WriteRunLen
  PROVE  TInv'
<1>1. /\ CtlOK /\ CtrOK /\ FlagOK /\ out \in Seq(Byte) /\ Total \in Nat
  BY TypeParts, Lengths DEF TInv, TypeOK
<1>2. FlagOK'
  BY <1>1, Zenon DEF WriteRunLen, FlagOK
<1>3. WellShaped /\ RunLen \in Nat /\ IsRunLen(RunLen)
  BY <1>1, RunLenExists DEF TInv, WriteShape, WriteRunLen, Writing
<1>4. out' \in Seq(Byte)
  BY <1>1, <1>3, Basics, EmitBytes DEF WriteRunLen
<1>5. runlen' = RunLen /\ j' = 0 /\ ci' = ci
  BY DEF WriteRunLen
<1>6. OfKind(runlen)'
  BY <1>3, <1>5 DEF OfKind, IsRunLen, WriteRunLen
<1>7. 0 \in Nat /\ 0 <= RunLen /\ ci + RunLen <= Total
  BY <1>1, <1>3 DEF IsRunLen, CtrOK
<1> QED
  BY <1>1, <1>2, <1>3, <1>4, <1>5, <1>6, <1>7, WriterKeeps DEF WriteRunLen, Writing, CtrOK

\* The bytes of an element of the current run.
EltBytes(u, e) == IF u THEN Bytes(SubCode(e), SubBytes) ELSE Bytes(e, FieldBytes)

LEMMA SubCodeType ==
  ASSUME NEW e, InSubfield(e)
  PROVE  SubCode(e) \in DOMAIN Embed /\ SubCode(e) \in Nat /\ Embed[SubCode(e)] = e
<1>1. SubCode(e) \in DOMAIN Embed /\ Embed[SubCode(e)] = e
  BY DEF InSubfield, SubCode
<1> QED
  BY <1>1, CodecAssumption

LEMMA WriteEltType ==
  ASSUME TInv, WriteElt
  PROVE  TInv'
<1>1. /\ CtlOK /\ CtrOK /\ FlagOK /\ out \in Seq(Byte) /\ proof \in ProofType
      /\ Total \in Nat
  BY TypeParts, Lengths DEF TInv, TypeOK
<1>2. FlagOK'
  BY <1>1, Zenon DEF WriteElt, FlagOK
<1>3. /\ WellShaped /\ j \in Nat /\ j < runlen /\ runlen \in Nat /\ ci \in Nat
      /\ ci + runlen <= Total /\ OfKind(runlen)
  BY <1>1 DEF TInv, WriteShape, WriteElt, Writing, CtrOK
<1> DEFINE e == proof.req[ci + j + 1]
<1>4. e \in Nat
  <2>1. proof.req \in Seq(Nat) /\ Len(proof.req) = Total
    BY <1>1, <1>3 DEF ProofType, WellShaped
  <2> QED
    BY <1>1, <1>3, <2>1
<1>5. InSubfield(e) = subfield_run
  <2>1. ci + j + 1 \in ci + 1 .. ci + runlen
    BY <1>3
  <2> QED
    BY <1>3, <2>1 DEF OfKind
<1> HIDE DEF e
<1>6. out' \in Seq(Byte)
  <2>1. CASE subfield_run
    <3>1. Emit(Bytes(SubCode(e), SubBytes))
      BY <2>1 DEF WriteElt, e
    <3> QED
      BY <1>1, <1>5, <2>1, <3>1, SubCodeType, Basics, EmitBytes
  <2>2. CASE ~subfield_run
    <3>1. Emit(Bytes(e, FieldBytes))
      BY <2>2 DEF WriteElt, e
    <3> QED
      BY <1>1, <1>4, <3>1, Basics, EmitBytes
  <2> QED
    BY <2>1, <2>2
<1>7. j' = j + 1 /\ j' \in Nat /\ j' <= runlen
  BY <1>3 DEF WriteElt
<1>8. OfKind(runlen)'
  BY <1>3 DEF OfKind, WriteElt
<1> QED
  BY <1>1, <1>2, <1>3, <1>6, <1>7, <1>8, WriterKeeps DEF WriteElt, Writing, CtrOK

LEMMA WritePathType ==
  ASSUME TInv, WritePathLen \/ WriteDigest
  PROVE  TInv'
<1>1. /\ CtlOK /\ CtrOK /\ FlagOK /\ out \in Seq(Byte) /\ proof \in ProofType
  BY TypeParts DEF TInv, TypeOK
<1>2. FlagOK'
  BY <1>1, Zenon DEF WritePathLen, WriteDigest, FlagOK
<1>3. WellShaped /\ proof.path \in Seq(Nat) /\ Len(proof.path) \in Nat /\ j \in Nat
  BY <1>1 DEF TInv, WriteShape, WritePathLen, WriteDigest, Writing, CtrOK, ProofType
<1>4. CASE WritePathLen
  <2>1. out' \in Seq(Byte)
    BY <1>1, <1>3, <1>4, Basics, EmitBytes DEF WritePathLen
  <2>2. j' = 0 /\ 0 \in Nat /\ 0 <= Len(proof.path)
    BY <1>3, <1>4 DEF WritePathLen
  <2> QED
    BY <1>1, <1>2, <1>3, <1>4, <2>1, <2>2, WriterKeeps DEF WritePathLen, Writing, CtrOK
<1>5. CASE WriteDigest
  <2>1. proof.path[j + 1] \in Nat
    BY <1>3, <1>5 DEF WriteDigest
  <2>2. out' \in Seq(Byte)
    BY <1>1, <1>5, <2>1, Basics, EmitBytes DEF WriteDigest
  <2>3. j' = j + 1 /\ j' \in Nat /\ j' <= Len(proof.path)
    BY <1>3, <1>5 DEF WriteDigest
  <2> QED
    BY <1>1, <1>2, <1>3, <1>5, <2>2, <2>3, WriterKeeps DEF WriteDigest, Writing, CtrOK
<1> QED
  BY <1>4, <1>5

LEMMA WritePanicsType ==
  ASSUME TInv, WritePanics
  PROVE  TInv'
<1>1. /\ CtlOK /\ CtrOK /\ FlagOK /\ out \in Seq(Byte)
  BY TypeParts DEF TInv, TypeOK
<1>2. FlagOK' /\ side = "write" /\ pc' = "panicked"
  BY <1>1, Zenon DEF WritePanics, FlagOK, position, Writing
<1> QED
  BY <1>1, <1>2, WriterKeeps DEF WritePanics, position, CtrOK

(***************************************************************************)
(* Steps of the reader.                                                    *)
(***************************************************************************)
LEMMA ReaderKeeps ==
  ASSUME TInv, side' = "read", UNCHANGED <<input, geom, proof, out>>,
         pc' \in {"y", "nonce", "run", "elts", "path_len", "path", "done", "rejected"},
         consumed' \in Seq(Byte), GotOK', CtrOK', FlagOK', ReadShape'
  PROVE  TInv'
<1>1. CtlOK /\ out \in Seq(Byte)
  BY TypeParts DEF TInv
<1>2. CtlOK'
  BY <1>1 DEF CtlOK
<1>3. TypeOK'
  BY <1>1, <1>2, TypeParts
<1>4. WriteShape'
  BY DEF WriteShape
<1> QED
  BY <1>3, <1>4 DEF TInv

\* What is common to the steps that read a chunk.
Taking(section) ==
  /\ side = "read" /\ side' = "read" /\ pc = section
  /\ UNCHANGED <<input, geom, proof, out>> /\ consumed' \in Seq(Byte)
  /\ CtlOK /\ GotOK /\ CtrOK /\ FlagOK /\ ReadShape
  /\ Total \in Nat /\ Limit \in Nat /\ geom.nreq \in Nat
  /\ Total' = Total /\ Limit' = Limit

LEMMA TakeFacts ==
  ASSUME TInv, NEW section, NEW c \in Chunks(Width), Take(section, c)
  PROVE  /\ Taking(section)
         /\ Width \in Nat /\ c \in [1 .. Width -> Byte] /\ Value(c) \in Nat
         /\ consumed' = consumed \o c
         /\ \A s \in 1 .. 4 : YLen(s) \in Nat /\ YLen(s)' = YLen(s)
<1>1. /\ side = "read" /\ side' = "read" /\ pc = section
      /\ UNCHANGED <<input, geom, proof, out>> /\ consumed' = consumed \o c
  BY DEF Take, Reading
<1>2. CtlOK /\ GotOK /\ CtrOK /\ FlagOK /\ ReadShape /\ consumed \in Seq(Byte)
  BY TypeParts DEF TInv
<1>3. Width \in Nat
  BY Basics DEF Width
<1>4. c \in [1 .. Width -> Byte]
  BY <1>3, ChunkType DEF TInv
<1>5. consumed' \in Seq(Byte)
  BY <1>1, <1>2, <1>3, <1>4, ConcatBytes
<1>6. Value(c) \in Nat
  BY <1>3, <1>4, BytesOfValue
<1>7. /\ \A s \in 1 .. 4 : YLen(s) \in Nat
      /\ Total \in Nat /\ Limit \in Nat /\ geom.nreq \in Nat
  BY Lengths DEF TInv, TypeOK
<1>8. /\ \A s : YLen(s)' = YLen(s)
      /\ Total' = Total /\ Limit' = Limit
  BY <1>1, GeomSame
<1> QED
  BY <1>1, <1>2, <1>3, <1>4, <1>5, <1>6, <1>7, <1>8 DEF Taking

LEMMA ReadYType ==
  ASSUME TInv, NEW c \in Chunks(Width), ReadY(c)
  PROVE  TInv'
<1>1. Take("y", c) /\ Taking("y") /\ Value(c) \in Nat
  BY TakeFacts DEF ReadY
<1>0. \A s \in 1 .. 4 : YLen(s) \in Nat /\ YLen(s)' = YLen(s)
  BY TakeFacts DEF ReadY
<1> USE <1>1 DEF Taking
<1>2. /\ sec \in 1 .. 4 /\ j \in Nat /\ j < YLen(sec) /\ YTo(sec, j)
      /\ Len(got.nonce) = 0 /\ Len(got.req) = 0 /\ Len(got.path) = 0 /\ nruns = 0
  BY DEF CtrOK, ReadShape, Take, MoreToRead
<1>3. got \in ProofType /\ got.y \in [1 .. 4 -> Seq(Nat)]
  BY DEF GotOK, ProofType
<1> DEFINE e == Append(got.y[sec], Value(c))
<1>4. e \in Seq(Nat) /\ Len(e) = Len(got.y[sec]) + 1
  BY <1>2, <1>3, AppendNat
<1>5. got' = [got EXCEPT !.y = [got.y EXCEPT ![sec] = e]]
  BY <1>3 DEF ReadY, ProofType
<1> HIDE DEF e
<1>6. /\ got'.y = [got.y EXCEPT ![sec] = e] /\ got'.nonce = got.nonce
      /\ got'.req = got.req /\ got'.path = got.path /\ got' \in ProofType
  BY <1>2, <1>3, <1>4, <1>5 DEF ProofType
<1>7. \A s \in 1 .. 4 : got'.y[s] = IF s = sec THEN e ELSE got.y[s]
  BY <1>3, <1>6
<1>8. UNCHANGED <<pc, sec, ci, subfield_run, first_run, runlen, nruns>> /\ j' = j + 1
  BY DEF ReadY
<1>9. /\ YTo(sec, j)'
      /\ \A s \in 1 .. 4 : Len(got'.y[s]) <= YLen(s)
  <2>1. \A s \in 1 .. 4 : /\ Len(got'.y[s]) <= YLen(s)
                          /\ Len(got'.y[s]) = IF s < sec THEN YLen(s)
                                              ELSE IF s = sec THEN j + 1 ELSE 0
    <3> SUFFICES ASSUME NEW s \in 1 .. 4
                 PROVE  /\ Len(got'.y[s]) <= YLen(s)
                        /\ Len(got'.y[s]) = IF s < sec THEN YLen(s)
                                            ELSE IF s = sec THEN j + 1 ELSE 0
      OBVIOUS
    <3>1. Len(got.y[s]) = IF s < sec THEN YLen(s) ELSE IF s = sec THEN j ELSE 0
      BY <1>2 DEF YTo
    <3>2. YLen(s) \in Nat /\ got'.y[s] = IF s = sec THEN e ELSE got.y[s]
      BY <1>0, <1>7
    <3>3. CASE s = sec
      <4>1. Len(got'.y[s]) = j + 1 /\ j + 1 <= YLen(s)
        BY <1>2, <1>4, <3>1, <3>2, <3>3
      <4> QED
        BY <1>2, <3>3, <4>1
    <3>4. CASE s # sec
      <4>1. Len(got'.y[s]) = IF s < sec THEN YLen(s) ELSE 0
        BY <3>1, <3>2, <3>4
      <4> QED
        BY <3>2, <3>4, <4>1
    <3> QED
      BY <3>3, <3>4
  <2> QED
    BY <1>0, <1>8, <2>1 DEF YTo
<1>10. CtrOK' /\ j' <= YLen(sec)
  BY <1>0, <1>2, <1>8 DEF CtrOK
<1>11. FlagOK'
  BY <1>8, Zenon DEF FlagOK
<1>12. ReadShape'
  BY <1>0, <1>2, <1>6, <1>8, <1>9, <1>10 DEF ReadShape
<1>13. GotOK'
  BY <1>0, <1>2, <1>6, <1>9 DEF GotOK
<1> QED
  BY <1>8, <1>10, <1>11, <1>12, <1>13, ReaderKeeps

LEMMA ReadNonceType ==
  ASSUME TInv, NEW c \in Chunks(Width), ReadNonce(c)
  PROVE  TInv'
<1>1. Take("nonce", c) /\ Taking("nonce") /\ Value(c) \in Nat
  BY TakeFacts DEF ReadNonce
<1>0. \A s \in 1 .. 4 : YLen(s) \in Nat /\ YLen(s)' = YLen(s)
  BY TakeFacts DEF ReadNonce
<1> USE <1>1 DEF Taking
<1>2. /\ j \in Nat /\ j < geom.nreq /\ YFull /\ Len(got.nonce) = j /\ Len(got.req) = 0
      /\ Len(got.path) = 0 /\ nruns = 0
  BY DEF CtrOK, ReadShape, Take, MoreToRead
<1>3. got \in ProofType /\ got.nonce \in Seq(Nat)
  BY DEF GotOK, ProofType
<1> DEFINE e == Append(got.nonce, Value(c))
<1>4. e \in Seq(Nat) /\ Len(e) = j + 1
  BY <1>2, <1>3, AppendNat
<1>5. got' = [got EXCEPT !.nonce = e]
  BY <1>3 DEF ReadNonce, ProofType
<1> HIDE DEF e
<1>6. /\ got'.y = got.y /\ got'.nonce = e
      /\ got'.req = got.req /\ got'.path = got.path /\ got' \in ProofType
  BY <1>3, <1>4, <1>5 DEF ProofType
<1>7. UNCHANGED <<pc, sec, ci, subfield_run, first_run, runlen, nruns>> /\ j' = j + 1
  BY DEF ReadNonce
<1>8. YFull'
  BY <1>0, <1>2, <1>6 DEF YFull
<1>9. CtrOK' /\ j' <= geom.nreq
  BY <1>2, <1>7 DEF CtrOK
<1>10. FlagOK'
  BY <1>7, Zenon DEF FlagOK
<1>11. ReadShape'
  BY <1>2, <1>4, <1>6, <1>7, <1>8, <1>9 DEF ReadShape
<1>12. GotOK'
  <2>1. \A s \in 1 .. 4 : Len(got'.y[s]) <= YLen(s)'
    BY <1>0, <1>8 DEF YFull
  <2>2. /\ Len(got'.nonce) <= geom.nreq /\ Len(got'.req) <= Total
        /\ Len(got'.path) <= Limit /\ got' \in ProofType
    BY <1>2, <1>4, <1>6
  <2> QED
    BY <2>1, <2>2, Zenon DEF GotOK
<1> QED
  BY <1>7, <1>9, <1>10, <1>11, <1>12, ReaderKeeps

LEMMA ReadRunLenType ==
  ASSUME TInv, NEW c \in Chunks(Width), ReadRunLen(c)
  PROVE  TInv'
<1>1. Take("run", c) /\ Taking("run") /\ Value(c) \in Nat
  BY TakeFacts DEF ReadRunLen
<1>0. \A s \in 1 .. 4 : YLen(s) \in Nat /\ YLen(s)' = YLen(s)
  BY TakeFacts DEF ReadRunLen
<1> USE <1>1 DEF Taking
<1>2. /\ ci \in 0 .. Total /\ ci < Total /\ YFull /\ Len(got.nonce) = geom.nreq
      /\ Len(got.req) = ci /\ Len(got.path) = 0 /\ nruns \in Nat /\ nruns <= ci + 1
      /\ (first_run => nruns = 0)
  BY DEF CtrOK, ReadShape, Take, MoreToRead
<1>3. /\ ~(Value(c) = 0 /\ ~first_run) /\ ci + Value(c) <= Total
  BY DEF Take, Accepts, RunOk
<1>4. UNCHANGED <<got, sec, ci, subfield_run>> /\ runlen' = Value(c) /\ first_run' = FALSE
      /\ j' = 0 /\ pc' = "elts" /\ nruns' = nruns + 1
  BY DEF ReadRunLen
<1>5. nruns' <= ci + Value(c) + 1 /\ nruns' \in Nat
  <2>1. CASE first_run
    BY <1>2, <1>4, <2>1
  <2>2. CASE ~first_run
    BY <1>2, <1>3, <1>4, <2>2
  <2> QED
    BY <2>1, <2>2
<1>6. YFull'
  BY <1>0, <1>2, <1>4 DEF YFull
<1>7. CtrOK'
  BY <1>2, <1>3, <1>4, <1>5 DEF CtrOK
<1>8. FlagOK'
  BY <1>4, Zenon DEF FlagOK
<1>9. ReadShape'
  BY <1>2, <1>3, <1>4, <1>5, <1>6 DEF ReadShape
<1>10. GotOK'
  BY <1>0, <1>4 DEF GotOK
<1> QED
  BY <1>4, <1>7, <1>8, <1>9, <1>10, ReaderKeeps

LEMMA ReadEltType ==
  ASSUME TInv, NEW c \in Chunks(Width), ReadElt(c)
  PROVE  TInv'
<1>1. Take("elts", c) /\ Taking("elts") /\ Value(c) \in Nat
  BY TakeFacts DEF ReadElt
<1>0. \A s \in 1 .. 4 : YLen(s) \in Nat /\ YLen(s)' = YLen(s)
  BY TakeFacts DEF ReadElt
<1> USE <1>1 DEF Taking
<1>2. /\ j \in Nat /\ ci \in 0 .. Total /\ runlen \in Nat /\ j < runlen /\ ci + runlen <= Total
      /\ YFull /\ Len(got.nonce) = geom.nreq /\ Len(got.req) = ci + j /\ Len(got.path) = 0
      /\ nruns <= ci + runlen + 1 /\ ~first_run
  BY DEF CtrOK, ReadShape, Take, MoreToRead
<1>3. got \in ProofType /\ got.req \in Seq(Nat)
  BY DEF GotOK, ProofType
<1> DEFINE v == IF subfield_run THEN Embed[Value(c)] ELSE Value(c)
           e == Append(got.req, v)
<1>4. v \in Nat
  BY CodecAssumption DEF Take, Accepts, EltOk, SubOk
<1>5. got' = [got EXCEPT !.req = e]
  BY <1>3 DEF ReadElt, ProofType
<1> HIDE DEF v
<1>6. e \in Seq(Nat) /\ Len(e) = ci + j + 1
  BY <1>2, <1>3, <1>4, AppendNat
<1> HIDE DEF e
<1>7. /\ got'.y = got.y /\ got'.nonce = got.nonce
      /\ got'.req = e /\ got'.path = got.path /\ got' \in ProofType
  BY <1>3, <1>5, <1>6 DEF ProofType
<1>8. UNCHANGED <<pc, sec, ci, subfield_run, first_run, runlen, nruns>> /\ j' = j + 1
  BY DEF ReadElt
<1>9. YFull'
  BY <1>0, <1>2, <1>7 DEF YFull
<1>10. CtrOK' /\ j' <= runlen
  BY <1>2, <1>8 DEF CtrOK
<1>11. FlagOK'
  BY <1>8, Zenon DEF FlagOK
<1>12. ReadShape'
  BY <1>2, <1>6, <1>7, <1>8, <1>9, <1>10 DEF ReadShape
<1>13. GotOK'
  <2>1. \A s \in 1 .. 4 : Len(got'.y[s]) <= YLen(s)'
    BY <1>0, <1>9 DEF YFull
  <2>2. Len(got'.req) <= Total
    <3>1. ci + j + 1 <= Total
      BY <1>2
    <3> QED
      BY <1>6, <1>7, <3>1
  <2>3. /\ Len(got'.nonce) <= geom.nreq /\ Len(got'.path) <= Limit /\ got' \in ProofType
    BY <1>2, <1>7
  <2> QED
    BY <2>1, <2>2, <2>3, Zenon DEF GotOK
<1> QED
  BY <1>8, <1>10, <1>11, <1>12, <1>13, ReaderKeeps

LEMMA ReadPathLenType ==
  ASSUME TInv, NEW c \in Chunks(Width), ReadPathLen(c)
  PROVE  TInv'
<1>1. Take("path_len", c) /\ Taking("path_len") /\ Value(c) \in Nat
  BY TakeFacts DEF ReadPathLen
<1>0. \A s \in 1 .. 4 : YLen(s) \in Nat /\ YLen(s)' = YLen(s)
  BY TakeFacts DEF ReadPathLen
<1> USE <1>1 DEF Taking
<1>2. /\ YFull /\ Len(got.nonce) = geom.nreq /\ Len(got.req) = Total /\ Len(got.path) = 0
      /\ Value(c) <= Limit
  BY DEF ReadShape, Take, Accepts, Limit
<1>3. /\ UNCHANGED <<got, sec, ci, subfield_run, first_run, nruns>> /\ runlen' = Value(c)
      /\ j' = 0 /\ pc' = "path"
  BY DEF ReadPathLen
<1>4. YFull'
  BY <1>0, <1>2, <1>3 DEF YFull
<1>5. CtrOK'
  BY <1>3 DEF CtrOK
<1>6. FlagOK'
  BY <1>3, Zenon DEF FlagOK
<1>7. ReadShape'
  BY <1>2, <1>3, <1>4 DEF ReadShape
<1>8. GotOK'
  BY <1>0, <1>3 DEF GotOK
<1> QED
  BY <1>3, <1>5, <1>6, <1>7, <1>8, ReaderKeeps

LEMMA ReadDigestType ==
  ASSUME TInv, NEW c \in Chunks(Width), ReadDigest(c)
  PROVE  TInv'
<1>1. Take("path", c) /\ Taking("path") /\ Value(c) \in Nat
  BY TakeFacts DEF ReadDigest
<1>0. \A s \in 1 .. 4 : YLen(s) \in Nat /\ YLen(s)' = YLen(s)
  BY TakeFacts DEF ReadDigest
<1> USE <1>1 DEF Taking
<1>2. /\ YFull /\ Len(got.nonce) = geom.nreq /\ Len(got.req) = Total /\ Len(got.path) = j
      /\ j \in Nat /\ runlen \in Nat /\ j < runlen /\ runlen <= Limit
  BY DEF CtrOK, ReadShape, Take, MoreToRead
<1>3. got \in ProofType /\ got.path \in Seq(Nat)
  BY DEF GotOK, ProofType
<1> DEFINE e == Append(got.path, Value(c))
<1>4. e \in Seq(Nat) /\ Len(e) = j + 1
  BY <1>2, <1>3, AppendNat
<1>5. got' = [got EXCEPT !.path = e]
  BY <1>3 DEF ReadDigest, ProofType
<1> HIDE DEF e
<1>6. /\ got'.y = got.y /\ got'.nonce = got.nonce
      /\ got'.req = got.req /\ got'.path = e /\ got' \in ProofType
  BY <1>3, <1>4, <1>5 DEF ProofType
<1>7. UNCHANGED <<pc, sec, ci, subfield_run, first_run, runlen, nruns>> /\ j' = j + 1
  BY DEF ReadDigest
<1>8. YFull'
  BY <1>0, <1>2, <1>6 DEF YFull
<1>9. CtrOK' /\ j' <= runlen
  BY <1>2, <1>7 DEF CtrOK
<1>10. FlagOK'
  BY <1>7, Zenon DEF FlagOK
<1>11. ReadShape'
  BY <1>2, <1>4, <1>6, <1>7, <1>8, <1>9 DEF ReadShape
<1>12. GotOK'
  <2>1. \A s \in 1 .. 4 : Len(got'.y[s]) <= YLen(s)'
    BY <1>0, <1>8 DEF YFull
  <2>2. /\ Len(got'.nonce) <= geom.nreq /\ Len(got'.req) <= Total
        /\ Len(got'.path) <= Limit /\ got' \in ProofType
    BY <1>2, <1>4, <1>6
  <2> QED
    BY <2>1, <2>2, Zenon DEF GotOK
<1> QED
  BY <1>7, <1>9, <1>10, <1>11, <1>12, ReaderKeeps

(***************************************************************************)
(* The remaining steps, and type correctness.                              *)
(***************************************************************************)
LEMMA ReadStops ==
  ASSUME TInv, ReadErr \/ ReadRunsDone
  PROVE  TInv'
<1>1. /\ side = "read" /\ side' = "read" /\ UNCHANGED <<input, geom, proof, out>>
      /\ UNCHANGED <<got, consumed, sec, j, ci, subfield_run, first_run, runlen, nruns>>
  BY DEF ReadErr, ReadRunsDone, MoreToRead, Reading, position
<1>2. GotOK /\ CtrOK /\ FlagOK /\ consumed \in Seq(Byte) /\ ReadShape /\ Total \in Nat
  BY TypeParts, Lengths DEF TInv, TypeOK
<1>3. /\ \A s : YLen(s)' = YLen(s)
      /\ Total' = Total /\ Limit' = Limit
  BY <1>1, GeomSame
<1>4. GotOK' /\ CtrOK'
  BY <1>1, <1>2, <1>3 DEF GotOK, CtrOK
<1>5. FlagOK'
  BY <1>1, <1>2, Zenon DEF FlagOK
<1>6. pc' \in {"path_len", "rejected"}
  BY DEF ReadErr, ReadRunsDone
<1>7. ReadShape'
  <2>1. CASE ReadErr
    BY <2>1 DEF ReadErr, ReadShape
  <2>2. CASE ReadRunsDone
    <3>1. pc = "run" /\ ci >= Total /\ ci \in 0 .. Total /\ pc' = "path_len"
      BY <1>2, <2>2 DEF ReadRunsDone, Reading, CtrOK
    <3>2. ci = Total
      BY <1>2, <3>1
    <3>3. YFull'
      BY <1>1, <1>2, <1>3, <3>1 DEF YFull, ReadShape
    <3> QED
      BY <1>1, <1>2, <1>3, <3>1, <3>2, <3>3 DEF ReadShape
  <2> QED
    BY <2>1, <2>2
<1> QED
  BY <1>1, <1>2, <1>4, <1>5, <1>6, <1>7, ReaderKeeps

LEMMA NextSectionType ==
  ASSUME TInv, NextSection
  PROVE  TInv'
<1>1. /\ UNCHANGED <<input, geom, side, proof, got, out, consumed, ci, subfield_run,
                     first_run, runlen, nruns>>
      /\ pc = "y" /\ j = YLen(sec) /\ j' = 0 /\ pc' \in {"y", "nonce"}
  BY DEF NextSection
<1>2. /\ CtlOK /\ GotOK /\ CtrOK /\ FlagOK /\ out \in Seq(Byte) /\ consumed \in Seq(Byte)
      /\ ReadShape /\ WriteShape
  BY TypeParts DEF TInv
<1>3. /\ \A s \in 1 .. 4 : YLen(s) \in Nat
      /\ Total \in Nat /\ Limit \in Nat /\ geom.nreq \in Nat
  BY Lengths DEF TInv, TypeOK
<1>4. /\ \A s : YLen(s)' = YLen(s)
      /\ Total' = Total /\ Limit' = Limit
  BY <1>1, GeomSame
<1>5. FlagOK'
  BY <1>1, <1>2, Zenon DEF FlagOK
<1>6. /\ sec \in 1 .. 4 /\ sec' \in 1 .. 4
      /\ \/ sec < 4 /\ sec' = sec + 1 /\ pc' = "y"
         \/ sec = 4 /\ pc' = "nonce"
  BY <1>1, <1>2 DEF CtrOK, NextSection
<1>7. CASE side = "write"
  <2>1. WellShaped
    BY <1>1, <1>2, <1>7 DEF WriteShape
  <2>2. 0 <= geom.nreq /\ 0 <= YLen(sec') /\ 0 \in Nat
    BY <1>3, <1>6
  <2> QED
    BY <1>1, <1>2, <1>5, <1>6, <1>7, <2>1, <2>2, WriterKeeps DEF CtrOK
<1>8. CASE side = "read"
  <2>1. /\ YTo(sec, j) /\ Len(got.nonce) = 0 /\ Len(got.req) = 0
        /\ Len(got.path) = 0 /\ nruns = 0
    BY <1>1, <1>2, <1>8 DEF ReadShape
  <2>2. GotOK'
    BY <1>1, <1>2, <1>4 DEF GotOK
  <2>3. CtrOK'
    BY <1>1, <1>2, <1>4, <1>6 DEF CtrOK
  <2>4. ReadShape'
    <3>1. CASE pc' = "y"
      <4>1. sec' = sec + 1
        BY <1>6, <3>1
      <4>2. YTo(sec, j)'
        BY <1>1, <1>4, <1>6, <2>1, <4>1 DEF YTo
      <4>3. j' <= YLen(sec)'
        BY <1>1, <1>3, <1>4, <1>6
      <4> QED
        BY <1>1, <2>1, <3>1, <4>2, <4>3 DEF ReadShape
    <3>2. CASE pc' = "nonce"
      <4>1. sec = 4
        BY <1>6, <3>2
      <4>2. YFull'
        BY <1>1, <1>4, <2>1, <4>1 DEF YTo, YFull
      <4>3. j' <= geom'.nreq
        BY <1>1, <1>3
      <4> QED
        BY <1>1, <2>1, <3>2, <4>2, <4>3 DEF ReadShape
    <3> QED
      BY <1>1, <3>1, <3>2
  <2> QED
    BY <1>1, <1>2, <1>5, <1>8, <2>2, <2>3, <2>4, ReaderKeeps
<1> QED
  BY <1>2, <1>7, <1>8 DEF CtlOK

LEMMA StartRunsType ==
  ASSUME TInv, StartRuns
  PROVE  TInv'
<1>1. /\ UNCHANGED <<input, geom, side, proof, got, out, consumed, sec, j, nruns>>
      /\ pc = "nonce" /\ j = geom.nreq /\ pc' = "run" /\ ci' = 0 /\ runlen' = 0
      /\ subfield_run' = FALSE /\ first_run' = TRUE
  BY DEF StartRuns
<1>2. /\ CtlOK /\ GotOK /\ CtrOK /\ out \in Seq(Byte) /\ consumed \in Seq(Byte)
      /\ ReadShape /\ WriteShape
  BY TypeParts DEF TInv
<1>3. Total \in Nat /\ Limit \in Nat /\ geom.nreq \in Nat /\ 0 \in 0 .. Total /\ 0 \in Nat
  BY Lengths DEF TInv, TypeOK
<1>4. /\ \A s : YLen(s)' = YLen(s)
      /\ Total' = Total /\ Limit' = Limit
  BY <1>1, GeomSame
<1>5. FlagOK'
  BY <1>1, Zenon DEF FlagOK
<1>6. CASE side = "write"
  <2>1. WellShaped
    BY <1>1, <1>2, <1>6 DEF WriteShape
  <2> QED
    BY <1>1, <1>2, <1>3, <1>5, <1>6, <2>1, WriterKeeps DEF CtrOK
<1>7. CASE side = "read"
  <2>1. /\ YFull /\ Len(got.nonce) = geom.nreq /\ Len(got.req) = 0
        /\ Len(got.path) = 0 /\ nruns = 0
    BY <1>1, <1>2, <1>7 DEF ReadShape
  <2>2. GotOK' /\ CtrOK'
    BY <1>1, <1>2, <1>3, <1>4 DEF GotOK, CtrOK
  <2>3. YFull'
    BY <1>1, <1>4, <2>1 DEF YFull
  <2>4. ReadShape'
    BY <1>1, <2>1, <2>3 DEF ReadShape
  <2> QED
    BY <1>1, <1>2, <1>5, <1>7, <2>2, <2>4, ReaderKeeps
<1> QED
  BY <1>2, <1>6, <1>7 DEF CtlOK

LEMMA EndRunType ==
  ASSUME TInv, EndRun
  PROVE  TInv'
<1>1. /\ UNCHANGED <<input, geom, side, proof, got, out, consumed, sec, j, first_run,
                     runlen, nruns>>
      /\ pc = "elts" /\ j = runlen /\ pc' = "run" /\ ci' = ci + runlen
      /\ subfield_run' = ~subfield_run
  BY DEF EndRun
<1>2. /\ CtlOK /\ GotOK /\ CtrOK /\ FlagOK /\ out \in Seq(Byte) /\ consumed \in Seq(Byte)
      /\ ReadShape /\ WriteShape
  BY TypeParts DEF TInv
<1>3. Total \in Nat /\ Limit \in Nat /\ geom.nreq \in Nat
  BY Lengths DEF TInv, TypeOK
<1>4. /\ \A s : YLen(s)' = YLen(s)
      /\ Total' = Total /\ Limit' = Limit
  BY <1>1, GeomSame
<1>5. FlagOK'
  BY <1>1, <1>2, Zenon DEF FlagOK
<1>6. ci \in Nat /\ runlen \in Nat /\ ci + runlen <= Total /\ ci' \in 0 .. Total
  <2>1. ci + runlen <= Total
    BY <1>1, <1>2 DEF ReadShape, WriteShape, CtlOK
  <2> QED
    BY <1>1, <1>2, <1>3, <2>1 DEF CtrOK
<1>7. CASE side = "write"
  <2>1. WellShaped
    BY <1>1, <1>2, <1>7 DEF WriteShape
  <2> QED
    BY <1>1, <1>2, <1>5, <1>6, <1>7, <2>1, WriterKeeps DEF CtrOK
<1>8. CASE side = "read"
  <2>1. /\ YFull /\ Len(got.nonce) = geom.nreq /\ Len(got.req) = ci + j
        /\ Len(got.path) = 0 /\ nruns <= ci + runlen + 1 /\ ~first_run
    BY <1>1, <1>2, <1>8 DEF ReadShape
  <2>2. GotOK' /\ CtrOK'
    BY <1>1, <1>2, <1>4, <1>6 DEF GotOK, CtrOK
  <2>3. YFull'
    BY <1>1, <1>4, <2>1 DEF YFull
  <2>4. ReadShape'
    BY <1>1, <2>1, <2>3 DEF ReadShape
  <2> QED
    BY <1>1, <1>2, <1>5, <1>8, <2>2, <2>4, ReaderKeeps
<1> QED
  BY <1>2, <1>7, <1>8 DEF CtlOK

LEMMA WriteOkType ==
  ASSUME TInv, WriteOk
  PROVE  TInv'
<1>1. /\ UNCHANGED <<input, geom, proof, got, out, consumed, ci, subfield_run, first_run,
                     runlen, nruns>>
      /\ side = "write" /\ pc = "path" /\ sec' = 1 /\ j' = 0
      /\ \/ input = "honest" /\ side' = "read" /\ pc' = "y"
         \/ input # "honest" /\ side' = "write" /\ pc' = "done"
  BY DEF WriteOk, Writing
<1>2. /\ CtlOK /\ GotOK /\ CtrOK /\ FlagOK /\ out \in Seq(Byte) /\ consumed \in Seq(Byte)
      /\ WriteShape
  BY TypeParts DEF TInv
<1>3. /\ \A s \in 1 .. 4 : YLen(s) \in Nat
      /\ Total \in Nat /\ Limit \in Nat /\ geom.nreq \in Nat
  BY Lengths DEF TInv, TypeOK
<1>4. /\ \A s : YLen(s)' = YLen(s)
      /\ Total' = Total /\ Limit' = Limit
  BY <1>1, GeomSame
<1>5. FlagOK'
  BY <1>1, <1>2, Zenon DEF FlagOK
<1>6. 1 \in 1 .. 4 /\ 0 \in Nat /\ 0 <= YLen(1)
  BY <1>3
<1>7. CASE input # "honest"
  <2>1. WellShaped
    BY <1>1, <1>2 DEF WriteShape
  <2> QED
    BY <1>1, <1>2, <1>5, <1>6, <1>7, <2>1, WriterKeeps DEF CtrOK
<1>8. CASE input = "honest"
  <2>1. got = NoProof /\ nruns = 0
    BY <1>1, <1>2, <1>8 DEF WriteShape
  <2>2. GotOK' /\ CtrOK'
    BY <1>1, <1>2, <1>4, <1>6 DEF GotOK, CtrOK
  <2>3. YTo(sec, j)'
    BY <1>1, <2>1 DEF YTo, NoProof
  <2>4. Len(got'.nonce) = 0 /\ Len(got'.req) = 0 /\ Len(got'.path) = 0
    BY <1>1, <2>1 DEF NoProof
  <2>5. j' <= YLen(sec)'
    BY <1>1, <1>4, <1>6
  <2>6. ReadShape'
    BY <1>1, <1>8, <2>1, <2>3, <2>4, <2>5 DEF ReadShape
  <2> QED
    BY <1>1, <1>2, <1>5, <1>8, <2>2, <2>6, ReaderKeeps
<1> QED
  BY <1>7, <1>8

LEMMA ReadOkType ==
  ASSUME TInv, ReadOk
  PROVE  TInv'
<1>1. /\ UNCHANGED <<input, geom, got, out, consumed, sec, j, ci, subfield_run, first_run,
                     runlen, nruns>>
      /\ side = "read" /\ pc = "path"
      /\ \/ input = "any" /\ side' = "write" /\ pc' = "start" /\ proof' = got
         \/ input # "any" /\ side' = "read" /\ pc' = "done" /\ proof' = proof
  BY DEF ReadOk, Reading, position
<1>2. /\ CtlOK /\ GotOK /\ CtrOK /\ FlagOK /\ out \in Seq(Byte) /\ consumed \in Seq(Byte)
      /\ ReadShape
  BY TypeParts DEF TInv
<1>3. /\ \A s : YLen(s)' = YLen(s)
      /\ Total' = Total /\ Limit' = Limit
  BY <1>1, GeomSame
<1>4. FlagOK'
  BY <1>1, <1>2, Zenon DEF FlagOK
<1>5. GotOK' /\ CtrOK'
  BY <1>1, <1>2, <1>3 DEF GotOK, CtrOK
<1>6. CtlOK'
  BY <1>1, <1>2 DEF CtlOK, GotOK
<1>7. TypeOK'
  BY <1>1, <1>2, <1>4, <1>5, <1>6, TypeParts
<1>8. ReadShape'
  BY <1>1 DEF ReadShape
<1>9. YFull /\ Len(got.nonce) = geom.nreq /\ Len(got.req) = Total
  BY <1>1, <1>2 DEF ReadShape
<1>10. YFull'
  BY <1>1, <1>3, <1>9 DEF YFull
<1>11. WriteShape'
  BY <1>1, <1>3, <1>9, <1>10 DEF WriteShape
<1> QED
  BY <1>7, <1>8, <1>11 DEF TInv

LEMMA TStutter ==
  ASSUME TInv, UNCHANGED vars
  PROVE  TInv'
<1>1. TypeOK'
  BY Zenon DEF TInv, TypeOK, vars, YLen, Total
<1>2. ReadShape'
  BY Zenon DEF TInv, ReadShape, vars, YLen, Total, Limit, YTo, YFull
<1>3. WriteShape'
  BY Zenon DEF TInv, WriteShape, vars, YLen, Total, YFull, OfKind, WellShaped
<1> QED
  BY <1>1, <1>2, <1>3 DEF TInv

LEMMA TInductive == TInv /\ [Next]_vars => TInv'
<1> SUFFICES ASSUME TInv, [Next]_vars PROVE TInv'
  OBVIOUS
<1>1. CASE UNCHANGED vars
  BY <1>1, TStutter
<1>2. CASE Write
  BY <1>2, WriteStartType, WriteYType, WriteNonceType, WriteRunLenType, WriteEltType,
     WritePathType, WritePanicsType, WriteOkType DEF Write
<1>3. CASE Read
  BY <1>3, ReadYType, ReadNonceType, ReadRunLenType, ReadEltType, ReadPathLenType,
     ReadDigestType, ReadStops, ReadOkType DEF Read
<1>4. CASE NextSection \/ StartRuns \/ EndRun
  BY <1>4, NextSectionType, StartRunsType, EndRunType
<1> QED
  BY <1>1, <1>2, <1>3, <1>4 DEF Next

\* Whatever the bytes, read keeps every vector within what the geometry says,
\* and the number of runs it reads within the number of elements and one; each
\* vector the writer indexes has the length it expects.
THEOREM TypeCorrect == Spec => []TypeOK
<1>1. Spec => []TInv
  BY InitTInv, TInductive, PTL DEF Spec
<1>2. TInv => TypeOK
  BY DEF TInv
<1> QED
  BY <1>1, <1>2, PTL

(***************************************************************************)
(* The writer as a path through spots.  A spot is where write_to_buf is in *)
(* the format and what it has written; the steps below are those it takes  *)
(* for a proof g, as far as g is known: when read has taken in a part of a *)
(* proof only, the steps past that part are left open.                     *)
(***************************************************************************)
Kind(u) == IF u THEN "sub" ELSE "field"
Other(kind) == IF kind = "sub" THEN "field" ELSE "sub"
EltKind(e) == Kind(InSubfield(e))
EltCode(kind, e) == IF kind = "sub" THEN Bytes(SubCode(e), SubBytes) ELSE Bytes(e, FieldBytes)

YL(q, s) == <<q.block, q.dblock, q.r, q.dblock - q.block>>[s]
Tot(q) == q.nreq * q.nrow

Spot ==
  [at : {"y", "nonce", "run", "elts", "path"}, sec : Nat, j : Nat, ci : Nat,
   kind : {"sub", "field"}, len : Nat, bytes : Seq(Byte)]

YAt(s, i, b) ==
  [at |-> "y", sec |-> s, j |-> i, ci |-> 0, kind |-> "field", len |-> 0, bytes |-> b]
NonceAt(i, b) ==
  [at |-> "nonce", sec |-> 0, j |-> i, ci |-> 0, kind |-> "field", len |-> 0, bytes |-> b]
RunAt(c, kind, b) ==
  [at |-> "run", sec |-> 0, j |-> 0, ci |-> c, kind |-> kind, len |-> 0, bytes |-> b]
EltsAt(c, kind, l, i, b) ==
  [at |-> "elts", sec |-> 0, j |-> i, ci |-> c, kind |-> kind, len |-> l, bytes |-> b]
PathAt(l, i, b) ==
  [at |-> "path", sec |-> 0, j |-> i, ci |-> 0, kind |-> "field", len |-> l, bytes |-> b]

GoY(q, g, t, u) ==
  /\ t.at = "y" /\ t.sec \in 1 .. 4 /\ t.j < YL(q, t.sec) /\ t.j < Len(g.y[t.sec])
  /\ u = YAt(t.sec, t.j + 1, t.bytes \o Bytes(g.y[t.sec][t.j + 1], FieldBytes))

GoSection(q, t, u) ==
  /\ t.at = "y" /\ t.sec \in 1 .. 4 /\ t.j = YL(q, t.sec)
  /\ u = IF t.sec < 4 THEN YAt(t.sec + 1, 0, t.bytes) ELSE NonceAt(0, t.bytes)

GoNonce(q, g, t, u) ==
  /\ t.at = "nonce" /\ t.j < q.nreq /\ t.j < Len(g.nonce)
  /\ u = NonceAt(t.j + 1, t.bytes \o Bytes(g.nonce[t.j + 1], DigestBytes))

GoStart(q, t, u) ==
  t.at = "nonce" /\ t.j = q.nreq /\ u = RunAt(0, "field", t.bytes)

GoRun(q, g, t, u) ==
  /\ t.at = "run" /\ t.ci < Tot(q) /\ u.len <= MaxSize /\ t.ci + u.len <= Tot(q)
  /\ \A x \in t.ci + 1 .. t.ci + u.len : x <= Len(g.req) => EltKind(g.req[x]) = t.kind
  /\ t.ci + u.len < Len(g.req) => EltKind(g.req[t.ci + u.len + 1]) # t.kind
  /\ u = EltsAt(t.ci, t.kind, u.len, 0, t.bytes \o Bytes(u.len, SizeBytes))

GoElt(g, t, u) ==
  /\ t.at = "elts" /\ t.j < t.len /\ t.ci + t.j < Len(g.req)
  /\ u = EltsAt(t.ci, t.kind, t.len, t.j + 1,
                t.bytes \o EltCode(t.kind, g.req[t.ci + t.j + 1]))

GoEnd(t, u) ==
  t.at = "elts" /\ t.j = t.len /\ u = RunAt(t.ci + t.len, Other(t.kind), t.bytes)

GoPathLen(q, t, u) ==
  /\ t.at = "run" /\ t.ci >= Tot(q) /\ u.len <= MaxSize
  /\ u = PathAt(u.len, 0, t.bytes \o Bytes(u.len, SizeBytes))

GoPath(g, t, u) ==
  /\ t.at = "path" /\ t.j < t.len /\ t.j < Len(g.path)
  /\ u = PathAt(t.len, t.j + 1, t.bytes \o Bytes(g.path[t.j + 1], DigestBytes))

Go(q, g, t, u) ==
  \/ GoY(q, g, t, u) \/ GoSection(q, t, u) \/ GoNonce(q, g, t, u) \/ GoStart(q, t, u)
  \/ GoRun(q, g, t, u) \/ GoElt(g, t, u) \/ GoEnd(t, u)
  \/ GoPathLen(q, t, u) \/ GoPath(g, t, u)

Trace(q, g, n, T) ==
  /\ n \in Nat /\ T \in [Nat -> Spot] /\ T[0] = YAt(1, 0, <<>>)
  /\ \A k \in 0 .. n - 1 : Go(q, g, T[k], T[k + 1])

\* The steps of a path are steps for a longer proof h too.
Carries(q, g, h, n, T) ==
  \A k \in 0 .. n - 1 : Go(q, g, T[k], T[k + 1]) => Go(q, h, T[k], T[k + 1])

\* A path goes on with one more step, when what is known of the proof grows.
LEMMA TraceGrows ==
  ASSUME NEW q, NEW g, NEW h, NEW n, NEW T, Trace(q, g, n, T),
         NEW u \in Spot, Go(q, h, T[n], u), Carries(q, g, h, n, T)
  PROVE  \E U : /\ Trace(q, h, n + 1, U) /\ U[n + 1] = u
                /\ \A k \in 0 .. n : U[k] = T[k]
<1> DEFINE U == [T EXCEPT ![n + 1] = u]
<1>1. /\ n \in Nat /\ T \in [Nat -> Spot] /\ T[0] = YAt(1, 0, <<>>)
      /\ \A k \in 0 .. n - 1 : Go(q, g, T[k], T[k + 1])
  BY DEF Trace
<1>2. /\ U \in [Nat -> Spot] /\ U[n + 1] = u
      /\ \A k \in 0 .. n : U[k] = T[k]
  BY <1>1
<1> HIDE DEF U
<1>3. U[0] = YAt(1, 0, <<>>)
  BY <1>1, <1>2
<1>4. ASSUME NEW k \in 0 .. n PROVE Go(q, h, U[k], U[k + 1])
  <2>1. CASE k = n
    BY <1>1, <1>2, <2>1
  <2>2. CASE k # n
    <3>1. k \in 0 .. n - 1 /\ k + 1 \in 0 .. n
      BY <1>1, <2>2
    <3>2. U[k] = T[k] /\ U[k + 1] = T[k + 1]
      BY <1>2, <3>1
    <3>3. Go(q, h, T[k], T[k + 1])
      BY <1>1, <3>1 DEF Carries
    <3> QED
      BY <3>2, <3>3
  <2> QED
    BY <2>1, <2>2
<1>5. n + 1 \in Nat /\ 0 .. (n + 1) - 1 = 0 .. n
  BY <1>1
<1>6. \A k \in 0 .. (n + 1) - 1 : Go(q, h, U[k], U[k + 1])
  BY <1>4, <1>5
<1>7. Trace(q, h, n + 1, U)
  BY <1>2, <1>3, <1>5, <1>6 DEF Trace
<1> QED
  BY <1>2, <1>7

LEMMA YSpot ==
  ASSUME NEW b \in Seq(Byte), NEW i \in Nat, NEW s \in Nat
  PROVE  YAt(s, i, b) \in Spot
BY DEF YAt, Spot

LEMMA NonceSpot ==
  ASSUME NEW b \in Seq(Byte), NEW i \in Nat
  PROVE  NonceAt(i, b) \in Spot
BY DEF NonceAt, Spot

LEMMA RunSpotType ==
  ASSUME NEW b \in Seq(Byte), NEW c \in Nat, NEW kind \in {"sub", "field"}
  PROVE  RunAt(c, kind, b) \in Spot
BY DEF RunAt, Spot

LEMMA EltsSpot ==
  ASSUME NEW b \in Seq(Byte), NEW i \in Nat, NEW c \in Nat, NEW l \in Nat,
         NEW kind \in {"sub", "field"}
  PROVE  EltsAt(c, kind, l, i, b) \in Spot
BY DEF EltsAt, Spot

LEMMA PathSpotType ==
  ASSUME NEW b \in Seq(Byte), NEW i \in Nat, NEW l \in Nat
  PROVE  PathAt(l, i, b) \in Spot
BY DEF PathAt, Spot

\* What is known of a proof grows: vectors get longer, elements stay.
Grows(s, r) == Len(s) <= Len(r) /\ \A x \in 1 .. Len(s) : r[x] = s[x]

Extends(g, h) ==
  /\ g \in ProofType /\ h \in ProofType
  /\ \A s \in 1 .. 4 : Grows(g.y[s], h.y[s])
  /\ Grows(g.nonce, h.nonce) /\ Grows(g.req, h.req) /\ Grows(g.path, h.path)

LEMMA GrowsAppend ==
  ASSUME NEW s \in Seq(Nat), NEW v \in Nat
  PROVE  Grows(s, s) /\ Grows(s, Append(s, v))
BY DEF Grows

LEMMA AppendLast ==
  ASSUME NEW s \in Seq(Nat), NEW v \in Nat, NEW k, Len(s) = k
  PROVE  /\ Append(s, v) \in Seq(Nat) /\ Len(Append(s, v)) = k + 1
         /\ Append(s, v)[k + 1] = v
OBVIOUS

LEMMA GrowsAt ==
  ASSUME NEW s \in Seq(Nat), NEW r \in Seq(Nat), Grows(s, r), NEW k \in Nat, k < Len(s)
  PROVE  k < Len(r) /\ r[k + 1] = s[k + 1]
BY DEF Grows

\* Elements that follow agree with the runs found: what a step of the path
\* that starts a run says of the elements past those known so far.
Fits(g, h, t, u) ==
  \A x \in Len(g.req) + 1 .. Len(h.req) :
    /\ x \in t.ci + 1 .. t.ci + u.len => EltKind(h.req[x]) = t.kind
    /\ x = t.ci + u.len + 1 => EltKind(h.req[x]) # t.kind

LEMMA GoGrows ==
  ASSUME NEW q, NEW g, NEW h, Extends(g, h), NEW t \in Spot, NEW u \in Spot,
         Go(q, g, t, u), u.at = "elts" /\ t.at = "run" => Fits(g, h, t, u)
  PROVE  Go(q, h, t, u)
<1>1. /\ t.j \in Nat /\ t.ci \in Nat /\ t.len \in Nat /\ u.len \in Nat
  BY DEF Spot
<1>2. g.req \in Seq(Nat) /\ h.req \in Seq(Nat) /\ Grows(g.req, h.req)
  BY DEF Extends, ProofType
<1>3. CASE GoY(q, g, t, u)
  <2>1. t.sec \in 1 .. 4 /\ t.j < Len(g.y[t.sec])
    BY <1>3 DEF GoY
  <2>4. g.y[t.sec] \in Seq(Nat) /\ h.y[t.sec] \in Seq(Nat) /\ Grows(g.y[t.sec], h.y[t.sec])
    BY <2>1 DEF Extends, ProofType
  <2>2. t.j < Len(h.y[t.sec]) /\ h.y[t.sec][t.j + 1] = g.y[t.sec][t.j + 1]
    <3>1. t.j \in Nat
      BY <1>1
    <3> QED
      BY <2>1, <2>4, <3>1, GrowsAt, Zenon
  <2>3. GoY(q, h, t, u)
    BY <1>3, <2>2 DEF GoY
  <2> QED
    BY <2>3 DEF Go
<1>4. CASE GoNonce(q, g, t, u)
  <2>3. g.nonce \in Seq(Nat) /\ h.nonce \in Seq(Nat) /\ Grows(g.nonce, h.nonce)
    BY DEF Extends, ProofType
  <2>4. t.j < Len(g.nonce)
    BY <1>4 DEF GoNonce
  <2>5. t.j \in Nat
    BY <1>1
  <2>1. t.j < Len(h.nonce) /\ h.nonce[t.j + 1] = g.nonce[t.j + 1]
    BY <2>3, <2>4, <2>5, GrowsAt, Zenon
  <2>2. GoNonce(q, h, t, u)
    BY <1>4, <2>1 DEF GoNonce
  <2> QED
    BY <2>2 DEF Go
<1>5. CASE GoRun(q, g, t, u)
  <2>1. t.at = "run" /\ u.at = "elts"
    BY <1>5 DEF GoRun, EltsAt
  <2>2. Fits(g, h, t, u)
    BY <2>1
  <2>3. ASSUME NEW x \in 1 .. Len(h.req), x <= Len(g.req)
        PROVE  h.req[x] = g.req[x]
    BY <1>2, <2>3 DEF Grows
  <2>4. ASSUME NEW x \in t.ci + 1 .. t.ci + u.len, x <= Len(h.req)
        PROVE  EltKind(h.req[x]) = t.kind
    <3>0. Len(g.req) \in Nat /\ Len(h.req) \in Nat
      BY <1>2
    <3>1. Len(g.req) \in Nat /\ Len(h.req) \in Nat /\ x \in 1 .. Len(h.req)
      BY <1>1, <2>4, <3>0
    <3>2. CASE x <= Len(g.req)
      <4>1. h.req[x] = g.req[x]
        BY <2>3, <3>1, <3>2
      <4>2. EltKind(g.req[x]) = t.kind
        BY <1>5, <3>2 DEF GoRun
      <4> QED
        BY <4>1, <4>2
    <3>3. CASE ~(x <= Len(g.req))
      <4>1. x \in Len(g.req) + 1 .. Len(h.req)
        BY <3>1, <3>3
      <4> QED
        BY <2>2, <4>1 DEF Fits
    <3> QED
      BY <3>2, <3>3
  <2>5. ASSUME t.ci + u.len < Len(h.req)
        PROVE  EltKind(h.req[t.ci + u.len + 1]) # t.kind
    <3> DEFINE x == t.ci + u.len + 1
    <3>0. Len(g.req) \in Nat /\ Len(h.req) \in Nat
      BY <1>2
    <3>1. /\ Len(g.req) \in Nat /\ Len(h.req) \in Nat /\ x \in 1 .. Len(h.req)
      BY <1>1, <2>5, <3>0
    <3>2. CASE x <= Len(g.req)
      <4>1. h.req[x] = g.req[x]
        BY <2>3, <3>1, <3>2
      <4>2. t.ci + u.len < Len(g.req)
        BY <1>1, <3>1, <3>2
      <4>3. EltKind(g.req[x]) # t.kind
        BY <1>5, <4>2 DEF GoRun
      <4> QED
        BY <4>1, <4>3
    <3>3. CASE ~(x <= Len(g.req))
      <4>1. x \in Len(g.req) + 1 .. Len(h.req)
        BY <3>1, <3>3
      <4> QED
        BY <2>2, <4>1 DEF Fits
    <3> QED
      BY <3>2, <3>3
  <2>6. GoRun(q, h, t, u)
    BY <1>5, <2>4, <2>5 DEF GoRun
  <2> QED
    BY <2>6 DEF Go
<1>6. CASE GoElt(g, t, u)
  <2>1. t.ci + t.j \in Nat /\ t.ci + t.j < Len(g.req)
    BY <1>1, <1>6 DEF GoElt
  <2>2. t.ci + t.j < Len(h.req) /\ h.req[t.ci + t.j + 1] = g.req[t.ci + t.j + 1]
    BY <1>2, <2>1, GrowsAt, Zenon
  <2>3. GoElt(h, t, u)
    BY <1>6, <2>2 DEF GoElt
  <2> QED
    BY <2>3 DEF Go
<1>7. CASE GoPath(g, t, u)
  <2>3. g.path \in Seq(Nat) /\ h.path \in Seq(Nat) /\ Grows(g.path, h.path)
    BY DEF Extends, ProofType
  <2>4. t.j < Len(g.path)
    BY <1>7 DEF GoPath
  <2>5. t.j \in Nat
    BY <1>1
  <2>1. t.j < Len(h.path) /\ h.path[t.j + 1] = g.path[t.j + 1]
    BY <2>3, <2>4, <2>5, GrowsAt, Zenon
  <2>2. GoPath(h, t, u)
    BY <1>7, <2>1 DEF GoPath
  <2> QED
    BY <2>2 DEF Go
<1>8. CASE GoSection(q, t, u) \/ GoStart(q, t, u) \/ GoEnd(t, u) \/ GoPathLen(q, t, u)
  BY <1>8 DEF Go
<1> QED
  BY <1>3, <1>4, <1>5, <1>6, <1>7, <1>8 DEF Go

(***************************************************************************)
(* The reader follows such a path, whatever the bytes: it stands at its    *)
(* last spot, with the bytes it has consumed for those written.            *)
(***************************************************************************)
Here(t) ==
  /\ pc = "y" => t = YAt(sec, j, consumed)
  /\ pc = "nonce" => t = NonceAt(j, consumed)
  /\ pc \in {"run", "path_len"} => t = RunAt(ci, Kind(subfield_run), consumed)
  /\ pc = "elts" => t = EltsAt(ci, Kind(subfield_run), runlen, j, consumed)
  /\ pc = "path" => t = PathAt(runlen, j, consumed)

\* A run that ends before the current one; if it ends where the current one
\* starts, it is of the other kind.
Past(t) ==
  /\ t.ci + t.len <= ci
  /\ t.ci + t.len = ci => t.kind # Kind(subfield_run)

\* A spot in a run is in a past run or in the current one, and an empty run
\* is the first.
RunSpot(t) ==
  t.at = "elts" =>
    /\ pc \notin {"y", "nonce"}
    /\ pc = "run" => ~first_run /\ Past(t)
    /\ pc = "elts" => \/ t.ci = ci /\ t.kind = Kind(subfield_run) /\ t.len = runlen
                      \/ runlen > 0 /\ Past(t)

PathSpot(t) == t.at = "path" => pc = "path" /\ t.len = runlen

Follows(n, T) ==
  /\ Trace(geom, got, n, T) /\ Here(T[n])
  /\ \A k \in 0 .. n : RunSpot(T[k]) /\ PathSpot(T[k])

CRead ==
  input = "any" /\ side = "read" =>
    /\ out = <<>> /\ pc # "done" /\ (pc = "path_len" => ci >= Total)
    /\ pc # "rejected" => \E n, T : Follows(n, T)

LEMMA Followed ==
  ASSUME NEW n, NEW T, Trace(geom, got, n, T), geom' = geom, Extends(got, got'),
         NEW u \in Spot, Go(geom, got', T[n], u), Here(u)', RunSpot(u)', PathSpot(u)',
         \A k \in 0 .. n : RunSpot(T[k])' /\ PathSpot(T[k])',
         \A k \in 0 .. n - 1 :
           T[k + 1].at = "elts" /\ T[k].at = "run" => Fits(got, got', T[k], T[k + 1])
  PROVE  \E m, U : Follows(m, U)'
<1>1. PICK h : h = got'
  OBVIOUS
<1>2. n \in Nat /\ T \in [Nat -> Spot]
  BY DEF Trace
<1>3. Carries(geom, got, h, n, T)
  <2> SUFFICES ASSUME NEW k \in 0 .. n - 1, Go(geom, got, T[k], T[k + 1])
               PROVE  Go(geom, h, T[k], T[k + 1])
    BY DEF Carries
  <2>1. T[k] \in Spot /\ T[k + 1] \in Spot
    BY <1>2
  <2>2. Extends(got, h)
    BY <1>1
  <2>3. T[k + 1].at = "elts" /\ T[k].at = "run" => Fits(got, h, T[k], T[k + 1])
    BY <1>1
  <2> QED
    BY <2>1, <2>2, <2>3, GoGrows
<1>4. Go(geom, h, T[n], u)
  BY <1>1
<1>5. PICK U : /\ Trace(geom, h, n + 1, U) /\ U[n + 1] = u
               /\ \A k \in 0 .. n : U[k] = T[k]
  <2>1. Trace(geom, got, n, T) /\ u \in Spot
    OBVIOUS
  <2> QED
    BY <1>3, <1>4, <2>1, TraceGrows
<1>6. Trace(geom, got, n + 1, U)'
  BY <1>1, <1>5
<1>7. Here(U[n + 1])'
  BY <1>5 DEF Here
<1>8. \A k \in 0 .. n + 1 : RunSpot(U[k])' /\ PathSpot(U[k])'
  <2> SUFFICES ASSUME NEW k \in 0 .. n + 1 PROVE RunSpot(U[k])' /\ PathSpot(U[k])'
    OBVIOUS
  <2>1. CASE k = n + 1
    <3>1. U[k] = u
      BY <1>5, <2>1
    <3>2. RunSpot(U[k])'
      BY <3>1 DEF RunSpot, Past
    <3>3. PathSpot(U[k])'
      BY <3>1 DEF PathSpot
    <3> QED
      BY <3>2, <3>3
  <2>2. CASE k # n + 1
    <3>0. k \in 0 .. n
      BY <1>2, <2>2
    <3>1. U[k] = T[k] /\ RunSpot(T[k])' /\ PathSpot(T[k])'
      BY <1>5, <3>0
    <3>2. RunSpot(U[k])'
      BY <3>1 DEF RunSpot, Past
    <3>3. PathSpot(U[k])'
      BY <3>1 DEF PathSpot
    <3> QED
      BY <3>2, <3>3
  <2> QED
    BY <2>1, <2>2
<1> QED
  BY <1>6, <1>7, <1>8 DEF Follows

LEMMA GeomLengths ==
  /\ \A s : YL(geom, s) = YLen(s)
  /\ Tot(geom) = Total
BY DEF YL, YLen, Tot, Total

LEMMA Same ==
  ASSUME NEW g \in ProofType
  PROVE  Extends(g, g)
<1>1. /\ \A s \in 1 .. 4 : g.y[s] \in Seq(Nat)
      /\ g.nonce \in Seq(Nat) /\ g.req \in Seq(Nat) /\ g.path \in Seq(Nat)
  BY DEF ProofType
<1>2. \A s \in Seq(Nat) : Grows(s, s)
  BY DEF Grows
<1> QED
  BY <1>1, <1>2 DEF Extends

LEMMA FitsSame ==
  ASSUME NEW g \in ProofType, NEW h, Len(h.req) = Len(g.req), NEW t, NEW u
  PROVE  Fits(g, h, t, u)
<1>1. Len(g.req) \in Nat
  BY DEF ProofType
<1> QED
  BY <1>1 DEF Fits

\* Facts of a step of the reader that reads a chunk, in a behaviour whose
\* bytes are arbitrary.
LEMMA Chunk ==
  ASSUME TInv, NEW section, NEW c \in Chunks(Width), Take(section, c)
  PROVE  /\ side = "read" /\ pc = section /\ UNCHANGED <<input, geom, side, proof, out>>
         /\ Value(c) \in Nat /\ Bytes(Value(c), Width) = c
         /\ consumed' = consumed \o c /\ consumed \in Seq(Byte) /\ consumed' \in Seq(Byte)
         /\ c \in [1 .. Width -> Byte] /\ MoreToRead /\ Accepts(c)
<1>1. /\ Width \in Nat /\ c \in [1 .. Width -> Byte] /\ Taking(section)
  BY TakeFacts
<1>2. Value(c) \in Nat /\ Bytes(Value(c), Width) = c
  BY <1>1, BytesOfValue
<1>3. consumed \in Seq(Byte) /\ consumed' \in Seq(Byte)
  BY <1>1, TypeParts DEF TInv, Taking
<1> QED
  BY <1>1, <1>2, <1>3 DEF Take, Reading

LEMMA ReadYFollows ==
  ASSUME TInv, NEW n, NEW T, Follows(n, T), NEW c \in Chunks(Width), ReadY(c)
  PROVE  \E m, U : Follows(m, U)'
<1>1. Take("y", c)
  BY DEF ReadY
<1>2. /\ side = "read" /\ pc = "y" /\ UNCHANGED <<input, geom, side, proof, out>>
      /\ Value(c) \in Nat /\ Bytes(Value(c), Width) = c
      /\ consumed' = consumed \o c /\ consumed \in Seq(Byte) /\ consumed' \in Seq(Byte)
      /\ MoreToRead
  BY <1>1, Chunk
<1>3. Width = FieldBytes /\ pc' = "y" /\ sec' = sec /\ j' = j + 1
  BY <1>2 DEF Width, ReadY
<1>4. /\ got \in ProofType /\ sec \in 1 .. 4 /\ j \in Nat /\ j < YLen(sec)
      /\ Len(got.y[sec]) = j
  <2>1. GotOK /\ CtrOK /\ ReadShape
    BY TypeParts DEF TInv
  <2>2. sec \in 1 .. 4 /\ j \in Nat /\ j < YLen(sec) /\ YTo(sec, j)
    BY <1>2, <2>1 DEF CtrOK, MoreToRead, ReadShape
  <2> QED
    BY <2>1, <2>2 DEF GotOK, YTo
<1> DEFINE e == Append(got.y[sec], Value(c))
<1>5. /\ got.y \in [1 .. 4 -> Seq(Nat)] /\ got.nonce \in Seq(Nat) /\ got.req \in Seq(Nat)
      /\ got.path \in Seq(Nat) /\ got.y[sec] \in Seq(Nat)
  BY <1>4 DEF ProofType
<1>6. e \in Seq(Nat) /\ Len(e) = j + 1 /\ e[j + 1] = Value(c) /\ Grows(got.y[sec], e)
  <2>1. got.y[sec] \in Seq(Nat) /\ Value(c) \in Nat /\ Len(got.y[sec]) = j
    BY <1>2, <1>4, <1>5
  <2> QED
    BY <2>1, AppendLast, GrowsAppend
<1>7. got' = [got EXCEPT !.y = [got.y EXCEPT ![sec] = e]]
  BY <1>4 DEF ReadY, ProofType
<1> HIDE DEF e
<1>8. /\ got'.y = [got.y EXCEPT ![sec] = e] /\ got'.nonce = got.nonce
      /\ got'.req = got.req /\ got'.path = got.path /\ got' \in ProofType
  BY <1>4, <1>5, <1>6, <1>7 DEF ProofType
<1>9. \A s \in 1 .. 4 : got'.y[s] = IF s = sec THEN e ELSE got.y[s]
  BY <1>5, <1>8
<1>10. Extends(got, got')
  <2>1. \A s \in 1 .. 4 : Grows(got.y[s], got'.y[s])
    <3> SUFFICES ASSUME NEW s \in 1 .. 4 PROVE Grows(got.y[s], got'.y[s])
      OBVIOUS
    <3>1. CASE s = sec
      BY <1>6, <1>9, <3>1
    <3>2. CASE s # sec
      BY <1>5, <1>9, <3>2, GrowsAppend
    <3> QED
      BY <3>1, <3>2
  <2>2. Grows(got.nonce, got.nonce) /\ Grows(got.req, got.req) /\ Grows(got.path, got.path)
    BY <1>5, GrowsAppend
  <2> QED
    BY <1>4, <1>8, <2>1, <2>2 DEF Extends
<1>0. PICK u : u = YAt(sec, j + 1, consumed \o c)
  OBVIOUS
<1>11. Trace(geom, got, n, T) /\ T[n] = YAt(sec, j, consumed)
  BY <1>2 DEF Follows, Here
<1>12. u \in Spot
  <2>1. consumed \o c \in Seq(Byte) /\ j + 1 \in Nat /\ sec \in Nat
    BY <1>2, <1>4
  <2> QED
    BY <1>0, <2>1, YSpot
<1>13. GoY(geom, got', T[n], u)
  <2>1. got'.y[sec] = e
    BY <1>4, <1>9
  <2>2. T[n].at = "y" /\ T[n].sec = sec /\ T[n].j = j /\ T[n].bytes = consumed
    BY <1>11 DEF YAt
  <2>3. j < YL(geom, sec) /\ j < Len(e)
    BY <1>4, <1>6, GeomLengths
  <2>4. u = YAt(sec, j + 1, consumed \o Bytes(e[j + 1], FieldBytes))
    BY <1>0, <1>2, <1>3, <1>6
  <2> QED
    BY <1>4, <2>1, <2>2, <2>3, <2>4 DEF GoY
<1>14. Here(u)' /\ RunSpot(u)' /\ PathSpot(u)'
  BY <1>0, <1>2, <1>3 DEF Here, RunSpot, PathSpot, YAt
<1>15. \A k \in 0 .. n : RunSpot(T[k])' /\ PathSpot(T[k])'
  BY <1>2, <1>3 DEF Follows, RunSpot, PathSpot
<1>16. \A k : Fits(got, got', T[k], T[k + 1])
  BY <1>4, <1>8, FitsSame
<1>17. Go(geom, got', T[n], u)
  BY <1>13 DEF Go
<1> QED
  BY <1>2, <1>10, <1>11, <1>12, <1>14, <1>15, <1>16, <1>17, Followed

LEMMA ReadNonceFollows ==
  ASSUME TInv, NEW n, NEW T, Follows(n, T), NEW c \in Chunks(Width), ReadNonce(c)
  PROVE  \E m, U : Follows(m, U)'
<1>1. Take("nonce", c)
  BY DEF ReadNonce
<1>2. /\ side = "read" /\ pc = "nonce" /\ UNCHANGED <<input, geom, side, proof, out>>
      /\ Value(c) \in Nat /\ Bytes(Value(c), Width) = c
      /\ consumed' = consumed \o c /\ consumed \in Seq(Byte) /\ consumed' \in Seq(Byte)
      /\ MoreToRead
  BY <1>1, Chunk
<1>3. Width = DigestBytes /\ pc' = "nonce" /\ runlen' = runlen /\ j' = j + 1
  BY <1>2 DEF Width, ReadNonce
<1>4. /\ got \in ProofType /\ j \in Nat /\ j < geom.nreq /\ Len(got.nonce) = j /\ runlen \in Nat
  <2>1. GotOK /\ CtrOK /\ ReadShape
    BY TypeParts DEF TInv
  <2> QED
    BY <1>2, <2>1 DEF GotOK, CtrOK, MoreToRead, ReadShape
<1> DEFINE e == Append(got.nonce, Value(c))
<1>5. /\ \A s \in 1 .. 4 : got.y[s] \in Seq(Nat)
      /\ got.nonce \in Seq(Nat) /\ got.req \in Seq(Nat) /\ got.path \in Seq(Nat)
  BY <1>4 DEF ProofType
<1>6. e \in Seq(Nat) /\ Len(e) = j + 1 /\ e[j + 1] = Value(c) /\ Grows(got.nonce, e)
  <2>1. got.nonce \in Seq(Nat) /\ Value(c) \in Nat /\ Len(got.nonce) = j
    BY <1>2, <1>4, <1>5
  <2> QED
    BY <2>1, AppendLast, GrowsAppend
<1>7. got' = [got EXCEPT !.nonce = e]
  BY <1>4 DEF ReadNonce, ProofType
<1> HIDE DEF e
<1>8. /\ got'.nonce = e /\ got'.y = got.y /\ got'.path = got.path
      /\ got'.req = got.req /\ got' \in ProofType
  BY <1>4, <1>6, <1>7 DEF ProofType
<1>9. Extends(got, got')
  <2>1. \A s \in 1 .. 4 : Grows(got.y[s], got.y[s])
    BY <1>5, GrowsAppend
  <2>2. Grows(got.nonce, got.nonce) /\ Grows(got.req, got.req) /\ Grows(got.path, got.path)
    BY <1>5, GrowsAppend
  <2> QED
    BY <1>4, <1>6, <1>8, <2>1, <2>2 DEF Extends
<1>10. PICK u : u = NonceAt(j + 1, consumed \o c)
  OBVIOUS
<1>11. Trace(geom, got, n, T) /\ T[n] = NonceAt(j, consumed)
  BY <1>2 DEF Follows, Here
<1>12. u \in Spot
  <2>1. consumed \o c \in Seq(Byte) /\ j + 1 \in Nat
    BY <1>2, <1>4
  <2> QED
    BY <1>4, <1>10, <2>1, NonceSpot
<1>13. GoNonce(geom, got', T[n], u)
  <2>1. /\ T[n].at = "nonce" /\ T[n].j = j /\ T[n].bytes = consumed
    BY <1>11 DEF NonceAt
  <2>2. j < Len(e)
    BY <1>4, <1>6
  <2>3. u = NonceAt(j + 1, consumed \o Bytes(e[j + 1], DigestBytes))
    BY <1>2, <1>3, <1>6, <1>10
  <2> QED
    BY <1>4, <1>8, <2>1, <2>2, <2>3 DEF GoNonce
<1>14. Here(u)' /\ RunSpot(u)' /\ PathSpot(u)'
  BY <1>2, <1>3, <1>10 DEF Here, RunSpot, PathSpot, NonceAt
<1>15. \A k \in 0 .. n : RunSpot(T[k])' /\ PathSpot(T[k])'
  BY <1>2, <1>3 DEF Follows, RunSpot, PathSpot
<1>16. \A k : Fits(got, got', T[k], T[k + 1])
  BY <1>4, <1>8, FitsSame
<1>17. Go(geom, got', T[n], u)
  BY <1>13 DEF Go
<1> QED
  BY <1>2, <1>9, <1>11, <1>12, <1>14, <1>15, <1>16, <1>17, Followed

LEMMA ReadDigestFollows ==
  ASSUME TInv, NEW n, NEW T, Follows(n, T), NEW c \in Chunks(Width), ReadDigest(c)
  PROVE  \E m, U : Follows(m, U)'
<1>1. Take("path", c)
  BY DEF ReadDigest
<1>2. /\ side = "read" /\ pc = "path" /\ UNCHANGED <<input, geom, side, proof, out>>
      /\ Value(c) \in Nat /\ Bytes(Value(c), Width) = c
      /\ consumed' = consumed \o c /\ consumed \in Seq(Byte) /\ consumed' \in Seq(Byte)
      /\ MoreToRead
  BY <1>1, Chunk
<1>3. Width = DigestBytes /\ pc' = "path" /\ runlen' = runlen /\ j' = j + 1
  BY <1>2 DEF Width, ReadDigest
<1>4. /\ got \in ProofType /\ j \in Nat /\ j < runlen /\ Len(got.path) = j /\ runlen \in Nat
  <2>1. GotOK /\ CtrOK /\ ReadShape
    BY TypeParts DEF TInv
  <2> QED
    BY <1>2, <2>1 DEF GotOK, CtrOK, MoreToRead, ReadShape
<1> DEFINE e == Append(got.path, Value(c))
<1>5. /\ \A s \in 1 .. 4 : got.y[s] \in Seq(Nat)
      /\ got.nonce \in Seq(Nat) /\ got.req \in Seq(Nat) /\ got.path \in Seq(Nat)
  BY <1>4 DEF ProofType
<1>6. e \in Seq(Nat) /\ Len(e) = j + 1 /\ e[j + 1] = Value(c) /\ Grows(got.path, e)
  <2>1. got.path \in Seq(Nat) /\ Value(c) \in Nat /\ Len(got.path) = j
    BY <1>2, <1>4, <1>5
  <2> QED
    BY <2>1, AppendLast, GrowsAppend
<1>7. got' = [got EXCEPT !.path = e]
  BY <1>4 DEF ReadDigest, ProofType
<1> HIDE DEF e
<1>8. /\ got'.path = e /\ got'.y = got.y /\ got'.nonce = got.nonce
      /\ got'.req = got.req /\ got' \in ProofType
  BY <1>4, <1>6, <1>7 DEF ProofType
<1>9. Extends(got, got')
  <2>1. \A s \in 1 .. 4 : Grows(got.y[s], got.y[s])
    BY <1>5, GrowsAppend
  <2>2. Grows(got.nonce, got.nonce) /\ Grows(got.req, got.req) /\ Grows(got.path, got.path)
    BY <1>5, GrowsAppend
  <2> QED
    BY <1>4, <1>6, <1>8, <2>1, <2>2 DEF Extends
<1>10. PICK u : u = PathAt(runlen, j + 1, consumed \o c)
  OBVIOUS
<1>11. Trace(geom, got, n, T) /\ T[n] = PathAt(runlen, j, consumed)
  BY <1>2 DEF Follows, Here
<1>12. u \in Spot
  <2>1. consumed \o c \in Seq(Byte) /\ j + 1 \in Nat
    BY <1>2, <1>4
  <2> QED
    BY <1>4, <1>10, <2>1, PathSpotType
<1>13. GoPath(got', T[n], u)
  <2>1. /\ T[n].at = "path" /\ T[n].j = j /\ T[n].bytes = consumed /\ T[n].len = runlen
    BY <1>11 DEF PathAt
  <2>2. j < Len(e)
    BY <1>4, <1>6
  <2>3. u = PathAt(runlen, j + 1, consumed \o Bytes(e[j + 1], DigestBytes))
    BY <1>2, <1>3, <1>6, <1>10
  <2> QED
    BY <1>4, <1>8, <2>1, <2>2, <2>3 DEF GoPath
<1>14. Here(u)' /\ RunSpot(u)' /\ PathSpot(u)'
  BY <1>2, <1>3, <1>10 DEF Here, RunSpot, PathSpot, PathAt
<1>15. \A k \in 0 .. n : RunSpot(T[k])' /\ PathSpot(T[k])'
  BY <1>2, <1>3 DEF Follows, RunSpot, PathSpot
<1>16. \A k : Fits(got, got', T[k], T[k + 1])
  BY <1>4, <1>8, FitsSame
<1>17. Go(geom, got', T[n], u)
  BY <1>13 DEF Go
<1> QED
  BY <1>2, <1>9, <1>11, <1>12, <1>14, <1>15, <1>16, <1>17, Followed

\* A step that takes in no element of the proof.
LEMMA FollowedSame ==
  ASSUME TInv, NEW n, NEW T, Trace(geom, got, n, T), geom' = geom, got' = got,
         NEW u \in Spot, Go(geom, got, T[n], u), Here(u)', RunSpot(u)', PathSpot(u)',
         \A k \in 0 .. n : RunSpot(T[k])' /\ PathSpot(T[k])'
  PROVE  \E m, U : Follows(m, U)'
<1>1. got \in ProofType
  BY DEF TInv, TypeOK
<1>2. Extends(got, got')
  BY <1>1, Same
<1>3. \A k : Fits(got, got', T[k], T[k + 1])
  BY <1>1, FitsSame
<1>4. Go(geom, got', T[n], u)
  OBVIOUS
<1> QED
  BY <1>2, <1>3, <1>4, Followed

LEMMA KindType == \A u : Kind(u) \in {"sub", "field"}
BY DEF Kind

LEMMA ReadRunLenFollows ==
  ASSUME TInv, NEW n, NEW T, Follows(n, T), NEW c \in Chunks(Width), ReadRunLen(c)
  PROVE  \E m, U : Follows(m, U)'
<1>1. Take("run", c)
  BY DEF ReadRunLen
<1>2. /\ side = "read" /\ pc = "run" /\ UNCHANGED <<input, geom, side, proof, out>>
      /\ Value(c) \in Nat /\ Bytes(Value(c), Width) = c
      /\ consumed' = consumed \o c /\ consumed \in Seq(Byte) /\ consumed' \in Seq(Byte)
      /\ MoreToRead /\ Accepts(c) /\ c \in [1 .. Width -> Byte]
  BY <1>1, Chunk
<1>3. /\ Width = SizeBytes /\ pc' = "elts" /\ runlen' = Value(c) /\ j' = 0
      /\ UNCHANGED <<got, sec, ci, subfield_run>> /\ first_run' = FALSE
  BY <1>2 DEF Width, ReadRunLen
<1>4. /\ ci \in Nat /\ Total \in Nat /\ ci < Total /\ Len(got.req) = ci
      /\ ~(Value(c) = 0 /\ ~first_run) /\ ci + Value(c) <= Total
  <2>1. CtrOK /\ ReadShape /\ Total \in Nat
    BY TypeParts, Lengths DEF TInv, TypeOK
  <2> QED
    BY <1>2, <2>1 DEF CtrOK, MoreToRead, ReadShape, Accepts, RunOk
<1>5. Value(c) <= MaxSize
  BY <1>2, <1>3, SizeFits
<1>6. PICK u : u = EltsAt(ci, Kind(subfield_run), Value(c), 0, consumed \o c)
  OBVIOUS
<1>7. Trace(geom, got, n, T) /\ T[n] = RunAt(ci, Kind(subfield_run), consumed)
  BY <1>2 DEF Follows, Here
<1>8. u \in Spot
  <2>1. consumed \o c \in Seq(Byte) /\ 0 \in Nat
    BY <1>2
  <2> QED
    BY <1>2, <1>4, <1>6, <2>1, KindType, EltsSpot
<1>9. GoRun(geom, got, T[n], u)
  <2>1. /\ T[n].at = "run" /\ T[n].ci = ci /\ T[n].kind = Kind(subfield_run)
        /\ T[n].bytes = consumed
    BY <1>7 DEF RunAt
  <2>2. u.len = Value(c)
    BY <1>6 DEF EltsAt
  <2>3. ci < Tot(geom) /\ ci + Value(c) <= Tot(geom)
    BY <1>4, GeomLengths
  <2>4. \A x \in ci + 1 .. ci + Value(c) : ~(x <= Len(got.req))
    BY <1>2, <1>4
  <2>5. ~(ci + Value(c) < Len(got.req))
    BY <1>2, <1>4
  <2>6. u = EltsAt(ci, Kind(subfield_run), u.len, 0, consumed \o Bytes(u.len, SizeBytes))
    BY <1>2, <1>3, <1>6, <2>2
  <2> QED
    BY <1>5, <2>1, <2>2, <2>3, <2>4, <2>5, <2>6 DEF GoRun
<1>10. Go(geom, got, T[n], u)
  BY <1>9 DEF Go
<1>11. Here(u)' /\ RunSpot(u)' /\ PathSpot(u)'
  <2>1. Here(u)'
    BY <1>2, <1>3, <1>6 DEF Here
  <2>2. u.at = "elts" /\ u.ci = ci' /\ u.kind = Kind(subfield_run') /\ u.len = runlen'
    BY <1>3, <1>6 DEF EltsAt
  <2>3. RunSpot(u)' /\ PathSpot(u)'
    BY <1>3, <2>2 DEF RunSpot, PathSpot
  <2> QED
    BY <2>1, <2>3
<1>12. \A k \in 0 .. n : RunSpot(T[k])' /\ PathSpot(T[k])'
  <2> SUFFICES ASSUME NEW k \in 0 .. n PROVE RunSpot(T[k])' /\ PathSpot(T[k])'
    OBVIOUS
  <2>1. RunSpot(T[k]) /\ PathSpot(T[k])
    BY DEF Follows
  <2>2. PathSpot(T[k])'
    BY <1>2, <2>1 DEF PathSpot
  <2>3. CASE T[k].at = "elts"
    <3>1. ~first_run /\ Past(T[k])
      BY <1>2, <2>1, <2>3 DEF RunSpot
    <3>2. runlen' > 0
      BY <1>2, <1>3, <1>4, <3>1
    <3>3. Past(T[k])'
      BY <1>3, <3>1 DEF Past
    <3> QED
      BY <1>3, <2>2, <3>2, <3>3 DEF RunSpot
  <2>4. CASE T[k].at # "elts"
    BY <2>2, <2>4 DEF RunSpot
  <2> QED
    BY <2>3, <2>4
<1> QED
  BY <1>2, <1>3, <1>7, <1>8, <1>10, <1>11, <1>12, FollowedSame

LEMMA ReadPathLenFollows ==
  ASSUME TInv, NEW n, NEW T, Follows(n, T), NEW c \in Chunks(Width), ReadPathLen(c),
         ci >= Total
  PROVE  \E m, U : Follows(m, U)'
<1>1. Take("path_len", c)
  BY DEF ReadPathLen
<1>2. /\ side = "read" /\ pc = "path_len" /\ UNCHANGED <<input, geom, side, proof, out>>
      /\ Value(c) \in Nat /\ Bytes(Value(c), Width) = c
      /\ consumed' = consumed \o c /\ consumed \in Seq(Byte) /\ consumed' \in Seq(Byte)
      /\ c \in [1 .. Width -> Byte]
  BY <1>1, Chunk
<1>3. /\ Width = SizeBytes /\ pc' = "path" /\ runlen' = Value(c) /\ j' = 0
      /\ UNCHANGED <<got, sec, ci, subfield_run, first_run>>
  BY <1>2 DEF Width, ReadPathLen
<1>4. Value(c) <= MaxSize
  BY <1>2, <1>3, SizeFits
<1>5. PICK u : u = PathAt(Value(c), 0, consumed \o c)
  OBVIOUS
<1>6. Trace(geom, got, n, T) /\ T[n] = RunAt(ci, Kind(subfield_run), consumed)
  BY <1>2 DEF Follows, Here
<1>7. u \in Spot
  <2>1. consumed \o c \in Seq(Byte) /\ 0 \in Nat
    BY <1>2
  <2> QED
    BY <1>2, <1>5, <2>1, PathSpotType
<1>8. GoPathLen(geom, T[n], u)
  <2>1. T[n].at = "run" /\ T[n].ci = ci /\ T[n].bytes = consumed
    BY <1>6 DEF RunAt
  <2>2. u.len = Value(c)
    BY <1>5 DEF PathAt
  <2>3. ci >= Tot(geom)
    BY GeomLengths
  <2>4. u = PathAt(u.len, 0, consumed \o Bytes(u.len, SizeBytes))
    BY <1>2, <1>3, <1>5, <2>2
  <2> QED
    BY <1>4, <2>1, <2>2, <2>3, <2>4 DEF GoPathLen
<1>9. Go(geom, got, T[n], u)
  BY <1>8 DEF Go
<1>10. Here(u)' /\ RunSpot(u)' /\ PathSpot(u)'
  <2>1. Here(u)'
    BY <1>2, <1>3, <1>5 DEF Here
  <2>2. u.at = "path" /\ u.len = runlen'
    BY <1>3, <1>5 DEF PathAt
  <2>3. RunSpot(u)' /\ PathSpot(u)'
    BY <1>3, <2>2 DEF RunSpot, PathSpot
  <2> QED
    BY <2>1, <2>3
<1>11. \A k \in 0 .. n : RunSpot(T[k])' /\ PathSpot(T[k])'
  BY <1>2, <1>3 DEF Follows, RunSpot, PathSpot
<1> QED
  BY <1>2, <1>3, <1>6, <1>7, <1>9, <1>10, <1>11, FollowedSame

\* The element read fits the runs so far: it is of the kind of the current
\* run, and not of the kind of a run that ends just before it.
LEMMA EltFits ==
  ASSUME NEW n, NEW T, Follows(n, T), pc = "elts", NEW h, NEW v,
         EltKind(v) = Kind(subfield_run),
         got \in ProofType, j \in Nat, ci \in Nat, runlen \in Nat, j < runlen,
         Len(got.req) = ci + j, Len(h.req) = ci + j + 1, h.req[ci + j + 1] = v,
         NEW k \in 0 .. n - 1, T[k + 1].at = "elts", T[k].at = "run"
  PROVE  Fits(got, h, T[k], T[k + 1])
<1>1. /\ n \in Nat /\ T[k] \in Spot /\ T[k + 1] \in Spot /\ Go(geom, got, T[k], T[k + 1])
      /\ k + 1 \in 0 .. n
  BY DEF Follows, Trace
<1>2. PICK t : t = T[k]
  OBVIOUS
<1>3. PICK u : u = T[k + 1]
  OBVIOUS
<1> SUFFICES Fits(got, h, t, u)
  BY <1>2, <1>3
<1>4. /\ t.ci \in Nat /\ u.ci \in Nat /\ u.len \in Nat /\ t.at = "run" /\ u.at = "elts"
  BY <1>1, <1>2, <1>3 DEF Spot
<1>5. GoRun(geom, got, t, u)
  BY <1>1, <1>2, <1>3, <1>4
     DEF Go, GoY, GoSection, GoNonce, GoStart, GoElt, GoEnd, GoPathLen, GoPath, PathAt
<1>6. u.ci = t.ci /\ u.kind = t.kind
  BY <1>5 DEF GoRun, EltsAt
<1>7. RunSpot(u)
  BY <1>1, <1>3 DEF Follows
<1>8. \/ u.ci = ci /\ u.kind = Kind(subfield_run) /\ u.len = runlen
      \/ Past(u)
  BY <1>4, <1>7 DEF RunSpot
<1>9. \A x \in Len(got.req) + 1 .. Len(h.req) : x = ci + j + 1
  OBVIOUS
<1>10. CASE u.ci = ci /\ u.kind = Kind(subfield_run) /\ u.len = runlen
  <2>1. ci + j + 1 # t.ci + u.len + 1
    BY <1>4, <1>6, <1>10
  <2> QED
    BY <1>6, <1>9, <1>10, <2>1 DEF Fits
<1>11. CASE Past(u)
  <2>1. t.ci + u.len <= ci /\ (t.ci + u.len = ci => t.kind # Kind(subfield_run))
    BY <1>6, <1>11 DEF Past
  <2>2. ci + j + 1 \notin t.ci + 1 .. t.ci + u.len
    BY <1>4, <2>1
  <2>3. ci + j + 1 = t.ci + u.len + 1 => t.ci + u.len = ci
    BY <1>4, <2>1
  <2> QED
    BY <1>9, <2>1, <2>2, <2>3 DEF Fits
<1> QED
  BY <1>8, <1>10, <1>11

\* The bytes of an element that was read are those it is written as, in the
\* run it was read in.
LEMMA EltRead ==
  ASSUME TInv, pc = "elts", NEW c \in [1 .. Width -> Byte], Accepts(c),
         NEW v, v = IF subfield_run THEN Embed[Value(c)] ELSE Value(c)
  PROVE  /\ v \in Nat /\ EltKind(v) = Kind(subfield_run)
         /\ EltCode(Kind(subfield_run), v) = c
<1>1. EltOk(c) /\ subfield_run \in BOOLEAN
  BY DEF Accepts, TInv, TypeOK
<1>2. Width \in Nat
  BY Basics DEF Width
<1>3. Value(c) \in Nat /\ Bytes(Value(c), Width) = c
  BY <1>2, BytesOfValue
<1>4. CASE subfield_run
  <2>1. /\ Value(c) \in DOMAIN Embed /\ Bytes(SubCode(Embed[Value(c)]), SubBytes) = c
    BY <1>1, <1>4 DEF EltOk, SubOk
  <2>2. v = Embed[Value(c)] /\ InSubfield(v) /\ v \in Nat
    BY <1>4, <2>1, CodecAssumption DEF InSubfield
  <2> QED
    BY <1>4, <2>1, <2>2 DEF EltKind, EltCode, Kind
<1>5. CASE ~subfield_run
  <2>1. v = Value(c) /\ ~InSubfield(v) /\ Width = FieldBytes
    BY <1>1, <1>5 DEF EltOk, Width
  <2> QED
    BY <1>3, <1>5, <2>1 DEF EltKind, EltCode, Kind
<1> QED
  BY <1>4, <1>5

LEMMA ReadEltFollows ==
  ASSUME TInv, NEW n, NEW T, Follows(n, T), NEW c \in Chunks(Width), ReadElt(c)
  PROVE  \E m, U : Follows(m, U)'
<1>1. Take("elts", c)
  BY DEF ReadElt
<1>2. /\ side = "read" /\ pc = "elts" /\ UNCHANGED <<input, geom, side, proof, out>>
      /\ consumed' = consumed \o c /\ consumed \in Seq(Byte) /\ consumed' \in Seq(Byte)
      /\ MoreToRead /\ Accepts(c) /\ c \in [1 .. Width -> Byte]
  BY <1>1, Chunk
<1>3. /\ UNCHANGED <<pc, sec, ci, subfield_run, first_run, runlen>> /\ j' = j + 1
  BY DEF ReadElt
<1>4. /\ got \in ProofType /\ j \in Nat /\ j < runlen /\ Len(got.req) = ci + j
      /\ runlen \in Nat /\ ci \in Nat
  <2>1. GotOK /\ CtrOK /\ ReadShape /\ Total \in Nat
    BY TypeParts, Lengths DEF TInv, TypeOK
  <2> QED
    BY <1>2, <2>1 DEF GotOK, CtrOK, MoreToRead, ReadShape
<1>5. PICK v : v = IF subfield_run THEN Embed[Value(c)] ELSE Value(c)
  OBVIOUS
<1>6. /\ v \in Nat /\ EltKind(v) = Kind(subfield_run)
      /\ EltCode(Kind(subfield_run), v) = c
  BY <1>2, <1>5, EltRead
<1> DEFINE e == Append(got.req, v)
<1>7. /\ \A s \in 1 .. 4 : got.y[s] \in Seq(Nat)
      /\ got.nonce \in Seq(Nat) /\ got.req \in Seq(Nat) /\ got.path \in Seq(Nat)
  BY <1>4 DEF ProofType
<1>8. e \in Seq(Nat) /\ Len(e) = ci + j + 1 /\ e[ci + j + 1] = v /\ Grows(got.req, e)
  <2>1. got.req \in Seq(Nat) /\ v \in Nat /\ Len(got.req) = ci + j
    BY <1>4, <1>6, <1>7
  <2> QED
    BY <2>1, AppendLast, GrowsAppend
<1>9. got' = [got EXCEPT !.req = e]
  BY <1>4, <1>5 DEF ReadElt, ProofType
<1> HIDE DEF e
<1>10. /\ got'.req = e /\ got'.y = got.y /\ got'.nonce = got.nonce
       /\ got'.path = got.path /\ got' \in ProofType
  BY <1>4, <1>8, <1>9 DEF ProofType
<1>11. Extends(got, got')
  <2>1. \A s \in 1 .. 4 : Grows(got.y[s], got.y[s])
    BY <1>7, GrowsAppend
  <2>2. Grows(got.nonce, got.nonce) /\ Grows(got.path, got.path)
    BY <1>7, GrowsAppend
  <2> QED
    BY <1>4, <1>8, <1>10, <2>1, <2>2 DEF Extends
<1>12. PICK u : u = EltsAt(ci, Kind(subfield_run), runlen, j + 1, consumed \o c)
  OBVIOUS
<1>13. Trace(geom, got, n, T) /\ T[n] = EltsAt(ci, Kind(subfield_run), runlen, j, consumed)
  BY <1>2 DEF Follows, Here
<1>14. u \in Spot
  <2>1. consumed \o c \in Seq(Byte) /\ j + 1 \in Nat
    BY <1>2, <1>4
  <2> QED
    BY <1>4, <1>12, <2>1, KindType, EltsSpot
<1>15. GoElt(got', T[n], u)
  <2>1. /\ T[n].at = "elts" /\ T[n].j = j /\ T[n].bytes = consumed /\ T[n].len = runlen
        /\ T[n].ci = ci /\ T[n].kind = Kind(subfield_run)
    BY <1>13 DEF EltsAt
  <2>2. ci + j < Len(e)
    BY <1>4, <1>8
  <2>3. u = EltsAt(ci, Kind(subfield_run), runlen, j + 1,
                   consumed \o EltCode(Kind(subfield_run), e[ci + j + 1]))
    BY <1>6, <1>8, <1>12
  <2> QED
    BY <1>4, <1>10, <2>1, <2>2, <2>3 DEF GoElt
<1>16. Here(u)' /\ RunSpot(u)' /\ PathSpot(u)'
  <2>1. Here(u)'
    BY <1>2, <1>3, <1>12 DEF Here
  <2>2. u.at = "elts" /\ u.ci = ci' /\ u.kind = Kind(subfield_run') /\ u.len = runlen'
    BY <1>3, <1>12 DEF EltsAt
  <2>3. RunSpot(u)' /\ PathSpot(u)'
    BY <1>2, <1>3, <2>2 DEF RunSpot, PathSpot
  <2> QED
    BY <2>1, <2>3
<1>17. \A k \in 0 .. n : RunSpot(T[k])' /\ PathSpot(T[k])'
  BY <1>2, <1>3 DEF Follows, RunSpot, PathSpot, Past
<1>18. ASSUME NEW k \in 0 .. n - 1, T[k + 1].at = "elts", T[k].at = "run"
       PROVE  Fits(got, got', T[k], T[k + 1])
  <2>1. Len(got'.req) = ci + j + 1 /\ got'.req[ci + j + 1] = v
    BY <1>8, <1>10
  <2> QED
    BY <1>2, <1>4, <1>6, <1>18, <2>1, EltFits
<1>19. Go(geom, got', T[n], u)
  BY <1>15 DEF Go
<1> QED
  BY <1>2, <1>11, <1>13, <1>14, <1>16, <1>17, <1>18, <1>19, Followed

LEMMA NextSectionFollows ==
  ASSUME TInv, NEW n, NEW T, Follows(n, T), NextSection
  PROVE  \E m, U : Follows(m, U)'
<1>1. /\ UNCHANGED <<geom, got, consumed, ci, subfield_run, first_run, runlen>>
      /\ pc = "y" /\ j = YLen(sec) /\ j' = 0
  BY DEF NextSection
<1>2. CtrOK /\ consumed \in Seq(Byte)
  BY TypeParts DEF TInv
<1>3. /\ sec \in 1 .. 4 /\ sec' \in 1 .. 4
      /\ \/ sec < 4 /\ sec' = sec + 1 /\ pc' = "y"
         \/ ~(sec < 4) /\ pc' = "nonce"
  BY <1>1, <1>2 DEF CtrOK, NextSection
<1>4. PICK u : u = IF sec < 4 THEN YAt(sec + 1, 0, consumed) ELSE NonceAt(0, consumed)
  OBVIOUS
<1>5. Trace(geom, got, n, T) /\ T[n] = YAt(sec, j, consumed)
  BY <1>1 DEF Follows, Here
<1>6. u \in Spot
  <2>1. 0 \in Nat /\ sec + 1 \in Nat
    BY <1>3
  <2> QED
    BY <1>2, <1>4, <2>1, YSpot, NonceSpot
<1>7. GoSection(geom, T[n], u)
  <2>1. T[n].at = "y" /\ T[n].sec = sec /\ T[n].j = j /\ T[n].bytes = consumed
    BY <1>5 DEF YAt
  <2>2. j = YL(geom, sec)
    BY <1>1, GeomLengths
  <2> QED
    BY <1>3, <1>4, <2>1, <2>2 DEF GoSection
<1>8. Go(geom, got, T[n], u)
  BY <1>7 DEF Go
<1>9. Here(u)' /\ RunSpot(u)' /\ PathSpot(u)'
  <2>1. CASE pc' = "y"
    BY <1>1, <1>3, <1>4, <2>1 DEF Here, RunSpot, PathSpot, YAt
  <2>2. CASE pc' = "nonce"
    BY <1>1, <1>3, <1>4, <2>2 DEF Here, RunSpot, PathSpot, NonceAt
  <2> QED
    BY <1>3, <2>1, <2>2
<1>10. \A k \in 0 .. n : RunSpot(T[k])' /\ PathSpot(T[k])'
  BY <1>1 DEF Follows, RunSpot, PathSpot
<1> QED
  BY <1>1, <1>5, <1>6, <1>8, <1>9, <1>10, FollowedSame

LEMMA StartRunsFollows ==
  ASSUME TInv, NEW n, NEW T, Follows(n, T), StartRuns
  PROVE  \E m, U : Follows(m, U)'
<1>1. /\ UNCHANGED <<geom, got, consumed, sec, j>>
      /\ pc = "nonce" /\ j = geom.nreq /\ pc' = "run" /\ ci' = 0
      /\ subfield_run' = FALSE
  BY DEF StartRuns
<1>2. consumed \in Seq(Byte)
  BY TypeParts DEF TInv
<1>3. Kind(subfield_run') = "field"
  BY <1>1 DEF Kind
<1>4. PICK u : u = RunAt(0, "field", consumed)
  OBVIOUS
<1>5. Trace(geom, got, n, T) /\ T[n] = NonceAt(j, consumed)
  BY <1>1 DEF Follows, Here
<1>6. u \in Spot
  <2>1. 0 \in Nat
    OBVIOUS
  <2> QED
    BY <1>2, <1>4, <2>1, RunSpotType
<1>7. GoStart(geom, T[n], u)
  BY <1>1, <1>4, <1>5 DEF GoStart, NonceAt
<1>8. Go(geom, got, T[n], u)
  BY <1>7 DEF Go
<1>9. Here(u)'
  BY <1>1, <1>3, <1>4 DEF Here
<1>10. RunSpot(u)' /\ PathSpot(u)'
  BY <1>4 DEF RunSpot, PathSpot, RunAt
<1>11. \A k \in 0 .. n : RunSpot(T[k])' /\ PathSpot(T[k])'
  BY <1>1 DEF Follows, RunSpot, PathSpot
<1> QED
  BY <1>1, <1>5, <1>6, <1>8, <1>9, <1>10, <1>11, FollowedSame

LEMMA EndRunFollows ==
  ASSUME TInv, side = "read", NEW n, NEW T, Follows(n, T), EndRun
  PROVE  \E m, U : Follows(m, U)'
<1>1. /\ UNCHANGED <<geom, got, consumed, sec, j, first_run, runlen>>
      /\ pc = "elts" /\ j = runlen /\ pc' = "run" /\ ci' = ci + runlen
      /\ subfield_run' = ~subfield_run
  BY DEF EndRun
<1>2. /\ CtrOK /\ consumed \in Seq(Byte) /\ ~first_run /\ Total \in Nat
      /\ subfield_run \in BOOLEAN
  BY <1>1, TypeParts, Lengths DEF TInv, TypeOK, ReadShape
<1>3. /\ Kind(subfield_run') = Other(Kind(subfield_run))
      /\ Kind(subfield_run') # Kind(subfield_run)
  BY <1>1, <1>2 DEF Kind, Other
<1>4. PICK u : u = RunAt(ci + runlen, Other(Kind(subfield_run)), consumed)
  OBVIOUS
<1>5. Trace(geom, got, n, T) /\ T[n] = EltsAt(ci, Kind(subfield_run), runlen, j, consumed)
  BY <1>1 DEF Follows, Here
<1>6. ci \in Nat /\ runlen \in Nat /\ ci + runlen \in Nat
  BY <1>2 DEF CtrOK
<1>7. u \in Spot
  BY <1>2, <1>4, <1>6, RunSpotType DEF Other
<1>8. GoEnd(T[n], u)
  BY <1>1, <1>4, <1>5 DEF GoEnd, EltsAt
<1>9. Go(geom, got, T[n], u)
  BY <1>8 DEF Go
<1>10. Here(u)'
  BY <1>1, <1>3, <1>4 DEF Here
<1>11. RunSpot(u)' /\ PathSpot(u)'
  BY <1>4 DEF RunSpot, PathSpot, RunAt
<1>12. \A k \in 0 .. n : RunSpot(T[k])' /\ PathSpot(T[k])'
  <2> SUFFICES ASSUME NEW k \in 0 .. n PROVE RunSpot(T[k])' /\ PathSpot(T[k])'
    OBVIOUS
  <2>1. RunSpot(T[k]) /\ PathSpot(T[k])
    BY DEF Follows
  <2>2. PathSpot(T[k])'
    BY <1>1, <2>1 DEF PathSpot
  <2>3. CASE T[k].at # "elts"
    BY <2>2, <2>3 DEF RunSpot
  <2>4. CASE T[k].at = "elts"
    <3>1. PICK t : t = T[k]
      OBVIOUS
    <3>2. n \in Nat /\ T \in [Nat -> Spot]
      BY DEF Follows, Trace
    <3>0. t \in Spot
      BY <3>1, <3>2
    <3>3. t.ci \in Nat /\ t.len \in Nat
      BY <3>0 DEF Spot
    <3>4. \/ t.ci = ci /\ t.kind = Kind(subfield_run) /\ t.len = runlen
          \/ runlen > 0 /\ Past(t)
      BY <1>1, <2>1, <2>4, <3>1 DEF RunSpot
    <3>5. t.ci + t.len <= ci' /\ (t.ci + t.len = ci' => t.kind # Kind(subfield_run'))
      <4>1. CASE t.ci = ci /\ t.kind = Kind(subfield_run) /\ t.len = runlen
        BY <1>1, <1>3, <1>6, <4>1
      <4>2. CASE runlen > 0 /\ Past(t)
        BY <1>1, <1>6, <3>3, <4>2 DEF Past
      <4> QED
        BY <3>4, <4>1, <4>2
    <3>6. Past(t)'
      BY <3>5 DEF Past
    <3>7. Past(T[k])'
      BY <3>1, <3>6 DEF Past
    <3> QED
      BY <1>1, <1>2, <2>2, <3>7 DEF RunSpot
  <2> QED
    BY <2>3, <2>4
<1> QED
  BY <1>1, <1>5, <1>7, <1>9, <1>10, <1>11, <1>12, FollowedSame

(***************************************************************************)
(* The writer, given the proof that was read, walks the same path.         *)
(***************************************************************************)
There(t) ==
  /\ pc = "y" => t = YAt(sec, j, out)
  /\ pc = "nonce" => t = NonceAt(j, out)
  /\ pc = "run" => t = RunAt(ci, Kind(subfield_run), out)
  /\ pc = "elts" => t = EltsAt(ci, Kind(subfield_run), runlen, j, out)
  /\ pc = "path" => t = PathAt(Len(proof.path), j, out)

Whole(n, T) ==
  /\ Trace(geom, proof, n, T)
  /\ T[n] = PathAt(Len(proof.path), Len(proof.path), consumed)
  /\ \A k \in 0 .. n : T[k].at = "path" => T[k].len = Len(proof.path)

Walks(n, T) ==
  /\ pc = "start" => out = <<>>
  /\ pc = "done" => out = consumed
  /\ pc \in {"y", "nonce", "run", "elts", "path"} => \E k \in 0 .. n : There(T[k])

CWrite ==
  input = "any" /\ side = "write" =>
    pc # "panicked" /\ \E n, T : Whole(n, T) /\ Walks(n, T)

CInv == TInv /\ CRead /\ CWrite

Sections == {"y", "nonce", "run", "elts", "path"}

\* The path goes on from where the writer is, until its last spot.
LEMMA OnTheWay ==
  ASSUME NEW n, NEW T, Whole(n, T), NEW k \in 0 .. n, There(T[k]), pc \in Sections,
         pc # "path" \/ j # Len(proof.path)
  PROVE  /\ k \in 0 .. n - 1 /\ k + 1 \in 0 .. n /\ T[k] \in Spot /\ T[k + 1] \in Spot
         /\ Go(geom, proof, T[k], T[k + 1])
<1>1. /\ n \in Nat /\ T \in [Nat -> Spot]
      /\ \A i \in 0 .. n - 1 : Go(geom, proof, T[i], T[i + 1])
  BY DEF Whole, Trace
<1>2. k # n
  <2> SUFFICES ASSUME k = n PROVE FALSE
    OBVIOUS
  <2>1. T[k] = PathAt(Len(proof.path), Len(proof.path), consumed)
    BY DEF Whole
  <2>2. T[k].at = "path" /\ T[k].j = Len(proof.path)
    BY <2>1 DEF PathAt
  <2> QED
    BY <2>2 DEF There, Sections, YAt, NonceAt, RunAt, EltsAt, PathAt
<1>3. k \in 0 .. n - 1 /\ k + 1 \in 0 .. n
  BY <1>1, <1>2
<1> QED
  BY <1>1, <1>3

LEMMA WriteYWalks ==
  ASSUME TInv, NEW n, NEW T, Whole(n, T), NEW k \in 0 .. n, There(T[k]), WriteY
  PROVE  There(T[k + 1])' /\ k + 1 \in 0 .. n
<1>1. pc = "y" /\ j < YLen(sec) /\ sec \in 1 .. 4 /\ j \in Nat /\ YLen(sec) \in Nat
  BY Lengths DEF WriteY, Writing, TInv, TypeOK
<1>2. k + 1 \in 0 .. n /\ Go(geom, proof, T[k], T[k + 1])
  BY <1>1, OnTheWay DEF Sections
<1>3. T[k].at = "y" /\ T[k].sec = sec /\ T[k].j = j /\ T[k].bytes = out
  BY <1>1 DEF There, YAt
<1>4. GoY(geom, proof, T[k], T[k + 1])
  <2>1. T[k].j # YL(geom, T[k].sec)
    BY <1>1, <1>3, GeomLengths
  <2> QED
    BY <1>2, <1>3, <2>1
       DEF Go, GoSection, GoNonce, GoStart, GoRun, GoElt, GoEnd, GoPathLen, GoPath
<1>5. T[k + 1] = YAt(sec, j + 1, out \o Bytes(proof.y[sec][j + 1], FieldBytes))
  BY <1>3, <1>4 DEF GoY
<1> QED
  BY <1>1, <1>2, <1>5 DEF There, WriteY, Emit

LEMMA WriteNonceWalks ==
  ASSUME TInv, NEW n, NEW T, Whole(n, T), NEW k \in 0 .. n, There(T[k]), WriteNonce
  PROVE  There(T[k + 1])' /\ k + 1 \in 0 .. n
<1>1. pc = "nonce" /\ j < geom.nreq /\ j \in Nat /\ geom.nreq \in Nat
  BY Lengths DEF WriteNonce, Writing, TInv, TypeOK
<1>2. k + 1 \in 0 .. n /\ Go(geom, proof, T[k], T[k + 1])
  BY <1>1, OnTheWay DEF Sections
<1>3. T[k].at = "nonce" /\ T[k].j = j /\ T[k].bytes = out
  BY <1>1 DEF There, NonceAt
<1>4. GoNonce(geom, proof, T[k], T[k + 1])
  <2>1. T[k].j # geom.nreq
    BY <1>1, <1>3
  <2> QED
    BY <1>2, <1>3, <2>1
       DEF Go, GoY, GoSection, GoStart, GoRun, GoElt, GoEnd, GoPathLen, GoPath
<1>5. T[k + 1] = NonceAt(j + 1, out \o Bytes(proof.nonce[j + 1], DigestBytes))
  BY <1>3, <1>4 DEF GoNonce
<1> QED
  BY <1>1, <1>2, <1>5 DEF There, WriteNonce, Emit

\* There is one longest run.
LEMMA OneRunLen ==
  ASSUME TypeOK, NEW a, NEW b, IsRunLen(a), IsRunLen(b)
  PROVE  a = b
<1>1. Total \in Nat /\ ci \in 0 .. Total /\ a \in 0 .. Total - ci /\ b \in 0 .. Total - ci
  BY Lengths DEF TypeOK, IsRunLen
<1>2. ASSUME NEW x \in 0 .. Total - ci, NEW z \in 0 .. Total - ci, IsRunLen(x), IsRunLen(z)
      PROVE  ~(x < z)
  <2> SUFFICES ASSUME x < z PROVE FALSE
    OBVIOUS
  <2>1. ci + x < Total /\ ci + x + 1 \in ci + 1 .. ci + z
    BY <1>1
  <2>2. InSubfield(proof.req[ci + x + 1]) # subfield_run
    BY <1>2, <2>1 DEF IsRunLen
  <2>3. InSubfield(proof.req[ci + x + 1]) = subfield_run
    BY <1>2, <2>1 DEF IsRunLen, OfKind
  <2> QED
    BY <2>2, <2>3
<1>3. ~(a < b) /\ ~(b < a)
  BY <1>1, <1>2
<1> QED
  BY <1>1, <1>3

LEMMA KindIs ==
  ASSUME NEW e, NEW u \in BOOLEAN
  PROVE  (EltKind(e) = Kind(u)) <=> (InSubfield(e) = u)
<1>1. InSubfield(e) \in BOOLEAN
  BY DEF InSubfield
<1> QED
  BY <1>1 DEF EltKind, Kind

\* At the start of a run the path goes on with the run the writer finds, and
\* its length fits in a size; past the last run, with the length of the path.
LEMMA RunFound ==
  ASSUME TInv, side = "write", NEW n, NEW T, Whole(n, T), NEW k \in 0 .. n, There(T[k]),
         pc = "run", ci < Total
  PROVE  /\ k + 1 \in 0 .. n /\ RunLen <= MaxSize
         /\ T[k + 1] = EltsAt(ci, Kind(subfield_run), RunLen, 0, out \o Bytes(RunLen, SizeBytes))
<1>1. Total \in Nat /\ ci \in 0 .. Total /\ subfield_run \in BOOLEAN /\ TypeOK
  BY Lengths DEF TInv, TypeOK
<1>2. Len(proof.req) = Total
  BY DEF TInv, WriteShape, WellShaped
<1>3. k + 1 \in 0 .. n /\ Go(geom, proof, T[k], T[k + 1]) /\ T[k + 1] \in Spot
  BY OnTheWay DEF Sections
<1>4. /\ T[k].at = "run" /\ T[k].ci = ci /\ T[k].kind = Kind(subfield_run)
      /\ T[k].bytes = out
  BY DEF There, RunAt
<1>5. GoRun(geom, proof, T[k], T[k + 1])
  <2>1. ~(T[k].ci >= Tot(geom))
    BY <1>1, <1>4, GeomLengths
  <2> QED
    BY <1>3, <1>4, <2>1
       DEF Go, GoY, GoSection, GoNonce, GoStart, GoElt, GoEnd, GoPathLen, GoPath
<1>6. PICK l : l = T[k + 1].len
  OBVIOUS
<1>7. /\ l \in Nat /\ l <= MaxSize /\ ci + l <= Total
      /\ \A x \in ci + 1 .. ci + l : x <= Total => EltKind(proof.req[x]) = Kind(subfield_run)
      /\ ci + l < Total => EltKind(proof.req[ci + l + 1]) # Kind(subfield_run)
      /\ T[k + 1] = EltsAt(ci, Kind(subfield_run), l, 0, out \o Bytes(l, SizeBytes))
  <2>1. l \in Nat
    BY <1>3, <1>6 DEF Spot
  <2>2. Tot(geom) = Total
    BY GeomLengths
  <2> QED
    BY <1>2, <1>4, <1>5, <1>6, <2>1, <2>2 DEF GoRun
<1>8. IsRunLen(l)
  <2>1. l \in 0 .. Total - ci
    BY <1>1, <1>7
  <2>2. ASSUME NEW x \in ci + 1 .. ci + l
        PROVE  InSubfield(proof.req[x]) = subfield_run
    <3>1. x <= Total
      BY <1>1, <1>7
    <3>2. EltKind(proof.req[x]) = Kind(subfield_run)
      BY <1>7, <3>1
    <3> QED
      BY <1>1, <3>2, KindIs
  <2>3. ci + l < Total => InSubfield(proof.req[ci + l + 1]) # subfield_run
    BY <1>1, <1>7, KindIs
  <2> QED
    BY <2>1, <2>2, <2>3 DEF IsRunLen, OfKind
<1>9. RunLen = l
  BY <1>1, <1>8, RunLenExists, OneRunLen
<1> QED
  BY <1>3, <1>7, <1>9

LEMMA PathFound ==
  ASSUME TInv, side = "write", NEW n, NEW T, Whole(n, T), NEW k \in 0 .. n, There(T[k]),
         pc = "run", ci >= Total
  PROVE  /\ k + 1 \in 0 .. n /\ Len(proof.path) <= MaxSize
         /\ T[k + 1] = PathAt(Len(proof.path), 0, out \o Bytes(Len(proof.path), SizeBytes))
<1>1. Total \in Nat /\ ci \in 0 .. Total
  BY Lengths DEF TInv, TypeOK
<1>2. k + 1 \in 0 .. n /\ Go(geom, proof, T[k], T[k + 1])
  BY OnTheWay DEF Sections
<1>3. T[k].at = "run" /\ T[k].ci = ci /\ T[k].bytes = out
  BY DEF There, RunAt
<1>4. GoPathLen(geom, T[k], T[k + 1])
  <2>1. ~(T[k].ci < Tot(geom))
    BY <1>1, <1>3, GeomLengths
  <2> QED
    BY <1>2, <1>3, <2>1
       DEF Go, GoY, GoSection, GoNonce, GoStart, GoRun, GoElt, GoEnd, GoPath
<1>5. PICK l : l = T[k + 1].len
  OBVIOUS
<1>6. l <= MaxSize /\ T[k + 1] = PathAt(l, 0, out \o Bytes(l, SizeBytes))
  BY <1>3, <1>4, <1>5 DEF GoPathLen
<1>7. l = Len(proof.path)
  <2>1. T[k + 1].at = "path"
    BY <1>6 DEF PathAt
  <2> QED
    BY <1>2, <1>5, <2>1 DEF Whole
<1> QED
  BY <1>2, <1>6, <1>7

LEMMA WriteEltWalks ==
  ASSUME TInv, NEW n, NEW T, Whole(n, T), NEW k \in 0 .. n, There(T[k]), WriteElt
  PROVE  There(T[k + 1])' /\ k + 1 \in 0 .. n
<1>1. pc = "elts" /\ j < runlen /\ j \in Nat /\ runlen \in Nat /\ subfield_run \in BOOLEAN
  BY DEF WriteElt, Writing, TInv, TypeOK
<1>2. k + 1 \in 0 .. n /\ Go(geom, proof, T[k], T[k + 1])
  BY <1>1, OnTheWay DEF Sections
<1>3. /\ T[k].at = "elts" /\ T[k].j = j /\ T[k].len = runlen /\ T[k].ci = ci
      /\ T[k].kind = Kind(subfield_run) /\ T[k].bytes = out
  BY <1>1 DEF There, EltsAt
<1>4. GoElt(proof, T[k], T[k + 1])
  <2>1. T[k].j # T[k].len
    BY <1>1, <1>3
  <2> QED
    BY <1>2, <1>3, <2>1
       DEF Go, GoY, GoSection, GoNonce, GoStart, GoRun, GoEnd, GoPathLen, GoPath
<1>5. T[k + 1] = EltsAt(ci, Kind(subfield_run), runlen, j + 1,
                        out \o EltCode(Kind(subfield_run), proof.req[ci + j + 1]))
  BY <1>3, <1>4 DEF GoElt
<1>6. out' = out \o EltCode(Kind(subfield_run), proof.req[ci + j + 1])
  BY <1>1 DEF WriteElt, Emit, EltCode, Kind
<1> QED
  BY <1>1, <1>2, <1>5, <1>6 DEF There, WriteElt

LEMMA WriteDigestWalks ==
  ASSUME TInv, NEW n, NEW T, Whole(n, T), NEW k \in 0 .. n, There(T[k]), WriteDigest
  PROVE  There(T[k + 1])' /\ k + 1 \in 0 .. n
<1>1. pc = "path" /\ j < Len(proof.path) /\ j \in Nat /\ Len(proof.path) \in Nat
  BY DEF WriteDigest, Writing, TInv, TypeOK, ProofType
<1>2. k + 1 \in 0 .. n /\ Go(geom, proof, T[k], T[k + 1])
  BY <1>1, OnTheWay DEF Sections
<1>3. T[k].at = "path" /\ T[k].j = j /\ T[k].len = Len(proof.path) /\ T[k].bytes = out
  BY <1>1 DEF There, PathAt
<1>4. GoPath(proof, T[k], T[k + 1])
  BY <1>2, <1>3
     DEF Go, GoY, GoSection, GoNonce, GoStart, GoRun, GoElt, GoEnd, GoPathLen
<1>5. T[k + 1] = PathAt(Len(proof.path), j + 1, out \o Bytes(proof.path[j + 1], DigestBytes))
  BY <1>3, <1>4 DEF GoPath
<1> QED
  BY <1>1, <1>2, <1>5 DEF There, WriteDigest, Emit

LEMMA NextSectionWalks ==
  ASSUME TInv, NEW n, NEW T, Whole(n, T), NEW k \in 0 .. n, There(T[k]), NextSection
  PROVE  There(T[k + 1])' /\ k + 1 \in 0 .. n
<1>1. pc = "y" /\ j = YLen(sec) /\ sec \in 1 .. 4 /\ YLen(sec) \in Nat
  BY Lengths DEF NextSection, TInv, TypeOK
<1>2. k + 1 \in 0 .. n /\ Go(geom, proof, T[k], T[k + 1])
  BY <1>1, OnTheWay DEF Sections
<1>3. T[k].at = "y" /\ T[k].sec = sec /\ T[k].j = j /\ T[k].bytes = out
  BY <1>1 DEF There, YAt
<1>4. GoSection(geom, T[k], T[k + 1])
  <2>1. ~(T[k].j < YL(geom, T[k].sec))
    BY <1>1, <1>3, GeomLengths
  <2> QED
    BY <1>2, <1>3, <2>1
       DEF Go, GoY, GoNonce, GoStart, GoRun, GoElt, GoEnd, GoPathLen, GoPath
<1>5. T[k + 1] = IF sec < 4 THEN YAt(sec + 1, 0, out) ELSE NonceAt(0, out)
  BY <1>3, <1>4 DEF GoSection
<1>6. CASE sec < 4
  BY <1>1, <1>2, <1>5, <1>6 DEF There, NextSection
<1>7. CASE ~(sec < 4)
  BY <1>1, <1>2, <1>5, <1>7 DEF There, NextSection
<1> QED
  BY <1>6, <1>7

LEMMA StartRunsWalks ==
  ASSUME TInv, NEW n, NEW T, Whole(n, T), NEW k \in 0 .. n, There(T[k]), StartRuns
  PROVE  There(T[k + 1])' /\ k + 1 \in 0 .. n
<1>1. pc = "nonce" /\ j = geom.nreq /\ geom.nreq \in Nat
  BY Lengths DEF StartRuns, TInv, TypeOK
<1>2. k + 1 \in 0 .. n /\ Go(geom, proof, T[k], T[k + 1])
  BY <1>1, OnTheWay DEF Sections
<1>3. T[k].at = "nonce" /\ T[k].j = j /\ T[k].bytes = out
  BY <1>1 DEF There, NonceAt
<1>4. GoStart(geom, T[k], T[k + 1])
  <2>1. ~(T[k].j < geom.nreq)
    BY <1>1, <1>3
  <2> QED
    BY <1>2, <1>3, <2>1
       DEF Go, GoY, GoSection, GoNonce, GoRun, GoElt, GoEnd, GoPathLen, GoPath
<1>5. T[k + 1] = RunAt(0, "field", out)
  BY <1>3, <1>4 DEF GoStart
<1> QED
  BY <1>1, <1>2, <1>5 DEF There, StartRuns, Kind

LEMMA EndRunWalks ==
  ASSUME TInv, NEW n, NEW T, Whole(n, T), NEW k \in 0 .. n, There(T[k]), EndRun
  PROVE  There(T[k + 1])' /\ k + 1 \in 0 .. n
<1>1. pc = "elts" /\ j = runlen /\ runlen \in Nat /\ subfield_run \in BOOLEAN
  BY DEF EndRun, TInv, TypeOK
<1>2. k + 1 \in 0 .. n /\ Go(geom, proof, T[k], T[k + 1])
  BY <1>1, OnTheWay DEF Sections
<1>3. /\ T[k].at = "elts" /\ T[k].j = j /\ T[k].len = runlen /\ T[k].ci = ci
      /\ T[k].kind = Kind(subfield_run) /\ T[k].bytes = out
  BY <1>1 DEF There, EltsAt
<1>4. GoEnd(T[k], T[k + 1])
  <2>1. ~(T[k].j < T[k].len)
    BY <1>1, <1>3
  <2> QED
    BY <1>2, <1>3, <2>1
       DEF Go, GoY, GoSection, GoNonce, GoStart, GoRun, GoElt, GoPathLen, GoPath
<1>5. T[k + 1] = RunAt(ci + runlen, Other(Kind(subfield_run)), out)
  BY <1>3, <1>4 DEF GoEnd
<1>6. /\ subfield_run' = ~subfield_run /\ out' = out /\ ci' = ci + runlen /\ pc' = "run"
  BY DEF EndRun
<1>7. Kind(subfield_run') = Other(Kind(subfield_run))
  BY <1>1, <1>6 DEF Kind, Other
<1> QED
  BY <1>2, <1>5, <1>6, <1>7 DEF There

(***************************************************************************)
(* One encoding per proof.                                                 *)
(***************************************************************************)
LEMMA InitCInv == Init => CInv
<1> SUFFICES ASSUME Init PROVE CInv
  OBVIOUS
<1>1. TInv
  BY InitTInv
<1>2. CWrite
  BY DEF CWrite, Init
<1>3. CASE input = "any"
  <2> DEFINE T == [i \in Nat |-> YAt(1, 0, <<>>)]
  <2>1. YAt(1, 0, <<>>) \in Spot
    <3>1. <<>> \in Seq(Byte) /\ 0 \in Nat /\ 1 \in Nat
      OBVIOUS
    <3> QED
      BY <3>1, YSpot
  <2>2. 0 \in Nat /\ T \in [Nat -> Spot] /\ T[0] = YAt(1, 0, <<>>)
    BY <2>1
  <2> HIDE DEF T
  <2>3. Trace(geom, got, 0, T)
    BY <2>2 DEF Trace
  <2>4. pc = "y" /\ sec = 1 /\ j = 0 /\ consumed = <<>> /\ out = <<>>
    BY <1>3 DEF Init
  <2>5. Here(T[0])
    BY <2>2, <2>4 DEF Here
  <2>6. \A k \in 0 .. 0 : RunSpot(T[k]) /\ PathSpot(T[k])
    BY <2>2 DEF RunSpot, PathSpot, YAt
  <2>7. Follows(0, T)
    BY <2>3, <2>5, <2>6 DEF Follows
  <2> QED
    BY <1>1, <1>2, <2>4, <2>7 DEF CInv, CRead
<1>4. CASE input # "any"
  BY <1>1, <1>2, <1>4 DEF CInv, CRead
<1> QED
  BY <1>3, <1>4

LEMMA ReaderFollows ==
  ASSUME CInv, side = "read", side' = "read", [Next]_vars, input = "any"
  PROVE  CRead'
<1>1. TInv /\ CRead /\ input' = input /\ out' = out /\ out = <<>> /\ pc # "done"
  BY DEF CInv, CRead, Next, Write, Read, WriteStart, WriteY, WriteNonce, WriteRunLen,
     WriteElt, WritePathLen, WriteDigest, WritePanics, WriteOk, Writing, ReadY, ReadNonce,
     ReadRunLen, ReadElt, ReadPathLen, ReadDigest, Take, ReadErr, ReadRunsDone, ReadOk,
     NextSection, StartRuns, EndRun, vars
<1>2. CASE UNCHANGED vars
  <2>1. pc = "rejected" \/ \E n, T : Follows(n, T)
    BY <1>1 DEF CRead
  <2>2. ASSUME NEW n, NEW T, Follows(n, T) PROVE Follows(n, T)'
    BY <1>2, <2>2 DEF Follows, vars, Here, RunSpot, PathSpot, Past
  <2>3. pc' = pc /\ (pc' = "path_len" => ci' >= Total')
    BY <1>1, <1>2 DEF CRead, vars, Total
  <2> QED
    BY <1>1, <2>1, <2>2, <2>3 DEF CRead
<1>3. CASE ReadErr
  BY <1>1, <1>3 DEF CRead, ReadErr
<1>4. CASE ReadRunsDone
  <2>1. PICK n, T : Follows(n, T)
    BY <1>1, <1>4 DEF CRead, ReadRunsDone, Reading
  <2>2. Follows(n, T)'
    BY <1>4, <2>1 DEF Follows, ReadRunsDone, Reading, position, Here, RunSpot, PathSpot, Past
  <2>3. pc' = "path_len" /\ ci' >= Total'
    BY <1>4 DEF ReadRunsDone, position, Total
  <2> QED
    BY <1>1, <2>2, <2>3 DEF CRead
<1>5. CASE NextSection \/ StartRuns \/ EndRun
  <2>1. PICK n, T : Follows(n, T)
    BY <1>1, <1>5 DEF CRead, NextSection, StartRuns, EndRun
  <2>2. \E m, U : Follows(m, U)'
    BY <1>1, <1>5, <2>1, NextSectionFollows, StartRunsFollows, EndRunFollows
  <2>3. pc' \in {"y", "nonce", "run"}
    BY <1>5 DEF NextSection, StartRuns, EndRun
  <2> QED
    BY <1>1, <2>2, <2>3 DEF CRead
<1>6. ASSUME NEW c \in Chunks(Width),
             ReadY(c) \/ ReadNonce(c) \/ ReadRunLen(c) \/ ReadElt(c) \/ ReadPathLen(c)
               \/ ReadDigest(c)
      PROVE  CRead'
  <2>1. pc # "rejected" /\ pc' \notin {"done", "path_len", "rejected"}
    BY <1>6 DEF ReadY, ReadNonce, ReadRunLen, ReadElt, ReadPathLen, ReadDigest, Take, Reading
  <2>2. PICK n, T : Follows(n, T)
    BY <1>1, <2>1 DEF CRead
  <2>3. ReadPathLen(c) => ci >= Total
    BY <1>1 DEF CRead, ReadPathLen, Take, Reading
  <2>4. \E m, U : Follows(m, U)'
    BY <1>1, <1>6, <2>2, <2>3, ReadYFollows, ReadNonceFollows, ReadRunLenFollows,
       ReadEltFollows, ReadPathLenFollows, ReadDigestFollows
  <2> QED
    BY <1>1, <2>1, <2>4 DEF CRead
<1>7. CASE ReadOk
  BY <1>7 DEF ReadOk
<1>8. CASE Write
  BY <1>8 DEF Write, WriteStart, WriteY, WriteNonce, WriteRunLen, WriteElt, WritePathLen,
     WriteDigest, WritePanics, WriteOk, Writing
<1> QED
  BY <1>2, <1>3, <1>4, <1>5, <1>6, <1>7, <1>8 DEF Next, Read

LEMMA ReadEnds ==
  ASSUME CInv, ReadOk, input = "any"
  PROVE  CWrite'
<1>1. /\ side = "read" /\ pc = "path" /\ j = runlen /\ side' = "write" /\ pc' = "start"
      /\ proof' = got /\ UNCHANGED <<input, geom, got, out, consumed>>
  BY DEF ReadOk, Reading
<1>2. TInv /\ out = <<>>
  BY <1>1 DEF CInv, CRead
<1>3. PICK n, T : Follows(n, T)
  BY <1>1 DEF CInv, CRead
<1>4. Len(got.path) = j
  BY <1>1, <1>2 DEF TInv, ReadShape
<1>5. /\ Trace(geom, got, n, T) /\ T[n] = PathAt(runlen, j, consumed)
      /\ \A k \in 0 .. n : T[k].at = "path" => T[k].len = runlen
  BY <1>1, <1>3 DEF Follows, Here, PathSpot
<1>6. Whole(n, T)'
  BY <1>1, <1>4, <1>5 DEF Whole
<1>7. Walks(n, T)'
  BY <1>1, <1>2 DEF Walks
<1> QED
  BY <1>1, <1>6, <1>7 DEF CWrite

LEMMA WriterWalks ==
  ASSUME CInv, side = "write", [Next]_vars, input = "any"
  PROVE  CWrite'
<1>1. TInv /\ CWrite
  BY DEF CInv
<1>2. PICK n, T : Whole(n, T) /\ Walks(n, T)
  BY <1>1 DEF CWrite
<1>3. pc # "panicked"
  BY <1>1 DEF CWrite
<1>4. UNCHANGED <<input, geom, proof, consumed>>
  BY DEF Next, Write, Read, WriteStart, WriteY, WriteNonce, WriteRunLen, WriteElt,
     WritePathLen, WriteDigest, WritePanics, WriteOk, Writing, ReadY, ReadNonce,
     ReadRunLen, ReadElt, ReadPathLen, ReadDigest, Take, ReadErr, ReadRunsDone, ReadOk,
     MoreToRead, Reading, NextSection, StartRuns, EndRun, vars
<1>5. Whole(n, T)'
  BY <1>2, <1>4 DEF Whole
<1> SUFFICES pc' # "panicked" /\ Walks(n, T)'
  BY <1>5 DEF CWrite
<1>6. n \in Nat /\ T[0] = YAt(1, 0, <<>>) /\ 0 \in 0 .. n
  BY <1>2 DEF Whole, Trace
<1>7. CASE UNCHANGED vars
  BY <1>2, <1>3, <1>7 DEF Walks, There, vars
<1>8. CASE WriteStart
  <2>1. out = <<>>
    BY <1>2, <1>8 DEF Walks, WriteStart, Writing
  <2>2. There(T[0])'
    BY <1>6, <1>8, <2>1 DEF There, WriteStart
  <2> QED
    BY <1>6, <1>8, <2>2 DEF Walks, WriteStart
<1>9. ASSUME pc \in Sections PROVE \E k \in 0 .. n : There(T[k])
  BY <1>2, <1>9 DEF Walks, Sections
<1>10. ASSUME NEW k \in 0 .. n, There(T[k])', pc' \in Sections
       PROVE  pc' # "panicked" /\ Walks(n, T)'
  BY <1>10 DEF Walks, Sections
<1>11. CASE WriteY \/ WriteNonce \/ WriteElt \/ WriteDigest \/ NextSection \/ StartRuns \/ EndRun
  <2>1. pc \in Sections /\ pc' \in Sections
    BY <1>11 DEF Sections, WriteY, WriteNonce, WriteElt, WriteDigest, NextSection,
       StartRuns, EndRun, Writing
  <2>2. PICK k \in 0 .. n : There(T[k])
    BY <1>9, <2>1
  <2>3. There(T[k + 1])' /\ k + 1 \in 0 .. n
    BY <1>1, <1>2, <1>11, <2>2, WriteYWalks, WriteNonceWalks, WriteEltWalks,
       WriteDigestWalks, NextSectionWalks, StartRunsWalks, EndRunWalks
  <2> QED
    BY <1>10, <2>1, <2>3
<1>12. CASE WriteRunLen
  <2>1. pc = "run" /\ ci < Total
    BY <1>12 DEF WriteRunLen, Writing
  <2>2. PICK k \in 0 .. n : There(T[k])
    BY <1>9, <2>1 DEF Sections
  <2>3. /\ k + 1 \in 0 .. n
        /\ T[k + 1] = EltsAt(ci, Kind(subfield_run), RunLen, 0,
                             out \o Bytes(RunLen, SizeBytes))
    BY <1>1, <1>2, <2>1, <2>2, RunFound
  <2>4. There(T[k + 1])' /\ pc' \in Sections
    BY <1>12, <2>3 DEF There, WriteRunLen, Emit, Sections
  <2> QED
    BY <1>10, <2>3, <2>4
<1>13. CASE WritePathLen
  <2>1. pc = "run" /\ ci >= Total
    BY <1>13 DEF WritePathLen, Writing
  <2>2. PICK k \in 0 .. n : There(T[k])
    BY <1>9, <2>1 DEF Sections
  <2>3. /\ k + 1 \in 0 .. n
        /\ T[k + 1] = PathAt(Len(proof.path), 0, out \o Bytes(Len(proof.path), SizeBytes))
    BY <1>1, <1>2, <2>1, <2>2, PathFound
  <2>4. There(T[k + 1])' /\ pc' \in Sections
    BY <1>13, <2>3 DEF There, WritePathLen, Emit, Sections
  <2> QED
    BY <1>10, <2>3, <2>4
<1>14. CASE WritePanics
  <2>1. WellShaped
    BY <1>1 DEF TInv, WriteShape, WellShaped, YFull
  <2>2. pc = "run"
    BY <1>14, <2>1 DEF WritePanics, Writing
  <2>3. PICK k \in 0 .. n : There(T[k])
    BY <1>9, <2>2 DEF Sections
  <2>4. ci < Total => RunLen <= MaxSize
    BY <1>1, <1>2, <2>2, <2>3, RunFound
  <2>5. ci >= Total => Len(proof.path) <= MaxSize
    BY <1>1, <1>2, <2>2, <2>3, PathFound
  <2>6. RunLen \in Nat /\ MaxSize \in Int /\ Len(proof.path) \in Nat
    <3>1. MaxSize \in Int
      <4>1. SizeBytes \in Nat /\ SizeBytes \in 0 .. SizeBytes
        BY Basics
      <4>2. Powers(SizeBytes) \in [0 .. SizeBytes -> Nat]
        BY <4>1, PowersRec
      <4>3. Powers(SizeBytes)[SizeBytes] \in Nat
        BY <4>1, <4>2
      <4> QED
        BY <4>3 DEF MaxSize
    <3> QED
      BY <1>1, <3>1, RunLenExists DEF TInv, TypeOK, ProofType
  <2> QED
    BY <1>14, <2>1, <2>2, <2>4, <2>5, <2>6 DEF WritePanics
<1>15. CASE WriteOk
  <2>1. pc = "path" /\ j = Len(proof.path) /\ pc' = "done" /\ UNCHANGED <<out, consumed>>
    BY <1>15 DEF WriteOk, Writing
  <2>2. PICK k \in 0 .. n : There(T[k])
    BY <1>9, <2>1 DEF Sections
  <2>3. T[k] = PathAt(Len(proof.path), j, out)
    BY <2>1, <2>2 DEF There
  <2>4. k = n
    <3> SUFFICES ASSUME k # n PROVE FALSE
      OBVIOUS
    <3>1. k \in 0 .. n - 1
      BY <1>6
    <3>2. Go(geom, proof, T[k], T[k + 1])
      BY <1>2, <3>1 DEF Whole, Trace
    <3>3. T[k].at = "path" /\ T[k].j = Len(proof.path) /\ T[k].len = Len(proof.path)
      BY <2>1, <2>3 DEF PathAt
    <3>4. GoPath(proof, T[k], T[k + 1])
      BY <3>2, <3>3
         DEF Go, GoY, GoSection, GoNonce, GoStart, GoRun, GoElt, GoEnd, GoPathLen
    <3>5. Len(proof.path) \in Nat
      BY <1>1 DEF TInv, TypeOK, ProofType
    <3> QED
      BY <3>3, <3>4, <3>5 DEF GoPath
  <2>5. out = consumed
    <3>1. PathAt(Len(proof.path), j, out) = PathAt(Len(proof.path), Len(proof.path), consumed)
      BY <1>2, <2>3, <2>4 DEF Whole
    <3> QED
      BY <3>1 DEF PathAt
  <2> QED
    BY <2>1, <2>5 DEF Walks
<1>16. CASE Read
  BY <1>16 DEF Read, ReadY, ReadNonce, ReadRunLen, ReadElt, ReadPathLen, ReadDigest, Take,
     ReadErr, ReadRunsDone, ReadOk, MoreToRead, Reading
<1> QED
  BY <1>7, <1>8, <1>11, <1>12, <1>13, <1>14, <1>15, <1>16 DEF Next, Write

LEMMA CInductive == CInv /\ [Next]_vars => CInv'
<1> SUFFICES ASSUME CInv, [Next]_vars PROVE CInv'
  OBVIOUS
<1>1. TInv'
  BY TInductive DEF CInv
<1>2. side \in {"write", "read"} /\ side' \in {"write", "read"} /\ input' = input
  <2>1. input' = input
    BY DEF Next, Write, Read, WriteStart, WriteY, WriteNonce, WriteRunLen, WriteElt,
       WritePathLen, WriteDigest, WritePanics, WriteOk, ReadY, ReadNonce, ReadRunLen,
       ReadElt, ReadPathLen, ReadDigest, Take, ReadErr, ReadRunsDone, ReadOk,
       NextSection, StartRuns, EndRun, vars
  <2> QED
    BY <1>1, <2>1 DEF CInv, TInv, TypeOK
<1>3. CASE input # "any"
  BY <1>1, <1>2, <1>3 DEF CInv, CRead, CWrite
<1>4. CASE input = "any" /\ side = "read" /\ side' = "read"
  <2>1. CRead'
    BY <1>4, ReaderFollows
  <2> QED
    BY <1>1, <1>4, <2>1 DEF CInv, CWrite
<1>5. CASE input = "any" /\ side = "read" /\ side' = "write"
  <2>1. ReadOk
    BY <1>5 DEF Next, Write, Read, WriteStart, WriteY, WriteNonce, WriteRunLen, WriteElt,
       WritePathLen, WriteDigest, WritePanics, WriteOk, Writing, ReadY, ReadNonce, ReadRunLen,
       ReadElt, ReadPathLen, ReadDigest, Take, ReadErr, ReadRunsDone,
       NextSection, StartRuns, EndRun, vars
  <2>2. CWrite'
    BY <1>5, <2>1, ReadEnds
  <2> QED
    BY <1>1, <1>5, <2>2 DEF CInv, CRead
<1>6. CASE input = "any" /\ side = "write"
  <2>1. side' = "write"
    BY <1>6 DEF Next, Write, Read, WriteStart, WriteY, WriteNonce, WriteRunLen, WriteElt,
       WritePathLen, WriteDigest, WritePanics, WriteOk, Writing, ReadY, ReadNonce, ReadRunLen,
       ReadElt, ReadPathLen, ReadDigest, Take, ReadErr, ReadRunsDone, ReadOk, Reading,
       NextSection, StartRuns, EndRun, vars
  <2>2. CWrite'
    BY <1>6, WriterWalks
  <2> QED
    BY <1>1, <2>1, <2>2 DEF CInv, CRead
<1> QED
  BY <1>2, <1>3, <1>4, <1>5, <1>6

\* Whatever bytes LigeroProof::read accepts, write_to_buf writes the same bytes
\* from the proof that was read, and none of its assertions fails: a proof has
\* one encoding, so its bytes cannot be changed without changing the proof.
THEOREM OneEncoding == Spec => []Canonical
<1>1. Spec => []CInv
  BY InitCInv, CInductive, PTL DEF Spec
<1>2. CInv => Canonical
  <2> SUFFICES ASSUME CInv, input = "any"
               PROVE  pc # "panicked" /\ (pc = "done" => out = consumed)
    BY DEF Canonical
  <2>1. CASE side = "read"
    BY <2>1 DEF CInv, CRead, TInv, ReadShape
  <2>2. CASE side = "write"
    BY <2>2 DEF CInv, CWrite, Walks
  <2> QED
    BY <2>1, <2>2 DEF CInv, TInv, TypeOK
<1> QED
  BY <1>1, <1>2, PTL

(***************************************************************************)
(* The other direction: what the prover writes is read back.               *)
(***************************************************************************)
LEMMA DivBelow ==
  ASSUME NEW n \in Nat, NEW p \in Nat, n < B * p
  PROVE  n \div B \in Nat /\ n \div B < p
<1>1. B \in Nat /\ B > 1
  BY Basics
<1>2. PICK m : m = n \div B
  OBVIOUS
<1>3. m \in Nat /\ B * m <= n
  BY <1>1, <1>2
<1>4. ~(m >= p)
  <2> SUFFICES ASSUME m >= p PROVE FALSE
    OBVIOUS
  <2>1. PICK e \in Nat : m = p + e
    <3>1. m - p \in Nat /\ m = p + (m - p)
      BY <1>3
    <3> QED
      BY <3>1
  <2>2. B * m = B * p + B * e /\ B * e \in Nat /\ B * p \in Nat
    BY <1>1, <2>1
  <2> QED
    BY <1>3, <2>2
<1> QED
  BY <1>2, <1>3, <1>4

\* Encoding and decoding again gives the number, if it fits.
LEMMA ValueOfBytes ==
  ASSUME NEW w \in Nat, NEW n \in Nat, n < Powers(w)[w]
  PROVE  Bytes(n, w) \in [1 .. w -> Byte] /\ Value(Bytes(n, w)) = n
<1> DEFINE f == Quotients(n, w)
           p == Powers(w)
           c == Bytes(n, w)
           v == Values(c)
           T == {q \in 0 .. w : ~(f[q] < p[w - q])}
           S == {q \in 0 .. w : v[q] # f[w - q]}
<1>1. /\ f \in [0 .. w -> Nat] /\ f[0] = n
      /\ \A q \in 1 .. w : f[q] = f[q - 1] \div B
  BY QuotientsRec
<1>2. /\ p \in [0 .. w -> Nat] /\ p[0] = 1
      /\ \A q \in 1 .. w : p[q] = B * p[q - 1]
  BY PowersRec
<1>3. c \in [1 .. w -> Byte] /\ \A q \in 1 .. w : c[q] = (f[q - 1] % B)
  BY BytesType DEF Bytes
<1>4. n < p[w]
  OBVIOUS
<1> HIDE DEF f, p, c
<1>5. /\ Len(c) = w /\ v \in [0 .. w -> Nat] /\ v[0] = 0
      /\ \A q \in 1 .. w : v[q] = c[w + 1 - q] + B * v[q - 1]
  BY <1>3, ValuesRec
<1>6. Value(c) = v[w]
  BY <1>5 DEF Value
<1> HIDE DEF v
<1>7. T = {}
  <2> SUFFICES ASSUME T # {} PROVE FALSE
    OBVIOUS
  <2>1. T \subseteq Nat
    OBVIOUS
  <2>2. PICK q \in T : \A m \in T : q <= m
    <3> HIDE DEF T
    <3> QED
      BY <2>1, LeastNat, Zenon
  <2>3. q \in 0 .. w /\ ~(f[q] < p[w - q])
    OBVIOUS
  <2>4. q # 0
    <3>1. w - 0 = w
      OBVIOUS
    <3> QED
      BY <1>1, <1>4, <2>3, <3>1, Zenon
  <2>5. /\ q \in 1 .. w /\ q - 1 \in 0 .. w /\ q - 1 \notin T
        /\ w - (q - 1) \in 1 .. w /\ (w - (q - 1)) - 1 = w - q /\ w - q \in 0 .. w
    BY <2>2, <2>3, <2>4
  <2>6. f[q - 1] < p[w - (q - 1)]
    BY <2>5
  <2>7. p[w - (q - 1)] = B * p[w - q]
    BY <1>2, <2>5, Zenon
  <2>8. f[q - 1] \in Nat /\ p[w - q] \in Nat
    BY <1>1, <1>2, <2>5
  <2>9. f[q - 1] \div B < p[w - q]
    BY <2>6, <2>7, <2>8, DivBelow
  <2> QED
    BY <1>1, <2>3, <2>5, <2>9, Zenon
<1>8. f[w] = 0
  <2>1. w \in 0 .. w /\ w - w = 0 /\ w \notin T
    BY <1>7
  <2>2. f[w] < p[w - w]
    BY <2>1
  <2>3. f[w] \in Nat /\ f[w] < 1
    BY <1>1, <1>2, <2>1, <2>2
  <2> QED
    BY <2>3
<1>9. S = {}
  <2> SUFFICES ASSUME S # {} PROVE FALSE
    OBVIOUS
  <2>1. S \subseteq Nat
    OBVIOUS
  <2>2. PICK q \in S : \A m \in S : q <= m
    <3> HIDE DEF S
    <3> QED
      BY <2>1, LeastNat, Zenon
  <2>3. q \in 0 .. w /\ v[q] # f[w - q]
    OBVIOUS
  <2>4. q # 0
    <3>1. w - 0 = w
      OBVIOUS
    <3> QED
      BY <1>5, <1>8, <2>3, <3>1, Zenon
  <2>5. /\ q \in 1 .. w /\ q - 1 \in 0 .. w /\ q - 1 \notin S
        /\ w + 1 - q \in 1 .. w /\ (w + 1 - q) - 1 = w - q /\ w - (q - 1) = w + 1 - q
        /\ w - q \in 0 .. w
    BY <2>2, <2>3, <2>4
  <2>6. v[q - 1] = f[w - (q - 1)]
    BY <2>5
  <2>7. f[w + 1 - q] = f[w - q] \div B /\ c[w + 1 - q] = (f[w - q] % B)
    BY <1>1, <1>3, <2>5, Zenon
  <2>8. v[q] = c[w + 1 - q] + B * v[q - 1]
    BY <1>5, <2>5, Zenon
  <2>9. v[q] = (f[w - q] % B) + B * (f[w - q] \div B)
    BY <2>5, <2>6, <2>7, <2>8, Zenon
  <2>10. f[w - q] \in Nat /\ B \in Nat /\ B > 1
    BY <1>1, <2>5, Basics
  <2>11. (f[w - q] % B) + B * (f[w - q] \div B) = f[w - q]
    BY <2>10
  <2> QED
    BY <2>3, <2>9, <2>11
<1>10. v[w] = n
  <2>1. w \in 0 .. w /\ w - w = 0 /\ w \notin S
    BY <1>9
  <2>2. v[w] = f[w - w]
    BY <2>1
  <2> QED
    BY <1>1, <2>1, <2>2
<1> QED
  BY <1>3, <1>6, <1>10 DEF c

(***************************************************************************)
(* Prefixes.                                                               *)
(***************************************************************************)
LEMMA GrowsConcat ==
  ASSUME NEW s \in Seq(Byte), NEW c \in Seq(Byte)
  PROVE  Grows(s, s) /\ Grows(s, s \o c)
BY DEF Grows

LEMMA GrowsTrans ==
  ASSUME NEW a \in Seq(Byte), NEW b \in Seq(Byte), NEW c \in Seq(Byte), Grows(a, b), Grows(b, c)
  PROVE  Grows(a, c)
<1>1. Len(a) \in Nat /\ Len(b) \in Nat /\ Len(c) \in Nat
  OBVIOUS
<1>2. Len(a) <= Len(b) /\ Len(b) <= Len(c)
  BY DEF Grows
<1>3. ASSUME NEW x \in 1 .. Len(a) PROVE c[x] = a[x]
  <2>1. x \in 1 .. Len(b)
    BY <1>1, <1>2
  <2> QED
    BY <2>1 DEF Grows
<1> QED
  BY <1>1, <1>2, <1>3 DEF Grows

LEMMA GrowsNext ==
  ASSUME NEW s \in Seq(Nat), NEW r \in Seq(Nat), Grows(s, r), NEW k, Len(s) = k, k < Len(r),
         NEW v, v = r[k + 1]
  PROVE  Grows(Append(s, v), r) /\ Append(s, v) \in Seq(Nat)
<1>1. Len(s) \in Nat /\ Len(r) \in Nat /\ v \in Nat
  OBVIOUS
<1>2. /\ Append(s, v) \in Seq(Nat) /\ Len(Append(s, v)) = k + 1
      /\ \A x \in 1 .. k : Append(s, v)[x] = s[x]
      /\ Append(s, v)[k + 1] = v
  BY <1>1
<1>3. \A x \in 1 .. k + 1 : r[x] = Append(s, v)[x]
  <2> SUFFICES ASSUME NEW x \in 1 .. k + 1 PROVE r[x] = Append(s, v)[x]
    OBVIOUS
  <2>1. CASE x = k + 1
    BY <1>2, <2>1
  <2>2. CASE x # k + 1
    BY <1>1, <1>2, <2>2 DEF Grows
  <2> QED
    BY <2>1, <2>2
<1> QED
  BY <1>1, <1>2, <1>3 DEF Grows

LEMMA GrowsEqual ==
  ASSUME NEW s \in Seq(Nat), NEW r \in Seq(Nat), Grows(s, r), Len(s) = Len(r)
  PROVE  s = r
BY DEF Grows

\* The bytes that follow a prefix of the output.
LEMMA NextBytes ==
  ASSUME NEW o \in Seq(Byte), NEW b \in Seq(Byte), NEW w \in Nat, NEW d \in [1 .. w -> Byte],
         Grows(b \o d, o)
  PROVE  /\ Len(b) + w <= Len(o)
         /\ SubSeq(o, Len(b) + 1, Len(b) + w) = d
<1>1. d \in Seq(Byte) /\ Len(d) = w
  BY FunctionIsSeq
<1>2. PICK m \in Nat : m = Len(b)
  OBVIOUS
<1>3. /\ b \o d \in Seq(Byte) /\ Len(b \o d) = m + w
      /\ \A x \in 1 .. w : (b \o d)[m + x] = d[x]
  BY <1>1, <1>2
<1>4. m + w <= Len(o) /\ \A x \in 1 .. w : o[m + x] = d[x]
  <2>1. m + w <= Len(o)
    BY <1>3 DEF Grows
  <2>2. ASSUME NEW x \in 1 .. w PROVE o[m + x] = d[x]
    <3>1. m + x \in 1 .. m + w
      OBVIOUS
    <3> QED
      BY <1>3, <3>1 DEF Grows
  <2> QED
    BY <2>1, <2>2
<1>5. PICK z : z = SubSeq(o, m + 1, m + w)
  OBVIOUS
<1>6. z \in [1 .. w -> Byte] /\ \A x \in 1 .. w : z[x] = o[m + x]
  <2>1. m + 1 \in 1 .. Len(o) + 1 /\ m + w \in Nat /\ (m + w) - (m + 1) + 1 = w
    BY <1>4
  <2>2. z \in Seq(Byte) /\ Len(z) = w
    BY <1>4, <1>5, <2>1
  <2>3. \A x \in 1 .. w : z[x] = o[(m + 1) + x - 1]
    BY <1>4, <1>5, <2>1
  <2>4. \A x \in 1 .. w : (m + 1) + x - 1 = m + x
    OBVIOUS
  <2> QED
    BY <2>2, <2>3, <2>4, SeqIsFunction
<1>7. z = d
  <2>1. \A x \in 1 .. w : z[x] = d[x]
    BY <1>4, <1>6
  <2>2. z \in [1 .. w -> Byte]
    BY <1>6
  <2> QED
    BY <2>1, <2>2
<1> QED
  BY <1>2, <1>4, <1>5, <1>7

(***************************************************************************)
(* The writer makes its path as it goes; what was written at a spot stays  *)
(* a prefix of what is written.                                            *)
(***************************************************************************)
Joined(n, T) ==
  /\ Trace(geom, proof, n, T)
  /\ \A k \in 0 .. n : Grows(T[k].bytes, out)
  /\ \A k \in 0 .. n : T[k].at = "path" => T[k].len = Len(proof.path)

HWrite ==
  input = "honest" /\ side = "write" =>
    /\ pc # "done"
    /\ pc = "start" => out = <<>>
    /\ pc \in Sections => \E n, T : Joined(n, T) /\ There(T[n])

LEMMA Joins ==
  ASSUME NEW n, NEW T, Joined(n, T), UNCHANGED <<geom, proof>>,
         out \in Seq(Byte), out' \in Seq(Byte), Grows(out, out'),
         NEW u \in Spot, Go(geom, proof, T[n], u), u.bytes = out', There(u)',
         u.at = "path" => u.len = Len(proof.path)
  PROVE  \E m, U : Joined(m, U)' /\ There(U[m])'
<1>1. n \in Nat /\ T \in [Nat -> Spot] /\ Trace(geom, proof, n, T)
  BY DEF Joined, Trace
<1>2. Carries(geom, proof, proof, n, T)
  BY DEF Carries
<1>3. PICK U : /\ Trace(geom, proof, n + 1, U) /\ U[n + 1] = u
               /\ \A k \in 0 .. n : U[k] = T[k]
  BY <1>1, <1>2, TraceGrows
<1>4. Trace(geom, proof, n + 1, U)'
  BY <1>3
<1>5. There(U[n + 1])'
  BY <1>3 DEF There
<1>6. ASSUME NEW k \in 0 .. n + 1
      PROVE  Grows(U[k].bytes, out') /\ (U[k].at = "path" => U[k].len = Len(proof.path))
  <2>1. CASE k = n + 1
    <3>1. Grows(out', out')
      BY GrowsConcat
    <3> QED
      BY <1>3, <2>1, <3>1
  <2>2. CASE k # n + 1
    <3>1. k \in 0 .. n /\ U[k] = T[k]
      BY <1>1, <1>3, <2>2
    <3>2. Grows(T[k].bytes, out) /\ (T[k].at = "path" => T[k].len = Len(proof.path))
      BY <3>1 DEF Joined
    <3>3. T[k] \in Spot
      BY <1>1, <3>1
    <3>4. T[k].bytes \in Seq(Byte)
      BY <3>3 DEF Spot
    <3>5. Grows(T[k].bytes, out')
      BY <3>2, <3>4, GrowsTrans
    <3> QED
      BY <3>1, <3>2, <3>5
  <2> QED
    BY <2>1, <2>2
<1>7. Joined(n + 1, U)'
  BY <1>4, <1>6 DEF Joined
<1> QED
  BY <1>5, <1>7

LEMMA Emitted ==
  ASSUME out \in Seq(Byte), NEW v \in Nat, NEW w \in Nat, Emit(Bytes(v, w))
  PROVE  out' = out \o Bytes(v, w) /\ out' \in Seq(Byte) /\ Grows(out, out')
<1>1. Bytes(v, w) \in [1 .. w -> Byte]
  BY BytesType
<1>2. Bytes(v, w) \in Seq(Byte)
  BY <1>1, FunctionIsSeq
<1>3. out' = out \o Bytes(v, w)
  BY DEF Emit
<1> QED
  BY <1>2, <1>3, GrowsConcat

LEMMA WriteYJoins ==
  ASSUME TInv, WriteY, NEW n, NEW T, Joined(n, T), There(T[n])
  PROVE  \E m, U : Joined(m, U)' /\ There(U[m])'
<1>1. /\ pc = "y" /\ j < YLen(sec) /\ sec \in 1 .. 4 /\ j \in Nat /\ out \in Seq(Byte)
      /\ proof \in ProofType /\ YLen(sec) \in Nat
  BY Lengths, TypeParts DEF WriteY, Writing, TInv, TypeOK
<1>2. UNCHANGED <<geom, proof, pc, sec>> /\ j' = j + 1
  BY DEF WriteY
<1>3. proof.y[sec] \in Seq(Nat) /\ Len(proof.y[sec]) = YLen(sec)
  BY <1>1 DEF ProofType, TInv, WriteShape, WriteY, Writing, WellShaped
<1>4. PICK v : v = proof.y[sec][j + 1]
  OBVIOUS
<1>5. v \in Nat
  BY <1>1, <1>3, <1>4
<1>6. out' = out \o Bytes(v, FieldBytes) /\ out' \in Seq(Byte) /\ Grows(out, out')
  BY <1>1, <1>4, <1>5, Basics, Emitted DEF WriteY
<1>7. T[n].at = "y" /\ T[n].sec = sec /\ T[n].j = j /\ T[n].bytes = out
  BY <1>1 DEF There, YAt
<1>8. PICK u : u = YAt(sec, j + 1, out \o Bytes(v, FieldBytes))
  OBVIOUS
<1>9. u \in Spot
  <2>1. sec \in Nat /\ j + 1 \in Nat
    BY <1>1
  <2> QED
    BY <1>6, <1>8, <2>1, YSpot
<1>10. GoY(geom, proof, T[n], u)
  <2>1. j < YL(geom, sec)
    BY <1>1, GeomLengths
  <2> QED
    BY <1>1, <1>3, <1>4, <1>7, <1>8, <2>1 DEF GoY
<1>11. Go(geom, proof, T[n], u)
  BY <1>10 DEF Go
<1>12. u.bytes = out' /\ u.at # "path" /\ There(u)'
  BY <1>1, <1>2, <1>6, <1>8 DEF There, YAt
<1> QED
  BY <1>1, <1>2, <1>6, <1>9, <1>11, <1>12, Joins

LEMMA WriteNonceJoins ==
  ASSUME TInv, WriteNonce, NEW n, NEW T, Joined(n, T), There(T[n])
  PROVE  \E m, U : Joined(m, U)' /\ There(U[m])'
<1>1. /\ pc = "nonce" /\ j < geom.nreq /\ geom.nreq \in Nat /\ j \in Nat /\ out \in Seq(Byte)
      /\ proof \in ProofType
  BY Lengths, TypeParts DEF WriteNonce, Writing, TInv, TypeOK
<1>2. UNCHANGED <<geom, proof, pc>> /\ j' = j + 1
  BY DEF WriteNonce
<1>3. proof.nonce \in Seq(Nat) /\ Len(proof.nonce) = geom.nreq
  BY <1>1 DEF ProofType, TInv, WriteShape, WriteNonce, Writing, WellShaped
<1>4. PICK v : v = proof.nonce[j + 1]
  OBVIOUS
<1>5. v \in Nat
  BY <1>1, <1>3, <1>4
<1>6. out' = out \o Bytes(v, DigestBytes) /\ out' \in Seq(Byte) /\ Grows(out, out')
  BY <1>1, <1>4, <1>5, Basics, Emitted DEF WriteNonce
<1>7. T[n].at = "nonce" /\ T[n].j = j /\ T[n].bytes = out
  BY <1>1 DEF There, NonceAt
<1>8. PICK u : u = NonceAt(j + 1, out \o Bytes(v, DigestBytes))
  OBVIOUS
<1>9. u \in Spot
  <2>1. j + 1 \in Nat
    BY <1>1
  <2> QED
    BY <1>6, <1>8, <2>1, NonceSpot
<1>10. GoNonce(geom, proof, T[n], u)
  BY <1>1, <1>3, <1>4, <1>7, <1>8 DEF GoNonce
<1>11. Go(geom, proof, T[n], u)
  BY <1>10 DEF Go
<1>12. u.bytes = out' /\ u.at # "path" /\ There(u)'
  BY <1>1, <1>2, <1>6, <1>8 DEF There, NonceAt
<1> QED
  BY <1>1, <1>2, <1>6, <1>9, <1>11, <1>12, Joins

LEMMA WriteRunLenJoins ==
  ASSUME TInv, WriteRunLen, NEW n, NEW T, Joined(n, T), There(T[n])
  PROVE  \E m, U : Joined(m, U)' /\ There(U[m])'
<1>1. /\ pc = "run" /\ ci < Total /\ Total \in Nat /\ ci \in Nat /\ out \in Seq(Byte)
      /\ subfield_run \in BOOLEAN
  BY Lengths, TypeParts DEF WriteRunLen, Writing, TInv, TypeOK
<1>2. /\ UNCHANGED <<geom, proof, ci, subfield_run>> /\ j' = 0 /\ pc' = "elts"
      /\ runlen' = RunLen /\ RunLen <= MaxSize
  BY DEF WriteRunLen
<1>3. Len(proof.req) = Total
  BY <1>1 DEF TInv, WriteShape, WriteRunLen, Writing, WellShaped
<1>4. PICK v : v = RunLen
  OBVIOUS
<1>5. v \in Nat /\ IsRunLen(v)
  BY <1>4, RunLenExists DEF TInv
<1>6. out' = out \o Bytes(v, SizeBytes) /\ out' \in Seq(Byte) /\ Grows(out, out')
  BY <1>1, <1>4, <1>5, Basics, Emitted DEF WriteRunLen
<1>7. /\ T[n].at = "run" /\ T[n].ci = ci /\ T[n].kind = Kind(subfield_run)
      /\ T[n].bytes = out
  BY <1>1 DEF There, RunAt
<1>8. PICK u : u = EltsAt(ci, Kind(subfield_run), v, 0, out \o Bytes(v, SizeBytes))
  OBVIOUS
<1>9. u \in Spot
  <2>1. 0 \in Nat
    OBVIOUS
  <2> QED
    BY <1>1, <1>5, <1>6, <1>8, <2>1, KindType, EltsSpot
<1>10. GoRun(geom, proof, T[n], u)
  <2>1. u.len = v /\ Tot(geom) = Total
    BY <1>8, GeomLengths DEF EltsAt
  <2>2. ci + v <= Total
    BY <1>1, <1>5 DEF IsRunLen
  <2>3. \A x \in ci + 1 .. ci + v : EltKind(proof.req[x]) = Kind(subfield_run)
    BY <1>1, <1>5, KindIs DEF IsRunLen, OfKind
  <2>4. ci + v < Total => EltKind(proof.req[ci + v + 1]) # Kind(subfield_run)
    BY <1>1, <1>5, KindIs DEF IsRunLen
  <2> QED
    BY <1>1, <1>2, <1>3, <1>4, <1>7, <1>8, <2>1, <2>2, <2>3, <2>4 DEF GoRun
<1>11. Go(geom, proof, T[n], u)
  BY <1>10 DEF Go
<1>12. u.bytes = out' /\ u.at # "path"
  BY <1>6, <1>8 DEF EltsAt
<1>13. There(u)'
  BY <1>2, <1>4, <1>6, <1>8 DEF There
<1> QED
  BY <1>1, <1>2, <1>6, <1>9, <1>11, <1>12, <1>13, Joins

LEMMA WriteEltJoins ==
  ASSUME TInv, WriteElt, NEW n, NEW T, Joined(n, T), There(T[n])
  PROVE  \E m, U : Joined(m, U)' /\ There(U[m])'
<1>1. /\ pc = "elts" /\ j < runlen /\ j \in Nat /\ runlen \in Nat /\ ci \in Nat
      /\ out \in Seq(Byte) /\ Total \in Nat /\ proof \in ProofType /\ subfield_run \in BOOLEAN
  BY Lengths, TypeParts DEF WriteElt, Writing, TInv, TypeOK
<1>2. UNCHANGED <<geom, proof, pc, ci, subfield_run, runlen>> /\ j' = j + 1
  BY DEF WriteElt
<1>3. /\ proof.req \in Seq(Nat) /\ Len(proof.req) = Total /\ ci + runlen <= Total
      /\ OfKind(runlen)
  BY <1>1 DEF ProofType, TInv, WriteShape, WriteElt, Writing, WellShaped
<1>4. PICK e : e = proof.req[ci + j + 1]
  OBVIOUS
<1>5. e \in Nat /\ InSubfield(e) = subfield_run /\ ci + j < Total
  <2>1. ci + j + 1 \in ci + 1 .. ci + runlen /\ ci + j + 1 \in 1 .. Total /\ ci + j < Total
    BY <1>1, <1>3
  <2> QED
    BY <1>3, <1>4, <2>1 DEF OfKind
<1>6. /\ out' = out \o EltCode(Kind(subfield_run), e) /\ out' \in Seq(Byte)
      /\ Grows(out, out')
  <2>1. CASE subfield_run
    <3>1. Emit(Bytes(SubCode(e), SubBytes))
      BY <1>4, <2>1 DEF WriteElt
    <3>2. SubCode(e) \in Nat /\ SubBytes \in Nat
      BY <1>5, <2>1, SubCodeType, Basics
    <3>3. EltCode(Kind(subfield_run), e) = Bytes(SubCode(e), SubBytes)
      BY <2>1 DEF EltCode, Kind
    <3> QED
      BY <1>1, <3>1, <3>2, <3>3, Emitted
  <2>2. CASE ~subfield_run
    <3>1. Emit(Bytes(e, FieldBytes))
      BY <1>4, <2>2 DEF WriteElt
    <3>2. FieldBytes \in Nat
      BY Basics
    <3>3. EltCode(Kind(subfield_run), e) = Bytes(e, FieldBytes)
      BY <2>2 DEF EltCode, Kind
    <3> QED
      BY <1>1, <1>5, <3>1, <3>2, <3>3, Emitted
  <2> QED
    BY <2>1, <2>2
<1>7. /\ T[n].at = "elts" /\ T[n].j = j /\ T[n].len = runlen /\ T[n].ci = ci
      /\ T[n].kind = Kind(subfield_run) /\ T[n].bytes = out
  BY <1>1 DEF There, EltsAt
<1>8. PICK u : u = EltsAt(ci, Kind(subfield_run), runlen, j + 1,
                          out \o EltCode(Kind(subfield_run), e))
  OBVIOUS
<1>9. u \in Spot
  <2>1. j + 1 \in Nat
    BY <1>1
  <2> QED
    BY <1>1, <1>6, <1>8, <2>1, KindType, EltsSpot
<1>10. GoElt(proof, T[n], u)
  BY <1>1, <1>3, <1>4, <1>5, <1>7, <1>8 DEF GoElt
<1>11. Go(geom, proof, T[n], u)
  BY <1>10 DEF Go
<1>12. u.bytes = out' /\ u.at # "path"
  BY <1>6, <1>8 DEF EltsAt
<1>13. There(u)'
  BY <1>1, <1>2, <1>6, <1>8 DEF There
<1> QED
  BY <1>1, <1>2, <1>6, <1>9, <1>11, <1>12, <1>13, Joins

LEMMA WritePathLenJoins ==
  ASSUME TInv, WritePathLen, NEW n, NEW T, Joined(n, T), There(T[n])
  PROVE  \E m, U : Joined(m, U)' /\ There(U[m])'
<1>1. /\ pc = "run" /\ ci >= Total /\ out \in Seq(Byte) /\ Len(proof.path) \in Nat
  BY TypeParts DEF WritePathLen, Writing, TInv, TypeOK, ProofType
<1>2. UNCHANGED <<geom, proof>> /\ j' = 0 /\ pc' = "path" /\ Len(proof.path) <= MaxSize
  BY DEF WritePathLen
<1>3. PICK v : v = Len(proof.path)
  OBVIOUS
<1>4. out' = out \o Bytes(v, SizeBytes) /\ out' \in Seq(Byte) /\ Grows(out, out')
  BY <1>1, <1>3, Basics, Emitted DEF WritePathLen
<1>5. T[n].at = "run" /\ T[n].ci = ci /\ T[n].bytes = out
  BY <1>1 DEF There, RunAt
<1>6. PICK u : u = PathAt(v, 0, out \o Bytes(v, SizeBytes))
  OBVIOUS
<1>7. u \in Spot
  <2>1. 0 \in Nat
    OBVIOUS
  <2> QED
    BY <1>1, <1>3, <1>4, <1>6, <2>1, PathSpotType
<1>8. u.len = v /\ u.bytes = out'
  BY <1>4, <1>6 DEF PathAt
<1>9. GoPathLen(geom, T[n], u)
  BY <1>1, <1>2, <1>3, <1>5, <1>6, <1>8, GeomLengths DEF GoPathLen
<1>10. Go(geom, proof, T[n], u)
  BY <1>9 DEF Go
<1>11. There(u)'
  BY <1>2, <1>3, <1>4, <1>6 DEF There
<1> QED
  BY <1>1, <1>2, <1>3, <1>4, <1>7, <1>8, <1>10, <1>11, Joins

LEMMA WriteDigestJoins ==
  ASSUME TInv, WriteDigest, NEW n, NEW T, Joined(n, T), There(T[n])
  PROVE  \E m, U : Joined(m, U)' /\ There(U[m])'
<1>1. /\ pc = "path" /\ j < Len(proof.path) /\ j \in Nat /\ out \in Seq(Byte)
      /\ proof.path \in Seq(Nat) /\ Len(proof.path) \in Nat
  BY TypeParts DEF WriteDigest, Writing, TInv, TypeOK, ProofType
<1>2. UNCHANGED <<geom, proof, pc>> /\ j' = j + 1
  BY DEF WriteDigest
<1>3. PICK v : v = proof.path[j + 1]
  OBVIOUS
<1>4. v \in Nat
  BY <1>1, <1>3
<1>5. out' = out \o Bytes(v, DigestBytes) /\ out' \in Seq(Byte) /\ Grows(out, out')
  BY <1>1, <1>3, <1>4, Basics, Emitted DEF WriteDigest
<1>6. T[n].at = "path" /\ T[n].j = j /\ T[n].len = Len(proof.path) /\ T[n].bytes = out
  BY <1>1 DEF There, PathAt
<1>7. PICK u : u = PathAt(Len(proof.path), j + 1, out \o Bytes(v, DigestBytes))
  OBVIOUS
<1>8. u \in Spot
  <2>1. j + 1 \in Nat
    BY <1>1
  <2> QED
    BY <1>1, <1>5, <1>7, <2>1, PathSpotType
<1>9. GoPath(proof, T[n], u)
  BY <1>1, <1>3, <1>6, <1>7 DEF GoPath
<1>10. Go(geom, proof, T[n], u)
  BY <1>9 DEF Go
<1>11. u.bytes = out' /\ u.len = Len(proof.path)
  BY <1>5, <1>7 DEF PathAt
<1>12. There(u)'
  BY <1>1, <1>2, <1>5, <1>7 DEF There
<1> QED
  BY <1>1, <1>2, <1>5, <1>8, <1>10, <1>11, <1>12, Joins

LEMMA LoopEndJoins ==
  ASSUME TInv, NextSection \/ StartRuns \/ EndRun, NEW n, NEW T, Joined(n, T), There(T[n])
  PROVE  \E m, U : Joined(m, U)' /\ There(U[m])'
<1>1. UNCHANGED <<geom, proof, out>>
  BY DEF NextSection, StartRuns, EndRun
<1>2. out \in Seq(Byte) /\ CtrOK /\ Total \in Nat /\ subfield_run \in BOOLEAN
  BY TypeParts, Lengths DEF TInv, TypeOK
<1>3. Grows(out, out')
  BY <1>1, <1>2, GrowsConcat
<1>4. CASE NextSection
  <2>1. /\ pc = "y" /\ j = YLen(sec) /\ j' = 0 /\ sec \in 1 .. 4
        /\ \/ sec < 4 /\ sec' = sec + 1 /\ pc' = "y"
           \/ ~(sec < 4) /\ pc' = "nonce"
    BY <1>2, <1>4 DEF NextSection, CtrOK
  <2>2. T[n].at = "y" /\ T[n].sec = sec /\ T[n].j = j /\ T[n].bytes = out
    BY <2>1 DEF There, YAt
  <2>3. PICK u : u = IF sec < 4 THEN YAt(sec + 1, 0, out) ELSE NonceAt(0, out)
    OBVIOUS
  <2>4. u \in Spot
    <3>1. 0 \in Nat /\ sec + 1 \in Nat
      BY <2>1
    <3> QED
      BY <1>2, <2>3, <3>1, YSpot, NonceSpot
  <2>5. GoSection(geom, T[n], u)
    BY <2>1, <2>2, <2>3, GeomLengths DEF GoSection
  <2>6. Go(geom, proof, T[n], u)
    BY <2>5 DEF Go
  <2>7. u.bytes = out' /\ u.at # "path"
    BY <1>1, <2>3 DEF YAt, NonceAt
  <2>8. There(u)'
    BY <1>1, <2>1, <2>3 DEF There
  <2> QED
    BY <1>1, <1>2, <1>3, <2>4, <2>6, <2>7, <2>8, Joins
<1>5. CASE StartRuns
  <2>1. pc = "nonce" /\ j = geom.nreq /\ pc' = "run" /\ ci' = 0 /\ Kind(subfield_run') = "field"
    BY <1>5 DEF StartRuns, Kind
  <2>2. T[n].at = "nonce" /\ T[n].j = j /\ T[n].bytes = out
    BY <2>1 DEF There, NonceAt
  <2>3. PICK u : u = RunAt(0, "field", out)
    OBVIOUS
  <2>4. u \in Spot
    <3>1. 0 \in Nat
      OBVIOUS
    <3> QED
      BY <1>2, <2>3, <3>1, RunSpotType
  <2>5. GoStart(geom, T[n], u)
    BY <2>1, <2>2, <2>3 DEF GoStart
  <2>6. Go(geom, proof, T[n], u)
    BY <2>5 DEF Go
  <2>7. u.bytes = out' /\ u.at # "path"
    BY <1>1, <2>3 DEF RunAt
  <2>8. There(u)'
    BY <1>1, <2>1, <2>3 DEF There
  <2> QED
    BY <1>1, <1>2, <1>3, <2>4, <2>6, <2>7, <2>8, Joins
<1>6. CASE EndRun
  <2>1. /\ pc = "elts" /\ j = runlen /\ pc' = "run" /\ ci' = ci + runlen
        /\ subfield_run' = ~subfield_run
    BY <1>6 DEF EndRun
  <2>2. Kind(subfield_run') = Other(Kind(subfield_run))
    BY <1>2, <2>1 DEF Kind, Other
  <2>3. /\ T[n].at = "elts" /\ T[n].j = j /\ T[n].len = runlen /\ T[n].ci = ci
        /\ T[n].kind = Kind(subfield_run) /\ T[n].bytes = out
    BY <2>1 DEF There, EltsAt
  <2>4. PICK u : u = RunAt(ci + runlen, Other(Kind(subfield_run)), out)
    OBVIOUS
  <2>5. u \in Spot
    <3>1. ci + runlen \in Nat
      BY <1>2 DEF CtrOK
    <3> QED
      BY <1>2, <2>4, <3>1, RunSpotType DEF Other
  <2>6. GoEnd(T[n], u)
    BY <2>1, <2>3, <2>4 DEF GoEnd
  <2>7. Go(geom, proof, T[n], u)
    BY <2>6 DEF Go
  <2>8. u.bytes = out' /\ u.at # "path"
    BY <1>1, <2>4 DEF RunAt
  <2>9. There(u)'
    BY <1>1, <2>1, <2>2, <2>4 DEF There
  <2> QED
    BY <1>1, <1>2, <1>3, <2>5, <2>7, <2>8, <2>9, Joins
<1> QED
  BY <1>4, <1>5, <1>6

(***************************************************************************)
(* What a prover's numbers are written as can be read.                     *)
(***************************************************************************)
LEMMA PowerNat ==
  ASSUME NEW w \in Nat
  PROVE  Powers(w)[w] \in Nat
<1>1. Powers(w) \in [0 .. w -> Nat] /\ w \in 0 .. w
  BY PowersRec
<1> QED
  BY <1>1

LEMMA FieldFits ==
  ASSUME NEW v \in Nat, v < P, NEW d, d = Bytes(v, FieldBytes)
  PROVE  d \in [1 .. FieldBytes -> Byte] /\ Value(d) = v /\ FieldOk(d)
<1>1. FieldBytes \in Nat /\ P \in Nat
  BY Basics, CodecAssumption
<1>2. Powers(FieldBytes)[FieldBytes] \in Nat
  BY <1>1, PowerNat
<1>3. P <= Powers(FieldBytes)[FieldBytes]
  BY ProverAssumption
<1>4. v < Powers(FieldBytes)[FieldBytes]
  BY <1>1, <1>2, <1>3
<1>5. d \in [1 .. FieldBytes -> Byte] /\ Value(d) = v
  BY <1>1, <1>4, ValueOfBytes
<1> QED
  BY <1>5 DEF FieldOk

LEMMA SubFits ==
  ASSUME NEW e, InSubfield(e), NEW d, d = Bytes(SubCode(e), SubBytes)
  PROVE  d \in [1 .. SubBytes -> Byte] /\ SubOk(d) /\ Embed[Value(d)] = e
<1>1. SubCode(e) \in DOMAIN Embed /\ SubCode(e) \in Nat /\ Embed[SubCode(e)] = e
  BY SubCodeType
<1>2. SubCode(e) < Powers(SubBytes)[SubBytes] /\ SubBytes \in Nat
  BY <1>1, ProverAssumption, Basics
<1>3. d \in [1 .. SubBytes -> Byte] /\ Value(d) = SubCode(e)
  BY <1>1, <1>2, ValueOfBytes
<1> QED
  BY <1>1, <1>3 DEF SubOk

LEMMA SizeIsRead ==
  ASSUME NEW v \in Nat, v <= MaxSize, NEW d, d = Bytes(v, SizeBytes)
  PROVE  d \in [1 .. SizeBytes -> Byte] /\ Value(d) = v
<1>1. SizeBytes \in Nat
  BY Basics
<1>2. Powers(SizeBytes)[SizeBytes] \in Nat
  BY <1>1, PowerNat
<1>3. v < Powers(SizeBytes)[SizeBytes]
  BY <1>2 DEF MaxSize
<1> QED
  BY <1>1, <1>3, ValueOfBytes

LEMMA DigestFits ==
  ASSUME NEW v \in Nat, v < Powers(DigestBytes)[DigestBytes], NEW d, d = Bytes(v, DigestBytes)
  PROVE  d \in [1 .. DigestBytes -> Byte] /\ Value(d) = v
<1>1. DigestBytes \in Nat
  BY Basics
<1> QED
  BY <1>1, ValueOfBytes

LEMMA ProverRanges ==
  ASSUME geom \in Geometries, proof \in Proofs(geom)
  PROVE  /\ \A s \in 1 .. 4 : \A x \in 1 .. Len(proof.y[s]) : proof.y[s][x] < P
         /\ \A x \in 1 .. Len(proof.req) : proof.req[x] < P
         /\ \A x \in 1 .. Len(proof.nonce) : proof.nonce[x] < Powers(DigestBytes)[DigestBytes]
         /\ \A x \in 1 .. Len(proof.path) : proof.path[x] < Powers(DigestBytes)[DigestBytes]
         /\ Len(proof.path) <= Limit
BY ProverAssumption, Zenon DEF Limit

(***************************************************************************)
(* The reader of an honest proof is at a spot of the writer's path, and    *)
(* has read a part of the proof.                                           *)
(***************************************************************************)
Full(n, T) ==
  Joined(n, T) /\ T[n] = PathAt(Len(proof.path), Len(proof.path), out)

\* The runs are those of the proof: the current one cannot be longer, and one
\* that is not the first cannot be empty.
KindsOk ==
  /\ pc = "run" /\ ~first_run /\ ci < Total => InSubfield(proof.req[ci + 1]) = subfield_run
  /\ pc = "elts" => IsRunLen(runlen)

Back(n, T, k) ==
  /\ Full(n, T) /\ k \in 0 .. n /\ Here(T[k])
  /\ WellShaped /\ Extends(got, proof) /\ KindsOk

HRead ==
  input = "honest" /\ side = "read" =>
    /\ pc = "rejected" => HasLongRun
    /\ pc = "done" => got = proof /\ consumed = out
    /\ pc \notin {"rejected", "done"} =>
         (pc = "path_len" => ci >= Total) /\ \E n, T, k : Back(n, T, k)

HInv ==
  /\ TInv /\ HWrite /\ HRead
  /\ input = "honest" => proof \in Proofs(geom)

LEMMA OnTheWayBack ==
  ASSUME NEW n, NEW T, NEW k, Back(n, T, k),
         pc \in {"y", "nonce", "run", "elts", "path_len", "path"}, pc # "path" \/ j # runlen
  PROVE  /\ k + 1 \in 0 .. n /\ T[k] \in Spot /\ T[k + 1] \in Spot
         /\ Go(geom, proof, T[k], T[k + 1])
<1>1. /\ n \in Nat /\ T \in [Nat -> Spot] /\ k \in 0 .. n /\ Here(T[k])
      /\ \A i \in 0 .. n - 1 : Go(geom, proof, T[i], T[i + 1])
      /\ T[n] = PathAt(Len(proof.path), Len(proof.path), out)
  BY DEF Back, Full, Joined, Trace
<1>2. k # n
  <2> SUFFICES ASSUME k = n PROVE FALSE
    OBVIOUS
  <2>1. T[k].at = "path" /\ T[k].j = Len(proof.path) /\ T[k].len = Len(proof.path)
    BY <1>1 DEF PathAt
  <2> QED
    BY <1>1, <2>1 DEF Here, YAt, NonceAt, RunAt, EltsAt, PathAt
<1>3. k \in 0 .. n - 1 /\ k + 1 \in 0 .. n
  BY <1>1, <1>2
<1> QED
  BY <1>1, <1>3

LEMMA NextChunk ==
  ASSUME TInv, input = "honest", NEW n, NEW T, Full(n, T), NEW i \in 0 .. n,
         NEW w \in Nat, NEW d \in [1 .. w -> Byte], T[i].bytes = consumed \o d
  PROVE  Chunks(w) = {d} /\ ~Eof(w)
<1>1. out \in Seq(Byte) /\ consumed \in Seq(Byte)
  BY TypeParts DEF TInv
<1>2. Grows(consumed \o d, out)
  BY DEF Full, Joined
<1>3. /\ Len(consumed) + w <= Len(out)
      /\ SubSeq(out, Len(consumed) + 1, Len(consumed) + w) = d
  BY <1>1, <1>2, NextBytes
<1>4. Len(consumed) \in Nat /\ Len(out) \in Nat
  BY <1>1
<1>5. ~(Len(consumed) + w > Len(out))
  BY <1>3, <1>4
<1> QED
  BY <1>3, <1>5 DEF Chunks, Eof

LEMMA YAhead ==
  ASSUME TInv, input = "honest", side = "read", proof \in Proofs(geom),
         NEW n, NEW T, NEW k, Back(n, T, k), pc = "y", j < YLen(sec)
  PROVE  \E d : /\ Chunks(Width) = {d} /\ ~Eof(Width) /\ Accepts(d)
                /\ Value(d) = proof.y[sec][j + 1]
                /\ k + 1 \in 0 .. n /\ T[k + 1] = YAt(sec, j + 1, consumed \o d)
<1>1. /\ k + 1 \in 0 .. n /\ Go(geom, proof, T[k], T[k + 1])
  BY OnTheWayBack
<1>2. /\ sec \in 1 .. 4 /\ j \in Nat /\ proof \in ProofType /\ geom \in Geometries
      /\ YLen(sec) \in Nat
  BY Lengths DEF TInv, TypeOK
<1>3. T[k].at = "y" /\ T[k].sec = sec /\ T[k].j = j /\ T[k].bytes = consumed
  BY DEF Back, Here, YAt
<1>4. GoY(geom, proof, T[k], T[k + 1])
  <2>1. T[k].j # YL(geom, T[k].sec)
    BY <1>2, <1>3, GeomLengths
  <2> QED
    BY <1>1, <1>3, <2>1
       DEF Go, GoSection, GoNonce, GoStart, GoRun, GoElt, GoEnd, GoPathLen, GoPath
<1>5. PICK v : v = proof.y[sec][j + 1]
  OBVIOUS
<1>6. PICK d : d = Bytes(v, FieldBytes)
  OBVIOUS
<1>7. T[k + 1] = YAt(sec, j + 1, consumed \o d)
  BY <1>3, <1>4, <1>5, <1>6 DEF GoY
<1>8. v \in Nat /\ v < P
  <2>1. proof.y[sec] \in Seq(Nat) /\ Len(proof.y[sec]) = YLen(sec)
    BY <1>2 DEF ProofType, Back, WellShaped
  <2>2. j + 1 \in 1 .. Len(proof.y[sec])
    BY <1>2, <2>1
  <2>3. \A x \in 1 .. Len(proof.y[sec]) : proof.y[sec][x] < P
    BY <1>2, ProverRanges
  <2> QED
    BY <1>5, <2>1, <2>2, <2>3
<1>9. d \in [1 .. FieldBytes -> Byte] /\ Value(d) = v /\ FieldOk(d) /\ FieldBytes \in Nat
  BY <1>6, <1>8, FieldFits, Basics
<1>10. T[k + 1].bytes = consumed \o d /\ Width = FieldBytes
  BY <1>7 DEF YAt, Width
<1>11. Chunks(Width) = {d} /\ ~Eof(Width)
  <2>1. d \in [1 .. Width -> Byte] /\ Width \in Nat
    BY <1>9, <1>10
  <2>2. Full(n, T)
    BY DEF Back
  <2>3. T[k + 1].bytes = consumed \o d /\ k + 1 \in 0 .. n
    BY <1>1, <1>10
  <2> QED
    BY <2>1, <2>2, <2>3, NextChunk, Zenon
<1>12. Accepts(d)
  BY <1>9 DEF Accepts
<1> QED
  BY <1>1, <1>5, <1>7, <1>9, <1>11, <1>12

LEMMA NonceAhead ==
  ASSUME TInv, input = "honest", side = "read", proof \in Proofs(geom),
         NEW n, NEW T, NEW k, Back(n, T, k), pc = "nonce", j < geom.nreq
  PROVE  \E d : /\ Chunks(Width) = {d} /\ ~Eof(Width) /\ Accepts(d)
                /\ Value(d) = proof.nonce[j + 1]
                /\ k + 1 \in 0 .. n /\ T[k + 1] = NonceAt(j + 1, consumed \o d)
<1>1. /\ k + 1 \in 0 .. n /\ Go(geom, proof, T[k], T[k + 1])
  BY OnTheWayBack
<1>2. j \in Nat /\ proof \in ProofType /\ geom \in Geometries /\ geom.nreq \in Nat
  BY Lengths DEF TInv, TypeOK
<1>3. T[k].at = "nonce" /\ T[k].j = j /\ T[k].bytes = consumed
  BY DEF Back, Here, NonceAt
<1>4. GoNonce(geom, proof, T[k], T[k + 1])
  <2>1. T[k].j # geom.nreq
    BY <1>2, <1>3
  <2> QED
    BY <1>1, <1>3, <2>1
       DEF Go, GoY, GoSection, GoStart, GoRun, GoElt, GoEnd, GoPathLen, GoPath
<1>5. PICK v : v = proof.nonce[j + 1]
  OBVIOUS
<1>6. PICK d : d = Bytes(v, DigestBytes)
  OBVIOUS
<1>7. T[k + 1] = NonceAt(j + 1, consumed \o d)
  BY <1>3, <1>4, <1>5, <1>6 DEF GoNonce
<1>8. v \in Nat /\ v < Powers(DigestBytes)[DigestBytes]
  <2>1. proof.nonce \in Seq(Nat) /\ Len(proof.nonce) = geom.nreq
    BY <1>2 DEF ProofType, Back, WellShaped
  <2>2. j + 1 \in 1 .. Len(proof.nonce)
    BY <1>2, <2>1
  <2>3. \A x \in 1 .. Len(proof.nonce) : proof.nonce[x] < Powers(DigestBytes)[DigestBytes]
    BY <1>2, ProverRanges
  <2> QED
    BY <1>5, <2>1, <2>2, <2>3
<1>9. d \in [1 .. DigestBytes -> Byte] /\ Value(d) = v /\ DigestBytes \in Nat
  BY <1>6, <1>8, DigestFits, Basics
<1>10. T[k + 1].bytes = consumed \o d /\ Width = DigestBytes
  BY <1>7 DEF NonceAt, Width
<1>11. Chunks(Width) = {d} /\ ~Eof(Width)
  <2>1. d \in [1 .. Width -> Byte] /\ Width \in Nat
    BY <1>9, <1>10
  <2>2. Full(n, T)
    BY DEF Back
  <2>3. T[k + 1].bytes = consumed \o d /\ k + 1 \in 0 .. n
    BY <1>1, <1>10
  <2> QED
    BY <2>1, <2>2, <2>3, NextChunk, Zenon
<1>12. Accepts(d)
  BY DEF Accepts
<1> QED
  BY <1>1, <1>5, <1>7, <1>9, <1>11, <1>12

LEMMA DigestAhead ==
  ASSUME TInv, input = "honest", side = "read", proof \in Proofs(geom),
         NEW n, NEW T, NEW k, Back(n, T, k), pc = "path", j < runlen
  PROVE  \E d : /\ Chunks(Width) = {d} /\ ~Eof(Width) /\ Accepts(d)
                /\ Value(d) = proof.path[j + 1] /\ j < Len(proof.path)
                /\ k + 1 \in 0 .. n /\ T[k + 1] = PathAt(runlen, j + 1, consumed \o d)
<1>1. /\ j \in Nat /\ proof \in ProofType /\ geom \in Geometries /\ runlen \in Nat
  BY DEF TInv, TypeOK
<1>2. /\ k + 1 \in 0 .. n /\ Go(geom, proof, T[k], T[k + 1])
  BY <1>1, OnTheWayBack
<1>3. T[k].at = "path" /\ T[k].j = j /\ T[k].bytes = consumed /\ T[k].len = runlen
  BY DEF Back, Here, PathAt
<1>4. GoPath(proof, T[k], T[k + 1])
  BY <1>2, <1>3
     DEF Go, GoY, GoSection, GoNonce, GoStart, GoRun, GoElt, GoEnd, GoPathLen
<1>5. PICK v : v = proof.path[j + 1]
  OBVIOUS
<1>6. PICK d : d = Bytes(v, DigestBytes)
  OBVIOUS
<1>7. T[k + 1] = PathAt(runlen, j + 1, consumed \o d) /\ j < Len(proof.path)
  BY <1>3, <1>4, <1>5, <1>6 DEF GoPath
<1>8. v \in Nat /\ v < Powers(DigestBytes)[DigestBytes]
  <2>1. proof.path \in Seq(Nat)
    BY <1>1 DEF ProofType
  <2>2. j + 1 \in 1 .. Len(proof.path)
    BY <1>1, <1>7, <2>1
  <2>3. \A x \in 1 .. Len(proof.path) : proof.path[x] < Powers(DigestBytes)[DigestBytes]
    BY <1>1, ProverRanges
  <2> QED
    BY <1>5, <2>1, <2>2, <2>3
<1>9. d \in [1 .. DigestBytes -> Byte] /\ Value(d) = v /\ DigestBytes \in Nat
  BY <1>6, <1>8, DigestFits, Basics
<1>10. T[k + 1].bytes = consumed \o d /\ Width = DigestBytes
  BY <1>7 DEF PathAt, Width
<1>11. Chunks(Width) = {d} /\ ~Eof(Width)
  <2>1. d \in [1 .. Width -> Byte] /\ Width \in Nat
    BY <1>9, <1>10
  <2>2. Full(n, T)
    BY DEF Back
  <2>3. T[k + 1].bytes = consumed \o d /\ k + 1 \in 0 .. n
    BY <1>2, <1>10
  <2> QED
    BY <2>1, <2>2, <2>3, NextChunk, Zenon
<1>12. Accepts(d)
  BY DEF Accepts
<1> QED
  BY <1>2, <1>5, <1>7, <1>9, <1>11, <1>12

LEMMA EltAhead ==
  ASSUME TInv, input = "honest", side = "read", proof \in Proofs(geom),
         NEW n, NEW T, NEW k, Back(n, T, k), pc = "elts", j < runlen
  PROVE  \E d : /\ Chunks(Width) = {d} /\ ~Eof(Width) /\ Accepts(d)
                /\ (IF subfield_run THEN Embed[Value(d)] ELSE Value(d)) = proof.req[ci + j + 1]
                /\ k + 1 \in 0 .. n
                /\ T[k + 1] = EltsAt(ci, Kind(subfield_run), runlen, j + 1, consumed \o d)
<1>1. /\ j \in Nat /\ proof \in ProofType /\ geom \in Geometries /\ runlen \in Nat
      /\ ci \in 0 .. Total /\ Total \in Nat /\ subfield_run \in BOOLEAN
  BY Lengths DEF TInv, TypeOK
<1>2. /\ k + 1 \in 0 .. n /\ Go(geom, proof, T[k], T[k + 1])
  BY OnTheWayBack
<1>3. /\ T[k].at = "elts" /\ T[k].j = j /\ T[k].bytes = consumed /\ T[k].len = runlen
      /\ T[k].ci = ci /\ T[k].kind = Kind(subfield_run)
  BY DEF Back, Here, EltsAt
<1>4. GoElt(proof, T[k], T[k + 1])
  <2>1. T[k].j # T[k].len
    BY <1>1, <1>3
  <2> QED
    BY <1>2, <1>3, <2>1
       DEF Go, GoY, GoSection, GoNonce, GoStart, GoRun, GoEnd, GoPathLen, GoPath
<1>5. PICK e : e = proof.req[ci + j + 1]
  OBVIOUS
<1>6. PICK d : d = EltCode(Kind(subfield_run), e)
  OBVIOUS
<1>7. T[k + 1] = EltsAt(ci, Kind(subfield_run), runlen, j + 1, consumed \o d)
  BY <1>3, <1>4, <1>5, <1>6 DEF GoElt
<1>8. e \in Nat /\ e < P /\ InSubfield(e) = subfield_run
  <2>1. proof.req \in Seq(Nat) /\ Len(proof.req) = Total
    BY <1>1 DEF ProofType, Back, WellShaped
  <2>2. IsRunLen(runlen)
    BY DEF Back, KindsOk
  <2>3. ci + j + 1 \in 1 .. Total /\ ci + j + 1 \in ci + 1 .. ci + runlen
    <3>1. runlen \in 0 .. Total - ci
      BY <2>2 DEF IsRunLen
    <3> QED
      BY <1>1, <3>1
  <2>4. e \in Nat
    BY <1>5, <2>1, <2>3
  <2>5. InSubfield(e) = subfield_run
    BY <1>5, <2>2, <2>3 DEF IsRunLen, OfKind
  <2>6. \A x \in 1 .. Len(proof.req) : proof.req[x] < P
    BY <1>1, ProverRanges
  <2>7. e < P
    BY <1>5, <2>1, <2>3, <2>6
  <2> QED
    BY <2>4, <2>5, <2>7
<1>9. /\ d \in [1 .. Width -> Byte] /\ Width \in Nat /\ EltOk(d)
      /\ (IF subfield_run THEN Embed[Value(d)] ELSE Value(d)) = e
  <2>1. CASE subfield_run
    <3>1. d = Bytes(SubCode(e), SubBytes) /\ Width = SubBytes /\ SubBytes \in Nat
      BY <1>6, <2>1, Basics DEF EltCode, Kind, Width
    <3>2. d \in [1 .. SubBytes -> Byte] /\ SubOk(d) /\ Embed[Value(d)] = e
      BY <1>8, <2>1, <3>1, SubFits
    <3> QED
      BY <2>1, <3>1, <3>2 DEF EltOk
  <2>2. CASE ~subfield_run
    <3>1. d = Bytes(e, FieldBytes) /\ Width = FieldBytes /\ FieldBytes \in Nat
      BY <1>6, <2>2, Basics DEF EltCode, Kind, Width
    <3>2. d \in [1 .. FieldBytes -> Byte] /\ Value(d) = e /\ FieldOk(d)
      BY <1>8, <3>1, FieldFits
    <3>3. ~InSubfield(e)
      BY <1>8, <2>2
    <3> QED
      BY <2>2, <3>1, <3>2, <3>3 DEF EltOk
  <2> QED
    BY <2>1, <2>2
<1>10. T[k + 1].bytes = consumed \o d
  BY <1>7 DEF EltsAt
<1>11. Chunks(Width) = {d} /\ ~Eof(Width)
  <2>1. d \in [1 .. Width -> Byte] /\ Width \in Nat
    BY <1>9, <1>10
  <2>2. Full(n, T)
    BY DEF Back
  <2>3. T[k + 1].bytes = consumed \o d /\ k + 1 \in 0 .. n
    BY <1>2, <1>10
  <2> QED
    BY <2>1, <2>2, <2>3, NextChunk, Zenon
<1>12. Accepts(d)
  BY <1>9 DEF Accepts
<1> QED
  BY <1>2, <1>5, <1>7, <1>9, <1>11, <1>12

LEMMA RunAhead ==
  ASSUME TInv, input = "honest", side = "read",
         NEW n, NEW T, NEW k, Back(n, T, k), pc = "run", ci < Total
  PROVE  \E d, v : /\ Chunks(Width) = {d} /\ ~Eof(Width) /\ Value(d) = v /\ v \in Nat
                   /\ IsRunLen(v) /\ (Accepts(d) \/ HasLongRun)
                   /\ k + 1 \in 0 .. n
                   /\ T[k + 1] = EltsAt(ci, Kind(subfield_run), v, 0, consumed \o d)
<1>1. /\ Total \in Nat /\ ci \in 0 .. Total /\ subfield_run \in BOOLEAN
      /\ MAX_RUN_LEN \in Nat /\ first_run \in BOOLEAN
  BY Lengths, CodecAssumption DEF TInv, TypeOK
<1>2. Len(proof.req) = Total
  BY DEF Back, WellShaped
<1>3. k + 1 \in 0 .. n /\ Go(geom, proof, T[k], T[k + 1]) /\ T[k + 1] \in Spot
  BY OnTheWayBack
<1>4. /\ T[k].at = "run" /\ T[k].ci = ci /\ T[k].kind = Kind(subfield_run)
      /\ T[k].bytes = consumed
  BY DEF Back, Here, RunAt
<1>5. GoRun(geom, proof, T[k], T[k + 1])
  <2>1. ~(T[k].ci >= Tot(geom))
    BY <1>1, <1>4, GeomLengths
  <2> QED
    BY <1>3, <1>4, <2>1
       DEF Go, GoY, GoSection, GoNonce, GoStart, GoElt, GoEnd, GoPathLen, GoPath
<1>6. PICK v : v = T[k + 1].len
  OBVIOUS
<1>7. PICK d : d = Bytes(v, SizeBytes)
  OBVIOUS
<1>8. /\ v \in Nat /\ v <= MaxSize /\ ci + v <= Total
      /\ \A x \in ci + 1 .. ci + v : x <= Total => EltKind(proof.req[x]) = Kind(subfield_run)
      /\ ci + v < Total => EltKind(proof.req[ci + v + 1]) # Kind(subfield_run)
      /\ T[k + 1] = EltsAt(ci, Kind(subfield_run), v, 0, consumed \o d)
  <2>1. v \in Nat
    BY <1>3, <1>6 DEF Spot
  <2>2. Tot(geom) = Total
    BY GeomLengths
  <2> QED
    BY <1>2, <1>4, <1>5, <1>6, <1>7, <2>1, <2>2 DEF GoRun
<1>9. /\ v \in 0 .. Total - ci
      /\ \A x \in ci + 1 .. ci + v : InSubfield(proof.req[x]) = subfield_run
      /\ ci + v < Total => InSubfield(proof.req[ci + v + 1]) # subfield_run
  <2>1. v \in 0 .. Total - ci
    BY <1>1, <1>8
  <2>2. ASSUME NEW x \in ci + 1 .. ci + v
        PROVE  InSubfield(proof.req[x]) = subfield_run
    <3>1. x <= Total
      BY <1>1, <1>8
    <3>2. EltKind(proof.req[x]) = Kind(subfield_run)
      BY <1>8, <3>1
    <3> QED
      BY <1>1, <3>2, KindIs
  <2>3. ci + v < Total => InSubfield(proof.req[ci + v + 1]) # subfield_run
    BY <1>1, <1>8, KindIs
  <2> QED
    BY <2>1, <2>2, <2>3
<1>10. IsRunLen(v)
  BY <1>9 DEF IsRunLen, OfKind
<1>11. d \in [1 .. SizeBytes -> Byte] /\ Value(d) = v
  BY <1>7, <1>8, SizeIsRead
<1>12. Chunks(Width) = {d} /\ ~Eof(Width)
  <2>1. Width = SizeBytes /\ SizeBytes \in Nat
    BY Basics DEF Width
  <2>2. d \in [1 .. Width -> Byte] /\ Width \in Nat
    BY <1>11, <2>1
  <2>3. Full(n, T)
    BY DEF Back
  <2>4. T[k + 1].bytes = consumed \o d /\ k + 1 \in 0 .. n
    BY <1>3, <1>8 DEF EltsAt
  <2> QED
    BY <2>2, <2>3, <2>4, NextChunk, Zenon
<1>13. ~(v = 0 /\ ~first_run)
  <2> SUFFICES ASSUME v = 0, ~first_run PROVE FALSE
    OBVIOUS
  <2>1. InSubfield(proof.req[ci + 1]) = subfield_run
    BY DEF Back, KindsOk
  <2>2. ci + v + 1 = ci + 1 /\ ci + v < Total
    BY <1>1
  <2> QED
    BY <1>9, <2>1, <2>2
<1>14. CASE v < MAX_RUN_LEN
  <2>1. RunOk(v)
    BY <1>8, <1>13, <1>14 DEF RunOk
  <2>2. Accepts(d)
    BY <1>11, <2>1 DEF Accepts
  <2> QED
    BY <1>3, <1>8, <1>10, <1>11, <1>12, <2>2
<1>15. CASE ~(v < MAX_RUN_LEN)
  <2>1. ci + 1 \in 1 .. Total - MAX_RUN_LEN + 1
    BY <1>1, <1>8, <1>15
  <2>2. ASSUME NEW x \in ci + 1 .. (ci + 1) + MAX_RUN_LEN - 1
        PROVE  InSubfield(proof.req[x]) = InSubfield(proof.req[ci + 1])
    <3>1. x \in ci + 1 .. ci + v /\ ci + 1 \in ci + 1 .. ci + v
      BY <1>1, <1>8, <1>15
    <3> QED
      BY <1>9, <3>1
  <2>3. HasLongRun
    BY <2>1, <2>2 DEF HasLongRun
  <2> QED
    BY <1>3, <1>8, <1>10, <1>11, <1>12, <2>3
<1> QED
  BY <1>14, <1>15

LEMMA PathLenAhead ==
  ASSUME TInv, input = "honest", side = "read", proof \in Proofs(geom),
         NEW n, NEW T, NEW k, Back(n, T, k), pc = "path_len", ci >= Total
  PROVE  \E d, v : /\ Chunks(Width) = {d} /\ ~Eof(Width) /\ Value(d) = v /\ Accepts(d)
                   /\ k + 1 \in 0 .. n
                   /\ T[k + 1] = PathAt(v, 0, consumed \o d)
<1>1. Total \in Nat /\ ci \in 0 .. Total /\ geom \in Geometries
  BY Lengths DEF TInv, TypeOK
<1>2. k + 1 \in 0 .. n /\ Go(geom, proof, T[k], T[k + 1]) /\ T[k + 1] \in Spot
  BY OnTheWayBack
<1>3. T[k].at = "run" /\ T[k].ci = ci /\ T[k].bytes = consumed
  BY DEF Back, Here, RunAt
<1>4. GoPathLen(geom, T[k], T[k + 1])
  <2>1. ~(T[k].ci < Tot(geom))
    BY <1>1, <1>3, GeomLengths
  <2> QED
    BY <1>2, <1>3, <2>1
       DEF Go, GoY, GoSection, GoNonce, GoStart, GoRun, GoElt, GoEnd, GoPath
<1>5. PICK v : v = T[k + 1].len
  OBVIOUS
<1>6. PICK d : d = Bytes(v, SizeBytes)
  OBVIOUS
<1>7. /\ v \in Nat /\ v <= MaxSize /\ T[k + 1] = PathAt(v, 0, consumed \o d)
  <2>1. v \in Nat
    BY <1>2, <1>5 DEF Spot
  <2> QED
    BY <1>3, <1>4, <1>5, <1>6, <2>1 DEF GoPathLen
<1>8. v = Len(proof.path)
  <2>1. T[k + 1].at = "path"
    BY <1>7 DEF PathAt
  <2> QED
    BY <1>2, <1>5, <2>1 DEF Back, Full, Joined
<1>9. d \in [1 .. SizeBytes -> Byte] /\ Value(d) = v
  BY <1>6, <1>7, SizeIsRead
<1>10. Chunks(Width) = {d} /\ ~Eof(Width)
  <2>1. Width = SizeBytes /\ SizeBytes \in Nat
    BY Basics DEF Width
  <2>2. d \in [1 .. Width -> Byte] /\ Width \in Nat
    BY <1>9, <2>1
  <2>3. Full(n, T)
    BY DEF Back
  <2>4. T[k + 1].bytes = consumed \o d /\ k + 1 \in 0 .. n
    BY <1>2, <1>7 DEF PathAt
  <2> QED
    BY <2>2, <2>3, <2>4, NextChunk, Zenon
<1>11. Accepts(d)
  <2>1. Len(proof.path) <= Limit
    BY <1>1, ProverRanges
  <2> QED
    BY <1>8, <1>9, <2>1 DEF Accepts, Limit
<1> QED
  BY <1>2, <1>7, <1>9, <1>10, <1>11

LEMMA Backs ==
  ASSUME NEW n, NEW T, NEW k, Back(n, T, k), UNCHANGED <<geom, proof, out>>,
         NEW i \in 0 .. n, Here(T[i])', Extends(got', proof), KindsOk'
  PROVE  \E m, U, x : Back(m, U, x)'
<1>1. Full(n, T) /\ WellShaped
  BY DEF Back
<1>2. Full(n, T)'
  BY <1>1 DEF Full, Joined
<1>3. WellShaped'
  BY <1>1 DEF WellShaped, YLen, Total
<1>4. Extends(got, proof)'
  OBVIOUS
<1>5. Back(n, T, i)'
  BY <1>2, <1>3, <1>4 DEF Back
<1> QED
  BY <1>5

LEMMA ReadYBack ==
  ASSUME TInv, input = "honest", proof \in Proofs(geom),
         NEW n, NEW T, NEW k, Back(n, T, k), NEW c \in Chunks(Width), ReadY(c)
  PROVE  \E m, U, x : Back(m, U, x)'
<1>1. /\ pc = "y" /\ side = "read" /\ j < YLen(sec) /\ consumed' = consumed \o c
      /\ UNCHANGED <<geom, proof, out, pc, sec>> /\ j' = j + 1
      /\ got' = [got EXCEPT !.y[sec] = Append(@, Value(c))]
  BY DEF ReadY, Take, Reading, MoreToRead
<1>2. PICK d : /\ Chunks(Width) = {d} /\ Value(d) = proof.y[sec][j + 1]
               /\ k + 1 \in 0 .. n /\ T[k + 1] = YAt(sec, j + 1, consumed \o d)
  BY <1>1, YAhead
<1>3. c = d
  BY <1>2
<1>4. Here(T[k + 1])'
  BY <1>1, <1>2, <1>3 DEF Here
<1>5. KindsOk'
  BY <1>1 DEF KindsOk
<1>6. Extends(got', proof)
  <2>1. /\ sec \in 1 .. 4 /\ j \in Nat /\ got \in ProofType /\ proof \in ProofType
        /\ YLen(sec) \in Nat
    BY Lengths DEF TInv, TypeOK
  <2>2. Len(got.y[sec]) = j
    BY <1>1, <2>1 DEF TInv, ReadShape, YTo
  <2>3. Len(proof.y[sec]) = YLen(sec)
    BY <2>1 DEF Back, WellShaped
  <2>4. /\ Grows(got.nonce, proof.nonce) /\ Grows(got.req, proof.req)
        /\ Grows(got.path, proof.path)
        /\ \A s \in 1 .. 4 : Grows(got.y[s], proof.y[s])
    BY DEF Back, Extends
  <2>5. got.y \in [1 .. 4 -> Seq(Nat)] /\ proof.y \in [1 .. 4 -> Seq(Nat)]
    BY <2>1 DEF ProofType
  <2>6. PICK a : a = Append(got.y[sec], Value(c))
    OBVIOUS
  <2>7. Grows(a, proof.y[sec]) /\ a \in Seq(Nat)
    <3>1. got.y[sec] \in Seq(Nat) /\ proof.y[sec] \in Seq(Nat) /\ Grows(got.y[sec], proof.y[sec])
      BY <2>1, <2>4, <2>5
    <3>2. j < Len(proof.y[sec]) /\ Value(c) = proof.y[sec][j + 1]
      BY <1>1, <1>2, <1>3, <2>3
    <3> QED
      BY <2>2, <2>6, <3>1, <3>2, GrowsNext
  <2>8. PICK f : f = [got.y EXCEPT ![sec] = a]
    OBVIOUS
  <2>9. got' = [got EXCEPT !.y = f]
    BY <1>1, <2>1, <2>5, <2>6, <2>8 DEF ProofType
  <2>10. f \in [1 .. 4 -> Seq(Nat)] /\ \A s \in 1 .. 4 : Grows(f[s], proof.y[s])
    BY <2>1, <2>4, <2>5, <2>7, <2>8
  <2>11. /\ got' \in ProofType /\ got'.y = f /\ got'.nonce = got.nonce
         /\ got'.req = got.req /\ got'.path = got.path
    BY <2>1, <2>9, <2>10 DEF ProofType
  <2> QED
    BY <2>1, <2>4, <2>10, <2>11 DEF Extends
<1> QED
  BY <1>1, <1>2, <1>4, <1>5, <1>6, Backs

LEMMA ReadNonceBack ==
  ASSUME TInv, input = "honest", proof \in Proofs(geom),
         NEW n, NEW T, NEW k, Back(n, T, k), NEW c \in Chunks(Width), ReadNonce(c)
  PROVE  \E m, U, x : Back(m, U, x)'
<1>1. /\ pc = "nonce" /\ side = "read" /\ j < geom.nreq /\ consumed' = consumed \o c
      /\ UNCHANGED <<geom, proof, out, pc>> /\ j' = j + 1
      /\ got' = [got EXCEPT !.nonce = Append(@, Value(c))]
  BY DEF ReadNonce, Take, Reading, MoreToRead
<1>2. PICK d : /\ Chunks(Width) = {d} /\ Value(d) = proof.nonce[j + 1]
               /\ k + 1 \in 0 .. n /\ T[k + 1] = NonceAt(j + 1, consumed \o d)
  BY <1>1, NonceAhead
<1>3. c = d
  BY <1>2
<1>4. Here(T[k + 1])'
  BY <1>1, <1>2, <1>3 DEF Here
<1>5. KindsOk'
  BY <1>1 DEF KindsOk
<1>6. Extends(got', proof)
  <2>1. j \in Nat /\ got \in ProofType /\ proof \in ProofType
    BY DEF TInv, TypeOK
  <2>2. Len(got.nonce) = j
    BY <1>1 DEF TInv, ReadShape
  <2>3. Len(proof.nonce) = geom.nreq
    BY DEF Back, WellShaped
  <2>4. /\ Grows(got.nonce, proof.nonce) /\ Grows(got.req, proof.req)
        /\ Grows(got.path, proof.path)
        /\ \A s \in 1 .. 4 : Grows(got.y[s], proof.y[s])
    BY DEF Back, Extends
  <2>5. got.nonce \in Seq(Nat) /\ proof.nonce \in Seq(Nat)
    BY <2>1 DEF ProofType
  <2>6. PICK a : a = Append(got.nonce, Value(c))
    OBVIOUS
  <2>7. Grows(a, proof.nonce) /\ a \in Seq(Nat)
    <3>1. j < Len(proof.nonce) /\ Value(c) = proof.nonce[j + 1]
      BY <1>1, <1>2, <1>3, <2>3
    <3> QED
      BY <2>2, <2>4, <2>5, <2>6, <3>1, GrowsNext
  <2>8. got' = [got EXCEPT !.nonce = a]
    BY <1>1, <2>1, <2>6 DEF ProofType
  <2>9. /\ got' \in ProofType /\ got'.y = got.y /\ got'.nonce = a
        /\ got'.req = got.req /\ got'.path = got.path
    BY <2>1, <2>7, <2>8 DEF ProofType
  <2> QED
    BY <2>1, <2>4, <2>7, <2>9 DEF Extends
<1> QED
  BY <1>1, <1>2, <1>4, <1>5, <1>6, Backs

LEMMA ReadDigestBack ==
  ASSUME TInv, input = "honest", proof \in Proofs(geom),
         NEW n, NEW T, NEW k, Back(n, T, k), NEW c \in Chunks(Width), ReadDigest(c)
  PROVE  \E m, U, x : Back(m, U, x)'
<1>1. /\ pc = "path" /\ side = "read" /\ j < runlen /\ consumed' = consumed \o c
      /\ UNCHANGED <<geom, proof, out, pc, runlen>> /\ j' = j + 1
      /\ got' = [got EXCEPT !.path = Append(@, Value(c))]
  BY DEF ReadDigest, Take, Reading, MoreToRead
<1>2. PICK d : /\ Chunks(Width) = {d} /\ Value(d) = proof.path[j + 1] /\ j < Len(proof.path)
               /\ k + 1 \in 0 .. n /\ T[k + 1] = PathAt(runlen, j + 1, consumed \o d)
  BY <1>1, DigestAhead
<1>3. c = d
  BY <1>2
<1>4. Here(T[k + 1])'
  BY <1>1, <1>2, <1>3 DEF Here
<1>5. KindsOk'
  BY <1>1 DEF KindsOk
<1>6. Extends(got', proof)
  <2>1. j \in Nat /\ got \in ProofType /\ proof \in ProofType
    BY DEF TInv, TypeOK
  <2>2. Len(got.path) = j
    BY <1>1 DEF TInv, ReadShape
  <2>4. /\ Grows(got.nonce, proof.nonce) /\ Grows(got.req, proof.req)
        /\ Grows(got.path, proof.path)
        /\ \A s \in 1 .. 4 : Grows(got.y[s], proof.y[s])
    BY DEF Back, Extends
  <2>5. got.path \in Seq(Nat) /\ proof.path \in Seq(Nat)
    BY <2>1 DEF ProofType
  <2>6. PICK a : a = Append(got.path, Value(c))
    OBVIOUS
  <2>7. Grows(a, proof.path) /\ a \in Seq(Nat)
    <3>1. Value(c) = proof.path[j + 1]
      BY <1>2, <1>3
    <3> QED
      BY <1>2, <2>2, <2>4, <2>5, <2>6, <3>1, GrowsNext
  <2>8. got' = [got EXCEPT !.path = a]
    BY <1>1, <2>1, <2>6 DEF ProofType
  <2>9. /\ got' \in ProofType /\ got'.y = got.y /\ got'.nonce = got.nonce
        /\ got'.req = got.req /\ got'.path = a
    BY <2>1, <2>7, <2>8 DEF ProofType
  <2> QED
    BY <2>1, <2>4, <2>7, <2>9 DEF Extends
<1> QED
  BY <1>1, <1>2, <1>4, <1>5, <1>6, Backs

LEMMA ReadEltBack ==
  ASSUME TInv, input = "honest", proof \in Proofs(geom),
         NEW n, NEW T, NEW k, Back(n, T, k), NEW c \in Chunks(Width), ReadElt(c)
  PROVE  \E m, U, x : Back(m, U, x)'
<1>1. /\ pc = "elts" /\ side = "read" /\ j < runlen /\ consumed' = consumed \o c
      /\ UNCHANGED <<geom, proof, out, pc, ci, runlen, subfield_run, first_run>> /\ j' = j + 1
      /\ got' = [got EXCEPT !.req = Append(@, IF subfield_run THEN Embed[Value(c)] ELSE Value(c))]
  BY DEF ReadElt, Take, Reading, MoreToRead
<1>2. PICK d :
        /\ Chunks(Width) = {d}
        /\ (IF subfield_run THEN Embed[Value(d)] ELSE Value(d)) = proof.req[ci + j + 1]
        /\ k + 1 \in 0 .. n
        /\ T[k + 1] = EltsAt(ci, Kind(subfield_run), runlen, j + 1, consumed \o d)
  BY <1>1, EltAhead
<1>3. c = d
  BY <1>2
<1>4. Here(T[k + 1])'
  BY <1>1, <1>2, <1>3 DEF Here
<1>5. KindsOk'
  BY <1>1 DEF Back, KindsOk, IsRunLen, OfKind, Total
<1>6. Extends(got', proof)
  <2>1. /\ j \in Nat /\ got \in ProofType /\ proof \in ProofType /\ ci \in 0 .. Total
        /\ Total \in Nat /\ runlen \in Nat
    BY Lengths DEF TInv, TypeOK
  <2>2. Len(got.req) = ci + j /\ ci + runlen <= Total
    BY <1>1 DEF TInv, ReadShape
  <2>3. Len(proof.req) = Total
    BY DEF Back, WellShaped
  <2>4. /\ Grows(got.nonce, proof.nonce) /\ Grows(got.req, proof.req)
        /\ Grows(got.path, proof.path)
        /\ \A s \in 1 .. 4 : Grows(got.y[s], proof.y[s])
    BY DEF Back, Extends
  <2>5. got.req \in Seq(Nat) /\ proof.req \in Seq(Nat)
    BY <2>1 DEF ProofType
  <2>6. PICK v : v = IF subfield_run THEN Embed[Value(c)] ELSE Value(c)
    OBVIOUS
  <2>7. PICK a : a = Append(got.req, v)
    OBVIOUS
  <2>8. Grows(a, proof.req) /\ a \in Seq(Nat)
    <3>1. ci + j < Len(proof.req) /\ v = proof.req[(ci + j) + 1]
      BY <1>1, <1>2, <1>3, <2>1, <2>2, <2>3, <2>6
    <3> QED
      BY <2>2, <2>4, <2>5, <2>7, <3>1, GrowsNext
  <2>9. got' = [got EXCEPT !.req = a]
    BY <1>1, <2>1, <2>6, <2>7 DEF ProofType
  <2>10. /\ got' \in ProofType /\ got'.y = got.y /\ got'.nonce = got.nonce
         /\ got'.req = a /\ got'.path = got.path
    BY <2>1, <2>8, <2>9 DEF ProofType
  <2> QED
    BY <2>1, <2>4, <2>8, <2>10 DEF Extends
<1> QED
  BY <1>1, <1>2, <1>4, <1>5, <1>6, Backs

LEMMA ReadRunLenBack ==
  ASSUME TInv, input = "honest",
         NEW n, NEW T, NEW k, Back(n, T, k), NEW c \in Chunks(Width), ReadRunLen(c)
  PROVE  \E m, U, x : Back(m, U, x)'
<1>1. /\ pc = "run" /\ side = "read" /\ ci < Total /\ consumed' = consumed \o c
      /\ UNCHANGED <<geom, proof, out, got, ci, subfield_run>>
      /\ pc' = "elts" /\ j' = 0 /\ runlen' = Value(c)
  BY DEF ReadRunLen, Take, Reading, MoreToRead
<1>2. PICK d, v : /\ Chunks(Width) = {d} /\ Value(d) = v /\ IsRunLen(v) /\ k + 1 \in 0 .. n
                  /\ T[k + 1] = EltsAt(ci, Kind(subfield_run), v, 0, consumed \o d)
  BY <1>1, RunAhead
<1>3. c = d
  BY <1>2
<1>4. Here(T[k + 1])'
  BY <1>1, <1>2, <1>3 DEF Here
<1>5. KindsOk'
  BY <1>1, <1>2, <1>3 DEF KindsOk, IsRunLen, OfKind, Total
<1>6. Extends(got', proof)
  BY <1>1 DEF Back
<1> QED
  BY <1>1, <1>2, <1>4, <1>5, <1>6, Backs

LEMMA ReadPathLenBack ==
  ASSUME TInv, input = "honest", proof \in Proofs(geom), ci >= Total,
         NEW n, NEW T, NEW k, Back(n, T, k), NEW c \in Chunks(Width), ReadPathLen(c)
  PROVE  \E m, U, x : Back(m, U, x)'
<1>1. /\ pc = "path_len" /\ side = "read" /\ consumed' = consumed \o c
      /\ UNCHANGED <<geom, proof, out, got>>
      /\ pc' = "path" /\ j' = 0 /\ runlen' = Value(c)
  BY DEF ReadPathLen, Take, Reading
<1>2. PICK d, v : /\ Chunks(Width) = {d} /\ Value(d) = v /\ k + 1 \in 0 .. n
                  /\ T[k + 1] = PathAt(v, 0, consumed \o d)
  BY <1>1, PathLenAhead
<1>3. c = d
  BY <1>2
<1>4. Here(T[k + 1])'
  BY <1>1, <1>2, <1>3 DEF Here
<1>5. KindsOk'
  BY <1>1 DEF KindsOk
<1>6. Extends(got', proof)
  BY <1>1 DEF Back
<1> QED
  BY <1>1, <1>2, <1>4, <1>5, <1>6, Backs

LEMMA LoopEndBack ==
  ASSUME TInv, side = "read", NEW n, NEW T, NEW k, Back(n, T, k),
         NextSection \/ StartRuns \/ EndRun
  PROVE  \E m, U, x : Back(m, U, x)'
<1>1. UNCHANGED <<geom, proof, out, got, consumed>> /\ pc \in {"y", "nonce", "elts"}
  BY DEF NextSection, StartRuns, EndRun
<1>2. /\ Total \in Nat /\ ci \in 0 .. Total /\ subfield_run \in BOOLEAN /\ runlen \in Nat
      /\ sec \in 1 .. 4
  BY Lengths DEF TInv, TypeOK
<1>3. k + 1 \in 0 .. n /\ Go(geom, proof, T[k], T[k + 1])
  BY <1>1, OnTheWayBack
<1>4. Extends(got', proof) /\ Here(T[k]) /\ KindsOk
  BY <1>1 DEF Back
<1>5. CASE NextSection
  <2>1. /\ pc = "y" /\ j = YLen(sec) /\ j' = 0
        /\ IF sec < 4 THEN sec' = sec + 1 /\ pc' = "y" ELSE pc' = "nonce"
    BY <1>5 DEF NextSection
  <2>2. T[k].at = "y" /\ T[k].sec = sec /\ T[k].j = j /\ T[k].bytes = consumed
    BY <1>4, <2>1 DEF Here, YAt
  <2>3. GoSection(geom, T[k], T[k + 1])
    <3>1. ~(T[k].j < YL(geom, T[k].sec))
      <4>1. YLen(sec) \in Nat
        BY <1>2, Lengths DEF TInv, TypeOK
      <4> QED
        BY <2>1, <2>2, <4>1, GeomLengths
    <3> QED
      BY <1>3, <2>2, <3>1
         DEF Go, GoY, GoNonce, GoStart, GoRun, GoElt, GoEnd, GoPathLen, GoPath
  <2>4. T[k + 1] = IF sec < 4 THEN YAt(sec + 1, 0, consumed) ELSE NonceAt(0, consumed)
    BY <2>2, <2>3 DEF GoSection
  <2>5. Here(T[k + 1])' /\ KindsOk'
    BY <1>1, <2>1, <2>4 DEF Here, KindsOk
  <2> QED
    BY <1>1, <1>3, <1>4, <2>5, Backs
<1>6. CASE StartRuns
  <2>1. /\ pc = "nonce" /\ j = geom.nreq /\ ci' = 0 /\ subfield_run' = FALSE /\ first_run' = TRUE
        /\ pc' = "run" /\ geom.nreq \in Nat
    BY <1>6, Lengths DEF StartRuns, TInv, TypeOK
  <2>2. T[k].at = "nonce" /\ T[k].j = j /\ T[k].bytes = consumed
    BY <1>4, <2>1 DEF Here, NonceAt
  <2>3. GoStart(geom, T[k], T[k + 1])
    BY <1>3, <2>1, <2>2
       DEF Go, GoY, GoSection, GoNonce, GoRun, GoElt, GoEnd, GoPathLen, GoPath
  <2>4. T[k + 1] = RunAt(0, "field", consumed)
    BY <2>2, <2>3 DEF GoStart
  <2>5. Here(T[k + 1])' /\ KindsOk'
    BY <1>1, <2>1, <2>4 DEF Here, KindsOk, Kind
  <2> QED
    BY <1>1, <1>3, <1>4, <2>5, Backs
<1>7. CASE EndRun
  <2>1. /\ pc = "elts" /\ j = runlen /\ ci' = ci + runlen /\ subfield_run' = ~subfield_run
        /\ pc' = "run" /\ UNCHANGED <<geom, proof>>
    BY <1>7 DEF EndRun
  <2>2. /\ T[k].at = "elts" /\ T[k].j = j /\ T[k].bytes = consumed /\ T[k].ci = ci
        /\ T[k].len = runlen /\ T[k].kind = Kind(subfield_run)
    BY <1>4, <2>1 DEF Here, EltsAt
  <2>3. GoEnd(T[k], T[k + 1])
    BY <1>2, <1>3, <2>1, <2>2
       DEF Go, GoY, GoSection, GoNonce, GoStart, GoRun, GoElt, GoPathLen, GoPath
  <2>4. T[k + 1] = RunAt(ci + runlen, Other(Kind(subfield_run)), consumed)
    BY <2>2, <2>3 DEF GoEnd
  <2>5. Kind(subfield_run') = Other(Kind(subfield_run))
    BY <1>2, <2>1 DEF Kind, Other
  <2>6. Here(T[k + 1])'
    BY <1>1, <2>1, <2>4, <2>5 DEF Here
  <2>7. ci + runlen < Total => InSubfield(proof.req[ci + runlen + 1]) # subfield_run
    BY <1>4, <2>1 DEF KindsOk, IsRunLen
  <2>8. InSubfield(proof.req[ci + runlen + 1]) \in BOOLEAN
    BY DEF InSubfield
  <2>9. ci + runlen < Total => InSubfield(proof.req[ci + runlen + 1]) = ~subfield_run
    BY <1>2, <2>7, <2>8
  <2>10. KindsOk'
    BY <2>1, <2>9 DEF KindsOk, Total
  <2> QED
    BY <1>1, <1>3, <1>4, <2>6, <2>10, Backs
<1> QED
  BY <1>5, <1>6, <1>7

LEMMA RunsDoneBack ==
  ASSUME NEW n, NEW T, NEW k, Back(n, T, k), ReadRunsDone
  PROVE  \E m, U, x : Back(m, U, x)'
<1>1. /\ pc = "run" /\ pc' = "path_len"
      /\ UNCHANGED <<geom, proof, out, got, consumed, ci, subfield_run>>
  BY DEF ReadRunsDone, Reading, position
<1>2. k \in 0 .. n /\ Here(T[k]) /\ Extends(got', proof)
  BY <1>1 DEF Back
<1>3. Here(T[k])' /\ KindsOk'
  BY <1>1, <1>2 DEF Here, KindsOk
<1> QED
  BY <1>1, <1>2, <1>3, Backs

\* The only thing the reader can object to.
LEMMA RefusedOnlyLong ==
  ASSUME TInv, input = "honest", proof \in Proofs(geom), pc = "path_len" => ci >= Total,
         NEW n, NEW T, NEW k, Back(n, T, k), ReadErr
  PROVE  HasLongRun
<1>1. MoreToRead /\ side = "read"
  BY DEF ReadErr, MoreToRead
<1>2. \/ pc = "y" /\ j < YLen(sec)
      \/ pc = "nonce" /\ j < geom.nreq
      \/ pc = "run" /\ ci < Total
      \/ pc = "elts" /\ j < runlen
      \/ pc = "path_len" /\ ci >= Total
      \/ pc = "path" /\ j < runlen
  BY <1>1 DEF MoreToRead
<1>3. \E d : Chunks(Width) = {d} /\ ~Eof(Width) /\ (Accepts(d) \/ HasLongRun)
  <2>1. CASE pc = "y" /\ j < YLen(sec)
    BY <1>1, <2>1, YAhead
  <2>2. CASE pc = "nonce" /\ j < geom.nreq
    BY <1>1, <2>2, NonceAhead
  <2>3. CASE pc = "run" /\ ci < Total
    BY <1>1, <2>3, RunAhead
  <2>4. CASE pc = "elts" /\ j < runlen
    BY <1>1, <2>4, EltAhead
  <2>5. CASE pc = "path_len" /\ ci >= Total
    BY <1>1, <2>5, PathLenAhead
  <2>6. CASE pc = "path" /\ j < runlen
    BY <1>1, <2>6, DigestAhead
  <2> QED
    BY <1>2, <2>1, <2>2, <2>3, <2>4, <2>5, <2>6
<1>4. PICK d : Chunks(Width) = {d} /\ ~Eof(Width) /\ (Accepts(d) \/ HasLongRun)
  BY <1>3
<1>5. \E c \in Chunks(Width) : ~Accepts(c)
  BY <1>4 DEF ReadErr
<1> QED
  BY <1>4, <1>5

Agree(I, f, g) == \A s \in I : f[s] = g[s]

LEMMA SameVectors ==
  ASSUME NEW I, NEW S, NEW f \in [I -> S], NEW g \in [I -> S], Agree(I, f, g)
  PROVE  f = g
BY DEF Agree

LEMMA SameProof ==
  ASSUME NEW g \in ProofType, NEW h \in ProofType,
         g.y = h.y, g.nonce = h.nonce, g.req = h.req, g.path = h.path
  PROVE  g = h
<1>1. /\ g = [y |-> g.y, nonce |-> g.nonce, req |-> g.req, path |-> g.path]
      /\ h = [y |-> h.y, nonce |-> h.nonce, req |-> h.req, path |-> h.path]
  BY Zenon DEF ProofType
<1> QED
  BY <1>1

\* Where the reader stops, it has read everything.
LEMMA AllRead ==
  ASSUME TInv, side = "read", pc = "path", j = runlen,
         NEW n, NEW T, NEW k, Back(n, T, k)
  PROVE  got = proof /\ consumed = out
<1>1. /\ n \in Nat /\ k \in 0 .. n /\ T[k] = PathAt(runlen, j, consumed)
      /\ T[n] = PathAt(Len(proof.path), Len(proof.path), out)
      /\ \A i \in 0 .. n - 1 : Go(geom, proof, T[i], T[i + 1])
      /\ T[k].at = "path" => T[k].len = Len(proof.path)
  BY DEF Back, Full, Joined, Trace, Here
<1>2. T[k].at = "path" /\ T[k].j = j /\ T[k].len = runlen
  BY <1>1 DEF PathAt
<1>3. runlen = Len(proof.path) /\ j \in Nat
  BY <1>1, <1>2 DEF TInv, TypeOK
<1>4. k = n
  <2> SUFFICES ASSUME k # n PROVE FALSE
    OBVIOUS
  <2>1. k \in 0 .. n - 1
    BY <1>1
  <2>2. Go(geom, proof, T[k], T[k + 1])
    BY <1>1, <2>1
  <2>3. GoPath(proof, T[k], T[k + 1])
    BY <1>2, <2>2
       DEF Go, GoY, GoSection, GoNonce, GoStart, GoRun, GoElt, GoEnd, GoPathLen
  <2> QED
    BY <1>2, <1>3, <2>3 DEF GoPath
<1>5. consumed = out
  <2>1. PathAt(runlen, j, consumed) = PathAt(Len(proof.path), Len(proof.path), out)
    BY <1>1, <1>4
  <2> QED
    BY <2>1 DEF PathAt
<1>6. got \in ProofType /\ proof \in ProofType /\ WellShaped /\ Extends(got, proof)
  BY DEF TInv, TypeOK, Back
<1>7. got.nonce = proof.nonce
  <2>1. Len(got.nonce) = Len(proof.nonce)
    BY <1>6 DEF TInv, ReadShape, WellShaped
  <2>2. got.nonce \in Seq(Nat) /\ proof.nonce \in Seq(Nat) /\ Grows(got.nonce, proof.nonce)
    BY <1>6 DEF ProofType, Extends
  <2> QED
    BY <2>1, <2>2, GrowsEqual
<1>8. got.req = proof.req
  <2>1. Len(got.req) = Len(proof.req)
    BY <1>6 DEF TInv, ReadShape, WellShaped
  <2>2. got.req \in Seq(Nat) /\ proof.req \in Seq(Nat) /\ Grows(got.req, proof.req)
    BY <1>6 DEF ProofType, Extends
  <2> QED
    BY <2>1, <2>2, GrowsEqual
<1>9. got.path = proof.path
  <2>1. Len(got.path) = Len(proof.path)
    BY <1>3 DEF TInv, ReadShape
  <2>2. got.path \in Seq(Nat) /\ proof.path \in Seq(Nat) /\ Grows(got.path, proof.path)
    BY <1>6 DEF ProofType, Extends
  <2> QED
    BY <2>1, <2>2, GrowsEqual
<1>10. got.y = proof.y
  <2>1. ASSUME NEW s \in 1 .. 4 PROVE got.y[s] = proof.y[s]
    <3>1. Len(got.y[s]) = Len(proof.y[s])
      BY <1>6 DEF TInv, ReadShape, YFull, WellShaped
    <3>2. got.y[s] \in Seq(Nat) /\ proof.y[s] \in Seq(Nat) /\ Grows(got.y[s], proof.y[s])
      BY <1>6 DEF ProofType, Extends
    <3> QED
      BY <3>1, <3>2, GrowsEqual
  <2>2. got.y \in [1 .. 4 -> Seq(Nat)] /\ proof.y \in [1 .. 4 -> Seq(Nat)]
    BY <1>6 DEF ProofType
  <2>3. \A s \in 1 .. 4 : got.y[s] = proof.y[s]
    BY <2>1
  <2>4. Agree(1 .. 4, got.y, proof.y)
    BY <2>3 DEF Agree
  <2> QED
    BY <2>2, <2>4, SameVectors, Zenon
<1>11. got = proof
  BY <1>6, <1>7, <1>8, <1>9, <1>10, SameProof
<1> QED
  BY <1>5, <1>11

(***************************************************************************)
(* The steps put together.                                                 *)
(***************************************************************************)
LEMMA InitHInv == Init => HInv
<1> SUFFICES ASSUME Init PROVE HInv
  OBVIOUS
<1>1. TInv
  BY InitTInv
<1>2. HWrite
  BY DEF HWrite, Init, Sections
<1>3. HRead
  BY DEF HRead, Init
<1>4. input = "honest" => proof \in Proofs(geom)
  BY DEF Init
<1> QED
  BY <1>1, <1>2, <1>3, <1>4 DEF HInv

LEMMA StartJoins ==
  ASSUME WriteStart, out = <<>>
  PROVE  \E m, U : Joined(m, U)' /\ There(U[m])'
<1> DEFINE T == [i \in Nat |-> YAt(1, 0, <<>>)]
<1>1. YAt(1, 0, <<>>) \in Spot
  <2>1. <<>> \in Seq(Byte) /\ 0 \in Nat /\ 1 \in Nat
    OBVIOUS
  <2> QED
    BY <2>1, YSpot
<1>2. 0 \in Nat /\ T \in [Nat -> Spot] /\ T[0] = YAt(1, 0, <<>>)
  BY <1>1
<1> HIDE DEF T
<1>3. Trace(geom, proof, 0, T)'
  BY <1>2 DEF Trace
<1>4. pc' = "y" /\ sec' = 1 /\ j' = 0 /\ out' = <<>>
  BY DEF WriteStart
<1>5. There(T[0])'
  BY <1>2, <1>4 DEF There
<1>6. T[0].bytes = <<>> /\ T[0].at # "path"
  BY <1>2 DEF YAt
<1>7. Grows(T[0].bytes, out')
  BY <1>4, <1>6 DEF Grows
<1>8. \A k \in 0 .. 0 : k = 0
  OBVIOUS
<1>9. Joined(0, T)'
  BY <1>3, <1>6, <1>7, <1>8 DEF Joined
<1> QED
  BY <1>5, <1>9

LEMMA HonestWrite ==
  ASSUME HInv, [Next]_vars, input = "honest", side = "write", side' = "write"
  PROVE  HWrite'
<1>1. TInv /\ HWrite /\ pc # "done"
  BY DEF HInv, HWrite
<1>2. ASSUME pc' \in Sections, \E m, U : Joined(m, U)' /\ There(U[m])'
      PROVE  HWrite'
  BY <1>2 DEF HWrite, Sections
<1>3. ASSUME pc \in Sections PROVE \E n, T : Joined(n, T) /\ There(T[n])
  BY <1>1, <1>3 DEF HWrite
<1>4. CASE UNCHANGED vars
  <2>1. ASSUME NEW n, NEW T, Joined(n, T), There(T[n]) PROVE Joined(n, T)' /\ There(T[n])'
    BY <1>4, <2>1 DEF Joined, There, vars
  <2>2. pc' = pc /\ out' = out
    BY <1>4 DEF vars
  <2>3. CASE pc \in Sections
    BY <1>2, <1>3, <2>1, <2>2, <2>3
  <2>4. CASE pc \notin Sections
    BY <1>1, <2>2, <2>4 DEF HWrite
  <2> QED
    BY <2>3, <2>4
<1>5. CASE WriteStart
  <2>1. out = <<>> /\ pc' \in Sections
    BY <1>1, <1>5 DEF HWrite, WriteStart, Writing, Sections
  <2> QED
    BY <1>2, <1>5, <2>1, StartJoins
<1>6. CASE WriteY \/ WriteNonce \/ WriteRunLen \/ WriteElt \/ WritePathLen \/ WriteDigest
             \/ NextSection \/ StartRuns \/ EndRun
  <2>1. pc \in Sections /\ pc' \in Sections
    BY <1>6 DEF Sections, WriteY, WriteNonce, WriteRunLen, WriteElt, WritePathLen, WriteDigest,
       NextSection, StartRuns, EndRun, Writing
  <2>2. PICK n, T : Joined(n, T) /\ There(T[n])
    BY <1>3, <2>1
  <2>3. \E m, U : Joined(m, U)' /\ There(U[m])'
    BY <1>1, <1>6, <2>2, WriteYJoins, WriteNonceJoins, WriteRunLenJoins, WriteEltJoins,
       WritePathLenJoins, WriteDigestJoins, LoopEndJoins
  <2> QED
    BY <1>2, <2>1, <2>3
<1>7. CASE WritePanics
  BY <1>7 DEF HWrite, Sections, WritePanics
<1>8. CASE WriteOk
  BY <1>8 DEF WriteOk
<1>9. CASE Read
  BY <1>9 DEF Read, ReadY, ReadNonce, ReadRunLen, ReadElt, ReadPathLen, ReadDigest, Take,
     ReadErr, ReadRunsDone, ReadOk, MoreToRead, Reading
<1> QED
  BY <1>4, <1>5, <1>6, <1>7, <1>8, <1>9 DEF Next, Write

\* The writer is done, and the reader starts at the first spot of its path.
LEMMA TurnRound ==
  ASSUME HInv, WriteOk, input = "honest"
  PROVE  HRead'
<1>1. /\ side = "write" /\ pc = "path" /\ j = Len(proof.path) /\ pc' = "y" /\ sec' = 1 /\ j' = 0
      /\ UNCHANGED <<geom, proof, got, out, consumed>>
  BY DEF WriteOk, Writing
<1>2. /\ TInv /\ got = NoProof /\ consumed = <<>> /\ WellShaped /\ proof \in ProofType
      /\ got \in ProofType
  BY <1>1 DEF HInv, TInv, WriteShape, TypeOK
<1>3. PICK n, T : Joined(n, T) /\ There(T[n])
  BY <1>1 DEF HInv, HWrite, Sections
<1>4. n \in Nat /\ T[0] = YAt(1, 0, <<>>) /\ 0 \in 0 .. n
  BY <1>3 DEF Joined, Trace
<1>5. Full(n, T)
  BY <1>1, <1>3 DEF Full, There
<1>6. Full(n, T)'
  BY <1>1, <1>5 DEF Full, Joined
<1>7. Here(T[0])'
  BY <1>1, <1>2, <1>4 DEF Here
<1>8. KindsOk'
  BY <1>1 DEF KindsOk
<1>9. WellShaped'
  BY <1>1, <1>2 DEF WellShaped, YLen, Total
<1>10. Extends(NoProof, proof)
  <2>1. /\ NoProof.nonce = <<>> /\ NoProof.req = <<>> /\ NoProof.path = <<>>
        /\ \A s \in 1 .. 4 : NoProof.y[s] = <<>>
    BY DEF NoProof
  <2>2. ASSUME NEW r \in Seq(Nat) PROVE Grows(<<>>, r)
    BY DEF Grows
  <2>3. /\ proof.nonce \in Seq(Nat) /\ proof.req \in Seq(Nat) /\ proof.path \in Seq(Nat)
        /\ \A s \in 1 .. 4 : proof.y[s] \in Seq(Nat)
    BY <1>2 DEF ProofType
  <2>4. NoProof \in ProofType
    BY <1>2
  <2> QED
    BY <1>2, <2>1, <2>2, <2>3, <2>4 DEF Extends
<1>11. Back(n, T, 0)'
  BY <1>1, <1>2, <1>4, <1>6, <1>7, <1>8, <1>9, <1>10 DEF Back
<1> QED
  BY <1>1, <1>11 DEF HRead

LEMMA HonestRead ==
  ASSUME HInv, [Next]_vars, input = "honest", side = "read"
  PROVE  HRead'
<1>1. TInv /\ HRead /\ proof \in Proofs(geom)
  BY DEF HInv
<1>2. pc \notin {"start", "panicked"}
  BY <1>1 DEF TInv, ReadShape
<1>3. ASSUME pc \notin {"rejected", "done"}
      PROVE  (pc = "path_len" => ci >= Total) /\ \E n, T, k : Back(n, T, k)
  BY <1>1, <1>3 DEF HRead
<1>4. ASSUME pc' \notin {"rejected", "done", "path_len"}, \E m, U, x : Back(m, U, x)'
      PROVE  HRead'
  BY <1>4 DEF HRead
<1>5. CASE UNCHANGED vars
  <2>1. ASSUME NEW n, NEW T, NEW k, Back(n, T, k) PROVE Back(n, T, k)'
    BY <1>5, <2>1 DEF Back, Full, Joined, Here, WellShaped, KindsOk, IsRunLen, OfKind, YLen,
       Total, vars
  <2>2. HasLongRun => HasLongRun'
    BY <1>5 DEF HasLongRun, Total, vars
  <2>3. Total' = Total
    BY <1>5 DEF Total, vars
  <2> QED
    BY <1>1, <1>5, <2>1, <2>2, <2>3 DEF HRead, vars
<1>6. ASSUME NEW c \in Chunks(Width),
             ReadY(c) \/ ReadNonce(c) \/ ReadRunLen(c) \/ ReadElt(c) \/ ReadPathLen(c)
               \/ ReadDigest(c)
      PROVE  HRead'
  <2>1. pc \notin {"rejected", "done"} /\ pc' \notin {"rejected", "done", "path_len"}
    BY <1>6 DEF ReadY, ReadNonce, ReadRunLen, ReadElt, ReadPathLen, ReadDigest, Take, Reading
  <2>2. PICK n, T, k : Back(n, T, k)
    BY <1>3, <2>1
  <2>3. ReadPathLen(c) => ci >= Total
    BY <1>3 DEF ReadPathLen, Take, Reading
  <2>4. \E m, U, x : Back(m, U, x)'
    BY <1>1, <1>6, <2>2, <2>3, ReadYBack, ReadNonceBack, ReadRunLenBack, ReadEltBack,
       ReadPathLenBack, ReadDigestBack
  <2> QED
    BY <1>4, <2>1, <2>4
<1>7. CASE ReadErr
  <2>1. pc \notin {"rejected", "done"} /\ pc' = "rejected" /\ UNCHANGED <<geom, proof>>
    BY <1>7 DEF ReadErr, MoreToRead
  <2>2. PICK n, T, k : Back(n, T, k)
    BY <1>3, <2>1
  <2>3. HasLongRun
    BY <1>1, <1>3, <1>7, <2>1, <2>2, RefusedOnlyLong
  <2>4. HasLongRun'
    BY <2>1, <2>3 DEF HasLongRun, Total
  <2> QED
    BY <2>1, <2>4 DEF HRead
<1>8. CASE ReadRunsDone
  <2>1. pc = "run" /\ pc' = "path_len" /\ ci' >= Total'
    BY <1>8 DEF ReadRunsDone, Reading, position, Total
  <2>2. PICK n, T, k : Back(n, T, k)
    BY <1>3, <2>1
  <2>3. \E m, U, x : Back(m, U, x)'
    BY <1>8, <2>2, RunsDoneBack
  <2> QED
    BY <2>1, <2>3 DEF HRead
<1>9. CASE NextSection \/ StartRuns \/ EndRun
  <2>1. pc \in {"y", "nonce", "elts"} /\ pc' \in {"y", "nonce", "run"}
    BY <1>9 DEF NextSection, StartRuns, EndRun
  <2>2. PICK n, T, k : Back(n, T, k)
    BY <1>3, <2>1
  <2>3. \E m, U, x : Back(m, U, x)'
    BY <1>1, <1>9, <2>2, LoopEndBack
  <2> QED
    BY <1>4, <2>1, <2>3
<1>10. CASE ReadOk
  <2>1. pc = "path" /\ j = runlen /\ pc' = "done" /\ UNCHANGED <<proof, got, out, consumed>>
    BY <1>10 DEF ReadOk, Reading
  <2>2. PICK n, T, k : Back(n, T, k)
    BY <1>3, <2>1
  <2>3. got = proof /\ consumed = out
    BY <1>1, <2>1, <2>2, AllRead
  <2> QED
    BY <2>1, <2>3 DEF HRead
<1>11. CASE Write
  BY <1>11 DEF Write, WriteStart, WriteY, WriteNonce, WriteRunLen, WriteElt, WritePathLen,
     WriteDigest, WritePanics, WriteOk, Writing
<1> QED
  BY <1>5, <1>6, <1>7, <1>8, <1>9, <1>10, <1>11 DEF Next, Read

LEMMA HInductive == HInv /\ [Next]_vars => HInv'
<1> SUFFICES ASSUME HInv, [Next]_vars PROVE HInv'
  OBVIOUS
<1>1. TInv'
  BY TInductive DEF HInv
<1>2. side \in {"write", "read"} /\ side' \in {"write", "read"} /\ input' = input
  <2>1. input' = input
    BY DEF Next, Write, Read, WriteStart, WriteY, WriteNonce, WriteRunLen, WriteElt,
       WritePathLen, WriteDigest, WritePanics, WriteOk, ReadY, ReadNonce, ReadRunLen,
       ReadElt, ReadPathLen, ReadDigest, Take, ReadErr, ReadRunsDone, ReadOk,
       NextSection, StartRuns, EndRun, vars
  <2> QED
    BY <1>1, <2>1 DEF HInv, TInv, TypeOK
<1>3. CASE input # "honest"
  BY <1>1, <1>2, <1>3 DEF HInv, HRead, HWrite
<1>4. ASSUME input = "honest" PROVE (proof \in Proofs(geom))'
  <2>1. UNCHANGED <<proof, geom>>
    BY <1>4 DEF Next, Write, Read, WriteStart, WriteY, WriteNonce, WriteRunLen, WriteElt,
       WritePathLen, WriteDigest, WritePanics, WriteOk, ReadY, ReadNonce, ReadRunLen,
       ReadElt, ReadPathLen, ReadDigest, Take, ReadErr, ReadRunsDone, ReadOk,
       NextSection, StartRuns, EndRun, vars
  <2> QED
    BY <1>4, <2>1 DEF HInv
<1>5. CASE input = "honest" /\ side = "read"
  <2>1. side' = "read"
    BY <1>5 DEF Next, Write, Read, WriteStart, WriteY, WriteNonce, WriteRunLen, WriteElt,
       WritePathLen, WriteDigest, WritePanics, WriteOk, Writing, ReadY, ReadNonce, ReadRunLen,
       ReadElt, ReadPathLen, ReadDigest, Take, ReadErr, ReadRunsDone, ReadOk,
       NextSection, StartRuns, EndRun, vars
  <2>2. HRead'
    BY <1>5, HonestRead
  <2>3. HWrite'
    BY <2>1 DEF HWrite
  <2> QED
    BY <1>1, <1>4, <1>5, <2>2, <2>3 DEF HInv
<1>6. CASE input = "honest" /\ side = "write" /\ side' = "write"
  <2>1. HWrite'
    BY <1>6, HonestWrite
  <2>2. HRead'
    BY <1>6 DEF HRead
  <2> QED
    BY <1>1, <1>4, <1>6, <2>1, <2>2 DEF HInv
<1>7. CASE input = "honest" /\ side = "write" /\ side' = "read"
  <2>1. WriteOk
    BY <1>7 DEF Next, Write, Read, WriteStart, WriteY, WriteNonce, WriteRunLen, WriteElt,
       WritePathLen, WriteDigest, WritePanics, ReadY, ReadNonce, ReadRunLen,
       ReadElt, ReadPathLen, ReadDigest, Take, ReadErr, ReadRunsDone, ReadOk, Reading,
       MoreToRead, NextSection, StartRuns, EndRun, vars
  <2>2. HRead'
    BY <1>7, <2>1, TurnRound
  <2>3. HWrite'
    BY <1>7 DEF HWrite
  <2> QED
    BY <1>1, <1>4, <1>7, <2>2, <2>3 DEF HInv
<1> QED
  BY <1>2, <1>3, <1>5, <1>6, <1>7

\* What write_to_buf writes for a prover's proof, LigeroProof::read reads back
\* as the same proof and to the last byte; it refuses it only when a run of
\* openings of one kind reaches MAX_RUN_LEN, which the writer does not look at.
THEOREM ReadBack == Spec => []RoundTrip
<1>1. Spec => []HInv
  BY InitHInv, HInductive, PTL DEF Spec
<1>2. HInv => RoundTrip
  <2> SUFFICES ASSUME HInv, input = "honest"
               PROVE  /\ pc = "rejected" => HasLongRun
                      /\ pc = "done" => got = proof /\ consumed = out
    BY DEF RoundTrip
  <2>1. CASE side = "read"
    BY <2>1 DEF HInv, HRead
  <2>2. CASE side = "write"
    BY <2>2 DEF HInv, HWrite, TInv, WriteShape
  <2> QED
    BY <2>1, <2>2 DEF HInv, TInv, TypeOK
<1> QED
  BY <1>1, <1>2, PTL
=============================================================================
