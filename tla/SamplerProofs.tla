---------------------------- MODULE SamplerProofs ----------------------------
(***************************************************************************)
(* Proofs about Sampler: the shuffle stays in bounds, the positions it     *)
(* returns are distinct and every selection is as likely as every other,   *)
(* for every number of positions and whatever bytes are drawn.             *)
(***************************************************************************)
EXTENDS Sampler, SequenceTheorems, FiniteSetTheorems, NaturalsInduction, WellFoundedInduction,
        TLAPS

Live == {"choose", "width", "mask", "draw"}

\* The array is a rearrangement of the positions, and what was returned so far
\* is its shuffled prefix, which no later swap touches.
Shuffling ==
  /\ k <= n
  /\ a \in [0 .. n - 1 -> 0 .. n - 1]
  /\ \A p, q \in 0 .. n - 1 : a[p] = a[q] => p = q
  /\ \A q \in 0 .. i - 1 : res[q] = a[q]

IInv ==
  /\ TypeOK
  /\ pc \in Live => n > 0 /\ Shuffling
  /\ pc = "returned" => i = k /\ Shuffling

-----------------------------------------------------------------------------
\* A remainder of natural numbers is a natural number below the divisor, and a
\* number below the divisor is its own remainder.
LEMMA ModNat == \A x, y \in Nat : y > 0 => x % y \in 0 .. y - 1
  OBVIOUS

LEMMA ModSmall == \A x, y \in Nat : x < y => x % y = x
  OBVIOUS

LEMMA DivNat == \A x, y \in Nat : y > 0 => x \div y \in Nat
  OBVIOUS

\* v from a string of bytes is a natural number.
LEMMA VNat == ASSUME NEW v \in 0 .. Strings(l) - 1 PROVE v \in Nat
  OBVIOUS

-----------------------------------------------------------------------------
(***************************************************************************)
(* Powers of two.  Induction is over a least counterexample.               *)
(***************************************************************************)
LEMMA LeastNat ==
  ASSUME NEW T, T \subseteq Nat, T # {}
  PROVE  \E x \in T : \A y \in T : x <= y
<1>1. IsWellFoundedOn(OpToRel(<, Nat), Nat)
  BY NatLessThanWellFounded
<1>2. PICK x \in T : \A y \in T : ~(<<y, x>> \in OpToRel(<, Nat))
  BY <1>1, WFMin, Zenon
<1>3. \A y \in T : ~(y < x)
  BY <1>2 DEF OpToRel
<1>4. \A y \in T : x <= y
  BY <1>3
<1> QED
  BY <1>4

\* f starts with first and goes on by step.
Follows(f, V, w, first, step) ==
  f \in [0 .. w -> V] /\ f[0] = first /\ \A q \in 1 .. w : f[q] = step[q][f[q - 1]]

\* There is a function that starts with first and goes on by any step, when the
\* step is given as a function.
LEMMA Recursion ==
  ASSUME NEW V, NEW first \in V, NEW w \in Nat, NEW step \in [1 .. w -> [V -> V]]
  PROVE  \E f : Follows(f, V, w, first, step)
<1> DEFINE Good(u) == \E f \in [0 .. u -> V] :
             f[0] = first /\ \A q \in 1 .. u : f[q] = step[q][f[q - 1]]
           T == {u \in 0 .. w : ~Good(u)}
<1> HIDE DEF Good
<1>1. ASSUME T # {} PROVE FALSE
  <2>1. PICK u \in T : \A z \in T : u <= z
    <3>1. T \subseteq Nat
      OBVIOUS
    <3> HIDE DEF T
    <3> QED
      BY <1>1, <3>1, LeastNat, Zenon
  <2>2. u \in 0 .. w /\ ~Good(u)
    OBVIOUS
  <2>3. u # 0
    <3>1. [q \in 0 .. 0 |-> first] \in [0 .. 0 -> V]
      OBVIOUS
    <3>2. [q \in 0 .. 0 |-> first][0] = first /\ \A q \in 1 .. 0 : FALSE
      OBVIOUS
    <3>3. Good(0)
      BY <3>1, <3>2 DEF Good
    <3> QED
      BY <2>2, <3>3
  <2>4. u - 1 \in 0 .. w /\ u - 1 \notin T
    BY <2>1, <2>2, <2>3
  <2>5. PICK f \in [0 .. u - 1 -> V] :
          f[0] = first /\ \A q \in 1 .. u - 1 : f[q] = step[q][f[q - 1]]
    BY <2>4 DEF Good
  <2> DEFINE g == [q \in 0 .. u |-> IF q = u THEN step[u][f[u - 1]] ELSE f[q]]
  <2>6. f[u - 1] \in V /\ step[u][f[u - 1]] \in V
    <3>1. f[u - 1] \in V
      BY <2>2, <2>3, <2>5
    <3>2. u \in 1 .. w
      BY <2>2, <2>3
    <3> QED
      BY <3>1, <3>2
  <2>7. g \in [0 .. u -> V]
    <3>1. \A q \in 0 .. u : q # u => q \in 0 .. u - 1
      BY <2>2
    <3>2. \A q \in 0 .. u : (IF q = u THEN step[u][f[u - 1]] ELSE f[q]) \in V
      BY <2>5, <2>6, <3>1
    <3> QED
      BY <3>2
  <2>8. g[0] = first
    BY <2>2, <2>3, <2>5
  <2>9. \A q \in 1 .. u : g[q] = step[q][g[q - 1]]
    <3> SUFFICES ASSUME NEW q \in 1 .. u PROVE g[q] = step[q][g[q - 1]]
      OBVIOUS
    <3>1. q - 1 \in 0 .. u /\ q - 1 # u /\ g[q - 1] = f[q - 1]
      BY <2>2
    <3>2. CASE q = u
      BY <3>1, <3>2
    <3>3. CASE q # u
      <4>1. q \in 1 .. u - 1 /\ g[q] = f[q]
        BY <2>2, <3>3
      <4> QED
        BY <2>5, <3>1, <4>1
    <3> QED
      BY <3>2, <3>3
  <2>10. Good(u)
    BY <2>7, <2>8, <2>9 DEF Good
  <2> QED
    BY <2>2, <2>10
<1>2. Good(w)
  <2>1. w \in 0 .. w
    OBVIOUS
  <2> QED
    BY <1>1, <2>1, Zenon
<1> QED
  BY <1>2 DEF Good, Follows

\* What holds at 0 and is passed on by every step holds everywhere.
LEMMA Steps ==
  ASSUME NEW w \in Nat, NEW S, NEW v, v[0] \in S,
         \A q \in 1 .. w : v[q - 1] \in S => v[q] \in S
  PROVE  \A q \in 0 .. w : v[q] \in S
<1> DEFINE T == {q \in 0 .. w : v[q] \notin S}
<1> SUFFICES ASSUME T # {} PROVE FALSE
  OBVIOUS
<1>1. T \subseteq Nat
  OBVIOUS
<1>2. PICK q \in T : \A p \in T : q <= p
  <2> HIDE DEF T
  <2> QED
    BY <1>1, LeastNat, Zenon
<1>3. q \in 0 .. w /\ v[q] \notin S /\ q # 0
  OBVIOUS
<1>4. q - 1 \in 0 .. w /\ q - 1 \notin T
  BY <1>2, <1>3
<1>5. v[q - 1] \in S /\ q \in 1 .. w
  BY <1>3, <1>4
<1> QED
  BY <1>3, <1>5

LEMMA PowersRec ==
  ASSUME NEW w \in Nat
  PROVE  /\ Powers(w) \in [0 .. w -> Nat] /\ Powers(w)[0] = 1
         /\ \A q \in 1 .. w : Powers(w)[q] = 2 * Powers(w)[q - 1]
<1> DEFINE step == [q \in 1 .. w |-> [x \in Nat |-> 2 * x]]
<1>1. \A x \in Nat : 2 * x \in Nat
  OBVIOUS
<1>2. step \in [1 .. w -> [Nat -> Nat]]
  BY <1>1
<1>3. \A q \in 1 .. w, x \in Nat : step[q][x] = 2 * x
  OBVIOUS
<1> HIDE DEF step
<1>4. PICK f : f \in [0 .. w -> Nat] /\ f[0] = 1
                /\ \A q \in 1 .. w : f[q] = step[q][f[q - 1]]
  <2>1. 1 \in Nat
    OBVIOUS
  <2>2. \E f : Follows(f, Nat, w, 1, step)
    BY <1>2, <2>1, Recursion
  <2> QED
    BY <2>2 DEF Follows
<1>5. \A q \in 0 .. w : q # 0 => (q \in 1 .. w /\ f[q - 1] \in Nat)
  BY <1>4
<1>6. f = [q \in 0 .. w |-> IF q = 0 THEN 1 ELSE 2 * f[q - 1]]
  BY <1>3, <1>4, <1>5
<1> DEFINE Is(v) == v = [q \in 0 .. w |-> IF q = 0 THEN 1 ELSE 2 * v[q - 1]]
<1>7. Powers(w) = CHOOSE v : Is(v)
  BY DEF Powers
<1>8. Is(Powers(w))
  BY <1>6, <1>7
<1> DEFINE v == Powers(w)
<1>9. v = [q \in 0 .. w |-> IF q = 0 THEN 1 ELSE 2 * v[q - 1]]
  BY <1>8
<1> HIDE DEF v
<1>10. v[0] = 1 /\ \A q \in 1 .. w : v[q] = 2 * v[q - 1]
  BY <1>9
<1>11. \A q \in 0 .. w : v[q] \in Nat
  <2>1. v[0] \in Nat
    BY <1>10
  <2>2. \A q \in 1 .. w : v[q - 1] \in Nat => v[q] \in Nat
    BY <1>1, <1>10, Zenon
  <2> QED
    BY <2>1, <2>2, Steps, Zenon
<1> QED
  BY <1>9, <1>10, <1>11 DEF v

\* A longer table of powers begins like a shorter one.
LEMMA TwoToStep ==
  ASSUME NEW w \in Nat
  PROVE  /\ TwoTo(w) \in Nat /\ TwoTo(w) > 0 /\ TwoTo(0) = 1
         /\ TwoTo(w + 1) = 2 * TwoTo(w)
<1> DEFINE f == Powers(w)
           g == Powers(w + 1)
           T == {q \in 0 .. w : g[q] # f[q] \/ ~(f[q] > 0)}
<1>1. f \in [0 .. w -> Nat] /\ f[0] = 1 /\ \A q \in 1 .. w : f[q] = 2 * f[q - 1]
  BY PowersRec
<1>2. /\ w + 1 \in Nat /\ g \in [0 .. w + 1 -> Nat] /\ g[0] = 1
      /\ \A q \in 1 .. w + 1 : g[q] = 2 * g[q - 1]
  BY PowersRec
<1>3. TwoTo(w) = f[w] /\ TwoTo(w + 1) = g[w + 1]
  BY DEF TwoTo
<1>4. TwoTo(0) = 1
  BY PowersRec DEF TwoTo
<1> HIDE DEF f, g
<1>5. T = {}
  <2> SUFFICES ASSUME T # {} PROVE FALSE
    OBVIOUS
  <2>1. T \subseteq Nat
    OBVIOUS
  <2>2. PICK q \in T : \A p \in T : q <= p
    <3> HIDE DEF T
    <3> QED
      BY <2>1, LeastNat, Zenon
  <2>3. q \in 0 .. w /\ (g[q] # f[q] \/ ~(f[q] > 0))
    OBVIOUS
  <2>4. q # 0
    BY <1>1, <1>2, <2>3
  <2>5. q \in 1 .. w /\ q \in 1 .. w + 1 /\ q - 1 \in 0 .. w /\ q - 1 \notin T
    BY <2>2, <2>3, <2>4
  <2>6. g[q - 1] = f[q - 1] /\ f[q - 1] > 0 /\ f[q - 1] \in Nat
    BY <1>1, <2>5
  <2>7. g[q] = 2 * g[q - 1] /\ f[q] = 2 * f[q - 1]
    BY <1>1, <1>2, <2>5, Zenon
  <2> QED
    BY <2>3, <2>6, <2>7
<1>6. w \in 0 .. w /\ w \notin T /\ w + 1 \in 1 .. w + 1 /\ (w + 1) - 1 = w
  BY <1>5
<1>7. g[w] = f[w] /\ f[w] > 0 /\ f[w] \in Nat
  BY <1>1, <1>6
<1>8. g[w + 1] = 2 * g[w]
  BY <1>2, <1>6, Zenon
<1> QED
  BY <1>3, <1>4, <1>7, <1>8

-----------------------------------------------------------------------------
LEMMA InitInv == Init => IInv
  BY SamplerAssumption, EmptySeq DEF Init, IInv, TypeOK, Live

LEMMA GenIdxInv == IInv /\ GenIdx => IInv'
<1> SUFFICES ASSUME IInv, GenIdx PROVE IInv'
  OBVIOUS
<1>1. /\ n \in Nat /\ k \in Nat /\ k <= n
      /\ a' = [p \in 0 .. n - 1 |-> p] /\ res' = [q \in 0 .. k - 1 |-> 0]
      /\ i' = 0 /\ n' = n /\ k' = k
      /\ pc' \in {"returned", "choose"} /\ (pc' = "choose" => n > 0 /\ k > 0)
      /\ (pc' = "returned" => k = 0)
  BY SamplerAssumption DEF GenIdx, IInv, TypeOK
<1>2. Shuffling'
  BY <1>1 DEF Shuffling
<1>3. TypeOK'
  BY <1>1 DEF GenIdx, IInv, TypeOK
<1> QED
  BY <1>1, <1>2, <1>3 DEF IInv, Live

\* The steps that leave the array and the result alone.
LEMMA QuietInv ==
  IInv /\ (GenIdxPanics \/ CallNat \/ WidthStep \/ WidthDone \/ MaskStep \/ MaskDone
           \/ Return \/ UNCHANGED vars) => IInv'
<1> SUFFICES ASSUME IInv,
                    GenIdxPanics \/ CallNat \/ WidthStep \/ WidthDone \/ MaskStep
                    \/ MaskDone \/ Return \/ UNCHANGED vars
             PROVE  IInv'
  OBVIOUS
<1>1. /\ n' = n /\ k' = k /\ a' = a /\ res' = res /\ i' = i /\ drawn' = drawn
      /\ n \in Nat /\ k \in Nat /\ i \in Nat
  BY SamplerAssumption DEF IInv, TypeOK, GenIdxPanics, CallNat, WidthStep, WidthDone,
       MaskStep, MaskDone, Return, vars
<1>2. Shuffling => Shuffling'
  BY <1>1 DEF Shuffling
<1>3. CASE GenIdxPanics
  BY <1>1, <1>2, <1>3 DEF GenIdxPanics, IInv, TypeOK, Live
<1>4. CASE CallNat
  <2>1. n - i \in Nat /\ i < k
    BY <1>1, <1>4 DEF CallNat, IInv, Live, Shuffling
  <2> QED
    BY <1>1, <1>2, <1>4, <2>1 DEF CallNat, IInv, TypeOK, Live
<1>5. CASE WidthStep
  <2>1. nn' \in Nat
    <3>1. nn \in Nat /\ TwoTo(ByteBits) \in Nat /\ TwoTo(ByteBits) > 0
      BY SamplerAssumption, TwoToStep DEF IInv, TypeOK
    <3>2. nn' = nn \div TwoTo(ByteBits)
      BY <1>5 DEF WidthStep
    <3> QED
      BY <3>1, <3>2, DivNat
  <2> QED
    BY <1>1, <1>2, <1>5, <2>1 DEF WidthStep, IInv, TypeOK, Live
<1>6. CASE WidthDone
  BY <1>1, <1>2, <1>6 DEF WidthDone, IInv, TypeOK, Live
<1>7. CASE MaskStep
  <2>1. msk' \in Nat
    BY <1>7 DEF MaskStep, IInv, TypeOK
  <2>2. pc' = pc /\ m' = m /\ nn' = nn /\ l' = l
    BY <1>7 DEF MaskStep
  <2> QED
    BY <1>1, <1>2, <2>1, <2>2 DEF IInv, TypeOK, Live
<1>8. CASE MaskDone
  BY <1>1, <1>2, <1>8 DEF MaskDone, IInv, TypeOK, Live
<1>9. CASE Return
  BY <1>1, <1>2, <1>9 DEF Return, IInv, TypeOK, Live
<1>10. CASE UNCHANGED vars
  BY <1>1, <1>2, <1>10 DEF vars, IInv, TypeOK, Live
<1> QED
  BY <1>3, <1>4, <1>5, <1>6, <1>7, <1>8, <1>9, <1>10

LEMMA ShuffleInv ==
  ASSUME IInv, pc = "draw", NEW r \in Nat, r < m,
         a' = Swap(a, i, i + r), res' = [res EXCEPT ![i] = a'[i]],
         i' = i + 1, pc' = "choose", drawn' = Append(drawn, r),
         UNCHANGED <<n, k, m, nn, l, msk>>
  PROVE  IInv'
<1>1. /\ n \in Nat /\ k \in Nat /\ k <= n /\ n > 0
      /\ i \in Nat /\ i < k /\ m = n - i
      /\ a \in [0 .. n - 1 -> 0 .. n - 1] /\ res \in [0 .. k - 1 -> 0 .. n - 1]
      /\ \A p, q \in 0 .. n - 1 : a[p] = a[q] => p = q
      /\ \A q \in 0 .. i - 1 : res[q] = a[q]
  <2>1. TypeOK /\ n > 0 /\ Shuffling
    BY DEF IInv, Live
  <2>2. n \in Nat /\ k \in Nat /\ i \in Nat
    BY <2>1, SamplerAssumption DEF TypeOK
  <2>3. i < k /\ m = n - i /\ res \in [0 .. k - 1 -> 0 .. n - 1]
    BY <2>1 DEF TypeOK
  <2> QED
    BY <2>1, <2>2, <2>3 DEF Shuffling
<1>2. PICK j \in 0 .. n - 1 : j = i + r /\ j >= i
  BY <1>1
<1>3. i \in 0 .. n - 1 /\ i \in 0 .. k - 1
  BY <1>1
<1>4. PICK P : P = 0 .. n - 1
  OBVIOUS
<1>5. /\ a' \in [P -> P]
      /\ \A p, q \in P : a'[p] = a'[q] => p = q
      /\ \A q \in P \ {i, j} : a'[q] = a[q]
  <2>1. a \in [P -> P] /\ i \in P /\ j \in P /\ a' = Swap(a, i, j)
    BY <1>1, <1>2, <1>3, <1>4
  <2>2. \A p, q \in P : a[p] = a[q] => p = q
    BY <1>1, <1>4
  <2> QED
    <3>1. a' = [p \in P |-> IF p = j THEN a[i] ELSE IF p = i THEN a[j] ELSE a[p]]
      BY <2>1 DEF Swap
    <3> QED
      BY <2>1, <2>2, <3>1
<1>6. res' \in [0 .. k - 1 -> P] /\ \A q \in 0 .. k - 1 : res'[q] = IF q = i THEN a'[i] ELSE res[q]
  BY <1>1, <1>3, <1>4, <1>5
<1>7. \A q \in 0 .. i : res'[q] = a'[q]
  <2> SUFFICES ASSUME NEW q \in 0 .. i PROVE res'[q] = a'[q]
    OBVIOUS
  <2>1. CASE q = i
    BY <1>3, <1>6, <2>1
  <2>2. CASE q # i
    <3>1. q \in 0 .. i - 1 /\ q \in 0 .. k - 1 /\ q \in P \ {i, j}
      BY <1>1, <1>2, <1>4, <2>2
    <3> QED
      BY <1>1, <1>5, <1>6, <2>2, <3>1
  <2> QED
    BY <2>1, <2>2
<1>8. drawn' \in Seq(Nat)
  BY DEF IInv, TypeOK
<1>9. TypeOK'
  <2>1. a' \in [0 .. n' - 1 -> 0 .. n' - 1] /\ res' \in [0 .. k' - 1 -> 0 .. n' - 1]
    BY <1>4, <1>5, <1>6
  <2>2. i' \in 0 .. k'
    BY <1>1
  <2> QED
    BY <1>8, <2>1, <2>2 DEF IInv, TypeOK
<1>10. Shuffling'
  <2>1. i' - 1 = i /\ n' = n /\ k' = k
    BY <1>1
  <2> QED
    BY <1>1, <1>4, <1>5, <1>7, <2>1 DEF Shuffling
<1> QED
  BY <1>1, <1>9, <1>10 DEF IInv, Live

\* What nat returns in the code's turn: the sum with i needs no reduction.
LEMMA DrawNumber ==
  ASSUME IInv, NEW v \in 0 .. Strings(l) - 1, Draw(v)
  PROVE  Reduce(v) \in Nat /\ Target(i, Reduce(v)) = i + Reduce(v)
<1> DEFINE r == Reduce(v)
<1>1. pc = "draw" /\ r < m
  BY DEF Draw
<1>2. n \in Nat /\ n > 0 /\ i \in Nat /\ m = n - i
  BY <1>1, SamplerAssumption DEF IInv, TypeOK, Live
<1>3. r \in Nat
  <2>1. v \in Nat /\ msk + 1 \in Nat /\ msk + 1 > 0
    BY VNat DEF IInv, TypeOK
  <2> QED
    BY <2>1, ModNat DEF Reduce, Masked
<1>4. Target(i, r) = i + r
  <2>1. i + r \in Nat /\ i + r < n
    BY <1>1, <1>2, <1>3
  <2>2. Target(i, r) = (i + r) % n
    BY DEF Target
  <2> QED
    BY <1>2, <2>1, <2>2, ModSmall
<1> QED
  BY <1>3, <1>4

LEMMA DrawInv == ASSUME IInv, NEW v \in 0 .. Strings(l) - 1, Draw(v) PROVE IInv'
<1> DEFINE r == Reduce(v)
<1>1. r \in Nat /\ Target(i, r) = i + r
  BY DrawNumber
<1> QED
  BY <1>1, ShuffleInv DEF Draw

LEMMA Inductive == IInv /\ [Next]_vars => IInv'
<1> SUFFICES ASSUME IInv, [Next]_vars PROVE IInv'
  OBVIOUS
<1>1. CASE GenIdx
  BY <1>1, GenIdxInv
<1>2. CASE \E v \in 0 .. Strings(l) - 1 : Draw(v) \/ DrawAgain(v)
  <2>1. PICK v \in 0 .. Strings(l) - 1 : Draw(v) \/ DrawAgain(v)
    BY <1>2
  <2>2. CASE Draw(v)
    BY <2>2, DrawInv
  <2>3. CASE DrawAgain(v)
    BY <2>3, QuietInv DEF DrawAgain
  <2> QED
    BY <2>1, <2>2, <2>3
<1>3. CASE GenIdxPanics \/ CallNat \/ WidthStep \/ WidthDone \/ MaskStep \/ MaskDone
           \/ Return \/ UNCHANGED vars
  BY <1>3, QuietInv
<1> QED
  BY <1>1, <1>2, <1>3 DEF Next

-----------------------------------------------------------------------------
\* Type correctness of gen_idx, choose and nat: every index of the shuffle is
\* inside the array, for every number of positions and all bytes drawn.
THEOREM TypeCorrect == Spec => []TypeOK
<1>1. IInv => TypeOK
  BY DEF IInv
<1> QED
  BY InitInv, Inductive, <1>1, PTL DEF Spec

\* The positions choose returns are below n and pairwise different, for every
\* n and k that gen_idx admits and all bytes drawn.
THEOREM PositionsDistinct == Spec => []ChosenDistinct
<1>1. IInv => ChosenDistinct
  <2> SUFFICES ASSUME IInv, pc = "returned"
               PROVE  /\ \A q \in 0 .. k - 1 : res[q] \in 0 .. n - 1
                      /\ \A p, q \in 0 .. k - 1 : res[p] = res[q] => p = q
    BY DEF ChosenDistinct
  <2>1. n \in Nat /\ k \in Nat /\ i = k /\ Shuffling
    BY SamplerAssumption DEF IInv, TypeOK
  <2> QED
    BY <2>1 DEF Shuffling
<1> QED
  BY InitInv, Inductive, <1>1, PTL DEF Spec

-----------------------------------------------------------------------------
(***************************************************************************)
(* nat is uniform.  The strings of l bytes are as many as a multiple of    *)
(* the numbers the mask lets through.                                      *)
(***************************************************************************)
\* 2^(x + y) = 2^x * 2^y
LEMMA TwoToSum ==
  ASSUME NEW x \in Nat, NEW y \in Nat
  PROVE  TwoTo(x + y) = TwoTo(x) * TwoTo(y)
<1> DEFINE T == {q \in 0 .. y : TwoTo(x + q) # TwoTo(x) * TwoTo(q)}
<1>1. T = {}
  <2> SUFFICES ASSUME T # {} PROVE FALSE
    OBVIOUS
  <2>1. T \subseteq Nat
    OBVIOUS
  <2>2. PICK q \in T : \A p \in T : q <= p
    <3> HIDE DEF T
    <3> QED
      BY <2>1, LeastNat, Zenon
  <2>3. q \in 0 .. y /\ TwoTo(x + q) # TwoTo(x) * TwoTo(q)
    OBVIOUS
  <2>4. q # 0
    <3>1. TwoTo(x) \in Nat /\ TwoTo(0) = 1 /\ x + 0 = x
      BY TwoToStep
    <3>2. TwoTo(x) * 1 = TwoTo(x)
      BY <3>1
    <3> QED
      BY <2>3, <3>1, <3>2
  <2>5. q - 1 \in 0 .. y /\ q - 1 \notin T /\ q - 1 \in Nat /\ (q - 1) + 1 = q
    BY <2>2, <2>3, <2>4
  <2>6. TwoTo(x + (q - 1)) = TwoTo(x) * TwoTo(q - 1)
    BY <2>5
  <2>7. x + (q - 1) \in Nat /\ (x + (q - 1)) + 1 = x + q
    BY <2>5
  <2>8. TwoTo(x + q) = 2 * TwoTo(x + (q - 1))
    BY <2>7, TwoToStep
  <2>9. TwoTo(q) = 2 * TwoTo(q - 1)
    BY <2>5, TwoToStep
  <2>10. TwoTo(x) \in Nat /\ TwoTo(q - 1) \in Nat
    BY <2>5, TwoToStep
  <2>11. PICK X, Y : X = TwoTo(x) /\ Y = TwoTo(q - 1)
    OBVIOUS
  <2>12. 2 * (X * Y) = X * (2 * Y)
    BY <2>10, <2>11
  <2> QED
    BY <2>3, <2>6, <2>8, <2>9, <2>11, <2>12
<1>2. y \in 0 .. y /\ y \notin T
  BY <1>1
<1> QED
  BY <1>2

\* One byte more.
LEMMA StringsStep ==
  ASSUME NEW w \in Nat
  PROVE  /\ Strings(w) \in Nat /\ Strings(0) = 1
         /\ Strings(w + 1) = Strings(w) * TwoTo(ByteBits)
<1>1. ByteBits \in Nat
  BY SamplerAssumption
<1>2. ByteBits * w \in Nat /\ ByteBits * 0 = 0 /\ ByteBits * (w + 1) = ByteBits * w + ByteBits
  BY <1>1
<1>3. TwoTo(ByteBits * w + ByteBits) = TwoTo(ByteBits * w) * TwoTo(ByteBits)
  BY <1>1, <1>2, TwoToSum
<1>4. TwoTo(ByteBits * w) \in Nat /\ TwoTo(0) = 1
  BY <1>2, TwoToStep
<1> QED
  BY <1>2, <1>3, <1>4 DEF Strings

Fits == \E q \in Nat : Strings(l) = (msk + 1) * TwoTo(q)

NatInv ==
  /\ pc = "width" => m < Strings(l) * (nn + 1)
  /\ pc = "mask" => m < Strings(l) /\ Fits
  /\ pc = "draw" => m <= msk /\ Fits

\* The quotient says how much of the number is left.
LEMMA DivBound ==
  ASSUME NEW x \in Nat, NEW b \in Nat, b > 0
  PROVE  x \div b \in Nat /\ x + 1 <= b * (x \div b + 1)
<1>1. PICK d : d = x \div b
  OBVIOUS
<1>2. d \in Nat /\ x = b * d + (x % b) /\ (x % b) < b /\ (x % b) \in Nat
  BY <1>1
<1>3. b * (d + 1) = b * d + b /\ b * d \in Nat
  BY <1>2
<1> QED
  BY <1>1, <1>2, <1>3

LEMMA TimesMonotone ==
  ASSUME NEW x \in Nat, NEW y \in Nat, NEW s \in Nat, x <= y
  PROVE  s * x \in Nat /\ s * y \in Nat /\ s * x <= s * y
<1>1. PICK e \in Nat : y = x + e
  <2>1. y - x \in Nat /\ y = x + (y - x)
    OBVIOUS
  <2> QED
    BY <2>1
<1>2. s * y = s * x + s * e /\ s * x \in Nat /\ s * e \in Nat
  BY <1>1
<1> QED
  BY <1>2

LEMMA WidthStepNat ==
  ASSUME TypeOK, NatInv, WidthStep
  PROVE  NatInv'
<1>1. /\ pc = "width" /\ pc' = "width" /\ m' = m /\ l' = l + 1
      /\ nn' = nn \div TwoTo(ByteBits) /\ m \in Nat /\ nn \in Nat /\ l \in Nat
  BY DEF WidthStep, TypeOK
<1>2. m < Strings(l) * (nn + 1)
  BY <1>1 DEF NatInv
<1>3. PICK b : b = TwoTo(ByteBits)
  OBVIOUS
<1>4. PICK s : s = Strings(l)
  OBVIOUS
<1>5. b \in Nat /\ b > 0 /\ s \in Nat /\ Strings(l + 1) = s * b
  BY <1>1, <1>3, <1>4, SamplerAssumption, TwoToStep, StringsStep
<1>6. nn' \in Nat /\ nn + 1 <= b * (nn' + 1)
  BY <1>1, <1>3, <1>5, DivBound
<1>7. PICK z : z = nn'
  OBVIOUS
<1>8. b * (z + 1) \in Nat /\ nn + 1 \in Nat /\ nn + 1 <= b * (z + 1) /\ z \in Nat
  BY <1>1, <1>5, <1>6, <1>7
<1>9. s * (nn + 1) <= s * (b * (z + 1)) /\ s * (nn + 1) \in Nat /\ s * (b * (z + 1)) \in Nat
  BY <1>5, <1>8, TimesMonotone
<1>10. s * (b * (z + 1)) = (s * b) * (z + 1)
  BY <1>5, <1>8
<1>11. m < (s * b) * (z + 1)
  BY <1>1, <1>2, <1>4, <1>9, <1>10
<1>12. Strings(l') = s * b
  BY <1>1, <1>5
<1> QED
  BY <1>1, <1>7, <1>11, <1>12 DEF NatInv

LEMMA WidthDoneNat ==
  ASSUME TypeOK, NatInv, WidthDone
  PROVE  NatInv'
<1>1. /\ pc = "width" /\ pc' = "mask" /\ m' = m /\ l' = l /\ nn = 0 /\ msk' = 0
      /\ m \in Nat /\ l \in Nat
  BY DEF WidthDone, TypeOK
<1>2. m < Strings(l) * (nn + 1) /\ Strings(l) \in Nat
  BY <1>1, StringsStep DEF NatInv
<1>3. m < Strings(l)
  BY <1>1, <1>2
<1>4. ByteBits * l \in Nat
  BY <1>1, SamplerAssumption
<1>5. Strings(l) = (0 + 1) * TwoTo(ByteBits * l)
  BY <1>2 DEF Strings
<1>6. Fits'
  BY <1>1, <1>4, <1>5 DEF Fits
<1>7. Strings(l') = Strings(l)
  BY <1>1
<1> QED
  BY <1>1, <1>3, <1>6, <1>7 DEF NatInv

LEMMA MaskStepNat ==
  ASSUME TypeOK, NatInv, MaskStep
  PROVE  NatInv'
<1>1. /\ pc = "mask" /\ pc' = "mask" /\ m' = m /\ l' = l /\ msk' = 2 * msk + 1
      /\ m \in Nat /\ l \in Nat /\ msk \in Nat /\ Masked(m) # m
  BY DEF MaskStep, TypeOK
<1>2. m < Strings(l) /\ Strings(l) \in Nat
  BY <1>1, StringsStep DEF NatInv
<1>3. PICK q \in Nat : Strings(l) = (msk + 1) * TwoTo(q)
  BY <1>1 DEF NatInv, Fits
<1>4. ~(m < msk + 1)
  BY <1>1, ModSmall DEF Masked
<1>5. q # 0
  <2> SUFFICES ASSUME q = 0 PROVE FALSE
    OBVIOUS
  <2>1. TwoTo(q) = 1
    BY TwoToStep
  <2>2. (msk + 1) * 1 = msk + 1
    BY <1>1
  <2>3. Strings(l) = msk + 1
    BY <1>3, <2>1, <2>2
  <2> QED
    BY <1>1, <1>2, <1>4, <2>3
<1>6. q - 1 \in Nat /\ (q - 1) + 1 = q
  BY <1>5
<1>7. TwoTo(q) = 2 * TwoTo(q - 1) /\ TwoTo(q - 1) \in Nat
  BY <1>6, TwoToStep
<1>8. PICK Y \in Nat : Y = TwoTo(q - 1)
  BY <1>7
<1>9. (msk + 1) * (2 * Y) = ((2 * msk + 1) + 1) * Y
  BY <1>1, <1>8
<1>10. Strings(l) = ((2 * msk + 1) + 1) * TwoTo(q - 1)
  BY <1>3, <1>7, <1>8, <1>9
<1>11. Fits'
  <2>1. Strings(l') = (msk' + 1) * TwoTo(q - 1)
    BY <1>1, <1>10
  <2> QED
    BY <1>6, <2>1 DEF Fits
<1>12. Strings(l') = Strings(l)
  BY <1>1
<1> QED
  BY <1>1, <1>2, <1>11, <1>12 DEF NatInv

LEMMA MaskDoneNat ==
  ASSUME TypeOK, NatInv, MaskDone
  PROVE  NatInv'
<1>1. /\ pc = "mask" /\ pc' = "draw" /\ m' = m /\ l' = l /\ msk' = msk
      /\ m \in Nat /\ msk \in Nat /\ Masked(m) = m
  BY DEF MaskDone, TypeOK
<1>2. Fits'
  BY <1>1 DEF NatInv, Fits
<1>3. m <= msk
  <2>1. msk + 1 \in Nat /\ msk + 1 > 0
    BY <1>1
  <2>2. m % (msk + 1) \in 0 .. (msk + 1) - 1
    BY <1>1, <2>1, ModNat
  <2> QED
    BY <1>1, <2>2 DEF Masked
<1> QED
  BY <1>1, <1>2, <1>3 DEF NatInv

LEMMA CallNatNat ==
  ASSUME IInv, CallNat
  PROVE  NatInv'
<1>1. pc' = "width" /\ m' = n - i /\ nn' = n - i /\ l' = 0
  BY DEF CallNat
<1>2. n - i \in Nat
  BY DEF CallNat, IInv, TypeOK, Live, Shuffling
<1>3. Strings(l') = 1
  BY <1>1, StringsStep
<1>4. n - i < 1 * ((n - i) + 1)
  BY <1>2
<1> QED
  BY <1>1, <1>3, <1>4 DEF NatInv

LEMMA NatInductive == IInv /\ NatInv /\ [Next]_vars => NatInv'
<1> SUFFICES ASSUME IInv, NatInv, [Next]_vars PROVE NatInv'
  OBVIOUS
<1>1. TypeOK
  BY DEF IInv
<1>2. CASE GenIdx \/ GenIdxPanics \/ Return \/ \E v \in 0 .. Strings(l) - 1 : Draw(v)
  <2>1. pc' \notin {"width", "mask", "draw"}
    BY <1>2 DEF GenIdx, GenIdxPanics, Return, Draw
  <2> QED
    BY <2>1 DEF NatInv
<1>3. CASE UNCHANGED vars \/ \E v \in 0 .. Strings(l) - 1 : DrawAgain(v)
  <2>1. UNCHANGED <<pc, m, nn, l, msk>>
    BY <1>3 DEF vars, DrawAgain
  <2>2. Fits => Fits'
    BY <2>1 DEF Fits
  <2>3. Strings(l') = Strings(l)
    BY <2>1
  <2> QED
    BY <2>1, <2>2, <2>3 DEF NatInv
<1>4. CASE CallNat
  BY <1>4, CallNatNat
<1>5. CASE WidthStep
  BY <1>1, <1>5, WidthStepNat
<1>6. CASE WidthDone
  BY <1>1, <1>6, WidthDoneNat
<1>7. CASE MaskStep
  BY <1>1, <1>7, MaskStepNat
<1>8. CASE MaskDone
  BY <1>1, <1>8, MaskDoneNat
<1> QED
  BY <1>2, <1>3, <1>4, <1>5, <1>6, <1>7, <1>8 DEF Next

\* Remainders of a block of q numbers that starts at a multiple of it.
LEMMA ModBlock ==
  ASSUME NEW q \in Nat, q > 0, NEW u \in Nat, (u % q) = 0, NEW r \in Nat, r < q
  PROVE  ((u + r) % q) = r
<1>1. PICK t \in Nat : u = q * t
  <2>1. u \div q \in Nat /\ u = q * (u \div q) + (u % q)
    OBVIOUS
  <2>2. u = q * (u \div q)
    BY <2>1
  <2> QED
    BY <2>1, <2>2
<1>2. PICK x : x = u + r
  OBVIOUS
<1>3. x \in Nat /\ x = q * t + r
  BY <1>1, <1>2
<1>4. PICK d : d = x \div q
  OBVIOUS
<1>5. d \in Nat /\ x = q * d + (x % q) /\ (x % q) \in Nat /\ (x % q) < q
  BY <1>3, <1>4
<1>6. d = t
  <2>1. ~(d < t)
    <3> SUFFICES ASSUME d < t PROVE FALSE
      OBVIOUS
    <3>1. q * (d + 1) <= q * t /\ q * (d + 1) \in Nat /\ q * t \in Nat
      <4>1. d + 1 \in Nat /\ d + 1 <= t
        BY <1>1, <1>5
      <4> QED
        BY <1>1, <4>1, TimesMonotone
    <3>2. q * (d + 1) = q * d + q /\ q * d \in Nat
      BY <1>5
    <3> QED
      BY <1>3, <1>5, <3>1, <3>2
  <2>2. ~(t < d)
    <3> SUFFICES ASSUME t < d PROVE FALSE
      OBVIOUS
    <3>1. q * (t + 1) <= q * d /\ q * (t + 1) \in Nat /\ q * d \in Nat
      <4>1. t + 1 \in Nat /\ t + 1 <= d
        BY <1>1, <1>5
      <4> QED
        BY <1>5, <4>1, TimesMonotone
    <3>2. q * (t + 1) = q * t + q /\ q * t \in Nat
      BY <1>1
    <3> QED
      BY <1>3, <1>5, <3>1, <3>2
  <2> QED
    BY <1>1, <1>5, <2>1, <2>2
<1>7. q * d = q * t /\ q * t \in Nat
  BY <1>1, <1>6
<1>8. (x % q) = r
  BY <1>3, <1>5, <1>7
<1> QED
  BY <1>2, <1>8

\* A remainder r taken off leaves a multiple.
LEMMA ModOff ==
  ASSUME NEW q \in Nat, q > 0, NEW x \in Nat
  PROVE  x - (x % q) \in Nat /\ ((x - (x % q)) % q) = 0
<1>1. PICK d : d = x \div q
  OBVIOUS
<1>2. d \in Nat /\ x = q * d + (x % q) /\ (x % q) \in Nat
  BY <1>1
<1>3. q * d \in Nat /\ x - (x % q) = q * d
  BY <1>2
<1>4. ((q * d) % q) = 0
  <2>1. PICK z : z = q * d
    OBVIOUS
  <2>2. PICK e : e = z \div q
    OBVIOUS
  <2>3. z \in Nat /\ e \in Nat /\ z = q * e + (z % q) /\ (z % q) \in Nat /\ (z % q) < q
    BY <1>3, <2>1, <2>2
  <2>4. ~(e < d)
    <3> SUFFICES ASSUME e < d PROVE FALSE
      OBVIOUS
    <3>1. q * (e + 1) <= q * d /\ q * (e + 1) \in Nat
      <4>1. e + 1 \in Nat /\ e + 1 <= d
        BY <1>2, <2>3
      <4> QED
        BY <1>2, <4>1, TimesMonotone
    <3>2. q * (e + 1) = q * e + q /\ q * e \in Nat
      BY <2>3
    <3> QED
      BY <2>1, <2>3, <3>1, <3>2
  <2>5. q * d <= q * e /\ q * e \in Nat
    <3>1. d <= e
      BY <1>2, <2>3, <2>4
    <3> QED
      BY <1>2, <2>3, <3>1, TimesMonotone
  <2>6. (z % q) = 0
    BY <1>3, <2>1, <2>3, <2>5
  <2> QED
    BY <2>1, <2>6
<1> QED
  BY <1>3, <1>4

\* The last multiple below s * q has room for a whole block after it.
LEMMA LastBlock ==
  ASSUME NEW q \in Nat, q > 0, NEW s \in Nat, NEW u \in Nat, u < q * s, (u % q) = 0
  PROVE  u + q <= q * s
<1>1. PICK t \in Nat : u = q * t
  <2>1. u \div q \in Nat /\ u = q * (u \div q) + (u % q)
    OBVIOUS
  <2>2. u = q * (u \div q)
    BY <2>1
  <2> QED
    BY <2>1, <2>2
<1>2. t < s
  <2> SUFFICES ASSUME ~(t < s) PROVE FALSE
    OBVIOUS
  <2>1. s <= t
    BY <1>1
  <2>2. q * s <= q * t /\ q * s \in Nat /\ q * t \in Nat
    BY <1>1, <2>1, TimesMonotone
  <2> QED
    BY <1>1, <2>2
<1>3. t + 1 \in Nat /\ t + 1 <= s
  BY <1>1, <1>2
<1>4. q * (t + 1) <= q * s
  BY <1>3, TimesMonotone
<1>5. q * (t + 1) = q * t + q
  BY <1>1
<1> QED
  BY <1>1, <1>4, <1>5

LEMMA NatIsUnbiased == TypeOK /\ NatInv => NatUnbiased
<1> SUFFICES ASSUME TypeOK, NatInv, pc = "draw", NEW r \in 0 .. m - 1
             PROVE  /\ Preimages(r) # {}
                    /\ Cardinality(Preimages(r)) = Cardinality(Preimages(0))
  BY DEF NatUnbiased
<1>1. m \in Nat /\ msk \in Nat /\ m <= msk /\ l \in Nat
  BY DEF TypeOK, NatInv
<1>2. PICK c \in Nat : Strings(l) = (msk + 1) * TwoTo(c)
  BY DEF NatInv, Fits
<1>3. PICK q, s : q = msk + 1 /\ s = TwoTo(c)
  OBVIOUS
<1>4. q \in Nat /\ q > 0 /\ s \in Nat /\ s > 0 /\ r \in Nat /\ r < q
  BY <1>1, <1>3, TwoToStep
<1>5. PICK N : N = q * s
  OBVIOUS
<1>6. N \in Nat /\ q <= N /\ Strings(l) = N
  <2>1. 1 <= s /\ 1 \in Nat /\ q * 1 = q
    BY <1>4
  <2>2. q * 1 <= q * s /\ q * s \in Nat
    BY <1>4, <2>1, TimesMonotone
  <2> QED
    BY <1>2, <1>3, <1>5, <2>1, <2>2
<1>7. ASSUME NEW x PROVE Preimages(x) = {v \in 0 .. N - 1 : (v % q) = x}
  BY <1>3, <1>6 DEF Preimages, Reduce, Masked
<1> DEFINE S == {v \in 0 .. N - 1 : (v % q) = r}
           Z == {v \in 0 .. N - 1 : (v % q) = 0}
<1>8. r \in S
  <2>1. r \in 0 .. N - 1
    BY <1>4, <1>6
  <2>2. r % q = r
    BY <1>4, ModSmall
  <2> QED
    BY <2>1, <2>2
<1>9. \A v \in S : v - r \in Z
  <2> SUFFICES ASSUME NEW v \in S PROVE v - r \in Z
    OBVIOUS
  <2>1. v \in Nat /\ v < N /\ (v % q) = r
    BY <1>6
  <2>2. v - r \in Nat /\ ((v - r) % q) = 0
    BY <1>4, <2>1, ModOff
  <2>3. v - r \in 0 .. N - 1
    BY <1>4, <1>6, <2>1, <2>2
  <2> QED
    BY <2>2, <2>3
<1>10. \A u \in Z : u + r \in S
  <2> SUFFICES ASSUME NEW u \in Z PROVE u + r \in S
    OBVIOUS
  <2>1. u \in Nat /\ u < q * s /\ (u % q) = 0
    BY <1>5, <1>6
  <2>2. u + q <= q * s
    BY <1>4, <2>1, LastBlock
  <2>3. u + r \in 0 .. N - 1
    BY <1>4, <1>5, <1>6, <2>1, <2>2
  <2>4. ((u + r) % q) = r
    BY <1>4, <2>1, ModBlock
  <2> QED
    BY <2>3, <2>4
<1>11. S \subseteq Int /\ Z \subseteq Int
  BY <1>6
<1> HIDE DEF S, Z
<1> DEFINE f == [v \in S |-> v - r]
<1>12. f \in Bijection(S, Z)
  <2>1. f \in [S -> Z]
    BY <1>9
  <2>2. \A x, y \in S : f[x] = f[y] => x = y
    BY <1>4, <1>11
  <2>3. \A z \in Z : \E x \in S : f[x] = z
    <3> SUFFICES ASSUME NEW z \in Z PROVE f[z + r] = z /\ z + r \in S
      OBVIOUS
    <3>1. z + r \in S
      BY <1>10
    <3>2. (z + r) - r = z
      BY <1>4, <1>11
    <3> QED
      BY <3>1, <3>2
  <2> HIDE DEF f
  <2> QED
    BY <2>1, <2>2, <2>3 DEF Bijection, Injection, Surjection, IsInjective
<1>13. ExistsBijection(S, Z)
  BY <1>12 DEF ExistsBijection
<1>14. IsFiniteSet(S)
  <2>1. IsFiniteSet(0 .. N - 1)
    <3>1. 0 \in Int /\ N - 1 \in Int
      BY <1>6
    <3> QED
      BY <3>1, FS_Interval
  <2>2. S \subseteq 0 .. N - 1
    BY DEF S
  <2> QED
    BY <2>1, <2>2, FS_Subset
<1>15. Cardinality(Z) = Cardinality(S)
  BY <1>13, <1>14, FS_Bijection
<1>16. Preimages(r) = S /\ Preimages(0) = Z
  BY <1>7 DEF S, Z
<1> QED
  BY <1>8, <1>15, <1>16

-----------------------------------------------------------------------------
(***************************************************************************)
(* choose favours no selection.  Run holds of draws ds and of the arrays f *)
(* they lead through; the invariant says that every run that agrees with   *)
(* the result so far has made the same draws and holds the same array.     *)
(***************************************************************************)
Run(N, K, ds, f) ==
  /\ ds \in [1 .. K -> 0 .. N - 1] /\ \A x \in 1 .. K : ds[x] < N - x + 1
  /\ f \in [0 .. K -> [0 .. N - 1 -> 0 .. N - 1]]
  /\ f[0] = [p \in 0 .. N - 1 |-> p]
  /\ \A x \in 1 .. K : f[x] = Swap(f[x - 1], x - 1, (x - 1) + ds[x])

SameRun(ds, f) ==
  Run(n, k, ds, f) /\ (\A q \in 0 .. i - 1 : f[k][q] = res[q]) =>
    (\A x \in 1 .. i : ds[x] = drawn[x]) /\ f[i] = a

ChooseInv ==
  /\ pc = "gen_idx" => drawn = <<>>
  /\ pc \in Live \cup {"returned"} => Len(drawn) = i /\ \A ds, f : SameRun(ds, f)

Arrays(N) == [0 .. N - 1 -> 0 .. N - 1]

\* What a swap of two elements leaves at a position.
Swapped(N, b, x, y) ==
  /\ Swap(b, x, y) \in Arrays(N)
  /\ Swap(b, x, y)[x] = b[y]
  /\ \A q \in 0 .. N - 1 : q < x /\ q < y => Swap(b, x, y)[q] = b[q]

LEMMA SwapAt ==
  ASSUME NEW N \in Nat, NEW b \in Arrays(N), NEW x \in 0 .. N - 1, NEW y \in 0 .. N - 1
  PROVE  Swapped(N, b, x, y)
<1>1. Swap(b, x, y) = [b EXCEPT ![x] = b[y], ![y] = b[x]]
  BY DEF Swap
<1>2. Swap(b, x, y) \in Arrays(N)
  BY <1>1 DEF Arrays
<1>3. Swap(b, x, y)[x] = b[y]
  BY <1>1 DEF Arrays
<1>4. \A q \in 0 .. N - 1 : q < x /\ q < y => Swap(b, x, y)[q] = b[q]
  BY <1>1 DEF Arrays
<1> QED
  BY <1>2, <1>3, <1>4 DEF Swapped

\* One turn of a run.
Turn(N, ds, f, x) ==
  /\ f[x - 1] \in Arrays(N) /\ x - 1 \in 0 .. N - 1
  /\ ds[x] \in Nat /\ (x - 1) + ds[x] \in 0 .. N - 1
  /\ f[x] = Swap(f[x - 1], x - 1, (x - 1) + ds[x])

LEMMA RunTurn ==
  ASSUME NEW N \in Nat, NEW K \in Nat, K <= N, NEW ds, NEW f, Run(N, K, ds, f),
         NEW x \in 1 .. K
  PROVE  Turn(N, ds, f, x)
<1>1. ds[x] \in 0 .. N - 1 /\ ds[x] < N - x + 1
  BY DEF Run
<1>2. x - 1 \in 0 .. K
  OBVIOUS
<1>3. f[x - 1] \in Arrays(N)
  BY <1>2 DEF Run, Arrays
<1>4. x - 1 \in 0 .. N - 1 /\ ds[x] \in Nat /\ (x - 1) + ds[x] \in 0 .. N - 1
  BY <1>1
<1>5. f[x] = Swap(f[x - 1], x - 1, (x - 1) + ds[x])
  BY DEF Run
<1> QED
  BY <1>3, <1>4, <1>5 DEF Turn

\* A position that was filled stays as it is: the later swaps are beyond it.
Stays(K, f, q) == f[K][q] = f[q + 1][q]

LEMMA Settled ==
  ASSUME NEW N \in Nat, NEW K \in Nat, K <= N, NEW ds, NEW f, Run(N, K, ds, f),
         NEW q \in 0 .. K - 1
  PROVE  Stays(K, f, q)
<1> DEFINE T == {x \in q + 1 .. K : f[x][q] # f[q + 1][q]}
<1>0. \A x \in 1 .. K : Turn(N, ds, f, x)
  BY RunTurn
<1>1. ASSUME T # {} PROVE FALSE
  <2>1. T \subseteq Nat
    OBVIOUS
  <2>2. PICK x \in T : \A y \in T : x <= y
    <3> HIDE DEF T
    <3> QED
      BY <1>1, <2>1, LeastNat, Zenon
  <2>3. x \in q + 1 .. K /\ f[x][q] # f[q + 1][q]
    OBVIOUS
  <2>4. x # q + 1
    BY <2>3
  <2>5. x \in 1 .. K /\ x - 1 \in q + 1 .. K /\ x - 1 \notin T
    BY <2>2, <2>3, <2>4
  <2>6. f[x - 1][q] = f[q + 1][q]
    BY <2>5
  <2> HIDE DEF T
  <2>7. Turn(N, ds, f, x)
    BY <1>0, <2>5
  <2>8. q \in 0 .. N - 1 /\ q < x - 1 /\ q < (x - 1) + ds[x]
    <3>1. ds[x] \in Nat
      BY <2>7 DEF Turn
    <3>2. q \in Nat /\ x \in Nat /\ q + 1 <= x - 1 /\ q <= N - 1
      BY <2>5
    <3> QED
      BY <3>1, <3>2
  <2>9. Swapped(N, f[x - 1], x - 1, (x - 1) + ds[x])
    BY <2>7, SwapAt DEF Turn
  <2>10. f[x][q] = f[x - 1][q]
    BY <2>7, <2>8, <2>9 DEF Turn, Swapped
  <2> QED
    BY <2>3, <2>6, <2>10
<1>2. K \in q + 1 .. K /\ K \notin T
  BY <1>1
<1> QED
  BY <1>2 DEF Stays

\* A run that leaves the same position has drawn the same number.
Distinct(N, b) == \A p, q \in 0 .. N - 1 : b[p] = b[q] => p = q

SameTurn(ds, f, b, x, r) == ds[x + 1] = r /\ f[x + 1] = Swap(b, x, x + r)

LEMMA SameDraw ==
  ASSUME NEW N \in Nat, NEW K \in Nat, K <= N, NEW ds, NEW f, Run(N, K, ds, f),
         NEW b \in Arrays(N), Distinct(N, b),
         NEW x \in 0 .. K - 1, f[x] = b, NEW r \in Nat, x + r \in 0 .. N - 1,
         f[K][x] = b[x + r]
  PROVE  SameTurn(ds, f, b, x, r)
<1>1. x + 1 \in 1 .. K /\ (x + 1) - 1 = x /\ x \in 0 .. N - 1
  OBVIOUS
<1>2. PICK d : d = ds[x + 1]
  OBVIOUS
<1>3. d \in Nat /\ x + d \in 0 .. N - 1 /\ f[x + 1] = Swap(b, x, x + d)
  <2>1. Turn(N, ds, f, x + 1)
    BY <1>1, RunTurn
  <2> QED
    BY <1>1, <1>2, <2>1, Zenon DEF Turn
<1>4. f[x + 1][x] = b[x + d]
  <2>1. Swapped(N, b, x, x + d)
    BY <1>1, <1>3, SwapAt
  <2> QED
    BY <1>3, <2>1, Zenon DEF Swapped
<1>5. f[K][x] = f[x + 1][x]
  <2>1. Stays(K, f, x)
    BY Settled
  <2> QED
    BY <2>1 DEF Stays
<1>6. x + d = x + r
  BY <1>3, <1>4, <1>5, Zenon DEF Distinct
<1>7. d = r
  BY <1>3, <1>6
<1> QED
  BY <1>2, <1>3, <1>7 DEF SameTurn

LEMMA DrawState ==
  ASSUME IInv, pc = "draw"
  PROVE  /\ n \in Nat /\ k \in Nat /\ k <= n /\ n > 0
         /\ i \in Nat /\ i < k /\ m = n - i /\ drawn \in Seq(Nat)
         /\ a \in [0 .. n - 1 -> 0 .. n - 1] /\ res \in [0 .. k - 1 -> 0 .. n - 1]
         /\ \A p, q \in 0 .. n - 1 : a[p] = a[q] => p = q
<1>1. TypeOK /\ n > 0 /\ Shuffling
  BY DEF IInv, Live
<1>2. n \in Nat /\ k \in Nat /\ i \in Nat
  BY <1>1, SamplerAssumption DEF TypeOK
<1>3. i < k /\ m = n - i /\ drawn \in Seq(Nat) /\ res \in [0 .. k - 1 -> 0 .. n - 1]
  BY <1>1 DEF TypeOK
<1> QED
  BY <1>1, <1>2, <1>3 DEF Shuffling

\* The draws of a run that ends in the same positions are the same.
LEMMA DrawChoose ==
  ASSUME IInv, ChooseInv, pc = "draw", NEW r \in Nat, r < m,
         a' = Swap(a, i, i + r), res' = [res EXCEPT ![i] = a'[i]],
         i' = i + 1, pc' = "choose", drawn' = Append(drawn, r),
         UNCHANGED <<n, k, m, nn, l, msk>>
  PROVE  ChooseInv'
<1>1. /\ n \in Nat /\ k \in Nat /\ k <= n /\ n > 0
      /\ i \in Nat /\ i < k /\ m = n - i /\ drawn \in Seq(Nat)
      /\ a \in [0 .. n - 1 -> 0 .. n - 1] /\ res \in [0 .. k - 1 -> 0 .. n - 1]
      /\ \A p, q \in 0 .. n - 1 : a[p] = a[q] => p = q
  BY DrawState
<1>2. Len(drawn) = i /\ \A ds, f : SameRun(ds, f)
  BY DEF ChooseInv, Live
<1>3. PICK D : D = drawn'
  OBVIOUS
<1>4. PICK R : R = res'
  OBVIOUS
<1>5. PICK A : A = a'
  OBVIOUS
<1>6. i \in 0 .. n - 1 /\ i + r \in 0 .. n - 1 /\ i \in 0 .. k - 1
  BY <1>1
<1>7. Len(D) = i + 1 /\ D[i + 1] = r /\ \A x \in 1 .. i : D[x] = drawn[x]
  <2>1. D = Append(drawn, r) /\ drawn \in Seq(Nat) /\ r \in Nat /\ Len(drawn) = i
    BY <1>1, <1>2, <1>3
  <2> QED
    BY <2>1
<1>8. a \in Arrays(n) /\ A = Swap(a, i, i + r) /\ A[i] = a[i + r]
  <2>1. a \in Arrays(n)
    BY <1>1 DEF Arrays
  <2>2. Swapped(n, a, i, i + r)
    BY <1>1, <1>6, <2>1, SwapAt
  <2> QED
    BY <1>5, <2>1, <2>2 DEF Swapped
<1>9. R[i] = a[i + r] /\ \A q \in 0 .. i - 1 : R[q] = res[q]
  <2>1. R = [res EXCEPT ![i] = A[i]]
    BY <1>4, <1>5
  <2>2. i \in Nat /\ \A q \in 0 .. i - 1 : q # i /\ q \in 0 .. k - 1
    BY <1>1
  <2> QED
    BY <1>1, <1>6, <1>8, <2>1, <2>2
<1>10. ASSUME NEW ds, NEW f, Run(n, k, ds, f), \A q \in 0 .. i : f[k][q] = R[q]
       PROVE  (\A x \in 1 .. i + 1 : ds[x] = D[x]) /\ f[i + 1] = A
  <2>1. \A q \in 0 .. i - 1 : q \in 0 .. i
    BY <1>1
  <2>2. \A q \in 0 .. i - 1 : f[k][q] = res[q]
    BY <1>9, <1>10, <2>1, Zenon
  <2>3. (\A x \in 1 .. i : ds[x] = drawn[x]) /\ f[i] = a
    BY <1>2, <1>10, <2>2, Zenon DEF SameRun
  <2>4. i \in 0 .. i
    BY <1>1
  <2>5. f[k][i] = a[i + r]
    BY <1>9, <1>10, <2>4, Zenon
  <2>6. ds[i + 1] = r /\ f[i + 1] = Swap(a, i, i + r)
    <3>1. Distinct(n, a)
      BY <1>1 DEF Distinct
    <3>2. SameTurn(ds, f, a, i, r)
      BY <1>1, <1>6, <1>8, <1>10, <2>3, <2>5, <3>1, SameDraw, Zenon
    <3> QED
      BY <3>2 DEF SameTurn
  <2>7. \A z \in 1 .. i + 1 : z = i + 1 \/ z \in 1 .. i
    BY <1>1
  <2> QED
    BY <1>7, <1>8, <2>3, <2>6, <2>7, Zenon
<1>11. n' = n /\ k' = k /\ i' = i + 1 /\ i' - 1 = i
  BY <1>1
<1>12. \A ds, f : SameRun(ds, f)'
  <2> SUFFICES ASSUME NEW ds, NEW f PROVE SameRun(ds, f)'
    OBVIOUS
  <2>1. SameRun(ds, f)' <=>
          (Run(n, k, ds, f) /\ (\A q \in 0 .. i : f[k][q] = R[q]) =>
            (\A x \in 1 .. i + 1 : ds[x] = D[x]) /\ f[i + 1] = A)
    BY <1>3, <1>4, <1>5, <1>11, Zenon DEF SameRun, Run
  <2> QED
    BY <1>10, <2>1
<1>13. Len(drawn') = i'
  BY <1>3, <1>7, <1>11
<1> QED
  BY <1>12, <1>13 DEF ChooseInv

\* gen_idx starts every run with the positions in order and no draw.
LEMMA GenIdxChoose == ASSUME IInv, ChooseInv, GenIdx PROVE ChooseInv'
<1>1. /\ pc = "gen_idx" /\ i' = 0 /\ a' = [p \in 0 .. n - 1 |-> p]
      /\ pc' \in {"returned", "choose"} /\ n' = n /\ k' = k /\ drawn' = drawn
  BY DEF GenIdx
<1>2. Len(drawn') = i'
  BY <1>1 DEF ChooseInv
<1>3. ASSUME NEW ds, NEW f PROVE SameRun(ds, f)'
  <2> SUFFICES ASSUME Run(n, k, ds, f)
               PROVE  (\A x \in 1 .. 0 : ds[x] = drawn[x]) /\ f[0] = a'
    BY <1>1 DEF SameRun, Run
  <2>1. f[0] = [p \in 0 .. n - 1 |-> p]
    BY DEF Run
  <2> QED
    BY <1>1, <2>1
<1> QED
  BY <1>1, <1>2, <1>3 DEF ChooseInv

\* The steps of nat and the last step of choose neither draw nor swap.
LEMMA QuietChoose ==
  ASSUME ChooseInv,
         GenIdxPanics \/ CallNat \/ WidthStep \/ WidthDone \/ MaskStep \/ MaskDone
         \/ Return \/ UNCHANGED vars
  PROVE  ChooseInv'
<1>1. n' = n /\ k' = k /\ a' = a /\ res' = res /\ i' = i /\ drawn' = drawn
  BY DEF GenIdxPanics, CallNat, WidthStep, WidthDone, MaskStep, MaskDone, Return, vars
<1>2. /\ pc' = "gen_idx" => pc = "gen_idx"
      /\ pc' \in Live \cup {"returned"} => pc \in Live \cup {"returned"}
  BY DEF GenIdxPanics, CallNat, WidthStep, WidthDone, MaskStep, MaskDone, Return, vars, Live
<1>3. ASSUME NEW ds, NEW f PROVE SameRun(ds, f) => SameRun(ds, f)'
  BY <1>1, Zenon DEF SameRun, Run
<1>4. (\A ds, f : SameRun(ds, f)) => \A ds, f : SameRun(ds, f)'
  BY <1>3, Zenon
<1> QED
  BY <1>1, <1>2, <1>4 DEF ChooseInv

LEMMA ChooseInductive == IInv /\ ChooseInv /\ [Next]_vars => ChooseInv'
<1> SUFFICES ASSUME IInv, ChooseInv, [Next]_vars PROVE ChooseInv'
  OBVIOUS
<1>1. CASE GenIdx
  BY <1>1, GenIdxChoose
<1>2. ASSUME NEW v \in 0 .. Strings(l) - 1, Draw(v) PROVE ChooseInv'
  <2> DEFINE r == Reduce(v)
  <2>1. r \in Nat /\ Target(i, r) = i + r
    BY <1>2, DrawNumber
  <2>2. /\ pc = "draw" /\ r < m
        /\ a' = Swap(a, i, i + r) /\ res' = [res EXCEPT ![i] = a'[i]]
        /\ i' = i + 1 /\ pc' = "choose" /\ drawn' = Append(drawn, r)
        /\ UNCHANGED <<n, k, m, nn, l, msk>>
    BY <1>2, <2>1 DEF Draw
  <2> HIDE DEF r
  <2> QED
    BY <2>1, <2>2, DrawChoose
<1>3. ASSUME NEW v \in 0 .. Strings(l) - 1, DrawAgain(v) PROVE ChooseInv'
  BY <1>3, QuietChoose DEF DrawAgain
<1>4. CASE GenIdxPanics \/ CallNat \/ WidthStep \/ WidthDone \/ MaskStep \/ MaskDone
           \/ Return \/ UNCHANGED vars
  BY <1>4, QuietChoose
<1> QED
  BY <1>1, <1>2, <1>3, <1>4 DEF Next

\* The arrays of the recursive definition make a run.
LEMMA ShufflesRun ==
  ASSUME n \in Nat, k \in Nat, k <= n, NEW ds \in Draws
  PROVE  Run(n, k, ds, Shuffles(ds))
<1> DEFINE turn(b, x) == Swap(b, x - 1, Target(x - 1, ds[x]))
           first == [p \in 0 .. n - 1 |-> p]
           V == Arrays(n)
<1>1. ds \in [1 .. k -> 0 .. n - 1] /\ \A x \in 1 .. k : ds[x] < n - x + 1
  BY DEF Draws
<1>2. \A x \in 1 .. k : /\ x - 1 \in 0 .. n - 1 /\ (x - 1) + ds[x] \in 0 .. n - 1
                        /\ Target(x - 1, ds[x]) = (x - 1) + ds[x]
  <2> SUFFICES ASSUME NEW x \in 1 .. k
               PROVE  /\ x - 1 \in 0 .. n - 1 /\ (x - 1) + ds[x] \in 0 .. n - 1
                      /\ Target(x - 1, ds[x]) = (x - 1) + ds[x]
    OBVIOUS
  <2>1. ds[x] \in Nat /\ ds[x] < n - x + 1
    BY <1>1
  <2>2. x - 1 \in 0 .. n - 1
    OBVIOUS
  <2>3. (x - 1) + ds[x] \in 0 .. n - 1
    BY <2>1
  <2>4. ((x - 1) + ds[x]) % n = (x - 1) + ds[x]
    <3> DEFINE z == (x - 1) + ds[x]
    <3>1. z \in Nat /\ z < n
      BY <2>3
    <3> HIDE DEF z
    <3>2. z % n = z
      BY <3>1, ModSmall
    <3> QED
      BY <3>2 DEF z
  <2> QED
    BY <2>2, <2>3, <2>4, Zenon DEF Target
<1>3. \A x \in 1 .. k, b \in V : turn(b, x) \in V
  <2> SUFFICES ASSUME NEW x \in 1 .. k, NEW b \in V PROVE turn(b, x) \in V
    OBVIOUS
  <2>1. Swapped(n, b, x - 1, (x - 1) + ds[x])
    BY <1>2, SwapAt
  <2>2. Swap(b, x - 1, (x - 1) + ds[x]) \in V
    BY <2>1 DEF Swapped
  <2> QED
    BY <1>2, <2>2, Zenon
<1>4. first \in V
  BY DEF Arrays
<1> DEFINE step == [x \in 1 .. k |-> [b \in V |-> turn(b, x)]]
<1> HIDE DEF turn, first, V
<1>5. step \in [1 .. k -> [V -> V]]
  BY <1>3
<1>6. \A x \in 1 .. k, b \in V : step[x][b] = turn(b, x)
  OBVIOUS
<1> HIDE DEF step
<1>7. PICK f : Follows(f, V, k, first, step)
  BY <1>4, <1>5, Recursion
<1>8. f = [x \in 0 .. k |-> IF x = 0 THEN first ELSE turn(f[x - 1], x)]
  <2>1. f \in [0 .. k -> V] /\ f[0] = first /\ \A x \in 1 .. k : f[x] = step[x][f[x - 1]]
    BY <1>7 DEF Follows
  <2>2. \A x \in 0 .. k : x # 0 => (x \in 1 .. k /\ f[x - 1] \in V)
    BY <2>1
  <2>3. \A x \in 0 .. k : f[x] = (IF x = 0 THEN first ELSE turn(f[x - 1], x))
    BY <1>6, <2>1, <2>2
  <2> QED
    BY <2>1, <2>3
<1> DEFINE Is(b) == b = [x \in 0 .. k |-> IF x = 0 THEN first ELSE turn(b[x - 1], x)]
<1>9. Shuffles(ds) = CHOOSE b : Is(b)
  BY DEF Shuffles, turn, first
<1>10. Is(Shuffles(ds))
  BY <1>8, <1>9
<1> DEFINE g == Shuffles(ds)
<1>11. g = [x \in 0 .. k |-> IF x = 0 THEN first ELSE turn(g[x - 1], x)]
  BY <1>10
<1> HIDE DEF g
<1>12. g[0] = first /\ \A x \in 1 .. k : g[x] = turn(g[x - 1], x)
  BY <1>11
<1>13. \A x \in 0 .. k : g[x] \in V
  <2>1. g[0] \in V
    BY <1>4, <1>12
  <2>2. \A x \in 1 .. k : g[x - 1] \in V => g[x] \in V
    BY <1>3, <1>12, Zenon
  <2> QED
    BY <2>1, <2>2, Steps, Zenon
<1>14. g \in [0 .. k -> Arrays(n)]
  BY <1>11, <1>13 DEF V
<1>15. \A x \in 1 .. k : g[x] = Swap(g[x - 1], x - 1, (x - 1) + ds[x])
  BY <1>2, <1>12, Zenon DEF turn
<1> QED
  BY <1>1, <1>12, <1>14, <1>15, Zenon DEF Run, Arrays, first, g

\* choose returned: the draws that lead to the same positions are the ones made.
LEMMA ChooseIsUnbiased == IInv /\ ChooseInv => ChooseUnbiased
<1> SUFFICES ASSUME IInv, ChooseInv, pc = "returned", NEW ds \in Draws,
                    \A q \in 0 .. k - 1 : Shuffles(ds)[k][q] = res[q]
             PROVE  ds = drawn
  BY DEF ChooseUnbiased
<1>1. n \in Nat /\ k \in Nat /\ k <= n /\ i = k /\ drawn \in Seq(Nat)
  BY SamplerAssumption DEF IInv, TypeOK, Shuffling
<1>2. Len(drawn) = i /\ SameRun(ds, Shuffles(ds))
  BY DEF ChooseInv, Live
<1>3. Run(n, k, ds, Shuffles(ds))
  BY <1>1, ShufflesRun
<1>4. \A x \in 1 .. k : ds[x] = drawn[x]
  BY <1>1, <1>2, <1>3, Zenon DEF SameRun
<1>5. ds \in [1 .. k -> 0 .. n - 1]
  BY DEF Draws
<1>6. drawn = [x \in 1 .. k |-> drawn[x]]
  BY <1>1, <1>2
<1>7. ds = [x \in 1 .. k |-> ds[x]]
  BY <1>5
<1>8. [x \in 1 .. k |-> ds[x]] = [x \in 1 .. k |-> drawn[x]]
  BY <1>4
<1> QED
  BY <1>6, <1>7, <1>8

-----------------------------------------------------------------------------
\* Every selection of positions is as likely as every other one, for every n
\* and k and bytes of any number of bits: the numbers nat can return come from
\* equally many byte strings, and no two sequences of draws give the same
\* selection in choose (gen_idx).
THEOREM SelectionsUnbiased == Spec => []Unbiased
<1>1. Init => NatInv /\ ChooseInv
  BY DEF Init, NatInv, ChooseInv, Live
<1>2. IInv /\ NatInv /\ ChooseInv => Unbiased
  BY NatIsUnbiased, ChooseIsUnbiased DEF IInv, Unbiased
<1> QED
  BY InitInv, Inductive, NatInductive, ChooseInductive, <1>1, <1>2, PTL DEF Spec
=============================================================================
