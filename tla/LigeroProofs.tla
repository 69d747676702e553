---------------------------- MODULE LigeroProofs ----------------------------
(***************************************************************************)
(* Proofs about Ligero: completeness, the random combination an accepted   *)
(* proof shows, and that changes are noticed, for every statement,         *)
(* geometry, prime modulus, witness, coins and challenges.                 *)
(*                                                                         *)
(* First come sums over finite sets, arithmetic modulo q, and polynomials, *)
(* which are functions whose differences of some order vanish; the rows of *)
(* the tableau follow polynomials of degree below block or dblock.  Then   *)
(* the identities the verifier relies on, and last the invariant.          *)
(***************************************************************************)
EXTENDS Ligero, FiniteSetTheorems, NaturalsInduction, WellFoundedInduction, TLAPS

-----------------------------------------------------------------------------
(***************************************************************************)
(* Numbers.                                                                *)
(***************************************************************************)
\* Induction is over a least counterexample.
LEMMA LeastNat ==
  ASSUME NEW T, T \subseteq Nat, T # {}
  PROVE  \E x \in T : \A y \in T : x <= y
<1>1. IsWellFoundedOn(OpToRel(<, Nat), Nat)
  BY NatLessThanWellFounded
<1>2. PICK x \in T : \A y \in T : ~(<<y, x>> \in OpToRel(<, Nat))
  BY <1>1, WFMin, Zenon
<1>3. \A y \in T : ~(y < x)
  BY <1>2 DEF OpToRel
<1>4. \A y \in T : x <= y
  BY <1>3
<1> QED
  BY <1>4

\* What holds of 0 and is passed on to the next number holds of all numbers.
LEMMA NatSteps ==
  ASSUME NEW A, 0 \in A, \A d \in Nat : d \in A => d + 1 \in A
  PROVE  \A d \in Nat : d \in A
<1> DEFINE T == {d \in Nat : d \notin A}
<1> SUFFICES ASSUME T # {} PROVE FALSE
  OBVIOUS
<1>1. T \subseteq Nat
  OBVIOUS
<1>2. PICK d \in T : \A e \in T : d <= e
  <2> HIDE DEF T
  <2> QED
    BY <1>1, LeastNat, Zenon
<1>3. d \in Nat /\ d \notin A /\ d # 0
  OBVIOUS
<1>4. d - 1 \in Nat /\ (d - 1) + 1 = d
  BY <1>3
<1>5. d - 1 \notin T
  BY <1>2, <1>4
<1>6. d - 1 \in A
  BY <1>4, <1>5
<1> QED
  BY <1>3, <1>4, <1>6

LEMMA Geometry ==
  /\ q \in Nat /\ q >= 4
  /\ nw \in Nat /\ nq \in Nat /\ nl \in Nat /\ nreq \in Nat /\ nreq >= 1
  /\ block \in Nat /\ block >= 2 /\ w \in Nat /\ w >= 1 /\ block = r + w /\ r = nreq
  /\ dblock \in Nat /\ dblock = 2 * block - 1 /\ ext \in Nat /\ ext >= 1
  /\ block_enc \in Nat /\ block_enc = dblock + ext /\ block_enc <= q
<1>1. /\ nw \in Nat /\ nq \in Nat /\ nl \in Nat /\ nreq \in Nat /\ nreq > 0
      /\ block_enc \in Nat /\ rateinv \in Nat /\ q \in Nat
  BY LigeroAssumption
<1>2. block \in Int
  BY <1>1 DEF block
<1>3. block >= nreq /\ w >= nreq /\ block_enc >= dblock /\ ext >= nreq /\ block_enc <= q
  BY LigeroAssumption DEF Admitted
<1> HIDE DEF block
<1> QED
  BY <1>1, <1>2, <1>3 DEF w, r, dblock, ext

-----------------------------------------------------------------------------
(***************************************************************************)
(* Integers modulo q.                                                      *)
(***************************************************************************)
Eq(x, y) == \E k \in Int : x = y + k * q

LEMMA EqRefl == \A x \in Int : Eq(x, x)
  <1> SUFFICES ASSUME NEW x \in Int PROVE Eq(x, x)
    OBVIOUS
  <1>1. x = x + 0 * q
    BY Geometry
  <1> QED
    BY <1>1 DEF Eq

LEMMA EqSym == \A x, y \in Int : Eq(x, y) => Eq(y, x)
  <1> SUFFICES ASSUME NEW x \in Int, NEW y \in Int, Eq(x, y) PROVE Eq(y, x)
    OBVIOUS
  <1>1. PICK k \in Int : x = y + k * q
    BY DEF Eq
  <1>2. y = x + (-k) * q /\ -k \in Int
    BY <1>1, Geometry
  <1> QED
    BY <1>2 DEF Eq

LEMMA EqTrans == \A x, y, z \in Int : Eq(x, y) /\ Eq(y, z) => Eq(x, z)
  <1> SUFFICES ASSUME NEW x \in Int, NEW y \in Int, NEW z \in Int, Eq(x, y), Eq(y, z)
               PROVE  Eq(x, z)
    OBVIOUS
  <1>1. PICK k \in Int : x = y + k * q
    BY DEF Eq
  <1>2. PICK j \in Int : y = z + j * q
    BY DEF Eq
  <1>3. x = z + (j + k) * q /\ j + k \in Int
    BY <1>1, <1>2, Geometry
  <1> QED
    BY <1>3 DEF Eq

LEMMA EqAdd ==
  \A x, y, z, u \in Int : Eq(x, y) /\ Eq(z, u) => Eq(x + z, y + u) /\ Eq(x - z, y - u)
  <1> SUFFICES ASSUME NEW x \in Int, NEW y \in Int, NEW z \in Int, NEW u \in Int,
                      Eq(x, y), Eq(z, u)
               PROVE  Eq(x + z, y + u) /\ Eq(x - z, y - u)
    OBVIOUS
  <1>1. PICK k \in Int : x = y + k * q
    BY DEF Eq
  <1>2. PICK j \in Int : z = u + j * q
    BY DEF Eq
  <1>3. x + z = (y + u) + (k + j) * q /\ k + j \in Int
    BY <1>1, <1>2, Geometry
  <1>4. x - z = (y - u) + (k - j) * q /\ k - j \in Int
    BY <1>1, <1>2, Geometry
  <1> QED
    BY <1>3, <1>4 DEF Eq

LEMMA EqMul == \A x, y, z, u \in Int : Eq(x, y) /\ Eq(z, u) => Eq(x * z, y * u)
  <1> SUFFICES ASSUME NEW x \in Int, NEW y \in Int, NEW z \in Int, NEW u \in Int,
                      Eq(x, y), Eq(z, u)
               PROVE  Eq(x * z, y * u)
    OBVIOUS
  <1>1. PICK k \in Int : x = y + k * q
    BY DEF Eq
  <1>2. PICK j \in Int : z = u + j * q
    BY DEF Eq
  <1>3. q \in Int
    BY Geometry
  <1>4. x * z = y * u + (k * u + y * j + k * (j * q)) * q
    BY <1>1, <1>2, <1>3
  <1>5. k * u + y * j + k * (j * q) \in Int
    BY <1>3
  <1> QED
    BY <1>4, <1>5 DEF Eq

LEMMA EqMod == \A x \in Int : x % q \in F /\ x % q \in Int /\ Eq(x % q, x) /\ Eq(x, x % q)
  <1> SUFFICES ASSUME NEW x \in Int PROVE x % q \in F /\ Eq(x % q, x)
    BY EqSym, Geometry DEF F
  <1>1. q \in Int /\ q > 0
    BY Geometry
  <1>2. x % q \in 0 .. q - 1 /\ x \div q \in Int /\ x = q * (x \div q) + (x % q)
    BY <1>1
  <1>3. PICK j \in Int : j = x \div q
    BY <1>2
  <1>4. x % q = x + (-j) * q /\ -j \in Int
    BY <1>1, <1>2, <1>3
  <1> QED
    BY <1>2, <1>4 DEF Eq, F

LEMMA EqF == \A x, y \in F : Eq(x, y) => x = y
  <1> SUFFICES ASSUME NEW x \in F, NEW y \in F, Eq(x, y) PROVE x = y
    OBVIOUS
  <1>1. PICK k \in Int : x = y + k * q
    BY DEF Eq
  <1>2. q \in Int /\ q > 0 /\ x \in 0 .. q - 1 /\ y \in 0 .. q - 1
    BY Geometry DEF F
  <1>3. CASE k = 0
    BY <1>1, <1>2, <1>3
  <1>4. CASE k >= 1
    <2>1. k * q >= q
      BY <1>2, <1>4
    <2> QED
      BY <1>1, <1>2, <2>1
  <1>5. CASE k <= -1
    <2>1. k * q <= -q
      BY <1>2, <1>5
    <2> QED
      BY <1>1, <1>2, <2>1
  <1> QED
    BY <1>3, <1>4, <1>5

\* Congruence is equality of the remainders.
LEMMA ModIff == \A x, y \in Int : Eq(x, y) <=> x % q = y % q
  <1> SUFFICES ASSUME NEW x \in Int, NEW y \in Int PROVE Eq(x, y) <=> x % q = y % q
    OBVIOUS
  <1>1. /\ x % q \in F /\ x % q \in Int /\ Eq(x % q, x) /\ Eq(x, x % q)
        /\ y % q \in F /\ y % q \in Int /\ Eq(y % q, y) /\ Eq(y, y % q)
    BY EqMod
  <1>2. ASSUME Eq(x, y) PROVE x % q = y % q
    <2>1. Eq(x % q, y)
      BY <1>1, <1>2, EqTrans
    <2>2. Eq(x % q, y % q)
      BY <1>1, <2>1, EqTrans
    <2> QED
      BY <1>1, <2>2, EqF
  <1>3. ASSUME x % q = y % q PROVE Eq(x, y)
    <2>1. Eq(x, y % q)
      BY <1>1, <1>3
    <2> QED
      BY <1>1, <2>1, EqTrans
  <1> QED
    BY <1>2, <1>3

\* There are no zero divisors.
LEMMA EqZero == \A x, y \in Int : Eq(x * y, 0) => Eq(x, 0) \/ Eq(y, 0)
  <1> SUFFICES ASSUME NEW x \in Int, NEW y \in Int, Eq(x * y, 0), ~Eq(x, 0), ~Eq(y, 0)
               PROVE  FALSE
    OBVIOUS
  <1>1. PICK a : a = x % q
    OBVIOUS
  <1>2. PICK b : b = y % q
    OBVIOUS
  <1>3. /\ a \in F /\ a \in Int /\ Eq(a, x) /\ Eq(x, a)
        /\ b \in F /\ b \in Int /\ Eq(b, y) /\ Eq(y, b)
    BY <1>1, <1>2, EqMod
  <1>4. a # 0 /\ b # 0
    BY <1>3
  <1>5. (a * b) % q # 0
    BY <1>3, <1>4, LigeroAssumption DEF F
  <1>6. Eq(a * b, x * y)
    BY <1>3, EqMul
  <1>7. a * b \in Int /\ x * y \in Int /\ 0 \in Int
    BY <1>3
  <1>8. Eq(a * b, 0)
    BY <1>6, <1>7, EqTrans
  <1>9. (a * b) % q = 0 % q
    BY <1>7, <1>8, ModIff
  <1>10. 0 % q = 0
    BY Geometry
  <1> QED
    BY <1>5, <1>9, <1>10

\* A nonzero number closer to 0 than q is not a multiple of q.
LEMMA NotZero == \A x \in Int : x # 0 /\ -q < x /\ x < q => ~Eq(x, 0)
  <1> SUFFICES ASSUME NEW x \in Int, x # 0, -q < x, x < q, Eq(x, 0) PROVE FALSE
    OBVIOUS
  <1>1. PICK k \in Int : x = 0 + k * q
    BY DEF Eq
  <1>2. q \in Int /\ q > 0
    BY Geometry
  <1>3. CASE k = 0
    BY <1>1, <1>2, <1>3
  <1>4. CASE k >= 1
    <2>1. k * q >= q
      BY <1>2, <1>4
    <2> QED
      BY <1>1, <1>2, <2>1
  <1>5. CASE k <= -1
    <2>1. k * q <= -q
      BY <1>2, <1>5
    <2> QED
      BY <1>1, <1>2, <2>1
  <1> QED
    BY <1>3, <1>4, <1>5

-----------------------------------------------------------------------------
(***************************************************************************)
(* Folds over finite sets.  The folds of the community modules take their  *)
(* elements in the order of Choice.                                        *)
(***************************************************************************)
Choice(s) == CHOOSE x \in s : TRUE

Less(s) == s \ {Choice(s)}

LEMMA ChoiceIn ==
  ASSUME NEW S, IsFiniteSet(S), NEW s \in SUBSET S, s # {}
  PROVE  /\ Choice(s) \in s /\ Choice(s) \in S /\ Less(s) \in SUBSET S
         /\ IsFiniteSet(s) /\ IsFiniteSet(Less(s))
         /\ Cardinality(s) \in Nat /\ Cardinality(s) > 0
         /\ Cardinality(Less(s)) = Cardinality(s) - 1
<1>1. Choice(s) \in s
  BY DEF Choice
<1>2. IsFiniteSet(s)
  BY FS_Subset
<1>3. Cardinality(s) \in Nat /\ Cardinality(s) # 0
  BY <1>2, FS_CardinalityType, FS_EmptySet
<1>4. IsFiniteSet(Less(s)) /\ Cardinality(Less(s)) = Cardinality(s) - 1
  BY <1>1, <1>2, FS_RemoveElement DEF Less
<1> QED
  BY <1>1, <1>2, <1>3, <1>4 DEF Less

\* What holds of {} and is passed on by adding the chosen element holds of all
\* subsets.
LEMMA SetSteps ==
  ASSUME NEW S, IsFiniteSet(S), NEW A, {} \in A,
         \A s \in SUBSET S : s # {} /\ Less(s) \in A => s \in A
  PROVE  \A s \in SUBSET S : s \in A
<1> DEFINE T == {n \in Nat : \E s \in SUBSET S : s \notin A /\ Cardinality(s) = n}
<1> SUFFICES ASSUME NEW s0 \in SUBSET S, s0 \notin A PROVE FALSE
  OBVIOUS
<1>1. Cardinality(s0) \in Nat
  BY FS_Subset, FS_CardinalityType
<1>2. T \subseteq Nat /\ T # {}
  BY <1>1
<1>3. PICK n \in T : \A e \in T : n <= e
  <2> HIDE DEF T
  <2> QED
    BY <1>2, LeastNat, Zenon
<1>4. PICK s \in SUBSET S : s \notin A /\ Cardinality(s) = n
  BY <1>3
<1>5. s # {}
  BY <1>4
<1>6. /\ Less(s) \in SUBSET S /\ Cardinality(s) \in Nat /\ Cardinality(s) > 0
      /\ Cardinality(Less(s)) = Cardinality(s) - 1
  BY <1>5, ChoiceIn
<1>7. Less(s) \notin A
  BY <1>4, <1>5
<1>8. Cardinality(Less(s)) \in T
  BY <1>6, <1>7
<1>9. n <= n - 1 /\ n \in Nat
  BY <1>3, <1>4, <1>6, <1>8
<1> QED
  BY <1>9

\* g[s] is the fold of s.
Folded(g, S, V, first, step) ==
  /\ g \in [SUBSET S -> V] /\ g[{}] = first
  /\ \A s \in SUBSET S : s # {} => g[s] = step[Choice(s)][g[Less(s)]]

LEMMA SetRecursion ==
  ASSUME NEW S, IsFiniteSet(S), NEW V, NEW first \in V, NEW step \in [S -> [V -> V]]
  PROVE  \E g : Folded(g, S, V, first, step)
<1> DEFINE Upto(n) == {s \in SUBSET S : Cardinality(s) <= n}
           Next1(g, s) == step[Choice(s)][g[Less(s)]]
           Good(n) == \E g \in [Upto(n) -> V] :
                         g[{}] = first /\ \A s \in Upto(n) : s # {} => g[s] = Next1(g, s)
           A == {n \in Nat : Good(n)}
<1>1. IsFiniteSet({}) /\ Cardinality({}) = 0
  BY FS_EmptySet
<1>2. \A s \in SUBSET S : /\ Cardinality(s) \in Nat
                          /\ s # {} => /\ Choice(s) \in S /\ Less(s) \in SUBSET S
                                       /\ Cardinality(s) > 0
                                       /\ Cardinality(Less(s)) = Cardinality(s) - 1
  <2> SUFFICES ASSUME NEW s \in SUBSET S
               PROVE  /\ Cardinality(s) \in Nat
                      /\ s # {} => /\ Choice(s) \in S /\ Less(s) \in SUBSET S
                                   /\ Cardinality(s) > 0
                                   /\ Cardinality(Less(s)) = Cardinality(s) - 1
    OBVIOUS
  <2>1. CASE s = {}
    BY <1>1, <2>1
  <2>2. CASE s # {}
    BY <2>2, ChoiceIn
  <2> QED
    BY <2>1, <2>2
<1>3. 0 \in A
  <2> DEFINE g == [s \in Upto(0) |-> first]
  <2>1. g \in [Upto(0) -> V] /\ {} \in Upto(0)
    BY <1>1
  <2>2. \A s \in Upto(0) : s = {}
    BY <1>2
  <2>3. Good(0)
    BY <2>1, <2>2
  <2> QED
    BY <2>3
<1>4. \A n \in Nat : n \in A => n + 1 \in A
  <2> SUFFICES ASSUME NEW n \in Nat, n \in A PROVE n + 1 \in A
    OBVIOUS
  <2>1. PICK g \in [Upto(n) -> V] :
          g[{}] = first /\ \A s \in Upto(n) : s # {} => g[s] = Next1(g, s)
    OBVIOUS
  <2> DEFINE h == [s \in Upto(n + 1) |-> IF s \in Upto(n) THEN g[s] ELSE Next1(g, s)]
  <2>2. {} \in Upto(n) /\ {} \in Upto(n + 1)
    BY <1>1
  <2>3. \A s \in Upto(n + 1) : s # {} => Less(s) \in Upto(n) /\ Less(s) \in Upto(n + 1)
    BY <1>2
  <2>4. \A s \in Upto(n + 1) : s # {} => g[Less(s)] \in V /\ Next1(g, s) \in V
    <3> SUFFICES ASSUME NEW s \in Upto(n + 1), s # {}
                 PROVE  g[Less(s)] \in V /\ Next1(g, s) \in V
      OBVIOUS
    <3>1. Less(s) \in Upto(n)
      BY <2>3
    <3>2. g[Less(s)] \in V
      BY <3>1
    <3>3. Choice(s) \in S
      BY <1>2
    <3> QED
      BY <3>2, <3>3
  <2>5. h \in [Upto(n + 1) -> V]
    <3>1. \A s \in Upto(n + 1) : s \notin Upto(n) => s # {}
      BY <2>2
    <3> HIDE DEF Upto, Next1
    <3> QED
      BY <2>4, <3>1
  <2>6. h[{}] = first
    BY <2>1, <2>2
  <2>7. \A s \in Upto(n + 1) : s # {} => h[s] = Next1(g, s)
    <3> HIDE DEF Upto, Next1
    <3> QED
      BY <2>1
  <2>8. \A s \in Upto(n + 1) : s # {} => h[Less(s)] = g[Less(s)]
    <3> HIDE DEF Upto
    <3> QED
      BY <2>3
  <2>9. \A s \in Upto(n + 1) : s # {} => h[s] = Next1(h, s)
    <3> HIDE DEF Upto, h
    <3> QED
      BY <2>7, <2>8
  <2>10. Good(n + 1)
    <3> HIDE DEF Upto, h, Next1
    <3> QED
      BY <2>5, <2>6, <2>9
  <2>11. n + 1 \in Nat
    OBVIOUS
  <2> HIDE DEF Good
  <2> QED
    BY <2>10, <2>11
<1>5. \A n \in Nat : n \in A
  <2> HIDE DEF A
  <2> QED
    BY <1>3, <1>4, NatSteps
<1>6. Cardinality(S) \in Nat
  BY FS_CardinalityType
<1>7. Good(Cardinality(S))
  BY <1>5, <1>6
<1>8. Upto(Cardinality(S)) = SUBSET S
  <2>1. \A s \in SUBSET S : Cardinality(s) <= Cardinality(S)
    BY FS_Subset
  <2> QED
    BY <2>1
<1>9. PICK g \in [SUBSET S -> V] :
          g[{}] = first /\ \A s \in SUBSET S : s # {} => g[s] = Next1(g, s)
  <2> HIDE DEF Upto, Next1
  <2> QED
    BY <1>7, <1>8
<1>10. Folded(g, S, V, first, step)
  BY <1>9 DEF Folded
<1> QED
  BY <1>10

\* The sums of the subsets of S, and what the sum of f is.
Sums(g, S, f) ==
  /\ g \in [SUBSET S -> Int] /\ g[{}] = 0
  /\ \A s \in SUBSET S : s # {} => g[s] = f[Choice(s)] + g[Less(s)]

LEMMA SumFolds ==
  ASSUME NEW S, IsFiniteSet(S), NEW f \in [S -> Int]
  PROVE  \E g : Sums(g, S, f) /\ SumFunction(f) = g[S]
<1> DEFINE step == [x \in S |-> [v \in Int |-> f[x] + v]]
<1>1. \A x \in S : f[x] \in Int
  OBVIOUS
<1>2. step \in [S -> [Int -> Int]]
  BY <1>1
<1>3. \A x \in S, v \in Int : step[x][v] = f[x] + v
  OBVIOUS
<1> HIDE DEF step
<1>4. PICK h : Folded(h, S, Int, 0, step)
  <2>1. 0 \in Int
    OBVIOUS
  <2>2. \E h : Folded(h, S, Int, 0, step)
    BY <1>2, <2>1, SetRecursion, Zenon
  <2> QED
    BY <2>2
<1> DEFINE Turn1(g, s) == IF s = {} THEN 0 ELSE f[Choice(s)] + g[Less(s)]
           Is(g) == g = [s \in SUBSET S |-> Turn1(g, s)]
<1>5. \A s \in SUBSET S : s # {} => Choice(s) \in S /\ Less(s) \in SUBSET S
  BY ChoiceIn
<1>6. Is(h)
  <2>1. /\ h \in [SUBSET S -> Int] /\ h[{}] = 0
        /\ \A s \in SUBSET S : s # {} => h[s] = step[Choice(s)][h[Less(s)]]
    BY <1>4 DEF Folded
  <2>2. \A s \in SUBSET S : s # {} => step[Choice(s)][h[Less(s)]] = f[Choice(s)] + h[Less(s)]
    BY <1>3, <1>5, <2>1
  <2>3. \A s \in SUBSET S : h[s] = Turn1(h, s)
    BY <2>1, <2>2
  <2> HIDE DEF Turn1
  <2> QED
    BY <2>1, <2>3
<1>7. DOMAIN f = S
  OBVIOUS
<1>8. SumFunction(f) = (CHOOSE g : Is(g))[S]
  BY <1>7 DEF SumFunction, SumFunctionOnSet, FoldFunctionOnSet, MapThenFoldSet, Choice, Less
<1> DEFINE g == CHOOSE g : Is(g)
<1>9. Is(g)
  BY <1>6
<1> HIDE DEF g
<1>10. g[{}] = 0 /\ \A s \in SUBSET S : s # {} => g[s] = f[Choice(s)] + g[Less(s)]
  BY <1>9
<1>11. \A s \in SUBSET S : g[s] \in Int
  <2> DEFINE A == {s \in SUBSET S : g[s] \in Int}
  <2>1. {} \in A
    BY <1>10
  <2>2. \A s \in SUBSET S : s # {} /\ Less(s) \in A => s \in A
    BY <1>1, <1>5, <1>10
  <2>3. \A s \in SUBSET S : s \in A
    <3> HIDE DEF A
    <3> QED
      BY <2>1, <2>2, SetSteps
  <2> QED
    BY <2>3
<1>12. g \in [SUBSET S -> Int]
  BY <1>9, <1>11
<1> QED
  BY <1>8, <1>10, <1>12 DEF Sums, g

\* Any element may be taken out.
Taking(g, S, f) == \A s \in SUBSET S : \A x \in s : g[s] = f[x] + g[s \ {x}]

LEMMA SumsTake ==
  ASSUME NEW S, IsFiniteSet(S), NEW f \in [S -> Int], NEW g, Sums(g, S, f)
  PROVE  Taking(g, S, f)
<1> DEFINE Take(s) == \A x \in s : g[s] = f[x] + g[s \ {x}]
           A == {n \in Nat : \A s \in SUBSET S : Cardinality(s) = n => Take(s)}
<1>1. /\ g \in [SUBSET S -> Int] /\ g[{}] = 0
      /\ \A s \in SUBSET S : s # {} => g[s] = f[Choice(s)] + g[Less(s)]
  BY DEF Sums
<1>2. \A s \in SUBSET S : IsFiniteSet(s) /\ Cardinality(s) \in Nat
  BY FS_Subset, FS_CardinalityType
<1>3. 0 \in A
  <2>1. \A s \in SUBSET S : Cardinality(s) = 0 => s = {}
    BY <1>2, FS_EmptySet
  <2> QED
    BY <2>1
<1>4. \A n \in Nat : n \in A => n + 1 \in A
  <2> SUFFICES ASSUME NEW n \in Nat, n \in A, NEW s \in SUBSET S, Cardinality(s) = n + 1,
                      NEW x \in s
               PROVE  g[s] = f[x] + g[s \ {x}]
    OBVIOUS
  <2>1. PICK c : c = Choice(s)
    OBVIOUS
  <2>2. c \in s /\ Less(s) = s \ {c}
    BY <2>1, ChoiceIn DEF Less
  <2>3. g[s] = f[c] + g[s \ {c}]
    BY <1>1, <2>1, <2>2
  <2>4. CASE x = c
    BY <2>3, <2>4
  <2>5. CASE x # c
    <3>1. Cardinality(s \ {x}) = n /\ Cardinality(s \ {c}) = n
      BY <1>2, <2>2, FS_RemoveElement
    <3>2. Take(s \ {x}) /\ Take(s \ {c})
      <4> HIDE DEF Take
      <4> QED
        BY <3>1
    <3>3. g[s \ {x}] = f[c] + g[(s \ {x}) \ {c}]
      BY <2>2, <2>5, <3>2
    <3>4. g[s \ {c}] = f[x] + g[(s \ {c}) \ {x}]
      BY <2>2, <2>5, <3>2
    <3>5. PICK u : u = (s \ {c}) \ {x}
      OBVIOUS
    <3>6. (s \ {x}) \ {c} = u /\ u \in SUBSET S
      BY <3>5
    <3>7. f[c] \in Int /\ f[x] \in Int /\ g[u] \in Int
      BY <1>1, <2>2, <3>6
    <3>8. g[s \ {x}] = f[c] + g[u] /\ g[s \ {c}] = f[x] + g[u]
      BY <3>3, <3>4, <3>5, <3>6
    <3>9. g[s] = f[c] + (f[x] + g[u])
      BY <2>3, <3>8
    <3>10. f[c] + (f[x] + g[u]) = f[x] + (f[c] + g[u])
      BY <3>7
    <3> QED
      BY <3>8, <3>9, <3>10
  <2> QED
    BY <2>4, <2>5
<1>5. \A n \in Nat : n \in A
  <2> HIDE DEF A
  <2> QED
    BY <1>3, <1>4, NatSteps
<1>6. \A s \in SUBSET S : Take(s)
  <2> HIDE DEF Take
  <2> QED
    BY <1>2, <1>5
<1> QED
  BY <1>6 DEF Taking

\* The sums of a part of S are the same.
LEMMA SumsPart ==
  ASSUME NEW S, IsFiniteSet(S), NEW f \in [S -> Int], NEW g, Sums(g, S, f),
         NEW s \in SUBSET S, NEW e \in [s -> Int], \A x \in s : e[x] = f[x],
         NEW h, Sums(h, s, e)
  PROVE  h[s] = g[s]
<1>1. /\ g[{}] = 0 /\ h[{}] = 0
      /\ \A u \in SUBSET S : u # {} => g[u] = f[Choice(u)] + g[Less(u)]
      /\ \A u \in SUBSET s : u # {} => h[u] = e[Choice(u)] + h[Less(u)]
  BY DEF Sums
<1>2. IsFiniteSet(s)
  BY FS_Subset
<1>3. \A u \in SUBSET s : u # {} => Choice(u) \in s /\ Less(u) \in SUBSET s
  BY <1>2, ChoiceIn
<1> DEFINE A == {u \in SUBSET s : h[u] = g[u]}
<1>4. {} \in A
  BY <1>1
<1>5. \A u \in SUBSET s : u # {} /\ Less(u) \in A => u \in A
  BY <1>1, <1>3
<1>6. \A u \in SUBSET s : u \in A
  <2> HIDE DEF A
  <2> QED
    BY <1>2, <1>4, <1>5, SetSteps
<1> QED
  BY <1>6

\* The sum of f over a part s of its domain.
SumOver(f, s) == SumFunction([x \in s |-> f[x]])

LEMMA SumOverIs ==
  ASSUME NEW S, IsFiniteSet(S), NEW f \in [S -> Int], NEW g, Sums(g, S, f)
  PROVE  \A s \in SUBSET S : SumOver(f, s) = g[s]
<1> SUFFICES ASSUME NEW s \in SUBSET S PROVE SumOver(f, s) = g[s]
  OBVIOUS
<1>1. PICK e : e = [x \in s |-> f[x]]
  OBVIOUS
<1>2. e \in [s -> Int] /\ \A x \in s : e[x] = f[x]
  BY <1>1
<1>3. IsFiniteSet(s)
  BY FS_Subset
<1>4. PICK h : Sums(h, s, e) /\ SumFunction(e) = h[s]
  BY <1>2, <1>3, SumFolds, Zenon
<1>5. h[s] = g[s]
  BY <1>2, <1>4, SumsPart
<1> QED
  BY <1>1, <1>4, <1>5 DEF SumOver

LEMMA SumStep ==
  ASSUME NEW S, IsFiniteSet(S), NEW f \in [S -> Int]
  PROVE  /\ SumOver(f, {}) = 0
         /\ \A s \in SUBSET S : SumOver(f, s) \in Int
         /\ \A s \in SUBSET S : \A x \in s : SumOver(f, s) = f[x] + SumOver(f, s \ {x})
         /\ SumFunction(f) = SumOver(f, S)
<1>1. PICK g : Sums(g, S, f) /\ SumFunction(f) = g[S]
  BY SumFolds, Zenon
<1>2. \A s \in SUBSET S : SumOver(f, s) = g[s]
  BY <1>1, SumOverIs
<1>3. \A s \in SUBSET S : \A x \in s : g[s] = f[x] + g[s \ {x}]
  <2>1. Sums(g, S, f)
    BY <1>1
  <2>2. Taking(g, S, f)
    BY <2>1, SumsTake, Zenon
  <2> QED
    BY <2>2 DEF Taking
<1>4. g \in [SUBSET S -> Int] /\ g[{}] = 0
  BY <1>1 DEF Sums
<1>5. {} \in SUBSET S /\ S \in SUBSET S /\ \A s \in SUBSET S : \A x \in s : s \ {x} \in SUBSET S
  OBVIOUS
<1> QED
  BY <1>1, <1>2, <1>3, <1>4, <1>5

LEMMA SumTake ==
  ASSUME NEW S, IsFiniteSet(S), NEW f \in [S -> Int], NEW s \in SUBSET S, NEW x \in s
  PROVE  SumOver(f, s) = f[x] + SumOver(f, s \ {x})
<1>1. /\ SumOver(f, {}) = 0
      /\ \A u \in SUBSET S : SumOver(f, u) \in Int
      /\ \A u \in SUBSET S : \A y \in u : SumOver(f, u) = f[y] + SumOver(f, u \ {y})
      /\ SumFunction(f) = SumOver(f, S)
  BY SumStep
<1> QED
  BY <1>1

\* In the form in which SetSteps asks for it.
LEMMA SumLess ==
  ASSUME NEW S, IsFiniteSet(S), NEW f \in [S -> Int], NEW s \in SUBSET S, s # {}
  PROVE  /\ Choice(s) \in s /\ Choice(s) \in S /\ f[Choice(s)] \in Int
         /\ Less(s) \in SUBSET S /\ SumOver(f, Less(s)) \in Int
         /\ SumOver(f, s) = f[Choice(s)] + SumOver(f, Less(s))
<1>1. /\ \A u \in SUBSET S : SumOver(f, u) \in Int
      /\ \A u \in SUBSET S : \A x \in u : SumOver(f, u) = f[x] + SumOver(f, u \ {x})
  BY SumStep
<1>2. Choice(s) \in s /\ Choice(s) \in S /\ Less(s) \in SUBSET S /\ Less(s) = s \ {Choice(s)}
  BY ChoiceIn DEF Less
<1>3. f[Choice(s)] \in Int
  BY <1>2
<1> QED
  BY <1>1, <1>2, <1>3

LEMMA SumInt ==
  ASSUME NEW S, IsFiniteSet(S), NEW f \in [S -> Int]
  PROVE  SumFunction(f) \in Int
<1>1. SumFunction(f) = SumOver(f, S) /\ SumOver(f, S) \in Int
  BY SumStep
<1> QED
  BY <1>1

\* Sums are linear.
Linear(S, h, a, f, b, g) ==
  /\ f \in [S -> Int] /\ g \in [S -> Int] /\ h \in [S -> Int] /\ a \in Int /\ b \in Int
  /\ \A x \in S : h[x] = a * f[x] + b * g[x]

LEMMA SumLinear ==
  ASSUME NEW S, IsFiniteSet(S), NEW h, NEW a, NEW f, NEW b, NEW g, Linear(S, h, a, f, b, g)
  PROVE  SumFunction(h) = a * SumFunction(f) + b * SumFunction(g)
<1>0. /\ f \in [S -> Int] /\ g \in [S -> Int] /\ h \in [S -> Int] /\ a \in Int /\ b \in Int
      /\ \A x \in S : h[x] = a * f[x] + b * g[x]
  BY DEF Linear
<1> DEFINE A == {s \in SUBSET S : SumOver(h, s) = a * SumOver(f, s) + b * SumOver(g, s)}
<1>1. {} \in A
  <2>1. SumOver(f, {}) = 0 /\ SumOver(g, {}) = 0 /\ SumOver(h, {}) = 0
    BY <1>0, SumStep
  <2>2. 0 = a * 0 + b * 0
    BY <1>0
  <2> QED
    BY <2>1, <2>2
<1>2. \A s \in SUBSET S : s # {} /\ Less(s) \in A => s \in A
  <2> SUFFICES ASSUME NEW s \in SUBSET S, s # {}, Less(s) \in A
               PROVE  SumOver(h, s) = a * SumOver(f, s) + b * SumOver(g, s)
    OBVIOUS
  <2>1. PICK c \in S, u \in SUBSET S : c = Choice(s) /\ u = Less(s)
    BY <1>0, SumLess
  <2>2. /\ f[c] \in Int /\ SumOver(f, u) \in Int /\ SumOver(f, s) = f[c] + SumOver(f, u)
        /\ g[c] \in Int /\ SumOver(g, u) \in Int /\ SumOver(g, s) = g[c] + SumOver(g, u)
        /\ h[c] \in Int /\ SumOver(h, u) \in Int /\ SumOver(h, s) = h[c] + SumOver(h, u)
    BY <1>0, <2>1, SumLess
  <2>3. SumOver(h, u) = a * SumOver(f, u) + b * SumOver(g, u)
    BY <2>1
  <2>4. PICK fu \in Int, gu \in Int, fc \in Int, gc \in Int :
          fu = SumOver(f, u) /\ gu = SumOver(g, u) /\ fc = f[c] /\ gc = g[c]
    BY <2>2
  <2>5. SumOver(h, s) = (a * fc + b * gc) + (a * fu + b * gu)
    BY <1>0, <2>2, <2>3, <2>4
  <2>6. (a * fc + b * gc) + (a * fu + b * gu) = a * (fc + fu) + b * (gc + gu)
    BY <1>0
  <2> QED
    BY <2>2, <2>4, <2>5, <2>6
<1>3. S \in A
  <2> HIDE DEF A
  <2> QED
    BY <1>1, <1>2, SetSteps
<1>4. /\ SumFunction(h) = SumOver(h, S) /\ SumFunction(f) = SumOver(f, S)
      /\ SumFunction(g) = SumOver(g, S)
  BY <1>0, SumStep
<1> QED
  BY <1>3, <1>4

\* Equal terms modulo q make equal sums.
EqOn(S, f, g) == f \in [S -> Int] /\ g \in [S -> Int] /\ \A x \in S : Eq(f[x], g[x])

LEMMA SumEq ==
  ASSUME NEW S, IsFiniteSet(S), NEW f, NEW g, EqOn(S, f, g)
  PROVE  Eq(SumFunction(f), SumFunction(g))
<1>0. f \in [S -> Int] /\ g \in [S -> Int] /\ \A x \in S : Eq(f[x], g[x])
  BY DEF EqOn
<1> DEFINE A == {s \in SUBSET S : Eq(SumOver(f, s), SumOver(g, s))}
<1>1. {} \in A
  <2>1. SumOver(f, {}) = 0 /\ SumOver(g, {}) = 0 /\ 0 \in Int
    BY <1>0, SumStep
  <2> QED
    BY <2>1, EqRefl
<1>2. \A s \in SUBSET S : s # {} /\ Less(s) \in A => s \in A
  <2> SUFFICES ASSUME NEW s \in SUBSET S, s # {}, Less(s) \in A
               PROVE  Eq(SumOver(f, s), SumOver(g, s))
    OBVIOUS
  <2>1. PICK c \in S, u \in SUBSET S : c = Choice(s) /\ u = Less(s)
    BY <1>0, SumLess
  <2>2. /\ f[c] \in Int /\ SumOver(f, u) \in Int /\ SumOver(f, s) = f[c] + SumOver(f, u)
        /\ g[c] \in Int /\ SumOver(g, u) \in Int /\ SumOver(g, s) = g[c] + SumOver(g, u)
    BY <1>0, <2>1, SumLess
  <2>3. Eq(SumOver(f, u), SumOver(g, u)) /\ Eq(f[c], g[c])
    BY <1>0, <2>1
  <2>4. Eq(f[c] + SumOver(f, u), g[c] + SumOver(g, u))
    BY <2>2, <2>3, EqAdd
  <2> QED
    BY <2>2, <2>4
<1>3. S \in A
  <2> HIDE DEF A
  <2> QED
    BY <1>1, <1>2, SetSteps
<1>4. SumFunction(f) = SumOver(f, S) /\ SumFunction(g) = SumOver(g, S)
  BY <1>0, SumStep
<1> QED
  BY <1>3, <1>4

\* Terms that are zero may be left out.
LEMMA SumPart ==
  ASSUME NEW S, IsFiniteSet(S), NEW f \in [S -> Int], NEW T \in SUBSET S,
         \A x \in S \ T : f[x] = 0
  PROVE  SumFunction(f) = SumOver(f, T)
<1> DEFINE A == {s \in SUBSET S : SumOver(f, s) = SumOver(f, s \cap T)}
<1>1. {} \in A
  <2>1. {} \cap T = {}
    OBVIOUS
  <2> QED
    BY <2>1
<1>2. \A s \in SUBSET S : s # {} /\ Less(s) \in A => s \in A
  <2> SUFFICES ASSUME NEW s \in SUBSET S, s # {}, Less(s) \in A
               PROVE  SumOver(f, s) = SumOver(f, s \cap T)
    OBVIOUS
  <2>1. PICK c \in s, u \in SUBSET S : c = Choice(s) /\ u = Less(s)
    BY SumLess
  <2>2. u = s \ {c}
    BY <2>1 DEF Less
  <2>3. f[c] \in Int /\ SumOver(f, u) \in Int /\ SumOver(f, s) = f[c] + SumOver(f, u)
    BY <2>1, SumLess
  <2>4. SumOver(f, u) = SumOver(f, u \cap T)
    BY <2>1
  <2>5. CASE c \in T
    <3>1. c \in s \cap T /\ (s \cap T) \ {c} = u \cap T /\ s \cap T \in SUBSET S
      BY <2>2, <2>5
    <3>2. SumOver(f, s \cap T) = f[c] + SumOver(f, (s \cap T) \ {c})
      BY <3>1, SumTake
    <3> QED
      BY <2>3, <2>4, <3>1, <3>2
  <2>6. CASE c \notin T
    <3>1. s \cap T = u \cap T /\ f[c] = 0
      BY <2>2, <2>6
    <3>2. SumOver(f, s) = SumOver(f, u)
      BY <2>3, <3>1
    <3> QED
      BY <2>4, <3>1, <3>2
  <2> QED
    BY <2>5, <2>6
<1>3. S \in A
  <2> HIDE DEF A
  <2> QED
    BY <1>1, <1>2, SetSteps
<1>4. SumFunction(f) = SumOver(f, S) /\ S \cap T = T
  BY SumStep
<1> QED
  BY <1>3, <1>4

LEMMA SumZero ==
  ASSUME NEW S, IsFiniteSet(S), NEW f \in [S -> Int], \A x \in S : f[x] = 0
  PROVE  SumFunction(f) = 0
<1>1. SumFunction(f) = SumOver(f, {})
  <2>1. {} \in SUBSET S /\ \A x \in S \ {} : f[x] = 0
    OBVIOUS
  <2> QED
    BY <2>1, SumPart
<1> QED
  BY <1>1, SumStep

Only(S, f, v) == f \in [S -> Int] /\ v \in S /\ \A x \in S : x # v => f[x] = 0

LEMMA SumPoint ==
  ASSUME NEW S, IsFiniteSet(S), NEW f, NEW v, Only(S, f, v)
  PROVE  SumFunction(f) = f[v]
<1>0. f \in [S -> Int] /\ v \in S
  BY DEF Only
<1>1. {v} \in SUBSET S /\ \A x \in S \ {v} : f[x] = 0
  BY DEF Only
<1>2. SumFunction(f) = SumOver(f, {v})
  BY <1>0, <1>1, SumPart
<1>3. SumOver(f, {v}) = f[v] + SumOver(f, {v} \ {v})
  <2>1. v \in {v}
    OBVIOUS
  <2> QED
    BY <1>0, <1>1, <2>1, SumTake
<1>4. {v} \ {v} = {} /\ SumOver(f, {}) = 0 /\ f[v] \in Int
  BY <1>0, SumStep
<1> QED
  BY <1>2, <1>3, <1>4

\* The order of two sums may be changed.
TwoWays(S, T, k, f, m, g) ==
  /\ k \in [S -> [T -> Int]] /\ f \in [S -> Int] /\ \A x \in S : f[x] = SumFunction(k[x])
  /\ m \in [T -> [S -> Int]] /\ g \in [T -> Int] /\ \A y \in T : g[y] = SumFunction(m[y])
  /\ \A x \in S, y \in T : m[y][x] = k[x][y]

LEMMA SumSwap ==
  ASSUME NEW S, IsFiniteSet(S), NEW T, IsFiniteSet(T), NEW k, NEW f, NEW m, NEW g,
         TwoWays(S, T, k, f, m, g)
  PROVE  SumFunction(f) = SumFunction(g)
<1>0. f \in [S -> Int] /\ g \in [T -> Int]
  BY DEF TwoWays
<1> DEFINE G(s) == [y \in T |-> SumOver(m[y], s)]
           A == {s \in SUBSET S : SumOver(f, s) = SumFunction(G(s))}
<1>1. \A y \in T : m[y] \in [S -> Int]
  BY DEF TwoWays
<1>2. \A s \in SUBSET S : G(s) \in [T -> Int]
  <2>1. \A s \in SUBSET S, y \in T : SumOver(m[y], s) \in Int
    BY <1>1, SumStep
  <2> QED
    BY <2>1
<1>3. {} \in A
  <2>1. \A y \in T : G({})[y] = 0
    BY <1>1, SumStep
  <2>2. G({}) \in [T -> Int]
    BY <1>2
  <2>3. SumFunction(G({})) = 0
    <3> HIDE DEF G
    <3> QED
      BY <2>1, <2>2, SumZero
  <2>4. SumOver(f, {}) = 0
    BY <1>0, SumStep
  <2> QED
    BY <2>3, <2>4
<1>4. \A s \in SUBSET S : s # {} /\ Less(s) \in A => s \in A
  <2> SUFFICES ASSUME NEW s \in SUBSET S, s # {}, Less(s) \in A
               PROVE  SumOver(f, s) = SumFunction(G(s))
    OBVIOUS
  <2>1. PICK c \in S, u \in SUBSET S : c = Choice(s) /\ u = Less(s)
    BY <1>0, SumLess
  <2>2. f[c] \in Int /\ SumOver(f, u) \in Int /\ SumOver(f, s) = f[c] + SumOver(f, u)
    BY <1>0, <2>1, SumLess
  <2>3. SumOver(f, u) = SumFunction(G(u))
    BY <2>1
  <2>4. k[c] \in [T -> Int] /\ G(u) \in [T -> Int] /\ G(s) \in [T -> Int]
    BY <1>2 DEF TwoWays
  <2>5. \A y \in T : /\ m[y][c] \in Int /\ SumOver(m[y], u) \in Int
                     /\ SumOver(m[y], s) = m[y][c] + SumOver(m[y], u)
    <3> SUFFICES ASSUME NEW y \in T
                 PROVE  /\ m[y][c] \in Int /\ SumOver(m[y], u) \in Int
                        /\ SumOver(m[y], s) = m[y][c] + SumOver(m[y], u)
      OBVIOUS
    <3>1. PICK e \in [S -> Int] : e = m[y]
      BY <1>1
    <3>2. e[c] \in Int /\ SumOver(e, u) \in Int /\ SumOver(e, s) = e[c] + SumOver(e, u)
      BY <2>1, SumLess
    <3> QED
      BY <3>1, <3>2
  <2>6. \A y \in T : G(s)[y] = 1 * k[c][y] + 1 * G(u)[y]
    <3>1. \A y \in T : m[y][c] = k[c][y]
      BY DEF TwoWays
    <3> QED
      BY <2>5, <3>1
  <2>7. PICK gs \in [T -> Int], gu \in [T -> Int] : gs = G(s) /\ gu = G(u)
    BY <2>4
  <2>8. \A y \in T : gs[y] = 1 * k[c][y] + 1 * gu[y]
    BY <2>6, <2>7
  <2>9. SumFunction(gs) = 1 * SumFunction(k[c]) + 1 * SumFunction(gu)
    <3>1. PICK e \in [T -> Int] : e = k[c]
      BY <2>4
    <3>2. 1 \in Int /\ \A y \in T : gs[y] = 1 * e[y] + 1 * gu[y]
      BY <2>8, <3>1
    <3> HIDE DEF G
    <3>3. SumFunction(gs) = 1 * SumFunction(e) + 1 * SumFunction(gu)
      <4>1. Linear(T, gs, 1, e, 1, gu)
        BY <3>2 DEF Linear
      <4> QED
        BY <4>1, SumLinear
    <3> QED
      BY <3>1, <3>3
  <2>10. SumFunction(gs) = f[c] + SumFunction(gu)
    <3>1. SumFunction(k[c]) \in Int /\ SumFunction(gu) \in Int
      BY <2>4, SumInt
    <3> QED
      BY <2>9, <3>1 DEF TwoWays
  <2> HIDE DEF G
  <2> QED
    BY <2>2, <2>3, <2>7, <2>10
<1>5. S \in A
  <2> HIDE DEF A
  <2> QED
    BY <1>3, <1>4, SetSteps
<1>6. G(S) = g
  <2>1. \A y \in T : SumOver(m[y], S) = g[y]
    BY <1>1, SumStep DEF TwoWays
  <2> QED
    BY <1>0, <2>1
<1>7. SumFunction(f) = SumOver(f, S)
  BY <1>0, SumStep
<1> HIDE DEF G
<1> QED
  BY <1>5, <1>6, <1>7

-----------------------------------------------------------------------------
(***************************************************************************)
(* Inverses and products.                                                  *)
(***************************************************************************)
\* Congruence, in the form in which it is mostly used.
LEMMA EqMul2 ==
  ASSUME NEW x \in Int, NEW y \in Int, NEW z \in Int, Eq(x, y)
  PROVE  Eq(z * x, z * y) /\ Eq(x * z, y * z)
<1>1. Eq(z, z)
  BY EqRefl
<1> QED
  BY <1>1, EqMul

\* Every number that is not a multiple of q has an inverse.
LEMMA InverseExists ==
  ASSUME NEW a \in Int, ~Eq(a, 0)
  PROVE  \E y \in F : (a * y) % q = 1
<1> SUFFICES ASSUME \A y \in F : (a * y) % q # 1 PROVE FALSE
  OBVIOUS
<1>0. q \in Nat /\ q >= 4 /\ \A x \in F : x \in Int /\ x >= 0 /\ x < q
  BY Geometry DEF F
<1>1. \A y \in F : (a * y) % q \in F
  BY <1>0, EqMod
<1> DEFINE m == [y \in F |-> (a * y) % q]
<1>2. m \in [F -> F \ {1}]
  BY <1>1
<1>3. IsFiniteSet(F) /\ Cardinality(F) = q
  BY <1>0, FS_Interval DEF F
<1>4. IsFiniteSet(F \ {1}) /\ Cardinality(F \ {1}) = q - 1
  <2>1. 1 \in F
    BY <1>0 DEF F
  <2> QED
    BY <1>3, <2>1, FS_RemoveElement
<1>5. PICK x \in F, y \in F : x # y /\ m[x] = m[y]
  <2>1. Cardinality(F \ {1}) < Cardinality(F)
    BY <1>0, <1>3, <1>4
  <2> HIDE DEF m
  <2> QED
    BY <1>2, <1>3, <1>4, <2>1, FS_PigeonHole
<1>6. (a * x) % q = (a * y) % q /\ x \in Int /\ y \in Int
  BY <1>0, <1>5
<1>7. Eq(a * x, a * y)
  <2>1. a * x \in Int /\ a * y \in Int
    BY <1>6
  <2> QED
    BY <1>6, <2>1, ModIff
<1>8. Eq(a * y, a * y)
  <2>1. a * y \in Int
    BY <1>6
  <2> QED
    BY <2>1, EqRefl
<1>9. Eq(a * x - a * y, a * y - a * y)
  <2>1. a * x \in Int /\ a * y \in Int
    BY <1>6
  <2> QED
    BY <1>7, <1>8, <2>1, EqAdd
<1>10. a * x - a * y = a * (x - y) /\ a * y - a * y = 0 /\ x - y \in Int
  BY <1>6
<1>11. Eq(a * (x - y), 0)
  BY <1>9, <1>10
<1>12. Eq(x - y, 0)
  BY <1>10, <1>11, EqZero
<1>13. x - y # 0 /\ -q < x - y /\ x - y < q
  BY <1>0, <1>5, <1>6
<1> QED
  BY <1>10, <1>12, <1>13, NotZero

LEMMA InvIs ==
  ASSUME NEW a \in Int, ~Eq(a, 0)
  PROVE  Inv(a) \in F /\ Inv(a) \in Int /\ Eq(a * Inv(a), 1) /\ ~Eq(Inv(a), 0)
<1>1. Inv(a) \in F /\ (a * Inv(a)) % q = 1
  BY InverseExists DEF Inv
<1>2. q \in Nat /\ q >= 4
  BY Geometry
<1>3. PICK b : b = Inv(a)
  OBVIOUS
<1>4. b \in F /\ b \in Int /\ a * b \in Int /\ (a * b) % q = 1
  BY <1>1, <1>2, <1>3 DEF F
<1>5. 1 % q = 1 /\ 0 % q = 0
  BY <1>2
<1>6. Eq(a * b, 1)
  BY <1>4, <1>5, ModIff
<1>7. ~Eq(b, 0)
  <2> SUFFICES ASSUME Eq(b, 0) PROVE FALSE
    OBVIOUS
  <2>1. 0 \in Int /\ a * 0 = 0
    OBVIOUS
  <2>2. Eq(a * b, a * 0)
    BY <1>4, <2>1, EqMul2
  <2>3. (a * b) % q = 0 % q
    BY <1>4, <2>1, <2>2, ModIff
  <2> QED
    BY <1>4, <1>5, <2>3
<1> QED
  BY <1>3, <1>4, <1>6, <1>7

\* The products of the subsets of S, and what the product of f is.
Prods(g, S, f) ==
  /\ g \in [SUBSET S -> Int] /\ g[{}] = 1
  /\ \A s \in SUBSET S : s # {} => g[s] = (f[Choice(s)] * g[Less(s)]) % q

LEMMA ProdFolds ==
  ASSUME NEW S, IsFiniteSet(S), NEW f \in [S -> Int]
  PROVE  \E g : Prods(g, S, f) /\ Prod(f) = g[S]
<1> DEFINE step == [x \in S |-> [v \in Int |-> (f[x] * v) % q]]
<1>0. q \in Nat /\ q >= 4
  BY Geometry
<1>1. \A x \in S : f[x] \in Int
  OBVIOUS
<1>2. step \in [S -> [Int -> Int]]
  <2>1. \A x \in S, v \in Int : (f[x] * v) % q \in Int
    BY <1>0, <1>1
  <2> QED
    BY <2>1
<1>3. \A x \in S, v \in Int : step[x][v] = (f[x] * v) % q
  OBVIOUS
<1> HIDE DEF step
<1>4. PICK h : Folded(h, S, Int, 1, step)
  <2>1. 1 \in Int
    OBVIOUS
  <2>2. \E h : Folded(h, S, Int, 1, step)
    BY <1>2, <2>1, SetRecursion, Zenon
  <2> QED
    BY <2>2
<1> DEFINE Turn1(g, s) == IF s = {} THEN 1 ELSE (f[Choice(s)] * g[Less(s)]) % q
           Is(g) == g = [s \in SUBSET S |-> Turn1(g, s)]
<1>5. \A s \in SUBSET S : s # {} => Choice(s) \in S /\ Less(s) \in SUBSET S
  BY ChoiceIn
<1>6. Is(h)
  <2>1. /\ h \in [SUBSET S -> Int] /\ h[{}] = 1
        /\ \A s \in SUBSET S : s # {} => h[s] = step[Choice(s)][h[Less(s)]]
    BY <1>4 DEF Folded
  <2>2. \A s \in SUBSET S : s # {} =>
          step[Choice(s)][h[Less(s)]] = (f[Choice(s)] * h[Less(s)]) % q
    BY <1>3, <1>5, <2>1
  <2>3. \A s \in SUBSET S : h[s] = Turn1(h, s)
    BY <2>1, <2>2
  <2> HIDE DEF Turn1
  <2> QED
    BY <2>1, <2>3
<1>7. DOMAIN f = S
  OBVIOUS
<1>8. Prod(f) = (CHOOSE g : Is(g))[S]
  BY <1>7 DEF Prod, FoldFunction, FoldFunctionOnSet, MapThenFoldSet, Choice, Less
<1> DEFINE g == CHOOSE g : Is(g)
<1>9. Is(g)
  BY <1>6
<1> HIDE DEF g
<1>10. g[{}] = 1 /\ \A s \in SUBSET S : s # {} => g[s] = (f[Choice(s)] * g[Less(s)]) % q
  BY <1>9
<1>11. \A s \in SUBSET S : g[s] \in Int
  <2> DEFINE A == {s \in SUBSET S : g[s] \in Int}
  <2>1. {} \in A
    BY <1>10
  <2>2. \A s \in SUBSET S : s # {} /\ Less(s) \in A => s \in A
    <3> SUFFICES ASSUME NEW s \in SUBSET S, s # {}, Less(s) \in A PROVE g[s] \in Int
      OBVIOUS
    <3>1. f[Choice(s)] \in Int /\ g[Less(s)] \in Int
      BY <1>1, <1>5
    <3>2. (f[Choice(s)] * g[Less(s)]) % q \in Int
      BY <1>0, <3>1
    <3> QED
      BY <1>10, <3>2
  <2>3. \A s \in SUBSET S : s \in A
    <3> HIDE DEF A
    <3> QED
      BY <2>1, <2>2, SetSteps
  <2> QED
    BY <2>3
<1>12. g \in [SUBSET S -> Int]
  BY <1>9, <1>11
<1> QED
  BY <1>8, <1>10, <1>12 DEF Prods, g

-----------------------------------------------------------------------------
(***************************************************************************)
(* Polynomials, modulo q.  A function is a polynomial with d coefficients  *)
(* when its d-th difference vanishes.                                      *)
(***************************************************************************)
Fn == [Nat -> Int]

Delta(f) == [x \in Nat |-> f[x + 1] - f[x]]

Null(f) == \A x \in Nat : Eq(f[x], 0)

Table(h, d, f) ==
  /\ h \in [0 .. d -> Fn] /\ h[0] = f /\ Null(h[d])
  /\ \A k \in 0 .. d - 1 : h[k + 1] = Delta(h[k])

Poly(d, f) == \E h : Table(h, d, f)

LEMMA DeltaFn ==
  ASSUME NEW f \in Fn
  PROVE  Delta(f) \in Fn /\ \A x \in Nat : Delta(f)[x] = f[x + 1] - f[x]
BY DEF Fn, Delta

LEMMA PolyZero ==
  ASSUME NEW f \in Fn
  PROVE  Poly(0, f) <=> Null(f)
<1>1. ASSUME Null(f) PROVE Poly(0, f)
  <2> DEFINE h == [k \in 0 .. 0 |-> f]
  <2>1. h \in [0 .. 0 -> Fn] /\ h[0] = f
    OBVIOUS
  <2>2. 0 .. 0 - 1 = {}
    OBVIOUS
  <2>3. Table(h, 0, f)
    BY <1>1, <2>1, <2>2 DEF Table
  <2> QED
    BY <2>3 DEF Poly
<1>2. ASSUME Poly(0, f) PROVE Null(f)
  BY <1>2 DEF Poly, Table
<1> QED
  BY <1>1, <1>2

LEMMA PolySucc ==
  ASSUME NEW d \in Nat, NEW f \in Fn
  PROVE  Poly(d + 1, f) <=> Poly(d, Delta(f))
<1>1. ASSUME Poly(d + 1, f) PROVE Poly(d, Delta(f))
  <2>1. PICK h : Table(h, d + 1, f)
    BY <1>1 DEF Poly
  <2>2. /\ h \in [0 .. d + 1 -> Fn] /\ h[0] = f /\ Null(h[d + 1])
        /\ \A k \in 0 .. d : h[k + 1] = Delta(h[k])
    <3>1. (d + 1) - 1 = d
      OBVIOUS
    <3> QED
      BY <2>1, <3>1 DEF Table
  <2> DEFINE e == [k \in 0 .. d |-> h[k + 1]]
  <2>3. e \in [0 .. d -> Fn]
    BY <2>2
  <2>4. e[0] = Delta(f)
    <3>1. 0 \in 0 .. d /\ h[0 + 1] = Delta(h[0]) /\ e[0] = h[0 + 1]
      BY <2>2
    <3> QED
      BY <2>2, <3>1
  <2>5. Null(e[d])
    <3>1. e[d] = h[d + 1]
      OBVIOUS
    <3> QED
      BY <2>2, <3>1
  <2>6. \A k \in 0 .. d - 1 : e[k + 1] = Delta(e[k])
    <3> SUFFICES ASSUME NEW k \in 0 .. d - 1 PROVE e[k + 1] = Delta(e[k])
      OBVIOUS
    <3>1. k \in 0 .. d /\ k + 1 \in 0 .. d
      OBVIOUS
    <3>2. e[k] = h[k + 1] /\ e[k + 1] = h[(k + 1) + 1] /\ h[(k + 1) + 1] = Delta(h[k + 1])
      BY <2>2, <3>1
    <3> QED
      BY <3>2
  <2>7. Table(e, d, Delta(f))
    <3> HIDE DEF e
    <3> QED
      BY <2>3, <2>4, <2>5, <2>6 DEF Table
  <2> QED
    BY <2>7 DEF Poly
<1>2. ASSUME Poly(d, Delta(f)) PROVE Poly(d + 1, f)
  <2>1. PICK h : Table(h, d, Delta(f))
    BY <1>2 DEF Poly
  <2>2. /\ h \in [0 .. d -> Fn] /\ h[0] = Delta(f) /\ Null(h[d])
        /\ \A k \in 0 .. d - 1 : h[k + 1] = Delta(h[k])
    BY <2>1 DEF Table
  <2> DEFINE e == [k \in 0 .. d + 1 |-> IF k = 0 THEN f ELSE h[k - 1]]
  <2>3. e \in [0 .. d + 1 -> Fn]
    <3>1. \A k \in 0 .. d + 1 : k # 0 => k - 1 \in 0 .. d
      OBVIOUS
    <3> QED
      BY <2>2, <3>1
  <2>4. e[0] = f
    OBVIOUS
  <2>5. Null(e[d + 1])
    <3>1. d + 1 \in 0 .. d + 1 /\ d + 1 # 0 /\ (d + 1) - 1 = d
      OBVIOUS
    <3>2. e[d + 1] = h[d]
      BY <3>1
    <3> QED
      BY <2>2, <3>2
  <2>6. \A k \in 0 .. (d + 1) - 1 : e[k + 1] = Delta(e[k])
    <3> SUFFICES ASSUME NEW k \in 0 .. (d + 1) - 1 PROVE e[k + 1] = Delta(e[k])
      OBVIOUS
    <3>1. k \in 0 .. d + 1 /\ k + 1 \in 0 .. d + 1 /\ k + 1 # 0 /\ (k + 1) - 1 = k
      OBVIOUS
    <3>2. e[k + 1] = h[k]
      BY <3>1
    <3>3. CASE k = 0
      BY <2>2, <3>2, <3>3
    <3>4. CASE k # 0
      <4>1. k - 1 \in 0 .. d - 1 /\ (k - 1) + 1 = k
        BY <3>4
      <4>2. h[(k - 1) + 1] = Delta(h[k - 1]) /\ e[k] = h[k - 1]
        BY <2>2, <3>1, <3>4, <4>1
      <4> QED
        BY <3>2, <4>1, <4>2
    <3> QED
      BY <3>3, <3>4
  <2>7. Table(e, d + 1, f)
    <3> HIDE DEF e
    <3> QED
      BY <2>3, <2>4, <2>5, <2>6 DEF Table
  <2> QED
    BY <2>7 DEF Poly
<1> QED
  BY <1>1, <1>2

\* A null function is a polynomial of any size.
LEMMA NullPoly ==
  ASSUME NEW n \in Nat, NEW e \in Fn, Null(e)
  PROVE  Poly(n, e)
<1> DEFINE A == {d \in Nat : \A f \in Fn : Null(f) => Poly(d, f)}
<1>1. 0 \in A
  BY PolyZero
<1>2. \A d \in Nat : d \in A => d + 1 \in A
  <2> SUFFICES ASSUME NEW d \in Nat, d \in A, NEW f \in Fn, Null(f) PROVE Poly(d + 1, f)
    OBVIOUS
  <2>1. Delta(f) \in Fn /\ \A x \in Nat : Delta(f)[x] = f[x + 1] - f[x]
    BY DeltaFn
  <2>2. Null(Delta(f))
    <3> SUFFICES ASSUME NEW x \in Nat PROVE Eq(Delta(f)[x], 0)
      BY DEF Null
    <3>1. PICK u \in Int, v \in Int : u = f[x + 1] /\ v = f[x]
      BY DEF Fn
    <3>2. Eq(u, 0) /\ Eq(v, 0) /\ 0 \in Int
      BY <3>1 DEF Null
    <3>4. Eq(u - v, 0 - 0)
      BY <3>2, EqAdd, Zenon
    <3>3. 0 - 0 = 0
      OBVIOUS
    <3> QED
      BY <2>1, <3>1, <3>3, <3>4
  <2>3. Poly(d, Delta(f))
    BY <2>1, <2>2
  <2> QED
    BY <2>3, PolySucc
<1>3. n \in A
  <2> HIDE DEF A
  <2> QED
    BY <1>1, <1>2, NatSteps
<1> QED
  BY <1>3

\* A polynomial with d coefficients is one with d + 1.
LEMMA PolyUp ==
  ASSUME NEW n \in Nat, NEW e \in Fn, Poly(n, e)
  PROVE  Poly(n + 1, e)
<1> DEFINE A == {d \in Nat : \A f \in Fn : Poly(d, f) => Poly(d + 1, f)}
<1>1. 0 \in A
  BY PolyZero, NullPoly
<1>2. \A d \in Nat : d \in A => d + 1 \in A
  <2> SUFFICES ASSUME NEW d \in Nat, d \in A, NEW f \in Fn, Poly(d + 1, f)
               PROVE  Poly((d + 1) + 1, f)
    OBVIOUS
  <2>1. Delta(f) \in Fn /\ Poly(d, Delta(f))
    BY DeltaFn, PolySucc
  <2>2. Poly(d + 1, Delta(f))
    BY <2>1
  <2> QED
    BY <2>2, PolySucc
<1>3. n \in A
  <2> HIDE DEF A
  <2> QED
    BY <1>1, <1>2, NatSteps
<1> QED
  BY <1>3

LEMMA PolyMore ==
  ASSUME NEW m \in Nat, NEW n \in Nat, m <= n, NEW e \in Fn, Poly(m, e)
  PROVE  Poly(n, e)
<1> DEFINE A == {j \in Nat : Poly(m + j, e)}
<1>1. 0 \in A
  OBVIOUS
<1>2. \A j \in Nat : j \in A => j + 1 \in A
  <2> SUFFICES ASSUME NEW j \in Nat, j \in A PROVE j + 1 \in A
    OBVIOUS
  <2>1. m + j \in Nat /\ Poly(m + j, e)
    OBVIOUS
  <2>2. Poly((m + j) + 1, e)
    BY <2>1, PolyUp
  <2>3. (m + j) + 1 = m + (j + 1)
    OBVIOUS
  <2> QED
    BY <2>2, <2>3
<1>3. \A j \in Nat : j \in A
  <2> HIDE DEF A
  <2> QED
    BY <1>1, <1>2, NatSteps
<1>4. n - m \in Nat /\ m + (n - m) = n
  OBVIOUS
<1>5. Poly(m + (n - m), e)
  BY <1>3, <1>4
<1> QED
  BY <1>4, <1>5

\* h is a * f + b * g modulo q.
Combined(h, a, f, b, g) ==
  /\ h \in Fn /\ f \in Fn /\ g \in Fn /\ a \in Int /\ b \in Int
  /\ \A x \in Nat : Eq(h[x], a * f[x] + b * g[x])

LEMMA CombinedDelta ==
  ASSUME NEW h, NEW a, NEW f, NEW b, NEW g, Combined(h, a, f, b, g)
  PROVE  Combined(Delta(h), a, Delta(f), b, Delta(g))
<1>1. /\ h \in Fn /\ f \in Fn /\ g \in Fn /\ a \in Int /\ b \in Int
      /\ \A x \in Nat : Eq(h[x], a * f[x] + b * g[x])
  BY DEF Combined
<1>2. /\ Delta(h) \in Fn /\ \A x \in Nat : Delta(h)[x] = h[x + 1] - h[x]
      /\ Delta(f) \in Fn /\ \A x \in Nat : Delta(f)[x] = f[x + 1] - f[x]
      /\ Delta(g) \in Fn /\ \A x \in Nat : Delta(g)[x] = g[x + 1] - g[x]
  BY <1>1, DeltaFn
<1>3. ASSUME NEW x \in Nat
      PROVE  Eq(Delta(h)[x], a * Delta(f)[x] + b * Delta(g)[x])
  <2>1. PICK h0 \in Int, h1 \in Int, f0 \in Int, f1 \in Int, g0 \in Int, g1 \in Int :
          /\ h0 = h[x] /\ f0 = f[x] /\ g0 = g[x]
          /\ h1 = h[x + 1] /\ f1 = f[x + 1] /\ g1 = g[x + 1]
    <3>1. x + 1 \in Nat
      OBVIOUS
    <3>2. \A y \in Nat : h[y] \in Int /\ f[y] \in Int /\ g[y] \in Int
      BY <1>1 DEF Fn
    <3> QED
      BY <3>1, <3>2, Zenon
  <2>2. Eq(h0, a * f0 + b * g0) /\ Eq(h1, a * f1 + b * g1)
    BY <1>1, <2>1
  <2>3. Eq(h1 - h0, (a * f1 + b * g1) - (a * f0 + b * g0))
    <3>1. a * f0 + b * g0 \in Int /\ a * f1 + b * g1 \in Int
      BY <1>1
    <3> QED
      BY <2>2, <3>1, EqAdd
  <2>4. (a * f1 + b * g1) - (a * f0 + b * g0) = a * (f1 - f0) + b * (g1 - g0)
    BY <1>1
  <2>5. Delta(h)[x] = h1 - h0 /\ Delta(f)[x] = f1 - f0 /\ Delta(g)[x] = g1 - g0
    BY <1>2, <2>1
  <2> QED
    BY <2>3, <2>4, <2>5
<1> QED
  BY <1>1, <1>2, <1>3 DEF Combined

LEMMA PolyCombined ==
  ASSUME NEW n \in Nat, NEW h1, NEW a1, NEW f1, NEW b1, NEW g1,
         Combined(h1, a1, f1, b1, g1), Poly(n, f1), Poly(n, g1)
  PROVE  Poly(n, h1)
<1> DEFINE A == {d \in Nat : \A h, f, g \in Fn : \A a, b \in Int :
                   Combined(h, a, f, b, g) /\ Poly(d, f) /\ Poly(d, g) => Poly(d, h)}
<1>1. 0 \in A
  <2> SUFFICES ASSUME NEW h \in Fn, NEW f \in Fn, NEW g \in Fn, NEW a \in Int, NEW b \in Int,
                      Combined(h, a, f, b, g), Poly(0, f), Poly(0, g)
               PROVE  Poly(0, h)
    OBVIOUS
  <2>1. Null(f) /\ Null(g)
    BY PolyZero
  <2>2. ASSUME NEW x \in Nat PROVE Eq(h[x], 0)
    <3>1. /\ Eq(f[x], 0) /\ Eq(g[x], 0) /\ f[x] \in Int /\ g[x] \in Int /\ h[x] \in Int
          /\ 0 \in Int /\ a * 0 = 0 /\ b * 0 = 0 /\ 0 + 0 = 0
      BY <2>1 DEF Null, Fn
    <3>2. Eq(a * f[x], a * 0) /\ Eq(b * g[x], b * 0)
      BY <3>1, EqMul2
    <3>3. a * f[x] \in Int /\ b * g[x] \in Int
      BY <3>1
    <3>4. Eq(a * f[x] + b * g[x], 0)
      <4>1. PICK u \in Int, v \in Int : u = a * f[x] /\ v = b * g[x]
        BY <3>3
      <4>2. Eq(u, 0) /\ Eq(v, 0)
        BY <3>1, <3>2, <4>1
      <4>3. Eq(u + v, 0 + 0)
        BY <3>1, <4>2, EqAdd, Zenon
      <4> QED
        BY <3>1, <4>1, <4>3
    <3>5. Eq(h[x], a * f[x] + b * g[x])
      BY DEF Combined
    <3>6. a * f[x] + b * g[x] \in Int
      BY <3>3
    <3> QED
      BY <3>1, <3>4, <3>5, <3>6, EqTrans
  <2>3. Null(h)
    BY <2>2 DEF Null
  <2> QED
    BY <2>3, PolyZero
<1>2. \A d \in Nat : d \in A => d + 1 \in A
  <2> SUFFICES ASSUME NEW d \in Nat, d \in A,
                      NEW h \in Fn, NEW f \in Fn, NEW g \in Fn, NEW a \in Int, NEW b \in Int,
                      Combined(h, a, f, b, g), Poly(d + 1, f), Poly(d + 1, g)
               PROVE  Poly(d + 1, h)
    OBVIOUS
  <2>1. Poly(d, Delta(f)) /\ Poly(d, Delta(g))
    BY PolySucc
  <2>2. Delta(f) \in Fn /\ Delta(g) \in Fn /\ Delta(h) \in Fn
    BY DeltaFn
  <2>3. Combined(Delta(h), a, Delta(f), b, Delta(g))
    BY CombinedDelta
  <2>4. Poly(d, Delta(h))
    BY <2>1, <2>2, <2>3
  <2> QED
    BY <2>4, PolySucc
<1>3. n \in A
  <2> HIDE DEF A
  <2> QED
    BY <1>1, <1>2, NatSteps
<1>4. h1 \in Fn /\ f1 \in Fn /\ g1 \in Fn /\ a1 \in Int /\ b1 \in Int
  BY DEF Combined
<1> QED
  BY <1>3, <1>4

LEMMA PolyEq ==
  ASSUME NEW n \in Nat, NEW f \in Fn, NEW g \in Fn, Poly(n, f), \A x \in Nat : Eq(g[x], f[x])
  PROVE  Poly(n, g)
<1>1. \A x \in Nat : f[x] \in Int /\ 1 * f[x] + 0 * f[x] = f[x]
  BY DEF Fn
<1>2. Combined(g, 1, f, 0, f)
  BY <1>1 DEF Combined
<1> QED
  BY <1>2, PolyCombined

Shift(f) == [x \in Nat |-> f[x + 1]]

LEMMA PolyShift ==
  ASSUME NEW n \in Nat, NEW f \in Fn, Poly(n, f)
  PROVE  Shift(f) \in Fn /\ Poly(n, Shift(f))
<1>1. Shift(f) \in Fn /\ \A x \in Nat : Shift(f)[x] = f[x + 1]
  BY DEF Fn, Shift
<1>2. CASE n = 0
  <2>1. Null(f)
    BY <1>2, PolyZero
  <2>2. Null(Shift(f))
    BY <1>1, <2>1 DEF Null
  <2> QED
    BY <1>1, <2>2, NullPoly
<1>3. CASE n # 0
  <2>1. PICK d \in Nat : n = d + 1
    <3>1. n - 1 \in Nat /\ n = (n - 1) + 1
      BY <1>3
    <3> QED
      BY <3>1
  <2>2. Delta(f) \in Fn /\ \A x \in Nat : Delta(f)[x] = f[x + 1] - f[x]
    BY DeltaFn
  <2>3. Poly(d, Delta(f))
    BY <2>1, PolySucc
  <2>4. Poly(n, Delta(f))
    BY <2>1, <2>2, <2>3, PolyUp
  <2>5. ASSUME NEW x \in Nat PROVE Eq(Shift(f)[x], 1 * f[x] + 1 * Delta(f)[x])
    <3>1. f[x] \in Int /\ f[x + 1] \in Int
      BY DEF Fn
    <3>2. 1 * f[x] + 1 * (f[x + 1] - f[x]) = f[x + 1]
      BY <3>1
    <3>3. Eq(f[x + 1], f[x + 1])
      BY <3>1, EqRefl
    <3> QED
      BY <1>1, <2>2, <3>2, <3>3
  <2>6. Combined(Shift(f), 1, f, 1, Delta(f))
    BY <1>1, <2>2, <2>5 DEF Combined
  <2> QED
    BY <1>1, <2>4, <2>6, PolyCombined
<1> QED
  BY <1>2, <1>3

\* h is f * g modulo q.
Times(h, f, g) ==
  h \in Fn /\ f \in Fn /\ g \in Fn /\ \A x \in Nat : Eq(h[x], f[x] * g[x])

LEMMA TimesDelta ==
  ASSUME NEW h, NEW f, NEW g, Times(h, f, g)
  PROVE  \E u, v : Times(u, Shift(f), Delta(g)) /\ Times(v, Delta(f), g) /\ Combined(Delta(h), 1, u, 1, v)
<1>1. h \in Fn /\ f \in Fn /\ g \in Fn /\ \A x \in Nat : Eq(h[x], f[x] * g[x])
  BY DEF Times
<1>2. /\ Delta(h) \in Fn /\ \A x \in Nat : Delta(h)[x] = h[x + 1] - h[x]
      /\ Delta(f) \in Fn /\ \A x \in Nat : Delta(f)[x] = f[x + 1] - f[x]
      /\ Delta(g) \in Fn /\ \A x \in Nat : Delta(g)[x] = g[x + 1] - g[x]
  BY <1>1, DeltaFn
<1>3. Shift(f) \in Fn /\ \A x \in Nat : Shift(f)[x] = f[x + 1]
  BY <1>1 DEF Fn, Shift
<1> DEFINE u == [x \in Nat |-> Shift(f)[x] * Delta(g)[x]]
           v == [x \in Nat |-> Delta(f)[x] * g[x]]
<1>4. ASSUME NEW x \in Nat
      PROVE  Shift(f)[x] \in Int /\ Delta(g)[x] \in Int /\ Delta(f)[x] \in Int /\ g[x] \in Int
  BY <1>1, <1>2, <1>3 DEF Fn
<1>5. u \in Fn /\ v \in Fn
  <2>1. \A x \in Nat : Shift(f)[x] * Delta(g)[x] \in Int /\ Delta(f)[x] * g[x] \in Int
    BY <1>4
  <2> QED
    BY <2>1 DEF Fn
<1>6. /\ \A x \in Nat : Eq(u[x], Shift(f)[x] * Delta(g)[x])
      /\ \A x \in Nat : Eq(v[x], Delta(f)[x] * g[x])
  <2>1. \A x \in Nat : u[x] \in Int /\ v[x] \in Int
    BY <1>5 DEF Fn
  <2> QED
    BY <2>1, EqRefl
<1>7. ASSUME NEW x \in Nat PROVE Eq(Delta(h)[x], 1 * u[x] + 1 * v[x])
  <2>1. x + 1 \in Nat /\ \A y \in Nat : h[y] \in Int /\ f[y] \in Int /\ g[y] \in Int
    BY <1>1 DEF Fn
  <2>2. PICK h0 \in Int, h1 \in Int, f0 \in Int, f1 \in Int, g0 \in Int, g1 \in Int :
          /\ h0 = h[x] /\ f0 = f[x] /\ g0 = g[x]
          /\ h1 = h[x + 1] /\ f1 = f[x + 1] /\ g1 = g[x + 1]
    BY <2>1, Zenon
  <2>3. Eq(h0, f0 * g0) /\ Eq(h1, f1 * g1)
    BY <1>1, <2>1, <2>2
  <2>4. Eq(h1 - h0, f1 * g1 - f0 * g0)
    <3>1. f0 * g0 \in Int /\ f1 * g1 \in Int
      OBVIOUS
    <3> QED
      BY <2>3, <3>1, EqAdd, Zenon
  <2>5. f1 * g1 - f0 * g0 = 1 * (f1 * (g1 - g0)) + 1 * ((f1 - f0) * g0)
    OBVIOUS
  <2>6. u[x] = f1 * (g1 - g0) /\ v[x] = (f1 - f0) * g0 /\ Delta(h)[x] = h1 - h0
    BY <1>2, <1>3, <2>2
  <2> QED
    BY <2>4, <2>5, <2>6
<1> HIDE DEF u, v
<1>8. Times(u, Shift(f), Delta(g)) /\ Times(v, Delta(f), g)
  BY <1>1, <1>2, <1>3, <1>5, <1>6 DEF Times
<1>9. Combined(Delta(h), 1, u, 1, v)
  BY <1>2, <1>5, <1>7 DEF Combined
<1> QED
  BY <1>8, <1>9

LEMMA TimesNull ==
  ASSUME NEW h, NEW f, NEW g, Times(h, f, g), Null(f) \/ Null(g)
  PROVE  Null(h)
<1> SUFFICES ASSUME NEW x \in Nat PROVE Eq(h[x], 0)
  BY DEF Null
<1>1. Eq(h[x], f[x] * g[x]) /\ h[x] \in Int /\ f[x] \in Int /\ g[x] \in Int /\ 0 \in Int
  BY DEF Times, Fn
<1>2. Eq(f[x] * g[x], 0)
  <2>1. CASE Null(f)
    <3>1. Eq(f[x], 0) /\ 0 * g[x] = 0
      BY <1>1, <2>1 DEF Null
    <3>2. Eq(f[x] * g[x], 0 * g[x])
      BY <1>1, <3>1, EqMul2
    <3> QED
      BY <3>1, <3>2
  <2>2. CASE Null(g)
    <3>1. Eq(g[x], 0) /\ f[x] * 0 = 0
      BY <1>1, <2>2 DEF Null
    <3>2. Eq(f[x] * g[x], f[x] * 0)
      BY <1>1, <3>1, EqMul2
    <3> QED
      BY <3>1, <3>2
  <2> QED
    BY <2>1, <2>2
<1>3. f[x] * g[x] \in Int
  BY <1>1
<1> QED
  BY <1>1, <1>2, <1>3, EqTrans

Multiplies(n) ==
  \A a, b \in Nat : \A h, f, g \in Fn :
    a + b <= n + 1 /\ Poly(a, f) /\ Poly(b, g) /\ Times(h, f, g) => Poly(n, h)

LEMMA PolyTimes ==
  ASSUME NEW a1 \in Nat, NEW b1 \in Nat, NEW n1 \in Nat, a1 + b1 = n1 + 1,
         NEW h1, NEW f1, NEW g1, Times(h1, f1, g1), Poly(a1, f1), Poly(b1, g1)
  PROVE  Poly(n1, h1)
<1> DEFINE A == {n \in Nat : Multiplies(n)}
<1>1. 0 \in A
  <2> SUFFICES ASSUME NEW a \in Nat, NEW b \in Nat, NEW h \in Fn, NEW f \in Fn, NEW g \in Fn,
                      a + b <= 0 + 1, Poly(a, f), Poly(b, g), Times(h, f, g)
               PROVE  Poly(0, h)
    BY DEF Multiplies
  <2>1. a = 0 \/ b = 0
    OBVIOUS
  <2>2. Null(f) \/ Null(g)
    BY <2>1, PolyZero
  <2>3. Null(h)
    BY <2>2, TimesNull
  <2> QED
    BY <2>3, PolyZero
<1>2. \A n \in Nat : n \in A => n + 1 \in A
  <2> SUFFICES ASSUME NEW n \in Nat, Multiplies(n) PROVE n + 1 \in Nat /\ Multiplies(n + 1)
    OBVIOUS
  <2> SUFFICES ASSUME NEW a \in Nat, NEW b \in Nat, NEW h \in Fn, NEW f \in Fn, NEW g \in Fn,
                      a + b <= (n + 1) + 1, Poly(a, f), Poly(b, g), Times(h, f, g)
               PROVE  Poly(n + 1, h)
    BY DEF Multiplies
  <2>1. CASE a = 0 \/ b = 0
    <3>1. Null(f) \/ Null(g)
      BY <2>1, PolyZero
    <3>2. Null(h)
      BY <3>1, TimesNull
    <3> QED
      BY <3>2, NullPoly
  <2>2. CASE a # 0 /\ b # 0
    <3>1. PICK a0 \in Nat, b0 \in Nat : a = a0 + 1 /\ b = b0 + 1
      <4>1. a - 1 \in Nat /\ b - 1 \in Nat /\ a = (a - 1) + 1 /\ b = (b - 1) + 1
        BY <2>2
      <4> QED
        BY <4>1
    <3>2. Poly(a0, Delta(f)) /\ Poly(b0, Delta(g))
      BY <3>1, PolySucc
    <3>3. Shift(f) \in Fn /\ Poly(a, Shift(f))
      BY PolyShift
    <3>4. Delta(f) \in Fn /\ Delta(g) \in Fn /\ Delta(h) \in Fn
      BY DeltaFn
    <3>5. PICK u, v : /\ Times(u, Shift(f), Delta(g)) /\ Times(v, Delta(f), g)
                      /\ Combined(Delta(h), 1, u, 1, v)
      BY TimesDelta
    <3>6. u \in Fn /\ v \in Fn
      BY <3>5 DEF Times
    <3>7. a + b0 <= n + 1 /\ a0 + b <= n + 1
      BY <3>1
    <3>8. Poly(n, u)
      BY <3>2, <3>3, <3>4, <3>5, <3>6, <3>7 DEF Multiplies
    <3>9. Poly(n, v)
      BY <3>2, <3>4, <3>5, <3>6, <3>7 DEF Multiplies
    <3>10. Poly(n, Delta(h))
      BY <3>5, <3>8, <3>9, PolyCombined
    <3> QED
      BY <3>10, PolySucc
  <2> QED
    BY <2>1, <2>2
<1>3. n1 \in A
  <2> HIDE DEF A
  <2> QED
    BY <1>1, <1>2, NatSteps
<1>4. h1 \in Fn /\ f1 \in Fn /\ g1 \in Fn /\ Multiplies(n1)
  BY <1>3 DEF Times
<1> QED
  BY <1>4 DEF Multiplies

\* A polynomial with d coefficients that vanishes at 0 .. d - 1 vanishes.
LEMMA PolyVanishes ==
  ASSUME NEW n \in Nat, NEW e \in Fn, Poly(n, e), \A x \in 0 .. n - 1 : Eq(e[x], 0)
  PROVE  Null(e)
<1> DEFINE A == {d \in Nat : \A f \in Fn : Poly(d, f) /\ (\A x \in 0 .. d - 1 : Eq(f[x], 0)) => Null(f)}
<1>1. 0 \in A
  BY PolyZero
<1>2. \A d \in Nat : d \in A => d + 1 \in A
  <2> SUFFICES ASSUME NEW d \in Nat, d \in A, NEW f \in Fn, Poly(d + 1, f),
                      \A x \in 0 .. (d + 1) - 1 : Eq(f[x], 0)
               PROVE  Null(f)
    OBVIOUS
  <2>1. Delta(f) \in Fn /\ Poly(d, Delta(f)) /\ \A x \in Nat : Delta(f)[x] = f[x + 1] - f[x]
    BY DeltaFn, PolySucc
  <2>2. \A x \in Nat : f[x] \in Int
    BY DEF Fn
  <2>3. ASSUME NEW x \in 0 .. d - 1 PROVE Eq(Delta(f)[x], 0)
    <3>1. x \in Nat /\ x + 1 \in Nat /\ x \in 0 .. (d + 1) - 1 /\ x + 1 \in 0 .. (d + 1) - 1
      OBVIOUS
    <3>2. PICK u \in Int, v \in Int : u = f[x + 1] /\ v = f[x]
      BY <2>2, <3>1, Zenon
    <3>3. Eq(u, 0) /\ Eq(v, 0) /\ 0 \in Int /\ 0 - 0 = 0
      BY <3>1, <3>2
    <3>4. Eq(u - v, 0 - 0)
      BY <3>3, EqAdd, Zenon
    <3> QED
      BY <2>1, <3>1, <3>2, <3>3, <3>4
  <2>4. Null(Delta(f))
    BY <2>1, <2>3
  <2> DEFINE B == {x \in Nat : Eq(f[x], 0)}
  <2>5. 0 \in B
    <3>1. 0 \in 0 .. (d + 1) - 1
      OBVIOUS
    <3> QED
      BY <3>1
  <2>6. \A x \in Nat : x \in B => x + 1 \in B
    <3> SUFFICES ASSUME NEW x \in Nat, Eq(f[x], 0) PROVE x + 1 \in Nat /\ Eq(f[x + 1], 0)
      OBVIOUS
    <3>1. x + 1 \in Nat
      OBVIOUS
    <3>2. PICK u \in Int, v \in Int : u = f[x + 1] /\ v = f[x]
      BY <2>2, <3>1, Zenon
    <3>3. Eq(u - v, 0) /\ Eq(v, 0) /\ 0 \in Int /\ 0 + 0 = 0
      BY <2>1, <2>4, <3>2 DEF Null
    <3>4. u - v \in Int
      OBVIOUS
    <3>5. Eq((u - v) + v, 0 + 0)
      BY <3>3, <3>4, EqAdd, Zenon
    <3>6. (u - v) + v = u
      OBVIOUS
    <3> QED
      BY <3>1, <3>2, <3>3, <3>5, <3>6
  <2>7. \A x \in Nat : x \in B
    <3> HIDE DEF B
    <3> QED
      BY <2>5, <2>6, NatSteps
  <2> QED
    BY <2>7 DEF Null
<1>3. n \in A
  <2> HIDE DEF A
  <2> QED
    BY <1>1, <1>2, NatSteps
<1> QED
  BY <1>3

\* Constants have one coefficient, linear functions two.
LEMMA PolyConstant ==
  ASSUME NEW c \in Int, NEW f \in Fn, \A x \in Nat : Eq(f[x], c)
  PROVE  Poly(1, f)
<1>1. Delta(f) \in Fn /\ \A x \in Nat : Delta(f)[x] = f[x + 1] - f[x]
  BY DeltaFn
<1>2. ASSUME NEW x \in Nat PROVE Eq(Delta(f)[x], 0)
  <2>1. x + 1 \in Nat /\ \A y \in Nat : f[y] \in Int
    BY DEF Fn
  <2>2. PICK u \in Int, v \in Int : u = f[x + 1] /\ v = f[x]
    BY <2>1, Zenon
  <2>3. Eq(u, c) /\ Eq(v, c) /\ c - c = 0
    BY <2>1, <2>2
  <2>4. Eq(u - v, c - c)
    BY <2>3, EqAdd, Zenon
  <2> QED
    BY <1>1, <2>2, <2>3, <2>4
<1>3. Poly(0, Delta(f))
  BY <1>1, <1>2, PolyZero DEF Null
<1>4. Poly(0 + 1, f)
  BY <1>3, PolySucc
<1> QED
  BY <1>4

LEMMA PolyLine ==
  ASSUME NEW b \in Int, NEW c \in Int, NEW f \in Fn, \A x \in Nat : f[x] = (x - b) * c
  PROVE  Poly(2, f)
<1>1. Delta(f) \in Fn /\ \A x \in Nat : Delta(f)[x] = f[x + 1] - f[x]
  BY DeltaFn
<1>2. ASSUME NEW x \in Nat PROVE Eq(Delta(f)[x], c)
  <2>1. x + 1 \in Nat
    OBVIOUS
  <2>2. f[x + 1] = ((x + 1) - b) * c /\ f[x] = (x - b) * c
    BY <2>1
  <2>3. ((x + 1) - b) * c - (x - b) * c = c
    OBVIOUS
  <2>4. Eq(c, c)
    BY EqRefl
  <2> QED
    BY <1>1, <2>2, <2>3, <2>4
<1>3. Poly(1, Delta(f))
  BY <1>1, <1>2, PolyConstant
<1>4. Poly(1 + 1, f)
  BY <1>3, PolySucc
<1> QED
  BY <1>4

LEMMA PolySum ==
  ASSUME NEW n \in Nat, NEW S, IsFiniteSet(S), NEW k \in [S -> Fn], \A p \in S : Poly(n, k[p]),
         NEW f \in Fn, \A x \in Nat : f[x] = SumFunction([p \in S |-> k[p][x]])
  PROVE  Poly(n, f)
<1> DEFINE Row(x) == [p \in S |-> k[p][x]]
           H(s) == [x \in Nat |-> SumOver(Row(x), s)]
           A == {s \in SUBSET S : Poly(n, H(s))}
<1>1. \A x \in Nat : Row(x) \in [S -> Int]
  BY DEF Fn
<1>2. \A s \in SUBSET S : H(s) \in Fn
  <2>1. \A s \in SUBSET S, x \in Nat : SumOver(Row(x), s) \in Int
    <3> HIDE DEF Row
    <3> QED
      BY <1>1, SumStep
  <2> HIDE DEF Row
  <2> QED
    BY <2>1 DEF Fn
<1>3. {} \in A
  <2>1. \A x \in Nat : SumOver(Row(x), {}) = 0
    <3> HIDE DEF Row
    <3> QED
      BY <1>1, SumStep
  <2>2. \A x \in Nat : H({})[x] = 0
    <3> HIDE DEF Row
    <3> QED
      BY <2>1
  <2>3. Null(H({}))
    <3>1. Eq(0, 0)
      BY EqRefl
    <3> HIDE DEF H
    <3> QED
      BY <2>2, <3>1 DEF Null
  <2>4. H({}) \in Fn
    BY <1>2
  <2> HIDE DEF H
  <2> QED
    BY <2>3, <2>4, NullPoly
<1>4. \A s \in SUBSET S : s # {} /\ Less(s) \in A => s \in A
  <2> SUFFICES ASSUME NEW s \in SUBSET S, s # {}, Less(s) \in A PROVE Poly(n, H(s))
    OBVIOUS
  <2>1. PICK c \in S, u \in SUBSET S : c = Choice(s) /\ u = Less(s)
    BY ChoiceIn
  <2>2. k[c] \in Fn /\ Poly(n, k[c]) /\ Poly(n, H(u)) /\ H(u) \in Fn /\ H(s) \in Fn
    BY <1>2, <2>1
  <2>3. ASSUME NEW x \in Nat PROVE Eq(H(s)[x], 1 * k[c][x] + 1 * H(u)[x])
    <3>1. PICK e \in [S -> Int] : e = Row(x)
      BY <1>1
    <3>2. e[c] = k[c][x] /\ H(u)[x] = SumOver(e, u) /\ H(s)[x] = SumOver(e, s)
      BY <3>1
    <3>3. e[c] \in Int /\ SumOver(e, u) \in Int /\ SumOver(e, s) = e[c] + SumOver(e, u)
      <4>1. /\ e[Choice(s)] \in Int /\ SumOver(e, Less(s)) \in Int
            /\ SumOver(e, s) = e[Choice(s)] + SumOver(e, Less(s))
        <5> HIDE DEF H, Row, A
        <5> QED
          BY SumLess
      <4> QED
        BY <2>1, <4>1
    <3>4. H(s)[x] = 1 * k[c][x] + 1 * H(u)[x] /\ H(s)[x] \in Int
      <4> HIDE DEF H
      <4> QED
        BY <3>2, <3>3
    <3> HIDE DEF H
    <3> QED
      BY <3>4, EqRefl
  <2> HIDE DEF H
  <2>4. Combined(H(s), 1, k[c], 1, H(u))
    BY <2>2, <2>3 DEF Combined
  <2> QED
    BY <2>2, <2>4, PolyCombined
<1>5. S \in A
  <2> HIDE DEF A
  <2> QED
    BY <1>3, <1>4, SetSteps
<1>6. H(S) = f
  <2>1. \A x \in Nat : SumOver(Row(x), S) = f[x]
    <3> SUFFICES ASSUME NEW x \in Nat PROVE SumOver(Row(x), S) = f[x]
      OBVIOUS
    <3>1. PICK e \in [S -> Int] : e = Row(x)
      BY <1>1
    <3>2. SumFunction(e) = SumOver(e, S)
      BY SumStep
    <3> QED
      BY <3>1, <3>2
  <2>2. f = [x \in Nat |-> f[x]]
    BY DEF Fn
  <2> HIDE DEF Row
  <2> QED
    BY <2>1, <2>2
<1> QED
  BY <1>5, <1>6

\* What is known of one turn of a product.
LEMMA ProdTurn ==
  ASSUME NEW S, IsFiniteSet(S), NEW f \in [S -> Int], NEW g, Prods(g, S, f),
         NEW s \in SUBSET S, s # {}
  PROVE  /\ Choice(s) \in s /\ Choice(s) \in S /\ Less(s) \in SUBSET S /\ Less(s) = s \ {Choice(s)}
         /\ f[Choice(s)] \in Int /\ g[Less(s)] \in Int /\ g[s] \in Int
         /\ Eq(g[s], f[Choice(s)] * g[Less(s)])
<1>1. Choice(s) \in s /\ Choice(s) \in S /\ Less(s) \in SUBSET S /\ Less(s) = s \ {Choice(s)}
  BY ChoiceIn DEF Less
<1>2. PICK a \in Int, b \in Int : a = f[Choice(s)] /\ b = g[Less(s)]
  BY <1>1 DEF Prods
<1>3. g[s] = (a * b) % q /\ g[s] \in Int
  BY <1>2 DEF Prods
<1>4. Eq((a * b) % q, a * b)
  <2>1. a * b \in Int
    OBVIOUS
  <2> QED
    BY <2>1, EqMod
<1> QED
  BY <1>1, <1>2, <1>3, <1>4

LEMMA ProdInt ==
  ASSUME NEW S, IsFiniteSet(S), NEW f \in [S -> Int]
  PROVE  Prod(f) \in Int
<1>1. PICK g : Prods(g, S, f) /\ Prod(f) = g[S]
  BY ProdFolds, Zenon
<1> QED
  BY <1>1 DEF Prods

\* A product of ones is one.
LEMMA ProdOnes ==
  ASSUME NEW S, IsFiniteSet(S), NEW f \in [S -> Int], \A x \in S : Eq(f[x], 1)
  PROVE  Eq(Prod(f), 1)
<1>1. PICK g : Prods(g, S, f) /\ Prod(f) = g[S]
  BY ProdFolds, Zenon
<1> DEFINE A == {s \in SUBSET S : Eq(g[s], 1)}
<1>2. {} \in A
  BY <1>1, EqRefl DEF Prods
<1>3. \A s \in SUBSET S : s # {} /\ Less(s) \in A => s \in A
  <2> SUFFICES ASSUME NEW s \in SUBSET S, s # {}, Less(s) \in A PROVE Eq(g[s], 1)
    OBVIOUS
  <2>1. PICK a \in Int, b \in Int, c \in Int : a = f[Choice(s)] /\ b = g[Less(s)] /\ c = g[s]
    BY <1>1, ProdTurn
  <2>2. Eq(c, a * b)
    BY <1>1, <2>1, ProdTurn
  <2>3. Eq(a, 1) /\ Eq(b, 1) /\ 1 \in Int /\ 1 * 1 = 1
    BY <2>1, ChoiceIn
  <2>4. Eq(a * b, 1 * 1)
    BY <2>3, EqMul, Zenon
  <2>5. a * b \in Int
    OBVIOUS
  <2>6. Eq(c, 1)
    BY <2>2, <2>3, <2>4, <2>5, EqTrans
  <2> QED
    BY <2>1, <2>6
<1>4. S \in A
  <2> HIDE DEF A
  <2> QED
    BY <1>2, <1>3, SetSteps
<1> QED
  BY <1>1, <1>4

\* A product with a factor zero is zero.
LEMMA ProdZero ==
  ASSUME NEW S, IsFiniteSet(S), NEW f \in [S -> Int], NEW v \in S, Eq(f[v], 0)
  PROVE  Eq(Prod(f), 0)
<1>1. PICK g : Prods(g, S, f) /\ Prod(f) = g[S]
  BY ProdFolds, Zenon
<1> DEFINE A == {s \in SUBSET S : v \in s => Eq(g[s], 0)}
<1>2. {} \in A
  OBVIOUS
<1>3. \A s \in SUBSET S : s # {} /\ Less(s) \in A => s \in A
  <2> SUFFICES ASSUME NEW s \in SUBSET S, s # {}, Less(s) \in A, v \in s PROVE Eq(g[s], 0)
    OBVIOUS
  <2>1. PICK a \in Int, b \in Int, c \in Int : a = f[Choice(s)] /\ b = g[Less(s)] /\ c = g[s]
    BY <1>1, ProdTurn
  <2>2. Eq(c, a * b)
    BY <1>1, <2>1, ProdTurn
  <2>3. Eq(a, 0) \/ Eq(b, 0)
    <3>1. v = Choice(s) \/ v \in Less(s)
      BY DEF Less
    <3> QED
      BY <2>1, <3>1
  <2>4. Eq(a * b, 0)
    <3>1. 0 * b = 0 /\ a * 0 = 0 /\ 0 \in Int
      OBVIOUS
    <3> QED
      BY <2>3, <3>1, EqMul2
  <2>5. a * b \in Int /\ 0 \in Int
    OBVIOUS
  <2>6. Eq(c, 0)
    BY <2>2, <2>4, <2>5, EqTrans
  <2> QED
    BY <2>1, <2>6
<1>4. S \in A
  <2> HIDE DEF A
  <2> QED
    BY <1>2, <1>3, SetSteps
<1> QED
  BY <1>1, <1>4

\* A product without a factor zero is not zero.
LEMMA ProdNonzero ==
  ASSUME NEW S, IsFiniteSet(S), NEW f \in [S -> Int], \A x \in S : ~Eq(f[x], 0)
  PROVE  ~Eq(Prod(f), 0)
<1>1. PICK g : Prods(g, S, f) /\ Prod(f) = g[S]
  BY ProdFolds, Zenon
<1> DEFINE A == {s \in SUBSET S : ~Eq(g[s], 0)}
<1>2. {} \in A
  <2>1. q \in Nat /\ q >= 4
    BY Geometry
  <2>2. 1 # 0 /\ -q < 1 /\ 1 < q /\ 1 \in Int
    BY <2>1
  <2>3. ~Eq(1, 0)
    BY <2>2, NotZero
  <2> QED
    BY <1>1, <2>3 DEF Prods
<1>3. \A s \in SUBSET S : s # {} /\ Less(s) \in A => s \in A
  <2> SUFFICES ASSUME NEW s \in SUBSET S, s # {}, Less(s) \in A, Eq(g[s], 0) PROVE FALSE
    OBVIOUS
  <2>1. PICK a \in Int, b \in Int, c \in Int : a = f[Choice(s)] /\ b = g[Less(s)] /\ c = g[s]
    BY <1>1, ProdTurn
  <2>2. Eq(c, a * b) /\ Eq(c, 0)
    BY <1>1, <2>1, ProdTurn
  <2>3. ~Eq(a, 0) /\ ~Eq(b, 0)
    BY <2>1, ChoiceIn
  <2>4. a * b \in Int /\ 0 \in Int
    OBVIOUS
  <2>5. Eq(a * b, c)
    BY <2>2, <2>4, EqSym
  <2>6. Eq(a * b, 0)
    BY <2>2, <2>4, <2>5, EqTrans
  <2> QED
    BY <2>3, <2>6, EqZero
<1>4. S \in A
  <2> HIDE DEF A
  <2> QED
    BY <1>2, <1>3, SetSteps
<1> QED
  BY <1>1, <1>4

-----------------------------------------------------------------------------
(***************************************************************************)
(* The weights of the samples.                                             *)
(***************************************************************************)
Others(len, p) == (0 .. len - 1) \ {p}

Scale(p, o) == Inv((p - o) % q)

Factors(len, p, x) == [o \in Others(len, p) |-> ((x - o) * Scale(p, o)) % q]

LEMMA WeightsAre ==
  ASSUME NEW len, NEW x
  PROVE  Weights(len, x) = [p \in 0 .. len - 1 |-> Prod(Factors(len, p, x))]
BY DEF Weights, Factors, Others, Scale

LEMMA OthersAre ==
  ASSUME NEW len \in Nat, NEW p \in 0 .. len - 1
  PROVE  IsFiniteSet(Others(len, p)) /\ Cardinality(Others(len, p)) = len - 1
<1>1. IsFiniteSet(0 .. len - 1) /\ Cardinality(0 .. len - 1) = len
  <2>1. 0 \in Int /\ len - 1 \in Int /\ ~(0 > len - 1) /\ (len - 1) - 0 + 1 = len
    OBVIOUS
  <2> QED
    BY <2>1, FS_Interval
<1>2. PICK S : S = 0 .. len - 1
  OBVIOUS
<1>3. IsFiniteSet(S \ {p}) /\ Cardinality(S \ {p}) = Cardinality(S) - 1
  <2>1. IsFiniteSet(S) /\ p \in S
    BY <1>1, <1>2
  <2>2. IsFiniteSet(S \ {p})
           /\ Cardinality(S \ {p}) = IF p \in S THEN Cardinality(S) - 1 ELSE Cardinality(S)
    BY <2>1, FS_RemoveElement, Zenon
  <2> QED
    BY <2>1, <2>2
<1> QED
  BY <1>1, <1>2, <1>3 DEF Others

LEMMA ScaleIs ==
  ASSUME NEW len \in Nat, len <= q, NEW p \in 0 .. len - 1, NEW o \in Others(len, p)
  PROVE  Scale(p, o) \in Int /\ ~Eq(Scale(p, o), 0) /\ Eq((p - o) * Scale(p, o), 1)
<1>0. q \in Nat
  BY Geometry
<1>1. PICK a \in Int : a = p - o /\ a # 0 /\ -q < a /\ a < q
  <2>1. p \in Int /\ o \in Int /\ p - o \in Int /\ p - o # 0 /\ -q < p - o /\ p - o < q
    BY <1>0 DEF Others
  <2> QED
    BY <2>1
<1>2. ~Eq(a, 0)
  BY <1>1, NotZero
<1>3. a % q \in Int /\ Eq(a % q, a) /\ Eq(a, a % q) /\ 0 \in Int
  BY EqMod
<1>4. PICK b \in Int : b = a % q
  BY <1>3
<1>5. ~Eq(b, 0)
  BY <1>2, <1>3, <1>4, EqTrans
<1>6. PICK c \in Int : c = Inv(b) /\ Eq(b * c, 1) /\ ~Eq(c, 0)
  BY <1>5, InvIs
<1>7. Eq(a * c, b * c)
  BY <1>3, <1>4, EqMul2
<1>8. Eq(a * c, 1)
  <2>1. a * c \in Int /\ b * c \in Int /\ 1 \in Int
    OBVIOUS
  <2> QED
    BY <1>6, <1>7, <2>1, EqTrans
<1> QED
  BY <1>1, <1>4, <1>6, <1>8 DEF Scale

LEMMA FactorsAre ==
  ASSUME NEW len \in Nat, len <= q, NEW p \in 0 .. len - 1, NEW x \in Nat
  PROVE  /\ Factors(len, p, x) \in [Others(len, p) -> Int]
         /\ \A o \in Others(len, p) : Eq(Factors(len, p, x)[o], (x - o) * Scale(p, o))
<1>1. ASSUME NEW o \in Others(len, p)
      PROVE  /\ ((x - o) * Scale(p, o)) % q \in Int
             /\ Eq(((x - o) * Scale(p, o)) % q, (x - o) * Scale(p, o))
  <2>1. o \in Int
    BY DEF Others
  <2>2. PICK c \in Int : c = Scale(p, o)
    BY ScaleIs
  <2>3. (x - o) * c \in Int
    BY <2>1
  <2>4. ((x - o) * c) % q \in Int /\ Eq(((x - o) * c) % q, (x - o) * c)
    BY <2>3, EqMod
  <2> QED
    BY <2>2, <2>4
<1> QED
  BY <1>1 DEF Factors

Wt(len, p) == [x \in Nat |-> Prod(Factors(len, p, x))]

LEMMA WtFn ==
  ASSUME NEW len \in Nat, len <= q, NEW p \in 0 .. len - 1
  PROVE  Wt(len, p) \in Fn /\ \A x \in Nat : Wt(len, p)[x] = Prod(Factors(len, p, x))
<1>1. ASSUME NEW x \in Nat PROVE Prod(Factors(len, p, x)) \in Int
  <2>1. Factors(len, p, x) \in [Others(len, p) -> Int] /\ IsFiniteSet(Others(len, p))
    BY FactorsAre, OthersAre
  <2> QED
    BY <2>1, ProdInt
<1> QED
  BY <1>1 DEF Wt, Fn

\* At its own sample a weight is one, at the other samples zero, and beyond
\* the samples not zero.
LEMMA WtAt ==
  ASSUME NEW len \in Nat, len <= q, NEW p \in 0 .. len - 1, NEW x \in Nat
  PROVE  /\ x = p => Eq(Wt(len, p)[x], 1)
         /\ x \in 0 .. len - 1 /\ x # p => Eq(Wt(len, p)[x], 0)
         /\ x >= len /\ x < q => ~Eq(Wt(len, p)[x], 0)
<1>0. q \in Nat
  BY Geometry
<1>1. PICK S : S = Others(len, p)
  OBVIOUS
<1>2. PICK f \in [S -> Int] : f = Factors(len, p, x) /\ \A o \in S : Eq(f[o], (x - o) * Scale(p, o))
  BY <1>1, FactorsAre
<1>3. IsFiniteSet(S) /\ \A o \in S : o \in Int /\ o \in 0 .. len - 1 /\ o # p
  BY <1>1, OthersAre DEF Others
<1>4. Wt(len, p)[x] = Prod(f)
  BY <1>2, WtFn
<1>5. \A o \in S : f[o] \in Int
  OBVIOUS
<1>6. ASSUME x = p PROVE Eq(Prod(f), 1)
  <2>1. \A o \in S : Eq(f[o], 1)
    <3> SUFFICES ASSUME NEW o \in S PROVE Eq(f[o], 1)
      OBVIOUS
    <3>1. PICK c \in Int : c = Scale(p, o) /\ Eq((p - o) * c, 1)
      BY <1>1, ScaleIs
    <3>2. (p - o) * c \in Int /\ 1 \in Int /\ f[o] \in Int
      BY <1>3
    <3>3. Eq(f[o], (p - o) * c)
      BY <1>2, <1>6, <3>1
    <3> QED
      BY <3>1, <3>2, <3>3, EqTrans
  <2> QED
    BY <1>3, <2>1, ProdOnes
<1>7. ASSUME x \in 0 .. len - 1, x # p PROVE Eq(Prod(f), 0)
  <2>1. x \in S
    BY <1>1, <1>7 DEF Others
  <2>2. Scale(p, x) \in Int
    BY <1>1, <2>1, ScaleIs
  <2>3. (x - x) * Scale(p, x) = 0
    BY <2>2
  <2>4. Eq(f[x], 0)
    BY <1>2, <2>1, <2>3
  <2> QED
    BY <1>3, <2>1, <2>4, ProdZero
<1>8. ASSUME x >= len, x < q PROVE ~Eq(Prod(f), 0)
  <2>1. \A o \in S : ~Eq(f[o], 0)
    <3> SUFFICES ASSUME NEW o \in S, Eq(f[o], 0) PROVE FALSE
      OBVIOUS
    <3>1. PICK c \in Int : c = Scale(p, o) /\ ~Eq(c, 0)
      BY <1>1, ScaleIs
    <3>2. PICK a \in Int : a = x - o /\ a # 0 /\ -q < a /\ a < q
      <4>1. x - o \in Int /\ x - o # 0 /\ -q < x - o /\ x - o < q
        BY <1>0, <1>3, <1>8
      <4> QED
        BY <4>1
    <3>3. a * c \in Int /\ f[o] \in Int /\ 0 \in Int
      OBVIOUS
    <3>4. Eq(f[o], a * c)
      BY <1>2, <3>1, <3>2
    <3>5. Eq(a * c, 0)
      BY <3>3, <3>4, EqSym, EqTrans
    <3>6. ~Eq(a, 0)
      BY <3>2, NotZero
    <3> QED
      BY <3>1, <3>5, <3>6, EqZero
  <2> QED
    BY <1>3, <2>1, ProdNonzero
<1> QED
  BY <1>4, <1>6, <1>7, <1>8

\* A weight is a polynomial.
LEMMA WtPoly ==
  ASSUME NEW len \in Nat, len <= q, NEW p \in 0 .. len - 1
  PROVE  Poly(len, Wt(len, p))
<1>1. PICK S : S = Others(len, p)
  OBVIOUS
<1>2. IsFiniteSet(S) /\ Cardinality(S) = len - 1 /\ \A o \in S : o \in Int
  BY <1>1, OthersAre DEF Others
<1> DEFINE Fac(x) == Factors(len, p, x)
           Is(x, g) == Prods(g, S, Fac(x)) /\ Prod(Fac(x)) = g[S]
           G == [x \in Nat |-> CHOOSE g : Is(x, g)]
           H(s) == [x \in Nat |-> G[x][s]]
           A == {s \in SUBSET S : Poly(Cardinality(s) + 1, H(s))}
<1>3. ASSUME NEW x \in Nat
      PROVE  Fac(x) \in [S -> Int] /\ \A o \in S : Eq(Fac(x)[o], (x - o) * Scale(p, o))
  BY <1>1, FactorsAre
<1>4. ASSUME NEW x \in Nat PROVE Prods(G[x], S, Fac(x)) /\ Prod(Fac(x)) = G[x][S]
  <2>1. PICK e \in [S -> Int] : e = Fac(x)
    BY <1>3
  <2>2. \E g : Prods(g, S, e) /\ Prod(e) = g[S]
    BY <1>2, ProdFolds, Zenon
  <2>3. \E g : Is(x, g)
    BY <2>1, <2>2
  <2>4. G[x] = CHOOSE g : Is(x, g)
    OBVIOUS
  <2>5. Is(x, G[x])
    <3> HIDE DEF G, Is
    <3> QED
      BY <2>3, <2>4, Zenon
  <2> HIDE DEF G, Fac
  <2> QED
    BY <2>5
<1> HIDE DEF G, Fac
<1>5. ASSUME NEW s \in SUBSET S
      PROVE  H(s) \in Fn /\ \A x \in Nat : H(s)[x] = G[x][s]
  <2>1. \A x \in Nat : G[x][s] \in Int
    BY <1>4 DEF Prods
  <2> QED
    BY <2>1 DEF Fn
<1> HIDE DEF H
<1>6. {} \in A
  <2>1. {} \in SUBSET S /\ Cardinality({}) + 1 = 1
    BY FS_EmptySet
  <2>2. \A x \in Nat : H({})[x] = 1
    BY <1>4, <1>5, <2>1 DEF Prods
  <2>3. H({}) \in Fn /\ 1 \in Int /\ Eq(1, 1)
    BY <1>5, <2>1, EqRefl
  <2>4. Poly(1, H({}))
    BY <2>2, <2>3, PolyConstant
  <2> QED
    BY <2>1, <2>4
<1>7. \A s \in SUBSET S : s # {} /\ Less(s) \in A => s \in A
  <2> SUFFICES ASSUME NEW s \in SUBSET S, s # {}, Less(s) \in A
               PROVE  Poly(Cardinality(s) + 1, H(s))
    OBVIOUS
  <2>1. PICK o \in S, u \in SUBSET S, n \in Nat :
          o = Choice(s) /\ u = Less(s) /\ n = Cardinality(s) /\ n > 0 /\ Cardinality(u) = n - 1
    BY <1>2, ChoiceIn
  <2>2. PICK c \in Int : c = Scale(p, o)
    BY <1>1, ScaleIs
  <2> DEFINE line == [x \in Nat |-> (x - o) * c]
  <2>3. line \in Fn /\ \A x \in Nat : line[x] = (x - o) * c
    <3>1. \A x \in Nat : (x - o) * c \in Int
      BY <1>2
    <3> QED
      BY <3>1 DEF Fn
  <2> HIDE DEF line
  <2>4. Poly(2, line)
    BY <1>2, <2>3, PolyLine
  <2>5. Poly(n, H(u))
    <3>1. Poly((n - 1) + 1, H(u)) /\ (n - 1) + 1 = n
      BY <2>1
    <3> QED
      BY <3>1
  <2>6. ASSUME NEW x \in Nat PROVE Eq(H(s)[x], line[x] * H(u)[x])
    <3>1. PICK f \in [S -> Int] : f = Fac(x)
      BY <1>3
    <3>2. PICK g : g = G[x]
      OBVIOUS
    <3>3. Prods(g, S, f)
      BY <1>4, <3>1, <3>2
    <3>4. PICK a \in Int, b \in Int, e \in Int : a = f[o] /\ b = g[u] /\ e = g[s] /\ Eq(e, a * b)
      <4>1. /\ f[Choice(s)] \in Int /\ g[Less(s)] \in Int /\ g[s] \in Int
            /\ Eq(g[s], f[Choice(s)] * g[Less(s)])
        BY <1>2, <3>3, ProdTurn
      <4> QED
        BY <2>1, <4>1
    <3>5. Eq(a, (x - o) * c)
      BY <1>3, <2>2, <3>1, <3>4
    <3>6. PICK m \in Int : m = (x - o) * c
      BY <1>2
    <3>7. Eq(a * b, m * b)
      BY <3>5, <3>6, EqMul2
    <3>8. a * b \in Int /\ m * b \in Int
      OBVIOUS
    <3>9. Eq(e, m * b)
      BY <3>4, <3>7, <3>8, EqTrans
    <3>10. H(s)[x] = e /\ H(u)[x] = b /\ line[x] = m
      BY <1>5, <2>3, <3>2, <3>4, <3>6
    <3> QED
      BY <3>9, <3>10
  <2>7. Times(H(s), line, H(u))
    BY <1>5, <2>3, <2>6 DEF Times
  <2>8. Poly(n + 1, H(s))
    <3>1. 2 + n = (n + 1) + 1 /\ n + 1 \in Nat /\ 2 \in Nat
      OBVIOUS
    <3> QED
      BY <2>4, <2>5, <2>7, <3>1, PolyTimes
  <2> QED
    BY <2>1, <2>8
<1>8. S \in A
  <2> HIDE DEF A
  <2> QED
    BY <1>2, <1>6, <1>7, SetSteps
<1>9. H(S) = Wt(len, p)
  <2>1. \A x \in Nat : H(S)[x] = Wt(len, p)[x]
    BY <1>4, <1>5, WtFn DEF Fac
  <2>2. H(S) \in Fn /\ Wt(len, p) \in Fn
    BY <1>5, WtFn
  <2> QED
    BY <2>1, <2>2 DEF Fn
<1>10. Poly((len - 1) + 1, Wt(len, p)) /\ (len - 1) + 1 = len
  BY <1>2, <1>8, <1>9
<1> QED
  BY <1>10

-----------------------------------------------------------------------------
(***************************************************************************)
(* Interpolation.                                                          *)
(***************************************************************************)
\* The polynomial through the samples y.
CurveAt(len, y, x) == SumFunction([p \in 0 .. len - 1 |-> y[p] * Wt(len, p)[x]])

Curve(len, y) == [x \in Nat |-> CurveAt(len, y, x)]

LEMMA CurveTerms ==
  ASSUME NEW len \in Nat, len <= q, NEW y \in [0 .. len - 1 -> Int], NEW x \in Nat
  PROVE  [p \in 0 .. len - 1 |-> y[p] * Wt(len, p)[x]] \in [0 .. len - 1 -> Int]
<1>1. ASSUME NEW p \in 0 .. len - 1 PROVE y[p] * Wt(len, p)[x] \in Int
  <2>1. Wt(len, p) \in Fn
    BY WtFn
  <2>2. Wt(len, p)[x] \in Int
    BY <2>1 DEF Fn
  <2> QED
    BY <2>2
<1> QED
  BY <1>1

LEMMA Finite == \A n \in Int : IsFiniteSet(0 .. n)
BY FS_Interval

LEMMA CurveFn ==
  ASSUME NEW len \in Nat, len <= q, NEW y \in [0 .. len - 1 -> Int]
  PROVE  Curve(len, y) \in Fn /\ \A x \in Nat : Curve(len, y)[x] = CurveAt(len, y, x)
<1>1. ASSUME NEW x \in Nat PROVE CurveAt(len, y, x) \in Int
  <2>1. PICK f \in [0 .. len - 1 -> Int] : f = [p \in 0 .. len - 1 |-> y[p] * Wt(len, p)[x]]
    BY CurveTerms
  <2>2. IsFiniteSet(0 .. len - 1)
    BY Finite
  <2>3. SumFunction(f) \in Int
    BY <2>2, SumInt
  <2> QED
    BY <2>1, <2>3 DEF CurveAt
<1> QED
  BY <1>1 DEF Curve, Fn

LEMMA CurvePoly ==
  ASSUME NEW len \in Nat, len <= q, NEW y \in [0 .. len - 1 -> Int]
  PROVE  Poly(len, Curve(len, y))
<1>1. PICK S : S = 0 .. len - 1
  OBVIOUS
<1> DEFINE k == [p \in S |-> [x \in Nat |-> y[p] * Wt(len, p)[x]]]
<1>2. ASSUME NEW p \in S
      PROVE  k[p] \in Fn /\ (\A x \in Nat : k[p][x] = y[p] * Wt(len, p)[x]) /\ Poly(len, k[p])
  <2>1. Wt(len, p) \in Fn /\ Poly(len, Wt(len, p)) /\ y[p] \in Int
    BY <1>1, <1>2, WtFn, WtPoly
  <2>2. PICK a \in Int, g \in Fn : a = y[p] /\ g = Wt(len, p)
    BY <2>1
  <2>3. k[p] = [x \in Nat |-> a * g[x]]
    BY <2>2
  <2>4. \A x \in Nat : g[x] \in Int /\ a * g[x] \in Int
    BY DEF Fn
  <2>5. k[p] \in Fn /\ \A x \in Nat : k[p][x] = a * g[x]
    BY <2>3, <2>4 DEF Fn
  <2>6. \A x \in Nat : a * g[x] = a * g[x] + 0 * g[x]
    BY <2>4
  <2>7. \A x \in Nat : Eq(k[p][x], a * g[x] + 0 * g[x])
    BY <2>4, <2>5, <2>6, EqRefl
  <2> HIDE DEF k
  <2>8. Combined(k[p], a, g, 0, g)
    BY <2>5, <2>7 DEF Combined
  <2>9. Poly(len, k[p])
    BY <2>1, <2>2, <2>8, PolyCombined
  <2> QED
    BY <2>2, <2>5, <2>9
<1>3. k \in [S -> Fn]
  BY <1>2
<1>4. IsFiniteSet(S)
  BY <1>1, Finite
<1>5. Curve(len, y) \in Fn
  BY CurveFn
<1>6. \A x \in Nat : Curve(len, y)[x] = SumFunction([p \in S |-> k[p][x]])
  <2> SUFFICES ASSUME NEW x \in Nat
               PROVE  Curve(len, y)[x] = SumFunction([p \in S |-> k[p][x]])
    OBVIOUS
  <2>1. \A p \in S : k[p][x] = y[p] * Wt(len, p)[x]
    BY <1>2
  <2> HIDE DEF k
  <2>2. [p \in S |-> k[p][x]] = [p \in S |-> y[p] * Wt(len, p)[x]]
    BY <2>1
  <2>3. Curve(len, y)[x] = CurveAt(len, y, x)
    BY CurveFn
  <2> QED
    BY <1>1, <2>2, <2>3 DEF CurveAt
<1> HIDE DEF k
<1>7. \A p \in S : Poly(len, k[p])
  BY <1>2
<1> QED
  BY <1>3, <1>4, <1>5, <1>6, <1>7, PolySum

\* It goes through the samples.
LEMMA CurveSample ==
  ASSUME NEW len \in Nat, len <= q, NEW y \in [0 .. len - 1 -> Int], NEW x \in 0 .. len - 1
  PROVE  Eq(Curve(len, y)[x], y[x])
<1>1. PICK S : S = 0 .. len - 1
  OBVIOUS
<1>2. x \in Nat /\ x \in S /\ IsFiniteSet(S) /\ y[x] \in Int
  BY <1>1, Finite
<1>3. PICK f \in [S -> Int] : f = [p \in S |-> y[p] * Wt(len, p)[x]]
  BY <1>1, <1>2, CurveTerms
<1>4. PICK g \in [S -> Int] : g = [p \in S |-> IF p = x THEN y[x] ELSE 0]
  <2>1. [p \in S |-> IF p = x THEN y[x] ELSE 0] \in [S -> Int]
    BY <1>2
  <2> QED
    BY <2>1
<1>5. ASSUME NEW p \in S PROVE Eq(f[p], g[p])
  <2>1. PICK a \in Int, b \in Int : a = y[p] /\ b = Wt(len, p)[x]
    <3>1. y[p] \in Int /\ Wt(len, p) \in Fn
      BY <1>1, WtFn
    <3> QED
      BY <1>2, <3>1 DEF Fn
  <2>2. f[p] = a * b
    BY <1>3, <2>1
  <2>3. CASE p = x
    <3>1. Eq(b, 1) /\ a * 1 = a /\ 1 \in Int
      BY <1>1, <1>2, <2>1, <2>3, WtAt
    <3>2. Eq(a * b, a * 1)
      BY <3>1, EqMul2
    <3> QED
      BY <1>4, <2>1, <2>2, <2>3, <3>1, <3>2
  <2>4. CASE p # x
    <3>1. Eq(b, 0) /\ a * 0 = 0 /\ 0 \in Int
      BY <1>1, <1>2, <2>1, <2>4, WtAt
    <3>2. Eq(a * b, a * 0)
      BY <3>1, EqMul2
    <3> QED
      BY <1>4, <2>2, <2>4, <3>1, <3>2
  <2> QED
    BY <2>3, <2>4
<1>6. EqOn(S, f, g)
  BY <1>5 DEF EqOn
<1>7. Eq(SumFunction(f), SumFunction(g))
  BY <1>2, <1>6, SumEq
<1>8. Only(S, g, x) /\ g[x] = y[x]
  BY <1>2, <1>4 DEF Only
<1>9. SumFunction(g) = y[x]
  BY <1>2, <1>8, SumPoint
<1>10. Curve(len, y)[x] = SumFunction(f)
  BY <1>1, <1>2, <1>3, CurveFn DEF CurveAt
<1> QED
  BY <1>7, <1>9, <1>10

\* And it is the only polynomial of its size that does.
LEMMA CurveExact ==
  ASSUME NEW len \in Nat, len <= q, NEW y \in [0 .. len - 1 -> Int],
         NEW f \in Fn, Poly(len, f), \A x \in 0 .. len - 1 : Eq(y[x], f[x]), NEW v \in Nat
  PROVE  Eq(Curve(len, y)[v], f[v])
<1>1. PICK c \in Fn : c = Curve(len, y)
  BY CurveFn
<1>2. Poly(len, c)
  BY <1>1, CurvePoly
<1> DEFINE e == [x \in Nat |-> c[x] - f[x]]
<1>3. \A x \in Nat : c[x] \in Int /\ f[x] \in Int /\ c[x] - f[x] = 1 * c[x] + (-1) * f[x]
  BY DEF Fn
<1>4. e \in Fn /\ \A x \in Nat : e[x] = c[x] - f[x] /\ e[x] \in Int
  <2>1. \A x \in Nat : c[x] - f[x] \in Int
    BY <1>3
  <2>2. e \in [Nat -> Int]
    BY <2>1
  <2> QED
    BY <2>1, <2>2 DEF Fn
<1> HIDE DEF e
<1>5. \A x \in Nat : Eq(e[x], 1 * c[x] + (-1) * f[x])
  BY <1>3, <1>4, EqRefl
<1>6. Combined(e, 1, c, -1, f)
  BY <1>4, <1>5 DEF Combined
<1>7. Poly(len, e)
  BY <1>2, <1>6, PolyCombined
<1>8. ASSUME NEW x \in 0 .. len - 1 PROVE Eq(e[x], 0)
  <2>1. PICK a \in Int, b \in Int, s \in Int : a = c[x] /\ b = f[x] /\ s = y[x]
    <3>1. x \in Nat /\ y[x] \in Int
      OBVIOUS
    <3> QED
      BY <1>3, <3>1
  <2>2. Eq(a, s) /\ Eq(s, b)
    BY <1>1, <2>1, CurveSample
  <2>3. Eq(a, b)
    BY <2>2, EqTrans
  <2>4. Eq(b, b) /\ b - b = 0
    BY EqRefl
  <2>5. Eq(a - b, b - b)
    BY <2>3, <2>4, EqAdd, Zenon
  <2> QED
    BY <1>4, <2>1, <2>4, <2>5
<1>9. Null(e)
  BY <1>4, <1>7, <1>8, PolyVanishes
<1>10. PICK a \in Int, b \in Int : a = c[v] /\ b = f[v] /\ Eq(a - b, 0)
  BY <1>3, <1>4, <1>9 DEF Null
<1>11. Eq((a - b) + b, 0 + b)
  <2>1. Eq(b, b) /\ a - b \in Int /\ 0 \in Int
    BY EqRefl
  <2> QED
    BY <1>10, <2>1, EqAdd, Zenon
<1>12. (a - b) + b = a /\ 0 + b = b
  OBVIOUS
<1> QED
  BY <1>1, <1>10, <1>11, <1>12

Points == 0 .. block_enc - 1

LEMMA Lengths ==
  ASSUME NEW len \in {block, dblock}
  PROVE  len \in Nat /\ len <= q /\ len <= block_enc /\ Cardinality(0 .. len - 1) = len
<1>1. len \in Nat /\ len <= q /\ len <= block_enc /\ len >= 1
  BY Geometry
<1> QED
  BY <1>1, FS_Interval

LEMMA InterpolateIs ==
  ASSUME NEW len \in {block, dblock}, NEW y \in [0 .. len - 1 -> Int], NEW x \in Points
  PROVE  /\ Interpolate(y, x) = Curve(len, y)[x] % q
         /\ Interpolate(y, x) \in F /\ Interpolate(y, x) \in Int
         /\ Eq(Interpolate(y, x), Curve(len, y)[x])
<1>1. len \in Nat /\ len <= q /\ Cardinality(0 .. len - 1) = len /\ x \in Nat /\ x \in 0 .. block_enc - 1
  BY Lengths, Geometry DEF Points
<1>2. DOMAIN y = 0 .. len - 1
  OBVIOUS
<1>3. WeightTable[len][x] = Weights(len, x)
  BY <1>1 DEF WeightTable
<1>4. Weights(len, x) = [p \in 0 .. len - 1 |-> Prod(Factors(len, p, x))]
  BY WeightsAre
<1>5. \A p \in 0 .. len - 1 : Weights(len, x)[p] = Wt(len, p)[x]
  BY <1>1, <1>4, WtFn
<1>6. Interpolate(y, x) = Sum([p \in 0 .. len - 1 |-> y[p] * Weights(len, x)[p]])
  BY <1>1, <1>2, <1>3 DEF Interpolate
<1>7. [p \in 0 .. len - 1 |-> y[p] * Weights(len, x)[p]] = [p \in 0 .. len - 1 |-> y[p] * Wt(len, p)[x]]
  BY <1>5
<1>8. Interpolate(y, x) = CurveAt(len, y, x) % q
  BY <1>6, <1>7 DEF Sum, CurveAt
<1>9. Curve(len, y)[x] = CurveAt(len, y, x) /\ Curve(len, y)[x] \in Int
  BY <1>1, CurveFn DEF Fn
<1> QED
  BY <1>8, <1>9, EqMod

LEMMA ExtendIs ==
  ASSUME NEW len \in {block, dblock}, NEW y \in [0 .. len - 1 -> F]
  PROVE  /\ Extend(y) \in [Points -> F]
         /\ \A x \in 0 .. len - 1 : Extend(y)[x] = y[x]
         /\ \A x \in Points : Eq(Extend(y)[x], Curve(len, y)[x])
<1>1. len \in Nat /\ len <= q /\ len <= block_enc
  BY Lengths
<1>2. y \in [0 .. len - 1 -> Int] /\ block_enc \in Nat
  BY Geometry DEF F
<1>3. DOMAIN y = 0 .. len - 1
  OBVIOUS
<1>4. Extend(y) = [x \in Points |-> IF x \in 0 .. len - 1 THEN y[x] ELSE Interpolate(y, x)]
  BY <1>3 DEF Extend, Points
<1>5. \A x \in Points : /\ Interpolate(y, x) \in F
                        /\ Eq(Interpolate(y, x), Curve(len, y)[x])
  BY <1>2, InterpolateIs
<1>6. \A x \in 0 .. len - 1 : x \in Points
  BY <1>1, <1>2 DEF Points
<1>7. ASSUME NEW x \in 0 .. len - 1 PROVE Eq(y[x], Curve(len, y)[x])
  <2>1. Eq(Curve(len, y)[x], y[x]) /\ y[x] \in Int
    BY <1>1, <1>2, CurveSample
  <2>2. Curve(len, y)[x] \in Int
    BY <1>1, <1>2, CurveFn DEF Fn
  <2> QED
    BY <2>1, <2>2, EqSym
<1> QED
  BY <1>4, <1>5, <1>6, <1>7

\* Interpolation of samples of a polynomial gives its values.
LEMMA Agrees ==
  ASSUME NEW len \in {block, dblock}, NEW y \in [0 .. len - 1 -> F], NEW f \in Fn, Poly(len, f),
         \A x \in 0 .. len - 1 : Eq(y[x], f[x]), NEW x \in Points, NEW v \in F, Eq(v, f[x])
  PROVE  Interpolate(y, x) = v
<1>1. len \in Nat /\ len <= q /\ len <= block_enc /\ y \in [0 .. len - 1 -> Int] /\ x \in Nat
  BY Lengths, Geometry DEF F, Points
<1>2. PICK c \in Int, d \in Int : c = Curve(len, y)[x] /\ d = f[x]
  BY <1>1, CurveFn DEF Fn
<1>3. Eq(c, d)
  BY <1>1, <1>2, CurveExact
<1>4. PICK i \in F : i = Interpolate(y, x) /\ i \in Int /\ Eq(i, c)
  BY <1>1, <1>2, InterpolateIs
<1>5. v \in Int /\ Eq(v, d)
  BY <1>2, Geometry DEF F
<1>6. Eq(i, d) /\ Eq(d, v)
  BY <1>3, <1>4, <1>5, EqTrans, EqSym
<1>7. Eq(i, v)
  BY <1>4, <1>5, <1>6, EqTrans
<1> QED
  BY <1>4, <1>7, EqF

\* A response with one element changed differs at every point beyond the
\* samples.
OneChange(len, y, z, v) ==
  /\ y \in [0 .. len - 1 -> F] /\ z \in [0 .. len - 1 -> F] /\ v \in 0 .. len - 1
  /\ z[v] # y[v] /\ \A p \in 0 .. len - 1 : p # v => z[p] = y[p]

LEMMA ChangeShows ==
  ASSUME NEW len \in {block, dblock}, NEW y, NEW z, NEW v, OneChange(len, y, z, v),
         NEW x \in Points, x >= len
  PROVE  Interpolate(z, x) # Interpolate(y, x)
<1> SUFFICES ASSUME Interpolate(z, x) = Interpolate(y, x) PROVE FALSE
  OBVIOUS
<1>1. /\ len \in Nat /\ len <= q /\ x \in Nat /\ x < q
      /\ y \in [0 .. len - 1 -> Int] /\ z \in [0 .. len - 1 -> Int]
      /\ y[v] \in F /\ z[v] \in F /\ v \in 0 .. len - 1
  <2>1. /\ y \in [0 .. len - 1 -> F] /\ z \in [0 .. len - 1 -> F] /\ v \in 0 .. len - 1
        /\ block_enc \in Nat /\ block_enc <= q /\ q \in Nat
    BY Geometry DEF OneChange
  <2>2. F \subseteq Int
    BY <2>1 DEF F
  <2>3. len \in Nat /\ len <= q
    BY Lengths
  <2>4. x \in Nat /\ x < q
    BY <2>1 DEF Points
  <2>5. y \in [0 .. len - 1 -> Int] /\ z \in [0 .. len - 1 -> Int]
    BY <2>1, <2>2
  <2> QED
    BY <2>1, <2>3, <2>4, <2>5
<1>2. PICK S : S = 0 .. len - 1
  OBVIOUS
<1>3. IsFiniteSet(S)
  BY <1>1, <1>2, Finite
<1>4. PICK f \in [S -> Int] : f = [p \in S |-> y[p] * Wt(len, p)[x]]
  BY <1>1, <1>2, CurveTerms
<1>5. PICK g \in [S -> Int] : g = [p \in S |-> z[p] * Wt(len, p)[x]]
  BY <1>1, <1>2, CurveTerms
<1>6. PICK d \in [S -> Int] : d = [p \in S |-> g[p] - f[p]]
  <2>1. \A p \in S : g[p] - f[p] \in Int
    OBVIOUS
  <2>2. [p \in S |-> g[p] - f[p]] \in [S -> Int]
    BY <2>1
  <2> QED
    BY <2>2
<1>7. Only(S, d, v)
  <2>1. ASSUME NEW p \in S, p # v PROVE d[p] = 0
    <3>1. z[p] = y[p] /\ g[p] = f[p] /\ f[p] \in Int
      BY <1>2, <1>4, <1>5, <2>1 DEF OneChange
    <3> QED
      BY <1>6, <3>1
  <2> QED
    BY <1>1, <1>2, <2>1 DEF Only
<1>8. SumFunction(d) = d[v]
  BY <1>3, <1>7, SumPoint
<1>9. Linear(S, d, 1, g, -1, f)
  <2>1. \A p \in S : d[p] = 1 * g[p] + (-1) * f[p]
    BY <1>6
  <2> QED
    BY <2>1 DEF Linear
<1>10. SumFunction(d) = 1 * SumFunction(g) + (-1) * SumFunction(f)
  BY <1>3, <1>9, SumLinear
<1>11. PICK sf \in Int, sg \in Int : sf = SumFunction(f) /\ sg = SumFunction(g)
  BY <1>3, SumInt
<1>12. Curve(len, y)[x] = sf /\ Curve(len, z)[x] = sg
  BY <1>1, <1>2, <1>4, <1>5, <1>11, CurveFn DEF CurveAt
<1>13. sg % q = sf % q
  <2>1. Interpolate(y, x) = Curve(len, y)[x] % q
    BY <1>1, InterpolateIs
  <2>2. Interpolate(z, x) = Curve(len, z)[x] % q
    BY <1>1, InterpolateIs
  <2> QED
    BY <1>12, <2>1, <2>2
<1>14. Eq(sg, sf)
  BY <1>13, ModIff
<1>15. Eq(d[v], 0)
  <2>1. Eq(sf, sf) /\ sf - sf = 0
    BY EqRefl
  <2>2. Eq(sg - sf, sf - sf)
    BY <1>14, <2>1, EqAdd, Zenon
  <2>3. d[v] = sg - sf
    BY <1>8, <1>10, <1>11
  <2> QED
    BY <2>1, <2>2, <2>3
<1>16. PICK a \in Int, b \in Int, c \in Int : a = y[v] /\ b = z[v] /\ c = Wt(len, v)[x]
  <2>1. y[v] \in Int /\ z[v] \in Int /\ Wt(len, v) \in Fn
    BY <1>1, WtFn
  <2> QED
    BY <1>1, <2>1 DEF Fn
<1>17. d[v] = (b - a) * c
  <2>1. f[v] = a * c /\ g[v] = b * c /\ d[v] = g[v] - f[v]
    BY <1>1, <1>2, <1>4, <1>5, <1>6, <1>16
  <2>2. b * c - a * c = (b - a) * c
    OBVIOUS
  <2> QED
    BY <2>1, <2>2
<1>18. ~Eq(c, 0)
  BY <1>1, <1>16, WtAt
<1>19. Eq(b - a, 0)
  <2>1. b - a \in Int
    OBVIOUS
  <2> QED
    BY <1>15, <1>17, <1>18, <2>1, EqZero
<1>20. b - a # 0 /\ -q < b - a /\ b - a < q
  BY <1>1, <1>16, Geometry DEF OneChange, F
<1> QED
  BY <1>19, <1>20, NotZero

-----------------------------------------------------------------------------
(***************************************************************************)
(* The layout of the tableau.                                              *)
(***************************************************************************)
LEMMA CeilIs ==
  ASSUME NEW x \in Nat, NEW y \in Nat, y >= 1
  PROVE  Ceil(x, y) \in Nat /\ Ceil(x, y) * y >= x
<1>1. PICK a \in Int : a = x + y - 1 /\ a >= 0
  OBVIOUS
<1>2. a \div y \in Int /\ a % y \in 0 .. y - 1 /\ a = y * (a \div y) + (a % y)
  OBVIOUS
<1>3. PICK d \in Int, m \in 0 .. y - 1 : d = a \div y /\ a = y * d + m
  BY <1>2
<1>4. d >= 0
  <2> SUFFICES ASSUME d <= -1 PROVE FALSE
    OBVIOUS
  <2>1. y * d <= -y
    OBVIOUS
  <2> QED
    BY <1>1, <1>3, <2>1
<1>5. y * d >= x /\ d * y = y * d
  BY <1>1, <1>3
<1> QED
  BY <1>1, <1>3, <1>4, <1>5 DEF Ceil

LEMMA Layout ==
  /\ nwrow \in Nat /\ nqtriples \in Nat /\ nwqrow \in Nat /\ nrow \in Nat
  /\ nwqrow = nwrow + 3 * nqtriples /\ nwrow * w >= nw /\ nqtriples * w >= nq
  /\ ildt = 0 /\ idot = 1 /\ iquad = 2 /\ iw = 3 /\ iq = 3 + nwrow /\ nrow = 3 + nwqrow
  /\ iqx = iq /\ iqy = iq + nqtriples /\ iqz = iq + 2 * nqtriples
<1>1. nw \in Nat /\ nq \in Nat /\ w \in Nat /\ w >= 1
  BY Geometry
<1>2. nwrow \in Nat /\ nwrow * w >= nw
  BY <1>1, CeilIs DEF nwrow
<1>3. nqtriples \in Nat /\ nqtriples * w >= nq
  BY <1>1, CeilIs DEF nqtriples
<1> QED
  BY <1>2, <1>3 DEF nwqrow, nrow, ildt, idot, iquad, iw, iq, iqx, iqy, iqz

\* Numbers written in base m.
LEMMA Digits ==
  ASSUME NEW m \in Nat, m >= 1, NEW n \in Nat, NEW v \in Nat, v < n * m
  PROVE  v \div m \in 0 .. n - 1 /\ v % m \in 0 .. m - 1 /\ v = (v \div m) * m + (v % m)
<1>1. v \div m \in Int /\ v % m \in 0 .. m - 1 /\ v = m * (v \div m) + (v % m)
  OBVIOUS
<1>2. PICK d \in Int, e \in 0 .. m - 1 : d = v \div m /\ e = v % m /\ v = m * d + e
  BY <1>1
<1>3. d >= 0
  <2> SUFFICES ASSUME d <= -1 PROVE FALSE
    OBVIOUS
  <2>1. m * d <= -m
    OBVIOUS
  <2> QED
    BY <1>2, <2>1
<1>4. d <= n - 1
  <2> SUFFICES ASSUME d >= n PROVE FALSE
    OBVIOUS
  <2>1. m * d >= n * m
    OBVIOUS
  <2> QED
    BY <1>2, <2>1
<1>5. m * d = d * m
  OBVIOUS
<1> QED
  BY <1>2, <1>3, <1>4, <1>5

LEMMA DigitsUnique ==
  ASSUME NEW m \in Nat, m >= 1, NEW i \in Int, NEW j \in Int, NEW s \in Int, NEW t \in Int,
         s - t < m, t - s < m, i * m + s = j * m + t
  PROVE  i = j /\ s = t
<1>1. (i - j) * m = t - s
  OBVIOUS
<1>2. ~(i - j >= 1)
  <2> SUFFICES ASSUME i - j >= 1 PROVE FALSE
    OBVIOUS
  <2>1. (i - j) * m >= m
    OBVIOUS
  <2> QED
    BY <1>1, <2>1
<1>3. ~(i - j <= -1)
  <2> SUFFICES ASSUME i - j <= -1 PROVE FALSE
    OBVIOUS
  <2>1. (i - j) * m <= -m
    OBVIOUS
  <2> QED
    BY <1>1, <2>1
<1>4. i = j
  BY <1>2, <1>3
<1> QED
  BY <1>4

\* i * m + s < n * m for i < n and s < m.
LEMMA DigitsBound ==
  ASSUME NEW m \in Nat, NEW n \in Nat, NEW i \in Nat, i < n, NEW s \in Nat, s < m
  PROVE  i * m + s \in Nat /\ i * m + s < n * m
<1>1. i + 1 <= n
  OBVIOUS
<1>2. (i + 1) * m <= n * m
  BY <1>1
<1>3. (i + 1) * m = i * m + m /\ i * m \in Nat
  OBVIOUS
<1>4. PICK a \in Nat, b \in Int : a = i * m /\ b = n * m /\ a + m <= b
  BY <1>2, <1>3
<1> QED
  BY <1>4

\* The samples of the rows, for a witness and the prover's coins.
Inputs(wit, coins) == wit \in [0 .. nw - 1 -> F] /\ coins \in [0 .. NCoins - 1 -> F]

DrawOf(coins, from, len) == [p \in 0 .. len - 1 |-> coins[from + p]]

WitnessSamples(wit, coins, i) ==
  [x \in 0 .. block - 1 |->
     IF x < r THEN coins[block + 2 * dblock + i * r + x]
     ELSE IF i * w + x - r < nw THEN wit[i * w + x - r]
     ELSE 0]

OperandOf(wit, e, part) == wit[<<lqc[e].x, lqc[e].y, lqc[e].z>>[part + 1]]

QuadraticSamples(wit, coins, i, part) ==
  [x \in 0 .. block - 1 |->
     IF x < r THEN coins[block + 2 * dblock + nwrow * r + (3 * i + part) * r + x]
     ELSE IF i * w + x - r < nq THEN OperandOf(wit, i * w + x - r, part)
     ELSE 0]

BlindingSamples(coins, i) ==
  IF i = ildt THEN DrawOf(coins, 0, block)
  ELSE IF i = idot THEN DotMask(DrawOf(coins, block, dblock))
  ELSE QuadMask(DrawOf(coins, block + dblock, dblock))

SamplesOf(wit, coins, i) ==
  IF i < iw THEN BlindingSamples(coins, i)
  ELSE IF i < iq THEN WitnessSamples(wit, coins, i - iw)
  ELSE QuadraticSamples(wit, coins, (i - iq) % nqtriples, (i - iq) \div nqtriples)

SampleLen(i) == IF i \in {idot, iquad} THEN dblock ELSE block

LEMMA SlotsAre ==
  /\ Slots = r .. block - 1 /\ IsFiniteSet(Slots) /\ r \in Slots
  /\ \A s \in Slots : s \in Nat /\ s \in 0 .. block - 1 /\ s \in 0 .. dblock - 1 /\ s \in Points
                      /\ s >= r /\ s - r \in 0 .. w - 1
<1>1. /\ r \in Nat /\ w \in Nat /\ w >= 1 /\ block \in Nat /\ block = r + w
      /\ dblock \in Nat /\ dblock = 2 * block - 1 /\ block >= 2 /\ block_enc \in Nat /\ block_enc >= dblock
  BY Geometry
<1>2. Slots = r .. block - 1 /\ IsFiniteSet(Slots)
  BY <1>1, FS_Interval DEF Slots
<1> QED
  BY <1>1, <1>2 DEF Points

LEMMA FInt == F \subseteq Int /\ F \subseteq Nat /\ 0 \in F /\ 1 \in F
BY Geometry DEF F

LEMMA CoinsAre ==
  ASSUME NEW n \in Nat, n < NCoins, NEW coins \in [0 .. NCoins - 1 -> F]
  PROVE  coins[n] \in F
<1>1. NCoins \in Int
  BY Geometry, Layout DEF NCoins
<1>2. n \in 0 .. NCoins - 1
  BY <1>1
<1> QED
  BY <1>2

LEMMA NCoinsIs ==
  /\ NCoins \in Nat /\ nwqrow * r \in Nat /\ nwrow * r \in Nat
  /\ NCoins = (block + 2 * dblock) + nwqrow * r
  /\ nwqrow * r = nwrow * r + 3 * nqtriples * r
<1>1. /\ block \in Nat /\ dblock \in Nat /\ r \in Nat /\ nwqrow \in Nat /\ nwrow \in Nat
      /\ nqtriples \in Nat /\ nwqrow = nwrow + 3 * nqtriples
  BY Geometry, Layout
<1>2. nwqrow * r \in Nat /\ nwrow * r \in Nat
  BY <1>1
<1>3. nwqrow * r = nwrow * r + 3 * nqtriples * r
  BY <1>1
<1> QED
  BY <1>1, <1>2, <1>3 DEF NCoins

LEMMA DrawIn ==
  ASSUME NEW coins \in [0 .. NCoins - 1 -> F], NEW from \in Nat, NEW len \in Nat,
         from + len <= block + 2 * dblock
  PROVE  DrawOf(coins, from, len) \in [0 .. len - 1 -> F]
<1>1. ASSUME NEW p \in 0 .. len - 1 PROVE coins[from + p] \in F
  <2>1. from + p \in Nat /\ from + p < NCoins
    BY NCoinsIs, Geometry
  <2> QED
    BY <2>1, CoinsAre
<1> QED
  BY <1>1 DEF DrawOf

LEMMA DotMaskIs ==
  ASSUME NEW d \in [0 .. dblock - 1 -> F]
  PROVE  /\ DotMask(d) \in [0 .. dblock - 1 -> F]
         /\ [s \in Slots |-> DotMask(d)[s]] \in [Slots -> Int]
         /\ Eq(SumFunction([s \in Slots |-> DotMask(d)[s]]), 0)
<1>1. IsFiniteSet(Slots) /\ r \in Slots /\ \A s \in Slots : s \in 0 .. dblock - 1
  BY SlotsAre
<1>2. PICK f \in [Slots -> Int] : f = [s \in Slots |-> d[s]]
  <2>1. [s \in Slots |-> d[s]] \in [Slots -> Int]
    BY <1>1, FInt
  <2> QED
    BY <2>1
<1>3. PICK t \in Int : t = SumFunction(f)
  BY <1>1, SumInt
<1>4. PICK a \in Int : a = d[r] /\ f[r] = a
  BY <1>1, <1>2
<1>5. PICK b \in F : b = (a - (t % q)) % q
  <2>1. t % q \in Int
    BY EqMod
  <2>2. a - (t % q) \in Int
    BY <2>1
  <2> QED
    BY <2>2, EqMod
<1>6. Eq(b, a - t)
  <2>1. PICK e \in Int : e = t % q /\ Eq(e, t)
    BY EqMod
  <2>2. Eq(a, a) /\ a - e \in Int /\ a - t \in Int
    BY EqRefl
  <2>3. Eq(a - e, a - t)
    BY <2>1, <2>2, EqAdd, Zenon
  <2>4. b = (a - e) % q /\ b \in Int
    BY <1>5, <2>1, FInt
  <2>5. Eq(b, a - e)
    BY <2>2, <2>4, EqMod
  <2> QED
    BY <2>2, <2>3, <2>4, <2>5, EqTrans
<1>7. DotMask(d) = [x \in 0 .. dblock - 1 |-> IF x = r THEN b ELSE d[x]]
  <2>1. Sum([s \in Slots |-> d[s]]) = t % q
    BY <1>2, <1>3 DEF Sum
  <2>2. DotMask(d) = [d EXCEPT ![r] = (@ - (t % q)) % q]
    BY <2>1 DEF DotMask
  <2>3. (d[r] - (t % q)) % q = b
    BY <1>4, <1>5
  <2>4. DOMAIN d = 0 .. dblock - 1
    OBVIOUS
  <2> QED
    BY <2>2, <2>3, <2>4
<1>8. DotMask(d) \in [0 .. dblock - 1 -> F]
  BY <1>7
<1>9. PICK g : g = [s \in Slots |-> DotMask(d)[s]]
  OBVIOUS
<1>10. \A s \in Slots : g[s] = IF s = r THEN b ELSE f[s]
  BY <1>1, <1>2, <1>7, <1>9
<1>11. g \in [Slots -> Int]
  <2>1. \A s \in Slots : (IF s = r THEN b ELSE f[s]) \in Int
    BY FInt
  <2> QED
    BY <1>9, <1>10, <2>1
<1>12. PICK e \in [Slots -> Int] : e = [s \in Slots |-> IF s = r THEN t ELSE 0]
  <2>1. [s \in Slots |-> IF s = r THEN t ELSE 0] \in [Slots -> Int]
    OBVIOUS
  <2> QED
    BY <2>1
<1>13. SumFunction(e) = t
  <2>1. Only(Slots, e, r) /\ e[r] = t
    BY <1>1, <1>12 DEF Only
  <2> QED
    BY <1>1, <2>1, SumPoint
<1>14. PICK h \in [Slots -> Int] : h = [s \in Slots |-> 1 * f[s] + (-1) * e[s]]
  <2>1. \A s \in Slots : 1 * f[s] + (-1) * e[s] \in Int
    OBVIOUS
  <2>2. [s \in Slots |-> 1 * f[s] + (-1) * e[s]] \in [Slots -> Int]
    BY <2>1
  <2> QED
    BY <2>2
<1>15. SumFunction(h) = 0
  <2>1. Linear(Slots, h, 1, f, -1, e)
    BY <1>14 DEF Linear
  <2>2. SumFunction(h) = 1 * SumFunction(f) + (-1) * SumFunction(e)
    BY <1>1, <2>1, SumLinear
  <2> QED
    BY <1>3, <1>13, <2>2
<1>16. EqOn(Slots, g, h)
  <2>1. ASSUME NEW s \in Slots PROVE Eq(g[s], h[s])
    <3>1. f[s] \in Int /\ g[s] \in Int
      BY <1>11
    <3>2. CASE s = r
      <4>1. g[s] = b /\ h[s] = a - t
        BY <1>4, <1>10, <1>12, <1>14, <3>2
      <4> QED
        BY <1>6, <4>1
    <3>3. CASE s # r
      <4>1. g[s] = f[s] /\ h[s] = f[s]
        BY <1>10, <1>12, <1>14, <3>1, <3>3
      <4> QED
        BY <3>1, <4>1, EqRefl
    <3> QED
      BY <3>2, <3>3
  <2> QED
    BY <1>11, <2>1 DEF EqOn
<1>17. Eq(SumFunction(g), 0)
  BY <1>1, <1>15, <1>16, SumEq
<1> QED
  BY <1>8, <1>9, <1>11, <1>17

LEMMA QuadMaskIs ==
  ASSUME NEW d \in [0 .. dblock - 1 -> F]
  PROVE  QuadMask(d) \in [0 .. dblock - 1 -> F] /\ \A s \in Slots : QuadMask(d)[s] = 0
<1>1. QuadMask(d) = [x \in 0 .. dblock - 1 |-> IF x \in Slots THEN 0 ELSE d[x]]
  BY DEF QuadMask
<1> QED
  BY <1>1, FInt, SlotsAre

LEMMA WitnessSamplesIn ==
  ASSUME NEW wit, NEW coins, Inputs(wit, coins), NEW i \in 0 .. nwrow - 1
  PROVE  WitnessSamples(wit, coins, i) \in [0 .. block - 1 -> F]
<1>0. /\ wit \in [0 .. nw - 1 -> F] /\ coins \in [0 .. NCoins - 1 -> F] /\ i \in Nat /\ i < nwrow
      /\ nwrow \in Nat /\ nqtriples \in Nat
      /\ r \in Nat /\ w \in Nat /\ nw \in Nat /\ block \in Nat /\ dblock \in Nat /\ 0 \in F
  BY Geometry, Layout, FInt DEF Inputs
<1>1. ASSUME NEW x \in 0 .. block - 1, x < r PROVE coins[block + 2 * dblock + i * r + x] \in F
  <2>1. i * r + x \in Nat /\ i * r + x < nwrow * r
    BY <1>0, <1>1, DigitsBound
  <2>2. i * r \in Nat /\ 3 * nqtriples * r \in Nat
    BY <1>0
  <2>3. block + 2 * dblock + i * r + x \in Nat /\ block + 2 * dblock + i * r + x < NCoins
    <3>1. PICK a \in Nat, b \in Nat, c \in Nat :
            a = i * r /\ b = nwrow * r /\ c = 3 * nqtriples * r /\ a + x < b
      BY <1>0, <2>1, <2>2, NCoinsIs
    <3>2. NCoins = block + 2 * dblock + (b + c)
      BY <1>0, <3>1, NCoinsIs
    <3>3. block + 2 * dblock + a + x \in Nat /\ block + 2 * dblock + a + x < NCoins
      BY <1>0, <3>1, <3>2
    <3> QED
      BY <3>1, <3>3
  <2> QED
    BY <1>0, <2>3, CoinsAre
<1>2. ASSUME NEW x \in 0 .. block - 1, ~(x < r), i * w + x - r < nw PROVE wit[i * w + x - r] \in F
  <2>1. i * w \in Nat
    BY <1>0
  <2>2. i * w + x - r \in 0 .. nw - 1
    BY <1>0, <1>2, <2>1
  <2> QED
    BY <1>0, <2>2
<1> QED
  BY <1>0, <1>1, <1>2 DEF WitnessSamples

LEMMA OperandIn ==
  ASSUME NEW wit \in [0 .. nw - 1 -> F], NEW e \in 0 .. nq - 1, NEW part \in 0 .. 2
  PROVE  /\ <<lqc[e].x, lqc[e].y, lqc[e].z>>[part + 1] \in 0 .. nw - 1
         /\ OperandOf(wit, e, part) \in F
<1>1. {lqc[e].x, lqc[e].y, lqc[e].z} \subseteq 0 .. nw - 1
  BY LigeroAssumption DEF StatementInBounds
<1>2. <<lqc[e].x, lqc[e].y, lqc[e].z>>[part + 1] \in {lqc[e].x, lqc[e].y, lqc[e].z}
  <2>1. part = 0 \/ part = 1 \/ part = 2
    OBVIOUS
  <2> QED
    BY <2>1
<1>3. <<lqc[e].x, lqc[e].y, lqc[e].z>>[part + 1] \in 0 .. nw - 1
  BY <1>1, <1>2
<1> QED
  BY <1>3 DEF OperandOf

LEMMA QuadraticSamplesIn ==
  ASSUME NEW wit, NEW coins, Inputs(wit, coins), NEW i \in 0 .. nqtriples - 1, NEW part \in 0 .. 2
  PROVE  QuadraticSamples(wit, coins, i, part) \in [0 .. block - 1 -> F]
<1>0. /\ wit \in [0 .. nw - 1 -> F] /\ coins \in [0 .. NCoins - 1 -> F] /\ i \in Nat /\ i < nqtriples
      /\ nwrow \in Nat /\ nqtriples \in Nat /\ part \in Nat /\ part < 3
      /\ r \in Nat /\ w \in Nat /\ nq \in Nat /\ block \in Nat /\ dblock \in Nat /\ 0 \in F
  BY Geometry, Layout, FInt DEF Inputs
<1>1. ASSUME NEW x \in 0 .. block - 1, x < r
      PROVE  coins[block + 2 * dblock + nwrow * r + (3 * i + part) * r + x] \in F
  <2>1. PICK j \in Nat : j = 3 * i + part /\ j < 3 * nqtriples
    BY <1>0
  <2>2. j * r + x \in Nat /\ j * r + x < (3 * nqtriples) * r
    BY <1>0, <1>1, <2>1, DigitsBound
  <2>3. j * r \in Nat /\ nwrow * r \in Nat
    BY <1>0
  <2>4. /\ block + 2 * dblock + nwrow * r + j * r + x \in Nat
        /\ block + 2 * dblock + nwrow * r + j * r + x < NCoins
    BY <1>0, <2>2, <2>3, NCoinsIs
  <2>5. coins[block + 2 * dblock + nwrow * r + j * r + x] \in F
    BY <1>0, <2>4, CoinsAre
  <2> QED
    BY <2>1, <2>5
<1>2. ASSUME NEW x \in 0 .. block - 1, ~(x < r), i * w + x - r < nq
      PROVE  OperandOf(wit, i * w + x - r, part) \in F
  <2>1. i * w \in Nat
    BY <1>0
  <2>2. i * w + x - r \in 0 .. nq - 1
    BY <1>0, <1>2, <2>1
  <2> QED
    BY <1>0, <2>2, OperandIn
<1> QED
  BY <1>0, <1>1, <1>2 DEF QuadraticSamples

LEMMA SamplesIn ==
  ASSUME NEW wit, NEW coins, Inputs(wit, coins), NEW i \in 0 .. nrow - 1
  PROVE  SamplesOf(wit, coins, i) \in [0 .. SampleLen(i) - 1 -> F]
<1>0. /\ coins \in [0 .. NCoins - 1 -> F] /\ nwrow \in Nat /\ nqtriples \in Nat
      /\ iw = 3 /\ iq = 3 + nwrow /\ nrow = 3 + nwrow + 3 * nqtriples
      /\ ildt = 0 /\ idot = 1 /\ iquad = 2 /\ block \in Nat /\ dblock \in Nat
  BY Layout, Geometry DEF Inputs
<1>1. CASE i < iw
  <2>1. DrawOf(coins, 0, block) \in [0 .. block - 1 -> F]
    BY <1>0, DrawIn
  <2>2. /\ DrawOf(coins, block, dblock) \in [0 .. dblock - 1 -> F]
        /\ DrawOf(coins, block + dblock, dblock) \in [0 .. dblock - 1 -> F]
    BY <1>0, DrawIn
  <2>3. /\ DotMask(DrawOf(coins, block, dblock)) \in [0 .. dblock - 1 -> F]
        /\ QuadMask(DrawOf(coins, block + dblock, dblock)) \in [0 .. dblock - 1 -> F]
    BY <2>2, DotMaskIs, QuadMaskIs
  <2>4. i = 0 \/ i = 1 \/ i = 2
    BY <1>0, <1>1
  <2>5. SamplesOf(wit, coins, i) = BlindingSamples(coins, i)
    BY <1>1 DEF SamplesOf
  <2> QED
    BY <1>0, <2>1, <2>3, <2>4, <2>5 DEF BlindingSamples, SampleLen
<1>2. CASE ~(i < iw) /\ i < iq
  <2>1. i - iw \in 0 .. nwrow - 1
    BY <1>0, <1>2
  <2>2. SamplesOf(wit, coins, i) = WitnessSamples(wit, coins, i - iw)
    BY <1>2 DEF SamplesOf
  <2>3. SampleLen(i) = block
    BY <1>0, <1>2 DEF SampleLen
  <2> QED
    BY <2>1, <2>2, <2>3, WitnessSamplesIn
<1>3. CASE ~(i < iw) /\ ~(i < iq)
  <2>1. PICK v \in Nat : v = i - iq /\ v < 3 * nqtriples /\ nqtriples >= 1
    <3>1. i - iq \in Nat /\ i - iq < 3 * nqtriples /\ nqtriples >= 1
      BY <1>0, <1>3
    <3> QED
      BY <3>1
  <2>2. v \div nqtriples \in 0 .. 2 /\ v % nqtriples \in 0 .. nqtriples - 1
    <3>1. v \div nqtriples \in 0 .. 3 - 1 /\ v % nqtriples \in 0 .. nqtriples - 1
      <4>1. 3 \in Nat
        OBVIOUS
      <4> QED
        BY <1>0, <2>1, <4>1, Digits
    <3> QED
      BY <3>1
  <2>3. SamplesOf(wit, coins, i) = QuadraticSamples(wit, coins, v % nqtriples, v \div nqtriples)
    BY <1>3, <2>1 DEF SamplesOf
  <2>4. SampleLen(i) = block
    BY <1>0, <1>3 DEF SampleLen
  <2> QED
    BY <2>2, <2>3, <2>4, QuadraticSamplesIn
<1> QED
  BY <1>1, <1>2, <1>3

-----------------------------------------------------------------------------
(***************************************************************************)
(* Rows that follow a polynomial, and what is combined from them.          *)
(***************************************************************************)
\* The row t has the values of the polynomial f with n coefficients.
Follows(t, n, f) ==
  t \in [Points -> F] /\ f \in Fn /\ Poly(n, f) /\ \A x \in Points : Eq(t[x], f[x])

LEMMA ExtendFollows ==
  ASSUME NEW len \in {block, dblock}, NEW y \in [0 .. len - 1 -> F]
  PROVE  Follows(Extend(y), len, Curve(len, y))
<1>1. len \in Nat /\ len <= q /\ y \in [0 .. len - 1 -> Int]
  BY Lengths, FInt
<1>2. Curve(len, y) \in Fn /\ Poly(len, Curve(len, y))
  BY <1>1, CurveFn, CurvePoly
<1>3. Extend(y) \in [Points -> F] /\ \A x \in Points : Eq(Extend(y)[x], Curve(len, y)[x])
  BY ExtendIs
<1> QED
  BY <1>2, <1>3 DEF Follows

LEMMA FollowsMore ==
  ASSUME NEW t, NEW f, Follows(t, block, f)
  PROVE  Follows(t, dblock, f)
<1>1. block \in Nat /\ dblock \in Nat /\ block <= dblock
  BY Geometry
<1>2. f \in Fn /\ Poly(block, f)
  BY DEF Follows
<1>3. Poly(dblock, f)
  BY <1>1, <1>2, PolyMore
<1> QED
  BY <1>3 DEF Follows

PointsNat == \A x \in Points : x \in Nat

LEMMA PointsAre == PointsNat
BY Geometry DEF PointsNat, Points

\* The response to a combination is in agreement with the rows.
LEMMA FollowsAgrees ==
  ASSUME NEW len \in {block, dblock}, NEW t, NEW f, Follows(t, len, f), NEW x \in Points
  PROVE  Interpolate([p \in 0 .. len - 1 |-> t[p]], x) = t[x]
<1>1. len \in Nat /\ len <= block_enc /\ block_enc \in Nat
  BY Lengths, Geometry
<1>2. t \in [Points -> F] /\ f \in Fn /\ Poly(len, f) /\ \A p \in Points : Eq(t[p], f[p])
  BY DEF Follows
<1>3. \A p \in 0 .. len - 1 : p \in Points
  BY <1>1 DEF Points
<1>4. PICK y \in [0 .. len - 1 -> F] : y = [p \in 0 .. len - 1 |-> t[p]]
  <2>1. [p \in 0 .. len - 1 |-> t[p]] \in [0 .. len - 1 -> F]
    BY <1>2, <1>3
  <2> QED
    BY <2>1
<1>5. \A p \in 0 .. len - 1 : Eq(y[p], f[p])
  BY <1>2, <1>3, <1>4
<1>6. t[x] \in F /\ Eq(t[x], f[x])
  BY <1>2
<1>7. Interpolate(y, x) = t[x]
  BY <1>2, <1>5, <1>6, Agrees
<1> QED
  BY <1>4, <1>7

\* t is the polynomial b plus the polynomials k.
Mixed(t, n, b, I, k) ==
  /\ n \in Nat /\ t \in [Points -> F] /\ b \in Fn /\ Poly(n, b)
  /\ k \in [I -> Fn] /\ \A i \in I : Poly(n, k[i])
  /\ \A x \in Points : Eq(t[x], b[x] + SumFunction([i \in I |-> k[i][x]]))

LEMMA MixedFollows ==
  ASSUME NEW t, NEW n, NEW b, NEW I, IsFiniteSet(I), NEW k, Mixed(t, n, b, I, k)
  PROVE  \E f : Follows(t, n, f)
<1>1. /\ n \in Nat /\ t \in [Points -> F] /\ b \in Fn /\ Poly(n, b)
      /\ k \in [I -> Fn] /\ \A i \in I : Poly(n, k[i])
      /\ \A x \in Points : Eq(t[x], b[x] + SumFunction([i \in I |-> k[i][x]]))
  BY DEF Mixed
<1> DEFINE e == [x \in Nat |-> SumFunction([i \in I |-> k[i][x]])]
<1>2. \A x \in Nat : SumFunction([i \in I |-> k[i][x]]) \in Int
  <2> SUFFICES ASSUME NEW x \in Nat PROVE SumFunction([i \in I |-> k[i][x]]) \in Int
    OBVIOUS
  <2>1. PICK g : g = [i \in I |-> k[i][x]]
    OBVIOUS
  <2>2. g \in [I -> Int]
    BY <1>1, <2>1 DEF Fn
  <2>3. SumFunction(g) \in Int
    BY <2>2, SumInt
  <2> QED
    BY <2>1, <2>3
<1>3. e \in Fn /\ \A x \in Nat : e[x] = SumFunction([i \in I |-> k[i][x]])
  BY <1>2 DEF Fn
<1> HIDE DEF e
<1>4. Poly(n, e)
  BY <1>1, <1>3, PolySum
<1> DEFINE f == [x \in Nat |-> b[x] + e[x]]
<1>5. \A x \in Nat : b[x] \in Int /\ e[x] \in Int
  BY <1>1, <1>3 DEF Fn
<1>6. f \in Fn /\ \A x \in Nat : f[x] = b[x] + e[x]
  <2>1. \A x \in Nat : b[x] + e[x] \in Int
    BY <1>5
  <2> QED
    BY <2>1 DEF Fn
<1> HIDE DEF f
<1>7. \A x \in Nat : Eq(f[x], 1 * b[x] + 1 * e[x])
  <2>1. \A x \in Nat : f[x] = 1 * b[x] + 1 * e[x] /\ f[x] \in Int
    BY <1>5, <1>6
  <2> QED
    BY <2>1, EqRefl
<1>8. Combined(f, 1, b, 1, e)
  BY <1>1, <1>3, <1>6, <1>7 DEF Combined
<1>9. Poly(n, f)
  BY <1>1, <1>4, <1>8, PolyCombined
<1>10. \A x \in Points : Eq(t[x], f[x])
  BY <1>1, <1>3, <1>6, PointsAre DEF PointsNat
<1>11. Follows(t, n, f)
  BY <1>1, <1>6, <1>9, <1>10 DEF Follows
<1> QED
  BY <1>11

LEMMA MixAt ==
  ASSUME NEW I, IsFiniteSet(I), NEW g, NEW h, EqOn(I, g, h),
         NEW v \in Int, NEW b \in Int, Eq(v, b)
  PROVE  /\ (v + Sum(g)) % q \in F
         /\ Eq((v + Sum(g)) % q, b + SumFunction(h))
<1>1. PICK sg \in Int, sh \in Int : sg = SumFunction(g) /\ sh = SumFunction(h)
  BY SumInt DEF EqOn
<1>2. Eq(sg, sh)
  BY <1>1, SumEq
<1>3. PICK m \in Int : m = sg % q /\ Eq(m, sg)
  BY EqMod
<1>4. Sum(g) = m
  BY <1>1, <1>3 DEF Sum
<1>5. Eq(m, sh)
  BY <1>2, <1>3, EqTrans
<1>6. Eq(v + m, b + sh)
  BY <1>5, EqAdd, Zenon
<1>7. v + m \in Int /\ b + sh \in Int
  OBVIOUS
<1>8. (v + m) % q \in F /\ (v + m) % q \in Int /\ Eq((v + m) % q, v + m)
  BY <1>7, EqMod
<1>9. Eq((v + m) % q, b + sh)
  BY <1>6, <1>7, <1>8, EqTrans
<1> QED
  BY <1>1, <1>4, <1>8, <1>9

\* A polynomial times a number.
Scaled(a, f) == [x \in Nat |-> a * f[x]]

LEMMA ScaledIs ==
  ASSUME NEW a \in Int, NEW n \in Nat, NEW f \in Fn, Poly(n, f)
  PROVE  /\ Scaled(a, f) \in Fn /\ Poly(n, Scaled(a, f))
         /\ \A x \in Nat : Scaled(a, f)[x] = a * f[x]
<1>1. \A x \in Nat : f[x] \in Int /\ a * f[x] \in Int /\ a * f[x] = a * f[x] + 0 * f[x]
  BY DEF Fn
<1>2. Scaled(a, f) \in Fn /\ \A x \in Nat : Scaled(a, f)[x] = a * f[x]
  BY <1>1 DEF Fn, Scaled
<1>3. \A x \in Nat : Eq(Scaled(a, f)[x], a * f[x] + 0 * f[x])
  BY <1>1, <1>2, EqRefl
<1>4. Combined(Scaled(a, f), a, f, 0, f)
  BY <1>2, <1>3 DEF Combined
<1> QED
  BY <1>2, <1>4, PolyCombined

\* The product of two polynomials with block coefficients.
Product(f, g) == [x \in Nat |-> f[x] * g[x]]

LEMMA ProductIs ==
  ASSUME NEW f \in Fn, NEW g \in Fn, Poly(block, f), Poly(block, g)
  PROVE  /\ Product(f, g) \in Fn /\ Poly(dblock, Product(f, g))
         /\ \A x \in Nat : Product(f, g)[x] = f[x] * g[x]
<1>1. \A x \in Nat : f[x] \in Int /\ g[x] \in Int
  BY DEF Fn
<1>2. \A x \in Nat : f[x] * g[x] \in Int
  BY <1>1
<1>3. Product(f, g) \in Fn /\ \A x \in Nat : Product(f, g)[x] = f[x] * g[x]
  BY <1>2 DEF Fn, Product
<1>4. \A x \in Nat : Eq(Product(f, g)[x], f[x] * g[x])
  BY <1>2, <1>3, EqRefl
<1>5. Times(Product(f, g), f, g)
  BY <1>3, <1>4 DEF Times
<1>6. block \in Nat /\ dblock \in Nat /\ block + block = dblock + 1
  BY Geometry
<1>7. Poly(dblock, Product(f, g))
  BY <1>5, <1>6, PolyTimes
<1> QED
  BY <1>3, <1>7

\* A tableau all of whose rows follow polynomials.
Encoded(tab, P) ==
  \A i \in 0 .. nrow - 1 : Follows(tab[i], SampleLen(i), P[i])

Laid(wit, coins) == [i \in 0 .. nrow - 1 |-> Extend(SamplesOf(wit, coins, i))]

LEMMA LaidEncoded ==
  ASSUME NEW wit, NEW coins, Inputs(wit, coins)
  PROVE  \E P : Encoded(Laid(wit, coins), P)
<1> DEFINE P == [i \in 0 .. nrow - 1 |-> Curve(SampleLen(i), SamplesOf(wit, coins, i))]
<1>1. ASSUME NEW i \in 0 .. nrow - 1
      PROVE  Follows(Laid(wit, coins)[i], SampleLen(i), P[i])
  <2>1. SampleLen(i) \in {block, dblock}
    BY DEF SampleLen
  <2>2. SamplesOf(wit, coins, i) \in [0 .. SampleLen(i) - 1 -> F]
    BY SamplesIn
  <2>3. Follows(Extend(SamplesOf(wit, coins, i)), SampleLen(i), Curve(SampleLen(i), SamplesOf(wit, coins, i)))
    BY <2>1, <2>2, ExtendFollows
  <2> QED
    BY <2>3 DEF Laid
<1>2. Encoded(Laid(wit, coins), P)
  BY <1>1 DEF Encoded
<1> QED
  BY <1>2

\* The operators of the model, as functions of the tableau and the challenges.
Challenges(ask) == ask \in [0 .. NChallenges - 1 -> F]

Col(tab, x) == [i \in 0 .. nrow - 1 |-> tab[i][x]]

LdtOf(ask, val) == (val[ildt] + Sum([i \in 0 .. nwqrow - 1 |-> ask[i] * val[iw + i]])) % q

UQuad(ask, i) == ask[nwqrow + nl + 3 * nq + i]

QuadOf(ask, val) ==
  (val[iquad] + Sum([i \in 0 .. nqtriples - 1 |->
                       UQuad(ask, i) * (val[iqz + i] - val[iqx + i] * val[iqy + i])])) % q

AlphaL(ask, c) == ask[nwqrow + c]

AlphaQ(ask, e, part) == ask[nwqrow + nl + 3 * e + part]

OperandAt(e, part) == <<lqc[e].x, lqc[e].y, lqc[e].z>>[part + 1]

LinearTerms(ask, v) ==
  [t \in 1 .. Len(llterm) |-> If1(llterm[t].w = v) * llterm[t].k * AlphaL(ask, llterm[t].c)]

CopyTerms(ask, v, e) ==
  [part \in 0 .. 2 |-> AlphaQ(ask, e, part) * (If1(v = CopyOffset(part) + e) - If1(v = OperandAt(e, part)))]

IpvOf(ask, v) ==
  (Sum(LinearTerms(ask, v)) + Sum([e \in 0 .. nq - 1 |-> Sum(CopyTerms(ask, v, e))])) % q

CoefSamples(ask, i) ==
  [x \in 0 .. block - 1 |-> IF x \in Slots THEN IpvOf(ask, i * w + x - r) ELSE 0]

CoefsOf(ask) == [i \in 0 .. nwqrow - 1 |-> Extend(CoefSamples(ask, i))]

CoefAt(ask, x) == [i \in 0 .. nwqrow - 1 |-> CoefsOf(ask)[i][x]]

LEMMA ChallengesIn ==
  ASSUME NEW ask, Challenges(ask)
  PROVE  /\ \A i \in 0 .. nwqrow - 1 : ask[i] \in F
         /\ \A c \in 0 .. nl - 1 : AlphaL(ask, c) \in F
         /\ \A e \in 0 .. nq - 1, part \in 0 .. 2 : AlphaQ(ask, e, part) \in F
         /\ \A i \in 0 .. nqtriples - 1 : UQuad(ask, i) \in F
<1>1. /\ nwqrow \in Nat /\ nl \in Nat /\ nq \in Nat /\ nqtriples \in Nat
      /\ NChallenges = nwqrow + nl + 3 * nq + nqtriples
  BY Geometry, Layout DEF NChallenges
<1>2. \A n \in 0 .. NChallenges - 1 : ask[n] \in F
  BY DEF Challenges
<1>3. \A i \in 0 .. nwqrow - 1 : i \in 0 .. NChallenges - 1
  BY <1>1
<1>4. \A c \in 0 .. nl - 1 : nwqrow + c \in 0 .. NChallenges - 1
  BY <1>1
<1>5. \A e \in 0 .. nq - 1, part \in 0 .. 2 : nwqrow + nl + 3 * e + part \in 0 .. NChallenges - 1
  BY <1>1
<1>6. \A i \in 0 .. nqtriples - 1 : nwqrow + nl + 3 * nq + i \in 0 .. NChallenges - 1
  BY <1>1
<1> QED
  BY <1>2, <1>3, <1>4, <1>5, <1>6 DEF AlphaL, AlphaQ, UQuad

LEMMA SumIn ==
  ASSUME NEW S, IsFiniteSet(S), NEW f \in [S -> Int]
  PROVE  Sum(f) \in F /\ Sum(f) \in Int /\ Eq(Sum(f), SumFunction(f))
<1>1. SumFunction(f) \in Int
  BY SumInt
<1> QED
  BY <1>1, EqMod DEF Sum

LEMMA Finite1 == IsFiniteSet(1 .. Len(llterm)) /\ Len(llterm) \in Nat
<1>1. Len(llterm) \in Nat
  BY LigeroAssumption
<1> QED
  BY <1>1, FS_Interval

LEMMA TermsIn ==
  ASSUME NEW t \in 1 .. Len(llterm)
  PROVE  /\ llterm[t].c \in 0 .. nl - 1 /\ llterm[t].w \in 0 .. nw - 1
         /\ llterm[t].k \in F /\ llterm[t].k \in Int
<1>1. llterm \in Seq([c : Nat, w : Nat, k : F])
  BY LigeroAssumption
<1>2. llterm[t] \in [c : Nat, w : Nat, k : F]
  <2>1. PICK R : R = [c : Nat, w : Nat, k : F]
    OBVIOUS
  <2>2. llterm \in Seq(R)
    BY <1>1, <2>1
  <2>3. llterm[t] \in R
    BY <2>2
  <2> QED
    BY <2>1, <2>3
<1>3. llterm[t].c \in Nat /\ llterm[t].w \in Nat /\ llterm[t].k \in F
  BY <1>2
<1>4. llterm[t].c < nl /\ llterm[t].w < nw
  BY LigeroAssumption DEF StatementInBounds
<1>5. nl \in Nat /\ nw \in Nat
  BY Geometry
<1>6. llterm[t].c \in 0 .. nl - 1
  BY <1>3, <1>4, <1>5
<1>7. llterm[t].w \in 0 .. nw - 1
  BY <1>3, <1>4, <1>5
<1>8. llterm[t].k \in Int
  BY <1>3, FInt
<1> QED
  BY <1>3, <1>6, <1>7, <1>8

LEMMA If1In ==
  ASSUME NEW b
  PROVE  (b => If1(b) = 1) /\ (~b => If1(b) = 0) /\ If1(b) \in Int
BY DEF If1

LEMMA LinearTermsIn ==
  ASSUME NEW ask, Challenges(ask), NEW v
  PROVE  LinearTerms(ask, v) \in [1 .. Len(llterm) -> Int]
<1>1. ASSUME NEW t \in 1 .. Len(llterm)
      PROVE  If1(llterm[t].w = v) * llterm[t].k * AlphaL(ask, llterm[t].c) \in Int
  <2>1. PICK a \in Int, b \in Int, c \in Int :
          a = If1(llterm[t].w = v) /\ b = llterm[t].k /\ c = AlphaL(ask, llterm[t].c)
    BY TermsIn, ChallengesIn, If1In, FInt
  <2>2. a * b * c \in Int
    OBVIOUS
  <2> QED
    BY <2>1, <2>2
<1> QED
  BY <1>1 DEF LinearTerms

LEMMA CopyTermsIn ==
  ASSUME NEW ask, Challenges(ask), NEW v, NEW e \in 0 .. nq - 1
  PROVE  CopyTerms(ask, v, e) \in [0 .. 2 -> Int]
<1>1. ASSUME NEW part \in 0 .. 2
      PROVE  AlphaQ(ask, e, part) * (If1(v = CopyOffset(part) + e) - If1(v = OperandAt(e, part))) \in Int
  <2>1. PICK a \in Int, b \in Int, c \in Int :
          a = AlphaQ(ask, e, part) /\ b = If1(v = CopyOffset(part) + e) /\ c = If1(v = OperandAt(e, part))
    BY ChallengesIn, If1In, FInt
  <2>2. a * (b - c) \in Int
    OBVIOUS
  <2> QED
    BY <2>1, <2>2
<1> QED
  BY <1>1 DEF CopyTerms

\* The sum of the copy terms of all quadratic constraints.
CopySums(ask, v) == [e \in 0 .. nq - 1 |-> Sum(CopyTerms(ask, v, e))]

LEMMA IpvIn ==
  ASSUME NEW ask, Challenges(ask), NEW v
  PROVE  /\ CopySums(ask, v) \in [0 .. nq - 1 -> Int]
         /\ IpvOf(ask, v) \in F
         /\ Eq(IpvOf(ask, v), SumFunction(LinearTerms(ask, v)) + SumFunction(CopySums(ask, v)))
<1>1. ASSUME NEW e \in 0 .. nq - 1 PROVE Sum(CopyTerms(ask, v, e)) \in Int
  <2>1. CopyTerms(ask, v, e) \in [0 .. 2 -> Int]
    BY CopyTermsIn
  <2>2. IsFiniteSet(0 .. 2)
    <3>1. 2 \in Int
      OBVIOUS
    <3> QED
      BY <3>1, Finite, Zenon
  <2> QED
    BY <2>1, <2>2, SumIn
<1>2. CopySums(ask, v) \in [0 .. nq - 1 -> Int]
  BY <1>1 DEF CopySums
<1>3. IsFiniteSet(0 .. nq - 1)
  BY Finite, Geometry
<1>4. PICK a \in Int, sa \in Int :
        a = Sum(LinearTerms(ask, v)) /\ sa = SumFunction(LinearTerms(ask, v)) /\ Eq(a, sa)
  <2>1. PICK f \in [1 .. Len(llterm) -> Int] : f = LinearTerms(ask, v)
    BY LinearTermsIn
  <2>2. Sum(f) \in Int /\ SumFunction(f) \in Int /\ Eq(Sum(f), SumFunction(f))
    BY Finite1, SumIn, SumInt
  <2> QED
    BY <2>1, <2>2
<1>5. PICK b \in Int, sb \in Int :
        b = Sum(CopySums(ask, v)) /\ sb = SumFunction(CopySums(ask, v)) /\ Eq(b, sb)
  <2>1. PICK f \in [0 .. nq - 1 -> Int] : f = CopySums(ask, v)
    BY <1>2
  <2>2. Sum(f) \in Int /\ SumFunction(f) \in Int /\ Eq(Sum(f), SumFunction(f))
    BY <1>3, SumIn, SumInt
  <2> QED
    BY <2>1, <2>2
<1>6. IpvOf(ask, v) = (a + b) % q
  BY <1>4, <1>5 DEF IpvOf, CopySums
<1>7. a + b \in Int /\ sa + sb \in Int
  OBVIOUS
<1>8. Eq(a + b, sa + sb)
  BY <1>4, <1>5, EqAdd, Zenon
<1>9. (a + b) % q \in F /\ (a + b) % q \in Int /\ Eq((a + b) % q, a + b)
  BY <1>7, EqMod
<1>10. Eq((a + b) % q, sa + sb)
  BY <1>7, <1>8, <1>9, EqTrans
<1> QED
  BY <1>2, <1>4, <1>5, <1>6, <1>9, <1>10

LEMMA CoefsFollow ==
  ASSUME NEW ask, Challenges(ask), NEW i \in 0 .. nwqrow - 1
  PROVE  /\ CoefSamples(ask, i) \in [0 .. block - 1 -> F]
         /\ Follows(CoefsOf(ask)[i], block, Curve(block, CoefSamples(ask, i)))
<1>1. CoefSamples(ask, i) \in [0 .. block - 1 -> F]
  <2>1. \A v : IpvOf(ask, v) \in F
    BY IpvIn
  <2> QED
    BY <2>1, FInt DEF CoefSamples
<1>2. block \in {block, dblock}
  OBVIOUS
<1>3. Follows(Extend(CoefSamples(ask, i)), block, Curve(block, CoefSamples(ask, i)))
  BY <1>1, <1>2, ExtendFollows
<1> QED
  BY <1>1, <1>3 DEF CoefsOf

\* What is known of a row of an encoded tableau.
LEMMA RowIs ==
  ASSUME NEW tab, NEW P, Encoded(tab, P), NEW i \in 0 .. nrow - 1
  PROVE  /\ P[i] \in Fn /\ Poly(SampleLen(i), P[i]) /\ SampleLen(i) \in Nat
         /\ \A x \in Points : /\ Col(tab, x)[i] \in F /\ Col(tab, x)[i] \in Int /\ P[i][x] \in Int
                              /\ Eq(Col(tab, x)[i], P[i][x])
<1>1. /\ tab[i] \in [Points -> F] /\ P[i] \in Fn /\ Poly(SampleLen(i), P[i])
      /\ \A x \in Points : Eq(tab[i][x], P[i][x])
  BY DEF Encoded, Follows
<1>2. SampleLen(i) \in Nat
  BY Geometry DEF SampleLen
<1>3. \A x \in Points : Col(tab, x)[i] = tab[i][x]
  BY DEF Col
<1>4. \A x \in Points : x \in Nat
  BY PointsAre DEF PointsNat
<1> QED
  BY <1>1, <1>2, <1>3, <1>4, FInt DEF Fn

LdtRow(tab, ask) == [x \in Points |-> LdtOf(ask, Col(tab, x))]

LEMMA LdtFollows ==
  ASSUME NEW tab, NEW P, Encoded(tab, P), NEW ask, Challenges(ask)
  PROVE  \E f : Follows(LdtRow(tab, ask), block, f)
<1>1. PICK I : I = 0 .. nwqrow - 1
  OBVIOUS
<1>2. /\ nwqrow \in Nat /\ ildt = 0 /\ iw = 3 /\ nrow = 3 + nwqrow /\ idot = 1 /\ iquad = 2
      /\ block \in Nat /\ dblock \in Nat
  BY Layout, Geometry
<1>3. IsFiniteSet(I)
  BY <1>1, <1>2, Finite
<1>4. ASSUME NEW i \in I
      PROVE  /\ iw + i \in 0 .. nrow - 1 /\ SampleLen(iw + i) = block /\ ask[i] \in F /\ ask[i] \in Int
  <2>1. ask[i] \in F /\ ask[i] \in Int
    BY <1>1, ChallengesIn, FInt
  <2>2. iw + i \in 0 .. nrow - 1 /\ iw + i # 1 /\ iw + i # 2
    BY <1>1, <1>2
  <2>3. SampleLen(iw + i) = block
    BY <1>2, <2>2 DEF SampleLen
  <2> QED
    BY <2>1, <2>2, <2>3
<1>5. ildt \in 0 .. nrow - 1 /\ SampleLen(ildt) = block
  BY <1>2 DEF SampleLen
<1> DEFINE k == [i \in I |-> Scaled(ask[i], P[iw + i])]
<1>6. ASSUME NEW i \in I
      PROVE  k[i] \in Fn /\ Poly(block, k[i]) /\ \A x \in Nat : k[i][x] = ask[i] * P[iw + i][x]
  <2>1. P[iw + i] \in Fn /\ Poly(block, P[iw + i]) /\ ask[i] \in Int
    BY <1>4, RowIs
  <2> QED
    BY <1>2, <2>1, ScaledIs
<1>7. k \in [I -> Fn]
  BY <1>6
<1> HIDE DEF k
<1>8. ASSUME NEW x \in Points
      PROVE  /\ LdtOf(ask, Col(tab, x)) \in F
             /\ Eq(LdtOf(ask, Col(tab, x)), P[ildt][x] + SumFunction([i \in I |-> k[i][x]]))
  <2>1. x \in Nat
    BY PointsAre DEF PointsNat
  <2>2. PICK g : g = [i \in I |-> ask[i] * Col(tab, x)[iw + i]]
    OBVIOUS
  <2>3. PICK h : h = [i \in I |-> k[i][x]]
    OBVIOUS
  <2>4. ASSUME NEW i \in I PROVE g[i] \in Int /\ h[i] \in Int /\ Eq(g[i], h[i])
    <3>1. PICK a \in Int, b \in Int, c \in Int : a = ask[i] /\ b = Col(tab, x)[iw + i] /\ c = P[iw + i][x] /\ Eq(b, c)
      BY <1>4, RowIs
    <3>2. g[i] = a * b /\ h[i] = a * c
      BY <1>6, <2>1, <2>2, <2>3, <3>1
    <3>3. Eq(a * b, a * c)
      BY <3>1, EqMul2
    <3>4. a * b \in Int /\ a * c \in Int
      OBVIOUS
    <3> QED
      BY <3>2, <3>3, <3>4
  <2>5. EqOn(I, g, h)
    BY <2>2, <2>3, <2>4 DEF EqOn
  <2>6. PICK v \in Int, b \in Int : v = Col(tab, x)[ildt] /\ b = P[ildt][x] /\ Eq(v, b)
    BY <1>5, RowIs
  <2>7. LdtOf(ask, Col(tab, x)) = (v + Sum(g)) % q
    BY <1>1, <2>2, <2>6 DEF LdtOf
  <2>8. (v + Sum(g)) % q \in F /\ Eq((v + Sum(g)) % q, b + SumFunction(h))
    BY <1>3, <2>5, <2>6, MixAt
  <2> QED
    BY <2>3, <2>6, <2>7, <2>8
<1>9. Mixed(LdtRow(tab, ask), block, P[ildt], I, k)
  <2>1. P[ildt] \in Fn /\ Poly(block, P[ildt])
    BY <1>5, RowIs
  <2>2. LdtRow(tab, ask) \in [Points -> F]
    BY <1>8 DEF LdtRow
  <2>3. \A x \in Points : Eq(LdtRow(tab, ask)[x], P[ildt][x] + SumFunction([i \in I |-> k[i][x]]))
    BY <1>8 DEF LdtRow
  <2>4. \A i \in I : Poly(block, k[i])
    BY <1>6
  <2> QED
    BY <1>2, <1>7, <2>1, <2>2, <2>3, <2>4 DEF Mixed
<1> QED
  BY <1>3, <1>9, MixedFollows

DotRow(tab, ask) == [x \in Points |-> DotAt(Col(tab, x), CoefAt(ask, x))]

LEMMA DotFollows ==
  ASSUME NEW tab, NEW P, Encoded(tab, P), NEW ask, Challenges(ask)
  PROVE  \E f : Follows(DotRow(tab, ask), dblock, f)
<1>1. PICK I : I = 0 .. nwqrow - 1
  OBVIOUS
<1>2. /\ nwqrow \in Nat /\ ildt = 0 /\ iw = 3 /\ nrow = 3 + nwqrow /\ idot = 1 /\ iquad = 2
      /\ block \in Nat /\ dblock \in Nat
  BY Layout, Geometry
<1>3. IsFiniteSet(I)
  BY <1>1, <1>2, Finite
<1> DEFINE C(i) == Curve(block, CoefSamples(ask, i))
<1>4. ASSUME NEW i \in I
      PROVE  /\ iw + i \in 0 .. nrow - 1 /\ SampleLen(iw + i) = block
             /\ Follows(CoefsOf(ask)[i], block, C(i))
  <2>1. Follows(CoefsOf(ask)[i], block, C(i))
    BY <1>1, CoefsFollow
  <2>2. iw + i \in 0 .. nrow - 1 /\ iw + i # 1 /\ iw + i # 2
    BY <1>1, <1>2
  <2>3. SampleLen(iw + i) = block
    BY <1>2, <2>2 DEF SampleLen
  <2> QED
    BY <2>1, <2>2, <2>3
<1> HIDE DEF C
<1>5. idot \in 0 .. nrow - 1 /\ SampleLen(idot) = dblock
  BY <1>2 DEF SampleLen
<1> DEFINE k == [i \in I |-> Product(C(i), P[iw + i])]
<1>6. ASSUME NEW i \in I
      PROVE  k[i] \in Fn /\ Poly(dblock, k[i]) /\ \A x \in Nat : k[i][x] = C(i)[x] * P[iw + i][x]
  <2>1. P[iw + i] \in Fn /\ Poly(block, P[iw + i])
    BY <1>4, RowIs
  <2>2. C(i) \in Fn /\ Poly(block, C(i))
    BY <1>4 DEF Follows
  <2> QED
    BY <2>1, <2>2, ProductIs
<1>7. k \in [I -> Fn]
  BY <1>6
<1> HIDE DEF k
<1>8. ASSUME NEW x \in Points
      PROVE  /\ DotAt(Col(tab, x), CoefAt(ask, x)) \in F
             /\ Eq(DotAt(Col(tab, x), CoefAt(ask, x)), P[idot][x] + SumFunction([i \in I |-> k[i][x]]))
  <2>1. x \in Nat
    BY PointsAre DEF PointsNat
  <2>2. PICK g : g = [i \in I |-> CoefAt(ask, x)[i] * Col(tab, x)[iw + i]]
    OBVIOUS
  <2>3. PICK h : h = [i \in I |-> k[i][x]]
    OBVIOUS
  <2>4. ASSUME NEW i \in I PROVE g[i] \in Int /\ h[i] \in Int /\ Eq(g[i], h[i])
    <3>1. PICK b \in Int, c \in Int : b = Col(tab, x)[iw + i] /\ c = P[iw + i][x] /\ Eq(b, c)
      BY <1>4, RowIs
    <3>2. PICK a \in Int, d \in Int : a = CoefAt(ask, x)[i] /\ d = C(i)[x] /\ Eq(a, d)
      <4>1. CoefAt(ask, x)[i] = CoefsOf(ask)[i][x]
        BY <1>1 DEF CoefAt
      <4>2. /\ CoefsOf(ask)[i] \in [Points -> F] /\ C(i) \in Fn
            /\ \A z \in Points : Eq(CoefsOf(ask)[i][z], C(i)[z])
        BY <1>4 DEF Follows
      <4>3. CoefsOf(ask)[i][x] \in Int
        BY <4>2, FInt
      <4>4. C(i)[x] \in Int
        BY <2>1, <4>2 DEF Fn
      <4> QED
        BY <4>1, <4>2, <4>3, <4>4
    <3>3. g[i] = a * b /\ h[i] = d * c
      BY <1>6, <2>1, <2>2, <2>3, <3>1, <3>2
    <3>4. Eq(a * b, d * c)
      BY <3>1, <3>2, EqMul, Zenon
    <3>5. a * b \in Int /\ d * c \in Int
      OBVIOUS
    <3> QED
      BY <3>3, <3>4, <3>5
  <2>5. EqOn(I, g, h)
    BY <2>2, <2>3, <2>4 DEF EqOn
  <2>6. PICK v \in Int, b \in Int : v = Col(tab, x)[idot] /\ b = P[idot][x] /\ Eq(v, b)
    BY <1>5, RowIs
  <2>7. DotAt(Col(tab, x), CoefAt(ask, x)) = (v + Sum(g)) % q
    BY <1>1, <2>2, <2>6 DEF DotAt
  <2>8. (v + Sum(g)) % q \in F /\ Eq((v + Sum(g)) % q, b + SumFunction(h))
    BY <1>3, <2>5, <2>6, MixAt
  <2> QED
    BY <2>3, <2>6, <2>7, <2>8
<1>9. Mixed(DotRow(tab, ask), dblock, P[idot], I, k)
  <2>1. P[idot] \in Fn /\ Poly(dblock, P[idot])
    BY <1>5, RowIs
  <2>2. DotRow(tab, ask) \in [Points -> F]
    BY <1>8 DEF DotRow
  <2>3. \A x \in Points : Eq(DotRow(tab, ask)[x], P[idot][x] + SumFunction([i \in I |-> k[i][x]]))
    BY <1>8 DEF DotRow
  <2>4. \A i \in I : Poly(dblock, k[i])
    BY <1>6
  <2> QED
    BY <1>2, <1>7, <2>1, <2>2, <2>3, <2>4 DEF Mixed
<1> QED
  BY <1>3, <1>9, MixedFollows

QuadRow(tab, ask) == [x \in Points |-> QuadOf(ask, Col(tab, x))]

\* The polynomial u * (z - x * y).
Gate(u, z, x, y) == [p \in Nat |-> u * (z[p] - x[p] * y[p])]

LEMMA GateIs ==
  ASSUME NEW u \in Int, NEW z \in Fn, NEW x \in Fn, NEW y \in Fn,
         Poly(block, z), Poly(block, x), Poly(block, y)
  PROVE  /\ Gate(u, z, x, y) \in Fn /\ Poly(dblock, Gate(u, z, x, y))
         /\ \A p \in Nat : Gate(u, z, x, y)[p] = u * (z[p] - x[p] * y[p])
<1>1. PICK m \in Fn : m = Product(x, y)
  BY ProductIs
<1>2. Poly(dblock, m) /\ \A p \in Nat : m[p] = x[p] * y[p]
  BY <1>1, ProductIs
<1>3. block \in Nat /\ dblock \in Nat /\ block <= dblock
  BY Geometry
<1>4. Poly(dblock, z)
  BY <1>3, PolyMore
<1>5. \A p \in Nat : z[p] \in Int /\ m[p] \in Int
  BY DEF Fn
<1>6. \A p \in Nat : u * (z[p] - m[p]) \in Int /\ u * (z[p] - m[p]) = u * z[p] + (-u) * m[p]
  BY <1>5
<1>7. Gate(u, z, x, y) = [p \in Nat |-> u * (z[p] - m[p])]
  BY <1>2 DEF Gate
<1>8. Gate(u, z, x, y) \in Fn /\ \A p \in Nat : Gate(u, z, x, y)[p] = u * (z[p] - m[p])
  BY <1>6, <1>7 DEF Fn
<1>9. \A p \in Nat : Eq(Gate(u, z, x, y)[p], u * z[p] + (-u) * m[p])
  BY <1>6, <1>8, EqRefl
<1>10. Combined(Gate(u, z, x, y), u, z, -u, m)
  BY <1>8, <1>9 DEF Combined
<1>11. Poly(dblock, Gate(u, z, x, y))
  BY <1>2, <1>3, <1>4, <1>10, PolyCombined
<1> QED
  BY <1>2, <1>8, <1>11

LEMMA QuadFollows ==
  ASSUME NEW tab, NEW P, Encoded(tab, P), NEW ask, Challenges(ask)
  PROVE  \E f : Follows(QuadRow(tab, ask), dblock, f)
<1>1. PICK I : I = 0 .. nqtriples - 1
  OBVIOUS
<1>2. /\ nwrow \in Nat /\ nqtriples \in Nat /\ idot = 1 /\ iquad = 2 /\ iq = 3 + nwrow
      /\ nrow = 3 + nwrow + 3 * nqtriples
      /\ iqx = iq /\ iqy = iq + nqtriples /\ iqz = iq + 2 * nqtriples
      /\ block \in Nat /\ dblock \in Nat
  BY Layout, Geometry
<1>3. IsFiniteSet(I)
  BY <1>1, <1>2, Finite
<1>4. ASSUME NEW i \in I
      PROVE  /\ iqx + i \in 0 .. nrow - 1 /\ SampleLen(iqx + i) = block
             /\ iqy + i \in 0 .. nrow - 1 /\ SampleLen(iqy + i) = block
             /\ iqz + i \in 0 .. nrow - 1 /\ SampleLen(iqz + i) = block
             /\ UQuad(ask, i) \in Int
  <2>1. UQuad(ask, i) \in Int
    BY <1>1, ChallengesIn, FInt
  <2>2. /\ iqx + i \in 0 .. nrow - 1 /\ iqx + i > 2 /\ iqy + i \in 0 .. nrow - 1 /\ iqy + i > 2
        /\ iqz + i \in 0 .. nrow - 1 /\ iqz + i > 2
    BY <1>1, <1>2
  <2>3. \A j \in 0 .. nrow - 1 : j > 2 => SampleLen(j) = block
    BY <1>2 DEF SampleLen
  <2> QED
    BY <2>1, <2>2, <2>3
<1>5. iquad \in 0 .. nrow - 1 /\ SampleLen(iquad) = dblock
  BY <1>2 DEF SampleLen
<1> DEFINE k == [i \in I |-> Gate(UQuad(ask, i), P[iqz + i], P[iqx + i], P[iqy + i])]
<1>6. ASSUME NEW i \in I
      PROVE  /\ k[i] \in Fn /\ Poly(dblock, k[i])
             /\ \A x \in Nat : k[i][x] = UQuad(ask, i) * (P[iqz + i][x] - P[iqx + i][x] * P[iqy + i][x])
  <2>1. P[iqz + i] \in Fn /\ Poly(block, P[iqz + i])
    BY <1>4, RowIs
  <2>2. P[iqx + i] \in Fn /\ Poly(block, P[iqx + i])
    BY <1>4, RowIs
  <2>3. P[iqy + i] \in Fn /\ Poly(block, P[iqy + i])
    BY <1>4, RowIs
  <2>4. PICK u \in Int, z \in Fn, a \in Fn, b \in Fn :
          u = UQuad(ask, i) /\ z = P[iqz + i] /\ a = P[iqx + i] /\ b = P[iqy + i]
    BY <1>4, <2>1, <2>2, <2>3
  <2>5. k[i] = Gate(u, z, a, b)
    BY <2>4
  <2>6. Poly(block, z) /\ Poly(block, a) /\ Poly(block, b)
    BY <2>1, <2>2, <2>3, <2>4
  <2> HIDE DEF k
  <2>7. /\ Gate(u, z, a, b) \in Fn /\ Poly(dblock, Gate(u, z, a, b))
        /\ \A p \in Nat : Gate(u, z, a, b)[p] = u * (z[p] - a[p] * b[p])
    BY <2>6, GateIs
  <2> QED
    BY <2>4, <2>5, <2>7
<1>7. k \in [I -> Fn]
  BY <1>6
<1> HIDE DEF k
<1>8. ASSUME NEW x \in Points
      PROVE  /\ QuadOf(ask, Col(tab, x)) \in F
             /\ Eq(QuadOf(ask, Col(tab, x)), P[iquad][x] + SumFunction([i \in I |-> k[i][x]]))
  <2>1. x \in Nat
    BY PointsAre DEF PointsNat
  <2>2. PICK val : val = Col(tab, x)
    OBVIOUS
  <2>3. PICK g : g = [i \in I |-> UQuad(ask, i) * (val[iqz + i] - val[iqx + i] * val[iqy + i])]
    OBVIOUS
  <2>4. PICK h : h = [i \in I |-> k[i][x]]
    OBVIOUS
  <2>5. ASSUME NEW i \in I PROVE g[i] \in Int /\ h[i] \in Int /\ Eq(g[i], h[i])
    <3>1. PICK z1 \in Int, z2 \in Int : z1 = val[iqz + i] /\ z2 = P[iqz + i][x] /\ Eq(z1, z2)
      BY <1>4, <2>2, RowIs
    <3>2. PICK x1 \in Int, x2 \in Int : x1 = val[iqx + i] /\ x2 = P[iqx + i][x] /\ Eq(x1, x2)
      BY <1>4, <2>2, RowIs
    <3>3. PICK y1 \in Int, y2 \in Int : y1 = val[iqy + i] /\ y2 = P[iqy + i][x] /\ Eq(y1, y2)
      BY <1>4, <2>2, RowIs
    <3>4. PICK u \in Int : u = UQuad(ask, i)
      BY <1>4
    <3>5. g[i] = u * (z1 - x1 * y1) /\ h[i] = u * (z2 - x2 * y2)
      BY <1>6, <2>1, <2>3, <2>4, <3>1, <3>2, <3>3, <3>4
    <3>6. Eq(x1 * y1, x2 * y2)
      BY <3>2, <3>3, EqMul, Zenon
    <3>7. x1 * y1 \in Int /\ x2 * y2 \in Int /\ z1 - x1 * y1 \in Int /\ z2 - x2 * y2 \in Int
      OBVIOUS
    <3>8. Eq(z1 - x1 * y1, z2 - x2 * y2)
      BY <3>1, <3>6, <3>7, EqAdd, Zenon
    <3>9. Eq(u * (z1 - x1 * y1), u * (z2 - x2 * y2))
      BY <3>7, <3>8, EqMul2, Zenon
    <3>10. u * (z1 - x1 * y1) \in Int /\ u * (z2 - x2 * y2) \in Int
      BY <3>7
    <3> QED
      BY <3>5, <3>9, <3>10
  <2>6. EqOn(I, g, h)
    BY <2>3, <2>4, <2>5 DEF EqOn
  <2>7. PICK v \in Int, b \in Int : v = val[iquad] /\ b = P[iquad][x] /\ Eq(v, b)
    BY <1>5, <2>2, RowIs
  <2>8. QuadOf(ask, Col(tab, x)) = (v + Sum(g)) % q
    BY <1>1, <2>2, <2>3, <2>7 DEF QuadOf
  <2>9. (v + Sum(g)) % q \in F /\ Eq((v + Sum(g)) % q, b + SumFunction(h))
    BY <1>3, <2>6, <2>7, MixAt
  <2> QED
    BY <2>4, <2>7, <2>8, <2>9
<1>9. Mixed(QuadRow(tab, ask), dblock, P[iquad], I, k)
  <2>1. P[iquad] \in Fn /\ Poly(dblock, P[iquad])
    BY <1>5, RowIs
  <2>2. QuadRow(tab, ask) \in [Points -> F]
    BY <1>8 DEF QuadRow
  <2>3. \A x \in Points : Eq(QuadRow(tab, ask)[x], P[iquad][x] + SumFunction([i \in I |-> k[i][x]]))
    BY <1>8 DEF QuadRow
  <2>4. \A i \in I : Poly(dblock, k[i])
    BY <1>6
  <2> QED
    BY <1>2, <1>7, <2>1, <2>2, <2>3, <2>4 DEF Mixed
<1> QED
  BY <1>3, <1>9, MixedFollows

-----------------------------------------------------------------------------
(***************************************************************************)
(* Sums over the cells of the tableau.                                     *)
(***************************************************************************)
Grid(S, I) == [S -> [I -> Int]]

Inner(S, X) == [s \in S |-> SumFunction(X[s])]

Sum2(S, X) == SumFunction(Inner(S, X))

LEMMA InnerIn ==
  ASSUME NEW S, NEW I, IsFiniteSet(I), NEW X \in Grid(S, I)
  PROVE  Inner(S, X) \in [S -> Int] /\ \A s \in S : Inner(S, X)[s] = SumFunction(X[s])
<1>1. \A s \in S : X[s] \in [I -> Int]
  BY DEF Grid
<1>2. \A s \in S : SumFunction(X[s]) \in Int
  BY <1>1, SumInt
<1> QED
  BY <1>2 DEF Inner

LEMMA Sum2Int ==
  ASSUME NEW S, IsFiniteSet(S), NEW I, IsFiniteSet(I), NEW X \in Grid(S, I)
  PROVE  Sum2(S, X) \in Int
<1>1. Inner(S, X) \in [S -> Int]
  BY InnerIn
<1> QED
  BY <1>1, SumInt DEF Sum2

\* Only one cell is not zero.
Alone(S, I, X, s0, i0) ==
  /\ X \in Grid(S, I) /\ s0 \in S /\ i0 \in I
  /\ \A s \in S, i \in I : s # s0 \/ i # i0 => X[s][i] = 0

LEMMA Sum2Alone ==
  ASSUME NEW S, IsFiniteSet(S), NEW I, IsFiniteSet(I), NEW X, NEW s0, NEW i0, Alone(S, I, X, s0, i0)
  PROVE  Sum2(S, X) = X[s0][i0]
<1>1. /\ X \in Grid(S, I) /\ s0 \in S /\ i0 \in I
      /\ \A s \in S, i \in I : s # s0 \/ i # i0 => X[s][i] = 0
  BY DEF Alone
<1>2. \A s \in S : X[s] \in [I -> Int]
  BY <1>1 DEF Grid
<1>3. Inner(S, X) \in [S -> Int] /\ \A s \in S : Inner(S, X)[s] = SumFunction(X[s])
  BY <1>1, InnerIn
<1>4. ASSUME NEW s \in S, s # s0 PROVE Inner(S, X)[s] = 0
  <2>1. PICK f \in [I -> Int] : f = X[s]
    BY <1>2
  <2>2. \A i \in I : f[i] = 0
    BY <1>1, <1>4, <2>1
  <2>3. SumFunction(f) = 0
    BY <2>2, SumZero
  <2> QED
    BY <1>3, <2>1, <2>3
<1>5. Only(S, Inner(S, X), s0)
  BY <1>1, <1>3, <1>4 DEF Only
<1>6. Sum2(S, X) = Inner(S, X)[s0]
  BY <1>5, SumPoint DEF Sum2
<1>7. PICK g \in [I -> Int] : g = X[s0]
  BY <1>1, <1>2
<1>8. Only(I, g, i0)
  BY <1>1, <1>7 DEF Only
<1>9. SumFunction(g) = g[i0]
  BY <1>8, SumPoint
<1> QED
  BY <1>1, <1>3, <1>6, <1>7, <1>9

LEMMA Sum2Zero ==
  ASSUME NEW S, IsFiniteSet(S), NEW I, IsFiniteSet(I), NEW X \in Grid(S, I),
         \A s \in S, i \in I : X[s][i] = 0
  PROVE  Sum2(S, X) = 0
<1>1. \A s \in S : X[s] \in [I -> Int]
  BY DEF Grid
<1>2. Inner(S, X) \in [S -> Int] /\ \A s \in S : Inner(S, X)[s] = SumFunction(X[s])
  BY InnerIn
<1>3. \A s \in S : Inner(S, X)[s] = 0
  <2> SUFFICES ASSUME NEW s \in S PROVE SumFunction(X[s]) = 0
    BY <1>2
  <2>1. PICK f \in [I -> Int] : f = X[s] /\ \A i \in I : f[i] = 0
    BY <1>1
  <2>2. SumFunction(f) = 0
    BY <2>1, SumZero
  <2> QED
    BY <2>1, <2>2
<1> QED
  BY <1>2, <1>3, SumZero DEF Sum2

\* Z is a * X + b * Y.
Linear2(S, I, Z, a, X, b, Y) ==
  /\ X \in Grid(S, I) /\ Y \in Grid(S, I) /\ Z \in Grid(S, I) /\ a \in Int /\ b \in Int
  /\ \A s \in S, i \in I : Z[s][i] = a * X[s][i] + b * Y[s][i]

LEMMA Sum2Linear ==
  ASSUME NEW S, IsFiniteSet(S), NEW I, IsFiniteSet(I), NEW Z, NEW a, NEW X, NEW b, NEW Y,
         Linear2(S, I, Z, a, X, b, Y)
  PROVE  Sum2(S, Z) = a * Sum2(S, X) + b * Sum2(S, Y)
<1>1. /\ X \in Grid(S, I) /\ Y \in Grid(S, I) /\ Z \in Grid(S, I) /\ a \in Int /\ b \in Int
      /\ \A s \in S, i \in I : Z[s][i] = a * X[s][i] + b * Y[s][i]
  BY DEF Linear2
<1>2. /\ Inner(S, X) \in [S -> Int] /\ \A s \in S : Inner(S, X)[s] = SumFunction(X[s])
      /\ Inner(S, Y) \in [S -> Int] /\ \A s \in S : Inner(S, Y)[s] = SumFunction(Y[s])
      /\ Inner(S, Z) \in [S -> Int] /\ \A s \in S : Inner(S, Z)[s] = SumFunction(Z[s])
  BY <1>1, InnerIn
<1>3. ASSUME NEW s \in S PROVE Inner(S, Z)[s] = a * Inner(S, X)[s] + b * Inner(S, Y)[s]
  <2>1. PICK x \in [I -> Int], y \in [I -> Int], z \in [I -> Int] : x = X[s] /\ y = Y[s] /\ z = Z[s]
    BY <1>1 DEF Grid
  <2>2. Linear(I, z, a, x, b, y)
    BY <1>1, <2>1 DEF Linear
  <2>3. SumFunction(z) = a * SumFunction(x) + b * SumFunction(y)
    BY <2>2, SumLinear
  <2> QED
    BY <1>2, <2>1, <2>3
<1>4. Linear(S, Inner(S, Z), a, Inner(S, X), b, Inner(S, Y))
  BY <1>1, <1>2, <1>3 DEF Linear
<1> QED
  BY <1>4, SumLinear DEF Sum2

\* Y is the sum of the layers of X.
Layers(T, S, I, X, Y) ==
  /\ X \in [T -> Grid(S, I)] /\ Y \in Grid(S, I)
  /\ \A s \in S, i \in I : Y[s][i] = SumFunction([t \in T |-> X[t][s][i]])

LEMMA Sum2Layers ==
  ASSUME NEW T, IsFiniteSet(T), NEW S, IsFiniteSet(S), NEW I, IsFiniteSet(I), NEW X, NEW Y,
         Layers(T, S, I, X, Y)
  PROVE  /\ [t \in T |-> Sum2(S, X[t])] \in [T -> Int]
         /\ Sum2(S, Y) = SumFunction([t \in T |-> Sum2(S, X[t])])
<1>1. /\ X \in [T -> Grid(S, I)] /\ Y \in Grid(S, I)
      /\ \A s \in S, i \in I : Y[s][i] = SumFunction([t \in T |-> X[t][s][i]])
  BY DEF Layers
<1>2. \A t \in T : X[t] \in Grid(S, I) /\ \A s \in S : X[t][s] \in [I -> Int]
  BY <1>1 DEF Grid
<1>3. \A t \in T, s \in S, i \in I : X[t][s][i] \in Int
  BY <1>2
<1>4. \A t \in T : Inner(S, X[t]) \in [S -> Int] /\ \A s \in S : Inner(S, X[t])[s] = SumFunction(X[t][s])
  BY <1>2, InnerIn
<1>5. Inner(S, Y) \in [S -> Int] /\ \A s \in S : Inner(S, Y)[s] = SumFunction(Y[s])
  BY <1>1, InnerIn
<1>6. ASSUME NEW s \in S
      PROVE  Inner(S, Y)[s] = SumFunction([t \in T |-> Inner(S, X[t])[s]])
  <2>1. PICK k : k = [i \in I |-> [t \in T |-> X[t][s][i]]]
    OBVIOUS
  <2>2. PICK m : m = [t \in T |-> X[t][s]]
    OBVIOUS
  <2>3. PICK g : g = [t \in T |-> Inner(S, X[t])[s]]
    OBVIOUS
  <2>4. k \in [I -> [T -> Int]]
    BY <1>3, <2>1
  <2>5. m \in [T -> [I -> Int]] /\ g \in [T -> Int]
    BY <1>2, <1>4, <2>2, <2>3
  <2>6. Y[s] \in [I -> Int] /\ \A i \in I : Y[s][i] = SumFunction(k[i])
    <3>1. Y[s] \in [I -> Int]
      BY <1>1 DEF Grid
    <3>2. ASSUME NEW i \in I PROVE Y[s][i] = SumFunction(k[i])
      <4>1. k[i] = [t \in T |-> X[t][s][i]]
        BY <2>1
      <4>2. Y[s][i] = SumFunction([t \in T |-> X[t][s][i]])
        BY <1>1
      <4> QED
        BY <4>1, <4>2, Zenon
    <3> QED
      BY <3>1, <3>2
  <2>7. \A t \in T : g[t] = SumFunction(m[t])
    BY <1>4, <2>2, <2>3
  <2>8. \A i \in I, t \in T : m[t][i] = k[i][t]
    BY <2>1, <2>2
  <2>9. TwoWays(I, T, k, Y[s], m, g)
    BY <2>4, <2>5, <2>6, <2>7, <2>8 DEF TwoWays
  <2>10. SumFunction(Y[s]) = SumFunction(g)
    BY <2>9, SumSwap
  <2> QED
    BY <1>5, <2>3, <2>10
<1>7. PICK k : k = [s \in S |-> [t \in T |-> Inner(S, X[t])[s]]]
  OBVIOUS
<1>8. PICK m : m = [t \in T |-> Inner(S, X[t])]
  OBVIOUS
<1>9. PICK g : g = [t \in T |-> Sum2(S, X[t])]
  OBVIOUS
<1>10. g \in [T -> Int]
  <2>1. \A t \in T : Sum2(S, X[t]) \in Int
    BY <1>2, Sum2Int
  <2> QED
    BY <1>9, <2>1
<1>11. k \in [S -> [T -> Int]]
  <2>1. \A s \in S, t \in T : Inner(S, X[t])[s] \in Int
    BY <1>4
  <2> QED
    BY <1>7, <2>1
<1>12. m \in [T -> [S -> Int]]
  BY <1>4, <1>8
<1>13. \A t \in T : g[t] = SumFunction(m[t])
  BY <1>8, <1>9 DEF Sum2
<1>14. \A s \in S, t \in T : m[t][s] = k[s][t]
  BY <1>7, <1>8
<1>15. \A s \in S : Inner(S, Y)[s] = SumFunction(k[s])
  <2>1. \A s \in S : k[s] = [t \in T |-> Inner(S, X[t])[s]]
    BY <1>7
  <2> QED
    BY <1>6, <2>1
<1>16. TwoWays(S, T, k, Inner(S, Y), m, g)
  BY <1>5, <1>10, <1>11, <1>12, <1>13, <1>14, <1>15 DEF TwoWays
<1>17. SumFunction(Inner(S, Y)) = SumFunction(g)
  BY <1>16, SumSwap
<1> QED
  BY <1>9, <1>10, <1>17 DEF Sum2

LEMMA Sum2Eq ==
  ASSUME NEW S, IsFiniteSet(S), NEW I, IsFiniteSet(I), NEW X \in Grid(S, I), NEW Y \in Grid(S, I),
         \A s \in S, i \in I : Eq(X[s][i], Y[s][i])
  PROVE  Eq(Sum2(S, X), Sum2(S, Y))
<1>1. \A s \in S : X[s] \in [I -> Int] /\ Y[s] \in [I -> Int]
  BY DEF Grid
<1>2. /\ Inner(S, X) \in [S -> Int] /\ \A s \in S : Inner(S, X)[s] = SumFunction(X[s])
      /\ Inner(S, Y) \in [S -> Int] /\ \A s \in S : Inner(S, Y)[s] = SumFunction(Y[s])
  BY InnerIn
<1>3. ASSUME NEW s \in S PROVE Eq(Inner(S, X)[s], Inner(S, Y)[s])
  <2>1. EqOn(I, X[s], Y[s])
    BY <1>1 DEF EqOn
  <2>2. Eq(SumFunction(X[s]), SumFunction(Y[s]))
    BY <2>1, SumEq
  <2> QED
    BY <1>2, <2>2
<1>4. EqOn(S, Inner(S, X), Inner(S, Y))
  BY <1>2, <1>3 DEF EqOn
<1> QED
  BY <1>4, SumEq DEF Sum2

-----------------------------------------------------------------------------
(***************************************************************************)
(* The tableau elements that hold the witness and its copies, numbered row *)
(* by row.                                                                 *)
(***************************************************************************)
Rows == 0 .. nwqrow - 1

Flat(i, s) == i * w + s - r

\* The element with number v.
At(tab, v) == tab[iw + (v \div w)][r + (v % w)]

Filled(tab) == \A i \in 0 .. nrow - 1 : tab[i] \in [Points -> F]

\* The elements other than number u replaced by zero.
Pick(tab, u) == [s \in Slots |-> [i \in Rows |-> If1(u = Flat(i, s)) * tab[iw + i][s]]]

LEMMA RowsAre ==
  /\ IsFiniteSet(Rows) /\ IsFiniteSet(Slots)
  /\ \A i \in Rows : i \in Nat /\ i < nwqrow /\ iw + i \in 0 .. nrow - 1
<1>1. nwqrow \in Nat /\ iw = 3 /\ nrow = 3 + nwqrow
  BY Layout
<1>2. IsFiniteSet(Rows)
  BY <1>1, Finite DEF Rows
<1> QED
  BY <1>1, <1>2, SlotsAre DEF Rows

LEMMA CellIn ==
  ASSUME NEW tab, Filled(tab), NEW s \in Slots, NEW i \in Rows
  PROVE  tab[iw + i][s] \in F /\ tab[iw + i][s] \in Int
<1>1. iw + i \in 0 .. nrow - 1 /\ s \in Points
  BY RowsAre, SlotsAre
<1>2. tab[iw + i] \in [Points -> F]
  BY <1>1 DEF Filled
<1> QED
  BY <1>1, <1>2, FInt

LEMMA PickIs ==
  ASSUME NEW tab, Filled(tab), NEW u \in Nat, u < nwqrow * w
  PROVE  /\ Pick(tab, u) \in Grid(Slots, Rows)
         /\ At(tab, u) \in Int
         /\ Sum2(Slots, Pick(tab, u)) = At(tab, u)
<1>1. w \in Nat /\ w >= 1 /\ r \in Nat /\ nwqrow \in Nat
  BY Geometry, Layout
<1>2. u \div w \in 0 .. nwqrow - 1 /\ u % w \in 0 .. w - 1 /\ u = (u \div w) * w + (u % w)
  BY <1>1, Digits
<1>3. PICK d \in Rows, m \in 0 .. w - 1 : d = u \div w /\ m = u % w /\ u = d * w + m
  BY <1>2 DEF Rows
<1>4. PICK s0 \in Slots : s0 = r + m
  <2>1. r + m \in Slots
    BY <1>1 DEF Slots
  <2> QED
    BY <2>1
<1>5. \A s \in Slots, i \in Rows : tab[iw + i][s] \in Int
  BY CellIn
<1>6. Pick(tab, u) \in Grid(Slots, Rows)
  <2>1. ASSUME NEW s \in Slots, NEW i \in Rows PROVE If1(u = Flat(i, s)) * tab[iw + i][s] \in Int
    <3>1. PICK a \in Int, b \in Int : a = If1(u = Flat(i, s)) /\ b = tab[iw + i][s]
      BY <1>5, If1In
    <3>2. a * b \in Int
      OBVIOUS
    <3> QED
      BY <3>1, <3>2
  <2> QED
    BY <2>1 DEF Pick, Grid
<1>7. ASSUME NEW s \in Slots, NEW i \in Rows, s # s0 \/ i # d PROVE Pick(tab, u)[s][i] = 0
  <2>1. i \in Int /\ d \in Int /\ s - r \in 0 .. w - 1 /\ s \in Int
    BY RowsAre, SlotsAre
  <2>2. PICK z \in 0 .. w - 1 : z = s - r
    BY <2>1
  <2>3. u # Flat(i, s)
    <3> SUFFICES ASSUME u = Flat(i, s) PROVE FALSE
      OBVIOUS
    <3>1. i * w \in Int
      BY <1>1, <2>1
    <3>2. Flat(i, s) = i * w + z
      BY <1>1, <2>1, <2>2, <3>1 DEF Flat
    <3>3. d * w + m = i * w + z
      BY <1>3, <3>2
    <3>4. m \in Int /\ z \in Int /\ m - z < w /\ z - m < w
      BY <1>1
    <3>5. d = i /\ m = z
      BY <1>1, <2>1, <3>3, <3>4, DigitsUnique
    <3> QED
      BY <1>1, <1>4, <1>7, <2>1, <2>2, <3>5
  <2>4. PICK b \in Int : b = tab[iw + i][s]
    BY <1>5
  <2>5. If1(u = Flat(i, s)) = 0
    BY <2>3, If1In
  <2>6. Pick(tab, u)[s][i] = 0 * b
    BY <2>4, <2>5 DEF Pick
  <2> QED
    BY <2>6
<1>8. Alone(Slots, Rows, Pick(tab, u), s0, d)
  BY <1>4, <1>6, <1>7 DEF Alone
<1>9. Sum2(Slots, Pick(tab, u)) = Pick(tab, u)[s0][d]
  BY <1>8, RowsAre, Sum2Alone
<1>10. PICK b \in Int : b = tab[iw + d][s0]
  BY <1>5
<1>11. At(tab, u) = b
  BY <1>3, <1>4, <1>10 DEF At
<1>12. u = Flat(d, s0)
  <2>1. d * w \in Int
    BY <1>1, RowsAre
  <2> QED
    BY <1>1, <1>3, <1>4, <2>1 DEF Flat
<1>13. Pick(tab, u)[s0][d] = 1 * b
  <2>1. If1(u = Flat(d, s0)) = 1
    BY <1>12, If1In
  <2> QED
    BY <1>10, <2>1 DEF Pick
<1> QED
  BY <1>6, <1>9, <1>11, <1>13

LEMMA LaidFilled ==
  ASSUME NEW wit, NEW coins, Inputs(wit, coins)
  PROVE  /\ Filled(Laid(wit, coins))
         /\ \A i \in 0 .. nrow - 1 : \A x \in 0 .. SampleLen(i) - 1 :
              Laid(wit, coins)[i][x] = SamplesOf(wit, coins, i)[x]
<1>1. ASSUME NEW i \in 0 .. nrow - 1
      PROVE  /\ Laid(wit, coins)[i] \in [Points -> F]
             /\ \A x \in 0 .. SampleLen(i) - 1 : Laid(wit, coins)[i][x] = SamplesOf(wit, coins, i)[x]
  <2>1. PICK len \in {block, dblock} : len = SampleLen(i)
    BY DEF SampleLen
  <2>2. PICK y \in [0 .. len - 1 -> F] : y = SamplesOf(wit, coins, i)
    BY <2>1, SamplesIn
  <2>3. Laid(wit, coins)[i] = Extend(y)
    BY <2>2 DEF Laid
  <2>4. Extend(y) \in [Points -> F] /\ \A x \in 0 .. len - 1 : Extend(y)[x] = y[x]
    BY ExtendIs
  <2> QED
    BY <2>1, <2>2, <2>3, <2>4
<1> QED
  BY <1>1 DEF Filled

\* The slots of the rows.
LEMMA WitnessCell ==
  ASSUME NEW wit, NEW coins, Inputs(wit, coins), NEW i \in 0 .. nwrow - 1, NEW s \in Slots,
         Flat(i, s) < nw
  PROVE  Laid(wit, coins)[iw + i][s] = wit[Flat(i, s)]
<1>1. /\ nwrow \in Nat /\ nqtriples \in Nat /\ iw = 3 /\ iq = 3 + nwrow
      /\ nrow = 3 + nwrow + 3 * nqtriples /\ idot = 1 /\ iquad = 2
  BY Layout
<1>2. PICK j \in 0 .. nrow - 1 : j = iw + i /\ ~(j < iw) /\ j < iq /\ j - iw = i /\ j # idot /\ j # iquad
  BY <1>1
<1>3. SampleLen(j) = block /\ s \in 0 .. block - 1 /\ ~(s < r)
  BY <1>2, SlotsAre, Geometry DEF SampleLen
<1>4. Laid(wit, coins)[j][s] = SamplesOf(wit, coins, j)[s]
  BY <1>3, LaidFilled
<1>5. SamplesOf(wit, coins, j) = WitnessSamples(wit, coins, i)
  BY <1>2 DEF SamplesOf
<1>6. WitnessSamples(wit, coins, i)[s] = wit[i * w + s - r]
  BY <1>3 DEF WitnessSamples, Flat
<1> QED
  BY <1>2, <1>4, <1>5, <1>6 DEF Flat

LEMMA CopyCell ==
  ASSUME NEW wit, NEW coins, Inputs(wit, coins), NEW i \in 0 .. nqtriples - 1, NEW part \in 0 .. 2,
         NEW s \in Slots
  PROVE  /\ iq + part * nqtriples + i \in 0 .. nrow - 1
         /\ Laid(wit, coins)[iq + part * nqtriples + i][s]
              = IF Flat(i, s) < nq THEN OperandOf(wit, Flat(i, s), part) ELSE 0
<1>1. /\ nwrow \in Nat /\ nqtriples \in Nat /\ nqtriples >= 1 /\ iw = 3 /\ iq = 3 + nwrow
      /\ nrow = 3 + nwrow + 3 * nqtriples /\ idot = 1 /\ iquad = 2
  BY Layout
<1>2. PICK v \in Nat : v = part * nqtriples + i /\ v < 3 * nqtriples
  <2>1. part * nqtriples + i \in Nat /\ part * nqtriples + i < 3 * nqtriples
    BY <1>1, DigitsBound
  <2> QED
    BY <2>1
<1>3. v \div nqtriples = part /\ v % nqtriples = i
  <2>1. v \div nqtriples \in 0 .. 3 - 1 /\ v % nqtriples \in 0 .. nqtriples - 1
        /\ v = (v \div nqtriples) * nqtriples + (v % nqtriples)
    <3>1. 3 \in Nat
      OBVIOUS
    <3> QED
      BY <1>1, <1>2, <3>1, Digits
  <2>2. PICK d \in Int, m \in 0 .. nqtriples - 1 :
          d = v \div nqtriples /\ m = v % nqtriples /\ v = d * nqtriples + m
    BY <2>1
  <2>3. part \in Int /\ i \in Int /\ m \in Int /\ m - i < nqtriples /\ i - m < nqtriples
    BY <1>1
  <2>4. d * nqtriples + m = part * nqtriples + i
    BY <1>2, <2>2
  <2>5. d = part /\ m = i
    BY <1>1, <2>3, <2>4, DigitsUnique
  <2> QED
    BY <2>2, <2>5
<1>4. PICK j \in 0 .. nrow - 1 : /\ j = iq + part * nqtriples + i /\ ~(j < iw) /\ ~(j < iq)
                                 /\ j - iq = v /\ j # idot /\ j # iquad
  <2>1. PICK a \in Nat : a = part * nqtriples
    BY <1>1
  <2> QED
    BY <1>1, <1>2, <2>1
<1>5. SampleLen(j) = block /\ s \in 0 .. block - 1 /\ ~(s < r)
  BY <1>4, SlotsAre, Geometry DEF SampleLen
<1>6. Laid(wit, coins)[j][s] = SamplesOf(wit, coins, j)[s]
  BY <1>5, LaidFilled
<1>7. SamplesOf(wit, coins, j) = QuadraticSamples(wit, coins, i, part)
  BY <1>3, <1>4 DEF SamplesOf
<1>8. QuadraticSamples(wit, coins, i, part)[s]
        = IF Flat(i, s) < nq THEN OperandOf(wit, Flat(i, s), part) ELSE 0
  BY <1>5 DEF QuadraticSamples, Flat
<1> QED
  BY <1>4, <1>6, <1>7, <1>8

LEMMA SizeIs ==
  /\ w \in Nat /\ nwrow * w \in Nat /\ nqtriples * w \in Nat /\ nwqrow * w \in Nat
  /\ nwqrow * w = nwrow * w + 3 * (nqtriples * w)
  /\ nw <= nwrow * w /\ nw <= nwqrow * w /\ nq <= nqtriples * w
<1>1. /\ w \in Nat /\ nwrow \in Nat /\ nqtriples \in Nat /\ nwqrow = nwrow + 3 * nqtriples
      /\ nw <= nwrow * w /\ nq <= nqtriples * w /\ nw \in Nat /\ nq \in Nat
  BY Layout, Geometry
<1>2. PICK a \in Nat, b \in Nat : a = nwrow * w /\ b = nqtriples * w
  BY <1>1
<1>3. nwqrow * w = a + 3 * b
  BY <1>1, <1>2
<1> QED
  BY <1>1, <1>2, <1>3

LEMMA AtWitness ==
  ASSUME NEW wit, NEW coins, Inputs(wit, coins), NEW v \in 0 .. nw - 1
  PROVE  v \in Nat /\ v < nwqrow * w /\ At(Laid(wit, coins), v) = wit[v]
<1>1. w \in Nat /\ w >= 1 /\ r \in Nat /\ nwrow \in Nat /\ nw \in Nat
  BY Geometry, Layout
<1>2. v \in Nat /\ v < nwrow * w /\ v < nwqrow * w
  BY <1>1, SizeIs
<1>3. v \div w \in 0 .. nwrow - 1 /\ v % w \in 0 .. w - 1 /\ v = (v \div w) * w + (v % w)
  BY <1>1, <1>2, Digits
<1>4. PICK d \in 0 .. nwrow - 1, m \in 0 .. w - 1 : d = v \div w /\ m = v % w /\ v = d * w + m
  BY <1>3
<1>5. PICK s \in Slots : s = r + m
  <2>1. r + m \in Slots
    BY <1>1 DEF Slots
  <2> QED
    BY <2>1
<1>6. Flat(d, s) = v
  <2>1. PICK a \in Int : a = d * w
    BY <1>1
  <2>2. Flat(d, s) = a + s - r
    BY <2>1 DEF Flat
  <2>3. v = a + m
    BY <1>4, <2>1
  <2> QED
    BY <1>1, <1>5, <2>2, <2>3
<1>7. Flat(d, s) < nw
  BY <1>1, <1>6
<1>8. Laid(wit, coins)[iw + d][s] = wit[v]
  BY <1>6, <1>7, WitnessCell
<1> QED
  BY <1>2, <1>4, <1>5, <1>8 DEF At

LEMMA AtCopy ==
  ASSUME NEW wit, NEW coins, Inputs(wit, coins), NEW e \in 0 .. nq - 1, NEW part \in 0 .. 2
  PROVE  /\ CopyOffset(part) + e \in Nat /\ CopyOffset(part) + e < nwqrow * w
         /\ At(Laid(wit, coins), CopyOffset(part) + e) = OperandOf(wit, e, part)
<1>1. /\ w \in Nat /\ w >= 1 /\ r \in Nat /\ nwrow \in Nat /\ nqtriples \in Nat /\ nq \in Nat
      /\ iw = 3 /\ iq = 3 + nwrow /\ nwqrow = nwrow + 3 * nqtriples /\ nwqrow \in Nat
  BY Geometry, Layout
<1>2. e \in Nat /\ e < nqtriples * w
  BY <1>1, SizeIs
<1>3. e \div w \in 0 .. nqtriples - 1 /\ e % w \in 0 .. w - 1 /\ e = (e \div w) * w + (e % w)
  BY <1>1, <1>2, Digits
<1>4. PICK d \in 0 .. nqtriples - 1, m \in 0 .. w - 1 : d = e \div w /\ m = e % w /\ e = d * w + m
  BY <1>3
<1>5. PICK s \in Slots : s = r + m
  <2>1. r + m \in Slots
    BY <1>1 DEF Slots
  <2> QED
    BY <2>1
<1>6. Flat(d, s) = e /\ Flat(d, s) < nq
  <2>1. PICK a \in Int : a = d * w
    BY <1>1
  <2>2. Flat(d, s) = a + s - r
    BY <2>1 DEF Flat
  <2>3. e = a + m /\ e < nq
    BY <1>1, <1>4, <2>1
  <2>4. Flat(d, s) = e
    BY <1>1, <1>5, <2>2, <2>3
  <2> QED
    BY <2>3, <2>4
<1>7. Laid(wit, coins)[iq + part * nqtriples + d][s] = OperandOf(wit, e, part)
  BY <1>6, CopyCell
<1>8. PICK j \in Nat : j = nwrow + part * nqtriples + d /\ j < nwqrow /\ iq + part * nqtriples + d = iw + j
  <2>1. part * nqtriples + d \in Nat /\ part * nqtriples + d < 3 * nqtriples /\ part * nqtriples \in Nat
    BY <1>1, DigitsBound
  <2>2. PICK a \in Nat : a = part * nqtriples /\ a + d < 3 * nqtriples
    BY <2>1
  <2>3. nwrow + a + d \in Nat /\ nwrow + a + d < nwqrow /\ iq + a + d = iw + (nwrow + a + d)
    BY <1>1, <2>2
  <2> QED
    BY <2>2, <2>3
<1>9. CopyOffset(part) + e = j * w + m
  <2>1. PICK a \in Nat : a = part * nqtriples
    BY <1>1
  <2>2. j = nwrow + a + d
    BY <1>8, <2>1
  <2>3. j * w = nwrow * w + a * w + d * w
    BY <1>1, <2>2
  <2>4. CopyOffset(part) = nwrow * w + a * w
    BY <2>1 DEF CopyOffset, ax_offset
  <2>5. nwrow * w \in Nat /\ a * w \in Nat /\ d * w \in Nat
    BY <1>1
  <2> QED
    BY <1>4, <2>3, <2>4, <2>5
<1>10. j * w + m \in Nat /\ j * w + m < nwqrow * w
  BY <1>1, <1>8, DigitsBound
<1>11. (j * w + m) \div w = j /\ (j * w + m) % w = m
  <2>1. PICK v \in Nat : v = j * w + m /\ v < nwqrow * w
    BY <1>10
  <2>2. v \div w \in 0 .. nwqrow - 1 /\ v % w \in 0 .. w - 1 /\ v = (v \div w) * w + (v % w)
    BY <1>1, <2>1, Digits
  <2>3. PICK a \in Int, b \in 0 .. w - 1 : a = v \div w /\ b = v % w /\ v = a * w + b
    BY <2>2
  <2>4. a * w + b = j * w + m /\ b \in Int /\ m \in Int /\ j \in Int /\ b - m < w /\ m - b < w
    BY <1>1, <2>1, <2>3
  <2>5. a = j /\ b = m
    BY <1>1, <2>4, DigitsUnique
  <2> QED
    BY <2>1, <2>3, <2>5
<1>12. At(Laid(wit, coins), CopyOffset(part) + e) = Laid(wit, coins)[iw + j][s]
  BY <1>5, <1>9, <1>11 DEF At
<1> QED
  BY <1>7, <1>8, <1>9, <1>10, <1>12

-----------------------------------------------------------------------------
(***************************************************************************)
(* The inner product of the coefficients and the tableau elements.         *)
(***************************************************************************)
\* The elements, weighted by the function h of their numbers.
Weighted(tab, h) == [s \in Slots |-> [i \in Rows |-> h[Flat(i, s)] * tab[iw + i][s]]]

FlatNat == \A i \in Rows, s \in Slots : Flat(i, s) \in Nat

LEMMA FlatIn == FlatNat
<1> SUFFICES ASSUME NEW i \in Rows, NEW s \in Slots PROVE Flat(i, s) \in Nat
  BY DEF FlatNat
<1>1. i \in Nat /\ w \in Nat /\ s \in Nat /\ s >= r /\ r \in Nat
  BY RowsAre, SlotsAre, Geometry
<1>2. i * w \in Nat
  BY <1>1
<1> QED
  BY <1>1, <1>2 DEF Flat

LEMMA WeightedIn ==
  ASSUME NEW tab, Filled(tab), NEW h \in Fn
  PROVE  /\ Weighted(tab, h) \in Grid(Slots, Rows) /\ Sum2(Slots, Weighted(tab, h)) \in Int
         /\ \A s \in Slots, i \in Rows :
              /\ Weighted(tab, h)[s][i] = h[Flat(i, s)] * tab[iw + i][s]
              /\ h[Flat(i, s)] \in Int /\ tab[iw + i][s] \in Int
<1>1. ASSUME NEW s \in Slots, NEW i \in Rows
      PROVE  /\ h[Flat(i, s)] \in Int /\ tab[iw + i][s] \in Int
             /\ h[Flat(i, s)] * tab[iw + i][s] \in Int
  <2>1. PICK a \in Int, b \in Int : a = h[Flat(i, s)] /\ b = tab[iw + i][s]
    BY CellIn, FlatIn DEF FlatNat, Fn
  <2>2. a * b \in Int
    OBVIOUS
  <2> QED
    BY <2>1, <2>2
<1>2. Weighted(tab, h) \in Grid(Slots, Rows)
  BY <1>1 DEF Weighted, Grid
<1>3. Sum2(Slots, Weighted(tab, h)) \in Int
  BY <1>2, RowsAre, Sum2Int
<1> QED
  BY <1>1, <1>2, <1>3 DEF Weighted

\* The weight a at the number u.
Spike(a, u) == [v \in Nat |-> a * If1(u = v)]

LEMMA SpikeIs ==
  ASSUME NEW tab, Filled(tab), NEW a \in Int, NEW u \in Nat, u < nwqrow * w
  PROVE  /\ Spike(a, u) \in Fn
         /\ Sum2(Slots, Weighted(tab, Spike(a, u))) = a * At(tab, u)
<1>1. ASSUME NEW v \in Nat PROVE If1(u = v) \in Int /\ a * If1(u = v) \in Int
  <2>1. PICK b \in Int : b = If1(u = v)
    BY If1In
  <2>2. a * b \in Int
    OBVIOUS
  <2> QED
    BY <2>1, <2>2
<1>2. Spike(a, u) \in Fn
  BY <1>1 DEF Spike, Fn
<1>3. PICK X, Z : X = Pick(tab, u) /\ Z = Weighted(tab, Spike(a, u))
  OBVIOUS
<1>4. X \in Grid(Slots, Rows) /\ At(tab, u) \in Int /\ Sum2(Slots, X) = At(tab, u)
  BY <1>3, PickIs
<1>5. /\ Z \in Grid(Slots, Rows)
      /\ \A s \in Slots, i \in Rows : /\ Z[s][i] = Spike(a, u)[Flat(i, s)] * tab[iw + i][s]
                                      /\ tab[iw + i][s] \in Int
  BY <1>2, <1>3, WeightedIn
<1>6. ASSUME NEW s \in Slots, NEW i \in Rows PROVE Z[s][i] = a * X[s][i] + 0 * X[s][i]
  <2>1. Flat(i, s) \in Nat
    BY FlatIn DEF FlatNat
  <2>2. PICK b \in Int, c \in Int : b = If1(u = Flat(i, s)) /\ c = tab[iw + i][s]
    BY <1>5, If1In
  <2>3. Z[s][i] = (a * b) * c
    BY <1>5, <2>1, <2>2 DEF Spike
  <2>4. X[s][i] = b * c
    BY <1>3, <2>2 DEF Pick
  <2>5. (a * b) * c = a * (b * c) + 0 * (b * c)
    OBVIOUS
  <2> QED
    BY <2>3, <2>4, <2>5
<1>7. 0 \in Int
  OBVIOUS
<1>8. Linear2(Slots, Rows, Z, a, X, 0, X)
  BY <1>4, <1>5, <1>6, <1>7 DEF Linear2
<1>9. Sum2(Slots, Z) = a * Sum2(Slots, X) + 0 * Sum2(Slots, X)
  BY <1>8, RowsAre, Sum2Linear
<1>10. PICK y \in Int : y = At(tab, u)
  BY <1>4
<1>11. Sum2(Slots, Z) = a * y + 0 * y
  BY <1>4, <1>9, <1>10
<1> QED
  BY <1>2, <1>3, <1>10, <1>11

\* The function h is a sum of functions.
Summed(T, k, h) ==
  /\ IsFiniteSet(T) /\ k \in [T -> Fn] /\ h \in Fn
  /\ \A v \in Nat : h[v] = SumFunction([t \in T |-> k[t][v]])

Totals(tab, T, k) == [t \in T |-> Sum2(Slots, Weighted(tab, k[t]))]

LEMMA WeightedSum ==
  ASSUME NEW tab, Filled(tab), NEW T, NEW k, NEW h, Summed(T, k, h)
  PROVE  /\ Totals(tab, T, k) \in [T -> Int]
         /\ Sum2(Slots, Weighted(tab, h)) = SumFunction(Totals(tab, T, k))
<1>1. /\ IsFiniteSet(T) /\ k \in [T -> Fn] /\ h \in Fn
      /\ \A v \in Nat : h[v] = SumFunction([t \in T |-> k[t][v]])
  BY DEF Summed
<1>2. PICK X : X = [t \in T |-> Weighted(tab, k[t])]
  OBVIOUS
<1>3. PICK Y : Y = Weighted(tab, h)
  OBVIOUS
<1>4. /\ Y \in Grid(Slots, Rows)
      /\ \A s \in Slots, i \in Rows : /\ Y[s][i] = h[Flat(i, s)] * tab[iw + i][s]
                                      /\ h[Flat(i, s)] \in Int /\ tab[iw + i][s] \in Int
  BY <1>1, <1>3, WeightedIn
<1>5. ASSUME NEW t \in T
      PROVE  /\ X[t] \in Grid(Slots, Rows)
             /\ \A s \in Slots, i \in Rows : /\ X[t][s][i] = k[t][Flat(i, s)] * tab[iw + i][s]
                                             /\ k[t][Flat(i, s)] \in Int
  <2>1. k[t] \in Fn /\ X[t] = Weighted(tab, k[t])
    BY <1>1, <1>2
  <2> QED
    BY <2>1, WeightedIn
<1>6. X \in [T -> Grid(Slots, Rows)]
  BY <1>2, <1>5
<1>7. ASSUME NEW s \in Slots, NEW i \in Rows PROVE Y[s][i] = SumFunction([t \in T |-> X[t][s][i]])
  <2>1. PICK v \in Nat : v = Flat(i, s)
    BY FlatIn DEF FlatNat
  <2>2. PICK c \in Int : c = tab[iw + i][s]
    BY <1>4
  <2>3. PICK f : f = [t \in T |-> k[t][v]]
    OBVIOUS
  <2>4. PICK g : g = [t \in T |-> X[t][s][i]]
    OBVIOUS
  <2>5. \A t \in T : k[t][v] \in Int /\ X[t][s][i] = k[t][v] * c
    BY <1>5, <2>1, <2>2
  <2>6. f \in [T -> Int]
    BY <2>3, <2>5
  <2>7. ASSUME NEW t \in T PROVE g[t] \in Int /\ g[t] = c * f[t] + 0 * f[t]
    <3>1. PICK b \in Int : b = f[t]
      BY <2>6
    <3>2. g[t] = b * c
      BY <2>3, <2>4, <2>5, <3>1
    <3>3. b * c \in Int /\ b * c = c * b + 0 * b
      OBVIOUS
    <3> QED
      BY <3>1, <3>2, <3>3
  <2>8. g \in [T -> Int]
    BY <2>4, <2>7
  <2>9. 0 \in Int
    OBVIOUS
  <2>10. Linear(T, g, c, f, 0, f)
    BY <2>6, <2>7, <2>8, <2>9 DEF Linear
  <2>11. SumFunction(g) = c * SumFunction(f) + 0 * SumFunction(f)
    BY <1>1, <2>10, SumLinear
  <2>12. PICK y \in Int : y = SumFunction(f)
    BY <1>1, <2>6, SumInt
  <2>13. h[v] = y
    BY <1>1, <2>3, <2>12
  <2>14. Y[s][i] = y * c
    BY <1>4, <2>1, <2>2, <2>13
  <2>15. SumFunction(g) = c * y + 0 * y
    BY <2>11, <2>12
  <2>16. y * c = c * y + 0 * y
    OBVIOUS
  <2> QED
    BY <2>4, <2>14, <2>15, <2>16
<1>8. Layers(T, Slots, Rows, X, Y)
  BY <1>4, <1>6, <1>7 DEF Layers
<1>9. /\ [t \in T |-> Sum2(Slots, X[t])] \in [T -> Int]
      /\ Sum2(Slots, Y) = SumFunction([t \in T |-> Sum2(Slots, X[t])])
  BY <1>1, <1>8, RowsAre, Sum2Layers
<1>10. [t \in T |-> Sum2(Slots, X[t])] = Totals(tab, T, k)
  BY <1>2 DEF Totals
<1> QED
  BY <1>3, <1>9, <1>10

LEMMA WeightedLinear ==
  ASSUME NEW tab, Filled(tab), NEW h, NEW a, NEW f, NEW b, NEW g,
         f \in Fn, g \in Fn, h \in Fn, a \in Int, b \in Int,
         \A v \in Nat : h[v] = a * f[v] + b * g[v]
  PROVE  Sum2(Slots, Weighted(tab, h)) = a * Sum2(Slots, Weighted(tab, f)) + b * Sum2(Slots, Weighted(tab, g))
<1>1. PICK X, Y, Z : X = Weighted(tab, f) /\ Y = Weighted(tab, g) /\ Z = Weighted(tab, h)
  OBVIOUS
<1>2. /\ X \in Grid(Slots, Rows)
      /\ \A s \in Slots, i \in Rows : /\ X[s][i] = f[Flat(i, s)] * tab[iw + i][s]
                                      /\ f[Flat(i, s)] \in Int /\ tab[iw + i][s] \in Int
  BY <1>1, WeightedIn
<1>3. /\ Y \in Grid(Slots, Rows)
      /\ \A s \in Slots, i \in Rows : Y[s][i] = g[Flat(i, s)] * tab[iw + i][s] /\ g[Flat(i, s)] \in Int
  BY <1>1, WeightedIn
<1>4. /\ Z \in Grid(Slots, Rows)
      /\ \A s \in Slots, i \in Rows : Z[s][i] = h[Flat(i, s)] * tab[iw + i][s]
  BY <1>1, WeightedIn
<1>5. ASSUME NEW s \in Slots, NEW i \in Rows PROVE Z[s][i] = a * X[s][i] + b * Y[s][i]
  <2>1. PICK v \in Nat : v = Flat(i, s)
    BY FlatIn DEF FlatNat
  <2>2. PICK x \in Int, y \in Int, c \in Int : x = f[v] /\ y = g[v] /\ c = tab[iw + i][s]
    BY <1>2, <1>3, <2>1
  <2>3. X[s][i] = x * c /\ Y[s][i] = y * c
    BY <1>2, <1>3, <2>1, <2>2
  <2>4. Z[s][i] = (a * x + b * y) * c
    BY <1>4, <2>1, <2>2
  <2>5. (a * x + b * y) * c = a * (x * c) + b * (y * c)
    OBVIOUS
  <2> QED
    BY <2>3, <2>4, <2>5
<1>6. Linear2(Slots, Rows, Z, a, X, b, Y)
  BY <1>2, <1>3, <1>4, <1>5 DEF Linear2
<1> QED
  BY <1>1, <1>6, RowsAre, Sum2Linear

\* The linear terms.
LinearFn(ask) == [v \in Nat |-> SumFunction(LinearTerms(ask, v))]

LinearSpike(ask, t) == Spike(llterm[t].k * AlphaL(ask, llterm[t].c), llterm[t].w)

\* The terms of all equations at the witness, each times its challenge.
LinearTotals(wit, ask) ==
  [t \in 1 .. Len(llterm) |-> (llterm[t].k * AlphaL(ask, llterm[t].c)) * wit[llterm[t].w]]

LEMMA LinearSum ==
  ASSUME NEW wit, NEW coins, Inputs(wit, coins), NEW ask, Challenges(ask)
  PROVE  /\ LinearFn(ask) \in Fn /\ LinearTotals(wit, ask) \in [1 .. Len(llterm) -> Int]
         /\ Sum2(Slots, Weighted(Laid(wit, coins), LinearFn(ask))) = SumFunction(LinearTotals(wit, ask))
<1>1. PICK T : T = 1 .. Len(llterm)
  OBVIOUS
<1>2. IsFiniteSet(T)
  BY <1>1, Finite1
<1>3. PICK tab : tab = Laid(wit, coins) /\ Filled(tab)
  BY LaidFilled
<1>4. PICK k : k = [t \in T |-> LinearSpike(ask, t)]
  OBVIOUS
<1>5. ASSUME NEW t \in T
      PROVE  /\ k[t] \in Fn
             /\ Sum2(Slots, Weighted(tab, k[t])) = LinearTotals(wit, ask)[t]
             /\ LinearTotals(wit, ask)[t] \in Int
             /\ \A v \in Nat : k[t][v] = LinearTerms(ask, v)[t]
  <2>1. PICK a \in Int, b \in Int, u \in 0 .. nw - 1 :
          a = llterm[t].k /\ b = AlphaL(ask, llterm[t].c) /\ u = llterm[t].w
    BY <1>1, TermsIn, ChallengesIn, FInt
  <2>2. u \in Nat /\ u < nwqrow * w /\ At(tab, u) = wit[u]
    BY <1>3, AtWitness
  <2>3. PICK c \in Int : c = a * b
    OBVIOUS
  <2>4. k[t] = Spike(c, u)
    BY <1>4, <2>1, <2>3 DEF LinearSpike
  <2>5. Spike(c, u) \in Fn /\ Sum2(Slots, Weighted(tab, Spike(c, u))) = c * At(tab, u)
    BY <1>3, <2>2, SpikeIs
  <2>6. LinearTotals(wit, ask)[t] = c * wit[u]
    BY <1>1, <2>1, <2>3 DEF LinearTotals
  <2>7. c * wit[u] \in Int
    <3>1. PICK y \in Int : y = wit[u]
      BY FInt DEF Inputs
    <3>2. c * y \in Int
      OBVIOUS
    <3> QED
      BY <3>1, <3>2
  <2>8. ASSUME NEW v \in Nat PROVE k[t][v] = LinearTerms(ask, v)[t]
    <3>1. PICK y \in Int : y = If1(u = v)
      BY If1In
    <3>2. k[t][v] = c * y
      BY <2>4, <3>1 DEF Spike
    <3>3. LinearTerms(ask, v)[t] = y * a * b
      BY <1>1, <2>1, <3>1 DEF LinearTerms
    <3>4. y * a * b = (a * b) * y
      OBVIOUS
    <3> QED
      BY <2>3, <3>2, <3>3, <3>4
  <2> QED
    BY <2>2, <2>4, <2>5, <2>6, <2>7, <2>8
<1>6. LinearTotals(wit, ask) \in [T -> Int]
  BY <1>1, <1>5 DEF LinearTotals
<1>7. \A v \in Nat : LinearTerms(ask, v) \in [T -> Int]
  BY <1>1, LinearTermsIn
<1>8. ASSUME NEW v \in Nat PROVE [t \in T |-> k[t][v]] = LinearTerms(ask, v)
  BY <1>5, <1>7
<1>9. \A v \in Nat : SumFunction(LinearTerms(ask, v)) \in Int
  BY <1>2, <1>7, SumInt
<1>10. LinearFn(ask) \in Fn
  BY <1>9 DEF LinearFn, Fn
<1>11. \A v \in Nat : LinearFn(ask)[v] = SumFunction([t \in T |-> k[t][v]])
  BY <1>8 DEF LinearFn
<1>12. k \in [T -> Fn]
  BY <1>4, <1>5
<1>13. Summed(T, k, LinearFn(ask))
  BY <1>2, <1>10, <1>11, <1>12 DEF Summed
<1>14. Sum2(Slots, Weighted(tab, LinearFn(ask))) = SumFunction(Totals(tab, T, k))
  BY <1>3, <1>13, WeightedSum
<1>15. Totals(tab, T, k) = LinearTotals(wit, ask)
  BY <1>5, <1>6 DEF Totals
<1> QED
  BY <1>1, <1>3, <1>6, <1>10, <1>14, <1>15

\* The copy terms: what one weighs, the other takes away.
CopyPart(ask, e, part) ==
  [v \in Nat |-> AlphaQ(ask, e, part) * (If1(v = CopyOffset(part) + e) - If1(v = OperandAt(e, part)))]

CopyFn(ask, e) == [v \in Nat |-> SumFunction(CopyTerms(ask, v, e))]

CopyAll(ask) == [v \in Nat |-> SumFunction([e \in 0 .. nq - 1 |-> CopyFn(ask, e)[v]])]

LEMMA CopyPartSum ==
  ASSUME NEW wit, NEW coins, Inputs(wit, coins), NEW ask, Challenges(ask),
         NEW e \in 0 .. nq - 1, NEW part \in 0 .. 2
  PROVE  /\ CopyPart(ask, e, part) \in Fn
         /\ Sum2(Slots, Weighted(Laid(wit, coins), CopyPart(ask, e, part))) = 0
<1>1. PICK tab : tab = Laid(wit, coins) /\ Filled(tab)
  BY LaidFilled
<1>2. PICK a \in Int : a = AlphaQ(ask, e, part)
  BY ChallengesIn, FInt
<1>3. PICK u \in Nat : u = CopyOffset(part) + e /\ u < nwqrow * w /\ At(tab, u) = OperandOf(wit, e, part)
  BY <1>1, AtCopy
<1>4. PICK o \in 0 .. nw - 1 : o = OperandAt(e, part) /\ OperandOf(wit, e, part) = wit[o]
  <2>1. wit \in [0 .. nw - 1 -> F]
    BY DEF Inputs
  <2>2. OperandAt(e, part) \in 0 .. nw - 1
    BY <2>1, OperandIn DEF OperandAt
  <2> QED
    BY <2>2 DEF OperandOf, OperandAt
<1>5. o \in Nat /\ o < nwqrow * w /\ At(tab, o) = wit[o]
  BY <1>1, AtWitness
<1>6. PICK f \in Fn : f = Spike(a, u) /\ Sum2(Slots, Weighted(tab, f)) = a * At(tab, u)
  BY <1>1, <1>3, SpikeIs
<1>7. PICK g \in Fn : g = Spike(a, o) /\ Sum2(Slots, Weighted(tab, g)) = a * At(tab, o)
  BY <1>1, <1>5, SpikeIs
<1>8. PICK h : h = CopyPart(ask, e, part)
  OBVIOUS
<1>9. ASSUME NEW v \in Nat PROVE h[v] \in Int /\ h[v] = 1 * f[v] + (-1) * g[v]
  <2>1. PICK x \in Int, y \in Int : x = If1(v = u) /\ y = If1(v = o)
    BY If1In
  <2>2. x = If1(u = v) /\ y = If1(o = v)
    BY <2>1 DEF If1
  <2>3. h[v] = a * (x - y)
    BY <1>2, <1>3, <1>4, <1>8, <2>1 DEF CopyPart
  <2>4. f[v] = a * x /\ g[v] = a * y
    BY <1>6, <1>7, <2>2 DEF Spike
  <2>5. a * (x - y) = 1 * (a * x) + (-1) * (a * y) /\ a * (x - y) \in Int
    OBVIOUS
  <2> QED
    BY <2>3, <2>4, <2>5
<1>10. h \in Fn
  BY <1>8, <1>9 DEF CopyPart, Fn
<1>11. 1 \in Int /\ -1 \in Int
  OBVIOUS
<1>12. Sum2(Slots, Weighted(tab, h))
         = 1 * Sum2(Slots, Weighted(tab, f)) + (-1) * Sum2(Slots, Weighted(tab, g))
  BY <1>1, <1>9, <1>10, <1>11, WeightedLinear
<1>13. PICK y \in Int : y = wit[o]
  BY FInt DEF Inputs
<1>14. Sum2(Slots, Weighted(tab, h)) = 1 * (a * y) + (-1) * (a * y)
  BY <1>3, <1>4, <1>5, <1>6, <1>7, <1>12, <1>13
<1>15. 1 * (a * y) + (-1) * (a * y) = 0
  OBVIOUS
<1> QED
  BY <1>1, <1>8, <1>10, <1>14, <1>15

LEMMA CopySum ==
  ASSUME NEW wit, NEW coins, Inputs(wit, coins), NEW ask, Challenges(ask), NEW e \in 0 .. nq - 1
  PROVE  /\ CopyFn(ask, e) \in Fn
         /\ Sum2(Slots, Weighted(Laid(wit, coins), CopyFn(ask, e))) = 0
<1>1. PICK tab : tab = Laid(wit, coins) /\ Filled(tab)
  BY LaidFilled
<1>2. PICK T : T = 0 .. 2
  OBVIOUS
<1>3. IsFiniteSet(T)
  <2>1. 2 \in Int
    OBVIOUS
  <2>2. IsFiniteSet(0 .. 2)
    BY <2>1, Finite, Zenon
  <2> QED
    BY <1>2, <2>2
<1>4. PICK k : k = [part \in T |-> CopyPart(ask, e, part)]
  OBVIOUS
<1>5. ASSUME NEW part \in T
      PROVE  k[part] \in Fn /\ Sum2(Slots, Weighted(tab, k[part])) = 0
  BY <1>1, <1>2, <1>4, CopyPartSum
<1>6. \A v \in Nat : CopyTerms(ask, v, e) \in [T -> Int]
  BY <1>2, CopyTermsIn
<1>7. ASSUME NEW v \in Nat PROVE [part \in T |-> k[part][v]] = CopyTerms(ask, v, e)
  <2>1. \A part \in T : k[part][v] = CopyTerms(ask, v, e)[part]
    BY <1>2, <1>4 DEF CopyPart, CopyTerms
  <2> QED
    BY <1>6, <2>1
<1>8. \A v \in Nat : SumFunction(CopyTerms(ask, v, e)) \in Int
  BY <1>3, <1>6, SumInt
<1>9. CopyFn(ask, e) \in Fn
  BY <1>8 DEF CopyFn, Fn
<1>10. \A v \in Nat : CopyFn(ask, e)[v] = SumFunction([part \in T |-> k[part][v]])
  BY <1>7 DEF CopyFn
<1>11. Summed(T, k, CopyFn(ask, e))
  BY <1>3, <1>4, <1>5, <1>9, <1>10 DEF Summed
<1>12. /\ Totals(tab, T, k) \in [T -> Int]
       /\ Sum2(Slots, Weighted(tab, CopyFn(ask, e))) = SumFunction(Totals(tab, T, k))
  BY <1>1, <1>11, WeightedSum
<1>13. \A t \in T : Totals(tab, T, k)[t] = 0
  BY <1>5 DEF Totals
<1>14. SumFunction(Totals(tab, T, k)) = 0
  BY <1>3, <1>12, <1>13, SumZero
<1> QED
  BY <1>1, <1>9, <1>12, <1>14

LEMMA CopyAllSum ==
  ASSUME NEW wit, NEW coins, Inputs(wit, coins), NEW ask, Challenges(ask)
  PROVE  /\ CopyAll(ask) \in Fn
         /\ Sum2(Slots, Weighted(Laid(wit, coins), CopyAll(ask))) = 0
<1>1. PICK tab : tab = Laid(wit, coins) /\ Filled(tab)
  BY LaidFilled
<1>2. PICK T : T = 0 .. nq - 1
  OBVIOUS
<1>3. IsFiniteSet(T)
  BY <1>2, Finite, Geometry
<1>4. PICK k : k = [e \in T |-> CopyFn(ask, e)]
  OBVIOUS
<1>5. ASSUME NEW e \in T
      PROVE  k[e] \in Fn /\ Sum2(Slots, Weighted(tab, k[e])) = 0
  BY <1>1, <1>2, <1>4, CopySum
<1>6. k \in [T -> Fn]
  BY <1>4, <1>5
<1>7. ASSUME NEW v \in Nat
      PROVE  /\ [e \in T |-> k[e][v]] \in [T -> Int]
             /\ CopyAll(ask)[v] = SumFunction([e \in T |-> k[e][v]])
  <2>1. \A e \in T : k[e][v] \in Int /\ k[e][v] = CopyFn(ask, e)[v]
    BY <1>4, <1>6 DEF Fn
  <2>2. [e \in T |-> k[e][v]] = [e \in T |-> CopyFn(ask, e)[v]]
    BY <2>1
  <2>3. CopyAll(ask)[v] = SumFunction([e \in T |-> CopyFn(ask, e)[v]])
    BY <1>2 DEF CopyAll
  <2> QED
    BY <2>1, <2>2, <2>3
<1>8. \A v \in Nat : CopyAll(ask)[v] \in Int
  BY <1>3, <1>7, SumInt
<1>9. CopyAll(ask) \in Fn
  BY <1>8 DEF CopyAll, Fn
<1>10. Summed(T, k, CopyAll(ask))
  BY <1>3, <1>6, <1>7, <1>9 DEF Summed
<1>11. /\ Totals(tab, T, k) \in [T -> Int]
       /\ Sum2(Slots, Weighted(tab, CopyAll(ask))) = SumFunction(Totals(tab, T, k))
  BY <1>1, <1>10, WeightedSum
<1>12. \A t \in T : Totals(tab, T, k)[t] = 0
  BY <1>5 DEF Totals
<1>13. SumFunction(Totals(tab, T, k)) = 0
  BY <1>3, <1>11, <1>12, SumZero
<1> QED
  BY <1>1, <1>9, <1>11, <1>13

IpvFn(ask) == [v \in Nat |-> IpvOf(ask, v)]

LEMMA IpvFnIs ==
  ASSUME NEW ask, Challenges(ask), LinearFn(ask) \in Fn, CopyAll(ask) \in Fn
  PROVE  IpvFn(ask) \in Fn /\ \A v \in Nat : Eq(IpvFn(ask)[v], LinearFn(ask)[v] + CopyAll(ask)[v])
<1>1. IpvFn(ask) \in Fn
  <2>1. \A v \in Nat : IpvOf(ask, v) \in Int
    BY IpvIn, FInt
  <2> QED
    BY <2>1 DEF IpvFn, Fn
<1>2. ASSUME NEW v \in Nat PROVE Eq(IpvFn(ask)[v], LinearFn(ask)[v] + CopyAll(ask)[v])
  <2>1. PICK T : T = 0 .. nq - 1
    OBVIOUS
  <2>2. IsFiniteSet(T)
    BY <2>1, Finite, Geometry
  <2>3. PICK f : f = CopySums(ask, v)
    OBVIOUS
  <2>4. PICK g : g = [e \in T |-> CopyFn(ask, e)[v]]
    OBVIOUS
  <2>5. ASSUME NEW e \in T PROVE f[e] \in Int /\ g[e] \in Int /\ Eq(f[e], g[e])
    <3>1. PICK c : c = CopyTerms(ask, v, e)
      OBVIOUS
    <3>2. c \in [0 .. 2 -> Int]
      BY <2>1, <3>1, CopyTermsIn
    <3>3. IsFiniteSet(0 .. 2)
      <4>1. 2 \in Int
        OBVIOUS
      <4> QED
        BY <4>1, Finite, Zenon
    <3>4. Sum(c) \in Int /\ Eq(Sum(c), SumFunction(c)) /\ SumFunction(c) \in Int
      BY <3>2, <3>3, SumIn, SumInt
    <3>5. f[e] = Sum(c)
      BY <2>1, <2>3, <3>1 DEF CopySums
    <3>6. g[e] = SumFunction(c)
      BY <2>4, <3>1 DEF CopyFn
    <3> QED
      BY <3>4, <3>5, <3>6
  <2>6. f \in [T -> Int]
    BY <2>1, <2>3, <2>5 DEF CopySums
  <2>7. g \in [T -> Int]
    BY <2>4, <2>5
  <2>8. EqOn(T, f, g)
    BY <2>5, <2>6, <2>7 DEF EqOn
  <2>9. Eq(SumFunction(f), SumFunction(g))
    BY <2>2, <2>8, SumEq
  <2>10. PICK x \in Int, y \in Int : x = SumFunction(f) /\ y = SumFunction(g)
    BY <2>2, <2>6, <2>7, SumInt
  <2>11. CopyAll(ask)[v] = y
    BY <2>1, <2>4, <2>10 DEF CopyAll
  <2>12. PICK l \in Int : l = LinearFn(ask)[v] /\ l = SumFunction(LinearTerms(ask, v))
    BY DEF LinearFn, Fn
  <2>13. PICK z \in Int : z = IpvFn(ask)[v] /\ Eq(z, l + x)
    <3>1. IpvFn(ask)[v] \in Int /\ IpvFn(ask)[v] = IpvOf(ask, v)
      BY <1>1 DEF IpvFn, Fn
    <3>2. Eq(IpvOf(ask, v), SumFunction(LinearTerms(ask, v)) + SumFunction(CopySums(ask, v)))
      BY IpvIn
    <3> QED
      BY <2>3, <2>10, <2>12, <3>1, <3>2
  <2>14. Eq(x, y)
    BY <2>9, <2>10
  <2>15. Eq(l, l)
    BY EqRefl
  <2>16. Eq(l + x, l + y)
    BY <2>14, <2>15, EqAdd, Zenon
  <2>17. l + x \in Int /\ l + y \in Int
    OBVIOUS
  <2>18. Eq(z, l + y)
    BY <2>13, <2>16, <2>17, EqTrans
  <2> QED
    BY <2>11, <2>12, <2>13, <2>18
<1> QED
  BY <1>1, <1>2

LEMMA InnerProductIs ==
  ASSUME NEW wit, NEW coins, Inputs(wit, coins), NEW ask, Challenges(ask)
  PROVE  /\ IpvFn(ask) \in Fn
         /\ Eq(Sum2(Slots, Weighted(Laid(wit, coins), IpvFn(ask))), SumFunction(LinearTotals(wit, ask)))
<1>1. PICK tab : tab = Laid(wit, coins) /\ Filled(tab)
  BY LaidFilled
<1>2. PICK f \in Fn : f = LinearFn(ask) /\ Sum2(Slots, Weighted(tab, f)) = SumFunction(LinearTotals(wit, ask))
  BY <1>1, LinearSum
<1>3. PICK g \in Fn : g = CopyAll(ask) /\ Sum2(Slots, Weighted(tab, g)) = 0
  BY <1>1, CopyAllSum
<1>4. PICK p \in Fn : p = IpvFn(ask) /\ \A v \in Nat : Eq(p[v], f[v] + g[v])
  BY <1>2, <1>3, IpvFnIs
<1>5. PICK h : h = [v \in Nat |-> f[v] + g[v]]
  OBVIOUS
<1>6. \A v \in Nat : f[v] \in Int /\ g[v] \in Int
  BY DEF Fn
<1>7. \A v \in Nat : f[v] + g[v] \in Int /\ f[v] + g[v] = 1 * f[v] + 1 * g[v]
  BY <1>6
<1>8. h \in Fn /\ \A v \in Nat : h[v] = 1 * f[v] + 1 * g[v]
  BY <1>5, <1>7 DEF Fn
<1>9. 1 \in Int
  OBVIOUS
<1>10. Sum2(Slots, Weighted(tab, h)) = 1 * Sum2(Slots, Weighted(tab, f)) + 1 * Sum2(Slots, Weighted(tab, g))
  BY <1>1, <1>8, <1>9, WeightedLinear
<1>11. Sum2(Slots, Weighted(tab, f)) \in Int
  BY <1>1, WeightedIn
<1>12. Sum2(Slots, Weighted(tab, h)) = SumFunction(LinearTotals(wit, ask))
  BY <1>2, <1>3, <1>10, <1>11
<1>13. PICK X, Y : X = Weighted(tab, p) /\ Y = Weighted(tab, h)
  OBVIOUS
<1>14. /\ X \in Grid(Slots, Rows)
       /\ \A s \in Slots, i \in Rows : /\ X[s][i] = p[Flat(i, s)] * tab[iw + i][s]
                                       /\ p[Flat(i, s)] \in Int /\ tab[iw + i][s] \in Int
  BY <1>1, <1>13, WeightedIn
<1>15. /\ Y \in Grid(Slots, Rows)
       /\ \A s \in Slots, i \in Rows : /\ Y[s][i] = h[Flat(i, s)] * tab[iw + i][s]
                                       /\ h[Flat(i, s)] \in Int
  BY <1>1, <1>8, <1>13, WeightedIn
<1>16. ASSUME NEW s \in Slots, NEW i \in Rows PROVE Eq(X[s][i], Y[s][i])
  <2>1. PICK v \in Nat : v = Flat(i, s)
    BY FlatIn DEF FlatNat
  <2>2. PICK x \in Int, y \in Int, c \in Int : x = p[v] /\ y = h[v] /\ c = tab[iw + i][s]
    BY <1>14, <1>15, <2>1
  <2>3. Eq(x, y) /\ Eq(c, c)
    BY <1>4, <1>5, <2>2, EqRefl
  <2>4. Eq(x * c, y * c)
    BY <2>3, EqMul, Zenon
  <2> QED
    BY <1>14, <1>15, <2>1, <2>2, <2>4
<1>17. Eq(Sum2(Slots, X), Sum2(Slots, Y))
  BY <1>14, <1>15, <1>16, RowsAre, Sum2Eq
<1> QED
  BY <1>1, <1>4, <1>12, <1>13, <1>17

\* Without the coefficients at the points: what the witness slots of the
\* second response sum to.
LEMMA CoefAtSlot ==
  ASSUME NEW ask, Challenges(ask), NEW i \in Rows, NEW s \in Slots
  PROVE  CoefAt(ask, s)[i] = IpvFn(ask)[Flat(i, s)]
<1>1. PICK y \in [0 .. block - 1 -> F] : y = CoefSamples(ask, i)
  BY CoefsFollow DEF Rows
<1>2. block \in {block, dblock}
  OBVIOUS
<1>3. s \in 0 .. block - 1
  BY SlotsAre
<1>4. Extend(y)[s] = y[s]
  BY <1>2, <1>3, ExtendIs
<1>5. CoefAt(ask, s)[i] = Extend(y)[s]
  BY <1>1 DEF CoefAt, CoefsOf, Rows
<1>6. y[s] = IpvOf(ask, i * w + s - r)
  BY <1>1, <1>3 DEF CoefSamples
<1>7. Flat(i, s) \in Nat
  BY FlatIn DEF FlatNat
<1>8. IpvFn(ask)[Flat(i, s)] = IpvOf(ask, i * w + s - r)
  BY <1>7 DEF IpvFn, Flat
<1> QED
  BY <1>4, <1>5, <1>6, <1>8

LEMMA DotAtSlot ==
  ASSUME NEW tab, Filled(tab), NEW ask, Challenges(ask), IpvFn(ask) \in Fn, NEW s \in Slots
  PROVE  /\ DotRow(tab, ask)[s] \in F /\ DotRow(tab, ask)[s] \in Int /\ tab[idot][s] \in Int
         /\ SumFunction(Weighted(tab, IpvFn(ask))[s]) \in Int
         /\ Eq(DotRow(tab, ask)[s], tab[idot][s] + SumFunction(Weighted(tab, IpvFn(ask))[s]))
<1>1. PICK W : W = Weighted(tab, IpvFn(ask))
  OBVIOUS
<1>2. /\ W \in Grid(Slots, Rows)
      /\ \A i \in Rows : W[s][i] = IpvFn(ask)[Flat(i, s)] * tab[iw + i][s]
  BY <1>1, WeightedIn
<1>3. W[s] \in [Rows -> Int]
  BY <1>2 DEF Grid
<1>4. PICK g : g = [i \in Rows |-> CoefAt(ask, s)[i] * Col(tab, s)[iw + i]]
  OBVIOUS
<1>5. ASSUME NEW i \in Rows PROVE g[i] = W[s][i]
  <2>1. Col(tab, s)[iw + i] = tab[iw + i][s]
    BY RowsAre DEF Col
  <2>2. CoefAt(ask, s)[i] = IpvFn(ask)[Flat(i, s)]
    BY CoefAtSlot
  <2> QED
    BY <1>2, <1>4, <2>1, <2>2
<1>6. g = W[s]
  BY <1>3, <1>4, <1>5
<1>7. EqOn(Rows, g, g)
  BY <1>3, <1>6, EqRefl DEF EqOn
<1>8. idot \in 0 .. nrow - 1 /\ s \in Points
  BY Layout, SlotsAre
<1>9. PICK v \in Int : v = tab[idot][s] /\ Col(tab, s)[idot] = v
  <2>1. tab[idot] \in [Points -> F]
    BY <1>8 DEF Filled
  <2> QED
    BY <1>8, <2>1, FInt DEF Col
<1>10. DotRow(tab, ask)[s] = (v + Sum(g)) % q
  BY <1>4, <1>8, <1>9 DEF DotRow, DotAt, Rows
<1>11. Eq(v, v)
  BY EqRefl
<1>12. (v + Sum(g)) % q \in F /\ Eq((v + Sum(g)) % q, v + SumFunction(g))
  BY <1>7, <1>11, RowsAre, MixAt
<1>13. SumFunction(g) \in Int
  BY <1>3, <1>6, RowsAre, SumInt
<1> QED
  BY <1>1, <1>6, <1>9, <1>10, <1>12, <1>13, FInt

\* The mask of the second response does not show in the sum over the slots.
LEMMA DotMaskSum ==
  ASSUME NEW wit, NEW coins, Inputs(wit, coins)
  PROVE  /\ [s \in Slots |-> Laid(wit, coins)[idot][s]] \in [Slots -> Int]
         /\ Eq(SumFunction([s \in Slots |-> Laid(wit, coins)[idot][s]]), 0)
<1>1. idot = 1 /\ idot \in 0 .. nrow - 1 /\ idot < iw /\ idot # ildt
  BY Layout
<1>2. SampleLen(idot) = dblock
  BY DEF SampleLen
<1>3. SamplesOf(wit, coins, idot) = DotMask(DrawOf(coins, block, dblock))
  BY <1>1 DEF SamplesOf, BlindingSamples
<1>4. DrawOf(coins, block, dblock) \in [0 .. dblock - 1 -> F]
  <2>1. coins \in [0 .. NCoins - 1 -> F] /\ block \in Nat /\ dblock \in Nat /\ block + dblock <= block + 2 * dblock
    BY Geometry DEF Inputs
  <2> QED
    BY <2>1, DrawIn
<1>5. PICK d : d = DotMask(DrawOf(coins, block, dblock))
  OBVIOUS
<1>6. [s \in Slots |-> d[s]] \in [Slots -> Int] /\ Eq(SumFunction([s \in Slots |-> d[s]]), 0)
  BY <1>4, <1>5, DotMaskIs
<1>7. \A s \in Slots : Laid(wit, coins)[idot][s] = d[s]
  BY <1>1, <1>2, <1>3, <1>5, LaidFilled, SlotsAre
<1>8. [s \in Slots |-> Laid(wit, coins)[idot][s]] = [s \in Slots |-> d[s]]
  BY <1>7
<1> QED
  BY <1>6, <1>8

LEMMA DotSum ==
  ASSUME NEW wit, NEW coins, Inputs(wit, coins), NEW ask, Challenges(ask)
  PROVE  /\ [s \in Slots |-> DotRow(Laid(wit, coins), ask)[s]] \in [Slots -> Int]
         /\ LinearTotals(wit, ask) \in [1 .. Len(llterm) -> Int]
         /\ Eq(SumFunction([s \in Slots |-> DotRow(Laid(wit, coins), ask)[s]]),
               SumFunction(LinearTotals(wit, ask)))
<1>1. PICK tab : tab = Laid(wit, coins) /\ Filled(tab)
  BY LaidFilled
<1>2. PICK p \in Fn : p = IpvFn(ask) /\ Eq(Sum2(Slots, Weighted(tab, p)), SumFunction(LinearTotals(wit, ask)))
  BY <1>1, InnerProductIs
<1>3. PICK W : W = Weighted(tab, p) /\ W \in Grid(Slots, Rows)
  BY <1>1, WeightedIn
<1>4. PICK f \in [Slots -> Int] : f = [s \in Slots |-> tab[idot][s]] /\ Eq(SumFunction(f), 0)
  BY <1>1, DotMaskSum
<1>5. PICK g : g = Inner(Slots, W)
  OBVIOUS
<1>6. g \in [Slots -> Int] /\ \A s \in Slots : g[s] = SumFunction(W[s])
  BY <1>3, <1>5, RowsAre, InnerIn
<1>7. PICK d : d = [s \in Slots |-> DotRow(tab, ask)[s]]
  OBVIOUS
<1>8. PICK h : h = [s \in Slots |-> f[s] + g[s]]
  OBVIOUS
<1>9. ASSUME NEW s \in Slots
      PROVE  d[s] \in Int /\ h[s] \in Int /\ h[s] = 1 * f[s] + 1 * g[s] /\ Eq(d[s], h[s])
  <2>1. /\ DotRow(tab, ask)[s] \in Int
        /\ Eq(DotRow(tab, ask)[s], tab[idot][s] + SumFunction(W[s]))
    BY <1>1, <1>2, <1>3, DotAtSlot
  <2>2. PICK x \in Int, y \in Int : x = f[s] /\ y = g[s]
    BY <1>6
  <2>3. h[s] = x + y
    BY <1>8, <2>2
  <2>4. tab[idot][s] = x /\ SumFunction(W[s]) = y
    BY <1>4, <1>6, <2>2
  <2> QED
    BY <1>7, <2>1, <2>2, <2>3, <2>4
<1>10. d \in [Slots -> Int] /\ h \in [Slots -> Int] /\ 1 \in Int
  BY <1>7, <1>8, <1>9
<1>11. Linear(Slots, h, 1, f, 1, g)
  BY <1>6, <1>9, <1>10 DEF Linear
<1>12. SumFunction(h) = 1 * SumFunction(f) + 1 * SumFunction(g)
  BY <1>11, RowsAre, SumLinear
<1>13. EqOn(Slots, d, h)
  BY <1>9, <1>10 DEF EqOn
<1>14. Eq(SumFunction(d), SumFunction(h))
  BY <1>13, RowsAre, SumEq
<1>15. LinearTotals(wit, ask) \in [1 .. Len(llterm) -> Int]
  BY LinearSum
<1>16. PICK sd \in Int, sh \in Int, sf \in Int, sg \in Int, sl \in Int :
         /\ sd = SumFunction(d) /\ sh = SumFunction(h) /\ sf = SumFunction(f) /\ sg = SumFunction(g)
         /\ sl = SumFunction(LinearTotals(wit, ask))
  BY <1>6, <1>10, <1>15, Finite1, RowsAre, SumInt
<1>17. Eq(sg, sl)
  BY <1>2, <1>3, <1>5, <1>16 DEF Sum2
<1>18. Eq(sf, 0)
  BY <1>4, <1>16
<1>19. sh = sf + sg
  BY <1>12, <1>16
<1>20. Eq(sf + sg, 0 + sl)
  <2>1. 0 \in Int
    OBVIOUS
  <2> QED
    BY <1>17, <1>18, <2>1, EqAdd, Zenon
<1>21. Eq(sh, sl)
  BY <1>19, <1>20
<1>22. Eq(sd, sl)
  BY <1>14, <1>16, <1>21, EqTrans
<1> QED
  BY <1>1, <1>7, <1>10, <1>15, <1>16, <1>22

-----------------------------------------------------------------------------
(***************************************************************************)
(* The combinations of the residuals.                                      *)
(***************************************************************************)
ResidualL(wit, ev, c) ==
  (ev[c] + Sum([t \in 1 .. Len(llterm) |->
                  If1(llterm[t].c = c) * llterm[t].k * wit[llterm[t].w]])) % q

ResidualQ(wit, e) == (OperandOf(wit, e, 2) - OperandOf(wit, e, 0) * OperandOf(wit, e, 1)) % q

LinearSide(wit, ev, ask) == [c \in 0 .. nl - 1 |-> AlphaL(ask, c) * ResidualL(wit, ev, c)]

EvalSide(ev, ask) == [c \in 0 .. nl - 1 |-> ev[c] * AlphaL(ask, c)]

\* Equation c, term t.
EquationTerms(wit, c) ==
  [t \in 1 .. Len(llterm) |-> If1(llterm[t].c = c) * llterm[t].k * wit[llterm[t].w]]

LEMMA EquationTermsIn ==
  ASSUME NEW wit \in [0 .. nw - 1 -> F], NEW c
  PROVE  EquationTerms(wit, c) \in [1 .. Len(llterm) -> Int]
<1>1. ASSUME NEW t \in 1 .. Len(llterm)
      PROVE  If1(llterm[t].c = c) * llterm[t].k * wit[llterm[t].w] \in Int
  <2>1. PICK a \in Int, b \in Int, d \in Int :
          a = If1(llterm[t].c = c) /\ b = llterm[t].k /\ d = wit[llterm[t].w]
    BY TermsIn, If1In, FInt
  <2>2. a * b * d \in Int
    OBVIOUS
  <2> QED
    BY <2>1, <2>2
<1> QED
  BY <1>1 DEF EquationTerms

LEMMA LinearSideIs ==
  ASSUME NEW wit \in [0 .. nw - 1 -> F], NEW ev \in [0 .. nl - 1 -> F], NEW ask, Challenges(ask),
         LinearTotals(wit, ask) \in [1 .. Len(llterm) -> Int]
  PROVE  /\ LinearSide(wit, ev, ask) \in [0 .. nl - 1 -> Int]
         /\ EvalSide(ev, ask) \in [0 .. nl - 1 -> Int]
         /\ Eq(SumFunction(LinearSide(wit, ev, ask)),
               SumFunction(LinearTotals(wit, ask)) + SumFunction(EvalSide(ev, ask)))
<1>1. PICK T, C : T = 1 .. Len(llterm) /\ C = 0 .. nl - 1
  OBVIOUS
<1>2. IsFiniteSet(T) /\ IsFiniteSet(C)
  BY <1>1, Finite, Finite1, Geometry
<1>3. \A c \in C : AlphaL(ask, c) \in Int /\ ev[c] \in Int
  BY <1>1, ChallengesIn, FInt
<1>4. PICK m : m = [c \in C |-> [t \in T |-> AlphaL(ask, c) * EquationTerms(wit, c)[t]]]
  OBVIOUS
<1>5. \A c \in C : EquationTerms(wit, c) \in [T -> Int]
  BY <1>1, EquationTermsIn
<1>6. ASSUME NEW c \in C, NEW t \in T
      PROVE  m[c][t] \in Int /\ m[c][t] = AlphaL(ask, c) * EquationTerms(wit, c)[t]
  <2>1. PICK a \in Int, b \in Int : a = AlphaL(ask, c) /\ b = EquationTerms(wit, c)[t]
    BY <1>3, <1>5
  <2>2. a * b \in Int
    OBVIOUS
  <2> QED
    BY <1>4, <2>1, <2>2
<1>7. m \in [C -> [T -> Int]]
  BY <1>4, <1>6
<1>8. PICK f : f = [c \in C |-> SumFunction(m[c])]
  OBVIOUS
<1>9. f \in [C -> Int] /\ \A c \in C : f[c] = SumFunction(m[c])
  <2>1. \A c \in C : m[c] \in [T -> Int]
    BY <1>7
  <2>2. \A c \in C : SumFunction(m[c]) \in Int
    BY <1>2, <2>1, SumInt
  <2> QED
    BY <1>8, <2>2
<1>10. PICK g \in [C -> Int] : g = EvalSide(ev, ask)
  <2>1. ASSUME NEW c \in C PROVE ev[c] * AlphaL(ask, c) \in Int
    <3>1. PICK a \in Int, b \in Int : a = ev[c] /\ b = AlphaL(ask, c)
      BY <1>3
    <3>2. a * b \in Int
      OBVIOUS
    <3> QED
      BY <3>1, <3>2
  <2>2. EvalSide(ev, ask) \in [C -> Int]
    BY <1>1, <2>1 DEF EvalSide
  <2> QED
    BY <2>2
<1>11. PICK h : h = [c \in C |-> f[c] + g[c]]
  OBVIOUS
<1>12. h \in [C -> Int] /\ \A c \in C : h[c] = 1 * f[c] + 1 * g[c]
  <2>1. \A c \in C : f[c] \in Int /\ g[c] \in Int
    BY <1>9, <1>10
  <2>2. \A c \in C : f[c] + g[c] \in Int /\ f[c] + g[c] = 1 * f[c] + 1 * g[c]
    BY <2>1
  <2> QED
    BY <1>11, <2>2
<1>13. PICK l : l = LinearSide(wit, ev, ask)
  OBVIOUS
<1>14. ASSUME NEW c \in C PROVE l[c] \in Int /\ Eq(l[c], h[c])
  <2>1. PICK a \in Int, v \in Int : a = AlphaL(ask, c) /\ v = ev[c]
    BY <1>3
  <2>2. PICK y \in [T -> Int] : y = EquationTerms(wit, c)
    BY <1>5
  <2>3. PICK z \in [T -> Int] : z = m[c]
    BY <1>7
  <2>4. \A t \in T : z[t] = a * y[t] + 0 * y[t]
    <3>1. \A t \in T : y[t] \in Int /\ z[t] = a * y[t]
      BY <1>6, <2>1, <2>2, <2>3
    <3>2. \A b \in Int : a * b = a * b + 0 * b
      OBVIOUS
    <3> QED
      BY <3>1, <3>2
  <2>5. Linear(T, z, a, y, 0, y)
    <3>1. 0 \in Int
      OBVIOUS
    <3> QED
      BY <2>4, <3>1 DEF Linear
  <2>6. SumFunction(z) = a * SumFunction(y) + 0 * SumFunction(y)
    BY <1>2, <2>5, SumLinear
  <2>7. PICK sy \in Int, my \in Int : sy = SumFunction(y) /\ my = Sum(y) /\ Eq(my, sy)
    BY <1>2, SumInt, SumIn
  <2>8. f[c] = a * sy
    <3>1. SumFunction(z) = a * sy + 0 * sy
      BY <2>6, <2>7
    <3>2. a * sy + 0 * sy = a * sy
      OBVIOUS
    <3> QED
      BY <1>9, <2>3, <3>1, <3>2
  <2>9. h[c] = a * sy + v * a
    BY <1>1, <1>10, <1>11, <2>1, <2>8 DEF EvalSide
  <2>10. PICK n \in Int : n = v + my
    OBVIOUS
  <2>11. PICK o \in Int : o = n % q /\ Eq(o, n)
    BY EqMod
  <2>12. ResidualL(wit, ev, c) = o
    BY <1>1, <2>1, <2>2, <2>7, <2>10, <2>11 DEF ResidualL, EquationTerms
  <2>13. l[c] = a * o
    BY <1>1, <1>13, <2>1, <2>12 DEF LinearSide
  <2>14. Eq(v, v)
    BY EqRefl
  <2>15. Eq(v + my, v + sy)
    BY <2>7, <2>14, EqAdd, Zenon
  <2>16. v + sy \in Int /\ a * o \in Int /\ a * (v + sy) \in Int
    OBVIOUS
  <2>17. Eq(n, v + sy)
    BY <2>10, <2>15
  <2>18. Eq(o, v + sy)
    BY <2>11, <2>16, <2>17, EqTrans
  <2>19. Eq(a * o, a * (v + sy))
    BY <2>16, <2>18, EqMul2, Zenon
  <2>20. a * (v + sy) = a * sy + v * a
    OBVIOUS
  <2> QED
    BY <2>9, <2>13, <2>16, <2>19, <2>20
<1>15. l \in [C -> Int]
  BY <1>1, <1>13, <1>14 DEF LinearSide
<1>16. EqOn(C, l, h)
  BY <1>12, <1>14, <1>15 DEF EqOn
<1>17. Eq(SumFunction(l), SumFunction(h))
  BY <1>2, <1>16, SumEq
<1>18. Linear(C, h, 1, f, 1, g)
  <2>1. 1 \in Int
    OBVIOUS
  <2> QED
    BY <1>9, <1>12, <2>1 DEF Linear
<1>19. SumFunction(h) = 1 * SumFunction(f) + 1 * SumFunction(g)
  BY <1>2, <1>18, SumLinear
<1>20. PICK k : k = [t \in T |-> [c \in C |-> m[c][t]]]
  OBVIOUS
<1>21. k \in [T -> [C -> Int]] /\ \A c \in C, t \in T : k[t][c] = m[c][t]
  BY <1>6, <1>20
<1>22. PICK n \in [T -> Int] : n = LinearTotals(wit, ask)
  BY <1>1
<1>23. ASSUME NEW t \in T PROVE n[t] = SumFunction(k[t])
  <2>1. PICK z \in [C -> Int] : z = k[t]
    BY <1>21
  <2>2. PICK c0 \in C : c0 = llterm[t].c
    BY <1>1, TermsIn
  <2>3. PICK b \in Int, y \in Int : b = llterm[t].k /\ y = wit[llterm[t].w]
    BY <1>1, TermsIn, FInt
  <2>4. ASSUME NEW c \in C, NEW u \in Int, u = If1(llterm[t].c = c)
        PROVE  z[c] = AlphaL(ask, c) * (u * b * y)
    <3>1. EquationTerms(wit, c)[t] = u * b * y
      BY <1>1, <2>3, <2>4 DEF EquationTerms
    <3>2. z[c] = AlphaL(ask, c) * EquationTerms(wit, c)[t]
      BY <1>6, <1>21, <2>1
    <3> QED
      BY <3>1, <3>2
  <2>5. ASSUME NEW c \in C, c # c0 PROVE z[c] = 0
    <3>1. If1(llterm[t].c = c) = 0 /\ 0 \in Int
      BY <2>2, <2>5, If1In
    <3>2. z[c] = AlphaL(ask, c) * (0 * b * y)
      BY <2>4, <3>1
    <3>3. PICK a \in Int : a = AlphaL(ask, c)
      BY <1>3
    <3>4. a * (0 * b * y) = 0
      OBVIOUS
    <3> QED
      BY <3>2, <3>3, <3>4
  <2>6. Only(C, z, c0)
    BY <2>5 DEF Only
  <2>7. SumFunction(z) = z[c0]
    BY <1>2, <2>6, SumPoint
  <2>8. If1(llterm[t].c = c0) = 1 /\ 1 \in Int
    BY <2>2, If1In
  <2>9. z[c0] = AlphaL(ask, c0) * (1 * b * y)
    BY <2>4, <2>8
  <2>10. PICK a \in Int : a = AlphaL(ask, c0)
    BY <1>3
  <2>11. n[t] = (b * a) * y
    BY <1>1, <1>22, <2>2, <2>3, <2>10 DEF LinearTotals
  <2>12. (b * a) * y = a * (1 * b * y)
    OBVIOUS
  <2> QED
    BY <2>1, <2>7, <2>9, <2>10, <2>11, <2>12
<1>24. TwoWays(C, T, m, f, k, n)
  BY <1>7, <1>9, <1>21, <1>23 DEF TwoWays
<1>25. SumFunction(f) = SumFunction(n)
  BY <1>2, <1>24, SumSwap
<1>26. PICK sn \in Int, sg \in Int : sn = SumFunction(n) /\ sg = SumFunction(g)
  BY <1>2, SumInt
<1>27. SumFunction(h) = sn + sg
  BY <1>19, <1>25, <1>26
<1> QED
  BY <1>1, <1>10, <1>13, <1>15, <1>17, <1>22, <1>26, <1>27

\* What the verifier sums of an honest second response is the combination of
\* the residuals of the linear constraints.
LEMMA LinearIdentity ==
  ASSUME NEW wit, NEW coins, Inputs(wit, coins), NEW ev \in [0 .. nl - 1 -> F], NEW ask, Challenges(ask)
  PROVE  (Sum([s \in Slots |-> DotRow(Laid(wit, coins), ask)[s]]) + Sum(EvalSide(ev, ask))) % q
           = Sum(LinearSide(wit, ev, ask))
<1>1. PICK d \in [Slots -> Int] :
        /\ d = [s \in Slots |-> DotRow(Laid(wit, coins), ask)[s]]
        /\ Eq(SumFunction(d), SumFunction(LinearTotals(wit, ask)))
  BY DotSum
<1>2. LinearTotals(wit, ask) \in [1 .. Len(llterm) -> Int]
  BY DotSum
<1>3. wit \in [0 .. nw - 1 -> F]
  BY DEF Inputs
<1>4. IsFiniteSet(0 .. nl - 1)
  BY Finite, Geometry
<1>5. PICK l \in [0 .. nl - 1 -> Int], g \in [0 .. nl - 1 -> Int] :
        /\ l = LinearSide(wit, ev, ask) /\ g = EvalSide(ev, ask)
        /\ Eq(SumFunction(l), SumFunction(LinearTotals(wit, ask)) + SumFunction(g))
  BY <1>2, <1>3, LinearSideIs
<1>6. PICK sd \in Int, sl \in Int, sg \in Int, st \in Int :
        /\ sd = SumFunction(d) /\ sl = SumFunction(l) /\ sg = SumFunction(g)
        /\ st = SumFunction(LinearTotals(wit, ask))
  BY <1>2, <1>4, Finite1, RowsAre, SumInt
<1>7. PICK md \in Int, mg \in Int : md = Sum(d) /\ mg = Sum(g) /\ Eq(md, sd) /\ Eq(mg, sg)
  BY <1>4, <1>6, RowsAre, SumIn
<1>8. Eq(sd, st) /\ Eq(sl, st + sg)
  BY <1>1, <1>5, <1>6
<1>9. Eq(md, st)
  BY <1>7, <1>8, EqTrans
<1>10. Eq(md + mg, st + sg)
  BY <1>7, <1>9, EqAdd, Zenon
<1>11. md + mg \in Int /\ st + sg \in Int
  OBVIOUS
<1>12. Eq(st + sg, sl)
  BY <1>8, <1>11, EqSym
<1>13. Eq(md + mg, sl)
  BY <1>10, <1>11, <1>12, EqTrans
<1>14. (md + mg) % q = sl % q
  BY <1>11, <1>13, ModIff
<1> QED
  BY <1>1, <1>5, <1>6, <1>7, <1>14 DEF Sum

\* The quadratic constraints whose operands stand in slot r + s.
InSlot(s) == {t \in 0 .. nqtriples - 1 : t * w + s < nq}

QuadraticSide(wit, ask, s) == [i \in InSlot(s) |-> UQuad(ask, i) * ResidualQ(wit, i * w + s)]

\* The mask of the third response does not show in the slots.
LEMMA QuadMaskSlot ==
  ASSUME NEW wit, NEW coins, Inputs(wit, coins), NEW s \in Slots
  PROVE  Laid(wit, coins)[iquad][s] = 0
<1>1. iquad = 2 /\ iquad \in 0 .. nrow - 1 /\ iquad < iw /\ iquad # ildt /\ iquad # idot
  BY Layout
<1>2. SampleLen(iquad) = dblock
  BY DEF SampleLen
<1>3. SamplesOf(wit, coins, iquad) = QuadMask(DrawOf(coins, block + dblock, dblock))
  BY <1>1 DEF SamplesOf, BlindingSamples
<1>4. DrawOf(coins, block + dblock, dblock) \in [0 .. dblock - 1 -> F]
  <2>1. /\ coins \in [0 .. NCoins - 1 -> F] /\ block + dblock \in Nat /\ dblock \in Nat
        /\ block + dblock + dblock <= block + 2 * dblock
    BY Geometry DEF Inputs
  <2> QED
    BY <2>1, DrawIn
<1>5. QuadMask(DrawOf(coins, block + dblock, dblock))[s] = 0
  BY <1>4, QuadMaskIs
<1> QED
  BY <1>1, <1>2, <1>3, <1>5, LaidFilled, SlotsAre

\* An honest third response in a witness slot is the combination of the
\* residuals of the quadratic constraints there.
LEMMA QuadraticIdentity ==
  ASSUME NEW wit, NEW coins, Inputs(wit, coins), NEW ask, Challenges(ask), NEW s \in Slots
  PROVE  /\ QuadRow(Laid(wit, coins), ask)[s] = Sum(QuadraticSide(wit, ask, s - r))
         /\ QuadraticSide(wit, ask, s - r) \in [InSlot(s - r) -> Int]
<1>1. PICK tab : tab = Laid(wit, coins) /\ Filled(tab)
  BY LaidFilled
<1>2. /\ nwrow \in Nat /\ nqtriples \in Nat /\ iquad = 2 /\ iq = 3 + nwrow
      /\ nrow = 3 + nwrow + 3 * nqtriples /\ nq \in Nat /\ w \in Nat /\ r \in Nat
      /\ iqx = iq /\ iqy = iq + nqtriples /\ iqz = iq + 2 * nqtriples
  BY Layout, Geometry
<1>3. PICK I : I = 0 .. nqtriples - 1
  OBVIOUS
<1>4. IsFiniteSet(I)
  BY <1>2, <1>3, Finite
<1>5. s \in Points /\ s \in Nat /\ s >= r
  BY SlotsAre
<1>6. wit \in [0 .. nw - 1 -> F]
  BY DEF Inputs
<1>7. PICK g : g = [i \in I |-> UQuad(ask, i) * (Col(tab, s)[iqz + i] - Col(tab, s)[iqx + i] * Col(tab, s)[iqy + i])]
  OBVIOUS
<1>8. PICK h : h = [i \in I |-> IF Flat(i, s) < nq THEN UQuad(ask, i) * ResidualQ(wit, Flat(i, s)) ELSE 0]
  OBVIOUS
<1>9. ASSUME NEW i \in I
      PROVE  /\ Col(tab, s)[iqx + i] = IF Flat(i, s) < nq THEN OperandOf(wit, Flat(i, s), 0) ELSE 0
             /\ Col(tab, s)[iqy + i] = IF Flat(i, s) < nq THEN OperandOf(wit, Flat(i, s), 1) ELSE 0
             /\ Col(tab, s)[iqz + i] = IF Flat(i, s) < nq THEN OperandOf(wit, Flat(i, s), 2) ELSE 0
  <2>1. 0 \in 0 .. 2 /\ 1 \in 0 .. 2 /\ 2 \in 0 .. 2 /\ i \in Int
    BY <1>3
  <2>2. /\ iq + 0 * nqtriples + i = iqx + i /\ iq + 1 * nqtriples + i = iqy + i
        /\ iq + 2 * nqtriples + i = iqz + i
    BY <1>2, <2>1
  <2>3. /\ iq + 0 * nqtriples + i \in 0 .. nrow - 1
        /\ tab[iq + 0 * nqtriples + i][s] = IF Flat(i, s) < nq THEN OperandOf(wit, Flat(i, s), 0) ELSE 0
    BY <1>1, <1>3, <2>1, CopyCell
  <2>4. /\ iq + 1 * nqtriples + i \in 0 .. nrow - 1
        /\ tab[iq + 1 * nqtriples + i][s] = IF Flat(i, s) < nq THEN OperandOf(wit, Flat(i, s), 1) ELSE 0
    BY <1>1, <1>3, <2>1, CopyCell
  <2>5. /\ iq + 2 * nqtriples + i \in 0 .. nrow - 1
        /\ tab[iq + 2 * nqtriples + i][s] = IF Flat(i, s) < nq THEN OperandOf(wit, Flat(i, s), 2) ELSE 0
    BY <1>1, <1>3, <2>1, CopyCell
  <2> QED
    BY <2>2, <2>3, <2>4, <2>5 DEF Col
<1>10. \A i \in I : UQuad(ask, i) \in Int
  BY <1>3, ChallengesIn, FInt
<1>11. ASSUME NEW i \in I PROVE g[i] \in Int /\ h[i] \in Int /\ Eq(g[i], h[i])
  <2>1. PICK u \in Int : u = UQuad(ask, i)
    BY <1>10
  <2>2. CASE Flat(i, s) < nq
    <3>1. PICK e \in 0 .. nq - 1 : e = Flat(i, s)
      <4>1. PICK a \in Nat : a = i * w
        BY <1>2, <1>3
      <4>2. Flat(i, s) = a + s - r
        BY <4>1 DEF Flat
      <4> QED
        BY <1>2, <1>5, <2>2, <4>2
    <3>2. 0 \in 0 .. 2 /\ 1 \in 0 .. 2 /\ 2 \in 0 .. 2
      OBVIOUS
    <3>3. PICK x \in Int, y \in Int, z \in Int :
            x = OperandOf(wit, e, 0) /\ y = OperandOf(wit, e, 1) /\ z = OperandOf(wit, e, 2)
      BY <1>6, <3>2, OperandIn, FInt
    <3>4. g[i] = u * (z - x * y)
      BY <1>7, <1>9, <2>1, <2>2, <3>1, <3>3
    <3>5. PICK v \in Int : v = z - x * y
      OBVIOUS
    <3>6. PICK m \in Int : m = v % q /\ Eq(v, m)
      BY EqMod
    <3>7. h[i] = u * m
      BY <1>8, <2>1, <2>2, <3>1, <3>3, <3>5, <3>6 DEF ResidualQ
    <3>8. Eq(u * v, u * m)
      BY <3>6, EqMul2, Zenon
    <3>9. u * v \in Int /\ u * m \in Int
      OBVIOUS
    <3> QED
      BY <3>4, <3>5, <3>7, <3>8, <3>9
  <2>3. CASE ~(Flat(i, s) < nq)
    <3>1. g[i] = u * (0 - 0 * 0)
      BY <1>7, <1>9, <2>1, <2>3
    <3>2. u * (0 - 0 * 0) = 0
      OBVIOUS
    <3>3. h[i] = 0
      BY <1>8, <2>3
    <3>4. 0 \in Int /\ Eq(0, 0)
      BY EqRefl
    <3> QED
      BY <3>1, <3>2, <3>3, <3>4
  <2> QED
    BY <2>2, <2>3
<1>12. g \in [I -> Int] /\ h \in [I -> Int]
  BY <1>7, <1>8, <1>11
<1>13. EqOn(I, g, h)
  BY <1>11, <1>12 DEF EqOn
<1>14. Col(tab, s)[iquad] = 0
  <2>1. iquad \in 0 .. nrow - 1
    BY <1>2
  <2> QED
    BY <1>1, <2>1, QuadMaskSlot DEF Col
<1>15. QuadRow(tab, ask)[s] = (0 + Sum(g)) % q
  BY <1>3, <1>5, <1>7, <1>14 DEF QuadRow, QuadOf
<1>16. 0 \in Int /\ Eq(0, 0)
  BY EqRefl
<1>17. (0 + Sum(g)) % q \in F /\ Eq((0 + Sum(g)) % q, 0 + SumFunction(h))
  BY <1>4, <1>13, <1>16, MixAt
<1>18. PICK T : T = InSlot(s - r)
  OBVIOUS
<1>19. \A i \in I : i * w + (s - r) = Flat(i, s)
  <2> SUFFICES ASSUME NEW i \in I PROVE i * w + (s - r) = Flat(i, s)
    OBVIOUS
  <2>1. PICK a \in Int : a = i * w
    BY <1>2, <1>3
  <2> QED
    BY <1>2, <1>5, <2>1 DEF Flat
<1>20. T \in SUBSET I /\ \A i \in I : i \in T <=> Flat(i, s) < nq
  BY <1>3, <1>18, <1>19 DEF InSlot
<1>21. \A i \in I \ T : h[i] = 0
  BY <1>8, <1>20
<1>22. SumFunction(h) = SumOver(h, T)
  BY <1>4, <1>12, <1>20, <1>21, SumPart
<1>23. \A i \in T : h[i] = QuadraticSide(wit, ask, s - r)[i] /\ h[i] \in Int
  BY <1>8, <1>12, <1>18, <1>19, <1>20 DEF QuadraticSide
<1>24. /\ QuadraticSide(wit, ask, s - r) = [i \in T |-> h[i]]
       /\ QuadraticSide(wit, ask, s - r) \in [T -> Int]
  BY <1>18, <1>23 DEF QuadraticSide
<1>25. SumFunction(h) = SumFunction(QuadraticSide(wit, ask, s - r))
  BY <1>22, <1>24 DEF SumOver
<1>26. PICK sh \in Int, m \in F : sh = SumFunction(h) /\ m = (0 + Sum(g)) % q /\ Eq(m, sh)
  <2>1. SumFunction(h) \in Int
    BY <1>4, <1>12, SumInt
  <2>2. 0 + SumFunction(h) = SumFunction(h)
    BY <2>1
  <2> QED
    BY <1>17, <2>1, <2>2
<1>27. sh % q \in F /\ sh % q \in Int /\ Eq(sh, sh % q)
  BY EqMod
<1>28. m \in Int /\ Eq(m, sh % q)
  BY <1>26, <1>27, FInt, EqTrans
<1>29. m = sh % q
  BY <1>27, <1>28, EqF
<1> QED
  BY <1>1, <1>15, <1>18, <1>24, <1>25, <1>26, <1>29 DEF Sum

\* A witness that satisfies the constraints has zero combinations.
LEMMA ZeroCombinations ==
  ASSUME NEW wit, NEW coins, Inputs(wit, coins), NEW ev \in [0 .. nl - 1 -> F], NEW ask, Challenges(ask)
  PROVE  /\ (\A c \in 0 .. nl - 1 : ResidualL(wit, ev, c) = 0) => Sum(LinearSide(wit, ev, ask)) = 0
         /\ (\A e \in 0 .. nq - 1 : ResidualQ(wit, e) = 0)
              => \A s \in Slots : QuadRow(Laid(wit, coins), ask)[s] = 0
<1>0. /\ q \in Nat /\ q >= 2 /\ nl \in Nat /\ nq \in Nat /\ w \in Nat /\ r \in Nat /\ nqtriples \in Nat
      /\ 0 % q = 0
  <2>1. q \in Nat /\ q >= 2 /\ nl \in Nat /\ nq \in Nat /\ w \in Nat /\ r \in Nat /\ nqtriples \in Nat
    BY Geometry, Layout
  <2> QED
    BY <2>1
<1>1. ASSUME \A c \in 0 .. nl - 1 : ResidualL(wit, ev, c) = 0
      PROVE  Sum(LinearSide(wit, ev, ask)) = 0
  <2>1. PICK l : l = LinearSide(wit, ev, ask)
    OBVIOUS
  <2>2. ASSUME NEW c \in 0 .. nl - 1 PROVE l[c] = 0
    <3>1. PICK a \in Int : a = AlphaL(ask, c)
      BY ChallengesIn, FInt
    <3>2. l[c] = a * 0
      BY <1>1, <2>1, <3>1 DEF LinearSide
    <3> QED
      BY <3>2
  <2>3. l \in [0 .. nl - 1 -> Int]
    BY <2>1, <2>2 DEF LinearSide
  <2>4. IsFiniteSet(0 .. nl - 1)
    BY <1>0, Finite
  <2>5. SumFunction(l) = 0
    BY <2>2, <2>3, <2>4, SumZero
  <2> QED
    BY <1>0, <2>1, <2>5 DEF Sum
<1>2. ASSUME \A e \in 0 .. nq - 1 : ResidualQ(wit, e) = 0, NEW s \in Slots
      PROVE  QuadRow(Laid(wit, coins), ask)[s] = 0
  <2>1. PICK l : l = QuadraticSide(wit, ask, s - r)
    OBVIOUS
  <2>2. s - r \in Nat
    BY SlotsAre
  <2>3. InSlot(s - r) \subseteq 0 .. nqtriples - 1
    BY DEF InSlot
  <2>4. ASSUME NEW i \in InSlot(s - r) PROVE l[i] = 0
    <3>1. i \in 0 .. nqtriples - 1 /\ i * w + (s - r) < nq
      BY DEF InSlot
    <3>2. i * w \in Nat
      BY <1>0, <3>1
    <3>3. i * w + (s - r) \in 0 .. nq - 1
      BY <1>0, <2>2, <3>1, <3>2
    <3>4. PICK a \in Int : a = UQuad(ask, i)
      BY <3>1, ChallengesIn, FInt
    <3>5. l[i] = a * 0
      BY <1>2, <2>1, <3>3, <3>4 DEF QuadraticSide
    <3> QED
      BY <3>5
  <2>5. l \in [InSlot(s - r) -> Int]
    BY <2>1, QuadraticIdentity
  <2>6. IsFiniteSet(0 .. nqtriples - 1)
    BY <1>0, Finite
  <2>7. IsFiniteSet(InSlot(s - r))
    BY <2>3, <2>6, FS_Subset
  <2>8. SumFunction(l) = 0
    BY <2>4, <2>5, <2>7, SumZero
  <2>9. Sum(l) = 0
    BY <1>0, <2>8 DEF Sum
  <2> QED
    BY <2>1, <2>9, QuadraticIdentity
<1> QED
  BY <1>1, <1>2

-----------------------------------------------------------------------------
(***************************************************************************)
(* What the prover sends, as a function of the tableau, the challenges and *)
(* the positions.                                                          *)
(***************************************************************************)
YLdt(tab, ask) == [x \in 0 .. block - 1 |-> LdtRow(tab, ask)[x]]
YDot(tab, ask) == [x \in 0 .. dblock - 1 |-> DotRow(tab, ask)[x]]
YQuad0(tab, ask) == [x \in 0 .. r - 1 |-> QuadRow(tab, ask)[x]]
YQuad2(tab, ask) == [x \in 0 .. dblock - block - 1 |-> QuadRow(tab, ask)[block + x]]

Gathered(tab, ix) == [k \in 0 .. nrow * nreq - 1 |-> tab[k \div nreq][dblock + ix[k % nreq]]]

QuadOk(tab, ask) == \A s \in Slots : QuadRow(tab, ask)[s] = 0

Roots(tab) == [c \in 0 .. ext - 1 |-> Col(tab, dblock + c)]

OpenedOf(req, c) == [i \in 0 .. nrow - 1 |-> req[i * nreq + c]]

\* The third response, put together.
Joined(y0, y2) ==
  [x \in 0 .. dblock - 1 |-> IF x < r THEN y0[x] ELSE IF x < block THEN 0 ELSE y2[x - block]]

LEMMA OpenPoint ==
  ASSUME NEW c \in 0 .. ext - 1
  PROVE  dblock + c \in Points /\ dblock + c >= dblock /\ dblock + c >= block /\ dblock + c \in Nat
<1>1. /\ block \in Nat /\ dblock \in Nat /\ block <= dblock /\ block_enc \in Nat
      /\ ext = block_enc - dblock
  BY Geometry DEF ext
<1> QED
  BY <1>1 DEF Points

\* The columns gathered are committed columns.
LEMMA GatheredOpen ==
  ASSUME NEW tab, NEW ix \in Positions, NEW c \in 0 .. nreq - 1
  PROVE  /\ ix[c] \in 0 .. ext - 1
         /\ Roots(tab)[ix[c]] = Col(tab, dblock + ix[c])
         /\ OpenedOf(Gathered(tab, ix), c) = Col(tab, dblock + ix[c])
<1>1. nreq \in Nat /\ nreq >= 1 /\ nrow \in Nat
  BY Geometry, Layout DEF r
<1>2. ix[c] \in 0 .. ext - 1
  BY DEF Positions
<1>3. Roots(tab)[ix[c]] = Col(tab, dblock + ix[c])
  BY <1>2 DEF Roots
<1>4. ASSUME NEW i \in 0 .. nrow - 1
      PROVE  Gathered(tab, ix)[i * nreq + c] = tab[i][dblock + ix[c]]
  <2>1. PICK v \in Nat : v = i * nreq + c /\ v < nrow * nreq
    <3>1. i * nreq + c \in Nat /\ i * nreq + c < nrow * nreq
      BY <1>1, DigitsBound
    <3> QED
      BY <3>1
  <2>2. v \div nreq \in 0 .. nrow - 1 /\ v % nreq \in 0 .. nreq - 1 /\ v = (v \div nreq) * nreq + (v % nreq)
    BY <1>1, <2>1, Digits
  <2>3. PICK a \in Int, b \in 0 .. nreq - 1 : a = v \div nreq /\ b = v % nreq /\ v = a * nreq + b
    BY <2>2
  <2>4. a * nreq + b = i * nreq + c /\ b \in Int /\ c \in Int /\ i \in Int /\ b - c < nreq /\ c - b < nreq
    BY <1>1, <2>1, <2>3
  <2>5. a = i /\ b = c
    BY <1>1, <2>4, DigitsUnique
  <2>6. v \in 0 .. nrow * nreq - 1
    <3>1. nrow * nreq \in Int
      BY <1>1
    <3> QED
      BY <2>1, <3>1
  <2>7. Gathered(tab, ix)[v] = tab[v \div nreq][dblock + ix[v % nreq]]
    BY <2>6 DEF Gathered
  <2> QED
    BY <2>1, <2>3, <2>5, <2>7
<1>5. OpenedOf(Gathered(tab, ix), c) = Col(tab, dblock + ix[c])
  BY <1>4 DEF OpenedOf, Col
<1> QED
  BY <1>2, <1>3, <1>5

\* A changed opening shows in its column.
LEMMA GatheredChanged ==
  ASSUME NEW tab, Filled(tab), NEW ix \in Positions, NEW k \in 0 .. nrow * nreq - 1, NEW req,
         req[k] = (Gathered(tab, ix)[k] + 1) % q
  PROVE  \E c \in 0 .. nreq - 1 : OpenedOf(req, c) # Roots(tab)[ix[c]]
<1>1. nreq \in Nat /\ nreq >= 1 /\ nrow \in Nat /\ nrow * nreq \in Int
  <2>1. nreq \in Nat /\ nreq >= 1 /\ nrow \in Nat
    BY Geometry, Layout DEF r
  <2> QED
    BY <2>1
<1>2. k \in Nat /\ k < nrow * nreq
  BY <1>1
<1>3. k \div nreq \in 0 .. nrow - 1 /\ k % nreq \in 0 .. nreq - 1 /\ k = (k \div nreq) * nreq + (k % nreq)
  BY <1>1, <1>2, Digits
<1>4. PICK i \in 0 .. nrow - 1, c \in 0 .. nreq - 1 : i = k \div nreq /\ c = k % nreq /\ k = i * nreq + c
  BY <1>3
<1>5. ix[c] \in 0 .. ext - 1 /\ Roots(tab)[ix[c]] = Col(tab, dblock + ix[c])
  BY GatheredOpen
<1>6. Gathered(tab, ix)[k] = tab[i][dblock + ix[c]]
  BY <1>4 DEF Gathered
<1>7. PICK v \in F : v = tab[i][dblock + ix[c]]
  <2>1. dblock + ix[c] \in Points
    BY <1>5, OpenPoint
  <2>2. tab[i] \in [Points -> F]
    BY DEF Filled
  <2> QED
    BY <2>1, <2>2
<1>8. Roots(tab)[ix[c]][i] = v
  BY <1>5, <1>7 DEF Col
<1>9. OpenedOf(req, c)[i] = (v + 1) % q
  BY <1>4, <1>6, <1>7 DEF OpenedOf
<1>10. (v + 1) % q # v
  <2>1. q \in Nat /\ q >= 2 /\ v \in 0 .. q - 1
    BY Geometry DEF F
  <2> QED
    BY <2>1
<1> QED
  BY <1>8, <1>9, <1>10

\* One element changed.
LEMMA ChangeIs ==
  ASSUME NEW len \in Nat, NEW y \in [0 .. len - 1 -> F], NEW x \in 0 .. len - 1, NEW d \in 1 .. q - 1
  PROVE  OneChange(len, y, [y EXCEPT ![x] = (@ + d) % q], x)
<1>1. q \in Nat /\ q >= 2
  BY Geometry
<1>2. PICK a \in F : a = y[x]
  OBVIOUS
<1>3. PICK b \in F : b = (a + d) % q
  <2>1. a + d \in Int
    BY <1>1, FInt
  <2> QED
    BY <2>1, EqMod
<1>4. b # a
  <2> SUFFICES ASSUME a = (a + d) % q PROVE FALSE
    BY <1>3
  <2>1. a \in Int /\ d \in Int /\ a + d \in Int
    BY <1>1, FInt
  <2>2. Eq(a, a + d)
    BY <2>1, EqMod
  <2>3. PICK j \in Int : a = (a + d) + j * q
    BY <2>2 DEF Eq
  <2>4. d = (-j) * q
    BY <1>1, <2>1, <2>3
  <2>5. PICK m \in Int : m = -j /\ d = m * q
    BY <2>4
  <2>6. ~(m >= 1)
    <3> SUFFICES ASSUME m >= 1 PROVE FALSE
      OBVIOUS
    <3>1. m * q >= q
      BY <1>1
    <3> QED
      BY <1>1, <2>5, <3>1
  <2>7. ~(m <= 0)
    <3> SUFFICES ASSUME m <= 0 PROVE FALSE
      OBVIOUS
    <3>1. m * q <= 0
      BY <1>1
    <3> QED
      BY <1>1, <2>5, <3>1
  <2> QED
    BY <2>6, <2>7
<1>5. PICK z : z = [y EXCEPT ![x] = (@ + d) % q]
  OBVIOUS
<1>6. z \in [0 .. len - 1 -> F] /\ z[x] = b /\ \A p \in 0 .. len - 1 : p # x => z[p] = y[p]
  BY <1>2, <1>3, <1>5
<1> QED
  BY <1>2, <1>4, <1>5, <1>6 DEF OneChange

\* The responses, and that they agree with the columns everywhere.
Agreed(tab, ask) ==
  /\ YLdt(tab, ask) \in [0 .. block - 1 -> F]
  /\ YDot(tab, ask) \in [0 .. dblock - 1 -> F]
  /\ YQuad0(tab, ask) \in [0 .. r - 1 -> F]
  /\ YQuad2(tab, ask) \in [0 .. dblock - block - 1 -> F]
  /\ \A x \in Points : /\ Interpolate(YLdt(tab, ask), x) = LdtOf(ask, Col(tab, x))
                       /\ Interpolate(YDot(tab, ask), x) = DotAt(Col(tab, x), CoefAt(ask, x))
  /\ QuadOk(tab, ask) =>
       /\ Joined(YQuad0(tab, ask), YQuad2(tab, ask)) \in [0 .. dblock - 1 -> F]
       /\ \A x \in Points :
            Interpolate(Joined(YQuad0(tab, ask), YQuad2(tab, ask)), x) = QuadOf(ask, Col(tab, x))

LEMMA HonestAgrees ==
  ASSUME NEW wit, NEW coins, Inputs(wit, coins), NEW ask, Challenges(ask)
  PROVE  Agreed(Laid(wit, coins), ask)
<1>1. PICK tab : tab = Laid(wit, coins)
  OBVIOUS
<1>2. PICK P : Encoded(tab, P)
  BY <1>1, LaidEncoded
<1>3. PICK f : Follows(LdtRow(tab, ask), block, f)
  BY <1>2, LdtFollows
<1>4. PICK g : Follows(DotRow(tab, ask), dblock, g)
  BY <1>2, DotFollows
<1>5. PICK h : Follows(QuadRow(tab, ask), dblock, h)
  BY <1>2, QuadFollows
<1>6. /\ LdtRow(tab, ask) \in [Points -> F] /\ DotRow(tab, ask) \in [Points -> F]
      /\ QuadRow(tab, ask) \in [Points -> F]
  BY <1>3, <1>4, <1>5 DEF Follows
<1>7. /\ block \in Nat /\ dblock \in Nat /\ block <= dblock /\ r \in Nat /\ r <= block /\ w \in Nat
      /\ block = r + w /\ block_enc \in Nat /\ dblock <= block_enc
  BY Geometry
<1>8. /\ \A x \in 0 .. block - 1 : x \in Points
      /\ \A x \in 0 .. dblock - 1 : x \in Points
      /\ \A x \in 0 .. r - 1 : x \in Points
      /\ \A x \in 0 .. dblock - block - 1 : block + x \in Points
  BY <1>7 DEF Points
<1>9. /\ YLdt(tab, ask) \in [0 .. block - 1 -> F]
      /\ YDot(tab, ask) \in [0 .. dblock - 1 -> F]
  BY <1>6, <1>8 DEF YLdt, YDot
<1>10. /\ YQuad0(tab, ask) \in [0 .. r - 1 -> F]
       /\ YQuad2(tab, ask) \in [0 .. dblock - block - 1 -> F]
  BY <1>6, <1>8 DEF YQuad0, YQuad2
<1>11. block \in {block, dblock} /\ dblock \in {block, dblock}
  OBVIOUS
<1>12. ASSUME NEW x \in Points
       PROVE  /\ Interpolate(YLdt(tab, ask), x) = LdtOf(ask, Col(tab, x))
              /\ Interpolate(YDot(tab, ask), x) = DotAt(Col(tab, x), CoefAt(ask, x))
  <2>1. Interpolate(YLdt(tab, ask), x) = LdtRow(tab, ask)[x]
    BY <1>3, <1>11, FollowsAgrees DEF YLdt
  <2>2. Interpolate(YDot(tab, ask), x) = DotRow(tab, ask)[x]
    BY <1>4, <1>11, FollowsAgrees DEF YDot
  <2> QED
    BY <2>1, <2>2 DEF LdtRow, DotRow
<1>13. ASSUME QuadOk(tab, ask)
       PROVE  /\ Joined(YQuad0(tab, ask), YQuad2(tab, ask)) \in [0 .. dblock - 1 -> F]
              /\ \A x \in Points :
                   Interpolate(Joined(YQuad0(tab, ask), YQuad2(tab, ask)), x) = QuadOf(ask, Col(tab, x))
  <2>1. PICK y : y = [x \in 0 .. dblock - 1 |-> QuadRow(tab, ask)[x]]
    OBVIOUS
  <2>2. ASSUME NEW x \in 0 .. dblock - 1
        PROVE  (IF x < r THEN YQuad0(tab, ask)[x] ELSE IF x < block THEN 0 ELSE YQuad2(tab, ask)[x - block])
                 = QuadRow(tab, ask)[x]
    <3>1. CASE x < r
      <4>1. x \in 0 .. r - 1
        BY <1>7, <3>1
      <4> QED
        BY <3>1, <4>1 DEF YQuad0
    <3>2. CASE ~(x < r) /\ x < block
      <4>1. x \in Slots
        BY <1>7, <3>2, SlotsAre
      <4> QED
        BY <1>13, <3>2, <4>1 DEF QuadOk
    <3>3. CASE ~(x < r) /\ ~(x < block)
      <4>1. x - block \in 0 .. dblock - block - 1 /\ block + (x - block) = x
        BY <1>7, <3>3
      <4> QED
        BY <3>3, <4>1 DEF YQuad2
    <3> QED
      BY <3>1, <3>2, <3>3
  <2>3. Joined(YQuad0(tab, ask), YQuad2(tab, ask)) = y
    BY <2>1, <2>2 DEF Joined
  <2>4. y \in [0 .. dblock - 1 -> F]
    BY <1>6, <1>8, <2>1
  <2>5. ASSUME NEW x \in Points PROVE Interpolate(y, x) = QuadOf(ask, Col(tab, x))
    <3>1. Interpolate(y, x) = QuadRow(tab, ask)[x]
      BY <1>5, <1>11, <2>1, FollowsAgrees
    <3> QED
      BY <3>1 DEF QuadRow
  <2> QED
    BY <2>3, <2>4, <2>5
<1> QED
  BY <1>1, <1>9, <1>10, <1>12, <1>13 DEF Agreed

\* A change in a part of the third response is a change of the response.
LEMMA JoinedChange ==
  ASSUME NEW a, NEW b, NEW c, NEW d,
         \/ b = d /\ (\E v : OneChange(r, a, c, v)) /\ b \in [0 .. dblock - block - 1 -> F]
         \/ a = c /\ (\E v : OneChange(dblock - block, b, d, v)) /\ a \in [0 .. r - 1 -> F]
  PROVE  \E v : OneChange(dblock, Joined(a, b), Joined(c, d), v)
<1>1. /\ block \in Nat /\ dblock \in Nat /\ block <= dblock /\ r \in Nat /\ r <= block /\ 0 \in F
  BY Geometry, FInt
<1>2. ASSUME NEW y0 \in [0 .. r - 1 -> F], NEW y2 \in [0 .. dblock - block - 1 -> F]
      PROVE  Joined(y0, y2) \in [0 .. dblock - 1 -> F]
  <2>1. \A x \in 0 .. dblock - 1 : x < r => x \in 0 .. r - 1
    BY <1>1
  <2>2. \A x \in 0 .. dblock - 1 : ~(x < block) => x - block \in 0 .. dblock - block - 1
    BY <1>1
  <2> QED
    BY <1>1, <2>1, <2>2 DEF Joined
<1>3. CASE b = d /\ (\E v : OneChange(r, a, c, v)) /\ b \in [0 .. dblock - block - 1 -> F]
  <2>1. PICK v : OneChange(r, a, c, v)
    BY <1>3
  <2>2. /\ a \in [0 .. r - 1 -> F] /\ c \in [0 .. r - 1 -> F] /\ v \in 0 .. r - 1
        /\ c[v] # a[v] /\ \A p \in 0 .. r - 1 : p # v => c[p] = a[p]
    BY <2>1 DEF OneChange
  <2>3. v \in 0 .. dblock - 1 /\ v < r
    BY <1>1, <2>2
  <2>4. Joined(c, d)[v] # Joined(a, b)[v]
    BY <2>2, <2>3 DEF Joined
  <2>5. ASSUME NEW p \in 0 .. dblock - 1, p # v PROVE Joined(c, d)[p] = Joined(a, b)[p]
    <3>1. p < r => p \in 0 .. r - 1
      BY <1>1
    <3> QED
      BY <1>3, <2>2, <2>5, <3>1 DEF Joined
  <2>6. Joined(a, b) \in [0 .. dblock - 1 -> F] /\ Joined(c, d) \in [0 .. dblock - 1 -> F]
    BY <1>2, <1>3, <2>2
  <2>7. OneChange(dblock, Joined(a, b), Joined(c, d), v)
    BY <2>3, <2>4, <2>5, <2>6 DEF OneChange
  <2> QED
    BY <2>7
<1>4. CASE a = c /\ (\E v : OneChange(dblock - block, b, d, v)) /\ a \in [0 .. r - 1 -> F]
  <2>1. PICK v : OneChange(dblock - block, b, d, v)
    BY <1>4
  <2>2. /\ b \in [0 .. dblock - block - 1 -> F] /\ d \in [0 .. dblock - block - 1 -> F]
        /\ v \in 0 .. dblock - block - 1
        /\ d[v] # b[v] /\ \A p \in 0 .. dblock - block - 1 : p # v => d[p] = b[p]
    BY <2>1 DEF OneChange
  <2>3. PICK u \in 0 .. dblock - 1 : u = block + v /\ ~(u < r) /\ ~(u < block) /\ u - block = v
    BY <1>1, <2>2
  <2>4. Joined(c, d)[u] # Joined(a, b)[u]
    BY <2>2, <2>3 DEF Joined
  <2>5. ASSUME NEW p \in 0 .. dblock - 1, p # u PROVE Joined(c, d)[p] = Joined(a, b)[p]
    <3>1. ~(p < block) => p - block \in 0 .. dblock - block - 1 /\ p - block # v
      BY <1>1, <2>2, <2>3, <2>5
    <3> QED
      BY <1>4, <2>2, <3>1 DEF Joined
  <2>6. Joined(a, b) \in [0 .. dblock - 1 -> F] /\ Joined(c, d) \in [0 .. dblock - 1 -> F]
    BY <1>2, <1>4, <2>2
  <2>7. OneChange(dblock, Joined(a, b), Joined(c, d), u)
    BY <2>3, <2>4, <2>5, <2>6 DEF OneChange
  <2> QED
    BY <2>7
<1> QED
  BY <1>3, <1>4

-----------------------------------------------------------------------------
(***************************************************************************)
(* The checks of the verifier, and what they make of an honest proof.      *)
(***************************************************************************)
HonestProof(tab, ask, req) ==
  [y_ldt |-> YLdt(tab, ask), y_dot |-> YDot(tab, ask), y_quad_0 |-> YQuad0(tab, ask),
   y_quad_2 |-> YQuad2(tab, ask), req |-> req]

ShapedOf(pr) ==
  /\ DOMAIN pr.y_ldt = 0 .. block - 1
  /\ DOMAIN pr.y_dot = 0 .. dblock - 1
  /\ DOMAIN pr.y_quad_0 = 0 .. r - 1
  /\ DOMAIN pr.y_quad_2 = 0 .. dblock - block - 1
  /\ DOMAIN pr.req = 0 .. nrow * nreq - 1
  /\ StatementInBounds

MerkleOk(rt, pr, vix) == \A c \in 0 .. nreq - 1 : OpenedOf(pr.req, c) = rt[vix[c]]

LdtOk(ask, pr, vix) ==
  \A c \in 0 .. nreq - 1 :
    Interpolate(pr.y_ldt, dblock + vix[c]) = LdtOf(ask, OpenedOf(pr.req, c))

DotOk(ask, pr, vix) ==
  \A c \in 0 .. nreq - 1 :
    Interpolate(pr.y_dot, dblock + vix[c])
      = DotAt(OpenedOf(pr.req, c), CoefAt(ask, dblock + vix[c]))

QuadCheckOk(ask, pr, vix) ==
  \A c \in 0 .. nreq - 1 :
    Interpolate(Joined(pr.y_quad_0, pr.y_quad_2), dblock + vix[c]) = QuadOf(ask, OpenedOf(pr.req, c))

InnerOk(ev, ask, pr) == (Sum([s \in Slots |-> pr.y_dot[s]]) + Sum(EvalSide(ev, ask))) % q = 0

LEMMA HonestPasses ==
  ASSUME NEW wit, NEW coins, Inputs(wit, coins), NEW ask, Challenges(ask), NEW tab, tab = Laid(wit, coins),
         QuadOk(tab, ask), NEW ix \in Positions, NEW pr, pr = HonestProof(tab, ask, Gathered(tab, ix))
  PROVE  /\ ShapedOf(pr) /\ MerkleOk(Roots(tab), pr, ix) /\ LdtOk(ask, pr, ix)
         /\ DotOk(ask, pr, ix) /\ QuadCheckOk(ask, pr, ix)
<1>1. Agreed(tab, ask)
  BY HonestAgrees
<1>2. /\ pr.y_ldt = YLdt(tab, ask) /\ pr.y_dot = YDot(tab, ask) /\ pr.y_quad_0 = YQuad0(tab, ask)
      /\ pr.y_quad_2 = YQuad2(tab, ask) /\ pr.req = Gathered(tab, ix)
  BY DEF HonestProof
<1>3. ShapedOf(pr)
  <2>1. StatementInBounds
    BY LigeroAssumption
  <2> QED
    BY <1>2, <2>1 DEF ShapedOf, YLdt, YDot, YQuad0, YQuad2, Gathered
<1>4. ASSUME NEW c \in 0 .. nreq - 1
      PROVE  /\ OpenedOf(pr.req, c) = Roots(tab)[ix[c]]
             /\ OpenedOf(pr.req, c) = Col(tab, dblock + ix[c]) /\ dblock + ix[c] \in Points
  <2>1. /\ ix[c] \in 0 .. ext - 1 /\ Roots(tab)[ix[c]] = Col(tab, dblock + ix[c])
        /\ OpenedOf(Gathered(tab, ix), c) = Col(tab, dblock + ix[c])
    BY GatheredOpen
  <2>2. dblock + ix[c] \in Points
    BY <2>1, OpenPoint
  <2> QED
    BY <1>2, <2>1, <2>2
<1>5. MerkleOk(Roots(tab), pr, ix)
  BY <1>4 DEF MerkleOk
<1>6. \A x \in Points : /\ Interpolate(pr.y_ldt, x) = LdtOf(ask, Col(tab, x))
                        /\ Interpolate(pr.y_dot, x) = DotAt(Col(tab, x), CoefAt(ask, x))
                        /\ Interpolate(Joined(pr.y_quad_0, pr.y_quad_2), x) = QuadOf(ask, Col(tab, x))
  BY <1>1, <1>2 DEF Agreed
<1>7. LdtOk(ask, pr, ix)
  BY <1>4, <1>6 DEF LdtOk
<1>8. DotOk(ask, pr, ix)
  BY <1>4, <1>6 DEF DotOk
<1>9. QuadCheckOk(ask, pr, ix)
  BY <1>4, <1>6 DEF QuadCheckOk
<1> QED
  BY <1>3, <1>5, <1>7, <1>8, <1>9

\* The inner product check of an honest proof decides on the combination of
\* the linear constraints.
LEMMA HonestInner ==
  ASSUME NEW wit, NEW coins, Inputs(wit, coins), NEW ev \in [0 .. nl - 1 -> F], NEW ask, Challenges(ask),
         NEW tab, tab = Laid(wit, coins), NEW req, NEW pr, pr = HonestProof(tab, ask, req)
  PROVE  InnerOk(ev, ask, pr) <=> Sum(LinearSide(wit, ev, ask)) = 0
<1>1. pr.y_dot = YDot(tab, ask)
  BY DEF HonestProof
<1>2. \A s \in Slots : pr.y_dot[s] = DotRow(tab, ask)[s]
  BY <1>1, SlotsAre DEF YDot
<1>3. [s \in Slots |-> pr.y_dot[s]] = [s \in Slots |-> DotRow(Laid(wit, coins), ask)[s]]
  BY <1>2
<1>4. (Sum([s \in Slots |-> DotRow(Laid(wit, coins), ask)[s]]) + Sum(EvalSide(ev, ask))) % q
        = Sum(LinearSide(wit, ev, ask))
  BY LinearIdentity
<1> QED
  BY <1>3, <1>4 DEF InnerOk

\* The points where a response agrees with the commitment.
AgreeingOf(y, ask, rt, pr) ==
  {c \in 0 .. ext - 1 :
     CASE y = "y_ldt" -> Interpolate(pr.y_ldt, dblock + c) = LdtOf(ask, rt[c])
       [] y = "y_dot" -> Interpolate(pr.y_dot, dblock + c) = DotAt(rt[c], CoefAt(ask, dblock + c))
       [] OTHER -> Interpolate(Joined(pr.y_quad_0, pr.y_quad_2), dblock + c) = QuadOf(ask, rt[c])}

\* What arrives, for what was sent.
Received(tam, pr, tab, ask, ix) ==
  /\ tam \in Responses \cup {"nothing", "req", "length"}
  /\ tam = "nothing" => pr = HonestProof(tab, ask, Gathered(tab, ix))
  /\ tam = "y_ldt" => \E v : OneChange(block, YLdt(tab, ask), pr.y_ldt, v)
  /\ tam = "y_dot" => \E v : OneChange(dblock, YDot(tab, ask), pr.y_dot, v)
  /\ tam = "y_quad_0" => /\ pr.y_quad_2 = YQuad2(tab, ask)
                         /\ \E v : OneChange(r, YQuad0(tab, ask), pr.y_quad_0, v)
  /\ tam = "y_quad_2" => /\ pr.y_quad_0 = YQuad0(tab, ask)
                         /\ \E v : OneChange(dblock - block, YQuad2(tab, ask), pr.y_quad_2, v)
  /\ tam = "req" => \E k \in 0 .. nrow * nreq - 1 : pr.req[k] = (Gathered(tab, ix)[k] + 1) % q
  /\ tam = "length" => ~ShapedOf(pr)

LEMMA ChangeCaught ==
  ASSUME NEW wit, NEW coins, Inputs(wit, coins), NEW ask, Challenges(ask), NEW tab, tab = Laid(wit, coins),
         QuadOk(tab, ask), NEW ix, NEW pr, NEW tam \in Responses, Received(tam, pr, tab, ask, ix)
  PROVE  AgreeingOf(tam, ask, Roots(tab), pr) = {}
<1>1. Agreed(tab, ask)
  BY HonestAgrees
<1>2. \A c \in 0 .. ext - 1 : /\ dblock + c \in Points /\ dblock + c >= dblock /\ dblock + c >= block
                              /\ Roots(tab)[c] = Col(tab, dblock + c)
  BY OpenPoint DEF Roots
<1>3. block \in {block, dblock} /\ dblock \in {block, dblock}
  OBVIOUS
<1>4. \A x \in Points : /\ Interpolate(YLdt(tab, ask), x) = LdtOf(ask, Col(tab, x))
                        /\ Interpolate(YDot(tab, ask), x) = DotAt(Col(tab, x), CoefAt(ask, x))
                        /\ Interpolate(Joined(YQuad0(tab, ask), YQuad2(tab, ask)), x) = QuadOf(ask, Col(tab, x))
  BY <1>1 DEF Agreed
<1>5. CASE tam = "y_ldt"
  <2>1. PICK v : OneChange(block, YLdt(tab, ask), pr.y_ldt, v)
    BY <1>5 DEF Received
  <2>2. \A c \in 0 .. ext - 1 : Interpolate(pr.y_ldt, dblock + c) # Interpolate(YLdt(tab, ask), dblock + c)
    BY <1>2, <1>3, <2>1, ChangeShows
  <2>3. \A c \in 0 .. ext - 1 : Interpolate(pr.y_ldt, dblock + c) # LdtOf(ask, Roots(tab)[c])
    BY <1>2, <1>4, <2>2
  <2> QED
    BY <1>5, <2>3 DEF AgreeingOf
<1>6. CASE tam = "y_dot"
  <2>1. PICK v : OneChange(dblock, YDot(tab, ask), pr.y_dot, v)
    BY <1>6 DEF Received
  <2>2. \A c \in 0 .. ext - 1 : Interpolate(pr.y_dot, dblock + c) # Interpolate(YDot(tab, ask), dblock + c)
    BY <1>2, <1>3, <2>1, ChangeShows
  <2>3. \A c \in 0 .. ext - 1 : Interpolate(pr.y_dot, dblock + c) # DotAt(Roots(tab)[c], CoefAt(ask, dblock + c))
    BY <1>2, <1>4, <2>2
  <2> QED
    BY <1>6, <2>3 DEF AgreeingOf
<1>7. CASE tam \in {"y_quad_0", "y_quad_2"}
  <2>1. YQuad0(tab, ask) \in [0 .. r - 1 -> F] /\ YQuad2(tab, ask) \in [0 .. dblock - block - 1 -> F]
    BY <1>1 DEF Agreed
  <2>2. PICK a, b, c, d : a = YQuad0(tab, ask) /\ b = YQuad2(tab, ask) /\ c = pr.y_quad_0 /\ d = pr.y_quad_2
    OBVIOUS
  <2>3. \/ b = d /\ (\E v : OneChange(r, a, c, v)) /\ b \in [0 .. dblock - block - 1 -> F]
        \/ a = c /\ (\E v : OneChange(dblock - block, b, d, v)) /\ a \in [0 .. r - 1 -> F]
    <3>1. CASE tam = "y_quad_0"
      BY <2>1, <2>2, <3>1 DEF Received
    <3>2. CASE tam = "y_quad_2"
      BY <2>1, <2>2, <3>2 DEF Received
    <3> QED
      BY <1>7, <3>1, <3>2
  <2>4. PICK v : OneChange(dblock, Joined(a, b), Joined(c, d), v)
    BY <2>3, JoinedChange
  <2>5. \A x \in 0 .. ext - 1 : Interpolate(Joined(c, d), dblock + x) # Interpolate(Joined(a, b), dblock + x)
    BY <1>2, <1>3, <2>4, ChangeShows
  <2>6. \A x \in 0 .. ext - 1 : Interpolate(Joined(c, d), dblock + x) # QuadOf(ask, Roots(tab)[x])
    BY <1>2, <1>4, <2>2, <2>5
  <2>7. tam # "y_ldt" /\ tam # "y_dot"
    BY <1>7
  <2> QED
    BY <2>2, <2>6, <2>7 DEF AgreeingOf
<1> QED
  BY <1>5, <1>6, <1>7 DEF Responses

-----------------------------------------------------------------------------
(***************************************************************************)
(* The operators of the model in the same terms.                           *)
(***************************************************************************)
LEMMA InModel ==
  /\ \A x : Column(x) = Col(tableau, x)
  /\ \A val : LowDegreeAt(val) = LdtOf(asked, val)
  /\ \A val : QuadraticAt(val) = QuadOf(asked, val)
  /\ \A c : Opened(c) = OpenedOf(proof.req, c)
  /\ CoefficientRows = CoefsOf(asked)
  /\ ReceivedYQuad = Joined(proof.y_quad_0, proof.y_quad_2)
  /\ Shaped <=> ShapedOf(proof)
<1>1. \A x : Column(x) = Col(tableau, x)
  BY DEF Column, Col
<1>2. \A val : LowDegreeAt(val) = LdtOf(asked, val)
  BY DEF LowDegreeAt, LdtOf, uldt
<1>3. \A val : QuadraticAt(val) = QuadOf(asked, val)
  BY DEF QuadraticAt, QuadOf, uquad, UQuad
<1>4. \A c : Opened(c) = OpenedOf(proof.req, c)
  BY DEF Opened, OpenedOf
<1>5. \A v : InnerProductVector(v) = IpvOf(asked, v)
  BY DEF InnerProductVector, IpvOf, LinearTerms, CopyTerms, alphal, alphaq, AlphaL, AlphaQ, OperandAt
<1>6. \A i : CoefficientRow(i) = Extend(CoefSamples(asked, i))
  BY <1>5 DEF CoefficientRow, CoefSamples
<1>7. CoefficientRows = CoefsOf(asked)
  BY <1>6 DEF CoefficientRows, CoefsOf
<1>8. ReceivedYQuad = Joined(proof.y_quad_0, proof.y_quad_2)
  BY DEF ReceivedYQuad, Joined
<1>9. Shaped <=> ShapedOf(proof)
  BY DEF Shaped, ShapedOf
<1> QED
  BY <1>1, <1>2, <1>3, <1>4, <1>7, <1>8, <1>9

LEMMA ChecksInModel ==
  /\ (\A c \in 0 .. nreq - 1 : Opened(c) = root[vidx[c]]) <=> MerkleOk(root, proof, vidx)
  /\ (\A c \in 0 .. nreq - 1 : Interpolate(proof.y_ldt, dblock + vidx[c]) = LowDegreeAt(Opened(c)))
       <=> LdtOk(asked, proof, vidx)
  /\ (\A c \in 0 .. nreq - 1 :
        Interpolate(proof.y_dot, dblock + vidx[c])
          = DotAt(Opened(c), [i \in 0 .. nwqrow - 1 |-> CoefficientRows[i][dblock + vidx[c]]]))
       <=> DotOk(asked, proof, vidx)
  /\ (\A c \in 0 .. nreq - 1 : Interpolate(ReceivedYQuad, dblock + vidx[c]) = QuadraticAt(Opened(c)))
       <=> QuadCheckOk(asked, proof, vidx)
  /\ InnerProductOk <=> InnerOk(evals, asked, proof)
<1>1. (\A c \in 0 .. nreq - 1 : Opened(c) = root[vidx[c]]) <=> MerkleOk(root, proof, vidx)
  BY InModel DEF MerkleOk
<1>2. (\A c \in 0 .. nreq - 1 : Interpolate(proof.y_ldt, dblock + vidx[c]) = LowDegreeAt(Opened(c)))
       <=> LdtOk(asked, proof, vidx)
  BY InModel DEF LdtOk
<1>3. (\A c \in 0 .. nreq - 1 :
        Interpolate(proof.y_dot, dblock + vidx[c])
          = DotAt(Opened(c), [i \in 0 .. nwqrow - 1 |-> CoefficientRows[i][dblock + vidx[c]]]))
       <=> DotOk(asked, proof, vidx)
  BY InModel DEF DotOk, CoefAt
<1>4. (\A c \in 0 .. nreq - 1 : Interpolate(ReceivedYQuad, dblock + vidx[c]) = QuadraticAt(Opened(c)))
       <=> QuadCheckOk(asked, proof, vidx)
  BY InModel DEF QuadCheckOk
<1>5. InnerProductOk <=> InnerOk(evals, asked, proof)
  BY DEF InnerProductOk, InnerOk, EvalSide, alphal, AlphaL
<1> QED
  BY <1>1, <1>2, <1>3, <1>4, <1>5

-----------------------------------------------------------------------------
(***************************************************************************)
(* The inductive invariant, part by part.                                  *)
(***************************************************************************)
Layouts == {"layout", "layout_witness", "layout_quadratic"}
Checked == {"low_degree", "dot", "inner", "quadratic", "accepted"}
Drawn == {"merkle"} \cup Checked \cup (Errors \ {"InvalidProof"})
Sent == {"sent", "validate", "draw", "InvalidProof"} \cup Drawn
Before == Layouts \cup {"commit", "respond", "combine", "open", "panicked"}

\* The rows above a given one.
Above(wit, coins, n) == [i \in 0 .. n - 1 |-> Extend(SamplesOf(wit, coins, i))]

InputsInv(wit, ev, coins) == Inputs(wit, coins) /\ ev \in [0 .. nl - 1 -> F]

LayoutInv(p, wit, coins, tab) ==
  /\ p \in Before \cup Sent
  /\ p = "layout_witness" => tab = Above(wit, coins, iw)
  /\ p = "layout_quadratic" => tab = Above(wit, coins, iq)
  /\ p \notin Layouts => tab = Laid(wit, coins)

CommitInv(p, tab, rt, ask) ==
  /\ p \notin Layouts \cup {"commit"} => rt = Roots(tab)
  /\ p \notin Layouts \cup {"commit", "respond"} => Challenges(ask)

RespondInv(p, tab, ask, pr, tam) ==
  /\ p = "panicked" => ~QuadOk(tab, ask)
  /\ p = "open" => QuadOk(tab, ask) /\ pr = HonestProof(tab, ask, <<>>)
  /\ p \in Before \cup {"sent"} => tam = "nothing"

SentInv(p, tab, ask, ix, pr, tam) ==
  p \in Sent => QuadOk(tab, ask) /\ ix \in Positions /\ Received(tam, pr, tab, ask, ix)

DrawnInv(p, tam, ix, vix) ==
  /\ p \in Drawn \cup {"draw"} => tam # "length"
  /\ p \in Drawn => vix \in Positions /\ (tam \notin Responses => vix = ix)

CheckedInv(p, ev, ask, pr, tam) ==
  /\ p \in Checked => tam # "req"
  /\ p \in {"quadratic", "accepted"} => InnerOk(ev, ask, pr)
  /\ p \in Errors /\ tam = "nothing" => ~InnerOk(ev, ask, pr)

LigeroInv ==
  /\ InputsInv(witness, evals, rng)
  /\ LayoutInv(pc, witness, rng, tableau)
  /\ CommitInv(pc, tableau, root, asked)
  /\ RespondInv(pc, tableau, asked, proof, tampered)
  /\ SentInv(pc, tableau, asked, idx, proof, tampered)
  /\ DrawnInv(pc, tampered, idx, vidx)
  /\ CheckedInv(pc, evals, asked, proof, tampered)

LEMMA InvInit == Init => LigeroInv
<1> SUFFICES ASSUME Init PROVE LigeroInv
  OBVIOUS
<1>1. pc = "layout" /\ tampered = "nothing" /\ witness \in Witnesses /\ evals \in Evals /\ rng \in Coins
  BY DEF Init
<1>2. InputsInv(witness, evals, rng)
  BY <1>1, LigeroAssumption DEF InputsInv, Inputs
<1>3. pc \in Layouts /\ pc \in Before /\ pc \notin Sent /\ pc \notin Drawn /\ pc \notin Checked /\ pc \notin Errors
  BY <1>1 DEF Layouts, Before, Sent, Drawn, Checked, Errors
<1>4. LayoutInv(pc, witness, rng, tableau)
  BY <1>1, <1>3 DEF LayoutInv
<1>5. CommitInv(pc, tableau, root, asked)
  BY <1>3 DEF CommitInv
<1>6. RespondInv(pc, tableau, asked, proof, tampered)
  BY <1>1, <1>3 DEF RespondInv
<1>7. SentInv(pc, tableau, asked, idx, proof, tampered)
  BY <1>3 DEF SentInv
<1>8. DrawnInv(pc, tampered, idx, vidx)
  BY <1>1, <1>3 DEF DrawnInv
<1>9. CheckedInv(pc, evals, asked, proof, tampered)
  BY <1>1, <1>3 DEF CheckedInv
<1> QED
  BY <1>2, <1>4, <1>5, <1>6, <1>7, <1>8, <1>9 DEF LigeroInv

\* The rows the layout adds.
LEMMA RowsInModel ==
  /\ \A i \in 0 .. iw - 1 :
       (IF i = ildt THEN Draw(0, block)
        ELSE IF i = idot THEN DotMask(Draw(block, dblock))
        ELSE QuadMask(Draw(block + dblock, dblock))) = SamplesOf(witness, rng, i)
  /\ \A i \in 0 .. iq - 1 : ~(i < iw) => WitnessRow(i - iw) = Extend(SamplesOf(witness, rng, i))
  /\ \A i \in 0 .. nrow - 1 : ~(i < iq) =>
       QuadraticRow((i - iq) % nqtriples, (i - iq) \div nqtriples) = Extend(SamplesOf(witness, rng, i))
<1>0. iw = 3 /\ nwrow \in Nat /\ iq = 3 + nwrow /\ nrow \in Nat
  BY Layout
<1>1. ASSUME NEW i \in 0 .. iw - 1
      PROVE  (IF i = ildt THEN Draw(0, block)
              ELSE IF i = idot THEN DotMask(Draw(block, dblock))
              ELSE QuadMask(Draw(block + dblock, dblock))) = SamplesOf(witness, rng, i)
  <2>1. i < iw
    BY <1>0
  <2>2. SamplesOf(witness, rng, i) = BlindingSamples(rng, i)
    BY <2>1 DEF SamplesOf
  <2>3. \A from, len : Draw(from, len) = DrawOf(rng, from, len)
    BY DEF Draw, DrawOf
  <2> QED
    BY <2>2, <2>3 DEF BlindingSamples
<1>2. ASSUME NEW i \in 0 .. iq - 1, ~(i < iw)
      PROVE  WitnessRow(i - iw) = Extend(SamplesOf(witness, rng, i))
  <2>1. i < iq
    BY <1>0
  <2>2. SamplesOf(witness, rng, i) = WitnessSamples(witness, rng, i - iw)
    BY <1>2, <2>1 DEF SamplesOf
  <2> QED
    BY <2>2 DEF WitnessRow, WitnessSamples
<1>3. ASSUME NEW i \in 0 .. nrow - 1, ~(i < iq)
      PROVE  QuadraticRow((i - iq) % nqtriples, (i - iq) \div nqtriples) = Extend(SamplesOf(witness, rng, i))
  <2>1. ~(i < iw)
    BY <1>0, <1>3
  <2>2. PICK a, b : a = (i - iq) % nqtriples /\ b = (i - iq) \div nqtriples
    OBVIOUS
  <2>3. SamplesOf(witness, rng, i) = QuadraticSamples(witness, rng, a, b)
    BY <1>3, <2>1, <2>2 DEF SamplesOf
  <2>4. QuadraticRow(a, b) = Extend(QuadraticSamples(witness, rng, a, b))
    BY DEF QuadraticRow, QuadraticSamples, Operand, OperandOf
  <2> QED
    BY <2>2, <2>3, <2>4
<1> QED
  BY <1>1, <1>2, <1>3

\* The steps before anything is sent.
LEMMA InvLayout ==
  LigeroInv /\ (LayoutBlindingRows \/ LayoutWitnessRows \/ LayoutQuadraticRows) => LigeroInv'
<1> SUFFICES ASSUME LigeroInv, LayoutBlindingRows \/ LayoutWitnessRows \/ LayoutQuadraticRows
             PROVE  LigeroInv'
  OBVIOUS
<1>1. /\ InputsInv(witness, evals, rng) /\ LayoutInv(pc, witness, rng, tableau)
      /\ RespondInv(pc, tableau, asked, proof, tampered)
  BY DEF LigeroInv
<1>2. /\ iw = 3 /\ nwrow \in Nat /\ iq = 3 + nwrow /\ nrow = 3 + nwqrow /\ nwqrow = nwrow + 3 * nqtriples
      /\ nqtriples \in Nat /\ nrow \in Nat
  BY Layout
<1>3. /\ witness' = witness /\ evals' = evals /\ rng' = rng /\ tampered' = tampered
      /\ pc \in Layouts /\ pc' \in {"layout_witness", "layout_quadratic", "commit"}
  BY DEF LayoutBlindingRows, LayoutWitnessRows, LayoutQuadraticRows, Layouts
<1>4. /\ pc' \in Before /\ pc' \notin Sent /\ pc' \notin Drawn /\ pc' \notin Checked /\ pc' \notin Errors
      /\ pc' # "open" /\ pc' # "panicked" /\ pc' \in Layouts \cup {"commit"} /\ pc \in Before
      /\ pc' # "draw" /\ pc' \notin {"quadratic", "accepted"}
  BY <1>3 DEF Layouts, Before, Sent, Drawn, Checked, Errors
<1>5. tampered' = "nothing"
  BY <1>1, <1>3, <1>4 DEF RespondInv
<1>6. LayoutInv(pc', witness', rng', tableau')
  <2>1. CASE LayoutBlindingRows
    <3>1. pc' = "layout_witness"
      BY <2>1 DEF LayoutBlindingRows
    <3>2. tableau' = Above(witness, rng, iw)
      BY <2>1, RowsInModel DEF LayoutBlindingRows, Above
    <3> QED
      BY <1>3, <1>4, <3>1, <3>2 DEF LayoutInv, Layouts
  <2>2. CASE LayoutWitnessRows
    <3>1. pc = "layout_witness" /\ pc' = "layout_quadratic"
      BY <2>2 DEF LayoutWitnessRows
    <3>2. tableau = Above(witness, rng, iw)
      BY <1>1, <3>1 DEF LayoutInv
    <3>3. \A i \in 0 .. iq - 1 : i < iw => tableau[i] = Extend(SamplesOf(witness, rng, i))
      <4>1. \A i \in 0 .. iq - 1 : i < iw => i \in 0 .. iw - 1
        BY <1>2
      <4> QED
        BY <3>2, <4>1 DEF Above
    <3>4. tableau' = [i \in 0 .. iq - 1 |-> IF i < iw THEN tableau[i] ELSE WitnessRow(i - iw)]
      BY <2>2 DEF LayoutWitnessRows
    <3>5. tableau' = Above(witness, rng, iq)
      BY <3>3, <3>4, RowsInModel DEF Above
    <3> QED
      BY <1>3, <1>4, <3>1, <3>5 DEF LayoutInv, Layouts
  <2>3. CASE LayoutQuadraticRows
    <3>1. pc = "layout_quadratic" /\ pc' = "commit"
      BY <2>3 DEF LayoutQuadraticRows
    <3>2. tableau = Above(witness, rng, iq)
      BY <1>1, <3>1 DEF LayoutInv
    <3>3. \A i \in 0 .. nrow - 1 : i < iq => tableau[i] = Extend(SamplesOf(witness, rng, i))
      <4>1. \A i \in 0 .. nrow - 1 : i < iq => i \in 0 .. iq - 1
        BY <1>2
      <4> QED
        BY <3>2, <4>1 DEF Above
    <3>4. tableau' = [i \in 0 .. nrow - 1 |->
                        IF i < iq THEN tableau[i]
                        ELSE QuadraticRow((i - iq) % nqtriples, (i - iq) \div nqtriples)]
      BY <2>3 DEF LayoutQuadraticRows
    <3>5. tableau' = Laid(witness, rng)
      BY <3>3, <3>4, RowsInModel DEF Laid
    <3> QED
      BY <1>3, <1>4, <3>1, <3>5 DEF LayoutInv
  <2> QED
    BY <2>1, <2>2, <2>3
<1>7. InputsInv(witness', evals', rng')
  BY <1>1, <1>3
<1>8. CommitInv(pc', tableau', root', asked')
  BY <1>4 DEF CommitInv
<1>9. RespondInv(pc', tableau', asked', proof', tampered')
  BY <1>4, <1>5 DEF RespondInv
<1>10. SentInv(pc', tableau', asked', idx', proof', tampered')
  BY <1>4 DEF SentInv
<1>11. DrawnInv(pc', tampered', idx', vidx')
  BY <1>4, <1>5 DEF DrawnInv
<1>12. CheckedInv(pc', evals', asked', proof', tampered')
  BY <1>4 DEF CheckedInv
<1> QED
  BY <1>6, <1>7, <1>8, <1>9, <1>10, <1>11, <1>12 DEF LigeroInv

LEMMA ResponsesInModel ==
  /\ \A x \in 0 .. dblock - 1 : YQuad[x] = QuadRow(tableau, asked)[x]
  /\ (\A s \in Slots : YQuad[s] = 0) <=> QuadOk(tableau, asked)
  /\ [x \in 0 .. block - 1 |-> LowDegreeAt(Column(x))] = YLdt(tableau, asked)
  /\ [x \in 0 .. dblock - 1 |-> DotAt(Column(x), [i \in 0 .. nwqrow - 1 |-> CoefficientRows[i][x]])]
       = YDot(tableau, asked)
  /\ [x \in 0 .. r - 1 |-> YQuad[x]] = YQuad0(tableau, asked)
  /\ [x \in 0 .. dblock - block - 1 |-> YQuad[block + x]] = YQuad2(tableau, asked)
<1>1. /\ block \in Nat /\ dblock \in Nat /\ block <= dblock /\ r \in Nat /\ r <= block
      /\ block_enc \in Nat /\ dblock <= block_enc
  BY Geometry
<1>2. /\ \A x \in 0 .. block - 1 : x \in Points
      /\ \A x \in 0 .. dblock - 1 : x \in Points
      /\ \A x \in 0 .. r - 1 : x \in 0 .. dblock - 1
      /\ \A x \in 0 .. dblock - block - 1 : block + x \in 0 .. dblock - 1
  BY <1>1 DEF Points
<1>3. \A x \in 0 .. dblock - 1 : YQuad[x] = QuadRow(tableau, asked)[x]
  BY <1>2, InModel DEF YQuad, QuadRow
<1>4. (\A s \in Slots : YQuad[s] = 0) <=> QuadOk(tableau, asked)
  BY <1>3, SlotsAre DEF QuadOk
<1>5. [x \in 0 .. block - 1 |-> LowDegreeAt(Column(x))] = YLdt(tableau, asked)
  BY <1>2, InModel DEF YLdt, LdtRow
<1>6. [x \in 0 .. dblock - 1 |-> DotAt(Column(x), [i \in 0 .. nwqrow - 1 |-> CoefficientRows[i][x]])]
       = YDot(tableau, asked)
  <2>1. \A x : [i \in 0 .. nwqrow - 1 |-> CoefficientRows[i][x]] = CoefAt(asked, x)
    BY InModel DEF CoefAt
  <2>2. ASSUME NEW x \in 0 .. dblock - 1
        PROVE  DotAt(Column(x), [i \in 0 .. nwqrow - 1 |-> CoefficientRows[i][x]]) = DotRow(tableau, asked)[x]
    <3>1. Column(x) = Col(tableau, x)
      BY InModel
    <3>2. DotRow(tableau, asked)[x] = DotAt(Col(tableau, x), CoefAt(asked, x))
      BY <1>2 DEF DotRow
    <3> QED
      BY <2>1, <3>1, <3>2
  <2> QED
    BY <2>2 DEF YDot
<1>7. [x \in 0 .. r - 1 |-> YQuad[x]] = YQuad0(tableau, asked)
  BY <1>2, <1>3 DEF YQuad0
<1>8. [x \in 0 .. dblock - block - 1 |-> YQuad[block + x]] = YQuad2(tableau, asked)
  BY <1>2, <1>3 DEF YQuad2
<1> QED
  BY <1>3, <1>4, <1>5, <1>6, <1>7, <1>8

LEMMA InvRespond ==
  LigeroInv /\ (Commit \/ Ask \/ Combine \/ CombinePanics) => LigeroInv'
<1> SUFFICES ASSUME LigeroInv, Commit \/ Ask \/ Combine \/ CombinePanics
             PROVE  LigeroInv'
  OBVIOUS
<1>1. /\ InputsInv(witness, evals, rng) /\ LayoutInv(pc, witness, rng, tableau)
      /\ CommitInv(pc, tableau, root, asked) /\ RespondInv(pc, tableau, asked, proof, tampered)
  BY DEF LigeroInv
<1>2. /\ witness' = witness /\ evals' = evals /\ rng' = rng /\ tampered' = tampered /\ tableau' = tableau
      /\ pc \in {"commit", "respond", "combine"} /\ pc' \in {"respond", "combine", "open", "panicked"}
  BY DEF Commit, Ask, Combine, CombinePanics
<1>3. /\ pc' \in Before /\ pc' \notin Sent /\ pc' \notin Drawn /\ pc' \notin Checked /\ pc' \notin Errors
      /\ pc' \notin Layouts \cup {"commit"} /\ pc \in Before /\ pc \notin Layouts
      /\ pc' # "draw" /\ pc' \notin {"quadratic", "accepted"} /\ pc' \notin {"layout_witness", "layout_quadratic"}
  BY <1>2 DEF Layouts, Before, Sent, Drawn, Checked, Errors
<1>4. tampered' = "nothing"
  BY <1>1, <1>2, <1>3 DEF RespondInv
<1>5. InputsInv(witness', evals', rng')
  BY <1>1, <1>2
<1>6. LayoutInv(pc', witness', rng', tableau')
  BY <1>1, <1>2, <1>3 DEF LayoutInv
<1>7. SentInv(pc', tableau', asked', idx', proof', tampered')
  BY <1>3 DEF SentInv
<1>8. DrawnInv(pc', tampered', idx', vidx')
  BY <1>3 DEF DrawnInv
<1>9. CheckedInv(pc', evals', asked', proof', tampered')
  BY <1>3 DEF CheckedInv
<1>10. /\ CommitInv(pc', tableau', root', asked')
       /\ RespondInv(pc', tableau', asked', proof', tampered')
  <2>1. CASE Commit
    <3>1. pc' = "respond" /\ root' = Roots(tableau)
      BY <2>1, InModel DEF Commit, Roots
    <3> QED
      BY <1>2, <1>4, <3>1 DEF CommitInv, RespondInv
  <2>2. CASE Ask
    <3>1. pc = "respond" /\ pc' = "combine" /\ root' = root /\ asked' \in Tapes
      BY <2>2 DEF Ask
    <3>2. Challenges(asked')
      BY <3>1, LigeroAssumption DEF Challenges
    <3>3. root = Roots(tableau)
      BY <1>1, <1>3, <3>1 DEF CommitInv, Layouts
    <3> QED
      BY <1>2, <1>4, <3>1, <3>2, <3>3 DEF CommitInv, RespondInv
  <2>3. CASE Combine
    <3>1. pc = "combine" /\ pc' = "open" /\ root' = root /\ asked' = asked
      BY <2>3 DEF Combine
    <3>2. QuadOk(tableau, asked)
      BY <2>3, ResponsesInModel DEF Combine
    <3>3. proof' = [y_ldt |-> [x \in 0 .. block - 1 |-> LowDegreeAt(Column(x))],
                    y_dot |-> [x \in 0 .. dblock - 1 |->
                                 DotAt(Column(x), [i \in 0 .. nwqrow - 1 |-> CoefficientRows[i][x]])],
                    y_quad_0 |-> [x \in 0 .. r - 1 |-> YQuad[x]],
                    y_quad_2 |-> [x \in 0 .. dblock - block - 1 |-> YQuad[block + x]],
                    req |-> <<>>]
      BY <2>3 DEF Combine
    <3>4. proof' = HonestProof(tableau, asked, <<>>)
      BY <3>3, ResponsesInModel DEF HonestProof
    <3>5. root = Roots(tableau) /\ Challenges(asked)
      BY <1>1, <1>3, <3>1 DEF CommitInv, Layouts
    <3> QED
      BY <1>2, <1>4, <3>1, <3>2, <3>4, <3>5 DEF CommitInv, RespondInv
  <2>4. CASE CombinePanics
    <3>1. pc = "combine" /\ pc' = "panicked" /\ root' = root /\ asked' = asked /\ proof' = proof
      BY <2>4 DEF CombinePanics
    <3>2. ~QuadOk(tableau, asked)
      BY <2>4, ResponsesInModel DEF CombinePanics
    <3>3. root = Roots(tableau) /\ Challenges(asked)
      BY <1>1, <1>3, <3>1 DEF CommitInv, Layouts
    <3> QED
      BY <1>2, <1>4, <3>1, <3>2, <3>3 DEF CommitInv, RespondInv
  <2> QED
    BY <2>1, <2>2, <2>3, <2>4
<1> QED
  BY <1>5, <1>6, <1>7, <1>8, <1>9, <1>10 DEF LigeroInv

\* Opening the columns.
LEMMA InvOpen == LigeroInv /\ Open => LigeroInv'
<1> SUFFICES ASSUME LigeroInv, Open PROVE LigeroInv'
  OBVIOUS
<1>1. /\ InputsInv(witness, evals, rng) /\ LayoutInv(pc, witness, rng, tableau)
      /\ CommitInv(pc, tableau, root, asked) /\ RespondInv(pc, tableau, asked, proof, tampered)
  BY DEF LigeroInv
<1>2. /\ pc = "open" /\ pc' = "sent" /\ idx' \in Positions
      /\ witness' = witness /\ evals' = evals /\ rng' = rng /\ tampered' = tampered /\ tableau' = tableau
      /\ root' = root /\ asked' = asked
  BY DEF Open
<1>3. proof' = [proof EXCEPT !.req = [k \in 0 .. nrow * nreq - 1 |->
                                        tableau[k \div nreq][dblock + idx'[k % nreq]]]]
  BY DEF Open
<1>4. /\ pc' \in Sent /\ pc' \notin Drawn /\ pc' \notin Checked /\ pc' \notin Errors
      /\ pc' \notin Layouts \cup {"commit", "respond"} /\ pc \in Before
      /\ pc \notin Layouts \cup {"commit", "respond"}
  BY <1>2 DEF Layouts, Before, Sent, Drawn, Checked, Errors
<1>5. tampered = "nothing" /\ QuadOk(tableau, asked) /\ proof = HonestProof(tableau, asked, <<>>)
  BY <1>1, <1>2, <1>4 DEF RespondInv
<1>6. proof' = HonestProof(tableau, asked, Gathered(tableau, idx'))
  <2>1. PICK g : g = Gathered(tableau, idx')
    OBVIOUS
  <2>2. proof' = [proof EXCEPT !.req = g]
    BY <1>3, <2>1 DEF Gathered
  <2>3. proof' = HonestProof(tableau, asked, g)
    BY <1>5, <2>2 DEF HonestProof
  <2> QED
    BY <2>1, <2>3
<1>7. Received(tampered', proof', tableau', asked', idx')
  BY <1>2, <1>5, <1>6 DEF Received
<1>8. InputsInv(witness', evals', rng')
  BY <1>1, <1>2
<1>9. LayoutInv(pc', witness', rng', tableau')
  BY <1>1, <1>2, <1>4 DEF LayoutInv
<1>10. CommitInv(pc', tableau', root', asked')
  BY <1>1, <1>2, <1>4 DEF CommitInv
<1>11. RespondInv(pc', tableau', asked', proof', tampered')
  BY <1>2, <1>5 DEF RespondInv
<1>12. SentInv(pc', tableau', asked', idx', proof', tampered')
  BY <1>2, <1>5, <1>7 DEF SentInv
<1>13. DrawnInv(pc', tampered', idx', vidx')
  BY <1>2, <1>4, <1>5 DEF DrawnInv
<1>14. CheckedInv(pc', evals', asked', proof', tampered')
  BY <1>2, <1>4 DEF CheckedInv
<1> QED
  BY <1>8, <1>9, <1>10, <1>11, <1>12, <1>13, <1>14 DEF LigeroInv

\* A part of the proof one element short.
LEMMA ShortPart ==
  ASSUME NEW len \in Nat, NEW D, D = 0 .. len - 1, D # {}
  PROVE  0 .. Cardinality(D) - 2 # 0 .. len - 1
<1>1. len >= 1 /\ Cardinality(D) = len
  BY FS_Interval
<1>2. len - 1 \in 0 .. len - 1 /\ len - 1 \notin 0 .. len - 2
  BY <1>1
<1> QED
  BY <1>1, <1>2

LEMMA ElementChanged ==
  ASSUME NEW tab, NEW ask, Agreed(tab, ask), NEW ix, NEW pr, pr = HonestProof(tab, ask, Gathered(tab, ix)),
         NEW y \in Responses, NEW x \in DOMAIN pr[y], NEW d \in 1 .. q - 1
  PROVE  Received(y, [pr EXCEPT ![y][x] = (@ + d) % q], tab, ask, ix)
<1>1. /\ YLdt(tab, ask) \in [0 .. block - 1 -> F] /\ YDot(tab, ask) \in [0 .. dblock - 1 -> F]
      /\ YQuad0(tab, ask) \in [0 .. r - 1 -> F]
      /\ YQuad2(tab, ask) \in [0 .. dblock - block - 1 -> F]
  BY DEF Agreed
<1>2. block \in Nat /\ dblock \in Nat /\ r \in Nat /\ dblock - block \in Nat
  BY Geometry
<1>3. PICK p : p = [pr EXCEPT ![y][x] = (@ + d) % q]
  OBVIOUS
<1>4. CASE y = "y_ldt"
  <2>1. pr[y] = YLdt(tab, ask)
    BY <1>4 DEF HonestProof
  <2>2. x \in 0 .. block - 1
    BY <1>1, <2>1
  <2>3. p.y_ldt = [YLdt(tab, ask) EXCEPT ![x] = (@ + d) % q]
    BY <1>3, <1>4 DEF HonestProof
  <2>4. OneChange(block, YLdt(tab, ask), p.y_ldt, x)
    <3>1. PICK a \in [0 .. block - 1 -> F] : a = YLdt(tab, ask)
      BY <1>1
    <3>2. OneChange(block, a, [a EXCEPT ![x] = (@ + d) % q], x)
      BY <1>2, <2>2, ChangeIs
    <3> QED
      BY <2>3, <3>1, <3>2
  <2> QED
    BY <1>3, <1>4, <2>4 DEF Received
<1>5. CASE y = "y_dot"
  <2>1. pr[y] = YDot(tab, ask)
    BY <1>5 DEF HonestProof
  <2>2. x \in 0 .. dblock - 1
    BY <1>1, <2>1
  <2>3. p.y_dot = [YDot(tab, ask) EXCEPT ![x] = (@ + d) % q]
    BY <1>3, <1>5 DEF HonestProof
  <2>4. OneChange(dblock, YDot(tab, ask), p.y_dot, x)
    <3>1. PICK a \in [0 .. dblock - 1 -> F] : a = YDot(tab, ask)
      BY <1>1
    <3>2. OneChange(dblock, a, [a EXCEPT ![x] = (@ + d) % q], x)
      BY <1>2, <2>2, ChangeIs
    <3> QED
      BY <2>3, <3>1, <3>2
  <2> QED
    BY <1>3, <1>5, <2>4 DEF Received
<1>6. CASE y = "y_quad_0"
  <2>1. pr[y] = YQuad0(tab, ask)
    BY <1>6 DEF HonestProof
  <2>2. x \in 0 .. r - 1
    BY <1>1, <2>1
  <2>3. p.y_quad_0 = [YQuad0(tab, ask) EXCEPT ![x] = (@ + d) % q] /\ p.y_quad_2 = YQuad2(tab, ask)
    BY <1>3, <1>6 DEF HonestProof
  <2>4. OneChange(r, YQuad0(tab, ask), p.y_quad_0, x)
    <3>1. PICK a \in [0 .. r - 1 -> F] : a = YQuad0(tab, ask)
      BY <1>1
    <3>2. OneChange(r, a, [a EXCEPT ![x] = (@ + d) % q], x)
      BY <1>2, <2>2, ChangeIs
    <3> QED
      BY <2>3, <3>1, <3>2
  <2> QED
    BY <1>3, <1>6, <2>3, <2>4 DEF Received
<1>7. CASE y = "y_quad_2"
  <2>1. pr[y] = YQuad2(tab, ask)
    BY <1>7 DEF HonestProof
  <2>2. x \in 0 .. (dblock - block) - 1
    BY <1>1, <2>1
  <2>3. p.y_quad_2 = [YQuad2(tab, ask) EXCEPT ![x] = (@ + d) % q] /\ p.y_quad_0 = YQuad0(tab, ask)
    BY <1>3, <1>7 DEF HonestProof
  <2>4. OneChange(dblock - block, YQuad2(tab, ask), p.y_quad_2, x)
    <3>1. PICK a \in [0 .. (dblock - block) - 1 -> F] : a = YQuad2(tab, ask)
      BY <1>1
    <3>2. OneChange(dblock - block, a, [a EXCEPT ![x] = (@ + d) % q], x)
      BY <1>2, <2>2, ChangeIs
    <3> QED
      BY <2>3, <3>1, <3>2
  <2> QED
    BY <1>3, <1>7, <2>3, <2>4 DEF Received
<1> QED
  BY <1>4, <1>5, <1>6, <1>7 DEF Responses

LEMMA LengthChanged ==
  ASSUME NEW tab, NEW ask, NEW ix, NEW pr, pr = HonestProof(tab, ask, Gathered(tab, ix)),
         NEW y \in Responses \cup {"req"}, DOMAIN pr[y] # {}
  PROVE  ~ShapedOf([pr EXCEPT ![y] = [x \in 0 .. Cardinality(DOMAIN @) - 2 |-> @[x]]])
<1>1. /\ block \in Nat /\ dblock \in Nat /\ r \in Nat /\ dblock - block \in Nat /\ nrow * nreq \in Nat
  <2>1. nrow \in Nat /\ nreq \in Nat
    BY Geometry, Layout
  <2>2. nrow * nreq \in Nat
    BY <2>1
  <2> QED
    BY <2>2, Geometry
<1>2. PICK p : p = [pr EXCEPT ![y] = [x \in 0 .. Cardinality(DOMAIN @) - 2 |-> @[x]]]
  OBVIOUS
<1>3. DOMAIN p[y] = 0 .. Cardinality(DOMAIN pr[y]) - 2
  BY <1>2 DEF HonestProof, Responses
<1>4. CASE y = "y_ldt"
  <2>1. DOMAIN pr[y] = 0 .. block - 1
    BY <1>4 DEF HonestProof, YLdt
  <2>2. 0 .. Cardinality(DOMAIN pr[y]) - 2 # 0 .. block - 1
    BY <1>1, <2>1, ShortPart
  <2> QED
    BY <1>2, <1>3, <1>4, <2>2 DEF ShapedOf
<1>5. CASE y = "y_dot"
  <2>1. DOMAIN pr[y] = 0 .. dblock - 1
    BY <1>5 DEF HonestProof, YDot
  <2>2. 0 .. Cardinality(DOMAIN pr[y]) - 2 # 0 .. dblock - 1
    BY <1>1, <2>1, ShortPart
  <2> QED
    BY <1>2, <1>3, <1>5, <2>2 DEF ShapedOf
<1>6. CASE y = "y_quad_0"
  <2>1. DOMAIN pr[y] = 0 .. r - 1
    BY <1>6 DEF HonestProof, YQuad0
  <2>2. 0 .. Cardinality(DOMAIN pr[y]) - 2 # 0 .. r - 1
    BY <1>1, <2>1, ShortPart
  <2> QED
    BY <1>2, <1>3, <1>6, <2>2 DEF ShapedOf
<1>7. CASE y = "y_quad_2"
  <2>1. DOMAIN pr[y] = 0 .. dblock - block - 1
    BY <1>7 DEF HonestProof, YQuad2
  <2>2. 0 .. Cardinality(DOMAIN pr[y]) - 2 # 0 .. dblock - block - 1
    BY <1>1, <2>1, ShortPart
  <2> QED
    BY <1>2, <1>3, <1>7, <2>2 DEF ShapedOf
<1>8. CASE y = "req"
  <2>1. DOMAIN pr[y] = 0 .. nrow * nreq - 1
    BY <1>8 DEF HonestProof, Gathered
  <2>2. 0 .. Cardinality(DOMAIN pr[y]) - 2 # 0 .. nrow * nreq - 1
    BY <1>1, <2>1, ShortPart
  <2> QED
    BY <1>2, <1>3, <1>8, <2>2 DEF ShapedOf
<1> QED
  BY <1>4, <1>5, <1>6, <1>7, <1>8 DEF Responses

\* The way to the verifier.
LEMMA InvDeliver ==
  LigeroInv /\ (Deliver \/ CorruptElement \/ CorruptOpening \/ CorruptLength) => LigeroInv'
<1> SUFFICES ASSUME LigeroInv, Deliver \/ CorruptElement \/ CorruptOpening \/ CorruptLength
             PROVE  LigeroInv'
  OBVIOUS
<1>1. /\ InputsInv(witness, evals, rng) /\ LayoutInv(pc, witness, rng, tableau)
      /\ CommitInv(pc, tableau, root, asked) /\ RespondInv(pc, tableau, asked, proof, tampered)
      /\ SentInv(pc, tableau, asked, idx, proof, tampered)
  BY DEF LigeroInv
<1>2. /\ pc = "sent" /\ pc' = "validate"
      /\ witness' = witness /\ evals' = evals /\ rng' = rng /\ tableau' = tableau
      /\ root' = root /\ asked' = asked /\ idx' = idx
  BY DEF Deliver, CorruptElement, CorruptOpening, CorruptLength
<1>3. /\ pc' \in Sent /\ pc' \notin Drawn /\ pc' \notin Checked /\ pc' \notin Errors /\ pc \in Sent
      /\ pc' \notin Layouts \cup {"commit", "respond"} /\ pc' \notin Before \cup {"sent"}
      /\ pc \notin Layouts \cup {"commit", "respond"} /\ pc \in Before \cup {"sent"}
  BY <1>2 DEF Layouts, Before, Sent, Drawn, Checked, Errors
<1>4. tampered = "nothing" /\ QuadOk(tableau, asked) /\ idx \in Positions
  BY <1>1, <1>3 DEF RespondInv, SentInv
<1>5. proof = HonestProof(tableau, asked, Gathered(tableau, idx))
  BY <1>1, <1>3, <1>4 DEF SentInv, Received
<1>6. tableau = Laid(witness, rng) /\ Challenges(asked) /\ Inputs(witness, rng)
  BY <1>1, <1>3 DEF LayoutInv, CommitInv, InputsInv
<1>7. Agreed(tableau, asked)
  BY <1>6, HonestAgrees
<1>8. Received(tampered', proof', tableau, asked, idx)
  <2>1. CASE Deliver
    <3>1. tampered' = tampered /\ proof' = proof
      BY <2>1 DEF Deliver
    <3> QED
      BY <1>4, <1>5, <3>1 DEF Received
  <2>2. CASE CorruptElement
    <3>1. PICK y \in Responses : \E x \in DOMAIN proof[y], d \in 1 .. q - 1 :
            proof' = [proof EXCEPT ![y][x] = (@ + d) % q] /\ tampered' = y
      BY <2>2 DEF CorruptElement
    <3>2. PICK x \in DOMAIN proof[y], d \in 1 .. q - 1 :
            proof' = [proof EXCEPT ![y][x] = (@ + d) % q] /\ tampered' = y
      BY <3>1
    <3>3. Received(y, [proof EXCEPT ![y][x] = (@ + d) % q], tableau, asked, idx)
      BY <1>5, <1>7, ElementChanged
    <3> QED
      BY <3>2, <3>3
  <2>3. CASE CorruptOpening
    <3>1. PICK k \in DOMAIN proof.req : proof' = [proof EXCEPT !.req[k] = (@ + 1) % q]
      BY <2>3 DEF CorruptOpening
    <3>2. tampered' = "req"
      BY <2>3 DEF CorruptOpening
    <3>3. proof.req = Gathered(tableau, idx)
      BY <1>5 DEF HonestProof
    <3>4. k \in 0 .. nrow * nreq - 1
      BY <3>1, <3>3 DEF Gathered
    <3>5. proof'.req[k] = (Gathered(tableau, idx)[k] + 1) % q
      BY <1>5, <3>1, <3>3 DEF HonestProof
    <3> QED
      BY <3>2, <3>4, <3>5 DEF Received, Responses
  <2>4. CASE CorruptLength
    <3>1. PICK y \in Responses \cup {"req"} :
            /\ DOMAIN proof[y] # {}
            /\ proof' = [proof EXCEPT ![y] = [x \in 0 .. Cardinality(DOMAIN @) - 2 |-> @[x]]]
      BY <2>4 DEF CorruptLength
    <3>2. tampered' = "length"
      BY <2>4 DEF CorruptLength
    <3>3. ~ShapedOf(proof')
      BY <1>5, <3>1, LengthChanged
    <3> QED
      BY <3>2, <3>3 DEF Received, Responses
  <2> QED
    BY <2>1, <2>2, <2>3, <2>4
<1>9. InputsInv(witness', evals', rng')
  BY <1>1, <1>2
<1>10. LayoutInv(pc', witness', rng', tableau')
  BY <1>1, <1>2, <1>3 DEF LayoutInv
<1>11. CommitInv(pc', tableau', root', asked')
  BY <1>1, <1>2, <1>3 DEF CommitInv
<1>12. RespondInv(pc', tableau', asked', proof', tampered')
  BY <1>2, <1>3 DEF RespondInv
<1>13. SentInv(pc', tableau', asked', idx', proof', tampered')
  BY <1>2, <1>4, <1>8 DEF SentInv
<1>14. DrawnInv(pc', tampered', idx', vidx')
  BY <1>2, <1>3 DEF DrawnInv
<1>15. CheckedInv(pc', evals', asked', proof', tampered')
  BY <1>2, <1>3 DEF CheckedInv
<1> QED
  BY <1>9, <1>10, <1>11, <1>12, <1>13, <1>14, <1>15 DEF LigeroInv

\* A check of the verifier: pc moves, nothing else does.
Moved(ok, from, next, error) ==
  /\ pc = from /\ pc' = IF ok THEN next ELSE error
  /\ vidx' = vidx /\ proof' = proof /\ tampered' = tampered /\ idx' = idx
  /\ witness' = witness /\ evals' = evals /\ rng' = rng /\ tableau' = tableau
  /\ root' = root /\ asked' = asked

LEMMA ChecksMove ==
  /\ Validate => Moved(ShapedOf(proof), "validate", "draw", "InvalidProof")
  /\ MerkleCheck => Moved(MerkleOk(root, proof, vidx), "merkle", "low_degree", "MerkleCheckFailed")
  /\ LowDegreeCheck => Moved(LdtOk(asked, proof, vidx), "low_degree", "dot", "LowDegreeCheckFailed")
  /\ DotCheck => Moved(DotOk(asked, proof, vidx), "dot", "inner", "DotCheckFailed")
  /\ InnerProductCheck =>
       Moved(InnerOk(evals, asked, proof), "inner", "quadratic", "LinearInnerProductMismatch")
  /\ QuadraticCheck => Moved(QuadCheckOk(asked, proof, vidx), "quadratic", "accepted", "QuadraticCheckFailed")
<1>1. ASSUME NEW ok, NEW b, ok <=> b, NEW from, NEW next, NEW error, Go(from, ok, next, error)
      PROVE  Moved(b, from, next, error)
  BY <1>1 DEF Go, Moved
<1>2. Validate => Moved(ShapedOf(proof), "validate", "draw", "InvalidProof")
  BY <1>1, InModel DEF Validate
<1>3. MerkleCheck => Moved(MerkleOk(root, proof, vidx), "merkle", "low_degree", "MerkleCheckFailed")
  BY <1>1, ChecksInModel DEF MerkleCheck
<1>4. LowDegreeCheck => Moved(LdtOk(asked, proof, vidx), "low_degree", "dot", "LowDegreeCheckFailed")
  BY <1>1, ChecksInModel DEF LowDegreeCheck
<1>5. DotCheck => Moved(DotOk(asked, proof, vidx), "dot", "inner", "DotCheckFailed")
  BY <1>1, ChecksInModel DEF DotCheck
<1>6. InnerProductCheck =>
        Moved(InnerOk(evals, asked, proof), "inner", "quadratic", "LinearInnerProductMismatch")
  BY <1>1, ChecksInModel DEF InnerProductCheck
<1>7. QuadraticCheck => Moved(QuadCheckOk(asked, proof, vidx), "quadratic", "accepted", "QuadraticCheckFailed")
  BY <1>1, ChecksInModel DEF QuadraticCheck
<1> QED
  BY <1>2, <1>3, <1>4, <1>5, <1>6, <1>7

\* What the invariant gives the verifier.
LEMMA InvSent ==
  ASSUME LigeroInv, pc \in Sent
  PROVE  /\ Inputs(witness, rng) /\ evals \in [0 .. nl - 1 -> F] /\ tableau = Laid(witness, rng)
         /\ root = Roots(tableau) /\ Challenges(asked) /\ QuadOk(tableau, asked) /\ idx \in Positions
         /\ Received(tampered, proof, tableau, asked, idx) /\ Filled(tableau)
         /\ tampered = "nothing" =>
              /\ proof = HonestProof(tableau, asked, Gathered(tableau, idx))
              /\ ShapedOf(proof) /\ MerkleOk(root, proof, idx) /\ LdtOk(asked, proof, idx)
              /\ DotOk(asked, proof, idx) /\ QuadCheckOk(asked, proof, idx)
<1>1. /\ InputsInv(witness, evals, rng) /\ LayoutInv(pc, witness, rng, tableau)
      /\ CommitInv(pc, tableau, root, asked)
      /\ SentInv(pc, tableau, asked, idx, proof, tampered)
  BY DEF LigeroInv
<1>2. pc \notin Layouts \cup {"commit", "respond"}
  BY DEF Layouts, Sent, Drawn, Checked, Errors
<1>3. /\ Inputs(witness, rng) /\ evals \in [0 .. nl - 1 -> F] /\ tableau = Laid(witness, rng)
      /\ root = Roots(tableau) /\ Challenges(asked)
  BY <1>1, <1>2 DEF InputsInv, LayoutInv, CommitInv
<1>4. QuadOk(tableau, asked) /\ idx \in Positions /\ Received(tampered, proof, tableau, asked, idx)
  BY <1>1 DEF SentInv
<1>5. Filled(tableau)
  BY <1>3, LaidFilled
<1>6. ASSUME tampered = "nothing"
      PROVE  /\ proof = HonestProof(tableau, asked, Gathered(tableau, idx))
             /\ ShapedOf(proof) /\ MerkleOk(root, proof, idx) /\ LdtOk(asked, proof, idx)
             /\ DotOk(asked, proof, idx) /\ QuadCheckOk(asked, proof, idx)
  <2>1. proof = HonestProof(tableau, asked, Gathered(tableau, idx))
    BY <1>4, <1>6 DEF Received
  <2>2. /\ ShapedOf(proof) /\ MerkleOk(Roots(tableau), proof, idx) /\ LdtOk(asked, proof, idx)
        /\ DotOk(asked, proof, idx) /\ QuadCheckOk(asked, proof, idx)
    BY <1>3, <1>4, <2>1, HonestPasses
  <2> QED
    BY <1>3, <2>1, <2>2
<1> QED
  BY <1>3, <1>4, <1>5, <1>6

Verified == {"draw", "InvalidProof"} \cup Drawn

LEMMA InvKept ==
  ASSUME LigeroInv, pc \in Sent, pc' \in Verified, proof' = proof, tampered' = tampered, idx' = idx,
         witness' = witness, evals' = evals, rng' = rng, tableau' = tableau, root' = root, asked' = asked,
         DrawnInv(pc', tampered', idx', vidx'), CheckedInv(pc', evals', asked', proof', tampered')
  PROVE  LigeroInv'
<1>1. /\ InputsInv(witness, evals, rng) /\ LayoutInv(pc, witness, rng, tableau)
      /\ CommitInv(pc, tableau, root, asked)
      /\ SentInv(pc, tableau, asked, idx, proof, tampered)
  BY DEF LigeroInv
<1>2. /\ pc \notin Layouts \cup {"commit", "respond"} /\ pc' \notin Layouts \cup {"commit", "respond"}
      /\ pc' \in Sent /\ pc' \notin Before \cup {"sent"} /\ pc' # "panicked" /\ pc' # "open"
      /\ pc' # "layout_witness" /\ pc' # "layout_quadratic"
  BY DEF Layouts, Sent, Drawn, Checked, Errors, Verified, Before
<1>3. InputsInv(witness', evals', rng')
  BY <1>1
<1>4. LayoutInv(pc', witness', rng', tableau')
  BY <1>1, <1>2 DEF LayoutInv
<1>5. CommitInv(pc', tableau', root', asked')
  BY <1>1, <1>2 DEF CommitInv
<1>6. RespondInv(pc', tableau', asked', proof', tampered')
  BY <1>2 DEF RespondInv
<1>7. SentInv(pc', tableau', asked', idx', proof', tampered')
  BY <1>1, <1>2 DEF SentInv
<1> QED
  BY <1>3, <1>4, <1>5, <1>6, <1>7 DEF LigeroInv

LEMMA InvVerify ==
  LigeroInv /\ (\/ Validate \/ VerifierDraws \/ MerkleCheck \/ LowDegreeCheck \/ DotCheck
                \/ InnerProductCheck \/ QuadraticCheck) => LigeroInv'
<1> SUFFICES ASSUME LigeroInv, \/ Validate \/ VerifierDraws \/ MerkleCheck \/ LowDegreeCheck \/ DotCheck
                               \/ InnerProductCheck \/ QuadraticCheck
             PROVE  LigeroInv'
  OBVIOUS
<1>1. DrawnInv(pc, tampered, idx, vidx) /\ CheckedInv(pc, evals, asked, proof, tampered)
  BY DEF LigeroInv
<1>2. CASE Validate
  <2>1. Moved(ShapedOf(proof), "validate", "draw", "InvalidProof")
    BY <1>2, ChecksMove
  <2>2. pc \in Sent /\ pc' \in Verified
    BY <2>1 DEF Moved, Sent, Verified
  <2>3. Received(tampered, proof, tableau, asked, idx) /\ (tampered = "nothing" => ShapedOf(proof))
    BY <2>2, InvSent
  <2>4. pc' = "draw" => tampered # "length"
    BY <2>1, <2>3 DEF Moved, Received
  <2>5. pc' = "InvalidProof" => tampered # "nothing"
    BY <2>1, <2>3 DEF Moved
  <2>6. pc' \in {"draw", "InvalidProof"}
    BY <2>1 DEF Moved
  <2>7. DrawnInv(pc', tampered', idx', vidx')
    BY <2>1, <2>4, <2>6 DEF Moved, DrawnInv, Drawn, Checked, Errors
  <2>8. CheckedInv(pc', evals', asked', proof', tampered')
    BY <2>1, <2>5, <2>6 DEF Moved, CheckedInv, Checked, Errors
  <2> QED
    BY <2>1, <2>2, <2>7, <2>8, InvKept DEF Moved
<1>3. CASE VerifierDraws
  <2>1. /\ pc = "draw" /\ pc' = "merkle" /\ proof' = proof /\ tampered' = tampered /\ idx' = idx
        /\ witness' = witness /\ evals' = evals /\ rng' = rng /\ tableau' = tableau
        /\ root' = root /\ asked' = asked
        /\ IF tampered \in Responses THEN vidx' \in Positions ELSE vidx' = idx
    BY <1>3 DEF VerifierDraws
  <2>2. pc \in Sent /\ pc' \in Verified
    BY <2>1 DEF Sent, Verified, Drawn
  <2>3. idx \in Positions
    BY <2>2, InvSent
  <2>4. tampered # "length"
    BY <1>1, <2>1 DEF DrawnInv
  <2>5. DrawnInv(pc', tampered', idx', vidx')
    BY <2>1, <2>3, <2>4 DEF DrawnInv
  <2>6. CheckedInv(pc', evals', asked', proof', tampered')
    BY <2>1 DEF CheckedInv, Checked, Errors
  <2> QED
    BY <2>1, <2>2, <2>5, <2>6, InvKept
<1>4. CASE MerkleCheck
  <2>1. Moved(MerkleOk(root, proof, vidx), "merkle", "low_degree", "MerkleCheckFailed")
    BY <1>4, ChecksMove
  <2>2. pc \in Sent /\ pc \in Drawn /\ pc' \in Verified /\ pc' \in Drawn
    BY <2>1 DEF Moved, Sent, Verified, Drawn, Checked, Errors
  <2>3. /\ idx \in Positions /\ root = Roots(tableau) /\ Filled(tableau)
        /\ Received(tampered, proof, tableau, asked, idx)
        /\ (tampered = "nothing" => MerkleOk(root, proof, idx))
    BY <2>2, InvSent
  <2>4. tampered # "length" /\ vidx \in Positions /\ (tampered \notin Responses => vidx = idx)
    BY <1>1, <2>2 DEF DrawnInv
  <2>5. pc' = "low_degree" => tampered # "req"
    <3> SUFFICES ASSUME pc' = "low_degree", tampered = "req" PROVE FALSE
      OBVIOUS
    <3>1. vidx = idx
      BY <2>4 DEF Responses
    <3>2. MerkleOk(root, proof, idx)
      BY <2>1, <3>1 DEF Moved
    <3>3. PICK k \in 0 .. nrow * nreq - 1 : proof.req[k] = (Gathered(tableau, idx)[k] + 1) % q
      BY <2>3 DEF Received
    <3>4. \E c \in 0 .. nreq - 1 : OpenedOf(proof.req, c) # Roots(tableau)[idx[c]]
      BY <2>3, <3>3, GatheredChanged
    <3> QED
      BY <2>3, <3>2, <3>4 DEF MerkleOk
  <2>6. pc' = "MerkleCheckFailed" => tampered # "nothing"
    BY <2>1, <2>3, <2>4 DEF Moved, Responses
  <2>7. DrawnInv(pc', tampered', idx', vidx')
    BY <2>1, <2>4 DEF Moved, DrawnInv
  <2>8. CheckedInv(pc', evals', asked', proof', tampered')
    BY <2>1, <2>5, <2>6 DEF Moved, CheckedInv, Checked, Errors
  <2> QED
    BY <2>1, <2>2, <2>7, <2>8, InvKept DEF Moved
<1>5. CASE LowDegreeCheck
  <2>1. Moved(LdtOk(asked, proof, vidx), "low_degree", "dot", "LowDegreeCheckFailed")
    BY <1>5, ChecksMove
  <2>2. pc \in Sent /\ pc \in Drawn /\ pc' \in Verified /\ pc' \in Drawn /\ pc \in Checked
    BY <2>1 DEF Moved, Sent, Verified, Drawn, Checked, Errors
  <2>3. tampered = "nothing" => LdtOk(asked, proof, idx)
    BY <2>2, InvSent
  <2>4. tampered # "length" /\ vidx \in Positions /\ (tampered \notin Responses => vidx = idx) /\ tampered # "req"
    BY <1>1, <2>2 DEF DrawnInv, CheckedInv
  <2>5. pc' = "LowDegreeCheckFailed" => tampered # "nothing"
    BY <2>1, <2>3, <2>4 DEF Moved, Responses
  <2>6. DrawnInv(pc', tampered', idx', vidx')
    BY <2>1, <2>4 DEF Moved, DrawnInv
  <2>7. CheckedInv(pc', evals', asked', proof', tampered')
    BY <2>1, <2>4, <2>5 DEF Moved, CheckedInv, Checked, Errors
  <2> QED
    BY <2>1, <2>2, <2>6, <2>7, InvKept DEF Moved
<1>6. CASE DotCheck
  <2>1. Moved(DotOk(asked, proof, vidx), "dot", "inner", "DotCheckFailed")
    BY <1>6, ChecksMove
  <2>2. pc \in Sent /\ pc \in Drawn /\ pc' \in Verified /\ pc' \in Drawn /\ pc \in Checked
    BY <2>1 DEF Moved, Sent, Verified, Drawn, Checked, Errors
  <2>3. tampered = "nothing" => DotOk(asked, proof, idx)
    BY <2>2, InvSent
  <2>4. tampered # "length" /\ vidx \in Positions /\ (tampered \notin Responses => vidx = idx) /\ tampered # "req"
    BY <1>1, <2>2 DEF DrawnInv, CheckedInv
  <2>5. pc' = "DotCheckFailed" => tampered # "nothing"
    BY <2>1, <2>3, <2>4 DEF Moved, Responses
  <2>6. DrawnInv(pc', tampered', idx', vidx')
    BY <2>1, <2>4 DEF Moved, DrawnInv
  <2>7. CheckedInv(pc', evals', asked', proof', tampered')
    BY <2>1, <2>4, <2>5 DEF Moved, CheckedInv, Checked, Errors
  <2> QED
    BY <2>1, <2>2, <2>6, <2>7, InvKept DEF Moved
<1>7. CASE InnerProductCheck
  <2>1. Moved(InnerOk(evals, asked, proof), "inner", "quadratic", "LinearInnerProductMismatch")
    BY <1>7, ChecksMove
  <2>2. pc \in Sent /\ pc \in Drawn /\ pc' \in Verified /\ pc' \in Drawn /\ pc \in Checked
    BY <2>1 DEF Moved, Sent, Verified, Drawn, Checked, Errors
  <2>3. tampered # "length" /\ vidx \in Positions /\ (tampered \notin Responses => vidx = idx) /\ tampered # "req"
    BY <1>1, <2>2 DEF DrawnInv, CheckedInv
  <2>4. DrawnInv(pc', tampered', idx', vidx')
    BY <2>1, <2>3 DEF Moved, DrawnInv
  <2>5. CheckedInv(pc', evals', asked', proof', tampered')
    BY <2>1, <2>3 DEF Moved, CheckedInv, Checked, Errors
  <2> QED
    BY <2>1, <2>2, <2>4, <2>5, InvKept DEF Moved
<1>8. CASE QuadraticCheck
  <2>1. Moved(QuadCheckOk(asked, proof, vidx), "quadratic", "accepted", "QuadraticCheckFailed")
    BY <1>8, ChecksMove
  <2>2. pc \in Sent /\ pc \in Drawn /\ pc' \in Verified /\ pc' \in Drawn /\ pc \in Checked
    BY <2>1 DEF Moved, Sent, Verified, Drawn, Checked, Errors
  <2>3. tampered = "nothing" => QuadCheckOk(asked, proof, idx)
    BY <2>2, InvSent
  <2>4. /\ tampered # "length" /\ vidx \in Positions /\ (tampered \notin Responses => vidx = idx)
        /\ tampered # "req" /\ InnerOk(evals, asked, proof)
    BY <1>1, <2>1, <2>2 DEF Moved, DrawnInv, CheckedInv
  <2>5. pc' = "QuadraticCheckFailed" => tampered # "nothing"
    BY <2>1, <2>3, <2>4 DEF Moved, Responses
  <2>6. DrawnInv(pc', tampered', idx', vidx')
    BY <2>1, <2>4 DEF Moved, DrawnInv
  <2>7. CheckedInv(pc', evals', asked', proof', tampered')
    BY <2>1, <2>4, <2>5 DEF Moved, CheckedInv, Checked, Errors
  <2> QED
    BY <2>1, <2>2, <2>6, <2>7, InvKept DEF Moved
<1> QED
  BY <1>2, <1>3, <1>4, <1>5, <1>6, <1>7, <1>8

LEMMA InvNext == LigeroInv /\ [Next]_vars => LigeroInv'
<1> SUFFICES ASSUME LigeroInv, [Next]_vars PROVE LigeroInv'
  OBVIOUS
<1>1. CASE Next
  BY <1>1, InvLayout, InvRespond, InvOpen, InvDeliver, InvVerify DEF Next
<1>2. CASE UNCHANGED vars
  <2>1. /\ pc' = pc /\ vidx' = vidx /\ proof' = proof /\ tampered' = tampered /\ idx' = idx
        /\ witness' = witness /\ evals' = evals /\ rng' = rng /\ tableau' = tableau
        /\ root' = root /\ asked' = asked
    BY <1>2 DEF vars
  <2> QED
    BY <2>1 DEF LigeroInv
<1> QED
  BY <1>1, <1>2

\* The inductive invariant holds in every reachable state, whatever the
\* statement, the geometry, the witness, the coins and the challenges: the
\* tableau holds the rows the prover lays out, the commitment shows its
\* columns, and what the verifier has before it is the proof of prove with at
\* most the one change that was made on the way.
THEOREM LigeroInvariant == Spec => []LigeroInv
<1>1. Init => LigeroInv
  BY InvInit
<1>2. LigeroInv /\ [Next]_vars => LigeroInv'
  BY InvNext
<1> QED
  BY <1>1, <1>2, PTL DEF Spec

LEMMA ResidualsInModel ==
  /\ \A c : LinearResidual(c) = ResidualL(witness, evals, c)
  /\ \A e : QuadraticResidual(e) = ResidualQ(witness, e)
  /\ \A c : alphal(c) = AlphaL(asked, c)
  /\ \A i : uquad(i) = UQuad(asked, i)
<1>1. \A c : LinearResidual(c) = ResidualL(witness, evals, c)
  BY DEF LinearResidual, ResidualL
<1>2. \A e, part : Operand(e, part) = OperandOf(witness, e, part)
  BY DEF Operand, OperandOf
<1>3. \A e : QuadraticResidual(e) = ResidualQ(witness, e)
  BY <1>2 DEF QuadraticResidual, ResidualQ
<1>4. \A c : alphal(c) = AlphaL(asked, c)
  BY DEF alphal, AlphaL
<1>5. \A i : uquad(i) = UQuad(asked, i)
  BY DEF uquad, UQuad
<1> QED
  BY <1>1, <1>3, <1>4, <1>5

LEMMA AcceptedStep == LigeroInv => AcceptedCombination
<1> SUFFICES ASSUME LigeroInv, pc = "accepted", tampered = "nothing"
             PROVE  /\ Sum([c \in 0 .. nl - 1 |-> alphal(c) * LinearResidual(c)]) = 0
                    /\ \A s \in 0 .. w - 1 :
                         Sum([i \in {t \in 0 .. nqtriples - 1 : t * w + s < nq} |->
                                uquad(i) * QuadraticResidual(i * w + s)]) = 0
  BY DEF AcceptedCombination
<1>1. pc \in Sent /\ pc \in {"quadratic", "accepted"}
  BY DEF Sent, Drawn, Checked
<1>2. /\ Inputs(witness, rng) /\ evals \in [0 .. nl - 1 -> F] /\ tableau = Laid(witness, rng)
      /\ Challenges(asked) /\ QuadOk(tableau, asked)
      /\ proof = HonestProof(tableau, asked, Gathered(tableau, idx))
  BY <1>1, InvSent
<1>3. InnerOk(evals, asked, proof)
  BY <1>1 DEF LigeroInv, CheckedInv
<1>4. Sum(LinearSide(witness, evals, asked)) = 0
  BY <1>2, <1>3, HonestInner
<1>5. [c \in 0 .. nl - 1 |-> alphal(c) * LinearResidual(c)] = LinearSide(witness, evals, asked)
  BY ResidualsInModel DEF LinearSide
<1>6. ASSUME NEW s \in 0 .. w - 1
      PROVE  Sum([i \in {t \in 0 .. nqtriples - 1 : t * w + s < nq} |->
                    uquad(i) * QuadraticResidual(i * w + s)]) = 0
  <2>1. PICK x \in Slots : x = r + s /\ x - r = s
    <3>1. r \in Nat /\ w \in Nat
      BY Geometry
    <3>2. r + s \in Slots /\ (r + s) - r = s
      BY <3>1 DEF Slots
    <3> QED
      BY <3>2
  <2>2. QuadRow(tableau, asked)[x] = Sum(QuadraticSide(witness, asked, s))
    BY <1>2, <2>1, QuadraticIdentity
  <2>3. QuadRow(tableau, asked)[x] = 0
    BY <1>2 DEF QuadOk
  <2>4. [i \in {t \in 0 .. nqtriples - 1 : t * w + s < nq} |-> uquad(i) * QuadraticResidual(i * w + s)]
          = QuadraticSide(witness, asked, s)
    BY ResidualsInModel DEF QuadraticSide, InSlot
  <2> QED
    BY <2>2, <2>3, <2>4
<1> QED
  BY <1>4, <1>5, <1>6

\* An accepted proof of prove shows the linear constraints, and slot by slot
\* the quadratic ones, in the random combination that was drawn: for every
\* statement and geometry try_new admits, every prime modulus, every witness,
\* all coins and all challenges.
THEOREM AcceptedMeansCombination == Spec => []AcceptedCombination
<1>1. LigeroInv => AcceptedCombination
  BY AcceptedStep
<1> QED
  BY <1>1, LigeroInvariant, PTL

LEMMA CompleteStep == LigeroInv => Complete
<1> SUFFICES ASSUME LigeroInv, Satisfied
             PROVE  pc # "panicked" /\ (tampered = "nothing" => pc \notin Errors)
  BY DEF Complete
<1>1. /\ \A c \in 0 .. nl - 1 : ResidualL(witness, evals, c) = 0
      /\ \A e \in 0 .. nq - 1 : ResidualQ(witness, e) = 0
  BY ResidualsInModel DEF Satisfied
<1>2. /\ Inputs(witness, rng) /\ evals \in [0 .. nl - 1 -> F]
  BY DEF LigeroInv, InputsInv
<1>3. ASSUME pc = "panicked" PROVE FALSE
  <2>1. /\ LayoutInv(pc, witness, rng, tableau) /\ CommitInv(pc, tableau, root, asked)
        /\ RespondInv(pc, tableau, asked, proof, tampered)
    BY DEF LigeroInv
  <2>2. pc \notin Layouts \cup {"commit", "respond"}
    BY <1>3 DEF Layouts
  <2>3. tableau = Laid(witness, rng) /\ Challenges(asked) /\ ~QuadOk(tableau, asked)
    BY <1>3, <2>1, <2>2 DEF LayoutInv, CommitInv, RespondInv
  <2>4. \A s \in Slots : QuadRow(Laid(witness, rng), asked)[s] = 0
    BY <1>1, <1>2, <2>3, ZeroCombinations
  <2> QED
    BY <2>3, <2>4 DEF QuadOk
<1>4. ASSUME tampered = "nothing", pc \in Errors PROVE FALSE
  <2>1. pc \in Sent
    BY <1>4 DEF Sent, Drawn, Errors
  <2>2. /\ tableau = Laid(witness, rng) /\ Challenges(asked)
        /\ proof = HonestProof(tableau, asked, Gathered(tableau, idx))
    BY <1>4, <2>1, InvSent
  <2>3. ~InnerOk(evals, asked, proof)
    BY <1>4 DEF LigeroInv, CheckedInv
  <2>4. Sum(LinearSide(witness, evals, asked)) = 0
    BY <1>1, <1>2, <2>2, ZeroCombinations
  <2>5. InnerOk(evals, asked, proof)
    BY <1>2, <2>2, <2>4, HonestInner
  <2> QED
    BY <2>3, <2>5
<1> QED
  BY <1>3, <1>4

\* Completeness: for a witness that satisfies the constraints the assertion of
\* prove holds and verify finds no error in the proof as it was sent.
THEOREM ProverComplete == Spec => []Complete
<1>1. LigeroInv => Complete
  BY CompleteStep
<1> QED
  BY <1>1, LigeroInvariant, PTL

-----------------------------------------------------------------------------
(***************************************************************************)
(* A changed proof is refused: what the checks passed so far exclude.      *)
(***************************************************************************)
CaughtInv(p, tam, rt, pr, vix) ==
  /\ p \in Checked => MerkleOk(rt, pr, vix)
  /\ p \in {"dot", "inner", "quadratic", "accepted"} => tam # "y_ldt"
  /\ p \in {"inner", "quadratic", "accepted"} => tam # "y_dot"
  /\ p = "accepted" => tam \notin {"y_quad_0", "y_quad_2"}

\* At the first position the check of a changed response fails.
LEMMA ChangeFails ==
  ASSUME LigeroInv, pc \in Checked, MerkleOk(root, proof, vidx), tampered \in Responses
  PROVE  /\ tampered = "y_ldt" => ~LdtOk(asked, proof, vidx)
         /\ tampered = "y_dot" => ~DotOk(asked, proof, vidx)
         /\ tampered \in {"y_quad_0", "y_quad_2"} => ~QuadCheckOk(asked, proof, vidx)
<1>1. pc \in Sent /\ pc \in Drawn
  BY DEF Sent, Drawn
<1>2. /\ Inputs(witness, rng) /\ tableau = Laid(witness, rng) /\ root = Roots(tableau)
      /\ Challenges(asked) /\ QuadOk(tableau, asked) /\ Received(tampered, proof, tableau, asked, idx)
  BY <1>1, InvSent
<1>3. AgreeingOf(tampered, asked, root, proof) = {}
  BY <1>2, ChangeCaught
<1>4. vidx \in Positions
  BY <1>1 DEF LigeroInv, DrawnInv
<1>5. PICK c : c = vidx[0] /\ c \in 0 .. ext - 1 /\ 0 \in 0 .. nreq - 1
  <2>1. 0 \in 0 .. nreq - 1
    BY Geometry
  <2> QED
    BY <1>4, <2>1 DEF Positions
<1>6. OpenedOf(proof.req, 0) = root[c]
  BY <1>5 DEF MerkleOk
<1>7. ASSUME tampered = "y_ldt", LdtOk(asked, proof, vidx) PROVE FALSE
  <2>1. Interpolate(proof.y_ldt, dblock + c) = LdtOf(asked, root[c])
    BY <1>5, <1>6, <1>7 DEF LdtOk
  <2> QED
    BY <1>3, <1>5, <1>7, <2>1 DEF AgreeingOf
<1>8. ASSUME tampered = "y_dot", DotOk(asked, proof, vidx) PROVE FALSE
  <2>1. Interpolate(proof.y_dot, dblock + c) = DotAt(root[c], CoefAt(asked, dblock + c))
    BY <1>5, <1>6, <1>8 DEF DotOk
  <2> QED
    BY <1>3, <1>5, <1>8, <2>1 DEF AgreeingOf
<1>9. ASSUME tampered \in {"y_quad_0", "y_quad_2"}, QuadCheckOk(asked, proof, vidx) PROVE FALSE
  <2>1. Interpolate(Joined(proof.y_quad_0, proof.y_quad_2), dblock + c) = QuadOf(asked, root[c])
    BY <1>5, <1>6, <1>9 DEF QuadCheckOk
  <2>2. tampered # "y_ldt" /\ tampered # "y_dot"
    BY <1>9
  <2> QED
    BY <1>3, <1>5, <2>1, <2>2 DEF AgreeingOf
<1> QED
  BY <1>7, <1>8, <1>9

LEMMA CaughtNext ==
  ASSUME LigeroInv, CaughtInv(pc, tampered, root, proof, vidx), [Next]_vars
  PROVE  CaughtInv(pc', tampered', root', proof', vidx')
<1>1. CASE pc' \notin Checked
  BY <1>1 DEF CaughtInv, Checked
<1>2. CASE MerkleCheck
  <2>1. Moved(MerkleOk(root, proof, vidx), "merkle", "low_degree", "MerkleCheckFailed")
    BY <1>2, ChecksMove
  <2>2. CASE MerkleOk(root, proof, vidx)
    BY <2>1, <2>2 DEF Moved, CaughtInv, Checked
  <2>3. CASE ~MerkleOk(root, proof, vidx)
    BY <2>1, <2>3 DEF Moved, CaughtInv, Checked
  <2> QED
    BY <2>2, <2>3
<1>3. CASE LowDegreeCheck
  <2>1. Moved(LdtOk(asked, proof, vidx), "low_degree", "dot", "LowDegreeCheckFailed")
    BY <1>3, ChecksMove
  <2>2. pc \in Checked /\ MerkleOk(root, proof, vidx)
    BY <2>1 DEF Moved, CaughtInv, Checked
  <2>3. tampered = "y_ldt" => ~LdtOk(asked, proof, vidx)
    BY <2>2, ChangeFails DEF Responses
  <2> QED
    BY <2>1, <2>2, <2>3 DEF Moved, CaughtInv, Checked
<1>4. CASE DotCheck
  <2>1. Moved(DotOk(asked, proof, vidx), "dot", "inner", "DotCheckFailed")
    BY <1>4, ChecksMove
  <2>2. pc \in Checked /\ MerkleOk(root, proof, vidx) /\ tampered # "y_ldt"
    BY <2>1 DEF Moved, CaughtInv, Checked
  <2>3. tampered = "y_dot" => ~DotOk(asked, proof, vidx)
    BY <2>2, ChangeFails DEF Responses
  <2> QED
    BY <2>1, <2>2, <2>3 DEF Moved, CaughtInv, Checked
<1>5. CASE InnerProductCheck
  <2>1. Moved(InnerOk(evals, asked, proof), "inner", "quadratic", "LinearInnerProductMismatch")
    BY <1>5, ChecksMove
  <2> QED
    BY <2>1 DEF Moved, CaughtInv, Checked
<1>6. CASE QuadraticCheck
  <2>1. Moved(QuadCheckOk(asked, proof, vidx), "quadratic", "accepted", "QuadraticCheckFailed")
    BY <1>6, ChecksMove
  <2>2. pc \in Checked /\ MerkleOk(root, proof, vidx) /\ tampered # "y_ldt" /\ tampered # "y_dot"
    BY <2>1 DEF Moved, CaughtInv, Checked
  <2>3. tampered \in {"y_quad_0", "y_quad_2"} => ~QuadCheckOk(asked, proof, vidx)
    BY <2>2, ChangeFails DEF Responses
  <2> QED
    BY <2>1, <2>2, <2>3 DEF Moved, CaughtInv, Checked
<1>7. CASE UNCHANGED vars
  BY <1>7 DEF vars
<1>8. CASE Validate
  <2>1. Moved(ShapedOf(proof), "validate", "draw", "InvalidProof")
    BY <1>8, ChecksMove
  <2> QED
    BY <1>1, <2>1 DEF Moved, Checked
<1>9. CASE LayoutBlindingRows \/ LayoutWitnessRows \/ LayoutQuadraticRows \/ Commit \/ Ask
  <2>1. pc' \in {"layout_witness", "layout_quadratic", "commit", "respond", "combine"}
    BY <1>9 DEF LayoutBlindingRows, LayoutWitnessRows, LayoutQuadraticRows, Commit, Ask
  <2> QED
    BY <1>1, <2>1 DEF Checked
<1>10. CASE Combine \/ CombinePanics \/ Open \/ Deliver \/ CorruptElement \/ CorruptOpening
            \/ CorruptLength \/ VerifierDraws
  <2>1. pc' \in {"open", "panicked", "sent", "validate", "merkle"}
    BY <1>10 DEF Combine, CombinePanics, Open, Deliver, CorruptElement, CorruptOpening, CorruptLength,
                 VerifierDraws
  <2> QED
    BY <1>1, <2>1 DEF Checked
<1> QED
  BY <1>2, <1>3, <1>4, <1>5, <1>6, <1>7, <1>8, <1>9, <1>10 DEF Next

LEMMA ChangesStep == LigeroInv /\ CaughtInv(pc, tampered, root, proof, vidx) => ChangesCaught
<1> SUFFICES ASSUME LigeroInv, CaughtInv(pc, tampered, root, proof, vidx) PROVE ChangesCaught
  OBVIOUS
<1>1. ASSUME pc = "draw", tampered \in Responses PROVE Agreeing(tampered) = {}
  <2>1. pc \in Sent
    BY <1>1 DEF Sent
  <2>2. /\ Inputs(witness, rng) /\ tableau = Laid(witness, rng) /\ root = Roots(tableau)
        /\ Challenges(asked) /\ QuadOk(tableau, asked) /\ Received(tampered, proof, tableau, asked, idx)
    BY <2>1, InvSent
  <2>3. AgreeingOf(tampered, asked, root, proof) = {}
    BY <1>1, <2>2, ChangeCaught
  <2>4. \A x : [i \in 0 .. nwqrow - 1 |-> CoefficientRows[i][x]] = CoefAt(asked, x)
    BY InModel DEF CoefAt
  <2>5. Agreeing(tampered) = AgreeingOf(tampered, asked, root, proof)
    <3>1. CASE tampered = "y_ldt"
      <4>1. Agreeing(tampered)
              = {c \in 0 .. ext - 1 : Interpolate(proof.y_ldt, dblock + c) = LowDegreeAt(root[c])}
        BY <3>1 DEF Agreeing
      <4>2. AgreeingOf(tampered, asked, root, proof)
              = {c \in 0 .. ext - 1 : Interpolate(proof.y_ldt, dblock + c) = LdtOf(asked, root[c])}
        BY <3>1 DEF AgreeingOf
      <4> QED
        BY <4>1, <4>2, InModel
    <3>2. CASE tampered = "y_dot"
      <4>1. Agreeing(tampered)
              = {c \in 0 .. ext - 1 :
                   Interpolate(proof.y_dot, dblock + c)
                     = DotAt(root[c], [i \in 0 .. nwqrow - 1 |-> CoefficientRows[i][dblock + c]])}
        BY <3>2 DEF Agreeing
      <4>2. AgreeingOf(tampered, asked, root, proof)
              = {c \in 0 .. ext - 1 :
                   Interpolate(proof.y_dot, dblock + c) = DotAt(root[c], CoefAt(asked, dblock + c))}
        BY <3>2 DEF AgreeingOf
      <4> QED
        BY <2>4, <4>1, <4>2
    <3>3. CASE tampered \notin {"y_ldt", "y_dot"}
      <4>1. Agreeing(tampered)
              = {c \in 0 .. ext - 1 : Interpolate(ReceivedYQuad, dblock + c) = QuadraticAt(root[c])}
        BY <3>3 DEF Agreeing
      <4>2. AgreeingOf(tampered, asked, root, proof)
              = {c \in 0 .. ext - 1 :
                   Interpolate(Joined(proof.y_quad_0, proof.y_quad_2), dblock + c) = QuadOf(asked, root[c])}
        BY <3>3 DEF AgreeingOf
      <4> QED
        BY <4>1, <4>2, InModel
    <3> QED
      BY <3>1, <3>2, <3>3
  <2> QED
    BY <2>3, <2>5
<1>2. ASSUME pc = "accepted" PROVE tampered = "nothing"
  <2>1. pc \in Drawn /\ pc \in Checked /\ pc \in Sent
    BY <1>2 DEF Drawn, Checked, Sent
  <2>2. tampered \notin {"req", "length"}
    BY <2>1 DEF LigeroInv, DrawnInv, CheckedInv
  <2>3. tampered \notin Responses
    BY <1>2 DEF CaughtInv, Responses
  <2>4. tampered \in Responses \cup {"nothing", "req", "length"}
    BY <2>1, InvSent DEF Received
  <2> QED
    BY <2>2, <2>3, <2>4
<1> QED
  BY <1>1, <1>2 DEF ChangesCaught

\* A proof with one changed element, or with a part cut short, is never
\* accepted, for every geometry and field, whatever positions are drawn: a
\* changed response disagrees with the commitment at every column.
THEOREM ChangesAreCaught == Spec => []ChangesCaught
<1>1. Init => CaughtInv(pc, tampered, root, proof, vidx)
  BY DEF Init, CaughtInv, Checked
<1>2. LigeroInv /\ CaughtInv(pc, tampered, root, proof, vidx) /\ [Next]_vars
        => CaughtInv(pc', tampered', root', proof', vidx')
  BY CaughtNext
<1>3. LigeroInv /\ CaughtInv(pc, tampered, root, proof, vidx) => ChangesCaught
  BY ChangesStep
<1> DEFINE Caught == CaughtInv(pc, tampered, root, proof, vidx)
<1>4. Init => Caught
  BY <1>1
<1>5. LigeroInv /\ Caught /\ [Next]_vars => Caught'
  BY <1>2
<1>6. LigeroInv /\ Caught => ChangesCaught
  BY <1>3
<1> HIDE DEF Caught
<1> QED
  BY <1>4, <1>5, <1>6, LigeroInvariant, PTL DEF Spec
=============================================================================
