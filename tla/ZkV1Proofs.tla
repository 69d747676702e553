------------------------------ MODULE ZkV1Proofs ------------------------------
(***************************************************************************)
(* Proofs about ZkV1, for every circuit, inputs, pads, prime modulus and   *)
(* challenges.                                                             *)
(*                                                                         *)
(* First that a wrong claim survives a round for at most two challenges:   *)
(* arithmetic modulo q, and a quadratic polynomial with three zeros.  Then *)
(* that both roles state the same constraints: the recursive functions of  *)
(* the verifier's loops unfold, the codec reads what it wrote, and an      *)
(* invariant ties each state of the prover to the state of the verifier's  *)
(* replay after as many rounds and layers.                                 *)
(***************************************************************************)
EXTENDS ZkV1, FiniteSetTheorems, SequenceTheorems, NaturalsInduction, WellFoundedInduction, TLAPS

-----------------------------------------------------------------------------
(***************************************************************************)
(* Numbers.                                                                *)
(***************************************************************************)
\* Induction is over a least counterexample.
LEMMA LeastNat ==
  ASSUME NEW T, T \subseteq Nat, T # {}
  PROVE  \E x \in T : \A y \in T : x <= y
<1>1. IsWellFoundedOn(OpToRel(<, Nat), Nat)
  BY NatLessThanWellFounded
<1>2. PICK x \in T : \A y \in T : ~(<<y, x>> \in OpToRel(<, Nat))
  BY <1>1, WFMin, Zenon
<1>3. \A y \in T : ~(y < x)
  BY <1>2 DEF OpToRel
<1>4. \A y \in T : x <= y
  BY <1>3
<1> QED
  BY <1>4

LEMMA RangeWider == \A x, y \in Nat : \A i \in 1 .. x : i \in 1 .. x + y
  OBVIOUS

\* What holds of 0 and is passed on to the next number holds of all numbers.
LEMMA NatSteps ==
  ASSUME NEW A, 0 \in A, \A d \in Nat : d \in A => d + 1 \in A
  PROVE  \A d \in Nat : d \in A
<1> DEFINE T == {d \in Nat : d \notin A}
<1> SUFFICES ASSUME T # {} PROVE FALSE
  OBVIOUS
<1>1. T \subseteq Nat
  OBVIOUS
<1>2. PICK d \in T : \A e \in T : d <= e
  <2> HIDE DEF T
  <2> QED
    BY <1>1, LeastNat, Zenon
<1>3. d \in Nat /\ d \notin A /\ d # 0
  OBVIOUS
<1>4. d - 1 \in Nat /\ (d - 1) + 1 = d
  BY <1>3
<1>5. d - 1 \notin T
  BY <1>2, <1>4
<1>6. d - 1 \in A
  BY <1>4, <1>5
<1> QED
  BY <1>3, <1>4, <1>6
LEMMA Modulus == q \in Nat /\ q >= 3 /\ q \in Int
  BY SumcheckAssumption

-----------------------------------------------------------------------------
(***************************************************************************)
(* Integers modulo q.                                                      *)
(***************************************************************************)
Eq(x, y) == \E k \in Int : x = y + k * q

LEMMA EqRefl == \A x \in Int : Eq(x, x)
  <1> SUFFICES ASSUME NEW x \in Int PROVE Eq(x, x)
    OBVIOUS
  <1>1. x = x + 0 * q
    BY Modulus
  <1> QED
    BY <1>1 DEF Eq

LEMMA EqSym == \A x, y \in Int : Eq(x, y) => Eq(y, x)
  <1> SUFFICES ASSUME NEW x \in Int, NEW y \in Int, Eq(x, y) PROVE Eq(y, x)
    OBVIOUS
  <1>1. PICK k \in Int : x = y + k * q
    BY DEF Eq
  <1>2. y = x + (-k) * q /\ -k \in Int
    BY <1>1, Modulus
  <1> QED
    BY <1>2 DEF Eq

LEMMA EqTrans == \A x, y, z \in Int : Eq(x, y) /\ Eq(y, z) => Eq(x, z)
  <1> SUFFICES ASSUME NEW x \in Int, NEW y \in Int, NEW z \in Int, Eq(x, y), Eq(y, z)
               PROVE  Eq(x, z)
    OBVIOUS
  <1>1. PICK k \in Int : x = y + k * q
    BY DEF Eq
  <1>2. PICK j \in Int : y = z + j * q
    BY DEF Eq
  <1>3. x = z + (j + k) * q /\ j + k \in Int
    BY <1>1, <1>2, Modulus
  <1> QED
    BY <1>3 DEF Eq

LEMMA EqAdd ==
  \A x, y, z, u \in Int : Eq(x, y) /\ Eq(z, u) => Eq(x + z, y + u) /\ Eq(x - z, y - u)
  <1> SUFFICES ASSUME NEW x \in Int, NEW y \in Int, NEW z \in Int, NEW u \in Int,
                      Eq(x, y), Eq(z, u)
               PROVE  Eq(x + z, y + u) /\ Eq(x - z, y - u)
    OBVIOUS
  <1>1. PICK k \in Int : x = y + k * q
    BY DEF Eq
  <1>2. PICK j \in Int : z = u + j * q
    BY DEF Eq
  <1>3. x + z = (y + u) + (k + j) * q /\ k + j \in Int
    BY <1>1, <1>2, Modulus
  <1>4. x - z = (y - u) + (k - j) * q /\ k - j \in Int
    BY <1>1, <1>2, Modulus
  <1> QED
    BY <1>3, <1>4 DEF Eq

LEMMA EqMul == \A x, y, z, u \in Int : Eq(x, y) /\ Eq(z, u) => Eq(x * z, y * u)
  <1> SUFFICES ASSUME NEW x \in Int, NEW y \in Int, NEW z \in Int, NEW u \in Int,
                      Eq(x, y), Eq(z, u)
               PROVE  Eq(x * z, y * u)
    OBVIOUS
  <1>1. PICK k \in Int : x = y + k * q
    BY DEF Eq
  <1>2. PICK j \in Int : z = u + j * q
    BY DEF Eq
  <1>3. q \in Int
    BY Modulus
  <1>4. x * z = y * u + (k * u + y * j + k * (j * q)) * q
    BY <1>1, <1>2, <1>3
  <1>5. k * u + y * j + k * (j * q) \in Int
    BY <1>3
  <1> QED
    BY <1>4, <1>5 DEF Eq

LEMMA EqMod == \A x \in Int : x % q \in F /\ x % q \in Int /\ Eq(x % q, x) /\ Eq(x, x % q)
  <1> SUFFICES ASSUME NEW x \in Int PROVE x % q \in F /\ Eq(x % q, x)
    BY EqSym, Modulus DEF F
  <1>1. q \in Int /\ q > 0
    BY Modulus
  <1>2. x % q \in 0 .. q - 1 /\ x \div q \in Int /\ x = q * (x \div q) + (x % q)
    BY <1>1
  <1>3. PICK j \in Int : j = x \div q
    BY <1>2
  <1>4. x % q = x + (-j) * q /\ -j \in Int
    BY <1>1, <1>2, <1>3
  <1> QED
    BY <1>2, <1>4 DEF Eq, F

LEMMA EqF == \A x, y \in F : Eq(x, y) => x = y
  <1> SUFFICES ASSUME NEW x \in F, NEW y \in F, Eq(x, y) PROVE x = y
    OBVIOUS
  <1>1. PICK k \in Int : x = y + k * q
    BY DEF Eq
  <1>2. q \in Int /\ q > 0 /\ x \in 0 .. q - 1 /\ y \in 0 .. q - 1
    BY Modulus DEF F
  <1>3. CASE k = 0
    BY <1>1, <1>2, <1>3
  <1>4. CASE k >= 1
    <2>1. k * q >= q
      BY <1>2, <1>4
    <2> QED
      BY <1>1, <1>2, <2>1
  <1>5. CASE k <= -1
    <2>1. k * q <= -q
      BY <1>2, <1>5
    <2> QED
      BY <1>1, <1>2, <2>1
  <1> QED
    BY <1>3, <1>4, <1>5

\* Congruence is equality of the remainders.
LEMMA ModIff == \A x, y \in Int : Eq(x, y) <=> x % q = y % q
  <1> SUFFICES ASSUME NEW x \in Int, NEW y \in Int PROVE Eq(x, y) <=> x % q = y % q
    OBVIOUS
  <1>1. /\ x % q \in F /\ x % q \in Int /\ Eq(x % q, x) /\ Eq(x, x % q)
        /\ y % q \in F /\ y % q \in Int /\ Eq(y % q, y) /\ Eq(y, y % q)
    BY EqMod
  <1>2. ASSUME Eq(x, y) PROVE x % q = y % q
    <2>1. Eq(x % q, y)
      BY <1>1, <1>2, EqTrans
    <2>2. Eq(x % q, y % q)
      BY <1>1, <2>1, EqTrans
    <2> QED
      BY <1>1, <2>2, EqF
  <1>3. ASSUME x % q = y % q PROVE Eq(x, y)
    <2>1. Eq(x, y % q)
      BY <1>1, <1>3
    <2> QED
      BY <1>1, <2>1, EqTrans
  <1> QED
    BY <1>2, <1>3

\* There are no zero divisors.
LEMMA EqZero == \A x, y \in Int : Eq(x * y, 0) => Eq(x, 0) \/ Eq(y, 0)
  <1> SUFFICES ASSUME NEW x \in Int, NEW y \in Int, Eq(x * y, 0), ~Eq(x, 0), ~Eq(y, 0)
               PROVE  FALSE
    OBVIOUS
  <1>1. PICK a : a = x % q
    OBVIOUS
  <1>2. PICK b : b = y % q
    OBVIOUS
  <1>3. /\ a \in F /\ a \in Int /\ Eq(a, x) /\ Eq(x, a)
        /\ b \in F /\ b \in Int /\ Eq(b, y) /\ Eq(y, b)
    BY <1>1, <1>2, EqMod
  <1>4. a # 0 /\ b # 0
    BY <1>3
  <1>5. (a * b) % q # 0
    BY <1>3, <1>4, SumcheckAssumption DEF F
  <1>6. Eq(a * b, x * y)
    BY <1>3, EqMul
  <1>7. a * b \in Int /\ x * y \in Int /\ 0 \in Int
    BY <1>3
  <1>8. Eq(a * b, 0)
    BY <1>6, <1>7, EqTrans
  <1>9. (a * b) % q = 0 % q
    BY <1>7, <1>8, ModIff
  <1>10. 0 % q = 0
    BY Modulus
  <1> QED
    BY <1>5, <1>9, <1>10

\* A nonzero number closer to 0 than q is not a multiple of q.
LEMMA NotZero == \A x \in Int : x # 0 /\ -q < x /\ x < q => ~Eq(x, 0)
  <1> SUFFICES ASSUME NEW x \in Int, x # 0, -q < x, x < q, Eq(x, 0) PROVE FALSE
    OBVIOUS
  <1>1. PICK k \in Int : x = 0 + k * q
    BY DEF Eq
  <1>2. q \in Int /\ q > 0
    BY Modulus
  <1>3. CASE k = 0
    BY <1>1, <1>2, <1>3
  <1>4. CASE k >= 1
    <2>1. k * q >= q
      BY <1>2, <1>4
    <2> QED
      BY <1>1, <1>2, <2>1
  <1>5. CASE k <= -1
    <2>1. k * q <= -q
      BY <1>2, <1>5
    <2> QED
      BY <1>1, <1>2, <2>1
  <1> QED
    BY <1>3, <1>4, <1>5

\* Congruence, in the form in which it is mostly used.
LEMMA EqMul2 ==
  ASSUME NEW x \in Int, NEW y \in Int, NEW z \in Int, Eq(x, y)
  PROVE  Eq(z * x, z * y) /\ Eq(x * z, y * z)
<1>1. Eq(z, z)
  BY EqRefl
<1> QED
  BY <1>1, EqMul

\* Every number that is not a multiple of q has an inverse.
LEMMA InverseExists ==
  ASSUME NEW a \in Int, ~Eq(a, 0)
  PROVE  \E y \in F : (a * y) % q = 1
<1> SUFFICES ASSUME \A y \in F : (a * y) % q # 1 PROVE FALSE
  OBVIOUS
<1>0. q \in Nat /\ q >= 3 /\ \A x \in F : x \in Int /\ x >= 0 /\ x < q
  BY Modulus DEF F
<1>1. \A y \in F : (a * y) % q \in F
  BY <1>0, EqMod
<1> DEFINE m == [y \in F |-> (a * y) % q]
<1>2. m \in [F -> F \ {1}]
  BY <1>1
<1>3. IsFiniteSet(F) /\ Cardinality(F) = q
  BY <1>0, FS_Interval DEF F
<1>4. IsFiniteSet(F \ {1}) /\ Cardinality(F \ {1}) = q - 1
  <2>1. 1 \in F
    BY <1>0 DEF F
  <2> QED
    BY <1>3, <2>1, FS_RemoveElement
<1>5. PICK x \in F, y \in F : x # y /\ m[x] = m[y]
  <2>1. Cardinality(F \ {1}) < Cardinality(F)
    BY <1>0, <1>3, <1>4
  <2> HIDE DEF m
  <2> QED
    BY <1>2, <1>3, <1>4, <2>1, FS_PigeonHole
<1>6. (a * x) % q = (a * y) % q /\ x \in Int /\ y \in Int
  BY <1>0, <1>5
<1>7. Eq(a * x, a * y)
  <2>1. a * x \in Int /\ a * y \in Int
    BY <1>6
  <2> QED
    BY <1>6, <2>1, ModIff
<1>8. Eq(a * y, a * y)
  <2>1. a * y \in Int
    BY <1>6
  <2> QED
    BY <2>1, EqRefl
<1>9. Eq(a * x - a * y, a * y - a * y)
  <2>1. a * x \in Int /\ a * y \in Int
    BY <1>6
  <2> QED
    BY <1>7, <1>8, <2>1, EqAdd
<1>10. a * x - a * y = a * (x - y) /\ a * y - a * y = 0 /\ x - y \in Int
  BY <1>6
<1>11. Eq(a * (x - y), 0)
  BY <1>9, <1>10
<1>12. Eq(x - y, 0)
  BY <1>10, <1>11, EqZero
<1>13. x - y # 0 /\ -q < x - y /\ x - y < q
  BY <1>0, <1>5, <1>6
<1> QED
  BY <1>10, <1>12, <1>13, NotZero

LEMMA InvIs ==
  ASSUME NEW a \in Int, ~Eq(a, 0)
  PROVE  Inv(a) \in F /\ Inv(a) \in Int /\ Eq(a * Inv(a), 1) /\ ~Eq(Inv(a), 0)
<1>1. Inv(a) \in F /\ (a * Inv(a)) % q = 1
  BY InverseExists DEF Inv
<1>2. q \in Nat /\ q >= 3
  BY Modulus
<1>3. PICK b : b = Inv(a)
  OBVIOUS
<1>4. b \in F /\ b \in Int /\ a * b \in Int /\ (a * b) % q = 1
  BY <1>1, <1>2, <1>3 DEF F
<1>5. 1 % q = 1 /\ 0 % q = 0
  BY <1>2
<1>6. Eq(a * b, 1)
  BY <1>4, <1>5, ModIff
<1>7. ~Eq(b, 0)
  <2> SUFFICES ASSUME Eq(b, 0) PROVE FALSE
    OBVIOUS
  <2>1. 0 \in Int /\ a * 0 = 0
    OBVIOUS
  <2>2. Eq(a * b, a * 0)
    BY <1>4, <2>1, EqMul2
  <2>3. (a * b) % q = 0 % q
    BY <1>4, <2>1, <2>2, ModIff
  <2> QED
    BY <1>4, <1>5, <2>3
<1> QED
  BY <1>3, <1>4, <1>6, <1>7

-----------------------------------------------------------------------------
(***************************************************************************)
(* The polynomial of a round.                                              *)
(***************************************************************************)
Half == Inv(2)

LEMMA HalfIs == Half \in Int /\ Eq(2 * Half, 1) /\ Inv(1) = 1
<1>1. ~Eq(2, 0) /\ ~Eq(1, 0)
  BY Modulus, NotZero
<1>2. Half \in Int /\ Eq(2 * Half, 1)
  BY <1>1, InvIs DEF Half
<1>3. PICK b : b = Inv(1)
  OBVIOUS
<1>4. b \in F /\ b \in Int /\ Eq(1 * b, 1)
  BY <1>1, <1>3, InvIs
<1>5. 1 * b = b /\ 1 \in F
  BY <1>4, Modulus DEF F
<1>6. b = 1
  BY <1>4, <1>5, EqF
<1> QED
  BY <1>2, <1>3, <1>6

LEMMA Denominators ==
  /\ newton_denominator(1, 1) = 1 /\ newton_denominator(2, 1) = 1
  /\ newton_denominator(2, 2) = Half
<1>1. (1 - (1 - 1)) % q = 1 /\ (2 - (2 - 1)) % q = 1 /\ (2 - (2 - 2)) % q = 2
  <2>1. 1 - (1 - 1) = 1 /\ 2 - (2 - 1) = 1 /\ 2 - (2 - 2) = 2
    OBVIOUS
  <2>2. 1 % q = 1 /\ 2 % q = 2
    BY Modulus
  <2> QED
    BY <2>1, <2>2
<1> QED
  BY <1>1, HalfIs DEF newton_denominator, Half

\* The sum of congruent parts, each a congruent factor times a number.
LEMMA EqParts ==
  ASSUME NEW a \in Int, NEW b \in Int, NEW c \in Int, NEW d \in Int, NEW x \in Int,
         Eq(a, b), Eq(c, d)
  PROVE  Eq(a * x + c, b * x + d)
<1>1. Eq(a * x, b * x)
  BY EqMul2
<1>2. a * x \in Int /\ b * x \in Int
  OBVIOUS
<1> QED
  BY <1>1, <1>2, EqAdd

\* The polynomial with second difference 2 d, first difference e and value f at 0.
Quadratic(d, e, f, x) == (d * (x - 1) + e) * x + f

\* Values at x of the polynomial through y[0], y[1] and y[2].
LEMMA NewtonIs ==
  ASSUME NEW y \in [0 .. 2 -> Int], NEW x \in Int
  PROVE  LET v == eval_newton(newton_of_lagrange(y), x)
         IN v \in Int /\ Eq(v, Quadratic((y[2] - 2 * y[1] + y[0]) * Half, y[1] - y[0], y[0], x))
<1> DEFINE d == (y[2] - 2 * y[1] + y[0]) * Half
           e == y[1] - y[0]
           n == newton_of_lagrange(y)
<1>1. y[0] \in Int /\ y[1] \in Int /\ y[2] \in Int /\ Half \in Int
  BY HalfIs
<1>2. d \in Int /\ e \in Int /\ e * 1 = e
  BY <1>1
<1>3. PICK t : t = ((y[2] - y[1]) * 1) % q
  OBVIOUS
<1>4. PICK u : u = (e * 1) % q
  OBVIOUS
<1>5. t \in Int /\ u \in Int /\ Eq(t, (y[2] - y[1]) * 1) /\ Eq(u, e)
  BY <1>1, <1>2, <1>3, <1>4, EqMod
<1>6. PICK y1 : y1 = [y EXCEPT ![2] = t, ![1] = u]
  OBVIOUS
<1>7. PICK s : s = ((t - u) * Half) % q
  OBVIOUS
<1>8. n[0] = y[0] /\ n[1] = u /\ n[2] = s
  <2>1. y1 = [y EXCEPT ![2] = ((y[2] - y[1]) * newton_denominator(2, 1)) % q,
                       ![1] = ((y[1] - y[0]) * newton_denominator(1, 1)) % q]
    BY <1>3, <1>4, <1>6, Denominators
  <2>2. n = [y1 EXCEPT ![2] = ((y1[2] - y1[1]) * newton_denominator(2, 2)) % q]
    BY <2>1 DEF newton_of_lagrange
  <2>3. y1[0] = y[0] /\ y1[1] = u /\ y1[2] = t /\ DOMAIN y1 = 0 .. 2
    BY <1>6
  <2> HIDE DEF n
  <2>4. n = [y1 EXCEPT ![2] = s]
    BY <1>7, <2>2, <2>3, Denominators
  <2> QED
    BY <2>3, <2>4
<1>9. s \in Int /\ Eq(s, d)
  <2>1. (t - u) * Half \in Int /\ t - u \in Int
    BY <1>1, <1>5
  <2>2. s \in Int /\ Eq(s, (t - u) * Half)
    BY <1>7, <2>1, EqMod
  <2>3. (y[2] - y[1]) * 1 \in Int /\ (y[2] - y[1]) * 1 - e \in Int
    BY <1>1, <1>2
  <2>4. Eq(t - u, (y[2] - y[1]) * 1 - e)
    BY <1>2, <1>5, <2>3, EqAdd
  <2>5. (y[2] - y[1]) * 1 - e = y[2] - 2 * y[1] + y[0]
    BY <1>1
  <2>6. Eq((t - u) * Half, d)
    BY <1>1, <2>1, <2>3, <2>4, <2>5, EqMul2
  <2> QED
    BY <1>2, <2>1, <2>2, <2>6, EqTrans
<1> HIDE DEF d, e, n
<1>10. Eq(s * (x - 1) + u, d * (x - 1) + e)
  <2>1. x - 1 \in Int
    OBVIOUS
  <2> QED
    BY <1>2, <1>5, <1>9, <2>1, EqParts
<1>11. Eq((s * (x - 1) + u) * x + y[0], (d * (x - 1) + e) * x + y[0])
  <2>1. s * (x - 1) + u \in Int /\ d * (x - 1) + e \in Int
    BY <1>2, <1>5, <1>9
  <2> QED
    BY <1>1, <1>10, <2>1, EqRefl, EqParts
<1>12. PICK z : z = (s * (x - 1) + u) * x + y[0]
  OBVIOUS
<1>13. z \in Int
  BY <1>1, <1>5, <1>9, <1>12
<1>14. z % q \in Int /\ Eq(z % q, z)
  BY <1>13, EqMod
<1>15. eval_newton(n, x) = z % q
  BY <1>8, <1>12 DEF eval_newton
<1>16. Quadratic(d, e, y[0], x) = (d * (x - 1) + e) * x + y[0] /\ Quadratic(d, e, y[0], x) \in Int
  BY <1>1, <1>2 DEF Quadratic
<1>17. Eq(z % q, Quadratic(d, e, y[0], x))
  BY <1>11, <1>12, <1>13, <1>14, <1>16, EqTrans
<1> QED
  BY <1>14, <1>15, <1>17 DEF d, e, n

\* The weights of the three values.
LEMMA CoefIs ==
  ASSUME NEW x \in Int
  PROVE  LET c == Coef(x)
         IN /\ c[0] \in Int /\ Eq(c[0], Quadratic(Half, -1, 1, x))
            /\ c[1] \in Int /\ Eq(c[1], Quadratic(-2 * Half, 1, 0, x))
            /\ c[2] \in Int /\ Eq(c[2], Quadratic(Half, 0, 0, x))
<1> DEFINE unit(k) == [i \in 0 .. 2 |-> IF i = k THEN 1 ELSE 0]
<1>1. \A k \in 0 .. 2 : unit(k) \in [0 .. 2 -> Int] /\ Coef(x)[k] = eval_newton(newton_of_lagrange(unit(k)), x)
  BY DEF Coef
<1>2. /\ unit(0)[0] = 1 /\ unit(0)[1] = 0 /\ unit(0)[2] = 0
      /\ unit(1)[0] = 0 /\ unit(1)[1] = 1 /\ unit(1)[2] = 0
      /\ unit(2)[0] = 0 /\ unit(2)[1] = 0 /\ unit(2)[2] = 1
  OBVIOUS
<1> HIDE DEF unit
<1>3. Half \in Int
  BY HalfIs
<1>4. /\ (0 - 2 * 0 + 1) * Half = Half /\ 0 - 1 = -1
      /\ (0 - 2 * 1 + 0) * Half = -2 * Half /\ 1 - 0 = 1
      /\ (1 - 2 * 0 + 0) * Half = Half /\ 0 - 0 = 0
  BY <1>3
<1>5. Coef(x)[0] \in Int /\ Eq(Coef(x)[0], Quadratic(Half, -1, 1, x))
  <2>1. unit(0) \in [0 .. 2 -> Int] /\ Coef(x)[0] = eval_newton(newton_of_lagrange(unit(0)), x)
    BY <1>1
  <2> QED
    BY <1>2, <1>4, <2>1, NewtonIs
<1>6. Coef(x)[1] \in Int /\ Eq(Coef(x)[1], Quadratic(-2 * Half, 1, 0, x))
  <2>1. unit(1) \in [0 .. 2 -> Int] /\ Coef(x)[1] = eval_newton(newton_of_lagrange(unit(1)), x)
    BY <1>1
  <2> QED
    BY <1>2, <1>4, <2>1, NewtonIs
<1>7. Coef(x)[2] \in Int /\ Eq(Coef(x)[2], Quadratic(Half, 0, 0, x))
  <2>1. unit(2) \in [0 .. 2 -> Int] /\ Coef(x)[2] = eval_newton(newton_of_lagrange(unit(2)), x)
    BY <1>1
  <2> QED
    BY <1>2, <1>4, <2>1, NewtonIs
<1> QED
  BY <1>5, <1>6, <1>7

\* A round evaluates the quadratic polynomial with the two values sent and the
\* value at 1 that the claim leaves.
LEMMA RoundIs ==
  ASSUME NEW claim \in Int, NEW m \in [0 .. 1 -> Int], NEW x \in Int
  PROVE  LET v == EvaluateRound(RoundCoefficients(x), m, claim)
         IN /\ v \in F
            /\ Eq(v, Quadratic((m[1] - 2 * (claim - m[0]) + m[0]) * Half,
                               claim - 2 * m[0], m[0], x))
<1>1. PICK a, b, c : a = Coef(x)[0] /\ b = Coef(x)[1] /\ c = Coef(x)[2]
  OBVIOUS
<1> DEFINE A == Quadratic(Half, -1, 1, x)
           B == Quadratic(-2 * Half, 1, 0, x)
           C == Quadratic(Half, 0, 0, x)
<1>2. /\ a \in Int /\ Eq(a, A) /\ b \in Int /\ Eq(b, B) /\ c \in Int /\ Eq(c, C)
  BY <1>1, CoefIs
<1>3. Half \in Int /\ A \in Int /\ B \in Int /\ C \in Int /\ m[0] \in Int /\ m[1] \in Int
  BY HalfIs DEF Quadratic
<1>4. PICK d : d = (a - b) % q
  OBVIOUS
<1>5. d \in Int /\ Eq(d, A - B)
  <2>1. a - b \in Int /\ A - B \in Int
    BY <1>2, <1>3
  <2>2. d \in Int /\ Eq(d, a - b)
    BY <1>4, <2>1, EqMod
  <2>3. Eq(a - b, A - B)
    BY <1>2, <1>3, EqAdd
  <2> QED
    BY <2>1, <2>2, <2>3, EqTrans
<1> HIDE DEF A, B, C
<1>6. PICK z : z = b * claim + d * m[0] + c * m[1]
  OBVIOUS
<1>7. z \in Int /\ z % q \in F /\ z % q \in Int /\ Eq(z % q, z)
  <2>1. z \in Int
    BY <1>2, <1>3, <1>5, <1>6
  <2> QED
    BY <2>1, EqMod
<1>8. EvaluateRound(RoundCoefficients(x), m, claim) = z % q
  BY <1>1, <1>4, <1>6 DEF EvaluateRound, RoundCoefficients
<1>9. Eq(b * claim + d * m[0], B * claim + (A - B) * m[0])
  <2>1. Eq(d * m[0], (A - B) * m[0]) /\ Eq(b * claim, B * claim)
    <3>1. A - B \in Int
      BY <1>3
    <3> QED
      BY <1>2, <1>3, <1>5, <3>1, EqMul2
  <2>2. d * m[0] \in Int /\ (A - B) * m[0] \in Int /\ b * claim \in Int /\ B * claim \in Int
    BY <1>2, <1>3, <1>5
  <2> QED
    BY <2>1, <2>2, EqAdd
<1>10. Eq(z, B * claim + (A - B) * m[0] + C * m[1])
  <2>1. Eq(c * m[1], C * m[1])
    BY <1>2, <1>3, EqMul2
  <2>2. c * m[1] \in Int /\ C * m[1] \in Int /\ b * claim + d * m[0] \in Int
        /\ B * claim + (A - B) * m[0] \in Int
    BY <1>2, <1>3, <1>5
  <2> QED
    BY <1>6, <1>9, <2>1, <2>2, EqAdd
<1>11. B * claim + (A - B) * m[0] + C * m[1]
         = Quadratic((m[1] - 2 * (claim - m[0]) + m[0]) * Half, claim - 2 * m[0], m[0], x)
  <2>1. PICK m0, m2 \in Int : m0 = m[0] /\ m2 = m[1]
    BY <1>3
  <2>2. PICK h \in Int : h = Half
    BY <1>3
  <2>3. ((-2 * h) * (x - 1) + 1) * x + 0 = -2 * h * (x * x) + 2 * h * x + x
    BY <2>2
  <2>4. (h * (x - 1) + (-1)) * x + 1 = h * (x * x) - h * x - x + 1
    BY <2>2
  <2>5. (h * (x - 1) + 0) * x + 0 = h * (x * x) - h * x
    BY <2>2
  <2>6. PICK u, v \in Int : u = h * (x * x) /\ v = h * x
    BY <2>2
  <2>7. A = u - v - x + 1 /\ B = -2 * u + 2 * v + x /\ C = u - v
    BY <2>2, <2>3, <2>4, <2>5, <2>6 DEF A, B, C, Quadratic
  <2>8. B * claim + (A - B) * m0 + C * m2
          = (u - v) * (m2 - 2 * (claim - m0) + m0) + x * (claim - 2 * m0) + m0
    BY <2>1, <2>6, <2>7
  <2>9. PICK k \in Int : k = m2 - 2 * (claim - m0) + m0
    BY <2>1
  <2>10. (k * h * (x - 1) + (claim - 2 * m0)) * x + m0
           = (h * (x * x) - h * x) * k + x * (claim - 2 * m0) + m0
    BY <2>1, <2>2, <2>9
  <2> QED
    BY <2>1, <2>2, <2>6, <2>8, <2>9, <2>10 DEF Quadratic
<1>12. Quadratic((m[1] - 2 * (claim - m[0]) + m[0]) * Half, claim - 2 * m[0], m[0], x) \in Int
  BY <1>3 DEF Quadratic
<1> QED
  BY <1>7, <1>8, <1>10, <1>11, <1>12, EqTrans

LEMMA EqMulZero ==
  ASSUME NEW x \in Int, NEW z \in Int, Eq(x, 0)
  PROVE  Eq(z * x, 0) /\ Eq(x * z, 0)
<1>1. 0 \in Int /\ z * 0 = 0 /\ 0 * z = 0
  OBVIOUS
<1>2. Eq(z * x, z * 0) /\ Eq(x * z, 0 * z)
  BY <1>1, EqMul2
<1> QED
  BY <1>1, <1>2

\* The polynomial at two different roots: the quotient by x - y vanishes.
LEMMA TwoRoots ==
  ASSUME NEW d \in Int, NEW e \in Int, NEW f \in Int, NEW x \in Int, NEW y \in Int,
         ~Eq(x - y, 0), Eq(Quadratic(d, e, f, x), 0), Eq(Quadratic(d, e, f, y), 0)
  PROVE  Eq(d * (x + y - 1) + e, 0)
<1>1. Quadratic(d, e, f, x) \in Int /\ Quadratic(d, e, f, y) \in Int /\ 0 \in Int
  BY DEF Quadratic
<1>2. Eq(Quadratic(d, e, f, x) - Quadratic(d, e, f, y), 0 - 0)
  BY <1>1, EqAdd
<1>3. Quadratic(d, e, f, x) - Quadratic(d, e, f, y) = (x - y) * (d * (x + y - 1) + e)
  BY DEF Quadratic
<1>4. x - y \in Int /\ d * (x + y - 1) + e \in Int /\ 0 - 0 = 0
  OBVIOUS
<1>5. Eq((x - y) * (d * (x + y - 1) + e), 0)
  BY <1>2, <1>3, <1>4
<1> QED
  BY <1>4, <1>5, EqZero

\* A quadratic polynomial with three roots is zero: so is the claim it came from.
LEMMA ThreeRoots ==
  ASSUME NEW d \in Int, NEW e \in Int, NEW f \in Int,
         NEW x \in F, NEW y \in F, NEW z \in F, x # y, x # z, y # z,
         Eq(Quadratic(d, e, f, x), 0), Eq(Quadratic(d, e, f, y), 0), Eq(Quadratic(d, e, f, z), 0)
  PROVE  Eq(e + 2 * f, 0)
<1>1. x \in Int /\ y \in Int /\ z \in Int /\ ~Eq(x - y, 0) /\ ~Eq(x - z, 0) /\ ~Eq(y - z, 0)
  <2>1. /\ x \in Int /\ y \in Int /\ z \in Int
        /\ x - y # 0 /\ x - z # 0 /\ y - z # 0
        /\ -q < x - y /\ x - y < q /\ -q < x - z /\ x - z < q /\ -q < y - z /\ y - z < q
    BY Modulus DEF F
  <2>2. x - y \in Int /\ x - z \in Int /\ y - z \in Int
    BY <2>1
  <2> QED
    BY <2>1, <2>2, NotZero
<1>2. PICK g : g = d * (x + y - 1) + e
  OBVIOUS
<1>3. PICK k : k = d * (x + z - 1) + e
  OBVIOUS
<1>4. g \in Int /\ k \in Int /\ Eq(g, 0) /\ Eq(k, 0) /\ g - k = d * (y - z) /\ y - z \in Int
  BY <1>1, <1>2, <1>3, TwoRoots
<1>5. Eq(d, 0)
  <2>1. Eq(g - k, 0 - 0) /\ 0 - 0 = 0
    BY <1>4, EqAdd
  <2>2. Eq(d * (y - z), 0)
    BY <1>4, <2>1
  <2> QED
    BY <1>1, <1>4, <2>2, EqZero
<1>6. Eq(e, 0)
  <2>1. PICK s : s = x + y - 1
    OBVIOUS
  <2>2. s \in Int /\ 0 * s = 0 /\ d * s \in Int
    BY <1>1, <2>1
  <2>3. Eq(d * s, 0)
    BY <1>5, <2>2, EqMulZero
  <2>4. Eq(g - d * s, 0 - 0) /\ 0 - 0 = 0
    BY <1>4, <2>2, <2>3, EqAdd
  <2>5. g - d * s = e
    BY <1>2, <2>1, <2>2
  <2> QED
    BY <2>4, <2>5
<1>7. Eq(f, 0)
  <2>1. PICK s : s = d * (x - 1) + e
    OBVIOUS
  <2>2. x - 1 \in Int /\ 0 * (x - 1) + 0 = 0 /\ s \in Int
    BY <1>1, <2>1
  <2>3. Eq(s, 0)
    <3>0. Eq(d * (x - 1), 0)
      BY <1>5, <2>2, EqMulZero
    <3>1. Eq(d * (x - 1), 0) /\ d * (x - 1) \in Int /\ 0 \in Int /\ 0 + 0 = 0
      BY <2>2, <3>0
    <3>2. Eq(d * (x - 1) + e, 0 + 0)
      BY <1>6, <3>1, EqAdd
    <3> QED
      BY <2>1, <3>1, <3>2
  <2>4. Eq(s * x, 0)
    BY <1>1, <2>2, <2>3, EqMulZero
  <2>5. Quadratic(d, e, f, x) = s * x + f /\ s * x \in Int /\ s * x + f \in Int
    BY <1>1, <2>1, <2>2 DEF Quadratic
  <2>6. Eq((s * x + f) - s * x, 0 - 0)
    BY <2>4, <2>5, EqAdd
  <2>7. (s * x + f) - s * x = f /\ 0 - 0 = 0
    BY <2>5
  <2> QED
    BY <2>6, <2>7
<1>8. Eq(2 * f, 0)
  BY <1>7, EqMulZero
<1>9. 2 * f \in Int /\ 0 + 0 = 0
  OBVIOUS
<1>10. Eq(e + 2 * f, 0 + 0)
  BY <1>6, <1>8, <1>9, EqAdd
<1> QED
  BY <1>9, <1>10

\* A set without three different members has at most two.
LEMMA AtMostTwo ==
  ASSUME NEW S, IsFiniteSet(S), \A x, y, z \in S : x = y \/ x = z \/ y = z
  PROVE  Cardinality(S) <= 2
<1>1. CASE \E x, y \in S : x # y
  <2>1. PICK x \in S, y \in S : x # y
    BY <1>1
  <2>2. S = {x, y}
    BY <2>1
  <2>3. {x} \cup {y} = {x, y} /\ y \notin {x}
    BY <2>1
  <2>4. IsFiniteSet({x}) /\ Cardinality({x}) = 1
    BY FS_Singleton
  <2>5. Cardinality({x} \cup {y}) = 1 + 1
    BY <2>3, <2>4, FS_AddElement
  <2> QED
    BY <2>2, <2>3, <2>5
<1>2. CASE \A x, y \in S : x = y
  <2>1. CASE S = {}
    BY <2>1, FS_EmptySet
  <2>2. CASE S # {}
    <3>1. PICK x : S = {x}
      BY <1>2, <2>2
    <3>2. Cardinality(S) = 1
      BY <3>1, FS_Singleton
    <3> QED
      BY <3>2
  <2> QED
    BY <2>1, <2>2
<1> QED
  BY <1>1, <1>2

LEMMA WrongClaim ==
  ASSUME NEW claim \in F, NEW m0 \in F, NEW m2 \in F
  PROVE  LET p == [r \in F |-> EvaluateRound(RoundCoefficients(r), [e \in 0 .. 1 |-> IF e = 0 THEN m0 ELSE m2], claim)]
         IN /\ (p[0] + p[1]) % q = claim
            /\ claim # 0 => Cardinality({r \in F : p[r] = 0}) <= 2
<1> DEFINE m == [e \in 0 .. 1 |-> IF e = 0 THEN m0 ELSE m2]
           p == [r \in F |-> EvaluateRound(RoundCoefficients(r), m, claim)]
           d == (m2 - 2 * (claim - m0) + m0) * Half
           g == claim - 2 * m0
<1>1. \A r \in F : r \in Int
  BY Modulus DEF F
<1>2. m \in [0 .. 1 -> Int] /\ m[0] = m0 /\ m[1] = m2 /\ claim \in Int /\ m0 \in Int /\ m2 \in Int
  BY <1>1
<1>3. Half \in Int /\ d \in Int /\ g \in Int
  BY <1>2, HalfIs
<1>4. \A r \in F : p[r] = EvaluateRound(RoundCoefficients(r), m, claim)
  OBVIOUS
<1> HIDE DEF m, p
<1>5. \A r \in F : p[r] \in F /\ p[r] \in Int /\ Eq(p[r], Quadratic(d, g, m0, r))
  <2> SUFFICES ASSUME NEW r \in F PROVE p[r] \in F /\ Eq(p[r], Quadratic(d, g, m0, r))
    BY <1>1
  <2>1. r \in Int
    BY <1>1
  <2> QED
    BY <1>2, <1>4, <2>1, RoundIs
<1> HIDE DEF d, g
<1>6. 0 \in F /\ 1 \in F
  BY Modulus DEF F
<1>7. (p[0] + p[1]) % q = claim
  <2>1. Quadratic(d, g, m0, 0) = m0 /\ Quadratic(d, g, m0, 1) = g + m0
    BY <1>2, <1>3 DEF Quadratic
  <2>2. p[0] \in Int /\ p[1] \in Int /\ Eq(p[0], m0) /\ Eq(p[1], g + m0) /\ g + m0 \in Int
    BY <1>2, <1>3, <1>5, <1>6, <2>1
  <2>3. Eq(p[0] + p[1], m0 + (g + m0))
    BY <1>2, <2>2, EqAdd
  <2>4. m0 + (g + m0) = claim
    BY <1>2, <1>3 DEF g
  <2>5. p[0] + p[1] \in Int
    BY <2>2
  <2>6. PICK s : s = p[0] + p[1]
    OBVIOUS
  <2>7. s \in Int /\ Eq(s, claim) /\ s % q \in F /\ s % q \in Int /\ Eq(s % q, s)
    BY <2>3, <2>4, <2>5, <2>6, EqMod
  <2>8. Eq(s % q, claim)
    BY <1>2, <2>7, EqTrans
  <2> QED
    BY <2>6, <2>7, <2>8, EqF
<1>8. ASSUME claim # 0 PROVE Cardinality({r \in F : p[r] = 0}) <= 2
  <2> DEFINE S == {r \in F : p[r] = 0}
  <2>1. IsFiniteSet(S)
    <3>1. IsFiniteSet(F)
      BY Modulus, FS_Interval DEF F
    <3> QED
      BY <3>1, FS_Subset
  <2>2. \A x \in S : x \in F /\ Eq(Quadratic(d, g, m0, x), 0)
    <3> SUFFICES ASSUME NEW x \in S PROVE Eq(Quadratic(d, g, m0, x), 0)
      OBVIOUS
    <3>1. p[x] = 0 /\ x \in F /\ x \in Int
      BY <1>1
    <3>2. Eq(0, Quadratic(d, g, m0, x))
      BY <1>5, <3>1
    <3>3. Quadratic(d, g, m0, x) \in Int
      BY <1>2, <1>3, <3>1 DEF Quadratic
    <3> QED
      BY <3>2, <3>3, EqSym
  <2>3. ~Eq(g + 2 * m0, 0)
    <3>1. g + 2 * m0 = claim
      BY <1>2, <1>3 DEF g
    <3>2. -q < claim /\ claim < q
      BY Modulus DEF F
    <3> QED
      BY <1>2, <1>8, <3>1, <3>2, NotZero
  <2>4. \A x, y, z \in S : x = y \/ x = z \/ y = z
    <3> SUFFICES ASSUME NEW x \in S, NEW y \in S, NEW z \in S, x # y, x # z, y # z
                 PROVE  FALSE
      OBVIOUS
    <3>1. /\ x \in F /\ Eq(Quadratic(d, g, m0, x), 0)
          /\ y \in F /\ Eq(Quadratic(d, g, m0, y), 0)
          /\ z \in F /\ Eq(Quadratic(d, g, m0, z), 0)
      BY <2>2
    <3> QED
      BY <1>2, <1>3, <2>3, <3>1, ThreeRoots
  <2> HIDE DEF S
  <2>5. Cardinality(S) <= 2
    BY <2>1, <2>4, AtMostTwo
  <2> QED
    BY <2>5 DEF S
<1> QED
  BY <1>7, <1>8 DEF p, m

(***************************************************************************)
(* A round of RoundCoefficients::evaluate is the quadratic polynomial with *)
(* the two values on the wire and p(0) + p(1) the claim, and a claim that  *)
(* is not the sum survives it for at most two challenges, whatever the     *)
(* prover sends, for every prime modulus.                                  *)
(***************************************************************************)
THEOREM RoundsAreSound == Spec => []WrongClaimSurvives
<1>1. WrongClaimSurvives
  BY WrongClaim DEF WrongClaimSurvives
<1>2. WrongClaimSurvives'
  BY WrongClaim DEF WrongClaimSurvives
<1> QED
  BY <1>1, <1>2, PTL
-----------------------------------------------------------------------------
(***************************************************************************)
(* Sequences of anything.                                                  *)
(***************************************************************************)
IsSeq(s) == \E S : s \in Seq(S)

LEMMA SeqIs ==
  ASSUME NEW s, IsSeq(s)
  PROVE  Len(s) \in Nat /\ DOMAIN s = 1 .. Len(s)
<1>1. PICK S : s \in Seq(S)
  BY DEF IsSeq
<1> QED
  BY <1>1

LEMMA AppendIs ==
  ASSUME NEW s, IsSeq(s), NEW e
  PROVE  /\ IsSeq(Append(s, e)) /\ Len(Append(s, e)) = Len(s) + 1
         /\ Append(s, e)[Len(s) + 1] = e
         /\ \A i \in 1 .. Len(s) : Append(s, e)[i] = s[i]
<1>1. PICK S : s \in Seq(S)
  BY DEF IsSeq
<1>2. s \in Seq(S \cup {e}) /\ e \in S \cup {e}
  BY <1>1
<1>3. Append(s, e) \in Seq(S \cup {e})
  BY <1>2
<1> QED
  BY <1>2, <1>3 DEF IsSeq

LEMMA EmptyIs == IsSeq(<<>>) /\ Len(<<>>) = 0
<1>1. <<>> \in Seq({})
  OBVIOUS
<1> QED
  BY <1>1 DEF IsSeq

\* A function on 1 .. n is a sequence.
LEMMA TableIs ==
  ASSUME NEW n \in Nat, NEW s, s = [i \in 1 .. n |-> s[i]]
  PROVE  IsSeq(s) /\ Len(s) = n
<1> DEFINE S == {s[i] : i \in 1 .. n}
<1>1. s \in [1 .. n -> S]
  OBVIOUS
<1>2. s \in Seq(S)
  BY <1>1
<1>3. Len(s) \in Nat /\ DOMAIN s = 1 .. Len(s) /\ DOMAIN s = 1 .. n
  BY <1>1, <1>2
<1>4. Len(s) = n
  <2>1. CASE Len(s) < n
    BY <1>3, <2>1
  <2>2. CASE n < Len(s)
    BY <1>3, <2>2
  <2> QED
    BY <1>3, <2>1, <2>2
<1> QED
  BY <1>2, <1>4 DEF IsSeq

LEMMA SameSeq ==
  ASSUME NEW s, NEW t, IsSeq(s), IsSeq(t), Len(s) = Len(t),
         \A i \in 1 .. Len(s) : s[i] = t[i]
  PROVE  s = t
<1>1. PICK S : s \in Seq(S)
  BY DEF IsSeq
<1>2. PICK T : t \in Seq(T)
  BY DEF IsSeq
<1>3. s \in Seq(S \cup T) /\ t \in Seq(S \cup T)
  BY <1>1, <1>2
<1> QED
  BY <1>3, SeqEqual

\* P goes on where s ends.
Begins(s, P) ==
  /\ IsSeq(s) /\ IsSeq(P) /\ Len(s) <= Len(P)
  /\ \A i \in 1 .. Len(s) : P[i] = s[i]

LEMMA BeginsAppend ==
  ASSUME NEW s, IsSeq(s), NEW e, NEW P, Begins(Append(s, e), P)
  PROVE  Begins(s, P) /\ Len(s) < Len(P) /\ P[Len(s) + 1] = e
<1>1. /\ IsSeq(P) /\ Len(P) \in Nat /\ Len(s) \in Nat
      /\ Len(Append(s, e)) = Len(s) + 1 /\ Len(s) + 1 <= Len(P)
  BY AppendIs, SeqIs DEF Begins
<1>2. \A i \in 1 .. Len(s) + 1 : P[i] = Append(s, e)[i]
  BY <1>1 DEF Begins
<1>3. \A i \in 1 .. Len(s) : P[i] = s[i]
  BY <1>1, <1>2, AppendIs
<1>4. P[Len(s) + 1] = e
  BY <1>1, <1>2, AppendIs
<1> QED
  BY <1>1, <1>3, <1>4 DEF Begins

LEMMA BeginsItself == ASSUME NEW s, IsSeq(s) PROVE Begins(s, s)
  BY SeqIs DEF Begins

LEMMA BeginsPrefix ==
  ASSUME NEW s, NEW t, NEW P, Begins(s, t), Begins(t, P)
  PROVE  Begins(s, P)
<1>1. Len(s) \in Nat /\ Len(t) \in Nat /\ Len(P) \in Nat
  BY SeqIs DEF Begins
<1> QED
  BY <1>1 DEF Begins

LEMMA BeginsLonger ==
  ASSUME NEW s, NEW t, NEW e, Begins(s, t)
  PROVE  Begins(s, Append(t, e))
<1>1. IsSeq(t) /\ IsSeq(Append(t, e))
  BY AppendIs DEF Begins
<1>2. Begins(Append(t, e), Append(t, e))
  BY <1>1, BeginsItself
<1>3. Begins(t, Append(t, e))
  BY <1>1, <1>2, BeginsAppend
<1> QED
  BY <1>3, BeginsPrefix

-----------------------------------------------------------------------------
(***************************************************************************)
(* The transcript: the verifier draws what the prover drew.                *)
(***************************************************************************)
LEMMA LogAppend ==
  ASSUME NEW s, IsSeq(s), NEW v
  PROVE  IsSeq(Absorbed(s, v)) /\ IsSeq(Drawn(s, v))
  BY AppendIs DEF Absorbed, Drawn

LEMMA BeginsLog ==
  ASSUME NEW s, IsSeq(s), NEW v, NEW P, Begins(Absorbed(s, v), P) \/ Begins(Drawn(s, v), P)
  PROVE  Begins(s, P)
  BY BeginsAppend DEF Absorbed, Drawn

LEMMA ReplayFinds ==
  ASSUME NEW s, IsSeq(s), NEW v, NEW P, Begins(Drawn(s, v), P), NEW f
  PROVE  Replay(P, s, f) = v
<1>1. Begins(s, P) /\ Len(s) < Len(P) /\ P[Len(s) + 1] = [op |-> "draw", v |-> v]
  BY BeginsAppend DEF Drawn
<1>2. IsSeq(P) /\ Len(s) \in Nat /\ Len(P) \in Nat
  BY <1>1, SeqIs DEF Begins
<1>3. SubSeq(P, 1, Len(s)) = s
  <2>1. PICK T : P \in Seq(T)
    BY <1>2 DEF IsSeq
  <2>2. /\ SubSeq(P, 1, Len(s)) \in Seq(T) /\ Len(SubSeq(P, 1, Len(s))) = Len(s)
        /\ \A i \in 1 .. Len(s) : SubSeq(P, 1, Len(s))[i] = P[i]
    BY <1>1, <1>2, <2>1
  <2>3. IsSeq(SubSeq(P, 1, Len(s)))
    BY <2>2 DEF IsSeq
  <2>4. \A i \in 1 .. Len(s) : SubSeq(P, 1, Len(s))[i] = s[i]
    BY <1>1, <2>2 DEF Begins
  <2> QED
    BY <2>2, <2>3, <2>4, SameSeq
<1> QED
  BY <1>1, <1>3 DEF Replay

-----------------------------------------------------------------------------
(***************************************************************************)
(* The recursive functions: what they are at 0, and from k - 1 to k.       *)
(***************************************************************************)
RoundByRound(f, messages, logw, log0, provers, f0) ==
  /\ f[0] = [log |-> log0, points |-> [h \in 0 .. 1 |-> <<>>]]
  /\ \A k \in 1 .. 2 * logw : f[k] = ReplayStep(messages, f[k - 1], k, provers, f0)

LEMMA ReplayRoundsDef ==
  ASSUME NEW messages, NEW logw \in Nat, NEW log0, NEW provers, NEW f0
  PROVE  RoundByRound(ReplayRounds(messages, logw, log0, provers, f0), messages, logw, log0, provers, f0)
<1> DEFINE First == [log |-> log0, points |-> [h \in 0 .. 1 |-> <<>>]]
           Step(x, k) == ReplayStep(messages, x, k, provers, f0)
           N == 2 * logw
<1>0. N \in Nat
  OBVIOUS
<1> DEFINE Good(u) == \E f : f = [k \in 0 .. u |-> IF k = 0 THEN First ELSE Step(f[k - 1], k)]
           A == {u \in Nat : Good(u)}
<1>1. ReplayRounds(messages, logw, log0, provers, f0) = CHOOSE f : f = [k \in 0 .. N |-> IF k = 0 THEN First ELSE Step(f[k - 1], k)]
  BY DEF ReplayRounds
<1> HIDE DEF First, Step, N
<1>2. Good(0)
  <2> DEFINE f == [k \in 0 .. 0 |-> First]
  <2>1. f = [k \in 0 .. 0 |-> IF k = 0 THEN First ELSE Step(f[k - 1], k)]
    OBVIOUS
  <2> QED
    BY <2>1
<1>3. ASSUME NEW u \in Nat, Good(u) PROVE Good(u + 1)
  <2>1. PICK f : f = [k \in 0 .. u |-> IF k = 0 THEN First ELSE Step(f[k - 1], k)]
    BY <1>3
  <2> DEFINE g == [k \in 0 .. u + 1 |-> IF k = u + 1 THEN Step(f[u], u + 1) ELSE f[k]]
  <2>2. \A k \in 0 .. u + 1 : g[k] = IF k = 0 THEN First ELSE Step(g[k - 1], k)
    <3> SUFFICES ASSUME NEW k \in 0 .. u + 1
                 PROVE  g[k] = IF k = 0 THEN First ELSE Step(g[k - 1], k)
      OBVIOUS
    <3>1. CASE k = u + 1
      BY <3>1
    <3>2. CASE k # u + 1
      <4>1. k \in 0 .. u /\ g[k] = f[k]
        BY <3>2
      <4>2. f[k] = IF k = 0 THEN First ELSE Step(f[k - 1], k)
        BY <2>1, <4>1
      <4>3. k # 0 => k - 1 \in 0 .. u + 1 /\ k - 1 # u + 1
        BY <4>1
      <4> QED
        BY <4>1, <4>2, <4>3
    <3> QED
      BY <3>1, <3>2
  <2>3. g = [k \in 0 .. u + 1 |-> IF k = 0 THEN First ELSE Step(g[k - 1], k)]
    BY <2>2
  <2> QED
    BY <2>3
<1>4. Good(N)
  <2> HIDE DEF Good
  <2>1. 0 \in A /\ \A u \in Nat : u \in A => u + 1 \in A
    BY <1>2, <1>3
  <2> HIDE DEF A
  <2>2. \A u \in Nat : u \in A
    BY <2>1, NatSteps, Zenon
  <2> QED
    BY <1>0, <2>2 DEF A
<1>5. PICK f : f = ReplayRounds(messages, logw, log0, provers, f0)
  OBVIOUS
<1>6. f = [k \in 0 .. N |-> IF k = 0 THEN First ELSE Step(f[k - 1], k)]
  BY <1>1, <1>4, <1>5
<1>7. f[0] = First /\ \A k \in 1 .. N : f[k] = Step(f[k - 1], k)
  BY <1>0, <1>6
<1> QED
  BY <1>5, <1>7 DEF First, Step, N, RoundByRound

LEMMA BindHandsDef ==
  ASSUME NEW hq, NEW right, IsSeq(right), NEW left
  PROVE  LET f == BindHands(hq, right, left)
         IN /\ f[0] = hq
            /\ \A k \in 1 .. Len(right) : f[k] = bind_h(bind_h(f[k - 1], right[k], 0), left[k], 1)
<1> DEFINE First == hq
           Step(x, k) == bind_h(bind_h(x, right[k], 0), left[k], 1)
           N == Len(right)
<1>0. N \in Nat
  BY SeqIs
<1> DEFINE Good(u) == \E f : f = [k \in 0 .. u |-> IF k = 0 THEN First ELSE Step(f[k - 1], k)]
           A == {u \in Nat : Good(u)}
<1>1. BindHands(hq, right, left) = CHOOSE f : f = [k \in 0 .. N |-> IF k = 0 THEN First ELSE Step(f[k - 1], k)]
  BY DEF BindHands
<1> HIDE DEF First, Step, N
<1>2. Good(0)
  <2> DEFINE f == [k \in 0 .. 0 |-> First]
  <2>1. f = [k \in 0 .. 0 |-> IF k = 0 THEN First ELSE Step(f[k - 1], k)]
    OBVIOUS
  <2> QED
    BY <2>1
<1>3. ASSUME NEW u \in Nat, Good(u) PROVE Good(u + 1)
  <2>1. PICK f : f = [k \in 0 .. u |-> IF k = 0 THEN First ELSE Step(f[k - 1], k)]
    BY <1>3
  <2> DEFINE g == [k \in 0 .. u + 1 |-> IF k = u + 1 THEN Step(f[u], u + 1) ELSE f[k]]
  <2>2. \A k \in 0 .. u + 1 : g[k] = IF k = 0 THEN First ELSE Step(g[k - 1], k)
    <3> SUFFICES ASSUME NEW k \in 0 .. u + 1
                 PROVE  g[k] = IF k = 0 THEN First ELSE Step(g[k - 1], k)
      OBVIOUS
    <3>1. CASE k = u + 1
      BY <3>1
    <3>2. CASE k # u + 1
      <4>1. k \in 0 .. u /\ g[k] = f[k]
        BY <3>2
      <4>2. f[k] = IF k = 0 THEN First ELSE Step(f[k - 1], k)
        BY <2>1, <4>1
      <4>3. k # 0 => k - 1 \in 0 .. u + 1 /\ k - 1 # u + 1
        BY <4>1
      <4> QED
        BY <4>1, <4>2, <4>3
    <3> QED
      BY <3>1, <3>2
  <2>3. g = [k \in 0 .. u + 1 |-> IF k = 0 THEN First ELSE Step(g[k - 1], k)]
    BY <2>2
  <2> QED
    BY <2>3
<1>4. Good(N)
  <2> HIDE DEF Good
  <2>1. 0 \in A /\ \A u \in Nat : u \in A => u + 1 \in A
    BY <1>2, <1>3
  <2> HIDE DEF A
  <2>2. \A u \in Nat : u \in A
    BY <2>1, NatSteps, Zenon
  <2> QED
    BY <1>0, <2>2 DEF A
<1>5. PICK f : f = BindHands(hq, right, left)
  OBVIOUS
<1>6. f = [k \in 0 .. N |-> IF k = 0 THEN First ELSE Step(f[k - 1], k)]
  BY <1>1, <1>4, <1>5
<1>7. f[0] = First /\ \A k \in 1 .. N : f[k] = Step(f[k - 1], k)
  BY <1>0, <1>6
<1> QED
  BY <1>5, <1>7 DEF First, Step, N

LayerByLayer(f, c, pf, log0, provers, f0) ==
  /\ f[0] = LET start == Replay(provers, CopyDrawn(log0), [k \in 1 .. MAX_LOGW |-> f0])
            IN [log |-> Drawn(CopyDrawn(log0), start), points |-> [h \in 0 .. 1 |-> start],
                logv |-> c.logv, nv |-> c.noutput, ok |-> TRUE, layers |-> <<>>]
  /\ \A k \in 1 .. Len(c.layers) : f[k] = ReplayLayer(c, pf, f[k - 1], k, provers, f0)

LEMMA ReplayLayersDef ==
  ASSUME NEW c, IsSeq(c.layers), NEW pf, NEW log0, NEW provers, NEW f0
  PROVE  LayerByLayer(ReplayLayers(c, pf, log0, provers, f0), c, pf, log0, provers, f0)
<1> DEFINE First == LET start == Replay(provers, CopyDrawn(log0), [k \in 1 .. MAX_LOGW |-> f0])
                    IN [log |-> Drawn(CopyDrawn(log0), start), points |-> [h \in 0 .. 1 |-> start],
                        logv |-> c.logv, nv |-> c.noutput, ok |-> TRUE, layers |-> <<>>]
           Step(x, k) == ReplayLayer(c, pf, x, k, provers, f0)
           N == Len(c.layers)
<1>0. N \in Nat
  BY SeqIs
<1> DEFINE Good(u) == \E f : f = [k \in 0 .. u |-> IF k = 0 THEN First ELSE Step(f[k - 1], k)]
           A == {u \in Nat : Good(u)}
<1>1. ReplayLayers(c, pf, log0, provers, f0) = CHOOSE f : f = [k \in 0 .. N |-> IF k = 0 THEN First ELSE Step(f[k - 1], k)]
  BY DEF ReplayLayers
<1> HIDE DEF First, Step, N
<1>2. Good(0)
  <2> DEFINE f == [k \in 0 .. 0 |-> First]
  <2>1. f = [k \in 0 .. 0 |-> IF k = 0 THEN First ELSE Step(f[k - 1], k)]
    OBVIOUS
  <2> QED
    BY <2>1
<1>3. ASSUME NEW u \in Nat, Good(u) PROVE Good(u + 1)
  <2>1. PICK f : f = [k \in 0 .. u |-> IF k = 0 THEN First ELSE Step(f[k - 1], k)]
    BY <1>3
  <2> DEFINE g == [k \in 0 .. u + 1 |-> IF k = u + 1 THEN Step(f[u], u + 1) ELSE f[k]]
  <2>2. \A k \in 0 .. u + 1 : g[k] = IF k = 0 THEN First ELSE Step(g[k - 1], k)
    <3> SUFFICES ASSUME NEW k \in 0 .. u + 1
                 PROVE  g[k] = IF k = 0 THEN First ELSE Step(g[k - 1], k)
      OBVIOUS
    <3>1. CASE k = u + 1
      BY <3>1
    <3>2. CASE k # u + 1
      <4>1. k \in 0 .. u /\ g[k] = f[k]
        BY <3>2
      <4>2. f[k] = IF k = 0 THEN First ELSE Step(f[k - 1], k)
        BY <2>1, <4>1
      <4>3. k # 0 => k - 1 \in 0 .. u + 1 /\ k - 1 # u + 1
        BY <4>1
      <4> QED
        BY <4>1, <4>2, <4>3
    <3> QED
      BY <3>1, <3>2
  <2>3. g = [k \in 0 .. u + 1 |-> IF k = 0 THEN First ELSE Step(g[k - 1], k)]
    BY <2>2
  <2> QED
    BY <2>3
<1>4. Good(N)
  <2> HIDE DEF Good
  <2>1. 0 \in A /\ \A u \in Nat : u \in A => u + 1 \in A
    BY <1>2, <1>3
  <2> HIDE DEF A
  <2>2. \A u \in Nat : u \in A
    BY <2>1, NatSteps, Zenon
  <2> QED
    BY <1>0, <2>2 DEF A
<1>5. PICK f : f = ReplayLayers(c, pf, log0, provers, f0)
  OBVIOUS
<1>6. f = [k \in 0 .. N |-> IF k = 0 THEN First ELSE Step(f[k - 1], k)]
  BY <1>1, <1>4, <1>5
<1>7. f[0] = First /\ \A k \in 1 .. N : f[k] = Step(f[k - 1], k)
  BY <1>0, <1>6
<1> QED
  BY <1>5, <1>7 DEF First, Step, N, LayerByLayer

Coins(geom) ==
  LET drawn[k \in 0 .. Len(geom)] == IF k = 0 THEN 0 ELSE drawn[k - 1] + 4 * geom[k] + 2
  IN drawn

Written(pf, geom) ==
  LET written[l \in 0 .. Len(geom)] ==
        IF l = 0 THEN <<>> ELSE written[l - 1] \o WriteLayer(pf[l], geom[l])
  IN written

LEMMA CoinsDef ==
  ASSUME NEW geom, IsSeq(geom)
  PROVE  LET f == Coins(geom)
         IN /\ f[0] = 0
            /\ \A k \in 1 .. Len(geom) : f[k] = f[k - 1] + 4 * geom[k] + 2
<1> DEFINE First == 0
           Step(x, k) == x + 4 * geom[k] + 2
           N == Len(geom)
<1>0. N \in Nat
  BY SeqIs
<1> DEFINE Good(u) == \E f : f = [k \in 0 .. u |-> IF k = 0 THEN First ELSE Step(f[k - 1], k)]
           A == {u \in Nat : Good(u)}
<1>1. Coins(geom) = CHOOSE f : f = [k \in 0 .. N |-> IF k = 0 THEN First ELSE Step(f[k - 1], k)]
  BY DEF Coins
<1> HIDE DEF First, Step, N
<1>2. Good(0)
  <2> DEFINE f == [k \in 0 .. 0 |-> First]
  <2>1. f = [k \in 0 .. 0 |-> IF k = 0 THEN First ELSE Step(f[k - 1], k)]
    OBVIOUS
  <2> QED
    BY <2>1
<1>3. ASSUME NEW u \in Nat, Good(u) PROVE Good(u + 1)
  <2>1. PICK f : f = [k \in 0 .. u |-> IF k = 0 THEN First ELSE Step(f[k - 1], k)]
    BY <1>3
  <2> DEFINE g == [k \in 0 .. u + 1 |-> IF k = u + 1 THEN Step(f[u], u + 1) ELSE f[k]]
  <2>2. \A k \in 0 .. u + 1 : g[k] = IF k = 0 THEN First ELSE Step(g[k - 1], k)
    <3> SUFFICES ASSUME NEW k \in 0 .. u + 1
                 PROVE  g[k] = IF k = 0 THEN First ELSE Step(g[k - 1], k)
      OBVIOUS
    <3>1. CASE k = u + 1
      BY <3>1
    <3>2. CASE k # u + 1
      <4>1. k \in 0 .. u /\ g[k] = f[k]
        BY <3>2
      <4>2. f[k] = IF k = 0 THEN First ELSE Step(f[k - 1], k)
        BY <2>1, <4>1
      <4>3. k # 0 => k - 1 \in 0 .. u + 1 /\ k - 1 # u + 1
        BY <4>1
      <4> QED
        BY <4>1, <4>2, <4>3
    <3> QED
      BY <3>1, <3>2
  <2>3. g = [k \in 0 .. u + 1 |-> IF k = 0 THEN First ELSE Step(g[k - 1], k)]
    BY <2>2
  <2> QED
    BY <2>3
<1>4. Good(N)
  <2> HIDE DEF Good
  <2>1. 0 \in A /\ \A u \in Nat : u \in A => u + 1 \in A
    BY <1>2, <1>3
  <2> HIDE DEF A
  <2>2. \A u \in Nat : u \in A
    BY <2>1, NatSteps, Zenon
  <2> QED
    BY <1>0, <2>2 DEF A
<1>5. PICK f : f = Coins(geom)
  OBVIOUS
<1>6. f = [k \in 0 .. N |-> IF k = 0 THEN First ELSE Step(f[k - 1], k)]
  BY <1>1, <1>4, <1>5
<1>7. f[0] = First /\ \A k \in 1 .. N : f[k] = Step(f[k - 1], k)
  BY <1>0, <1>6
<1> QED
  BY <1>5, <1>7 DEF First, Step, N

LEMMA WrittenDef ==
  ASSUME NEW pf, NEW geom, IsSeq(geom)
  PROVE  LET f == Written(pf, geom)
         IN /\ f[0] = <<>>
            /\ \A k \in 1 .. Len(geom) : f[k] = f[k - 1] \o WriteLayer(pf[k], geom[k])
<1> DEFINE First == <<>>
           Step(x, k) == x \o WriteLayer(pf[k], geom[k])
           N == Len(geom)
<1>0. N \in Nat
  BY SeqIs
<1> DEFINE Good(u) == \E f : f = [k \in 0 .. u |-> IF k = 0 THEN First ELSE Step(f[k - 1], k)]
           A == {u \in Nat : Good(u)}
<1>1. Written(pf, geom) = CHOOSE f : f = [k \in 0 .. N |-> IF k = 0 THEN First ELSE Step(f[k - 1], k)]
  BY DEF Written
<1> HIDE DEF First, Step, N
<1>2. Good(0)
  <2> DEFINE f == [k \in 0 .. 0 |-> First]
  <2>1. f = [k \in 0 .. 0 |-> IF k = 0 THEN First ELSE Step(f[k - 1], k)]
    OBVIOUS
  <2> QED
    BY <2>1
<1>3. ASSUME NEW u \in Nat, Good(u) PROVE Good(u + 1)
  <2>1. PICK f : f = [k \in 0 .. u |-> IF k = 0 THEN First ELSE Step(f[k - 1], k)]
    BY <1>3
  <2> DEFINE g == [k \in 0 .. u + 1 |-> IF k = u + 1 THEN Step(f[u], u + 1) ELSE f[k]]
  <2>2. \A k \in 0 .. u + 1 : g[k] = IF k = 0 THEN First ELSE Step(g[k - 1], k)
    <3> SUFFICES ASSUME NEW k \in 0 .. u + 1
                 PROVE  g[k] = IF k = 0 THEN First ELSE Step(g[k - 1], k)
      OBVIOUS
    <3>1. CASE k = u + 1
      BY <3>1
    <3>2. CASE k # u + 1
      <4>1. k \in 0 .. u /\ g[k] = f[k]
        BY <3>2
      <4>2. f[k] = IF k = 0 THEN First ELSE Step(f[k - 1], k)
        BY <2>1, <4>1
      <4>3. k # 0 => k - 1 \in 0 .. u + 1 /\ k - 1 # u + 1
        BY <4>1
      <4> QED
        BY <4>1, <4>2, <4>3
    <3> QED
      BY <3>1, <3>2
  <2>3. g = [k \in 0 .. u + 1 |-> IF k = 0 THEN First ELSE Step(g[k - 1], k)]
    BY <2>2
  <2> QED
    BY <2>3
<1>4. Good(N)
  <2> HIDE DEF Good
  <2>1. 0 \in A /\ \A u \in Nat : u \in A => u + 1 \in A
    BY <1>2, <1>3
  <2> HIDE DEF A
  <2>2. \A u \in Nat : u \in A
    BY <2>1, NatSteps, Zenon
  <2> QED
    BY <1>0, <2>2 DEF A
<1>5. PICK f : f = Written(pf, geom)
  OBVIOUS
<1>6. f = [k \in 0 .. N |-> IF k = 0 THEN First ELSE Step(f[k - 1], k)]
  BY <1>1, <1>4, <1>5
<1>7. f[0] = First /\ \A k \in 1 .. N : f[k] = Step(f[k - 1], k)
  BY <1>0, <1>6
<1> QED
  BY <1>5, <1>7 DEF First, Step, N

-----------------------------------------------------------------------------
(***************************************************************************)
(* The codec of the proof.                                                 *)
(***************************************************************************)
LEMMA CoinsIs ==
  ASSUME NEW geom \in Seq(Nat)
  PROVE  /\ \A l \in 0 .. Len(geom) : Coins(geom)[l] \in Nat
         /\ Coins(geom)[0] = 0
         /\ \A l \in 1 .. Len(geom) :
              /\ CoinsBefore(geom, l) = Coins(geom)[l - 1]
              /\ Coins(geom)[l] = Coins(geom)[l - 1] + 4 * geom[l] + 2
<1>0. IsSeq(geom) /\ Len(geom) \in Nat /\ \A l \in 1 .. Len(geom) : geom[l] \in Nat
  BY DEF IsSeq
<1>1. PICK f : f = Coins(geom)
  OBVIOUS
<1>2. f[0] = 0 /\ \A l \in 1 .. Len(geom) : f[l] = f[l - 1] + 4 * geom[l] + 2
  BY <1>0, <1>1, CoinsDef
<1> DEFINE A == {l \in Nat : l <= Len(geom) => f[l] \in Nat}
<1>3. 0 \in A /\ \A l \in Nat : l \in A => l + 1 \in A
  <2>1. 0 \in A
    BY <1>2
  <2>2. ASSUME NEW l \in Nat, l \in A PROVE l + 1 \in A
    <3>1. CASE l + 1 <= Len(geom)
      <4>1. l + 1 \in 1 .. Len(geom) /\ (l + 1) - 1 = l
        BY <1>0, <3>1
      <4>2. f[l + 1] = f[l] + 4 * geom[l + 1] + 2 /\ f[l] \in Nat /\ geom[l + 1] \in Nat
        BY <1>0, <1>2, <2>2, <4>1
      <4> QED
        BY <4>2
    <3>2. CASE ~(l + 1 <= Len(geom))
      BY <3>2
    <3> QED
      BY <3>1, <3>2
  <2> QED
    BY <2>1, <2>2
<1> HIDE DEF A
<1>4. \A l \in Nat : l \in A
  BY <1>3, NatSteps, Zenon
<1>5. \A l \in 0 .. Len(geom) : f[l] \in Nat
  BY <1>0, <1>4 DEF A
<1>6. \A l : CoinsBefore(geom, l) = Coins(geom)[l - 1]
  BY DEF CoinsBefore, Coins
<1> QED
  BY <1>1, <1>2, <1>5, <1>6

LEMMA ConcatIs ==
  ASSUME NEW s, NEW t, IsSeq(s), IsSeq(t)
  PROVE  /\ IsSeq(s \o t) /\ Len(s \o t) = Len(s) + Len(t)
         /\ \A i \in 1 .. Len(s) : (s \o t)[i] = s[i]
         /\ \A i \in 1 .. Len(t) : (s \o t)[Len(s) + i] = t[i]
<1>1. PICK S : s \in Seq(S)
  BY DEF IsSeq
<1>2. PICK T : t \in Seq(T)
  BY DEF IsSeq
<1>3. s \in Seq(S \cup T) /\ t \in Seq(S \cup T) /\ Len(s) \in Nat /\ Len(t) \in Nat
  BY <1>1, <1>2
<1>4. s \o t \in Seq(S \cup T) /\ Len(s \o t) = Len(s) + Len(t)
  BY <1>3
<1>5. \A i \in 1 .. Len(s) : (s \o t)[i] = s[i]
  BY <1>3
<1>6. \A i \in 1 .. Len(t) : (s \o t)[Len(s) + i] = t[i]
  BY <1>3
<1> QED
  BY <1>4, <1>5, <1>6 DEF IsSeq

\* A layer is written as so many elements, in this order.
LEMMA LayerIs ==
  ASSUME NEW m, NEW n \in Nat
  PROVE  LET e == WriteLayer(m, n)
         IN /\ IsSeq(e) /\ Len(e) = 4 * n + 2
            /\ e[4 * n + 1] = m.claims[0] /\ e[4 * n + 2] = m.claims[1]
            /\ \A j \in 1 .. 4 * n : e[j] = m.hp[(j - 1) % 2][(j - 1) \div 4][((j - 1) % 4) \div 2]
<1> DEFINE a == [k \in 1 .. 4 * n |-> m.hp[(k - 1) % 2][(k - 1) \div 4][((k - 1) % 4) \div 2]]
           b == <<m.claims[0], m.claims[1]>>
<1>1. WriteLayer(m, n) = a \o b
  BY DEF WriteLayer
<1>2. IsSeq(a) /\ Len(a) = 4 * n
  <2>1. a = [i \in 1 .. 4 * n |-> a[i]] /\ 4 * n \in Nat
    OBVIOUS
  <2> HIDE DEF a
  <2> QED
    BY <2>1, TableIs
<1>4. IsSeq(b) /\ Len(b) = 2 /\ b[1] = m.claims[0] /\ b[2] = m.claims[1]
  <2>1. b \in Seq({m.claims[0], m.claims[1]}) /\ Len(b) = 2 /\ b[1] = m.claims[0] /\ b[2] = m.claims[1]
    OBVIOUS
  <2> QED
    BY <2>1 DEF IsSeq
<1>6. \A j \in 1 .. 4 * n : a[j] = m.hp[(j - 1) % 2][(j - 1) \div 4][((j - 1) % 4) \div 2]
  OBVIOUS
<1> HIDE DEF a, b
<1>7. PICK e : e = a \o b
  OBVIOUS
<1>8. /\ IsSeq(e) /\ Len(e) = Len(a) + Len(b)
      /\ \A i \in 1 .. Len(a) : e[i] = a[i]
      /\ \A i \in 1 .. Len(b) : e[Len(a) + i] = b[i]
  <2>1. IsSeq(a \o b)
    BY <1>2, <1>4, ConcatIs
  <2>2. Len(a \o b) = Len(a) + Len(b)
    BY <1>2, <1>4, ConcatIs
  <2>3. \A i \in 1 .. Len(a) : (a \o b)[i] = a[i]
    BY <1>2, <1>4, ConcatIs
  <2>4. \A i \in 1 .. Len(b) : (a \o b)[Len(a) + i] = b[i]
    <3>1. IsSeq(a) /\ IsSeq(b)
      BY <1>2, <1>4
    <3> QED
      BY <3>1, ConcatIs
  <2> QED
    BY <1>7, <2>1, <2>2, <2>3, <2>4
<1>9. /\ Len(e) = 4 * n + 2
      /\ e[4 * n + 1] = b[1] /\ e[4 * n + 2] = b[2]
  BY <1>2, <1>4, <1>8
<1>10. \A i \in 1 .. 4 * n : e[i] = a[i]
  BY <1>2, <1>8
<1>11. \A j \in 1 .. 4 * n : e[j] = m.hp[(j - 1) % 2][(j - 1) \div 4][((j - 1) % 4) \div 2]
  BY <1>6, <1>10, Zenon
<1> QED
  <2>1. WriteLayer(m, n) = e
    BY <1>1, <1>7
  <2>2. e[4 * n + 1] = m.claims[0] /\ e[4 * n + 2] = m.claims[1]
    BY <1>4, <1>9
  <2> QED
    BY <1>8, <1>9, <1>11, <2>1, <2>2, Zenon

LEMMA RangeShift == \A x, y \in Nat : \A j \in 1 .. y : x + j \in 1 .. x + y
  OBVIOUS

\* Where the elements of a layer are in the proof.
LEMMA WrittenIs ==
  ASSUME NEW pf, NEW geom \in Seq(Nat)
  PROVE  /\ IsSeq(WriteProof(pf, geom)) /\ Len(WriteProof(pf, geom)) = Coins(geom)[Len(geom)]
         /\ \A l \in 1 .. Len(geom) : \A j \in 1 .. 4 * geom[l] + 2 :
              WriteProof(pf, geom)[Coins(geom)[l - 1] + j] = WriteLayer(pf[l], geom[l])[j]
<1>0. IsSeq(geom) /\ Len(geom) \in Nat /\ \A l \in 1 .. Len(geom) : geom[l] \in Nat
  BY DEF IsSeq
<1>1. PICK f : f = Coins(geom)
  OBVIOUS
<1>2. /\ f[0] = 0 /\ \A l \in 1 .. Len(geom) : f[l] = f[l - 1] + 4 * geom[l] + 2
      /\ \A l \in 0 .. Len(geom) : f[l] \in Nat
  BY <1>1, CoinsIs
<1>3. PICK g : g = Written(pf, geom)
  OBVIOUS
<1>4. g[0] = <<>> /\ \A l \in 1 .. Len(geom) : g[l] = g[l - 1] \o WriteLayer(pf[l], geom[l])
  BY <1>0, <1>3, WrittenDef
<1> DEFINE Good(n) ==
             /\ IsSeq(g[n]) /\ Len(g[n]) = f[n]
             /\ \A l \in 1 .. n : \A j \in 1 .. 4 * geom[l] + 2 :
                  f[l - 1] + j \in 1 .. f[n] /\ g[n][f[l - 1] + j] = WriteLayer(pf[l], geom[l])[j]
           A == {n \in Nat : n <= Len(geom) => Good(n)}
<1>5. Good(0)
  BY <1>2, <1>4, EmptyIs
<1>6. ASSUME NEW n \in Nat, n + 1 <= Len(geom), Good(n) PROVE Good(n + 1)
  <2>1. n + 1 \in 1 .. Len(geom) /\ (n + 1) - 1 = n /\ n \in 0 .. Len(geom) /\ geom[n + 1] \in Nat
    BY <1>0, <1>6
  <2>2. PICK e : e = WriteLayer(pf[n + 1], geom[n + 1])
    OBVIOUS
  <2>3. IsSeq(e) /\ Len(e) = 4 * geom[n + 1] + 2
    BY <2>1, <2>2, LayerIs
  <2>4. g[n + 1] = g[n] \o e /\ f[n + 1] = f[n] + (4 * geom[n + 1] + 2) /\ f[n] \in Nat
    <3>1. g[n + 1] = g[n] \o e
      BY <1>4, <2>1, <2>2
    <3>2. f[n] \in Nat
      BY <1>2, <2>1
    <3>3. f[n + 1] = f[n] + 4 * geom[n + 1] + 2
      BY <1>2, <2>1
    <3>4. f[n + 1] = f[n] + (4 * geom[n + 1] + 2)
      BY <2>1, <3>2, <3>3
    <3> QED
      BY <3>1, <3>2, <3>4
  <2>5. /\ IsSeq(g[n + 1]) /\ Len(g[n + 1]) = f[n + 1]
        /\ \A i \in 1 .. f[n] : g[n + 1][i] = g[n][i]
        /\ \A i \in 1 .. 4 * geom[n + 1] + 2 : g[n + 1][f[n] + i] = e[i]
    <3>0. PICK d : d = g[n]
      OBVIOUS
    <3>1. IsSeq(d) /\ Len(d) = f[n]
      BY <1>6, <3>0
    <3>2. IsSeq(d \o e)
      BY <2>3, <3>1, ConcatIs
    <3>3. Len(d \o e) = Len(d) + Len(e)
      BY <2>3, <3>1, ConcatIs
    <3>4. \A i \in 1 .. Len(d) : (d \o e)[i] = d[i]
      BY <2>3, <3>1, ConcatIs
    <3>5. \A i \in 1 .. Len(e) : (d \o e)[Len(d) + i] = e[i]
      <4>1. IsSeq(d) /\ IsSeq(e)
        BY <2>3, <3>1
      <4> QED
        BY <4>1, ConcatIs
    <3>6. g[n + 1] = d \o e
      BY <2>4, <3>0
    <3> QED
      BY <2>3, <2>4, <3>0, <3>1, <3>2, <3>3, <3>4, <3>5, <3>6
  <2>6. ASSUME NEW l \in 1 .. n + 1, NEW j \in 1 .. 4 * geom[l] + 2
        PROVE  /\ f[l - 1] + j \in 1 .. f[n + 1]
               /\ g[n + 1][f[l - 1] + j] = WriteLayer(pf[l], geom[l])[j]
    <3>1. CASE l = n + 1
      <4>1. f[l - 1] = f[n] /\ j \in 1 .. 4 * geom[n + 1] + 2 /\ j \in Nat
        BY <2>1, <3>1
      <4>2. f[l - 1] + j \in 1 .. f[n + 1]
        <5>0. 4 * geom[n + 1] + 2 \in Nat
          BY <2>1
        <5>1. PICK x, y \in Nat : x = f[n] /\ y = 4 * geom[n + 1] + 2 /\ f[n + 1] = x + y /\ j \in 1 .. y
          BY <2>4, <4>1, <5>0, Zenon
        <5>2. x + j \in 1 .. x + y
          BY <5>1, RangeShift, Zenon
        <5> QED
          BY <4>1, <5>1, <5>2
      <4> QED
        BY <2>2, <2>5, <3>1, <4>1, <4>2
    <3>2. CASE l \in 1 .. n
      <4>1. f[l - 1] + j \in 1 .. f[n] /\ g[n][f[l - 1] + j] = WriteLayer(pf[l], geom[l])[j]
        BY <1>6, <3>2
      <4>2. f[l - 1] + j \in 1 .. f[n + 1]
        <5>0. 4 * geom[n + 1] + 2 \in Nat
          BY <2>1
        <5>1. PICK x, y \in Nat : x = f[n] /\ y = 4 * geom[n + 1] + 2 /\ f[n + 1] = x + y
          BY <2>4, <5>0, Zenon
        <5>2. PICK i : i = f[l - 1] + j /\ i \in 1 .. x
          BY <4>1, <5>1
        <5>3. i \in 1 .. x + y
          BY <5>1, <5>2, RangeWider, Zenon
        <5> QED
          BY <5>1, <5>2, <5>3
      <4> QED
        BY <2>5, <4>1, <4>2
    <3>3. l = n + 1 \/ l \in 1 .. n
      OBVIOUS
    <3> QED
      BY <3>1, <3>2, <3>3
  <2> QED
    BY <2>5, <2>6
<1> HIDE DEF Good
<1>7. 0 \in A /\ \A n \in Nat : n \in A => n + 1 \in A
  BY <1>0, <1>5, <1>6
<1> HIDE DEF A
<1>8. \A n \in Nat : n \in A
  BY <1>7, NatSteps, Zenon
<1>9. Good(Len(geom))
  BY <1>0, <1>8 DEF A
<1>10. WriteProof(pf, geom) = g[Len(geom)]
  BY <1>3 DEF WriteProof, Written
<1> QED
  BY <1>1, <1>9, <1>10 DEF Good

\* A message of a layer has this shape.
IsMessage(m, n) ==
  m = [hp |-> [h \in 0 .. 1 |-> [r \in 0 .. n - 1 |-> [k \in 0 .. 1 |-> m.hp[h][r][k]]]],
       claims |-> [k \in 0 .. 1 |-> m.claims[k]]]

LEMMA RoundTrip ==
  ASSUME NEW geom \in Seq(Nat), NEW pf, IsSeq(pf), Len(pf) = Len(geom),
         \A l \in 1 .. Len(geom) : IsMessage(pf[l], geom[l])
  PROVE  ReadProof(WriteProof(pf, geom), geom) = pf
<1>1. PICK e : e = WriteProof(pf, geom)
  OBVIOUS
<1>2. PICK f : f = Coins(geom)
  OBVIOUS
<1>3. \A l \in 1 .. Len(geom) : geom[l] \in Nat /\ f[l - 1] \in Nat /\ CoinsBefore(geom, l) = f[l - 1]
  <2>1. \A l \in 1 .. Len(geom) : geom[l] \in Nat /\ l - 1 \in 0 .. Len(geom)
    OBVIOUS
  <2> QED
    BY <1>2, <2>1, CoinsIs
<1>4. ASSUME NEW l \in 1 .. Len(geom) PROVE ReadLayer(e, f[l - 1], geom[l]) = pf[l]
  <2>1. PICK n, at : n = geom[l] /\ at = f[l - 1]
    OBVIOUS
  <2>2. n \in Nat /\ at \in Nat
    BY <1>3, <2>1
  <2>3. \A j \in 1 .. 4 * n + 2 : e[at + j] = WriteLayer(pf[l], n)[j]
    BY <1>1, <1>2, <2>1, WrittenIs
  <2>4. \A h \in 0 .. 1, r \in 0 .. n - 1, k \in 0 .. 1 : e[at + 4 * r + 2 * k + h + 1] = pf[l].hp[h][r][k]
    <3> SUFFICES ASSUME NEW h \in 0 .. 1, NEW r \in 0 .. n - 1, NEW k \in 0 .. 1
                 PROVE  e[at + 4 * r + 2 * k + h + 1] = pf[l].hp[h][r][k]
      OBVIOUS
    <3>1. PICK j : j = 4 * r + 2 * k + h + 1
      OBVIOUS
    <3>2. j \in 1 .. 4 * n + 2 /\ at + 4 * r + 2 * k + h + 1 = at + j
      BY <2>2, <3>1
    <3>3. WriteLayer(pf[l], n)[j] = pf[l].hp[h][r][k]
      <4>1. PICK m : m = pf[l]
        OBVIOUS
      <4>2. n \in Nat
        BY <2>2
      <4>3. WriteLayer(m, n)[j] = m.hp[h][r][k]
        <5>1. /\ j \in Nat /\ (j - 1) % 2 = h /\ (j - 1) \div 4 = r /\ ((j - 1) % 4) \div 2 = k
              /\ j \in 1 .. 4 * n
          BY <3>1, <4>2
        <5>2. WriteLayer(m, n)[j] = m.hp[(j - 1) % 2][(j - 1) \div 4][((j - 1) % 4) \div 2]
          BY <4>2, <5>1, LayerIs, Zenon
        <5> QED
          BY <5>1, <5>2
      <4> QED
        BY <4>1, <4>3
    <3> QED
      BY <2>3, <3>2, <3>3
  <2>5. \A k \in 0 .. 1 : e[at + 4 * n + k + 1] = pf[l].claims[k]
    <3>1. WriteLayer(pf[l], n)[4 * n + 1] = pf[l].claims[0] /\ WriteLayer(pf[l], n)[4 * n + 2] = pf[l].claims[1]
      BY <2>2, LayerIs
    <3>2. /\ 4 * n + 1 \in 1 .. 4 * n + 2 /\ 4 * n + 2 \in 1 .. 4 * n + 2
          /\ at + 4 * n + 0 + 1 = at + (4 * n + 1) /\ at + 4 * n + 1 + 1 = at + (4 * n + 2)
      BY <2>2
    <3>3. e[at + 4 * n + 0 + 1] = pf[l].claims[0] /\ e[at + 4 * n + 1 + 1] = pf[l].claims[1]
      BY <2>3, <3>1, <3>2
    <3>4. \A k \in 0 .. 1 : k = 0 \/ k = 1
      OBVIOUS
    <3> QED
      BY <3>3, <3>4
  <2>6. ReadLayer(e, at, n) = [hp |-> [h \in 0 .. 1 |-> [r \in 0 .. n - 1 |-> [k \in 0 .. 1 |-> pf[l].hp[h][r][k]]]],
                               claims |-> [k \in 0 .. 1 |-> pf[l].claims[k]]]
    <3>1. [h \in 0 .. 1 |-> [r \in 0 .. n - 1 |-> [k \in 0 .. 1 |-> e[at + 4 * r + 2 * k + h + 1]]]]
            = [h \in 0 .. 1 |-> [r \in 0 .. n - 1 |-> [k \in 0 .. 1 |-> pf[l].hp[h][r][k]]]]
      BY <2>4, Zenon
    <3>2. [k \in 0 .. 1 |-> e[at + 4 * n + k + 1]] = [k \in 0 .. 1 |-> pf[l].claims[k]]
      BY <2>5
    <3> QED
      BY <3>1, <3>2 DEF ReadLayer
  <2>7. IsMessage(pf[l], n)
    BY <2>1
  <2> QED
    BY <2>1, <2>6, <2>7 DEF IsMessage
<1>5. ReadProof(e, geom) = [l \in 1 .. Len(geom) |-> pf[l]]
  BY <1>3, <1>4 DEF ReadProof
<1>6. pf = [l \in 1 .. Len(geom) |-> pf[l]]
  <2>1. PICK S : pf \in Seq(S)
    BY DEF IsSeq
  <2> QED
    BY <2>1
<1> QED
  BY <1>1, <1>5, <1>6

-----------------------------------------------------------------------------
(***************************************************************************)
(* The verifier's replay follows the prover: the rounds of a layer.        *)
(***************************************************************************)
\* After n rounds with the messages hp, whatever the other messages are, a
\* verifier that replays a transcript P beginning with lg has lg and pts.
RoundsDone(hp, logw, start, n, lg, pts) ==
  \A P, m, f :
    Begins(lg, P) /\ (\A j \in 0 .. n - 1 : m.hp[j % 2][j \div 2] = hp[j % 2][j \div 2])
    => ReplayRounds(m, logw, start, P, f)[n] = [log |-> lg, points |-> pts]

LEMMA RoundsStart ==
  ASSUME NEW hp, NEW logw \in Nat, NEW start
  PROVE  RoundsDone(hp, logw, start, 0, start, [h \in 0 .. 1 |-> <<>>])
<1>1. \A P, m, f : ReplayRounds(m, logw, start, P, f)[0] = [log |-> start, points |-> [h \in 0 .. 1 |-> <<>>]]
  BY ReplayRoundsDef DEF RoundByRound
<1> QED
  BY <1>1, Zenon DEF RoundsDone

LEMMA RoundsStep ==
  ASSUME NEW hp, NEW hp2, NEW logw \in Nat, NEW start, NEW n \in Nat, n < 2 * logw,
         NEW lg, IsSeq(lg), NEW pts, RoundsDone(hp, logw, start, n, lg, pts),
         \A j \in 0 .. n - 1 : hp2[j % 2][j \div 2] = hp[j % 2][j \div 2],
         NEW r, NEW a, a = hp2[n % 2][n \div 2]
  PROVE  RoundsDone(hp2, logw, start, n + 1, Drawn(Absorbed(Absorbed(lg, a[0]), a[1]), r),
                    [pts EXCEPT ![n % 2] = Append(@, r)])
<1>1. PICK lg2 : lg2 = Drawn(Absorbed(Absorbed(lg, a[0]), a[1]), r)
  OBVIOUS
<1> SUFFICES ASSUME NEW P, NEW m, NEW f, Begins(lg2, P),
                    \A j \in 0 .. (n + 1) - 1 : m.hp[j % 2][j \div 2] = hp2[j % 2][j \div 2]
             PROVE  ReplayRounds(m, logw, start, P, f)[n + 1]
                      = [log |-> lg2, points |-> [pts EXCEPT ![n % 2] = Append(@, r)]]
  BY <1>1 DEF RoundsDone
<1>2. Begins(lg, P)
  <2>1. IsSeq(Absorbed(lg, a[0])) /\ IsSeq(Absorbed(Absorbed(lg, a[0]), a[1]))
    BY LogAppend
  <2>2. Begins(Absorbed(Absorbed(lg, a[0]), a[1]), P)
    BY <1>1, <2>1, BeginsLog
  <2>3. Begins(Absorbed(lg, a[0]), P)
    BY <2>1, <2>2, BeginsLog
  <2> QED
    BY <2>3, BeginsLog
<1>3. \A j \in 0 .. n - 1 : m.hp[j % 2][j \div 2] = hp[j % 2][j \div 2]
  <2>1. \A j \in 0 .. n - 1 : j \in 0 .. (n + 1) - 1
    OBVIOUS
  <2> QED
    BY <2>1, Zenon
<1>4. ReplayRounds(m, logw, start, P, f)[n] = [log |-> lg, points |-> pts]
  BY <1>2, <1>3, Zenon DEF RoundsDone
<1>5. m.hp[n % 2][n \div 2] = a
  <2>1. n \in 0 .. (n + 1) - 1
    OBVIOUS
  <2> QED
    BY <2>1, Zenon
<1>6. n + 1 \in 1 .. 2 * logw /\ (n + 1) - 1 = n
  OBVIOUS
<1>7. PICK k : k = n + 1
  OBVIOUS
<1>8. k \in 1 .. 2 * logw /\ k - 1 = n
  BY <1>6, <1>7
<1>9. ReplayRounds(m, logw, start, P, f)[k] = ReplayStep(m, ReplayRounds(m, logw, start, P, f)[k - 1], k, P, f)
  <2>1. PICK R : R = ReplayRounds(m, logw, start, P, f)
    OBVIOUS
  <2>2. \A i \in 1 .. 2 * logw : R[i] = ReplayStep(m, R[i - 1], i, P, f)
    <3>1. RoundByRound(R, m, logw, start, P, f)
      BY <2>1, ReplayRoundsDef
    <3> QED
      BY <3>1 DEF RoundByRound
  <2>3. R[k] = ReplayStep(m, R[k - 1], k, P, f)
    BY <1>8, <2>2, Zenon
  <2> QED
    BY <2>1, <2>3
<1>10. ReplayRounds(m, logw, start, P, f)[k] = ReplayStep(m, [log |-> lg, points |-> pts], k, P, f)
  BY <1>4, <1>8, <1>9
<1>11. a = m.hp[(k - 1) % 2][(k - 1) \div 2]
  BY <1>5, <1>8
<1>12. PICK h : h = n % 2
  OBVIOUS
<1>13. PICK lg1 : lg1 = Absorbed(Absorbed(lg, a[0]), a[1])
  OBVIOUS
<1>14. Replay(P, lg1, f) = r
  <2>1. IsSeq(lg1)
    BY <1>13, LogAppend
  <2> QED
    BY <1>1, <1>13, <2>1, ReplayFinds
<1>15. PICK s : s = [log |-> lg, points |-> pts]
  OBVIOUS
<1>16. s.log = lg /\ s.points = pts
  BY <1>15
<1>17. ReplayStep(m, s, k, P, f) = [log |-> Drawn(lg1, r), points |-> [pts EXCEPT ![h] = Append(@, r)]]
  <2>1. (k - 1) % 2 = h /\ m.hp[h][(k - 1) \div 2] = a
    BY <1>8, <1>11, <1>12
  <2> QED
    BY <1>13, <1>14, <1>16, <2>1 DEF ReplayStep
<1> QED
  BY <1>1, <1>7, <1>10, <1>12, <1>13, <1>15, <1>17

\* The tensor with n bits of each hand bound depends on the first n points.
LEMMA BindAgree ==
  ASSUME NEW hq, NEW a, NEW b, NEW c, NEW d, IsSeq(a), IsSeq(c), NEW n \in Nat,
         n <= Len(a), n <= Len(c), \A i \in 1 .. n : a[i] = c[i] /\ b[i] = d[i]
  PROVE  BindHands(hq, a, b)[n] = BindHands(hq, c, d)[n]
<1>0. Len(a) \in Nat /\ Len(c) \in Nat
  BY SeqIs
<1>1. PICK f : f = BindHands(hq, a, b)
  OBVIOUS
<1>2. PICK g : g = BindHands(hq, c, d)
  OBVIOUS
<1>3. f[0] = hq /\ \A k \in 1 .. Len(a) : f[k] = bind_h(bind_h(f[k - 1], a[k], 0), b[k], 1)
  BY <1>1, BindHandsDef
<1>4. g[0] = hq /\ \A k \in 1 .. Len(c) : g[k] = bind_h(bind_h(g[k - 1], c[k], 0), d[k], 1)
  BY <1>2, BindHandsDef
<1> DEFINE A == {k \in Nat : k <= n => f[k] = g[k]}
<1>5. 0 \in A
  BY <1>3, <1>4
<1>6. ASSUME NEW k \in Nat, k \in A PROVE k + 1 \in A
  <2>1. CASE k + 1 <= n
    <3>1. k + 1 \in 1 .. Len(a) /\ k + 1 \in 1 .. Len(c) /\ k + 1 \in 1 .. n /\ (k + 1) - 1 = k
      BY <1>0, <2>1
    <3>2. f[k] = g[k]
      BY <1>6, <2>1
    <3>3. f[k + 1] = bind_h(bind_h(f[k], a[k + 1], 0), b[k + 1], 1)
      BY <1>3, <3>1
    <3>4. g[k + 1] = bind_h(bind_h(g[k], c[k + 1], 0), d[k + 1], 1)
      BY <1>4, <3>1
    <3>5. a[k + 1] = c[k + 1] /\ b[k + 1] = d[k + 1]
      BY <3>1
    <3>6. f[k + 1] = g[k + 1]
      BY <3>2, <3>3, <3>4, <3>5
    <3> QED
      BY <3>6
  <2>2. CASE ~(k + 1 <= n)
    BY <2>2
  <2> QED
    BY <2>1, <2>2
<1> HIDE DEF A
<1>7. \A k \in Nat : k \in A
  BY <1>5, <1>6, NatSteps
<1>8. f[n] = g[n]
  BY <1>7 DEF A
<1> QED
  BY <1>1, <1>2, <1>8

-----------------------------------------------------------------------------
(***************************************************************************)
(* The layers.                                                             *)
(***************************************************************************)
\* After n layers with the messages pfs the verifier is in state s.
LayersDone(c, log0, pfs, n, s) ==
  \A P, pf, f :
    Begins(s.log, P) /\ (\A l \in 1 .. n : pf[l] = pfs[l])
    => ReplayLayers(c, pf, log0, P, f)[n] = s

State(lg, pts, lv, v, ls) ==
  [log |-> lg, points |-> pts, logv |-> lv, nv |-> v, ok |-> TRUE, layers |-> ls]

LEMMA LayersStart ==
  ASSUME NEW c, IsSeq(c.layers), NEW log0, IsSeq(log0), NEW pfs, NEW g
  PROVE  LayersDone(c, log0, pfs, 0,
                    State(Drawn(CopyDrawn(log0), g), [h \in 0 .. 1 |-> g], c.logv, c.noutput, <<>>))
<1>1. PICK lg : lg = CopyDrawn(log0)
  OBVIOUS
<1>2. IsSeq(lg)
  BY <1>1, LogAppend DEF CopyDrawn
<1> DEFINE s == State(Drawn(lg, g), [h \in 0 .. 1 |-> g], c.logv, c.noutput, <<>>)
<1>3. s.log = Drawn(lg, g)
  BY DEF State
<1> SUFFICES ASSUME NEW P, NEW pf, NEW f, Begins(Drawn(lg, g), P)
             PROVE  ReplayLayers(c, pf, log0, P, f)[0] = s
  BY <1>1, <1>3 DEF LayersDone
<1>4. Replay(P, lg, [k \in 1 .. MAX_LOGW |-> f]) = g
  BY <1>2, ReplayFinds
<1>5. ReplayLayers(c, pf, log0, P, f)[0]
        = [log |-> Drawn(lg, g), points |-> [h \in 0 .. 1 |-> g],
           logv |-> c.logv, nv |-> c.noutput, ok |-> TRUE, layers |-> <<>>]
  <2>1. PICK R : R = ReplayLayers(c, pf, log0, P, f)
    OBVIOUS
  <2>2. LayerByLayer(R, c, pf, log0, P, f)
    BY <2>1, ReplayLayersDef
  <2> QED
    BY <1>1, <1>4, <2>1, <2>2 DEF LayerByLayer
<1> QED
  BY <1>1, <1>4, <1>5 DEF State

LEMMA LayersStep ==
  ASSUME NEW c, IsSeq(c.layers), NEW l \in 1 .. Len(c.layers), NEW logw \in Nat, logw = c.layers[l].logw,
         NEW log0, NEW pfs, NEW pfs2, \A i \in 1 .. l - 1 : pfs2[i] = pfs[i],
         NEW lg, IsSeq(lg), NEW pts, NEW lv, NEW v, NEW ls,
         LayersDone(c, log0, pfs, l - 1, State(lg, pts, lv, v, ls)),
         NEW a, NEW beta, NEW lg2, IsSeq(lg2), NEW pts2, NEW hq,
         Begins(Drawn(Drawn(lg, a), beta), lg2),
         RoundsDone(pfs2[l].hp, logw, Drawn(Drawn(lg, a), beta), 2 * logw, lg2, pts2),
         hq = BindHands(bind_g(c.layers[l], lv, v, pts[0], pts[1], a, beta), pts2[0], pts2[1])[Len(pts2[0])],
         IsScalar(hq)
  PROVE  LayersDone(c, log0, pfs2, l,
           State(Absorbed(lg2, pfs2[l].claims), pts2, logw, c.layers[l].nw,
                 Append(ls, [rounds |-> Rounds(pts2), alpha |-> a, bound_quad |-> hq[1].v])))
<1> DEFINE s == State(lg, pts, lv, v, ls)
           s2 == State(Absorbed(lg2, pfs2[l].claims), pts2, logw, c.layers[l].nw,
                       Append(ls, [rounds |-> Rounds(pts2), alpha |-> a, bound_quad |-> hq[1].v]))
<1>1. s.log = lg /\ s2.log = Absorbed(lg2, pfs2[l].claims)
  BY DEF State
<1> HIDE DEF s, s2
<1> SUFFICES ASSUME NEW P, NEW pf, NEW f, Begins(Absorbed(lg2, pfs2[l].claims), P),
                    \A i \in 1 .. l : pf[i] = pfs2[i]
             PROVE  ReplayLayers(c, pf, log0, P, f)[l] = s2
  BY <1>1 DEF LayersDone, s2
<1>2. Begins(lg2, P)
  BY BeginsLog
<1>3. Begins(Drawn(Drawn(lg, a), beta), P)
  BY <1>2, BeginsPrefix
<1>4. Begins(lg, P)
  <2>1. IsSeq(Drawn(lg, a))
    BY LogAppend
  <2>2. Begins(Drawn(lg, a), P)
    BY <1>3, <2>1, BeginsLog
  <2> QED
    BY <2>2, BeginsLog
<1>5. pf[l] = pfs2[l] /\ \A i \in 1 .. l - 1 : pf[i] = pfs[i]
  <2>1. Len(c.layers) \in Nat
    BY SeqIs
  <2>2. l \in 1 .. l /\ \A i \in 1 .. l - 1 : i \in 1 .. l
    BY <2>1
  <2> QED
    BY <2>2, Zenon
<1>6. ReplayLayers(c, pf, log0, P, f)[l - 1] = s
  BY <1>1, <1>4, <1>5, Zenon DEF LayersDone, s
<1>7. ReplayLayers(c, pf, log0, P, f)[l] = ReplayLayer(c, pf, s, l, P, f)
  <2>1. ReplayLayers(c, pf, log0, P, f)[l] = ReplayLayer(c, pf, ReplayLayers(c, pf, log0, P, f)[l - 1], l, P, f)
    <3>1. PICK R : R = ReplayLayers(c, pf, log0, P, f)
      OBVIOUS
    <3>2. \A i \in 1 .. Len(c.layers) : R[i] = ReplayLayer(c, pf, R[i - 1], i, P, f)
      <4>1. LayerByLayer(R, c, pf, log0, P, f)
        BY <3>1, ReplayLayersDef
      <4> QED
        BY <4>1 DEF LayerByLayer
    <3>3. R[l] = ReplayLayer(c, pf, R[l - 1], l, P, f)
      BY <3>2, Zenon
    <3> QED
      BY <3>1, <3>3
  <2> QED
    BY <1>6, <2>1
<1>8. ReplayRounds(pf[l], logw, Drawn(Drawn(lg, a), beta), P, f)[2 * logw] = [log |-> lg2, points |-> pts2]
  <2>1. \A j \in 0 .. 2 * logw - 1 : pf[l].hp[j % 2][j \div 2] = pfs2[l].hp[j % 2][j \div 2]
    BY <1>5
  <2>2. PICK m : m = pf[l]
    OBVIOUS
  <2>3. ReplayRounds(m, logw, Drawn(Drawn(lg, a), beta), P, f)[2 * logw] = [log |-> lg2, points |-> pts2]
    <3>1. PICK hp, start, k : hp = pfs2[l].hp /\ start = Drawn(Drawn(lg, a), beta) /\ k = 2 * logw
      OBVIOUS
    <3>2. RoundsDone(hp, logw, start, k, lg2, pts2)
      BY <3>1
    <3>3. \A j \in 0 .. k - 1 : m.hp[j % 2][j \div 2] = hp[j % 2][j \div 2]
      BY <2>1, <2>2, <3>1
    <3>4. ReplayRounds(m, logw, start, P, f)[k] = [log |-> lg2, points |-> pts2]
      BY <1>2, <3>2, <3>3, Zenon DEF RoundsDone
    <3> QED
      BY <3>1, <3>4
  <2> QED
    BY <2>2, <2>3
<1>9. ReplayLayer(c, pf, s, l, P, f)
        = State(Absorbed(lg2, pf[l].claims), pts2, logw, c.layers[l].nw,
                Append(ls, [rounds |-> Rounds(pts2), alpha |-> a, bound_quad |-> hq[1].v]))
  <2>1. s.log = lg /\ s.points = pts /\ s.logv = lv /\ s.nv = v /\ s.ok = TRUE /\ s.layers = ls
    BY DEF s, State
  <2>2. IsSeq(Drawn(lg, a))
    BY LogAppend
  <2>3. Replay(P, Drawn(lg, a), f) = beta
    BY <1>3, <2>2, ReplayFinds
  <2>4. Replay(P, lg, f) = a
    <3>1. Begins(Drawn(lg, a), P)
      BY <1>3, <2>2, BeginsLog
    <3> QED
      BY <3>1, ReplayFinds
  <2>5. PICK rounds : rounds = [log |-> lg2, points |-> pts2]
    OBVIOUS
  <2>6. rounds.log = lg2 /\ rounds.points = pts2
    BY <2>5
  <2>7. /\ Replay(P, s.log, f) = a
        /\ Replay(P, Drawn(s.log, a), f) = beta
        /\ ReplayRounds(pf[l], c.layers[l].logw, Drawn(Drawn(s.log, a), beta), P, f)[2 * c.layers[l].logw] = rounds
    BY <1>8, <2>1, <2>3, <2>4, <2>5
  <2>8. BindHands(bind_g(c.layers[l], s.logv, s.nv, s.points[0], s.points[1], a, beta),
                  rounds.points[0], rounds.points[1])[Len(rounds.points[0])] = hq
    BY <2>1, <2>6
  <2>9. ReplayLayer(c, pf, s, l, P, f)
          = [log |-> Absorbed(rounds.log, pf[l].claims), points |-> rounds.points,
             logv |-> c.layers[l].logw, nv |-> c.layers[l].nw, ok |-> s.ok /\ IsScalar(hq),
             layers |-> Append(s.layers, [rounds |-> Rounds(rounds.points), alpha |-> a, bound_quad |-> hq[1].v])]
    BY <2>7, <2>8, Zenon DEF ReplayLayer
  <2>10. (s.ok /\ IsScalar(hq)) = TRUE
    BY <2>1
  <2> QED
    BY <2>1, <2>6, <2>9, <2>10, Zenon DEF State
<1> QED
  BY <1>5, <1>7, <1>9 DEF s2

-----------------------------------------------------------------------------
(***************************************************************************)
(* The invariant: at every point the prover's state is the verifier's      *)
(* state in any replay of a transcript that goes on from the prover's.     *)
(***************************************************************************)
LEMMA LayersSame ==
  ASSUME NEW c, NEW log0, NEW pfs, NEW pfs2, NEW n, NEW s, LayersDone(c, log0, pfs, n, s),
         \A l \in 1 .. n : pfs2[l] = pfs[l]
  PROVE  LayersDone(c, log0, pfs2, n, s)
<1> SUFFICES ASSUME NEW P, NEW pf, NEW f, Begins(s.log, P), \A l \in 1 .. n : pf[l] = pfs2[l]
             PROVE  ReplayLayers(c, pf, log0, P, f)[n] = s
  BY DEF LayersDone
<1>1. \A l \in 1 .. n : pf[l] = pfs[l]
  OBVIOUS
<1> QED
  BY <1>1 DEF LayersDone

Log0 == Statement(Absorbed(<<>>, Committed(rng, circuit, inputs)), circuit, inputs)

LEMMA Log0Is == IsSeq(Log0)
<1>1. IsSeq(Absorbed(<<>>, Committed(rng, circuit, inputs)))
  BY EmptyIs, LogAppend
<1>2. \A s : IsSeq(s) => IsSeq(Statement(s, circuit, inputs))
  <2> SUFFICES ASSUME NEW s, IsSeq(s) PROVE IsSeq(Statement(s, circuit, inputs))
    OBVIOUS
  <2>1. IsSeq(Absorbed(s, circuit))
    BY LogAppend
  <2>2. IsSeq(Absorbed(Absorbed(s, circuit), [i \in 0 .. circuit.npublic_input - 1 |-> inputs[i]]))
    BY <2>1, LogAppend
  <2> QED
    BY <2>2, LogAppend DEF Statement
<1> QED
  BY <1>1, <1>2 DEF Log0

LEMMA CircuitIs ==
  ASSUME NEW c \in Circuits
  PROVE  /\ IsSeq(c.layers) /\ Len(c.layers) \in Nat
         /\ \A l \in 1 .. Len(c.layers) : c.layers[l].logw \in Nat
         /\ logw_layers(c) \in Seq(Nat) /\ Len(logw_layers(c)) = Len(c.layers)
         /\ \A l \in 1 .. Len(c.layers) : logw_layers(c)[l] = c.layers[l].logw
<1> DEFINE L == [nw : Nat, logw : Nat, terms : Seq([g : Nat, h0 : Nat, h1 : Nat, k : F])]
<1>1. c.layers \in Seq(L)
  BY SumcheckAssumption
<1>2. \A x \in L : x.logw \in Nat
  OBVIOUS
<1> HIDE DEF L
<1>3. IsSeq(c.layers) /\ Len(c.layers) \in Nat /\ \A l \in 1 .. Len(c.layers) : c.layers[l] \in L
  BY <1>1 DEF IsSeq
<1>4. \A l \in 1 .. Len(c.layers) : c.layers[l].logw \in Nat
  BY <1>2, <1>3
<1>5. PICK g : g = logw_layers(c)
  OBVIOUS
<1>6. g = [l \in 1 .. Len(c.layers) |-> c.layers[l].logw]
  BY <1>5 DEF logw_layers
<1>7. g = [l \in 1 .. Len(c.layers) |-> g[l]] /\ g \in [1 .. Len(c.layers) -> Nat]
  BY <1>4, <1>6
<1>8. IsSeq(g) /\ Len(g) = Len(c.layers)
  BY <1>3, <1>7, TableIs
<1>9. g \in Seq(Nat)
  BY <1>3, <1>7
<1> QED
  BY <1>3, <1>4, <1>5, <1>6, <1>8, <1>9

\* The messages of the first n layers are complete.
Sent(n) == IsSeq(proof) /\ \A l \in 1 .. n : IsMessage(proof[l], circuit.layers[l].logw)

NoInputYet == data = [layers |-> data.layers, input_alpha |-> 0, input_weights |-> <<>>]

AtLayer ==
  /\ layer \in 1 .. Len(circuit.layers) + 1 /\ IsSeq(log)
  /\ Len(proof) = layer - 1 /\ Sent(layer - 1) /\ NoInputYet
  /\ LayersDone(circuit, Log0, proof, layer - 1, State(log, points, logv, nv, data.layers))

\* The message of a layer with n[h] rounds of hand h.
PartMessage(m, n) ==
  m = [hp |-> [h \in 0 .. 1 |-> [r \in 0 .. n[h] - 1 |-> [k \in 0 .. 1 |-> m.hp[h][r][k]]]],
       claims |-> <<>>]

LayerLogw == circuit.layers[layer].logw

Counts == [h \in 0 .. 1 |-> IF h = 0 THEN round + hand ELSE round]

Position ==
  /\ layer \in 1 .. Len(circuit.layers) /\ IsSeq(log)
  /\ hand \in 0 .. 1 /\ round \in Nat /\ round <= LayerLogw /\ (hand = 1 => round < LayerLogw)

Messages ==
  Len(proof) = layer /\ Sent(layer - 1) /\ NoInputYet /\ PartMessage(proof[layer], Counts)

PointsSoFar ==
  /\ points = [h \in 0 .. 1 |-> points[h]]
  /\ \A h \in 0 .. 1 : IsSeq(points[h]) /\ Len(points[h]) = Counts[h]

\* What the layer started from: lg and pts, and the second challenge.
StartedFrom(lg, pts, beta) ==
  LET start == Drawn(Drawn(lg, alpha), beta)
      first == bind_g(circuit.layers[layer], logv, nv, pts[0], pts[1], alpha, beta)
      bound == BindHands(first, points[0], points[1])[round]
  IN /\ IsSeq(lg)
     /\ LayersDone(circuit, Log0, proof, layer - 1, State(lg, pts, logv, nv, data.layers))
     /\ Begins(start, log)
     /\ RoundsDone(proof[layer].hp, LayerLogw, start, 2 * round + hand, log, points)
     /\ hquad = IF hand = 0 THEN bound ELSE bind_h(bound, points[0][round + 1], 0)

InRound == Position /\ Messages /\ PointsSoFar /\ \E lg, pts, beta : StartedFrom(lg, pts, beta)

\* All is sent: the verifier derives the prover's data.
Agreed ==
  /\ Len(proof) = Len(circuit.layers) /\ Sent(Len(circuit.layers))
  /\ \A f : /\ derive_verifier_data(circuit, proof, Log0, log, f).data = data
            /\ derive_verifier_data(circuit, proof, Log0, log, f).ok

RolesInv ==
  /\ circuit \in Circuits
  /\ pc \in {"commit", "begin", "eval_circuit failed", "layer", "round", "sent", "received"}
  /\ pc = "commit" => log = <<>>
  /\ pc = "begin" => log = Log0
  /\ pc \in {"commit", "begin"} => proof = <<>> /\ data = NoData
  /\ pc = "layer" => AtLayer
  /\ pc = "round" => InRound
  /\ pc = "sent" => Agreed
  /\ pc = "received" /\ ~tampered => received.ok /\ received.proof = proof /\ received.data = data

LEMMA RolesInit == Init => RolesInv
  BY DEF Init, RolesInv

LEMMA RolesCommit == RolesInv /\ Commit => RolesInv'
<1> SUFFICES ASSUME RolesInv, Commit PROVE RolesInv'
  OBVIOUS
<1>1. /\ pc = "commit" /\ log = <<>> /\ proof = <<>> /\ data = NoData /\ circuit \in Circuits
      /\ circuit' = circuit /\ inputs' = inputs /\ rng' = rng /\ proof' = proof /\ data' = data
      /\ pc' \in {"begin", "eval_circuit failed"}
      /\ log' = Statement(Absorbed(<<>>, Committed(rng, circuit, inputs)), circuit, inputs)
  BY DEF RolesInv, Commit
<1>2. log' = Log0'
  BY <1>1 DEF Log0
<1> QED
  BY <1>1, <1>2 DEF RolesInv

LEMMA RolesBeginCircuit == RolesInv /\ BeginCircuit => RolesInv'
<1> SUFFICES ASSUME RolesInv, BeginCircuit PROVE RolesInv'
  OBVIOUS
<1>1. /\ pc = "begin" /\ log = Log0 /\ proof = <<>> /\ data = NoData /\ circuit \in Circuits
      /\ circuit' = circuit /\ inputs' = inputs /\ rng' = rng /\ proof' = proof /\ data' = data
      /\ logv' = circuit.logv /\ nv' = circuit.noutput /\ layer' = 1 /\ pc' = "layer"
  BY DEF RolesInv, BeginCircuit
<1>2. PICK g \in Points : points' = [h \in 0 .. 1 |-> g] /\ log' = Drawn(CopyDrawn(log), g)
  BY DEF BeginCircuit
<1>3. Log0' = Log0 /\ IsSeq(Log0)
  BY <1>1, Log0Is DEF Log0
<1>4. IsSeq(circuit.layers) /\ Len(circuit.layers) \in Nat
  BY <1>1, CircuitIs
<1>5. LayersDone(circuit, Log0, proof', 0,
                 State(Drawn(CopyDrawn(Log0), g), [h \in 0 .. 1 |-> g], circuit.logv, circuit.noutput, <<>>))
  BY <1>3, <1>4, LayersStart
<1>6. data'.layers = <<>> /\ NoInputYet'
  BY <1>1 DEF NoData, NoInputYet
<1>7. IsSeq(log') /\ IsSeq(proof') /\ Len(proof') = 0
  <2>1. IsSeq(CopyDrawn(Log0))
    BY <1>3, LogAppend DEF CopyDrawn
  <2> QED
    BY <1>1, <1>2, <2>1, LogAppend, EmptyIs
<1>8. layer' - 1 = 0 /\ layer' \in 1 .. Len(circuit'.layers) + 1
  BY <1>1, <1>4
<1>9. LayersDone(circuit', Log0', proof', layer' - 1, State(log', points', logv', nv', data'.layers))
  BY <1>1, <1>2, <1>3, <1>5, <1>6, <1>8
<1>10. Sent(layer - 1)'
  BY <1>7, <1>8 DEF Sent
<1>11. AtLayer'
  BY <1>6, <1>7, <1>8, <1>9, <1>10 DEF AtLayer
<1> QED
  BY <1>1, <1>11 DEF RolesInv

LEMMA RolesBeginLayer == RolesInv /\ BeginLayer => RolesInv'
<1> SUFFICES ASSUME RolesInv, BeginLayer PROVE RolesInv'
  OBVIOUS
<1>1. /\ pc = "layer" /\ AtLayer /\ circuit \in Circuits /\ layer <= Len(circuit.layers)
      /\ circuit' = circuit /\ inputs' = inputs /\ rng' = rng /\ data' = data
      /\ logv' = logv /\ nv' = nv /\ layer' = layer /\ pc' = "round"
      /\ points' = [h \in 0 .. 1 |-> <<>>] /\ round' = 0 /\ hand' = 0
      /\ proof' = Append(proof, [hp |-> [h \in 0 .. 1 |-> <<>>], claims |-> <<>>])
  BY DEF RolesInv, BeginLayer
<1>2. PICK a \in Challenges, beta \in Challenges :
        /\ log' = Drawn(Drawn(log, a), beta) /\ alpha' = a
        /\ hquad' = bind_g(circuit.layers[layer], logv, nv, points[0], points[1], a, beta)
  BY DEF BeginLayer
<1>3. Log0' = Log0
  BY <1>1 DEF Log0
<1>4. IsSeq(circuit.layers) /\ Len(circuit.layers) \in Nat /\ layer \in 1 .. Len(circuit.layers)
  BY <1>1, CircuitIs DEF AtLayer
<1>5. LayerLogw \in Nat /\ LayerLogw' = LayerLogw
  BY <1>1, <1>4, CircuitIs DEF LayerLogw
<1>6. /\ IsSeq(log) /\ Len(proof) = layer - 1 /\ Sent(layer - 1) /\ NoInputYet
      /\ LayersDone(circuit, Log0, proof, layer - 1, State(log, points, logv, nv, data.layers))
  BY <1>1 DEF AtLayer
<1>7. IsSeq(log') /\ IsSeq(Drawn(log, a))
  BY <1>2, <1>6, LogAppend
<1>8. Position'
  BY <1>1, <1>4, <1>5, <1>7 DEF Position
<1>9. /\ IsSeq(proof) /\ IsSeq(proof') /\ Len(proof') = layer
      /\ \A l \in 1 .. layer - 1 : proof'[l] = proof[l]
      /\ proof'[layer] = [hp |-> [h \in 0 .. 1 |-> <<>>], claims |-> <<>>]
  <2>1. IsSeq(proof) /\ layer \in Nat
    BY <1>4, <1>6 DEF Sent
  <2> QED
    BY <1>1, <1>6, <2>1, AppendIs
<1>10. \A h \in 0 .. 1 : Counts'[h] = 0
  BY <1>1 DEF Counts
<1>11. PartMessage(proof'[layer], Counts')
  <2>1. PICK m : m = proof'[layer]
    OBVIOUS
  <2>2. m.hp = [h \in 0 .. 1 |-> <<>>] /\ m = [hp |-> m.hp, claims |-> <<>>]
    BY <1>9, <2>1
  <2>3. \A h \in 0 .. 1 : m.hp[h] = [r \in 0 .. Counts'[h] - 1 |-> [k \in 0 .. 1 |-> m.hp[h][r][k]]]
    <3> SUFFICES ASSUME NEW h \in 0 .. 1
                 PROVE  m.hp[h] = [r \in 0 .. Counts'[h] - 1 |-> [k \in 0 .. 1 |-> m.hp[h][r][k]]]
      OBVIOUS
    <3>1. m.hp[h] = <<>> /\ Counts'[h] - 1 = -1
      BY <1>10, <2>2
    <3>2. 0 .. Counts'[h] - 1 = {}
      BY <3>1
    <3>3. [r \in 0 .. Counts'[h] - 1 |-> [k \in 0 .. 1 |-> m.hp[h][r][k]]] = <<>>
      BY <3>2
    <3> QED
      BY <3>1, <3>3
  <2>4. m.hp = [h \in 0 .. 1 |-> m.hp[h]]
    BY <2>2
  <2>5. m.hp = [h \in 0 .. 1 |-> [r \in 0 .. Counts'[h] - 1 |-> [k \in 0 .. 1 |-> m.hp[h][r][k]]]]
    BY <2>3, <2>4
  <2> QED
    BY <2>1, <2>2, <2>5 DEF PartMessage
<1>12. Messages'
  <2>1. \A l \in 1 .. layer - 1 : IsMessage(proof'[l], circuit'.layers[l].logw)
    BY <1>1, <1>6, <1>9 DEF Sent
  <2>2. Sent(layer - 1)'
    BY <1>1, <1>9, <2>1 DEF Sent
  <2>3. NoInputYet'
    BY <1>1, <1>6 DEF NoInputYet
  <2> QED
    BY <1>1, <1>9, <1>11, <2>2, <2>3 DEF Messages
<1>13. PointsSoFar'
  <2>1. \A h \in 0 .. 1 : points'[h] = <<>>
    BY <1>1
  <2>2. points' = [h \in 0 .. 1 |-> points'[h]]
    BY <1>1
  <2> QED
    BY <1>10, <2>1, <2>2, EmptyIs DEF PointsSoFar
<1>14. (\E lg, pts, b : StartedFrom(lg, pts, b))'
  <2> DEFINE start == Drawn(Drawn(log, a), beta)
             first == bind_g(circuit.layers[layer], logv, nv, points[0], points[1], a, beta)
  <2>1. LayersDone(circuit', Log0', proof', layer' - 1, State(log, points, logv', nv', data'.layers))
    BY <1>1, <1>3, <1>6, <1>9, LayersSame
  <2>2. Begins(start, log')
    BY <1>2, <1>7, BeginsItself
  <2>3. RoundsDone(proof'[layer'].hp, LayerLogw', start, 2 * round' + hand', log', points')
    <3>1. RoundsDone(proof'[layer'].hp, LayerLogw', log', 0, log', [h \in 0 .. 1 |-> <<>>])
      BY <1>5, RoundsStart
    <3>2. 2 * round' + hand' = 0
      BY <1>1
    <3> QED
      BY <1>1, <1>2, <3>1, <3>2
  <2>4. hquad' = BindHands(first, points'[0], points'[1])[round']
    <3>1. IsSeq(points'[0])
      BY <1>1, EmptyIs
    <3>2. BindHands(first, points'[0], points'[1])[0] = first
      BY <3>1, BindHandsDef
    <3> QED
      BY <1>1, <1>2, <3>2
  <2> HIDE DEF start, first
  <2>5. PICK lg, pts, lv, v : lg = log /\ pts = points /\ lv = logv /\ v = nv
    OBVIOUS
  <2>6. /\ IsSeq(lg)
        /\ LayersDone(circuit', Log0', proof', layer' - 1, State(lg, pts, logv', nv', data'.layers))
        /\ start = Drawn(Drawn(lg, alpha'), beta)
        /\ first = bind_g(circuit'.layers[layer'], logv', nv', pts[0], pts[1], alpha', beta)
        /\ hand' = 0
    BY <1>1, <1>2, <1>6, <2>1, <2>5 DEF start, first
  <2>7. StartedFrom(lg, pts, beta)'
    BY <2>2, <2>3, <2>4, <2>6 DEF StartedFrom
  <2> QED
    BY <2>7
<1> QED
  BY <1>1, <1>8, <1>12, <1>13, <1>14 DEF RolesInv, InRound

LEMMA RolesRound == RolesInv /\ Round => RolesInv'
<1> SUFFICES ASSUME RolesInv, Round PROVE RolesInv'
  OBVIOUS
<1>1. /\ pc = "round" /\ InRound /\ circuit \in Circuits /\ round < LayerLogw
      /\ circuit' = circuit /\ inputs' = inputs /\ rng' = rng /\ data' = data /\ alpha' = alpha
      /\ logv' = logv /\ nv' = nv /\ layer' = layer /\ pc' = pc
      /\ hand' = 1 - hand /\ round' = round + hand
  BY DEF RolesInv, Round, LayerLogw
<1>2. PICK m, r :
        /\ m = [k \in 0 .. 1 |-> m[k]]
        /\ proof' = [proof EXCEPT ![layer].hp[hand] = [k \in 0 .. round |-> IF k < round THEN @[k] ELSE m]]
        /\ log' = Drawn(Absorbed(Absorbed(log, m[0]), m[1]), r)
        /\ points' = [points EXCEPT ![hand] = Append(@, r)]
        /\ hquad' = bind_h(hquad, r, hand)
  <2>1. PICK m : /\ m = [e \in 0 .. 1 |-> (RoundValues[e] - SamplePad(rng, logw_layers(circuit), layer).hp[hand][round][e]) % q]
                 /\ proof' = [proof EXCEPT ![layer].hp[hand] = [k \in 0 .. round |-> IF k < round THEN @[k] ELSE m]]
                 /\ \E r \in Challenges :
                      /\ log' = Drawn(Absorbed(Absorbed(log, m[0]), m[1]), r)
                      /\ points' = [points EXCEPT ![hand] = Append(@, r)]
                      /\ hquad' = bind_h(hquad, r, hand)
    BY DEF Round
  <2>2. m = [k \in 0 .. 1 |-> m[k]]
    BY <2>1
  <2> QED
    BY <2>1, <2>2
<1>3. Log0' = Log0
  BY <1>1 DEF Log0
<1>4. /\ IsSeq(circuit.layers) /\ Len(circuit.layers) \in Nat /\ layer \in 1 .. Len(circuit.layers)
      /\ layer \in Nat /\ layer >= 1 /\ LayerLogw \in Nat /\ LayerLogw' = LayerLogw
  BY <1>1, CircuitIs DEF InRound, Position, LayerLogw
<1>5. /\ IsSeq(log) /\ hand \in 0 .. 1 /\ round \in Nat
      /\ Len(proof) = layer /\ IsSeq(proof) /\ Sent(layer - 1) /\ NoInputYet /\ PartMessage(proof[layer], Counts)
      /\ PointsSoFar
  BY <1>1 DEF InRound, Position, Messages, Sent
<1>6. IsSeq(log')
  BY <1>2, <1>5, LogAppend
<1>7. Position'
  BY <1>1, <1>4, <1>5, <1>6 DEF Position
<1>8. PICK p : p = proof[layer]
  OBVIOUS
<1>9. PICK p2 : p2 = proof'[layer]
  OBVIOUS
<1>10. Counts[0] = round + hand /\ Counts[1] = round /\ Counts'[0] = round + 1 /\ Counts'[1] = round + hand
  BY <1>1, <1>5 DEF Counts
<1>11. /\ p.hp = [h \in 0 .. 1 |-> [k \in 0 .. Counts[h] - 1 |-> [e \in 0 .. 1 |-> p.hp[h][k][e]]]]
       /\ p = [hp |-> p.hp, claims |-> <<>>]
  <2>1. PICK hp : hp = [h \in 0 .. 1 |-> [k \in 0 .. Counts[h] - 1 |-> [e \in 0 .. 1 |-> p.hp[h][k][e]]]]
    OBVIOUS
  <2>2. PartMessage(p, Counts)
    BY <1>5, <1>8
  <2>3. p = [hp |-> hp, claims |-> <<>>]
    BY <2>1, <2>2, Zenon DEF PartMessage
  <2>4. p.hp = hp
    BY <2>3
  <2> QED
    BY <2>1, <2>3, <2>4
<1>12. /\ DOMAIN p.hp = 0 .. 1 /\ p.hp = [h \in 0 .. 1 |-> p.hp[h]]
       /\ \A h \in 0 .. 1 : p.hp[h] = [k \in 0 .. Counts[h] - 1 |-> [e \in 0 .. 1 |-> p.hp[h][k][e]]]
  BY <1>11
<1>13. \A h \in 0 .. 1 : \A k \in 0 .. Counts[h] - 1 : p.hp[h][k] = [e \in 0 .. 1 |-> p.hp[h][k][e]]
  BY <1>12
<1> DEFINE new == [k \in 0 .. round |-> IF k < round THEN p.hp[hand][k] ELSE m]
<1>14. /\ IsSeq(proof') /\ Len(proof') = layer
       /\ \A l \in 1 .. layer - 1 : proof'[l] = proof[l]
       /\ p2 = [p EXCEPT !.hp[hand] = new]
  <2>1. PICK S : proof \in Seq(S)
    BY <1>5 DEF IsSeq
  <2>2. PICK x : x = [p EXCEPT !.hp[hand] = new]
    OBVIOUS
  <2>3. layer \in DOMAIN proof /\ DOMAIN proof = 1 .. layer
    BY <1>4, <1>5, SeqIs
  <2>4. proof' = [proof EXCEPT ![layer] = x]
    BY <1>2, <1>8, <2>2, <2>3
  <2>5. /\ proof' = [l \in 1 .. layer |-> proof'[l]] /\ proof'[layer] = x
        /\ \A l \in 1 .. layer - 1 : proof'[l] = proof[l]
    <3>1. proof' = [l \in 1 .. layer |-> IF l = layer THEN x ELSE proof[l]]
      BY <2>3, <2>4
    <3>2. layer \in 1 .. layer /\ \A l \in 1 .. layer - 1 : l \in 1 .. layer /\ l # layer
      BY <1>4
    <3>3. proof' = [l \in 1 .. layer |-> proof'[l]]
      BY <3>1
    <3> QED
      BY <3>1, <3>2, <3>3
  <2>6. IsSeq(proof') /\ Len(proof') = layer
    BY <1>4, <2>5, TableIs
  <2> QED
    BY <1>9, <2>2, <2>5, <2>6
<1>15. p2.hp = [h \in 0 .. 1 |-> IF h = hand THEN new ELSE p.hp[h]] /\ p2 = [hp |-> p2.hp, claims |-> <<>>]
  <2>1. p = [hp |-> p.hp, claims |-> <<>>]
    BY <1>11
  <2> HIDE DEF new
  <2>2. p2.hp = [p.hp EXCEPT ![hand] = new] /\ p2.claims = <<>> /\ p2 = [hp |-> p2.hp, claims |-> p2.claims]
    <3>1. PICK H : H = [p.hp EXCEPT ![hand] = new]
      OBVIOUS
    <3>2. p2 = [p EXCEPT !.hp = H]
      BY <1>14, <3>1
    <3>3. p2 = [hp |-> H, claims |-> <<>>]
      BY <2>1, <3>2
    <3> QED
      BY <3>1, <3>3
  <2>3. p2.hp = [h \in 0 .. 1 |-> IF h = hand THEN new ELSE p.hp[h]]
    BY <1>12, <2>2
  <2> QED
    BY <2>2, <2>3
<1>16. \A h \in 0 .. 1 : p2.hp[h] = [k \in 0 .. Counts'[h] - 1 |-> [e \in 0 .. 1 |-> p2.hp[h][k][e]]]
  <2> SUFFICES ASSUME NEW h \in 0 .. 1
               PROVE  p2.hp[h] = [k \in 0 .. Counts'[h] - 1 |-> [e \in 0 .. 1 |-> p2.hp[h][k][e]]]
    OBVIOUS
  <2>1. CASE h = hand
    <3>1. p2.hp[h] = new
      BY <1>15, <2>1
    <3>2. Counts[h] = round /\ 0 .. Counts'[h] - 1 = 0 .. round
      BY <1>5, <1>10, <2>1
    <3>3. \A k \in 0 .. round : new[k] = [e \in 0 .. 1 |-> new[k][e]]
      <4> SUFFICES ASSUME NEW k \in 0 .. round PROVE new[k] = [e \in 0 .. 1 |-> new[k][e]]
        OBVIOUS
      <4>1. CASE k < round
        <5>1. k \in 0 .. Counts[h] - 1 /\ new[k] = p.hp[h][k]
          BY <1>5, <2>1, <3>2, <4>1
        <5>2. p.hp[h][k] = [e \in 0 .. 1 |-> p.hp[h][k][e]]
          BY <1>13, <5>1
        <5> QED
          BY <5>1, <5>2
      <4>2. CASE ~(k < round)
        <5>1. new[k] = m
          BY <4>2
        <5> QED
          BY <1>2, <5>1
      <4> QED
        BY <4>1, <4>2
    <3>4. new = [k \in 0 .. round |-> [e \in 0 .. 1 |-> new[k][e]]]
      BY <3>3
    <3> HIDE DEF new
    <3> QED
      BY <3>1, <3>2, <3>4
  <2>2. CASE h # hand
    <3>1. p2.hp[h] = p.hp[h]
      BY <1>15, <2>2
    <3>2. Counts'[h] = Counts[h]
      BY <1>5, <1>10, <2>2
    <3>3. p.hp[h] = [k \in 0 .. Counts[h] - 1 |-> [e \in 0 .. 1 |-> p.hp[h][k][e]]]
      BY <1>12
    <3> QED
      BY <3>1, <3>2, <3>3
  <2> QED
    BY <2>1, <2>2
<1>17. PartMessage(p2, Counts')
  <2>1. p2.hp = [h \in 0 .. 1 |-> p2.hp[h]]
    BY <1>15
  <2>2. p2.hp = [h \in 0 .. 1 |-> [k \in 0 .. Counts'[h] - 1 |-> [e \in 0 .. 1 |-> p2.hp[h][k][e]]]]
    BY <1>16, <2>1
  <2> QED
    BY <1>15, <2>2 DEF PartMessage
<1>18. Messages'
  <2>1. \A l \in 1 .. layer - 1 : IsMessage(proof'[l], circuit'.layers[l].logw)
    BY <1>1, <1>5, <1>14 DEF Sent
  <2>2. Sent(layer - 1)'
    BY <1>1, <1>14, <2>1 DEF Sent
  <2>3. NoInputYet'
    BY <1>1, <1>5 DEF NoInputYet
  <2> QED
    BY <1>1, <1>9, <1>14, <1>17, <2>2, <2>3 DEF Messages
<1>19. /\ points = [h \in 0 .. 1 |-> points[h]]
       /\ \A h \in 0 .. 1 : IsSeq(points[h]) /\ Len(points[h]) = Counts[h]
  BY <1>5 DEF PointsSoFar
<1>20. points' = [h \in 0 .. 1 |-> IF h = hand THEN Append(points[h], r) ELSE points[h]]
  BY <1>2, <1>5, <1>19
<1>21. \A h \in 0 .. 1 : IsSeq(points'[h]) /\ Len(points'[h]) = Counts'[h]
  <2> SUFFICES ASSUME NEW h \in 0 .. 1 PROVE IsSeq(points'[h]) /\ Len(points'[h]) = Counts'[h]
    OBVIOUS
  <2>1. CASE h = hand
    <3>1. IsSeq(Append(points[h], r)) /\ Len(Append(points[h], r)) = Len(points[h]) + 1
      BY <1>19, AppendIs
    <3>2. Counts'[h] = Counts[h] + 1
      BY <1>5, <1>10, <2>1
    <3> QED
      BY <1>19, <1>20, <2>1, <3>1, <3>2
  <2>2. CASE h # hand
    <3>1. Counts'[h] = Counts[h]
      BY <1>5, <1>10, <2>2
    <3> QED
      BY <1>19, <1>20, <2>2, <3>1
  <2> QED
    BY <2>1, <2>2
<1>22. PointsSoFar'
  BY <1>20, <1>21 DEF PointsSoFar
<1>23. PICK lg, pts, beta : StartedFrom(lg, pts, beta)
  BY <1>1 DEF InRound
<1>24. PICK start : start = Drawn(Drawn(lg, alpha), beta)
  OBVIOUS
<1>25. PICK first : first = bind_g(circuit.layers[layer], logv, nv, pts[0], pts[1], alpha, beta)
  OBVIOUS
<1>26. /\ IsSeq(lg)
       /\ LayersDone(circuit, Log0, proof, layer - 1, State(lg, pts, logv, nv, data.layers))
       /\ Begins(start, log)
       /\ RoundsDone(p.hp, LayerLogw, start, 2 * round + hand, log, points)
       /\ hquad = IF hand = 0 THEN BindHands(first, points[0], points[1])[round]
                  ELSE bind_h(BindHands(first, points[0], points[1])[round], points[0][round + 1], 0)
  BY <1>8, <1>23, <1>24, <1>25 DEF StartedFrom
<1>27. LayersDone(circuit', Log0', proof', layer' - 1, State(lg, pts, logv', nv', data'.layers))
  BY <1>1, <1>3, <1>14, <1>26, LayersSame
<1>28. Begins(start, log')
  BY <1>2, <1>26, BeginsLonger DEF Drawn, Absorbed
<1>29. RoundsDone(p2.hp, LayerLogw, start, 2 * round' + hand', log', points')
  <2>1. PICK n : n = 2 * round + hand
    OBVIOUS
  <2>2. /\ n \in Nat /\ n < 2 * LayerLogw /\ n % 2 = hand /\ n \div 2 = round
        /\ 2 * round' + hand' = n + 1
    <3>1. hand = 0 \/ hand = 1
      BY <1>5
    <3>2. n \in Nat /\ n < 2 * LayerLogw
      BY <1>1, <1>4, <1>5, <2>1
    <3>3. n % 2 = hand /\ n \div 2 = round
      BY <1>5, <2>1
    <3>4. 2 * round' + hand' = n + 1
      <4>1. CASE hand = 0
        BY <1>1, <1>5, <2>1, <4>1
      <4>2. CASE hand = 1
        BY <1>1, <1>5, <2>1, <4>2
      <4> QED
        BY <3>1, <4>1, <4>2
    <3> QED
      BY <3>2, <3>3, <3>4
  <2>3. p2.hp[n % 2][n \div 2] = m
    BY <1>5, <1>15, <2>2
  <2>4. \A j \in 0 .. n - 1 : p2.hp[j % 2][j \div 2] = p.hp[j % 2][j \div 2]
    <3> SUFFICES ASSUME NEW j \in 0 .. n - 1 PROVE p2.hp[j % 2][j \div 2] = p.hp[j % 2][j \div 2]
      OBVIOUS
    <3>1. PICK h, k : h = j % 2 /\ k = j \div 2
      OBVIOUS
    <3>2. h \in 0 .. 1 /\ k \in 0 .. round /\ (h = hand => k < round)
      BY <1>5, <2>1, <2>2, <3>1
    <3>3. CASE h = hand
      <4>1. p2.hp[h] = new /\ new[k] = p.hp[h][k]
        BY <1>15, <3>2, <3>3
      <4> QED
        BY <3>1, <4>1
    <3>4. CASE h # hand
      BY <1>15, <3>1, <3>2, <3>4
    <3> QED
      BY <3>3, <3>4
  <2>5. RoundsDone(p.hp, LayerLogw, start, n, log, points)
    BY <1>26, <2>1
  <2>6. RoundsDone(p2.hp, LayerLogw, start, n + 1, Drawn(Absorbed(Absorbed(log, m[0]), m[1]), r),
                   [points EXCEPT ![n % 2] = Append(@, r)])
    BY <1>4, <1>5, <2>2, <2>3, <2>4, <2>5, RoundsStep
  <2> QED
    BY <1>2, <2>2, <2>6
<1>30. hquad' = IF hand' = 0 THEN BindHands(first, points'[0], points'[1])[round']
                ELSE bind_h(BindHands(first, points'[0], points'[1])[round'], points'[0][round' + 1], 0)
  <2>1. IsSeq(points[0]) /\ IsSeq(points'[0]) /\ Len(points[0]) = round + hand /\ Len(points'[0]) = round + 1
    BY <1>10, <1>19, <1>21
  <2>2. \A i \in 1 .. round : points'[0][i] = points[0][i] /\ points'[1][i] = points[1][i]
    <3>1. IsSeq(points[1]) /\ Len(points[1]) = round
      BY <1>10, <1>19
    <3>2. \A i \in 1 .. round : Append(points[0], r)[i] = points[0][i]
      BY <1>5, <2>1, AppendIs
    <3>3. \A i \in 1 .. round : Append(points[1], r)[i] = points[1][i]
      BY <3>1, AppendIs
    <3>4. /\ points'[0] = IF hand = 0 THEN Append(points[0], r) ELSE points[0]
          /\ points'[1] = IF hand = 1 THEN Append(points[1], r) ELSE points[1]
      BY <1>5, <1>20
    <3> QED
      BY <3>2, <3>3, <3>4
  <2>3. BindHands(first, points'[0], points'[1])[round] = BindHands(first, points[0], points[1])[round]
    BY <1>5, <2>1, <2>2, BindAgree
  <2>4. CASE hand = 0
    <3>1. hand' = 1 /\ round' = round
      BY <1>1, <1>5, <2>4
    <3>2. points'[0][round + 1] = r
      BY <1>20, <2>1, <2>4, AppendIs
    <3>3. hquad' = bind_h(BindHands(first, points[0], points[1])[round], r, 0)
      BY <1>2, <1>26, <2>4
    <3> QED
      BY <2>3, <3>1, <3>2, <3>3
  <2>5. CASE hand = 1
    <3>1. hand' = 0 /\ round' = round + 1 /\ round' \in 1 .. Len(points'[0]) /\ round' - 1 = round
      BY <1>1, <1>5, <2>1, <2>5
    <3>2. points'[0] = points[0] /\ points'[1][round + 1] = r
      <4>1. Append(points[1], r)[Len(points[1]) + 1] = r /\ Len(points[1]) = round
        BY <1>10, <1>19, AppendIs
      <4> QED
        BY <1>20, <2>5, <4>1
    <3>3. hquad' = bind_h(bind_h(BindHands(first, points[0], points[1])[round], points[0][round + 1], 0), r, 1)
      BY <1>2, <1>26, <2>5
    <3>4. PICK B : B = BindHands(first, points'[0], points'[1])
      OBVIOUS
    <3>5. \A k \in 1 .. Len(points'[0]) : B[k] = bind_h(bind_h(B[k - 1], points'[0][k], 0), points'[1][k], 1)
      BY <2>1, <3>4, BindHandsDef
    <3>6. B[round'] = bind_h(bind_h(B[round], points'[0][round'], 0), points'[1][round'], 1)
      BY <3>1, <3>5
    <3> QED
      BY <2>3, <3>1, <3>2, <3>3, <3>4, <3>6
  <2> QED
    BY <1>5, <2>4, <2>5
<1>31. StartedFrom(lg, pts, beta)'
  <2>1. start = Drawn(Drawn(lg, alpha'), beta)
        /\ first = bind_g(circuit'.layers[layer'], logv', nv', pts[0], pts[1], alpha', beta)
        /\ p2 = proof'[layer'] /\ LayerLogw' = LayerLogw
    BY <1>1, <1>4, <1>9, <1>24, <1>25
  <2> QED
    BY <1>26, <1>27, <1>28, <1>29, <1>30, <2>1 DEF StartedFrom
<1>32. InRound'
  BY <1>7, <1>18, <1>22, <1>31 DEF InRound
<1> QED
  BY <1>1, <1>32 DEF RolesInv

LEMMA RolesEndLayer == RolesInv /\ EndLayer => RolesInv'
<1> SUFFICES ASSUME RolesInv, EndLayer PROVE RolesInv'
  OBVIOUS
<1>1. /\ pc = "round" /\ InRound /\ circuit \in Circuits /\ round = LayerLogw /\ IsScalar(hquad)
      /\ circuit' = circuit /\ inputs' = inputs /\ rng' = rng /\ points' = points
      /\ logv' = circuit.layers[layer].logw /\ nv' = circuit.layers[layer].nw /\ layer' = layer + 1
      /\ pc' = "layer"
      /\ data' = [data EXCEPT !.layers = Append(@, [rounds |-> Rounds(points), alpha |-> alpha,
                                                    bound_quad |-> hquad[1].v])]
  BY DEF RolesInv, EndLayer, LayerEndsWell, LayerLogw
<1>2. PICK m : m = [k \in 0 .. 1 |-> m[k]] /\ proof' = [proof EXCEPT ![layer].claims = m] /\ log' = Absorbed(log, m)
  <2>1. PICK m : /\ m = [e \in 0 .. 1 |-> (w[e][0] - SamplePad(rng, logw_layers(circuit), layer).claims[e]) % q]
                 /\ proof' = [proof EXCEPT ![layer].claims = m] /\ log' = Absorbed(log, m)
    BY DEF EndLayer
  <2>2. m = [k \in 0 .. 1 |-> m[k]]
    BY <2>1
  <2> QED
    BY <2>1, <2>2
<1>3. Log0' = Log0
  BY <1>1 DEF Log0
<1>4. /\ IsSeq(circuit.layers) /\ Len(circuit.layers) \in Nat /\ layer \in 1 .. Len(circuit.layers)
      /\ layer \in Nat /\ layer >= 1 /\ LayerLogw \in Nat
  BY <1>1, CircuitIs DEF InRound, Position, LayerLogw
<1>5. /\ IsSeq(log) /\ hand = 0
      /\ Len(proof) = layer /\ IsSeq(proof) /\ Sent(layer - 1) /\ NoInputYet /\ PartMessage(proof[layer], Counts)
      /\ PointsSoFar
  BY <1>1, <1>4 DEF InRound, Position, Messages, Sent
<1>6. IsSeq(log')
  BY <1>2, <1>5, LogAppend
<1>7. PICK p : p = proof[layer]
  OBVIOUS
<1>8. PICK p2 : p2 = proof'[layer]
  OBVIOUS
<1>9. Counts[0] = LayerLogw /\ Counts[1] = LayerLogw
  BY <1>1, <1>4, <1>5 DEF Counts
<1>10. /\ p.hp = [h \in 0 .. 1 |-> [k \in 0 .. Counts[h] - 1 |-> [e \in 0 .. 1 |-> p.hp[h][k][e]]]]
       /\ p = [hp |-> p.hp, claims |-> <<>>]
  <2>1. PICK hp : hp = [h \in 0 .. 1 |-> [k \in 0 .. Counts[h] - 1 |-> [e \in 0 .. 1 |-> p.hp[h][k][e]]]]
    OBVIOUS
  <2>2. PartMessage(p, Counts)
    BY <1>5, <1>7
  <2>3. p = [hp |-> hp, claims |-> <<>>]
    BY <2>1, <2>2, Zenon DEF PartMessage
  <2>4. p.hp = hp
    BY <2>3
  <2> QED
    BY <2>1, <2>3, <2>4
<1>11. /\ IsSeq(proof') /\ Len(proof') = layer
       /\ \A l \in 1 .. layer - 1 : proof'[l] = proof[l]
       /\ p2 = [p EXCEPT !.claims = m]
  <2>1. PICK x : x = [p EXCEPT !.claims = m]
    OBVIOUS
  <2>2. layer \in DOMAIN proof /\ DOMAIN proof = 1 .. layer
    BY <1>4, <1>5, SeqIs
  <2>3. PICK S : proof \in Seq(S)
    BY <1>5 DEF IsSeq
  <2>4. proof' = [proof EXCEPT ![layer] = x]
    BY <1>2, <1>7, <2>1, <2>2
  <2>5. proof' = [l \in 1 .. layer |-> IF l = layer THEN x ELSE proof[l]]
    BY <2>2, <2>4
  <2>6. layer \in 1 .. layer /\ \A l \in 1 .. layer - 1 : l \in 1 .. layer /\ l # layer
    BY <1>4
  <2>7. proof' = [l \in 1 .. layer |-> proof'[l]]
    BY <2>5
  <2>8. IsSeq(proof') /\ Len(proof') = layer
    BY <1>4, <2>7, TableIs
  <2> QED
    BY <1>8, <2>1, <2>5, <2>6, <2>8
<1>12. p2 = [hp |-> p.hp, claims |-> m] /\ p2.hp = p.hp /\ p2.claims = m
  BY <1>10, <1>11
<1>13. IsMessage(p2, LayerLogw)
  <2>1. \A h \in 0 .. 1 : Counts[h] = LayerLogw
    BY <1>9
  <2>2. p2.hp = [h \in 0 .. 1 |-> [k \in 0 .. LayerLogw - 1 |-> [e \in 0 .. 1 |-> p2.hp[h][k][e]]]]
    BY <1>10, <1>12, <2>1
  <2>3. p2.claims = [k \in 0 .. 1 |-> p2.claims[k]]
    BY <1>2, <1>12
  <2>4. p2 = [hp |-> p2.hp, claims |-> p2.claims]
    BY <1>12
  <2> QED
    BY <2>2, <2>3, <2>4 DEF IsMessage
<1>14. Sent(layer - 1)'
  <2>1. \A l \in 1 .. layer : IsMessage(proof'[l], circuit'.layers[l].logw)
    <3> SUFFICES ASSUME NEW l \in 1 .. layer PROVE IsMessage(proof'[l], circuit'.layers[l].logw)
      OBVIOUS
    <3>1. CASE l = layer
      BY <1>1, <1>8, <1>13, <3>1 DEF LayerLogw
    <3>2. CASE l # layer
      <4>1. l \in 1 .. layer - 1
        BY <1>4, <3>2
      <4> QED
        BY <1>1, <1>5, <1>11, <4>1 DEF Sent
    <3> QED
      BY <3>1, <3>2
  <2>2. layer' - 1 = layer
    BY <1>1, <1>4
  <2> QED
    BY <1>11, <2>1, <2>2 DEF Sent
<1>15. PICK lg, pts, beta : StartedFrom(lg, pts, beta)
  BY <1>1 DEF InRound
<1>16. PICK start : start = Drawn(Drawn(lg, alpha), beta)
  OBVIOUS
<1>17. PICK first : first = bind_g(circuit.layers[layer], logv, nv, pts[0], pts[1], alpha, beta)
  OBVIOUS
<1>18. /\ IsSeq(lg)
       /\ LayersDone(circuit, Log0, proof, layer - 1, State(lg, pts, logv, nv, data.layers))
       /\ Begins(start, log)
       /\ RoundsDone(p.hp, LayerLogw, start, 2 * LayerLogw, log, points)
       /\ hquad = BindHands(first, points[0], points[1])[LayerLogw]
  <2>1. 2 * round + hand = 2 * LayerLogw
    BY <1>1, <1>4, <1>5
  <2> QED
    BY <1>1, <1>5, <1>7, <1>15, <1>16, <1>17, <2>1 DEF StartedFrom
<1>19. hquad = BindHands(first, points[0], points[1])[Len(points[0])]
  <2>1. Len(points[0]) = LayerLogw
    BY <1>5, <1>9 DEF PointsSoFar
  <2> QED
    BY <1>18, <2>1
<1>20. PICK entry : entry = [rounds |-> Rounds(points), alpha |-> alpha, bound_quad |-> hquad[1].v]
  OBVIOUS
<1>21. LayersDone(circuit, Log0, proof', layer,
         State(Absorbed(log, proof'[layer].claims), points, LayerLogw, circuit.layers[layer].nw,
               Append(data.layers, entry)))
  <2>1. LayerLogw = circuit.layers[layer].logw
    BY DEF LayerLogw
  <2>2. RoundsDone(proof'[layer].hp, LayerLogw, Drawn(Drawn(lg, alpha), beta), 2 * LayerLogw, log, points)
    BY <1>8, <1>12, <1>16, <1>18
  <2>3. Begins(Drawn(Drawn(lg, alpha), beta), log)
    BY <1>16, <1>18
  <2>4. hquad = BindHands(bind_g(circuit.layers[layer], logv, nv, pts[0], pts[1], alpha, beta), points[0], points[1])[Len(points[0])]
    BY <1>17, <1>19
  <2>5. PICK c, log0, pfs, pfs2, lv, v, ls, a, lg2, pts2, hq, l, logw :
          /\ c = circuit /\ log0 = Log0 /\ pfs = proof /\ pfs2 = proof' /\ lv = logv /\ v = nv
          /\ ls = data.layers /\ a = alpha /\ lg2 = log /\ pts2 = points /\ hq = hquad /\ l = layer
          /\ logw = LayerLogw
    OBVIOUS
  <2>6. /\ IsSeq(c.layers) /\ l \in 1 .. Len(c.layers) /\ logw \in Nat /\ logw = c.layers[l].logw
        /\ \A i \in 1 .. l - 1 : pfs2[i] = pfs[i]
        /\ IsSeq(lg) /\ LayersDone(c, log0, pfs, l - 1, State(lg, pts, lv, v, ls))
        /\ IsSeq(lg2) /\ Begins(Drawn(Drawn(lg, a), beta), lg2)
        /\ RoundsDone(pfs2[l].hp, logw, Drawn(Drawn(lg, a), beta), 2 * logw, lg2, pts2)
        /\ hq = BindHands(bind_g(c.layers[l], lv, v, pts[0], pts[1], a, beta), pts2[0], pts2[1])[Len(pts2[0])]
        /\ IsScalar(hq)
    BY <1>1, <1>4, <1>5, <1>11, <1>18, <2>1, <2>2, <2>3, <2>4, <2>5
  <2>7. LayersDone(c, log0, pfs2, l,
           State(Absorbed(lg2, pfs2[l].claims), pts2, logw, c.layers[l].nw,
                 Append(ls, [rounds |-> Rounds(pts2), alpha |-> a, bound_quad |-> hq[1].v])))
    BY <2>6, LayersStep
  <2> QED
    BY <1>20, <2>5, <2>7
<1>22. data'.layers = Append(data.layers, entry) /\ NoInputYet'
  <2>1. data = [layers |-> data.layers, input_alpha |-> 0, input_weights |-> <<>>]
    BY <1>5 DEF NoInputYet
  <2>2. data' = [layers |-> Append(data.layers, entry), input_alpha |-> 0, input_weights |-> <<>>]
    <3>1. PICK ls, ls2 : ls = data.layers /\ ls2 = Append(ls, entry)
      OBVIOUS
    <3>2. data' = [data EXCEPT !.layers = ls2]
      BY <1>1, <1>20, <3>1
    <3>3. data = [layers |-> ls, input_alpha |-> 0, input_weights |-> <<>>]
      BY <2>1, <3>1
    <3>4. data' = [layers |-> ls2, input_alpha |-> 0, input_weights |-> <<>>]
      BY <3>2, <3>3
    <3> QED
      BY <3>1, <3>4
  <2> QED
    BY <2>2 DEF NoInputYet
<1>23. log' = Absorbed(log, proof'[layer].claims)
  BY <1>2, <1>8, <1>12
<1>24. layer' - 1 = layer /\ layer' \in 1 .. Len(circuit'.layers) + 1
  BY <1>1, <1>4
<1>25. LayersDone(circuit', Log0', proof', layer' - 1, State(log', points', logv', nv', data'.layers))
  BY <1>1, <1>3, <1>21, <1>22, <1>23, <1>24 DEF LayerLogw
<1>26. AtLayer'
  BY <1>6, <1>11, <1>14, <1>22, <1>24, <1>25 DEF AtLayer
<1> QED
  BY <1>1, <1>26 DEF RolesInv

LEMMA RolesFinishProof == RolesInv /\ FinishProof => RolesInv'
<1> SUFFICES ASSUME RolesInv, FinishProof PROVE RolesInv'
  OBVIOUS
<1>1. /\ pc = "layer" /\ AtLayer /\ circuit \in Circuits /\ layer > Len(circuit.layers)
      /\ circuit' = circuit /\ inputs' = inputs /\ rng' = rng /\ proof' = proof /\ pc' = "sent"
  BY DEF RolesInv, FinishProof
<1>2. PICK a \in Challenges :
        /\ log' = Drawn(log, a)
        /\ data' = [data EXCEPT !.input_alpha = a,
                                !.input_weights = eq2(logv, circuit.ninput, points[0], points[1], a)]
  BY DEF FinishProof
<1>3. Log0' = Log0
  BY <1>1 DEF Log0
<1>4. /\ IsSeq(circuit.layers) /\ Len(circuit.layers) \in Nat /\ layer - 1 = Len(circuit.layers)
      /\ layer \in Nat
  BY <1>1, CircuitIs DEF AtLayer
<1>5. /\ IsSeq(log) /\ Len(proof) = Len(circuit.layers) /\ Sent(Len(circuit.layers)) /\ NoInputYet
      /\ LayersDone(circuit, Log0, proof, Len(circuit.layers), State(log, points, logv, nv, data.layers))
  BY <1>1, <1>4 DEF AtLayer
<1>6. data' = [layers |-> data.layers, input_alpha |-> a,
               input_weights |-> eq2(logv, circuit.ninput, points[0], points[1], a)]
  <2>1. data = [layers |-> data.layers, input_alpha |-> 0, input_weights |-> <<>>]
    BY <1>5 DEF NoInputYet
  <2> QED
    BY <1>2, <2>1
<1>7. ASSUME NEW f
      PROVE  /\ derive_verifier_data(circuit, proof, Log0, log', f).data = data'
             /\ derive_verifier_data(circuit, proof, Log0, log', f).ok
  <2>1. IsSeq(log')
    BY <1>2, <1>5, LogAppend
  <2>2. Begins(Drawn(log, a), log')
    BY <1>2, <2>1, BeginsItself
  <2>3. Begins(log, log')
    BY <1>5, <2>2, BeginsLog
  <2>4. PICK s : s = State(log, points, logv, nv, data.layers)
    OBVIOUS
  <2>5. s.log = log /\ s.points = points /\ s.logv = logv /\ s.ok = TRUE /\ s.layers = data.layers
    BY <2>4 DEF State
  <2>6. ReplayLayers(circuit, proof, Log0, log', f)[Len(circuit.layers)] = s
    BY <1>5, <2>3, <2>4, <2>5 DEF LayersDone
  <2>7. Replay(log', log, f) = a
    BY <1>5, <2>2, ReplayFinds
  <2>8. derive_verifier_data(circuit, proof, Log0, log', f)
          = [ok |-> s.ok,
             data |-> [layers |-> s.layers, input_alpha |-> a,
                       input_weights |-> eq2(s.logv, circuit.ninput, s.points[0], s.points[1], a)],
             log |-> Drawn(s.log, a)]
    BY <2>5, <2>6, <2>7 DEF derive_verifier_data
  <2> QED
    BY <1>6, <2>5, <2>8
<1>8. Agreed'
  <2>1. \A f : /\ derive_verifier_data(circuit', proof', Log0', log', f).data = data'
               /\ derive_verifier_data(circuit', proof', Log0', log', f).ok
    BY <1>1, <1>3, <1>7
  <2>2. Sent(Len(circuit.layers))'
    BY <1>1, <1>5 DEF Sent
  <2> QED
    BY <1>1, <1>5, <2>1, <2>2 DEF Agreed
<1> QED
  BY <1>1, <1>8 DEF RolesInv

LEMMA RolesDeliver == RolesInv /\ Deliver => RolesInv'
<1> SUFFICES ASSUME RolesInv, Deliver PROVE RolesInv'
  OBVIOUS
<1>1. /\ pc = "sent" /\ Agreed /\ circuit \in Circuits /\ circuit' = circuit /\ pc' = "received"
      /\ proof' = proof /\ data' = data
      /\ Receive(WriteProof(proof, Geometry), 0)
  BY DEF RolesInv, Deliver
<1>2. /\ Geometry \in Seq(Nat) /\ Len(Geometry) = Len(circuit.layers)
      /\ \A l \in 1 .. Len(circuit.layers) : Geometry[l] = circuit.layers[l].logw
  BY <1>1, CircuitIs DEF Geometry
<1>3. ReadProof(WriteProof(proof, Geometry), Geometry) = proof
  <2>1. /\ IsSeq(proof) /\ Len(proof) = Len(Geometry)
        /\ \A l \in 1 .. Len(Geometry) : IsMessage(proof[l], Geometry[l])
    BY <1>1, <1>2 DEF Agreed, Sent
  <2> QED
    BY <1>2, <2>1, RoundTrip
<1>4. received' = [ok |-> derive_verifier_data(circuit, proof, Log0, log, 0).ok, proof |-> proof,
                   data |-> derive_verifier_data(circuit, proof, Log0, log, 0).data]
  <2>1. PICK pf, log0, r :
          /\ pf = ReadProof(WriteProof(proof, Geometry), Geometry) /\ log0 = Log0
          /\ r = derive_verifier_data(circuit, pf, log0, log, 0)
          /\ received' = [ok |-> r.ok, proof |-> pf, data |-> r.data]
    BY <1>1, Zenon DEF Receive, Log0
  <2> QED
    BY <1>3, <2>1
<1>5. received'.ok /\ received'.proof = proof /\ received'.data = data
  BY <1>1, <1>4 DEF Agreed
<1> QED
  BY <1>1, <1>5 DEF RolesInv

(***************************************************************************)
(* Prover and verifier state the same constraints: what                    *)
(* derive_verifier_data makes of an unchanged proof, read back from its    *)
(* bytes, is what prove_core recorded, for every circuit and challenges.   *)
(***************************************************************************)
THEOREM SameConstraints == Spec => []RolesAgree
<1>1. RolesInv /\ [Next]_vars => RolesInv'
  <2> SUFFICES ASSUME RolesInv, [Next]_vars PROVE RolesInv'
    OBVIOUS
  <2>1. CASE DeliverChanged
    <3>1. /\ circuit' = circuit /\ pc' = "received" /\ tampered' = TRUE
      BY <2>1 DEF DeliverChanged
    <3> QED
      BY <3>1 DEF RolesInv
  <2>2. CASE UNCHANGED vars
    <3>1. /\ pc' = pc /\ circuit' = circuit /\ inputs' = inputs /\ rng' = rng /\ layer' = layer
          /\ round' = round /\ hand' = hand /\ logv' = logv /\ nv' = nv /\ points' = points
          /\ alpha' = alpha /\ hquad' = hquad /\ proof' = proof /\ data' = data /\ log' = log
          /\ tampered' = tampered /\ received' = received
      BY <2>2 DEF vars
    <3>2. Log0' = Log0 /\ LayerLogw' = LayerLogw /\ Counts' = Counts /\ NoInputYet' = NoInputYet
      BY <3>1 DEF Log0, LayerLogw, Counts, NoInputYet
    <3>3. AtLayer => AtLayer'
      BY <3>1, <3>2 DEF AtLayer, Sent
    <3>4. Agreed => Agreed'
      BY <3>1, <3>2 DEF Agreed, Sent
    <3>5. InRound => InRound'
      <4>1. Position => Position'
        BY <3>1, <3>2 DEF Position
      <4>2. Messages => Messages'
        BY <3>1, <3>2 DEF Messages, Sent
      <4>3. PointsSoFar => PointsSoFar'
        BY <3>1, <3>2 DEF PointsSoFar
      <4>4. \A lg, pts, beta : StartedFrom(lg, pts, beta) => StartedFrom(lg, pts, beta)'
        BY <3>1, <3>2 DEF StartedFrom
      <4> QED
        BY <4>1, <4>2, <4>3, <4>4 DEF InRound
    <3> QED
      BY <3>1, <3>2, <3>3, <3>4, <3>5 DEF RolesInv
  <2> QED
    BY <2>1, <2>2, RolesCommit, RolesBeginCircuit, RolesBeginLayer, RolesRound, RolesEndLayer,
       RolesFinishProof, RolesDeliver DEF Next
<1>2. RolesInv => RolesAgree
  BY DEF RolesInv, RolesAgree
<1> QED
  BY <1>1, <1>2, RolesInit, PTL DEF Spec

=============================================================================
