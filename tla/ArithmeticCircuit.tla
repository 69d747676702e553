------------------------- MODULE ArithmeticCircuit --------------------------
(***************************************************************************)
(* Bits as wires of a field (circuits/boolean).  A bit is a constant (T,   *)
(* F), or a wire v that stands for v (P), for 1 - v (N), or for (1 - v)/2  *)
(* (X, a sign), the last in fields of odd characteristic only.  Wires hold *)
(* field elements: the circuits are evaluated, not built.                  *)
(***************************************************************************)
EXTENDS Integers, Sequences, Loops, FiniteSets

CONSTANT F     \* a field of FiniteField

add(x, y) == F.add[x + 1][y + 1]
subt(x, y) == F.sub[x + 1][y + 1]
mul(x, y) == F.mul[x + 1][y + 1]
invert(x) == F.inv[x]
neg(x) == subt(0, x)
sum(xs) == ForEach(0, xs, add)
prod(xs) == ForEach(1, xs, mul)
dot(xs, ys) == sum([i \in DOMAIN xs |-> mul(xs[i], ys[i])])
assert0(x) == x = 0

\* crate::util::array::tree_fold: halves of a sequence, then the two results.
tree_fold(a, f(_, _)) ==
  LET recur[i0 \in 0 .. Len(a), i1 \in 0 .. Len(a)] ==
        IF i1 - i0 = 1 THEN a[i1]
        ELSE LET im == i0 + (i1 - i0) \div 2 IN f(recur[i0, im], recur[im, i1])
  IN recur[0, Len(a)]

Two == add(1, 1)
Binary == Two = 0
Half == invert(Two)

T == [r |-> "T", v |-> 1]
Ff == [r |-> "F", v |-> 0]
P(x) == [r |-> "P", v |-> x]
N(x) == [r |-> "N", v |-> x]
X(x) == [r |-> "X", v |-> x]
konst(b) == IF b THEN T ELSE Ff
Is(a, b, ra, rb) == a.r = ra /\ b.r = rb
Either(a, b, r) == a.r = r \/ b.r = r

\* The element of a bit, and its sign: -1 for true.
as_eltw(x) ==
  CASE x.r = "F" -> 0
    [] x.r = "T" -> 1
    [] x.r = "P" -> x.v
    [] x.r = "N" -> subt(1, x.v)
    [] x.r = "X" -> add(Half, mul(neg(Half), x.v))
positive(x) == P(as_eltw(x))
as_x(x) ==
  CASE x.r = "T" -> neg(1)
    [] x.r = "F" -> 1
    [] x.r = "P" -> add(1, mul(neg(Two), x.v))
    [] x.r = "N" -> add(neg(1), mul(Two, x.v))
    [] x.r = "X" -> x.v

\* A wire as a bit, with the assertion that it is one.
of_eltw(x) == [bit |-> P(x), ok |-> assert0(subt(x, mul(x, x)))]

notb(x) ==
  CASE x.r = "T" -> Ff
    [] x.r = "F" -> T
    [] x.r = "P" -> N(x.v)
    [] x.r = "N" -> P(x.v)
    [] x.r = "X" -> X(neg(x.v))

or_assuming_at_most_one_true(a, b) ==
  CASE Either(a, b, "T") -> T
    [] a.r = "F" -> b
    [] b.r = "F" -> a
    [] Is(a, b, "P", "P") -> P(add(a.v, b.v))
    [] Is(a, b, "P", "N") -> N(subt(b.v, a.v))
    [] Is(a, b, "N", "P") -> N(subt(a.v, b.v))
    [] Is(a, b, "N", "N") -> N(add(add(a.v, b.v), neg(1)))
    [] OTHER -> P(add(as_eltw(a), as_eltw(b)))
sum_assuming_at_most_one_true(bits) == P(sum([i \in DOMAIN bits |-> as_eltw(bits[i])]))

andb(a, b) ==
  LET xy == mul(a.v, b.v) IN
  CASE a.r = "T" -> b
    [] b.r = "T" -> a
    [] Either(a, b, "F") -> Ff
    [] Is(a, b, "P", "P") -> P(xy)
    [] Is(a, b, "P", "N") -> P(add(a.v, neg(xy)))
    [] Is(a, b, "N", "P") -> P(add(b.v, neg(xy)))
    [] Is(a, b, "N", "N") -> N(add(add(a.v, b.v), neg(xy)))
    [] OTHER -> P(mul(as_eltw(a), as_eltw(b)))
tree_andb(a, b) == positive(andb(a, b))
orb(a, b) == notb(andb(notb(a), notb(b)))
tree_orb(a, b) == notb(tree_andb(notb(a), notb(b)))

\* A defect: the sum of a binary field in every field.
xor_base_Add(x, y) == add(x, y)
xor_base(x, y) == IF Binary THEN add(x, y) ELSE add(add(x, y), mul(neg(Two), mul(x, y)))
\* Both wires positive, the sign of the result moved out of the product.
Signed(a, b) == LET s == P(xor_base(a.v, b.v)) IN IF a.r = b.r THEN s ELSE notb(s)
xorb(a, b) ==
  CASE a.r = "F" -> b
    [] b.r = "F" -> a
    [] a.r = "T" -> notb(b)
    [] a.r # "F" /\ b.r = "T" -> notb(a)
    [] {a.r, b.r} \cap {"T", "F"} = {} /\ Either(a, b, "X") ->
         IF Binary THEN P(add(as_eltw(a), as_eltw(b))) ELSE X(mul(as_x(a), as_x(b)))
    [] {a.r, b.r} \subseteq {"P", "N"} -> Signed(a, b)
tree_xorb(a, b) ==
  IF Binary \/ {a.r, b.r} \cap {"T", "F"} # {} THEN xorb(a, b) ELSE X(mul(as_x(a), as_x(b)))
eqb(a, b) == notb(xorb(a, b))
parity(bits) == IF bits = <<>> THEN Ff ELSE tree_fold(bits, tree_xorb)

mulbe(b, e) == mul(as_eltw(b), e)
muxe(b, iftrue, iffalse) == add(mulbe(b, iftrue), mulbe(notb(b), iffalse))
one_hot_muxe(selector, data) == sum([i \in DOMAIN selector |-> mulbe(selector[i], data[i])])
muxb(b, iftrue, iffalse) == or_assuming_at_most_one_true(andb(b, iftrue), andb(notb(b), iffalse))
one_hot_muxb(selector, data) ==
  sum_assuming_at_most_one_true([i \in DOMAIN selector |-> andb(selector[i], data[i])])

maj(x, y, z) == or_assuming_at_most_one_true(andb(x, y), andb(xorb(x, y), z))
xor3(a, b, c) == xorb(a, xorb(b, c))
impliesb(a, b) == orb(b, notb(a))
ltb(a, b) == andb(b, notb(a))
\* x + (not y) z, a lane of Keccak's chi.
chi_laneb(x, y, z) ==
  LET xx == as_x(x)
      w  == mul(xx, as_x(y))
  IN IF Binary THEN xorb(x, andb(notb(y), z))
     ELSE X(mul(Half, add(add(xx, neg(w)), mul(add(xx, w), as_x(z)))))

assert_false(x) == assert0(as_eltw(x))
assert_true(x) == assert_false(notb(x))
assert_eqb(x, y) ==
  IF {x.r, y.r} \subseteq {"T", "F"} THEN x.r = y.r
  ELSE IF x.r = y.r THEN assert0(subt(x.v, y.v))
  ELSE assert0(subt(as_eltw(x), as_eltw(y)))

(***************************************************************************)
(* What the gadgets are for.                                               *)
(***************************************************************************)
\* Every way to hold a bit, and the bit it holds.
Wires(b) == {konst(b), P(IF b THEN 1 ELSE 0), N(IF b THEN 0 ELSE 1)}
            \cup (IF Binary THEN {} ELSE {X(IF b THEN neg(1) ELSE 1)})
AllWires == Wires(TRUE) \cup Wires(FALSE)
\* A bit of a wire holds a truth value, and no sign where there is no half.
Holds(w, b) == (w.r = "X" => ~Binary) /\ as_eltw(w) = (IF b THEN 1 ELSE 0)
Truth(w) == as_eltw(w) = 1
Xor(p, q) == p # q

OpsRight(x, y, z) ==
  LET p == Truth(x)
      q == Truth(y)
      s == Truth(z)
  IN /\ Holds(notb(x), ~p)
     /\ Holds(andb(x, y), p /\ q) /\ Holds(tree_andb(x, y), p /\ q)
     /\ Holds(orb(x, y), p \/ q) /\ Holds(tree_orb(x, y), p \/ q)
     /\ Holds(xorb(x, y), Xor(p, q)) /\ Holds(tree_xorb(x, y), Xor(p, q)) /\ Holds(eqb(x, y), p = q)
     /\ Holds(impliesb(x, y), p => q) /\ Holds(ltb(x, y), ~p /\ q)
     /\ ~(p /\ q) => Holds(or_assuming_at_most_one_true(x, y), p \/ q)
     /\ Holds(xor3(x, y, z), Xor(p, Xor(q, s)))
     /\ Holds(parity(<<x, y, z>>), Xor(p, Xor(q, s)))
     /\ Holds(maj(x, y, z), (p /\ q) \/ (p /\ s) \/ (q /\ s))
     /\ Holds(muxb(x, y, z), IF p THEN q ELSE s)
     /\ Holds(chi_laneb(x, y, z), Xor(p, ~q /\ s))
     /\ \A e \in 0 .. F.q - 1 : muxe(x, e, 1) = (IF p THEN e ELSE 1)
     /\ assert_eqb(x, y) = (p = q) /\ assert_true(x) = p /\ assert_false(x) = ~p
     /\ \A e \in 0 .. F.q - 1 : of_eltw(e).ok = (e \in {0, 1})

-----------------------------------------------------------------------------
(***************************************************************************)
(* Numbers as sequences of bits, least significant first                   *)
(* (circuits/arithmetic, circuits/bitvec).  Assertions are the truth value *)
(* of what they assert.                                                    *)
(***************************************************************************)
(***************************************************************************)
(* Elements of bits.                                                       *)
(***************************************************************************)
as_eltw_field(a) == sum([i \in DOMAIN a |-> mul(F.basis[i], as_eltw(a[i]))])
\* Powers of two beyond the dimension: the prime field takes them unreduced
\* and reduces in the product that follows.
pseudo_basis_unsafe(i) == IF Binary THEN F.basis[i + 1] ELSE 2^i % F.q
as_eltw_unsafe(a) == sum([i \in DOMAIN a |-> mul(pseudo_basis_unsafe(i - 1), as_eltw(a[i]))])

(***************************************************************************)
(* Assertions.                                                             *)
(***************************************************************************)
CeilDiv(x, y) == (x + y - 1) \div y
\* As few elements as hold the bits, of sizes that differ by at most one.
assert_eq(a, b) ==
  LET k == CeilDiv(Len(a), F.dim)
      step(s, j) ==
        LET size == (Len(a) - s.idx) \div (k - j)
            A == SubSeq(a, s.idx + 1, s.idx + size)
            B == SubSeq(b, s.idx + 1, s.idx + size)
        IN [idx |-> s.idx + size, ok |-> s.ok /\ size <= F.dim /\ as_eltw_field(A) = as_eltw_field(B)]
  IN For([idx |-> 0, ok |-> TRUE], 0, k - 1, step).ok
assert_exactly_one(a) ==
  LET join(l, r) == [any |-> or_assuming_at_most_one_true(l.any, r.any),
                     ok  |-> l.ok /\ r.ok /\ assert_false(andb(l.any, r.any))]
      root == tree_fold([i \in DOMAIN a |-> [any |-> a[i], ok |-> TRUE]], join)
  IN IF Len(a) = 1 THEN assert_true(a[1]) ELSE assert_true(root.any) /\ root.ok

(***************************************************************************)
(* Comparison, addition and subtraction.  A pair is equal, less.           *)
(***************************************************************************)
lt_base(a, b) == <<eqb(a, b), ltb(a, b)>>
\* A defect: the more significant pair passes the less significant one on.
lt_reduce_Swapped(a, b) == <<tree_andb(a[1], b[1]), or_assuming_at_most_one_true(a[2], andb(a[1], b[2]))>>
lt_reduce(a, b) == <<tree_andb(a[1], b[1]), or_assuming_at_most_one_true(b[2], andb(b[1], a[2]))>>

\* Prefixes of a sequence under an associative operation: the upper half
\* continues from the last prefix of the lower half.
sklansky(arr, op(_, _)) ==
  LET scan[i0 \in 0 .. Len(arr), i1 \in 0 .. Len(arr)] ==
        IF i1 - i0 <= 1 THEN SubSeq(arr, i0 + 1, i1)
        ELSE LET im == i0 + (i1 - i0) \div 2
                 lo == scan[i0, im]
                 hi == scan[im, i1]
             IN lo \o [j \in DOMAIN hi |-> op(lo[Len(lo)], hi[j])]
  IN scan[0, Len(arr)]

unchecked_sub(a, b) ==
  LET n == Len(a)
      olteq == [i \in 1 .. n |-> lt_base(a[i], b[i])]
      lteq == sklansky(olteq, lt_reduce)
  IN <<[i \in 1 .. n |-> eqb(olteq[i][1], IF i = 1 THEN Ff ELSE lteq[i - 1][2])], lteq[n][2]>>
unchecked_add(a, b) ==
  LET r == unchecked_sub([i \in DOMAIN a |-> notb(a[i])], b)
  IN <<[i \in DOMAIN a |-> notb(r[1][i])], r[2]>>
checked_add(a, b) == LET r == unchecked_add(a, b) IN <<r[1], assert_false(r[2])>>
checked_sub(a, b) == LET r == unchecked_sub(a, b) IN <<r[1], assert_false(r[2])>>
wrapping_add(a, b) == unchecked_add(a, b)[1]
wrapping_sub(a, b) == unchecked_sub(a, b)[1]

\* The operations of two numbers by name, as bit vectors have them.
Adder(op, a, b) ==
  CASE op = "unchecked_add" -> unchecked_add(a, b) [] op = "unchecked_sub" -> unchecked_sub(a, b)
    [] op = "checked_add" -> checked_add(a, b) [] op = "checked_sub" -> checked_sub(a, b)

\* Carries of a given sum, each checked against the one before it.
assert_wrapping_add(c, a, b) ==
  LET n == Len(a)
      cy == [i \in 1 .. n - 1 |-> xor3(a[i + 1], b[i + 1], c[i + 1])]
  IN n # 0 => /\ assert_eqb(c[1], xorb(a[1], b[1]))
              /\ \A i \in 1 .. n - 1 :
                   assert_eqb(cy[i], IF i = 1 THEN andb(a[1], b[1]) ELSE maj(cy[i - 1], a[i], b[i]))
assert_checked_add(c, a, b) ==
  LET n == Len(a)
      carry_out == IF n = 1 THEN andb(a[1], b[1]) ELSE maj(xor3(a[n], b[n], c[n]), a[n], b[n])
  IN n # 0 => assert_wrapping_add(c, a, b) /\ assert_false(carry_out)

(***************************************************************************)
(* Reductions.                                                             *)
(***************************************************************************)
all(bits) == IF bits = <<>> THEN T ELSE tree_fold(bits, tree_andb)
any(bits) == IF bits = <<>> THEN Ff ELSE tree_fold(bits, tree_orb)
eqbits(a, b) == all([i \in DOMAIN a |-> eqb(a[i], b[i])])
neqbits(a, b) == notb(eqbits(a, b))
\* The bits of the mask that agree with a number.
eqmask(a, b, mask) ==
  all(For(<<>>, 1, Len(a), LAMBDA acc, i :
        IF Bit(mask, i - 1) = 0 THEN acc
        ELSE Append(acc, IF Bit(b, i - 1) = 1 THEN a[i] ELSE notb(a[i]))))
lt(a, b) ==
  IF a = <<>> THEN Ff ELSE tree_fold([i \in DOMAIN a |-> lt_base(a[i], b[i])], lt_reduce)[2]
leq(a, b) == notb(lt(b, a))
gt(a, b) == lt(b, a)
geq(a, b) == leq(b, a)
of_u64(n, z) == [i \in 1 .. n |-> konst(Bit(z, i - 1) = 1)]
zero(n) == of_u64(n, 0)
is_zero(a) == eqbits(a, zero(Len(a)))
Relation(op, a, b) ==
  CASE op = "eqb" -> eqbits(a, b) [] op = "neqb" -> neqbits(a, b) [] op = "lt" -> lt(a, b)
    [] op = "leq" -> leq(a, b) [] op = "gt" -> gt(a, b) [] op = "geq" -> geq(a, b)
relint(op, a, z) == Relation(op, a, of_u64(Len(a), z))

(***************************************************************************)
(* Bit by bit, and moves.                                                  *)
(***************************************************************************)
Gate2(op, x, y) ==
  CASE op = "andb" -> andb(x, y) [] op = "orb" -> orb(x, y) [] op = "xorb" -> xorb(x, y)
    [] op = "tree_xorb" -> tree_xorb(x, y) [] op = "eq" -> eqb(x, y) [] op = "ltb" -> ltb(x, y)
    [] op = "impliesb" -> impliesb(x, y) [] op = "or1" -> or_assuming_at_most_one_true(x, y)
Gate3(op, x, y, z) ==
  CASE op = "muxb" -> muxb(x, y, z) [] op = "xor3" -> xor3(x, y, z) [] op = "maj" -> maj(x, y, z)
    [] op = "chi_laneb" -> chi_laneb(x, y, z)
Lanes2(op, a, b) == [i \in DOMAIN a |-> Gate2(op, a[i], b[i])]
Lanes3(op, a, b, c) == [i \in DOMAIN a |-> Gate3(op, a[i], b[i], c[i])]
select(b, iftrue, iffalse) == [i \in DOMAIN iftrue |-> muxb(b, iftrue[i], iffalse[i])]
shl(s, a) == [i \in DOMAIN a |-> IF i > s THEN a[i - s] ELSE Ff]
shr(s, a) == [i \in DOMAIN a |-> IF i + s <= Len(a) THEN a[i + s] ELSE Ff]
rotr(s, a) == [i \in DOMAIN a |-> a[1 + ((i - 1 + s) % Len(a))]]
rotl(s, a) == [i \in DOMAIN a |-> a[1 + ((i - 1 - s) % Len(a))]]
Move(op, s, a) ==
  CASE op = "shl" -> shl(s, a) [] op = "shr" -> shr(s, a) [] op = "rotl" -> rotl(s, a) [] op = "rotr" -> rotr(s, a)
shl_safe(k, a) == <<shl(k, a), \A i \in Len(a) - k + 1 .. Len(a) : assert_false(a[i])>>
split(m, a) == <<SubSeq(a, 1, m), SubSeq(a, m + 1, Len(a))>>
zext(a, n) == [i \in 1 .. n |-> IF i <= Len(a) THEN a[i] ELSE Ff]
one_hot_mux(n, selector, data) == [j \in 1 .. n |-> one_hot_muxb(selector, [i \in DOMAIN data |-> data[i][j]])]
\* Bytes compared as numbers whose first byte is the most significant.
memcmp_leq(a, b) ==
  LET arrange(bytes) == Concat(1, Len(bytes), LAMBDA i : bytes[Len(bytes) + 1 - i])
  IN leq(arrange(a), arrange(b))

(***************************************************************************)
(* What they are for.                                                      *)
(***************************************************************************)
Value(a) == SumOver(1, Len(a), LAMBDA i : (IF Truth(a[i]) THEN 1 ELSE 0) * 2^(i - 1))
AreBits(a) == \A i \in DOMAIN a : Holds(a[i], Truth(a[i])) /\ as_eltw(a[i]) \in {0, 1}
Means(a, z) == AreBits(a) /\ Value(a) = z
MeansBit(w, b) == Holds(w, b)

SumsRight(a, b) ==
  LET m == 2^Len(a)
      x == Value(a)
      y == Value(b)
  IN /\ Means(wrapping_add(a, b), (x + y) % m) /\ Means(wrapping_sub(a, b), (x - y) % m)
     /\ MeansBit(Adder("unchecked_add", a, b)[2], x + y >= m)
     /\ MeansBit(Adder("unchecked_sub", a, b)[2], x < y)
     /\ Adder("checked_add", a, b)[2] = (x + y < m) /\ Adder("checked_sub", a, b)[2] = (x >= y)
     /\ \A z \in 0 .. m - 1 :
          LET c == of_u64(Len(a), z)
              p == [i \in DOMAIN a |-> positive(c[i])]
          IN /\ assert_wrapping_add(p, a, b) = (z = (x + y) % m)
             /\ assert_checked_add(p, a, b) = (z = x + y)
             /\ assert_wrapping_add(c, a, b) = (z = (x + y) % m)
ComparesRight(a, b) ==
  LET x == Value(a)
      y == Value(b)
      n == Len(a)
  IN /\ \A z \in {a, b} : MeansBit(is_zero(z), Value(z) = 0) /\ MeansBit(any(z), Value(z) # 0)
                          /\ MeansBit(all(z), Value(z) = 2^n - 1)
     /\ MeansBit(Relation("eqb", a, b), x = y) /\ MeansBit(Relation("neqb", a, b), x # y)
     /\ MeansBit(Relation("lt", a, b), x < y) /\ MeansBit(Relation("leq", a, b), x <= y)
     /\ MeansBit(Relation("gt", a, b), x > y) /\ MeansBit(Relation("geq", a, b), x >= y)
     /\ \A mask \in 0 .. 2^n - 1 :
          MeansBit(eqmask(a, y, mask), \A i \in 0 .. n - 1 : Bit(mask, i) = 1 => Bit(x, i) = Bit(y, i))
     /\ assert_eq(a, b) = (x = y)
     /\ assert_exactly_one(a) = (x \in {2^i : i \in 0 .. n - 1})
     /\ MeansBit(memcmp_leq(<<a, b>>, <<b, a>>), x <= y)
LanesRight(a, b) ==
  \A i \in DOMAIN a :
    LET p == Truth(a[i])
        q == Truth(b[i])
        Lane(op) == Lanes2(op, a, b)[i]
        Lane3(op) == Lanes3(op, a, b, a)[i]
    IN /\ Holds(Lane("andb"), p /\ q) /\ Holds(Lane("orb"), p \/ q) /\ Holds(Lane("impliesb"), p => q)
       /\ Holds(Lane("xorb"), Xor(p, q)) /\ Holds(Lane("tree_xorb"), Xor(p, q)) /\ Holds(Lane("eq"), p = q)
       /\ Holds(Lane("ltb"), ~p /\ q) /\ ~(p /\ q) => Holds(Lane("or1"), p \/ q)
       /\ Holds(Lane3("xor3"), q) /\ Holds(Lane3("maj"), p) /\ Holds(Lane3("muxb"), p /\ q)
       /\ Holds(Lane3("chi_laneb"), Xor(p, ~q /\ p)) /\ Holds(select(a[1], a, b)[i], IF Truth(a[1]) THEN p ELSE q)
       /\ Holds(one_hot_mux(Len(a), <<a[1], notb(a[1])>>, <<a, b>>)[i],
                IF Truth(a[1]) THEN p ELSE q)
MovesRight(a) ==
  LET n == Len(a)
      x == Value(a)
  IN /\ \A s \in 0 .. n + 1 :
          /\ Means(Move("shl", s, a), (x * 2^s) % 2^n) /\ Means(Move("shr", s, a), x \div 2^s)
          /\ Move("rotl", s, Move("rotr", s, a)) = a
          /\ Means(Move("rotl", s, a), LET t == s % n IN ((x * 2^t) % 2^n) + x \div 2^(n - t))
          /\ s < n => shl_safe(s, a)[2] = (x * 2^s < 2^n)
          /\ s <= n => Means(split(s, a)[1], x % 2^s) /\ Means(split(s, a)[2], x \div 2^s)
     /\ Means(zext(a, n + 1), x)
     /\ n <= F.dim => \A b \in {of_u64(n, z) : z \in 0 .. 2^n - 1} :
                        (as_eltw_field(a) = as_eltw_field(b)) = (Value(b) = x)
     /\ (Binary => n <= F.dim) => as_eltw_unsafe(a) = (IF Binary THEN x ELSE x % F.q)
=============================================================================
