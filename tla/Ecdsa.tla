------------------------------- MODULE Ecdsa -------------------------------
(***************************************************************************)
(* Points of a curve of prime order (core/algebra/ec.rs, circuits/ec) and  *)
(* the check of a signature on it (circuits/ecdsa2), as one sum of three   *)
(* multiples that must be the point at infinity.                           *)
(***************************************************************************)
EXTENDS AnalogCircuit

CONSTANTS Curve,     \* a, b, the generator g and its order
          Inverses,  \* inverses modulo the order
          NumBits    \* bits of a number (256 in the code)

(***************************************************************************)
(* Points as the witness is computed with them, <<x, y, z>> projectively.  *)
(***************************************************************************)
ec_zero == <<0, 1, 0>>
projective(pt) == <<pt[1], pt[2], 1>>
\* The code panics on the inverse of zero; see Panics below.
inverse(x) == IF x = 0 THEN 0 ELSE invert(x)
affine(p) == LET zinv == inverse(p[3]) IN <<mul(p[1], zinv), mul(p[2], zinv)>>
k3b == add(Curve.b, add(Curve.b, Curve.b))
ec_add(p1, p2) ==
  LET t0 == mul(p1[1], p2[1])
      t1 == mul(p1[2], p2[2])
      t2 == mul(p1[3], p2[3])
      t3 == subt(mul(add(p1[1], p1[2]), add(p2[1], p2[2])), add(t0, t1))
      t4 == subt(mul(add(p1[1], p1[3]), add(p2[1], p2[3])), add(t0, t2))
      t5 == subt(mul(add(p1[2], p1[3]), add(p2[2], p2[3])), add(t1, t2))
      z  == add(mul(k3b, t2), mul(Curve.a, t4))
      at == mul(Curve.a, t2)
      u  == add(add(add(t0, t0), t0), at)
      v  == add(mul(k3b, t4), mul(Curve.a, subt(t0, at)))
  IN <<subt(mul(t3, subt(t1, z)), mul(t5, v)), add(mul(subt(t1, z), add(t1, z)), mul(u, v)), add(mul(t5, add(t1, z)), mul(t3, u))>>
ec_double(p) ==
  LET t0 == mul(p[1], p[1])
      t1 == mul(p[2], p[2])
      t2 == mul(p[3], p[3])
      xy == add(mul(p[1], p[2]), mul(p[1], p[2]))
      xz == add(mul(p[1], p[3]), mul(p[1], p[3]))
      yz == add(mul(p[2], p[3]), mul(p[2], p[3]))
      s  == add(mul(Curve.a, xz), mul(k3b, t2))
      at == mul(Curve.a, t2)
      v  == add(mul(Curve.a, subt(t0, at)), mul(k3b, xz))
      u  == add(add(add(t0, t0), t0), at)
      w  == mul(yz, t1)
  IN <<subt(mul(xy, subt(t1, s)), mul(yz, v)), add(mul(subt(t1, s), add(t1, s)), mul(u, v)), add(add(w, w), add(w, w))>>
\* A defect: the point is doubled before it is added.
scalar_mul_Early(n, scalar, pt) ==
  For([res |-> ec_zero, temp |-> pt], 0, n - 1, LAMBDA s, i :
    [res |-> IF Bit(scalar, i) = 1 THEN ec_add(s.res, ec_double(s.temp)) ELSE s.res, temp |-> ec_double(s.temp)]).res
scalar_mul(n, scalar, pt) ==
  For([res |-> ec_zero, temp |-> pt], 0, n - 1, LAMBDA s, i :
    [res |-> IF Bit(scalar, i) = 1 THEN ec_add(s.res, s.temp) ELSE s.res, temp |-> ec_double(s.temp)]).res
scalar_mul_bytes(bytes, pt) ==
  LET bit(s, byte, i) == [res |-> IF Bit(byte, i) = 1 THEN ec_add(s.res, s.temp) ELSE s.res, temp |-> ec_double(s.temp)]
  IN ForEach([res |-> ec_zero, temp |-> pt], bytes, LAMBDA s, byte : For(s, 0, 7, LAMBDA t, i : bit(t, byte, i))).res

(***************************************************************************)
(* Points in the circuit.                                                  *)
(***************************************************************************)
\* Both ways through the formulas must stay the same: the sum of products of
\* the circuit, with the cross terms as they are.
circuit_add(p1, p2) ==
  LET cross(i, j) == subt(mul(add(p1[i], p1[j]), add(p2[i], p2[j])), add(mul(p1[i], p2[i]), mul(p1[j], p2[j])))
      xx == mul(p1[1], p2[1])
      yy == mul(p1[2], p2[2])
      zz == mul(p1[3], p2[3])
      z3 == add(mul(k3b, zz), mul(Curve.a, cross(1, 3)))
      t1 == add(sum(<<xx, xx, xx>>), mul(Curve.a, zz))
      t4 == add(mul(k3b, cross(1, 3)), mul(Curve.a, subt(xx, mul(Curve.a, zz))))
  IN <<subt(mul(cross(1, 2), subt(yy, z3)), mul(cross(2, 3), t4)),
       add(mul(subt(yy, z3), add(yy, z3)), mul(t1, t4)),
       add(mul(cross(2, 3), add(yy, z3)), mul(cross(1, 2), t1))>>
circuit_double(p) ==
  LET twice(i, j) == LET m == mul(p[i], p[j]) IN add(m, m)
      sq(i) == mul(p[i], p[i])
      y3 == add(mul(Curve.a, twice(1, 3)), mul(k3b, sq(3)))
      t3 == add(mul(Curve.a, subt(sq(1), mul(Curve.a, sq(3)))), mul(k3b, twice(1, 3)))
      t0 == add(sum(<<sq(1), sq(1), sq(1)>>), mul(Curve.a, sq(3)))
      z3 == mul(twice(2, 3), sq(2))
  IN <<subt(mul(twice(1, 2), subt(sq(2), y3)), mul(twice(2, 3), t3)),
       add(mul(subt(sq(2), y3), add(sq(2), y3)), mul(t0, t3)), add(add(z3, z3), add(z3, z3))>>
assert_inverse(x, y) == mul(x, y) = 1
point_equality(pt, zinv, px) == mul(pt[1], zinv) = px[1] /\ mul(pt[2], zinv) = px[2] /\ assert_inverse(pt[3], zinv)
is_on_curve(pt) ==
  assert0(subt(mul(pt[2], pt[2]), sum(<<mul(mul(pt[1], pt[1]), pt[1]), mul(Curve.a, pt[1]), Curve.b>>)))
\* A witness in place of a computed point, with the assertion that it is it.
slicing2(w, pt) == [pt |-> projective(w), ok |-> pt[1] = mul(pt[3], w[1]) /\ pt[2] = mul(pt[3], w[2])]
slicing3(w, pt) == [pt |-> w, ok |-> w = pt]

(***************************************************************************)
(* The group, by chords and tangents; the point at infinity is <<>>.       *)
(***************************************************************************)
O == <<>>
Points == {O} \cup {pt \in (0 .. F.q - 1) \X (0 .. F.q - 1) : is_on_curve(pt)}
Opposite(A) == IF A = O THEN O ELSE <<A[1], neg(A[2])>>
Plus(A, B) ==
  LET slope == IF A = B THEN mul(add(mul(3, mul(A[1], A[1])), Curve.a), invert(add(A[2], A[2])))
               ELSE mul(subt(B[2], A[2]), invert(subt(B[1], A[1])))
      x == subt(mul(slope, slope), add(A[1], B[1]))
  IN IF A = O THEN B ELSE IF B = O THEN A ELSE IF B = Opposite(A) THEN O
     ELSE <<x, subt(mul(slope, subt(A[1], x)), A[2])>>
Times(k, A) == For(O, 1, k % Curve.order, LAMBDA acc, i : Plus(acc, A))
\* The point a projective triple stands for.
Meant(p) == IF p[3] = 0 THEN O ELSE affine(p)
Scaled(A, c) == IF A = O THEN <<0, c, 0>> ELSE <<mul(A[1], c), mul(A[2], c), c>>

\* The formulas are complete: they hold for equal, opposite and zero points,
\* whatever the third coordinate, in the circuit as in the witness.
PointsRight(A, B, c, k) ==
  LET p == Scaled(A, c)
      q == Scaled(B, 1)
  IN /\ Meant(ec_add(p, q)) = Plus(A, B) /\ circuit_add(p, q) = ec_add(p, q)
     /\ Meant(ec_double(p)) = Plus(A, A) /\ circuit_double(p) = ec_double(p)
     /\ Meant(scalar_mul(NumBits, k, p)) = Times(k, A) /\ Meant(scalar_mul_bytes(<<k>>, p)) = Times(k, A)
     /\ \A zinv \in 0 .. F.q - 1 : B # O => point_equality(p, zinv, B) = (A = B /\ zinv = invert(c))

(***************************************************************************)
(* Signatures: numbers e (of the message), r and s.                        *)
(***************************************************************************)
reduce_nat(x) == x % Curve.order
\* The point of which r is the first coordinate, and the opposite of s.
r_proj(pkxy, e, r, s) ==
  LET s_inv == Inverses[reduce_nat(s)]
      nes_g == scalar_mul(NumBits, reduce_nat(reduce_nat(e) * s_inv), projective(Curve.g))
      nrs_pk == scalar_mul(NumBits, reduce_nat(reduce_nat(r) * s_inv), projective(pkxy))
  IN ec_add(nes_g, nrs_pk)
Commitment(pkxy, e, r, s) == LET p == r_proj(pkxy, e, r, s) IN <<r % F.q, mul(p[2], inverse(p[3]))>>
nms(s) == reduce_nat(Curve.order - reduce_nat(s))
ers_index(e, r, m, i) == Bit(e, i) * 4 + Bit(r, i) * 2 + Bit(m, i)
GivenAt(pkxy, rxy, e, r, m) ==
  [pkxy |-> pkxy, e |-> e % F.q, rxy |-> rxy, ers |-> Build(NumBits, LAMBDA i : Point(9, ers_index(e, r, m, i - 1)))]
ecdsa_given(pkxy, e, r, s) == GivenAt(pkxy, Commitment(pkxy, e, r, s), e, r, nms(s))
DerivedAt(pkxy, rxy, e, r, m) ==
  LET pk == projective(pkxy)
      rp == projective(rxy)
      g  == projective(Curve.g)
      g_pk == affine(ec_add(g, pk))
      g_r == affine(ec_add(g, rp))
      pk_r == affine(ec_add(pk, rp))
      g_pk_r == affine(ec_add(g, projective(pk_r)))
      opts == <<ec_zero, rp, pk, projective(pk_r), g, projective(g_r), projective(g_pk), projective(g_pk_r)>>
      step(acc, j) == <<ec_add(ec_double(IF acc = <<>> THEN ec_zero ELSE acc[1]), opts[1 + ers_index(e, r, m, NumBits - j)])>> \o acc
      round == For(<<>>, 1, NumBits, step)
  IN [pkxinv |-> inverse(pkxy[1]), rxinv |-> inverse(rxy[1]), nmsinv |-> inverse(m % F.q), yinv |-> inverse(round[1][2]),
      g_pk |-> g_pk, g_r |-> g_r, pk_r |-> pk_r, g_pk_r |-> g_pk_r, round |-> round]
ecdsa_derived(pkxy, e, r, s) == DerivedAt(pkxy, Commitment(pkxy, e, r, s), e, r, nms(s))
\* Where the program panics on the way to its witness: whatever it inverts must
\* not be zero, s and the last coordinates of the points included.
Panics(pkxy, e, r, s) ==
  LET rxy == Commitment(pkxy, e, r, s)
      pk == projective(pkxy)
      rp == projective(rxy)
      g  == projective(Curve.g)
      pk_r == ec_add(pk, rp)
  IN \/ reduce_nat(s) = 0
     \/ r_proj(pkxy, e, r, s)[3] = 0
     \/ 0 \in {ec_add(g, pk)[3], ec_add(g, rp)[3], pk_r[3]}
     \/ 0 \in {ec_add(g, projective(affine(pk_r)))[3], pkxy[1], rxy[1], nms(s) % F.q, ecdsa_derived(pkxy, e, r, s).round[1][2]}

\* The tables of a round: a coordinate of the eight points, a bit of the
\* index, and that it is an index.
CoordinateTable(opts, j) == table(9, [idx \in 0 .. 8 |-> IF idx < 8 THEN opts[idx + 1][j] ELSE Absent])
BitTable(k) == table(9, [idx \in 0 .. 8 |-> IF idx < 8 THEN Bit(idx, k) ELSE Absent])
RangeTable == table(9, [idx \in 0 .. 8 |-> Delta(idx = 8)])
\* A defect: any number may stand for the first coordinate.
InRange_Loose(rx, m, order_bits) == assert_true(lt(m, order_bits))
InRange(rx, m, order_bits) == assert_true(lt(rx, order_bits)) /\ assert_true(lt(m, order_bits))
assert_signature(given, d) ==
  LET pk == projective(given.pkxy)
      r  == projective(given.rxy)
      g  == projective(Curve.g)
      g_pk == slicing2(d.g_pk, circuit_add(g, pk))
      g_r  == slicing2(d.g_r, circuit_add(g, r))
      pk_r == slicing2(d.pk_r, circuit_add(pk, r))
      g_pk_r == slicing2(d.g_pk_r, circuit_add(g, pk_r.pt))
      opts == <<ec_zero, r, pk, pk_r.pt, g, g_r.pt, g_pk.pt, g_pk_r.pt>>
      p == d.round[1]
  IN /\ g_pk.ok /\ g_r.ok /\ pk_r.ok /\ g_pk_r.ok
     /\ assert0(p[1]) /\ assert0(p[3]) /\ assert_inverse(p[2], d.yinv)
     /\ \A pt \in {given.pkxy, given.rxy, d.g_pk, d.g_r, d.pk_r, d.g_pk_r} : is_on_curve(pt)
     /\ assert_inverse(given.rxy[1], d.rxinv) /\ assert_inverse(given.pkxy[1], d.pkxinv)
     /\ Strictly([xyz |-> Build(3, LAMBDA j : CoordinateTable(opts, j)), bits |-> Build(3, LAMBDA j : BitTable(j - 1)), range |-> RangeTable], LAMBDA t :
          LET bits(k) == Build(NumBits, LAMBDA i : P(eval(t.bits[k + 1], given.ers[i])))
              before(i) == IF i = NumBits THEN ec_zero ELSE d.round[i + 1]
              b(i) == Build(3, LAMBDA j : eval(t.xyz[j], given.ers[i]))
          IN /\ \A i \in 1 .. NumBits : assert0(eval(t.range, given.ers[i]))
             /\ \A i \in 1 .. NumBits : slicing3(d.round[i], circuit_add(circuit_double(before(i)), b(i))).ok
             /\ given.rxy[1] = as_eltw_unsafe(bits(1)) /\ given.e = as_eltw_unsafe(bits(2))
             /\ assert_inverse(as_eltw_unsafe(bits(0)), d.nmsinv)
             /\ InRange(bits(1), bits(0), of_u64(NumBits, Curve.order)))

\* The signature as the standard verifies it.
Verifies(pk, e, r, s) ==
  /\ r \in 1 .. Curve.order - 1 /\ s \in 1 .. Curve.order - 1
  /\ LET R == Plus(Times(e * Inverses[s], Curve.g), Times(r * Inverses[s], pk)) IN R # O /\ reduce_nat(R[1]) = r

\* A claim is taken exactly when it is a signature of the number whose bits
\* it has and its point is the one the standard computes, except where the
\* program panics (two of the three points, or all of them, cancel, or a first
\* coordinate is zero): there no witness is computed and none is taken.
SignaturesRight(pk, R, e, r, m) ==
  LET s == Curve.order - m
      taken == assert_signature(GivenAt(pk, R, e, r, m), DerivedAt(pk, R, e, r, m))
  IN /\ taken = (/\ is_on_curve(pk) /\ is_on_curve(R) /\ r = R[1] /\ ~Panics(pk, e, r, s)
                 /\ s < Curve.order /\ Verifies(pk, e, r, s) /\ R = Plus(Times(e * Inverses[s], Curve.g), Times(r * Inverses[s], pk)))
     /\ taken => /\ GivenAt(pk, R, e, r, m) = ecdsa_given(pk, e, r, s)
                 /\ DerivedAt(pk, R, e, r, m) = ecdsa_derived(pk, e, r, s)
=============================================================================
