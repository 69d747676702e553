---------------------------- MODULE FiniteField ----------------------------
(***************************************************************************)
(* The fields circuits are compiled over: integers modulo a prime          *)
(* (compile/algebra/fp.rs) and polynomials over GF(2) modulo an            *)
(* irreducible one (compile/algebra/gf2_128.rs, core/algebra/gf2_128.rs,   *)
(* where the degree is 128).  Prime, degree and polynomial are parameters. *)
(* A field is a record of tables, which the circuits take as a constant.   *)
(***************************************************************************)
EXTENDS Integers, Sequences, FiniteSets, Loops

\* The number of significant bits of a positive number.
BitLength(x) == CHOOSE b \in 1 .. 31 : 2^(b - 1) <= x /\ x < 2^b

(***************************************************************************)
(* A prime field.                                                          *)
(***************************************************************************)
fp_add(p, a, b) == (a + b) % p
fp_sub(p, a, b) == IF a >= b THEN a - b ELSE p - (b - a)
fp_mul(p, a, b) == (a * b) % p
\* Fermat: a^(p - 2), by squaring over the bits of the exponent.
fp_invert(p, a) ==
  For(1, 1, BitLength(p), LAMBDA acc, i :
    LET sq == fp_mul(p, acc, acc) IN IF Bit(p - 2, BitLength(p) - i) = 1 THEN fp_mul(p, sq, a) ELSE sq)
fp_dimension(p) == BitLength(p) - 1
fp_basis(p) == [i \in 1 .. fp_dimension(p) |-> 2^(i - 1) % p]
fp_group_dimension(p) == BitLength(p - 1) - 1
\* Points symmetric around zero; the field must hold them (2i < p).
fp_lookup_point(p, n, i) == fp_sub(p, 2 * i, n - 1)

(***************************************************************************)
(* A binary field of degree m; `low' is the polynomial without x^m.        *)
(***************************************************************************)
gf_mul(m, low, a, b) ==
  LET step(s, i) == [res  |-> IF Bit(b, i) = 1 THEN XorBits(s.res, s.temp, m) ELSE s.res,
                     temp |-> LET t == (s.temp * 2) % 2^m
                              IN IF Bit(s.temp, m - 1) = 1 THEN XorBits(t, low, m) ELSE t]
  IN For([res |-> 0, temp |-> a], 0, m - 1, step).res
\* a^(2^m - 2): the product of a^2, a^4, ...
gf_invert(m, low, a) ==
  LET step(s, i) == [res  |-> IF i > 0 THEN gf_mul(m, low, s.res, s.temp) ELSE s.res,
                     temp |-> gf_mul(m, low, s.temp, s.temp)]
  IN For([res |-> 1, temp |-> a], 0, m - 1, step).res

\* The multiplication instruction: a product of two words of h bits without
\* carries, as a low and a high word.
clmul(h, x, y) ==
  LET p == For(0, 0, h - 1, LAMBDA acc, i : IF Bit(y, i) = 1 THEN XorBits(acc, x * 2^i, 2 * h) ELSE acc)
  IN <<p % 2^h, p \div 2^h>>
\* a + b x^h modulo the polynomial, all in words of h = m/2 bits.
reduce(h, low, a, b) ==
  LET taps == {t \in 0 .. h - 1 : Bit(low, t) = 1}
      left  == [t \in 0 .. h - 1 |-> (b[2] * 2^t) % 2^h]
      right == [t \in 0 .. h - 1 |-> b[2] \div 2^(h - t)]
      XorAll(f, start) == For(start, 0, h - 1, LAMBDA acc, t : IF t \in taps THEN XorBits(acc, f[t], h) ELSE acc)
  IN <<XorAll(left, a[1]), XorAll(right, XorBits(a[2], b[1], h))>>
\* Karatsuba's product of two elements, on machines with the instruction.
mul_pclmul(m, low, x, y) ==
  LET h  == m \div 2
      xl == x % 2^h
      xh == x \div 2^h
      yl == y % 2^h
      yh == y \div 2^h
      t0 == clmul(h, xl, yl)
      t2 == clmul(h, xh, yh)
      t1 == clmul(h, XorBits(xl, xh, h), XorBits(yl, yh, h))
      mid == [i \in 1 .. 2 |-> XorBits(XorBits(t1[i], t0[i], h), t2[i], h)]
      top == reduce(h, low, mid, t2)
      r   == reduce(h, low, t0, top)
  IN r[1] + r[2] * 2^h
\* Cantor points: the sum of the basis elements of the bits of the index.
gf_lookup_point(m, basis, i) ==
  For(0, 1, Len(basis), LAMBDA acc, j : IF Bit(i, j - 1) = 1 THEN XorBits(acc, basis[j], m) ELSE acc)

(***************************************************************************)
(* Elements as little-endian words of w bits.                              *)
(***************************************************************************)
to_bytes_into(w, len, x) == [i \in 1 .. len |-> (x \div 2^(w * (i - 1))) % 2^w]
FromWords(w, words) == SumOver(1, Len(words), LAMBDA i : words[i] * 2^(w * (i - 1)))
Rejected == "Err"
fp_bytes_to_element(w, p, len, words) ==
  IF Len(words) # len THEN Rejected
  ELSE IF FromWords(w, words) >= p THEN Rejected ELSE FromWords(w, words)
gf_bytes_to_element(w, len, words) == IF Len(words) # len THEN Rejected ELSE FromWords(w, words)

(***************************************************************************)
(* The tables.  Elements are 0 .. q - 1, so entry x + 1 is for x.          *)
(***************************************************************************)
Table2(q, f(_, _)) == [x \in 1 .. q |-> [y \in 1 .. q |-> f(x - 1, y - 1)]]
MaxPoints == 10     \* bound on the tables of lookup points
FpField(p) ==
  [q     |-> p, char |-> p, dim |-> fp_dimension(p), gdim |-> fp_group_dimension(p),
   add   |-> Table2(p, LAMBDA x, y : fp_add(p, x, y)),
   sub   |-> Table2(p, LAMBDA x, y : fp_sub(p, x, y)),
   mul   |-> Table2(p, LAMBDA x, y : fp_mul(p, x, y)),
   inv   |-> [x \in 1 .. p - 1 |-> fp_invert(p, x)],
   basis |-> fp_basis(p),
   point |-> [n \in 1 .. MaxPoints |-> [i \in 1 .. n |-> IF 2 * n <= p THEN fp_lookup_point(p, n, i - 1) ELSE -1]]]
BinaryField(m, low, cantor) ==
  [q     |-> 2^m, char |-> 2, dim |-> m, gdim |-> m,
   add   |-> Table2(2^m, LAMBDA x, y : XorBits(x, y, m)),
   sub   |-> Table2(2^m, LAMBDA x, y : XorBits(x, y, m)),
   mul   |-> Table2(2^m, LAMBDA x, y : gf_mul(m, low, x, y)),
   inv   |-> [x \in 1 .. 2^m - 1 |-> gf_invert(m, low, x)],
   basis |-> [i \in 1 .. m |-> 2^(i - 1)],
   point |-> [n \in 1 .. MaxPoints |-> [i \in 1 .. n |-> gf_lookup_point(m, cantor, i - 1)]]]
=============================================================================
