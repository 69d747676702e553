--------------------------- MODULE BinaryProducts ---------------------------
(***************************************************************************)
(* The binary field of the runtime (runtime/algebra/gf2_128.rs), whose     *)
(* products are computed differently on every machine (arch/generic.rs,    *)
(* x86_64.rs, aarch64.rs, arm_neon.rs).  The degree is two words of h      *)
(* bits; `low' is the polynomial without its highest term; a byte has b    *)
(* bits and holds `low'; the portable product has g classes of bits.       *)
(***************************************************************************)
EXTENDS Integers, Sequences, SequencesExt, Loops

CONSTANTS h, low, b, g

Lo(x) == x % 2^h
Hi(x) == x \div 2^h
Xor(x, y) == XorBits(x, y, 2 * h)
\* A shift to the left by a word, in two words.
ShiftWord(x) == Lo(x) * 2^h

(***************************************************************************)
(* The portable product: integer products of every g-th bit have room for  *)
(* their carries between two bits of a class.                              *)
(***************************************************************************)
Masked(x, k) == SumOver(0, h - 1, LAMBDA i : IF i % g = k THEN Bit(x, i) * 2^i ELSE 0)
clmul64_lo(x, y) ==
  LET xs == Build(g, LAMBDA k : Masked(x, k - 1))
      ys == Build(g, LAMBDA k : Masked(y, k - 1))
      z(k) == For(0, 1, g, LAMBDA acc, i : XorBits(acc, (xs[i] * ys[((k - i) % g) + 1]) % 2^h, h))
  IN SumOver(0, g - 1, LAMBDA k : Masked(z(k + 1), k))
reverse_bits(x) == SumOver(0, h - 1, LAMBDA i : Bit(x, i) * 2^(h - 1 - i))
\* Mutant: the reversed product is one bit too high.
clmul64_hi_Unshifted(x, y) == reverse_bits(clmul64_lo(reverse_bits(x), reverse_bits(y)))
clmul64_hi(x, y) == reverse_bits(clmul64_lo(reverse_bits(x), reverse_bits(y))) \div 2
clmul64(x, y) == clmul64_lo(x, y) + clmul64_hi(x, y) * 2^h

\* a + t x^h modulo the polynomial, with shifts.
reduce_generic(a, t) ==
  LET taps(f(_)) == For(0, 0, b - 1, LAMBDA acc, i : IF Bit(low, i) = 1 THEN XorBits(acc, f(i), h) ELSE acc)
      r0 == XorBits(Lo(a), taps(LAMBDA i : (Hi(t) * 2^i) % 2^h), h)
      r1 == XorBits(XorBits(Hi(a), Lo(t), h), taps(LAMBDA i : Hi(t) \div 2^(h - i)), h)
  IN r0 + r1 * 2^h
\* Karatsuba: three products of words.
mul_generic(x, y) ==
  LET t0 == clmul64(Lo(x), Lo(y))
      t2 == clmul64(Hi(x), Hi(y))
      t1 == clmul64(XorBits(Lo(x), Hi(x), h), XorBits(Lo(y), Hi(y), h))
  IN reduce_generic(t0, reduce_generic(Xor(t1, Xor(t0, t2)), t2))
mac_generic(acc, x, y) == Xor(acc, mul_generic(x, y))

(***************************************************************************)
(* Machines with a product of words without carries.                       *)
(***************************************************************************)
clmulepi64(x, y) ==
  Strictly(<<x, y>>, LAMBDA p : For(0, 0, h - 1, LAMBDA acc, i : IF Bit(p[2], i) = 1 THEN Xor(acc, p[1] * 2^i) ELSE acc))
\* Mutant: the low word of a part is reduced instead of the high one.
reduce_x86_Low(z0, z12, z3) ==
  LET t == Xor(z12, Xor(ShiftWord(z3), clmulepi64(Lo(z3), low))) IN Xor(z0, Xor(ShiftWord(t), clmulepi64(Hi(t), low)))
reduce_x86(z0, z12, z3) ==
  LET t == Xor(z12, Xor(ShiftWord(z3), clmulepi64(Hi(z3), low)))
  IN Xor(z0, Xor(ShiftWord(t), clmulepi64(Hi(t), low)))
\* The three parts of a product, by four products of words.
parts_x86(x, y) ==
  <<clmulepi64(Lo(x), Lo(y)), Xor(clmulepi64(Hi(x), Lo(y)), clmulepi64(Lo(x), Hi(y))), clmulepi64(Hi(x), Hi(y))>>
mul_x86(x, y) == LET z == parts_x86(x, y) IN reduce_x86(z[1], z[2], z[3])
\* A sum of products is kept in parts and reduced once.
mac_x86(acc, x, y) == LET z == parts_x86(x, y) IN <<Xor(acc[1], z[1]), Xor(acc[2], z[2]), Xor(acc[3], z[3])>>
accum_reduce_x86(acc) == reduce_x86(acc[1], acc[2], acc[3])

\* The same with the words of one factor exchanged.
ext_poly_1(x, y) == Hi(x) + Lo(y) * 2^h
vmull_low(x, y) == clmulepi64(Lo(x), Lo(y))
vmull_high(x, y) == clmulepi64(Hi(x), Hi(y))
reduce_aarch64(t0, t1) == Xor(Xor(t0, ext_poly_1(0, t1)), vmull_high(t1, low * 2^h))
parts_aarch64(x, y) ==
  LET swx == ext_poly_1(x, x) IN <<vmull_low(x, y), Xor(vmull_low(swx, y), vmull_high(swx, y)), vmull_high(x, y)>>
mul_aarch64(x, y) == LET t == parts_aarch64(x, y) IN reduce_aarch64(t[1], reduce_aarch64(t[2], t[3]))
mac_aarch64(acc, x, y) == LET t == parts_aarch64(x, y) IN <<Xor(acc[1], t[1]), Xor(acc[2], t[2]), Xor(acc[3], t[3])>>
accum_reduce_aarch64(acc) == reduce_aarch64(acc[1], reduce_aarch64(acc[2], acc[3]))

(***************************************************************************)
(* Machines with products of bytes only: vectors of bytes, of one word or  *)
(* of two.                                                                 *)
(***************************************************************************)
Bytes(n, x) == Build(n, LAMBDA i : (x \div 2^(b * (i - 1))) % 2^b)
OfBytes(v) == SumOver(1, Len(v), LAMBDA i : v[i] * 2^(b * (i - 1)))
n8 == h \div b
xor_p8(u, v) == Build(Len(u), LAMBDA i : XorBits(u[i], v[i], b))
\* Bytes n, n + 1, ... of a vector, around its end.
ext_p8(n, v) == Build(Len(v), LAMBDA i : v[((i + n - 1) % Len(v)) + 1])
mul_p8(x, y) == For(0, 0, b - 1, LAMBDA acc, i : IF Bit(y, i) = 1 THEN XorBits(acc, x * 2^i, 2 * b) ELSE acc)
\* The low bytes and the high bytes of the products with one byte, each
\* followed by zeros.
unzip(x, y) ==
  LET p == Build(n8, LAMBDA i : mul_p8(x[i], y))
  IN <<Build(2 * n8, LAMBDA i : IF i <= n8 THEN p[i] % 2^b ELSE 0), Build(2 * n8, LAMBDA i : IF i <= n8 THEN p[i] \div 2^b ELSE 0)>>
pmac64x8(cin, x, y) == LET u == unzip(x, y) IN <<xor_p8(u[1], cin), u[2]>>
pmul64x8(x, y) == LET u == unzip(x, y) IN xor_p8(u[1], ext_p8(2 * n8 - 1, u[2]))
\* The high bytes of a product are added to the low bytes of the next one.
pmul64x64(x, y) ==
  LET zero  == Bytes(2 * n8, 0)
      first == pmac64x8(zero, x, y[1])
      all   == For([prod |-> first, r |-> first[1]], 2, n8, LAMBDA s, i :
                 LET p == pmac64x8(s.prod[2], x, y[i]) IN [prod |-> p, r |-> xor_p8(s.r, ext_p8(2 * n8 + 1 - i, p[1]))])
  IN OfBytes(xor_p8(all.r, ext_p8(n8, all.prod[2])))
reduce_neon(z0, z12, z3) ==
  LET t == Xor(z12, Xor(ShiftWord(z3), OfBytes(pmul64x8(Bytes(n8, Hi(z3)), low))))
  IN Xor(z0, Xor(ShiftWord(t), OfBytes(pmul64x8(Bytes(n8, Hi(t)), low))))
parts_neon(x, y) ==
  LET P(u, v) == pmul64x64(Bytes(n8, u), Bytes(n8, v))
  IN <<P(Lo(x), Lo(y)), Xor(P(Lo(x), Hi(y)), P(Hi(x), Lo(y))), P(Hi(x), Hi(y))>>
mul_neon(x, y) == LET z == parts_neon(x, y) IN reduce_neon(z[1], z[2], z[3])
mac_neon(acc, x, y) == LET z == parts_neon(x, y) IN <<Xor(acc[1], z[1]), Xor(acc[2], z[2]), Xor(acc[3], z[3])>>

(***************************************************************************)
(* The field.                                                              *)
(***************************************************************************)
\* x^-1: the polynomial shifted down.
XINV == low \div 2 + 2^(2 * h - 1)
\* Binary greatest common divisor; bm1ox is (b - 1) / x, so that the
\* polynomial itself, which has one bit more than an element, fits.
invert(e) ==
  LET step(s, i) ==
        IF s.a = 0 THEN s
        ELSE LET atmp == s.a \div 2 IN
          IF s.a % 2 = 0 THEN [s EXCEPT !.a = atmp, !.u = mul_x86(XINV, @)]
          ELSE LET o == IF atmp < s.b THEN [a |-> s.b, b |-> atmp, u |-> s.v, v |-> s.u]
                        ELSE [a |-> atmp, b |-> s.b, u |-> s.u, v |-> s.v]
               IN [a |-> Xor(o.a, o.b), b |-> o.b, u |-> mul_x86(XINV, Xor(o.u, o.v)), v |-> o.v]
  IN For([a |-> e, b |-> XINV, u |-> 1, v |-> 0], 1, 4 * h, step).v
\* Denominators of divided differences, in the order of their use.
newton_denominators(points) ==
  [k \in 2 .. Len(points) |-> [i \in 1 .. k - 1 |-> invert(Xor(points[k], points[k - i]))]]
to_words64(e) == <<Lo(e), Hi(e)>>
words64_to_element(words) == words[1] + words[2] * 2^h
\* Bytes of either order of the memory: fixed to the least significant first.
to_bytes(e) == Bytes(2 * n8, e)
bytes_to_element(bytes) == OfBytes(bytes)
\* Points of the Cantor basis.
lookup_point(basis, i) == For(0, 1, Len(basis), LAMBDA pt, j : IF Bit(i, j - 1) = 1 THEN Xor(pt, basis[j]) ELSE pt)

(***************************************************************************)
(* What must hold of them.                                                 *)
(***************************************************************************)
\* The product of two polynomials, and of elements, by definition.
Product(x, y, n) == For(0, 0, n - 1, LAMBDA acc, i : IF Bit(y, i) = 1 THEN XorBits(acc, x * 2^i, 2 * n) ELSE acc)
FieldProduct(x, y) ==
  For(0, 1, 2 * h, LAMBDA acc, i :
    LET d == (acc * 2) % 2^(2 * h)
        r == IF acc \div 2^(2 * h - 1) = 1 THEN Xor(d, low) ELSE d
    IN IF Bit(y, 2 * h - i) = 1 THEN Xor(r, x) ELSE r)
\* Products of words agree.
WordsRight(x, y) ==
  LET p == Product(x, y, h)
  IN clmul64(x, y) = p /\ clmulepi64(x, y) = p /\ (h % b = 0 => pmul64x64(Bytes(n8, x), Bytes(n8, y)) = p)
\* Products of elements on all machines agree, and sums of them.
MachinesAgree(x, y) ==
  LET p == FieldProduct(x, y)
      q == FieldProduct(y, y)
      zero == <<0, 0, 0>>
  IN /\ mul_generic(x, y) = p /\ mul_x86(x, y) = p /\ mul_aarch64(x, y) = p /\ mul_neon(x, y) = p
     /\ mac_generic(mac_generic(0, x, y), y, y) = Xor(p, q)
     /\ accum_reduce_x86(mac_x86(mac_x86(zero, x, y), y, y)) = Xor(p, q)
     /\ accum_reduce_aarch64(mac_aarch64(mac_aarch64(zero, x, y), y, y)) = Xor(p, q)
     /\ LET acc == mac_neon(mac_neon(zero, x, y), y, y) IN reduce_neon(acc[1], acc[2], acc[3]) = Xor(p, q)
InverseRight(x) == x # 0 => FieldProduct(x, invert(x)) = 1
\* The points of lookups are all different, and every denominator is right.
PointsRight(basis, n) ==
  LET points == Build(n, LAMBDA i : lookup_point(basis, i - 1))
      dens   == newton_denominators(points)
  IN /\ \A i, j \in 1 .. n : points[i] = points[j] => i = j
     /\ \A k \in 2 .. n : \A i \in 1 .. k - 1 : FieldProduct(dens[k][i], Xor(points[k], points[k - i])) = 1
ConversionsRight(x) ==
  /\ words64_to_element(to_words64(x)) = x
  /\ bytes_to_element(to_bytes(x)) = x
  /\ XINV = invert(2)
=============================================================================
