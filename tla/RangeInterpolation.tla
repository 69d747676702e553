------------------------- MODULE RangeInterpolation -------------------------
(***************************************************************************)
(* The transforms behind fast interpolation over a prime field: the        *)
(* quadratic extension by i (runtime/algebra/fp2.rs), the real transform   *)
(* and its inverse in half-complex layout (rfft.rs), and the transform     *)
(* over a field that has the roots itself (fft.rs).                        *)
(*                                                                         *)
(* An element of the extension is <<re, im>>.  An array is a sequence; the *)
(* code's index k is position k + 1.                                       *)
(***************************************************************************)
EXTENDS Integers, Sequences, Loops

CONSTANTS p,           \* the prime, 7 modulo 8 for the real transform
          omega,       \* a root of unity of the extension, of order
          omega_order

IsPowerOfTwo(n) == \E k \in 0 .. 30 : n = 2^k
assert_valid_orders(n, order) == IsPowerOfTwo(n) /\ IsPowerOfTwo(order) /\ n <= order

Add(x, y) == (x + y) % p
Sub(x, y) == (x + p - y) % p
Mul(x, y) == (x * y) % p
Neg(x) == Sub(0, x)
Double(x) == Add(x, x)

(***************************************************************************)
(* The extension.                                                          *)
(***************************************************************************)
one == <<1, 0>>
i_ == <<0, 1>>
\* Three products instead of four.
c_mul(x, y) ==
  LET re == Mul(x[1], y[1])
      im == Mul(x[2], y[2])
  IN <<Sub(re, im), Sub(Sub(Mul(Add(x[1], x[2]), Add(y[1], y[2])), re), im)>>
cmul_conj_Sign(x, y) ==
  LET re == Mul(x[1], y[1])
      im == Mul(x[2], y[2])
  IN <<Add(re, im), Sub(Sub(Mul(Add(x[1], x[2]), Sub(y[1], y[2])), re), im)>>
cmul_conj(x, y) ==
  LET re == Mul(x[1], y[1])
      im == Mul(x[2], y[2])
  IN <<Add(re, im), Add(Sub(Mul(Add(x[1], x[2]), Sub(y[1], y[2])), re), im)>>
c_add(x, y) == <<Add(x[1], y[1]), Add(x[2], y[2])>>
c_sub(x, y) == <<Sub(x[1], y[1]), Sub(x[2], y[2])>>
InverseMod(x) == CHOOSE y \in 1 .. p - 1 : Mul(x, y) = 1
c_invert(x) ==
  LET d == InverseMod(Add(Mul(x[1], x[1]), Mul(x[2], x[2])))
  IN <<Mul(x[1], d), Neg(Mul(x[2], d))>>

(***************************************************************************)
(* Roots, and the order of a transform's inputs.                           *)
(***************************************************************************)
Log2(n) == CHOOSE k \in 0 .. 30 : n = 2^k
reroot(root, n, r, mul(_, _)) == For(root, 1, Log2(n) - Log2(r), LAMBDA w, k : mul(w, w))
\* The powers 0, ..., order/2 - 1 of a root.
Twiddle(order, root, first, mul(_, _)) ==
  For(<<>>, 1, order \div 2, LAMBDA w, k : Append(w, IF k = 1 THEN first ELSE mul(w[k - 1], root)))

\* The counter of reversed bits: add one from the top.
NextReversed(n, revi) ==
  LET k == CHOOSE j \in 1 .. Log2(n) :
             Bit(revi, Log2(n) - j) = 0 /\ \A l \in 1 .. j - 1 : Bit(revi, Log2(n) - l) = 1
  IN (revi % 2^(Log2(n) - k)) + 2^(Log2(n) - k)
Swap(a, k, l) == [a EXCEPT ![k + 1] = a[l + 1], ![l + 1] = a[k + 1]]
bitrev_Twice(a) ==
  For([a |-> a, revi |-> 0], 0, Len(a) - 2, LAMBDA s, k :
    [a |-> Swap(s.a, k, s.revi), revi |-> NextReversed(Len(a), s.revi)]).a
bitrev(a) ==
  For([a |-> a, revi |-> 0], 0, Len(a) - 2, LAMBDA s, k :
    [a |-> IF k < s.revi THEN Swap(s.a, k, s.revi) ELSE s.a, revi |-> NextReversed(Len(a), s.revi)]).a

(***************************************************************************)
(* Butterflies on four elements, in place.                                 *)
(***************************************************************************)
At(a, k) == a[k + 1]
\* The array with new values at some indices: pairs of an index and a value.
Put(a, values) == ForEach(a, values, LAMBDA b, v : [b EXCEPT ![v[1] + 1] = v[2]])

r2hc_i_2(a, k, s) == Put(a, << <<k, Add(At(a, k), At(a, k + s))>>, <<k + s, Sub(At(a, k), At(a, k + s))>> >>)
r2hc_i_4(a, k, s) ==
  LET x0 == At(a, k)
      x1 == At(a, k + s)
      x2 == At(a, k + 2 * s)
      x3 == At(a, k + 3 * s)
  IN Put(a, << <<k, Add(Add(x0, x1), Add(x2, x3))>>, <<k + s, Sub(x0, x1)>>,
               <<k + 2 * s, Sub(Add(x0, x1), Add(x2, x3))>>, <<k + 3 * s, Sub(x3, x2)>> >>)
r2hc_ii_4(a, k, s, w8) ==
  LET x1 == At(a, k + s)
      z0 == Mul(Add(At(a, k + 2 * s), At(a, k + 3 * s)), w8[2])
      z1 == Mul(Sub(At(a, k + 2 * s), At(a, k + 3 * s)), w8[1])
  IN Put(a, << <<k, Add(At(a, k), z1)>>, <<k + s, Sub(At(a, k), z1)>>,
               <<k + 2 * s, Sub(x1, z0)>>, <<k + 3 * s, Neg(Add(x1, z0))>> >>)
Forward4(a, r, i, s, x1, x2, x3) ==
  LET x0 == <<At(a, r), At(a, i)>>
      y0 == c_add(x0, x1)
      y1 == c_sub(x0, x1)
      y2 == c_add(x3, x2)
      y3 == <<Sub(x3[1], x2[1]), Sub(x2[2], x3[2])>>
  IN Put(a, << <<r, Add(y0[1], y2[1])>>, <<i + s, Sub(y0[1], y2[1])>>,
               <<r + s, Add(y1[1], y3[2])>>, <<i, Sub(y1[1], y3[2])>>,
               <<i + 3 * s, Add(y2[2], y0[2])>>, <<r + 2 * s, Sub(y2[2], y0[2])>>,
               <<i + 2 * s, Add(y3[1], y1[2])>>, <<r + 3 * s, Sub(y3[1], y1[2])>> >>)
Pair(a, r, i, s, j) == <<At(a, r + j * s), At(a, i + j * s)>>
hc2hc_f_4_Order(a, r, i, s, tw1, tw2, tw3) ==
  Forward4(a, r, i, s, cmul_conj(Pair(a, r, i, s, 1), tw1), cmul_conj(Pair(a, r, i, s, 2), tw2), cmul_conj(Pair(a, r, i, s, 3), tw3))
\* The inputs are in bit-reversed order: the second twiddle belongs to input 1.
hc2hc_f_4(a, r, i, s, tw1, tw2, tw3) ==
  Forward4(a, r, i, s, cmul_conj(Pair(a, r, i, s, 1), tw2), cmul_conj(Pair(a, r, i, s, 2), tw1), cmul_conj(Pair(a, r, i, s, 3), tw3))

hc2r_i_4(a, k, s) ==
  LET y0 == Add(At(a, k), At(a, k + 2 * s))
      y1 == Sub(At(a, k), At(a, k + 2 * s))
      y2 == Double(At(a, k + s))
      y3 == Double(At(a, k + 3 * s))
  IN Put(a, << <<k, Add(y0, y2)>>, <<k + s, Sub(y0, y2)>>, <<k + 2 * s, Sub(y1, y3)>>, <<k + 3 * s, Add(y1, y3)>> >>)
hc2r_iii_4(a, k, s, w8) ==
  LET x0 == Double(At(a, k))
      x1 == Double(At(a, k + s))
      x2 == Double(At(a, k + 2 * s))
      x3 == Double(At(a, k + 3 * s))
      z0 == Mul(Sub(x0, x1), w8[1])
      z1 == Mul(Add(x3, x2), w8[2])
  IN Put(a, << <<k, Add(x0, x1)>>, <<k + s, Sub(x2, x3)>>, <<k + 2 * s, Sub(z0, z1)>>, <<k + 3 * s, Neg(Add(z0, z1))>> >>)
hc2hc_b_4(a, r, i, s, tw1, tw2, tw3) ==
  LET x(j) == Pair(a, r, i, s, j)
      z0 == Add(x(0)[1], x(1)[2])
      z1 == Sub(x(0)[1], x(1)[2])
      z2 == Add(x(1)[1], x(0)[2])
      z3 == Sub(x(1)[1], x(0)[2])
      z4 == Add(x(3)[2], x(2)[1])
      z5 == Sub(x(3)[2], x(2)[1])
      z6 == Add(x(2)[2], x(3)[1])
      z7 == Sub(x(2)[2], x(3)[1])
      y == <<<<Add(z0, z2), Add(z5, z7)>>,
             c_mul(<<Sub(z0, z2), Sub(z5, z7)>>, tw2),
             c_mul(<<Sub(z1, z6), Add(z4, z3)>>, tw1),
             c_mul(<<Add(z1, z6), Sub(z4, z3)>>, tw3)>>
  IN Put(a, [v \in 1 .. 8 |-> IF v <= 4 THEN <<r + (v - 1) * s, y[v][1]>> ELSE <<i + (v - 5) * s, y[v - 4][2]>>])

(***************************************************************************)
(* The transforms: a pass of small ones and passes of radix 4.  A pass     *)
(* works on chunks of the array; here the chunk is given by its offset.    *)
(***************************************************************************)
EveryChunk(a, size, f(_, _)) == For(a, 0, Len(a) \div size - 1, LAMBDA b, c : f(b, c * size))
\* The size of the transforms at the leaves.
Leaf(n) == IF Log2(n) % 2 = 1 THEN 2 ELSE 4
RadixPass(a, m, roots, edge(_, _, _), inner(_, _, _, _, _, _, _), middle(_, _, _, _)) ==
  LET ws == Len(a) \div (4 * m)
      w(j) == roots[j * ws + 1]
  IN EveryChunk(a, 4 * m, LAMBDA b, o :
       middle(For(edge(b, o, m), 1, m \div 2 - 1, LAMBDA d, j : inner(d, o + j, o + m - j, m, w(j), w(2 * j), w(3 * j))),
              o + m \div 2, m, w(m \div 2)))
RealRoots(n) == Twiddle(n, reroot(omega, omega_order, n, c_mul), one, c_mul)

r2hc(a) ==
  LET n == Len(a)
      roots == RealRoots(n)
      leaves == IF Leaf(n) = 2 THEN EveryChunk(bitrev(a), 2, LAMBDA b, o : r2hc_i_2(b, o, 1))
                               ELSE EveryChunk(bitrev(a), 4, LAMBDA b, o : r2hc_i_4(b, o, 1))
      passes == (Log2(n) - Log2(Leaf(n))) \div 2
  IN CASE n = 1 -> a
       [] n = 2 -> r2hc_i_2(a, 0, 1)
       [] OTHER -> For(leaves, 1, passes, LAMBDA b, k : RadixPass(b, Leaf(n) * 4^(k - 1), roots, r2hc_i_4, hc2hc_f_4, r2hc_ii_4))
hc2r(a) ==
  LET n == Len(a)
      roots == RealRoots(n)
      passes == (Log2(n) - Log2(Leaf(n))) \div 2
      merged == For(a, 1, passes, LAMBDA b, k : RadixPass(b, n \div 4^k, roots, hc2r_i_4, hc2hc_b_4, hc2r_iii_4))
  IN CASE n = 1 -> a
       [] n = 2 -> r2hc_i_2(a, 0, 1)
       [] OTHER -> bitrev(IF Leaf(n) = 2 THEN EveryChunk(merged, 2, LAMBDA b, o : r2hc_i_2(b, o, 1))
                                         ELSE EveryChunk(merged, 4, LAMBDA b, o : hc2r_i_4(b, o, 1)))

\* The transform with roots of the base field itself.
butterflytw(a, k, s, tw) ==
  LET t == Mul(At(a, k + s), tw) IN Put(a, << <<k, Add(At(a, k), t)>>, <<k + s, Sub(At(a, k), t)>> >>)
fftb(a, root, order) ==
  LET n == Len(a)
      roots == Twiddle(n, reroot(root, order, n, Mul), 1, Mul)
      pass(b, m) == EveryChunk(b, 2 * m, LAMBDA d, o :
                      For(d, 0, m - 1, LAMBDA e, k : butterflytw(e, o + k, m, roots[k * (n \div (2 * m)) + 1])))
  IN IF n = 1 THEN a ELSE For(bitrev(a), 1, Log2(n), LAMBDA b, k : pass(b, 2^(k - 1)))
fftf(a, root, order) == fftb(a, InverseMod(root), order)

(***************************************************************************)
(* What they are for.                                                      *)
(***************************************************************************)
\* The power k of a root of order n among the powers of omega.
Powers == For(<<one>>, 1, omega_order - 1, LAMBDA w, k :
  Append(w, <<(w[k][1] * omega[1] + (p - 1) * w[k][2] * omega[2]) % p, (w[k][1] * omega[2] + w[k][2] * omega[1]) % p>>))
RootPower(powers, n, k) == powers[((k * (omega_order \div n)) % omega_order) + 1]

\* Coefficient j of the transform of reals, with a minus sign in the exponent.
Spectrum(powers, a, j) ==
  LET n == Len(a)
      term(k) == RootPower(powers, n, (n - ((j * k) % n)) % n)
  IN <<SumOver(0, n - 1, LAMBDA k : At(a, k) * term(k)[1]) % p, SumOver(0, n - 1, LAMBDA k : At(a, k) * term(k)[2]) % p>>
HalfComplex(powers, a) ==
  Build(Len(a), LAMBDA k : IF 2 * (k - 1) <= Len(a) THEN Spectrum(powers, a, k - 1)[1] ELSE Spectrum(powers, a, Len(a) - k + 1)[2])

\* What the debug assertions ask of the root.
RootRight ==
  LET w(n) == reroot(omega, omega_order, n, c_mul)
  IN c_mul(omega, <<omega[1], Neg(omega[2])>>) = one /\ w(4) = i_ /\ w(8)[1] = w(8)[2]

ForwardRight(powers, a) == assert_valid_orders(Len(a), omega_order) /\ r2hc(a) = HalfComplex(powers, a)
BackwardRight(a) == hc2r(r2hc(a)) = Build(Len(a), LAMBDA k : Mul(a[k], Len(a)))
FieldTransformRight(a, root, order) ==
  LET n == Len(a)
      power == For(<<1>>, 1, order - 1, LAMBDA w, k : Append(w, (w[k] * root) % p))
      sum(j) == SumOver(0, n - 1, LAMBDA k : At(a, k) * power[((j * k * (order \div n)) % order) + 1]) % p
  IN /\ fftb(a, root, order) = Build(n, LAMBDA j : sum(j - 1))
     /\ fftf(fftb(a, root, order), root, order) = Build(n, LAMBDA k : (a[k] * n) % p)
ExtensionRight(x, y) ==
  /\ c_mul(x, y) = <<(x[1] * y[1] + (p - 1) * x[2] * y[2]) % p, (x[1] * y[2] + x[2] * y[1]) % p>>
  /\ cmul_conj(x, y) = c_mul(x, <<y[1], Neg(y[2])>>)
  /\ x # <<0, 0>> => c_mul(x, c_invert(x)) = one

-----------------------------------------------------------------------------
(***************************************************************************)
(* Interpolation from one range of points to another, over the points 0,   *)
(* 1, 2, ... of a prime field (runtime/algebra/range_interpolation: mod,   *)
(* arithmetic, scalar and quadratic_extension_fft; helpers of field.rs and *)
(* poly.rs).  Ligero and Polygero encode their rows with it.               *)
(*                                                                         *)
(* A range is <<start, end>> with the end outside.                         *)
(***************************************************************************)
Less(x, y) == IF x < y THEN x ELSE y
More(x, y) == IF x > y THEN x ELSE y
Length(r) == IF r[2] > r[1] THEN r[2] - r[1] ELSE 0
EmptyRange(r) == r[1] >= r[2]

(***************************************************************************)
(* Ranges.                                                                 *)
(***************************************************************************)
valid(source, destination, limit) ==
  source[1] < source[2] /\ source[2] <= limit /\ destination[1] <= destination[2] /\ destination[2] <= limit
outside(source, destination) ==
  LET before == <<destination[1], Less(destination[2], source[1])>>
      after  == <<More(destination[1], source[2]), destination[2]>>
  IN (IF EmptyRange(before) THEN <<>> ELSE <<before>>) \o (IF EmptyRange(after) THEN <<>> ELSE <<after>>)
needs_work(source, destination) == Length(source) > 1 /\ outside(source, destination) # <<>>
\* The destination with the values of the overlap.
copy_overlap(source, destination, values, zero) ==
  Build(Length(destination), LAMBDA k :
    LET j == destination[1] + k - 1 IN IF source[1] <= j /\ j < source[2] THEN values[j - source[1] + 1] ELSE zero)
\* What is known without work, and whether that is all.
trivial(source, destination, values, zero) ==
  IF Length(source) = 1
  THEN [done |-> TRUE, out |-> Build(Length(destination), LAMBDA k : values[1])]
  ELSE [done |-> EmptyRange(destination) \/ (destination[1] >= source[1] /\ destination[2] <= source[2]),
        out  |-> copy_overlap(source, destination, values, zero)]
difference(a, b) == IF a >= b THEN (a - b) % p ELSE Neg((b - a) % p)

\* One inversion for all: prefix products, then back.
batch_inverse(values) ==
  LET prefix == For(<<1>>, 1, Len(values), LAMBDA w, k : Append(w, Mul(w[k], values[k])))
      back == For([inv |-> InverseMod(prefix[Len(values) + 1]), out |-> <<>>], 1, Len(values), LAMBDA s, k :
                LET i == Len(values) + 1 - k
                IN [inv |-> Mul(s.inv, values[i]), out |-> <<Mul(s.inv, prefix[i])>> \o s.out])
  IN IF values = <<>> THEN <<>> ELSE back.out

(***************************************************************************)
(* Barycentric interpolation at consecutive points: weights, reciprocal    *)
(* kernels and falling factorials.                                         *)
(***************************************************************************)
source_weights(count) ==
  LET factorial == For(<<1>>, 1, count - 1, LAMBDA w, i : Append(w, Mul(w[i], i % p)))
      inverses == batch_inverse(Build(count, LAMBDA i : Mul(factorial[i], factorial[count + 1 - i])))
  IN Build(count, LAMBDA i : IF (count - i) % 2 = 1 THEN Neg(inverses[i]) ELSE inverses[i])
\* At cyclic lags -(k - 1), ..., count - 1.
reciprocal_kernel(source, begin, count, padding) ==
  LET k == Length(source)
      inverses == batch_inverse(Build(k + count - 1, LAMBDA r : Add(difference(begin, source[1]), difference(r - 1, k - 1))))
  IN For(Build(padding, LAMBDA i : 0), 0, k + count - 2, LAMBDA a, r :
       [a EXCEPT ![((r + padding - (k - 1)) % padding) + 1] = inverses[r + 1]])
destination_factors(source, begin, count, segment_end, factor) ==
  LET inverses == batch_inverse(Build(count, LAMBDA k : difference(begin + k, source[2])))
  IN For([factor |-> factor, out |-> <<>>], 1, count, LAMBDA s, k :
       [out    |-> Append(s.out, s.factor),
        factor |-> IF begin + k < segment_end
                   THEN Mul(Mul(s.factor, difference(begin + k, source[1])), inverses[k]) ELSE s.factor])
segment_blocks_Restart(source, destination, segment, block_len, padding) ==
  LET start == For(1, source[1], source[2] - 1, LAMBDA acc, i : Mul(acc, difference(segment[1], i)))
  IN For([blocks |-> <<>>], 0, (Length(segment) - 1) \div block_len, LAMBDA s, b :
       LET begin == segment[1] + b * block_len
           count == Less(block_len, segment[2] - begin)
       IN [blocks |-> Append(s.blocks, [output |-> begin - destination[1],
                                        kernel |-> reciprocal_kernel(source, begin, count, padding),
                                        factors |-> destination_factors(source, begin, count, segment[2], start).out])]).blocks
\* The factor is carried from a block to the next.
segment_blocks(source, destination, segment, block_len, padding) ==
  LET start == For(1, source[1], source[2] - 1, LAMBDA acc, i : Mul(acc, difference(segment[1], i)))
  IN For([factor |-> start, blocks |-> <<>>], 0, (Length(segment) - 1) \div block_len, LAMBDA s, b :
       LET begin == segment[1] + b * block_len
           count == Less(block_len, segment[2] - begin)
           f == destination_factors(source, begin, count, segment[2], s.factor)
       IN [factor |-> f.factor,
           blocks |-> Append(s.blocks, [output |-> begin - destination[1],
                                        kernel |-> reciprocal_kernel(source, begin, count, padding),
                                        factors |-> f.out])]).blocks
NextPowerOfTwo(n) == 2^(CHOOSE k \in 0 .. 30 : 2^k >= n /\ (k = 0 \/ 2^(k - 1) < n))
\* One size of transform for all blocks, which must not wrap into the outputs.
block_length(source, destination, max_transform) ==
  LET longest == ForEach(0, outside(source, destination), LAMBDA m, r : More(m, Length(r)))
  IN Less(Less(Length(source), max_transform - Length(source) + 1), longest)
ArithmeticGeometry(source, destination, max_transform) ==
  LET block_len == block_length(source, destination, max_transform)
      padding == NextPowerOfTwo(Length(source) + block_len - 1)
  IN IF ~ needs_work(source, destination) THEN [weights |-> <<>>, blocks |-> <<>>, padding |-> 0]
     ELSE [weights |-> source_weights(Length(source)), padding |-> padding,
           blocks |-> ForEach(<<>>, outside(source, destination), LAMBDA all, s :
                        all \o segment_blocks(source, destination, s, block_len, padding))]

(***************************************************************************)
(* The scalar plan: Newton's form and Horner's rule.                       *)
(***************************************************************************)
newton_coefficients(values, inverses) ==
  For(values, 1, Len(values) - 1, LAMBDA c, order :
    Build(Len(c), LAMBDA i : IF i > order THEN Mul(Sub(c[i], c[i - 1]), inverses[order]) ELSE c[i]))
evaluate(source, coefficients, index) ==
  For(coefficients[Len(coefficients)], 1, Len(coefficients) - 1, LAMBDA value, k :
    LET i == Len(coefficients) - k IN Add(coefficients[i], Mul(value, difference(index, source[1] + i - 1))))
scalar_can_interpolate(source, destination, limit) == limit - 1 <= p - 1 /\ valid(source, destination, limit)
scalar_apply(source, destination, values) ==
  LET known == trivial(source, destination, values, 0)
      coefficients == newton_coefficients(values, batch_inverse(Build(Length(source) - 1, LAMBDA i : i % p)))
  IN IF known.done THEN known.out
     ELSE Build(Length(destination), LAMBDA k :
            LET j == destination[1] + k - 1
            IN IF source[1] <= j /\ j < source[2] THEN known.out[k] ELSE evaluate(source, coefficients, j))

(***************************************************************************)
(* The plan with transforms.                                               *)
(***************************************************************************)
max_transform(order) == IF IsPowerOfTwo(order) THEN order ELSE 0
fft_can_interpolate(source, destination) ==
  /\ valid(source, destination, p)
  /\ needs_work(source, destination) => Length(source) <= max_transform(omega_order)
\* A product of spectra in half-complex layout.
multiply_spectra(out, kernel) ==
  LET half == Len(out) \div 2
      product(j) == c_mul(<<out[j + 1], out[2 * half - j + 1]>>, <<kernel[j + 1], kernel[2 * half - j + 1]>>)
  IN Build(Len(out), LAMBDA k : CASE k - 1 \in {0, half} -> Mul(out[k], kernel[k])
                                  [] k - 1 < half -> product(k - 1)[1]
                                  [] OTHER -> product(2 * half - k + 1)[2])
prepare(block, scale) ==
  LET spectrum == r2hc(block.kernel)
  IN [output |-> block.output, factors |-> block.factors, kernel_fft |-> Build(Len(spectrum), LAMBDA i : Mul(spectrum[i], scale))]
\* The values of a block over those of the destination.
Store(destination, block, work) ==
  For(destination, 1, Len(block.factors), LAMBDA d, i : [d EXCEPT ![block.output + i] = Mul(work[i], block.factors[i])])
fft_apply(source, destination, values) ==
  LET known == trivial(source, destination, values, 0)
      geometry == ArithmeticGeometry(source, destination, max_transform(omega_order))
      prepared == r2hc(Build(geometry.padding, LAMBDA i : IF i <= Len(values) THEN Mul(values[i], geometry.weights[i]) ELSE 0))
      scale == InverseMod(geometry.padding % p)
  IN IF known.done THEN known.out
     ELSE ForEach(known.out, geometry.blocks, LAMBDA d, block :
            Store(d, block, hc2r(multiply_spectra(prepared, prepare(block, scale).kernel_fft))))

(***************************************************************************)
(* What they are for: the values at the destination of the polynomial of   *)
(* degree below the length of the source with given values there.          *)
(***************************************************************************)
Eval(coefficients, x) ==
  For(0, 1, Len(coefficients), LAMBDA acc, k : (acc * x + coefficients[Len(coefficients) + 1 - k]) % p)
ValuesOn(coefficients, range) == Build(Length(range), LAMBDA k : Eval(coefficients, range[1] + k - 1))
PlansRight(coefficients, source, destination) ==
  LET values == ValuesOn(coefficients, source)
      expected == ValuesOn(coefficients, destination)
  IN /\ scalar_can_interpolate(source, destination, p) => scalar_apply(source, destination, values) = expected
     /\ fft_can_interpolate(source, destination) => fft_apply(source, destination, values) = expected
=============================================================================
