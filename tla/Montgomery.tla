----------------------------- MODULE Montgomery -----------------------------
(***************************************************************************)
(* The prime fields of the runtime (runtime/algebra: limb/mod.rs,          *)
(* fp_generic.rs, p256): elements are arrays of L limbs of LIMB_BITS bits  *)
(* in Montgomery form, x R modulo M with R = 2^(LIMB_BITS L); a sum of     *)
(* products is kept in ACCUM_L limbs and reduced once.                     *)
(***************************************************************************)
EXTENDS Integers, Sequences, SequencesExt, Loops

CONSTANTS LIMB_BITS, L, ACCUM_L, BYTE_BITS, LIMBS_PER_WORD

\* new_generic asserts ACCUM_L >= 2 L + 1; a byte divides a limb, which divides
\* a word.
Base == 2^LIMB_BITS
Zeros(n) == Build(n, LAMBDA i : 0)
Value(a) == SumOver(1, Len(a), LAMBDA i : a[i] * Base^(i - 1))
Limbs(n, x) == Build(n, LAMBDA i : (x \div Base^(i - 1)) % Base)

(***************************************************************************)
(* Arrays of limbs.                                                        *)
(***************************************************************************)
add_limb(a, b) ==
  For([a |-> a, carry |-> 0], 1, Len(b), LAMBDA s, i :
    LET sum == s.a[i] + b[i] + s.carry IN [a |-> [s.a EXCEPT ![i] = sum % Base], carry |-> sum \div Base])
sub_limb(a, b) ==
  For([a |-> a, borrow |-> 0], 1, Len(b), LAMBDA s, i :
    LET diff == s.a[i] - b[i] - s.borrow
    IN [a |-> [s.a EXCEPT ![i] = diff % Base], borrow |-> IF diff < 0 THEN 1 ELSE 0])
shr_1(a) == Build(Len(a), LAMBDA i : a[i] \div 2 + (IF i < Len(a) THEN (a[i + 1] % 2) * 2^(LIMB_BITS - 1) ELSE 0))
\* A carry out of the last limb is dropped.
propagate_carry(a, start, carry) ==
  For([a |-> a, carry |-> carry], start + 1, Len(a), LAMBDA s, i :
    [a |-> [s.a EXCEPT ![i] = (@ + s.carry) % Base], carry |-> (s.a[i] + s.carry) \div Base]).a
\* a += b at an offset, the carry going on to the end of a.
accum(a, start, b) ==
  LET s == add_limb(SubSeq(a, start + 1, start + Len(b)), b)
      placed == SubSeq(a, 1, start) \o s.a \o SubSeq(a, start + Len(b) + 1, Len(a))
  IN propagate_carry(placed, start + Len(b), s.carry)
mulhl_one(a, b) == <<(a * b) % Base, (a * b) \div Base>>
mulhl(x, y) == <<Build(Len(y), LAMBDA i : mulhl_one(x, y[i])[1]), Build(Len(y), LAMBDA i : mulhl_one(x, y[i])[2])>>
mul_accum(a, start, x, y) == LET p == mulhl(x, y) IN accum(accum(a, start, p[1]), start + 1, p[2])
\* The low halves are stored, not added: the limbs there are zero.
mul_accum_zero(a, start, x, y) ==
  LET p == mulhl(x, y)
  IN accum(SubSeq(a, 1, start) \o p[1] \o SubSeq(a, start + Len(y) + 1, Len(a)), start + 1, p[2])
\* Mutant: the most significant limb decides.
lt_Top(a, b) == a[Len(a)] < b[Len(b)]
lt(a, b) == \E i \in DOMAIN a : a[i] < b[i] /\ \A j \in i + 1 .. Len(a) : a[j] = b[j]

\* Conditional move, without a branch: one comparison and one instruction per
\* limb; or, on other machines, a mask of ones or zeros.
cmovne(a, x, y, b) == IF x # y THEN b ELSE a
\* Mutant: the carry out of the addition before is forgotten.
maybe_minus_m_NoCarry(a, ah, negm) == LET s == add_limb(negm, a) IN cmovne(a, 0, s.carry, s.a)
\* a - M if the carry ah, or a itself, says that a is not below M; negm = R - M.
maybe_minus_m(a, ah, negm) == LET s == add_limb(negm, a) IN cmovne(a, ah, s.carry, s.a)
maybe_plus_m(a, ah, modulo) == cmovne(a, ah, 0, add_limb(a, modulo).a)
accum_modular(a, b, negm) == LET s == add_limb(a, b) IN maybe_minus_m(s.a, s.carry, negm)

(***************************************************************************)
(* The field of a modulus.                                                 *)
(***************************************************************************)
neg(x) == (Base - x) % Base
\* Newton's iteration doubles the number of right bits; m0 is its own inverse
\* modulo 8.
compute_m_prime(m0) == neg(For(m0, 1, 6, LAMBDA inv, i : (inv * ((2 + Base - ((m0 * inv) % Base)) % Base)) % Base))
Doublings(x, n, negm) == For(x, 1, n, LAMBDA acc, i : accum_modular(acc, acc, negm))
One == [Zeros(L) EXCEPT ![1] = 1]
compute_r2(negm) == Doublings(One, 2 * LIMB_BITS * L, negm)
compute_r(negm) == Doublings(One, LIMB_BITS * L, negm)

\* The parameters of the field; the modulus is odd and not one.
new_generic(modulo) ==
  LET negm == sub_limb(Zeros(L), modulo).a
      r2   == compute_r2(negm)
  IN [modulo  |-> modulo,
      negm    |-> negm,
      m_prime |-> compute_m_prime(modulo[1]),
      r2      |-> r2,
      r       |-> compute_r(negm),
      accum_scale |-> Doublings(r2, (ACCUM_L - 2 * L) * LIMB_BITS, negm),
      raw_half    |-> propagate_carry(shr_1(modulo), 0, 1)]

\* Makes the lowest limb of t zero by adding a multiple of the modulus.
reduction_step(t, modulo, m_prime) == mul_accum(t, 0, (t[1] * m_prime) % Base, modulo)
\* A window of t at an offset after a step.
Windowed(t, i, len, step(_)) ==
  SubSeq(t, 1, i) \o step(SubSeq(t, i + 1, i + len)) \o SubSeq(t, i + len + 1, Len(t))
\* a b / R modulo M, a limb of a at a time, in windows of L + 2 limbs.
montgomery_mul(f, a, b) ==
  LET t0 == Windowed(Zeros(2 * L + 1), 0, L + 2, LAMBDA w : reduction_step(mul_accum_zero(w, 0, a[1], b), f.modulo, f.m_prime))
      t  == For(t0, 1, L - 1, LAMBDA acc, i :
              Windowed([acc EXCEPT ![i + L + 2] = 0], i, L + 2, LAMBDA w :
                reduction_step(mul_accum(w, 0, a[i + 1], b), f.modulo, f.m_prime)))
  IN maybe_minus_m(SubSeq(t, L + 1, 2 * L), t[2 * L + 1], f.negm)

(***************************************************************************)
(* P-256: x^8 - x^7 + x^6 + x^3 - 1, with x a limb, or half a limb; minus  *)
(* one over the modulus is one, so the step needs no multiplication.       *)
(***************************************************************************)
Half == 2^(LIMB_BITS \div 2)
p256_modulus_whole == <<Base - 1, Base - 1, Base - 1, 0, 0, 0, 1, Base - 1>>
p256_modulus_halves == <<Base - 1, Half - 1, 0, (Half - 1) * Half + 1>>
p256_reduction_step_32(a) ==
  LET r == a[1] IN accum(sub_limb(a, <<r, 0, 0, 0, 0, 0, 0, r, 0, 0>>).a, 3, <<r, 0, 0, r, 0, r>>)
\* Mutant: the high half of the limb is lost.
p256_reduction_step_64_Low(a) ==
  LET r  == a[1]
      lo == (r * Half) % Base
  IN accum(sub_limb(a, <<r, 0, 0, lo, 0, 0>>).a, 1, <<lo, 0, r, r>>)
p256_reduction_step_64(a) ==
  LET r  == a[1]
      lo == (r * Half) % Base
      hi == r \div Half
  IN accum(sub_limb(a, <<r, 0, 0, lo, hi, 0>>).a, 1, <<lo, hi, r, r>>)
\* Here a product is added to all of t, so that carries go beyond the window.
Reduced(step(_), f, a, b) ==
  LET t0 == Windowed(mul_accum_zero(Zeros(2 * L + 1), 0, a[1], b), 0, L + 2, step)
      t  == For(t0, 1, L - 1, LAMBDA acc, i :
              Windowed(mul_accum([acc EXCEPT ![i + L + 2] = 0], i, a[i + 1], b), i, L + 2, step))
  IN maybe_minus_m(SubSeq(t, L + 1, 2 * L), t[2 * L + 1], f.negm)
p256_montgomery_mul_64(f, a, b) == Reduced(p256_reduction_step_64, f, a, b)
p256_montgomery_mul_32(f, a, b) == Reduced(p256_reduction_step_32, f, a, b)

(***************************************************************************)
(* Operations of the field.                                                *)
(***************************************************************************)
f_add(f, a, b) == accum_modular(a, b, f.negm)
f_sub(f, a, b) == LET s == sub_limb(a, b) IN maybe_plus_m(s.a, s.borrow, f.modulo)
to_montgomery(f, standard) == montgomery_mul(f, standard, f.r2)
to_standard(f, mont) == montgomery_mul(f, mont, One)
\* Mutant: halving an odd element without adding half of the modulus.
byhalf_Shift(f, a) == shr_1(a)
byhalf(f, a) == IF a[1] % 2 = 1 THEN accum_modular(shr_1(a), f.raw_half, f.negm) ELSE shr_1(a)
\* Binary greatest common divisor of a and the modulus.  While a is not zero,
\* u is a over the argument, v is b over it; each round takes a bit of a or b.
invert(f, x) ==
  LET step(s, i) ==
        IF Value(s.a) = 0 THEN s
        ELSE IF s.a[1] % 2 = 0 THEN [s EXCEPT !.a = shr_1(@), !.u = byhalf(f, @)]
        ELSE LET o == IF lt(s.a, s.b) THEN [a |-> s.b, b |-> s.a, u |-> s.v, v |-> s.u] ELSE s
             IN [o EXCEPT !.a = shr_1(sub_limb(@, o.b).a), !.u = byhalf(f, f_sub(f, @, o.v))]
  IN For([a |-> to_standard(f, x), b |-> f.modulo, u |-> f.r, v |-> Zeros(L)], 1, 2 * LIMB_BITS * L, step).v

\* Mutant: a product's carry stops at the end of that product.
mac_Window(acc, x, y) ==
  For(acc, 0, L - 1, LAMBDA t, i : mul_accum(SubSeq(t, 1, 2 * L), i, x[i + 1], y) \o SubSeq(t, 2 * L + 1, ACCUM_L))
\* A sum of products, each carried to the end of the accumulator.
mac(acc, x, y) == For(acc, 0, L - 1, LAMBDA t, i : mul_accum(t, i, x[i + 1], y))
accum_reduce(f, acc) ==
  LET a == For(Zeros(ACCUM_L + L + 1), 0, ACCUM_L - 1, LAMBDA t, i :
             Windowed(t, i, L + 2, LAMBDA w : reduction_step(accum(w, 0, <<acc[i + 1]>>), f.modulo, f.m_prime)))
      res == maybe_minus_m(SubSeq(a, ACCUM_L + 1, ACCUM_L + L), a[ACCUM_L + L + 1], f.negm)
  IN montgomery_mul(f, res, f.accum_scale)
fma(f, e, a, b) == f_add(f, e, montgomery_mul(f, a, b))
fnms(f, e, a, b) == f_sub(f, e, montgomery_mul(f, a, b))

\* Any number of a word's width, in one word.
of_scalar(f, n) == to_montgomery(f, Build(L, LAMBDA i : IF i <= LIMBS_PER_WORD THEN (n \div Base^(i - 1)) % Base ELSE 0))
lookup_point(f, n, i) == f_sub(f, of_scalar(f, 2 * i), of_scalar(f, n - 1))
newton_denominator(f, i) == invert(f, of_scalar(f, i))
\* Numbers not below the modulus as well.
reduce_nat(f, limbs) == IF lt(limbs, f.modulo) THEN to_montgomery(f, limbs) ELSE accum_reduce(f, mac(Zeros(ACCUM_L), limbs, f.r2))
words64_to_limbs(words) ==
  Build(Len(words) * LIMBS_PER_WORD, LAMBDA i :
    LET w == words[(i - 1) \div LIMBS_PER_WORD + 1] IN (w \div Base^((i - 1) % LIMBS_PER_WORD)) % Base)
limbs_to_words64(limbs) ==
  Build(Len(limbs) \div LIMBS_PER_WORD, LAMBDA i :
    SumOver(1, LIMBS_PER_WORD, LAMBDA j : limbs[(i - 1) * LIMBS_PER_WORD + j] * Base^(j - 1)))
Refused == <<>>   \* Err: no element
words64_to_element(f, words) ==
  LET limbs == words64_to_limbs(words) IN IF lt(limbs, f.modulo) THEN to_montgomery(f, limbs) ELSE Refused
to_words64(f, e) == limbs_to_words64(to_standard(f, e))

LIMB_BYTES == LIMB_BITS \div BYTE_BITS
to_bytes(f, e) ==
  LET standard == to_standard(f, e)
  IN Build(L * LIMB_BYTES, LAMBDA i : (standard[(i - 1) \div LIMB_BYTES + 1] \div 2^(BYTE_BITS * ((i - 1) % LIMB_BYTES))) % 2^BYTE_BITS)
bytes_to_element(f, bytes) ==
  LET limbs == Build(L, LAMBDA i : SumOver(1, LIMB_BYTES, LAMBDA j : bytes[(i - 1) * LIMB_BYTES + j] * 2^(BYTE_BITS * (j - 1))))
  IN IF Len(bytes) # L * LIMB_BYTES \/ ~lt(limbs, f.modulo) THEN Refused ELSE to_montgomery(f, limbs)

\* Draws until a number is below the modulus; the list of draws ends with one.
sample(f, draws) == LET n == SelectInSeq(draws, LAMBDA d : lt(d, f.modulo)) IN to_montgomery(f, draws[n])

\* Numbers outside a field: their order and their bits.
nat_less(a, b) == \E i \in DOMAIN a : a[i] < b[i] /\ \A j \in i + 1 .. Len(a) : a[j] = b[j]
nat_bit(a, i) ==
  LET limb == i \div (LIMB_BITS * LIMBS_PER_WORD)
  IN IF limb < Len(a) THEN Bit(a[limb + 1], i % (LIMB_BITS * LIMBS_PER_WORD)) ELSE 0

(***************************************************************************)
(* What the field of a modulus m must compute, with x and y standard       *)
(* numbers below it.                                                       *)
(***************************************************************************)
Meant(f, m, x, a) == a = Limbs(L, (x * Base^L) % m)
ArithmeticRight(f, m, x, y) ==
  LET a == to_montgomery(f, Limbs(L, x))
      b == to_montgomery(f, Limbs(L, y))
  IN /\ Meant(f, m, x, a) /\ to_standard(f, a) = Limbs(L, x)
     /\ Meant(f, m, x + y, f_add(f, a, b))
     /\ Meant(f, m, x + m - y, f_sub(f, a, b))
     /\ Meant(f, m, x * y, montgomery_mul(f, a, b))
     /\ Meant(f, m, (x + x * y) % m, fma(f, a, a, b)) /\ Meant(f, m, (x + m * m - x * y) % m, fnms(f, a, a, b))
     /\ lt(a, b) = (Value(a) < Value(b))
\* Elements without a factor in common with the modulus have an inverse.
InverseRight(f, m, x) ==
  LET a == to_montgomery(f, Limbs(L, x))
  IN (\E z \in 1 .. m - 1 : (x * z) % m = 1) => Meant(f, m, 1, montgomery_mul(f, a, invert(f, a)))
\* As many products as the accumulator has room for.
MaxProducts == 2^(LIMB_BITS * (ACCUM_L - 2 * L))
SumRight(f, m, x, y, n) ==
  LET a == to_montgomery(f, Limbs(L, x))
      b == to_montgomery(f, Limbs(L, y))
      acc == For(Zeros(ACCUM_L), 1, n, LAMBDA t, i : mac(t, a, b))
  IN Meant(f, m, (n * ((x * y) % m)) % m, accum_reduce(f, acc))
\* Conversions, with any number x of L limbs.
ConversionsRight(f, m, x) ==
  LET limbs == Limbs(L, x)
      words == limbs_to_words64(limbs)
      e     == to_montgomery(f, Limbs(L, x % m))
      bytes == Build(L * LIMB_BYTES, LAMBDA i : (x \div 2^(BYTE_BITS * (i - 1))) % 2^BYTE_BITS)
  IN /\ Meant(f, m, x, reduce_nat(f, limbs))
     /\ words64_to_limbs(words) = limbs
     /\ \A i \in 0 .. LIMB_BITS * L : nat_bit(words, i) = Bit(x, i)
     /\ words64_to_element(f, words) = IF x < m THEN e ELSE Refused
     /\ bytes_to_element(f, bytes) = IF x < m THEN e ELSE Refused
     /\ x < m => to_bytes(f, e) = bytes /\ to_words64(f, e) = words
     /\ x < m => sample(f, <<Limbs(L, m), Limbs(L, Base^L - 1), limbs>>) = e
     /\ x < Base^LIMBS_PER_WORD => Meant(f, m, x, of_scalar(f, x))
     /\ x \in 1 .. 2 => \A i \in 0 .. x - 1 : Meant(f, m, m * x + 2 * i - (x - 1), lookup_point(f, x, i))
     /\ x \in 1 .. 3 /\ m \in {5, 7, 11, 13} => Meant(f, m, 1, montgomery_mul(f, of_scalar(f, x), newton_denominator(f, x)))
     /\ nat_less(words, limbs_to_words64(Limbs(L, m))) = (x < m)
\* The special reductions agree with the general one.
StrategiesAgree_64(f, x, y) == p256_montgomery_mul_64(f, x, y) = montgomery_mul(f, x, y)
StrategiesAgree_32(f, x, y) == p256_montgomery_mul_32(f, x, y) = montgomery_mul(f, x, y)

=============================================================================
