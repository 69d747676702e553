--------------------------- MODULE AnalogCircuit ---------------------------
(***************************************************************************)
(* Circuits that move, look up, decode and add bits as field elements      *)
(* (circuits/routing, polynomial, lookup, analog_decoder, bit_plucker,     *)
(* analog_adder, gf2_128, mac, mac_gf128 and                               *)
(* compile/algebra/interpolation.rs).                                      *)
(***************************************************************************)
EXTENDS ArithmeticCircuit

CONSTANTS Threshold,  \* width from which products of polynomials are split (16 in the code)
          LowTerms,   \* exponents of the reduction polynomial below the degree ({0, 1, 2, 7})
          Degree,     \* of the binary field of the authentication code (128)
          Low         \* its polynomial without the leading term (0x87)

(***************************************************************************)
(* Routing: an array moved by a secret amount, some bits of it at a time.  *)
(* Elements are bits.                                                      *)
(***************************************************************************)
extend(a, default, i) == IF i \in 0 .. Len(a) - 1 THEN a[i + 1] ELSE default
amount_selector(logc, amount, l) ==
  Build(2^logc, LAMBDA v : relint("eqb", SubSeq(amount, l + 1, l + logc), v - 1))
\* A defect: only the elements of the result are moved.
really_shift_Result(selector, k, a, shift, default) ==
  Build(Len(a), LAMBDA i : IF i <= k
                      THEN one_hot_muxb(selector, [j \in DOMAIN selector |-> extend(a, default, i - 1 + (j - 1) * shift)])
                      ELSE a[i])
\* Only the elements that later rounds still read are moved.
really_shift(selector, k, a, shift, default) ==
  Build(Len(a), LAMBDA i : IF i <= k + shift
                      THEN one_hot_muxb(selector, [j \in DOMAIN selector |-> extend(a, default, i - 1 + (j - 1) * shift)])
                      ELSE a[i])
really_unshift(selector, k, a, shift, default) ==
  Build(Len(a), LAMBDA i : IF i <= k + Len(selector) * shift
                      THEN one_hot_muxb(selector, [j \in DOMAIN selector |-> extend(a, default, i - 1 - (j - 1) * shift)])
                      ELSE a[i])
generic_shift(unroll, amount, k, a, default) ==
  LET nrounds == CeilDiv(Len(amount), unroll)
      round(s, r) == LET consumed == CeilDiv(s.l, nrounds - r)
                         l == s.l - consumed
                     IN [l |-> l, a |-> really_shift(amount_selector(consumed, amount, l), k, s.a, 2^l, default)]
      done == For([l |-> Len(amount), a |-> a], 0, nrounds - 1, round).a
  IN Build(k, LAMBDA i : extend(done, default, i - 1))
generic_unshift(unroll, amount, n, b, default) ==
  LET nrounds == CeilDiv(Len(amount), unroll)
      round(s, r) == LET consumed == CeilDiv(Len(amount) - s.l, nrounds - r)
                     IN [l |-> s.l + consumed,
                         a |-> really_unshift(amount_selector(consumed, amount, s.l), Len(b), s.a, 2^s.l, default)]
  IN For([l |-> 0, a |-> Build(n, LAMBDA i : extend(b, default, i - 1))], 0, nrounds - 1, round).a

\* An amount moves the array down, or up again, whatever bits a round takes.
RoutesRight(amount, k, n, a, default) ==
  LET s == Value(amount)
      Same(x, y) == x.r \in {"T", "F", "P", "N", "X"} /\ Holds(x, Truth(y))
  IN \A unroll \in 1 .. Len(amount) :
       /\ LET d == generic_shift(unroll, amount, k, a, default)
          IN Len(d) = k /\ \A i \in 1 .. k : Same(d[i], extend(a, default, i - 1 + s))
       /\ LET u == generic_unshift(unroll, amount, n, a, default)
          IN Len(u) = n /\ \A i \in 1 .. n : Same(u[i], extend(a, default, i - 1 - s))

(***************************************************************************)
(* Interpolation and tables.                                               *)
(***************************************************************************)
\* A defect: always divided by the distance of neighbours.
newton_of_lagrange_Adjacent(a, x) ==
  LET level(c, i) == Build(Len(a), LAMBDA k : IF k > i THEN mul(invert(subt(x[k], x[k - 1])), subt(c[k], c[k - 1])) ELSE c[k])
  IN For(a, 1, Len(a) - 1, level)
newton_of_lagrange(a, x) ==
  LET n == Len(a)
      level(c, i) == Build(n, LAMBDA k : IF k > i THEN mul(invert(subt(x[k], x[k - i])), subt(c[k], c[k - 1])) ELSE c[k])
  IN For(a, 1, n - 1, level)
eval_newton(a, x, point) ==
  For(0, 1, Len(a), LAMBDA acc, j : LET i == Len(a) + 1 - j IN add(a[i], mul(acc, subt(point, x[i]))))
monomial_of_newton(a, x) ==
  LET n == Len(a)
      inner(c, i) == For(c, i + 1, n, LAMBDA d, k : [d EXCEPT ![k - 1] = subt(@, mul(d[k], x[i]))])
  IN For(a, 1, n, LAMBDA c, j : inner(c, n + 1 - j))
eval_monomial(a, point) == For(0, 1, Len(a), LAMBDA acc, j : add(a[Len(a) + 1 - j], mul(acc, point)))
monomial_of_lagrange(l, x) == monomial_of_newton(newton_of_lagrange(l, x), x)

powers_of_x(n, x) ==
  LET pow[k \in 0 .. n] == IF k = 0 THEN 1 ELSE IF k = 1 THEN x ELSE mul(pow[k \div 2], pow[k - k \div 2])
  IN Build(n, LAMBDA i : pow[i - 1])
eval(cc, x) == dot(cc, powers_of_x(Len(cc), x))
\* Horner's rule on pairs, squaring the point for each halving.
eval_horner(cc, x) ==
  LET halve(s) == [xx |-> mul(s.xx, s.xx),
                   c  |-> [i \in 1 .. CeilDiv(Len(s.c), 2) |->
                             IF 2 * i <= Len(s.c) THEN add(s.c[2 * i - 1], mul(s.c[2 * i], s.xx)) ELSE s.c[2 * i - 1]]]
      step(s, i) == IF Len(s.c) > 1 THEN halve(s) ELSE s
  IN IF cc = <<>> THEN 0 ELSE For([xx |-> x, c |-> cc], 1, Len(cc), step).c[1]

Absent == -1
Delta(b) == IF b THEN 1 ELSE 0
Point(n, i) == F.point[n][i + 1]
\* The polynomial with given values at the points of a table that have one.
table(n, value) ==
  LET active == SelectSeq([i \in 1 .. n |-> i - 1], LAMBDA i : value[i] # Absent)
      m == Len(active)
      x == Build(m, LAMBDA k : Point(n, active[k]))
      basis == Build(m, LAMBDA k : monomial_of_lagrange(Build(m, LAMBDA j : Delta(j = k)), x))
  IN Build(m, LAMBDA j : sum([k \in 1 .. m |-> mul(basis[k][j], value[active[k]])]))

\* All ways through a polynomial agree, on its points and elsewhere.
InterpolationRight(n, y) ==
  LET x == [k \in 1 .. n |-> Point(n, k - 1)]
      newton == newton_of_lagrange(y, x)
      c == table(n, [i \in 0 .. n - 1 |-> y[i + 1]])
  IN /\ \A k \in 1 .. n : eval_newton(newton, x, x[k]) = y[k] /\ eval(c, x[k]) = y[k]
     /\ \A e \in 0 .. F.q - 1 : LET v == eval_monomial(c, e)
                                IN eval(c, e) = v /\ eval_horner(c, e) = v /\ eval_newton(newton, x, e) = v

(***************************************************************************)
(* Decoders: an element that encodes a number in its point.                *)
(***************************************************************************)
\* n bits of which one is set, and the assertion that the element is a point.
unary_decode(n, encoded) ==
  LET plucker(k) == table(n + 1, [i \in 0 .. n |-> Delta(i = k)])
  IN [ok |-> assert0(eval(plucker(n), encoded)), bits |-> Build(n, LAMBDA k : P(eval(plucker(k - 1), encoded)))]
bit_decoder(width, k, encoded) ==
  eval(table(2^width + 1, [i \in 0 .. 2^width |-> IF i < 2^width THEN Bit(i, k) ELSE Absent]), encoded)
\* A defect: no check that the element is an encoding.
binary_decode_Unchecked(width, encoded) ==
  [ok |-> TRUE, bits |-> Build(width, LAMBDA k : P(bit_decoder(width, k - 1, encoded)))]
binary_decode(width, encoded) ==
  [ok   |-> assert0(eval(table(2^width + 1, [i \in 0 .. 2^width |-> Delta(i = 2^width)]), encoded)),
   bits |-> Build(width, LAMBDA k : P(bit_decoder(width, k - 1, encoded)))]
\* A single bit is only known to be a bit.
bit_decode(width, k, encoded) == of_eltw(bit_decoder(width, k, encoded))
unpack(width, out, encoded) ==
  LET plucked == [i \in DOMAIN encoded |-> binary_decode(width, encoded[i])]
  IN [ok   |-> \A i \in DOMAIN plucked : plucked[i].ok,
      bits |-> SubSeq(Concat(1, Len(plucked), LAMBDA i : plucked[i].bits), 1, out)]
unary_point(n, i) == Point(n + 1, i)
binary_point(width, i) == Point(2^width + 1, i)

\* Exactly the encodings pass, and they decode to the number they encode.
DecodersRight(width, e) ==
  LET n == 2^width
      coded == {i \in 0 .. n - 1 : binary_point(width, i) = e}
  IN /\ binary_decode(width, e).ok = (coded # {})
     /\ \A i \in coded : Means(binary_decode(width, e).bits, i)
     /\ \A k \in 0 .. width - 1 : \A i \in coded :
          bit_decode(width, k, e).ok /\ Holds(bit_decode(width, k, e).bit, Bit(i, k) = 1)
     /\ n >= 2 => /\ unary_decode(n, e).ok = (\E i \in 0 .. n - 1 : unary_point(n, i) = e)
                  /\ unary_decode(n, e).ok => assert_exactly_one(unary_decode(n, e).bits)
     /\ \A i \in coded, j \in 0 .. n - 1 :
          LET out == 2 * width - 1
              u == unpack(width, out, <<e, binary_point(width, j)>>)
          IN u.ok /\ Means(u.bits, (i + j * n) % 2^out)

(***************************************************************************)
(* Sums of many numbers modulo 2^N: in a prime field as elements, in a     *)
(* binary field as exponents of the generator.                             *)
(***************************************************************************)
Fits(N0, nterms) == F.gdim > N0 /\ nterms < 2^(F.gdim - N0)
\* A defect: the largest carry is forgotten.
assert_wrapping_sum_prime_Short(expected, terms) ==
  LET z == subt(sum([i \in DOMAIN terms |-> as_eltw_field(terms[i])]), as_eltw_field(expected))
  IN assert0(prod([i \in 1 .. Len(terms) - 1 |-> subt(z, mul(pseudo_basis_unsafe(Len(expected)), i - 1))]))
assert_wrapping_sum_prime(expected, terms) ==
  LET z == subt(sum([i \in DOMAIN terms |-> as_eltw_field(terms[i])]), as_eltw_field(expected))
      two_to_n == pseudo_basis_unsafe(Len(expected))
  IN assert0(prod([i \in DOMAIN terms |-> subt(z, mul(two_to_n, i - 1))]))
Generator == 2
assert_wrapping_sum_gf2(expected, terms) ==
  LET N0 == Len(expected)
      square[i \in 0 .. N0] == IF i = 0 THEN Generator ELSE mul(square[i - 1], square[i - 1])
      inject(v) == prod([i \in 1 .. N0 |-> add(1, mul(subt(square[i - 1], 1), as_eltw(v[i])))])
      got == prod([i \in DOMAIN terms |-> inject(terms[i])])
      p == [i \in DOMAIN terms |-> prod([j \in 1 .. i - 1 |-> square[N0]])]
  IN assert0(prod([i \in DOMAIN terms |-> subt(got, mul(p[i], inject(expected)))]))
assert_wrapping_sum(expected, terms) ==
  IF Binary THEN assert_wrapping_sum_gf2(expected, terms) ELSE assert_wrapping_sum_prime(expected, terms)

SumRight(expected, terms) ==
  Fits(Len(expected), Len(terms)) =>
    LET s == SumOver(1, Len(terms), LAMBDA i : Value(terms[i]))
    IN assert_wrapping_sum(expected, terms) = (Value(expected) = s % 2^Len(expected))

(***************************************************************************)
(* Products of polynomials over GF(2), as bits of any field.               *)
(***************************************************************************)
gf2_polynomial_multiplier(a, b) ==
  LET n == Len(a)
  IN [k \in 1 .. 2 * n |->
        parity(LET is == SelectSeq([i \in 1 .. n |-> i], LAMBDA i : k - i \in 0 .. n - 1)
               IN [j \in DOMAIN is |-> andb(a[is[j]], b[k - is[j] + 1])])]
\* Karatsuba: three products of half the width above the threshold.
RECURSIVE gf2_polynomial_multiplier_karatsuba(_, _)
gf2_polynomial_multiplier_karatsuba(a, b) ==
  LET h == Len(a) \div 2
      Lo(x) == SubSeq(x, 1, h)
      Hi(x) == SubSeq(x, h + 1, 2 * h)
      times(x, y) == gf2_polynomial_multiplier_karatsuba(x, y)
      a0b0 == times(Lo(a), Lo(b))
      a1b1 == times(Hi(a), Hi(b))
      raw  == times(Lanes2("xorb", Lo(a), Hi(a)), Lanes2("xorb", Lo(b), Hi(b)))
      ab01 == Lanes3("xor3", raw, a0b0, a1b1)
  IN IF Len(a) < Threshold THEN gf2_polynomial_multiplier(a, b)
     ELSE Lo(a0b0) \o Lanes2("xorb", Hi(a0b0), Lo(ab01)) \o Lanes2("xorb", Hi(ab01), Lo(a1b1)) \o Hi(a1b1)

\* For every bit of the result, the bits of the product that reach it.
\* A defect: the last bit of the product is left out.
generate_taps_Short(n) ==
  LET shifted(r) == LET s == {t + 1 : t \in r \ {n - 1}}
                    IN IF n - 1 \in r THEN (s \ LowTerms) \cup (LowTerms \ s) ELSE s
      r[i \in 0 .. 2 * n - 3] == IF i = 0 THEN {0} ELSE shifted(r[i - 1])
  IN [j \in 1 .. n |-> SelectSeq([i \in 1 .. 2 * n - 2 |-> i], LAMBDA i : j - 1 \in r[i - 1])]
generate_taps(n) ==
  LET shifted(r) == LET s == {t + 1 : t \in r \ {n - 1}}
                    IN IF n - 1 \in r THEN (s \ LowTerms) \cup (LowTerms \ s) ELSE s
      r[i \in 0 .. 2 * n - 2] == IF i = 0 THEN {0} ELSE shifted(r[i - 1])
  IN [j \in 1 .. n |-> SelectSeq([i \in 1 .. 2 * n - 1 |-> i], LAMBDA i : j - 1 \in r[i - 1])]
gf_product(a, b) ==
  LET t == gf2_polynomial_multiplier_karatsuba(a, b)
      taps == generate_taps(Len(a))
  IN [j \in DOMAIN a |-> parity([i \in DOMAIN taps[j] |-> t[taps[j][i]]])]

(***************************************************************************)
(* The authentication code that ties the two circuits of a presentation:   *)
(* each half of the message times the verifier's key plus the prover's, in *)
(* the binary field of the hash circuit (degree 128 in the code), computed *)
(* with shifts and checked with bits of any field or with elements of that *)
(* field.                                                                  *)
(***************************************************************************)
\* From the most significant bit of y down.
gf2_128_mul(x, y) ==
  LET step(a, i) ==
        LET shifted == (a * 2) % 2^Degree
            reduced == IF Bit(a, Degree - 1) = 1 THEN XorBits(shifted, Low, Degree) ELSE shifted
        IN IF Bit(y, Degree - i) = 1 THEN XorBits(reduced, x, Degree) ELSE reduced
  IN For(0, 1, Degree, step)
compute_mac(mac_av, mac_ap, msg) == XorBits(gf2_128_mul(mac_av, msg), mac_ap, Degree)
\* The message is a number of twice the degree, its low half first.
compute_tag(message, mac_av, mac_ap) ==
  <<compute_mac(mac_av, mac_ap[1], message % 2^Degree), compute_mac(mac_av, mac_ap[2], message \div 2^Degree)>>
mac_given(message, mac_av, mac_ap) ==
  [message |-> message, mac_av |-> mac_av, mac_ap |-> mac_ap, tag |-> compute_tag(message, mac_av, mac_ap)]

\* A defect: the same half twice.
assert_mac_Half(message, mac_av, mac_ap, tag) ==
  \A h \in 1 .. 2 : assert_eq(Lanes2("xorb", tag[h], mac_ap[h]), gf_product(mac_av, split(Degree, message)[1]))
assert_mac(message, mac_av, mac_ap, tag) ==
  \A h \in 1 .. 2 : assert_eq(Lanes2("xorb", tag[h], mac_ap[h]), gf_product(mac_av, split(Degree, message)[h]))
\* In the binary field itself, where tags and keys are single elements.
assert_mac_gf128(message, mac_av, mac_ap, tag) ==
  \A h \in 1 .. 2 : add(tag[h], mac_ap[h]) = mul(mac_av, as_eltw_field(split(Degree, message)[h]))

\* Exactly the computed tag is taken.
MacsRight(g, tag) ==
  LET wires(x, n) == [i \in 1 .. n |-> P(Bit(x, i - 1))]
      both(p) == [h \in 1 .. 2 |-> wires(p[h], Degree)]
  IN /\ assert_mac(wires(g.message, 2 * Degree), wires(g.mac_av, Degree), both(g.mac_ap), both(tag)) = (tag = g.tag)
     /\ Binary => assert_mac_gf128(wires(g.message, 2 * Degree), g.mac_av, g.mac_ap, tag) = (tag = g.tag)
=============================================================================
