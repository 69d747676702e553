---------------------------- MODULE AlgebraCases ----------------------------
(***************************************************************************)
(* Cases of the gadgets circuits are made of, over a field of odd          *)
(* characteristic and a binary one, of the arithmetic of fields on words,  *)
(* and of transforms and interpolation.                                    *)
(***************************************************************************)
EXTENDS Computations, FiniteField

\* Small fields: five elements hold two bits, so numbers of three bits take
\* two of them; eleven elements hold the points of the decoders.
Prime5 == FpField(5)
Prime11 == FpField(11)
\* Degree 4, x^4 + x + 1, with a Cantor basis: every element is the square of
\* the next one plus that one.
Gf16 == BinaryField(4, 3, <<1, 6, 2, 10>>)

Prime17 == FpField(17)

\* Products are split down to single bits.
Odd == INSTANCE AnalogCircuit WITH F <- Prime5, Threshold <- 2, LowTerms <- {0, 1}, Degree <- 4, Low <- 3
Odd11 == INSTANCE AnalogCircuit WITH F <- Prime11, Threshold <- 2, LowTerms <- {0, 1}, Degree <- 4, Low <- 3
Odd17 == INSTANCE AnalogCircuit WITH F <- Prime17, Threshold <- 2, LowTerms <- {0, 1}, Degree <- 4, Low <- 3
Even == INSTANCE AnalogCircuit WITH F <- Gf16, Threshold <- 2, LowTerms <- {0, 1}, Degree <- 4, Low <- 3

\* Widths of numbers, and the ways their bits are held.
MaxWidth == 3
Held == {"P", "N", "X", "mixed"}
OddWire(how, i, b) ==
  LET h == IF how = "mixed" THEN <<"P", "X", "T", "N">>[1 + (i % 4)] ELSE how
      v == IF b THEN 1 ELSE 0
  IN CASE h = "P" -> Odd!P(v) [] h = "N" -> Odd!N(1 - v) [] h = "X" -> Odd!X(IF b THEN 4 ELSE 1) [] h = "T" -> Odd!konst(b)
EvenWire(how, i, b) ==
  LET h == IF how = "mixed" THEN <<"P", "N", "T", "N">>[1 + (i % 4)] ELSE how
      v == IF b THEN 1 ELSE 0
  IN CASE h = "P" -> Even!P(v) [] h = "N" -> Even!N(1 - v) [] h \in {"X", "T"} -> Even!konst(b)
Number(wire(_, _, _), how, n, x) == [i \in 1 .. n |-> wire(how, i, Bit(x, i - 1) = 1)]

NextGadget ==
  \/ Pick("bits", [odd : BOOLEAN, x : Odd!AllWires \cup Even!AllWires, y : Odd!AllWires \cup Even!AllWires])
  \/ Pick("numbers", {c \in [odd : BOOLEAN, n : 1 .. MaxWidth, x : 0 .. 2^MaxWidth - 1, y : 0 .. 2^MaxWidth - 1,
                             how : Held] : c.x < 2^c.n /\ c.y < 2^c.n})
  \/ Pick("routes", {c \in [odd : BOOLEAN, amount : 0 .. 7, k : 1 .. 3, n : {1, 3, 5}, x : 0 .. 31, default : BOOLEAN] :
                       c.x \in {2^i : i \in 0 .. c.n - 1} \cup {0, 2^c.n - 2}})
  \/ Pick("tables", UNION {[odd : BOOLEAN, y : [1 .. n -> 0 .. 3]] : n \in 1 .. 4})
  \/ Pick("codes", [odd : BOOLEAN, width : 1 .. 2, e : 0 .. 15])
  \/ Pick("sums", UNION {{c \in [odd : BOOLEAN, n : {n}, expected : 0 .. 2^n - 1, terms : UNION {[1 .. t -> 0 .. 2^n - 1] : t \in 1 .. 3}] :
                            Len(c.terms) < 2^(4 - n)} : n \in 1 .. 3})
  \/ Pick("products", [odd : BOOLEAN, x : 0 .. 15, y : 0 .. 15])

\* Every gate gives the bit it is named for, however its inputs are held, and
\* never a sign in a field without a half.
GatesRight ==
  On("bits") =>
    LET c == case[1] IN
    IF c.odd THEN {c.x, c.y} \subseteq Odd!AllWires => \A z \in Odd!AllWires : Odd!OpsRight(c.x, c.y, z)
    ELSE {c.x, c.y} \subseteq Even!AllWires => \A z \in Even!AllWires : Even!OpsRight(c.x, c.y, z)

\* Adders, comparisons, assertions and moves on bits agree with numbers.
NumbersRight ==
  On("numbers") =>
    LET c == case[1] IN
    IF c.odd THEN LET a == Number(OddWire, c.how, c.n, c.x)
                      b == Number(OddWire, "mixed", c.n, c.y)
                  IN Odd!SumsRight(a, b) /\ Odd!ComparesRight(a, b) /\ Odd!LanesRight(a, b) /\ Odd!MovesRight(a)
    ELSE LET a == Number(EvenWire, c.how, c.n, c.x)
             b == Number(EvenWire, "mixed", c.n, c.y)
         IN Even!SumsRight(a, b) /\ Even!ComparesRight(a, b) /\ Even!LanesRight(a, b) /\ Even!MovesRight(a)

\* A secret amount moves an array by that amount, however many bits of it a
\* round takes and although a round leaves elements that no later one reads.
RoutesRight ==
  On("routes") =>
    LET c == case[1] IN
    IF c.odd THEN Odd!RoutesRight(Number(OddWire, "P", 3, c.amount), c.k, 5, Number(OddWire, "mixed", c.n, c.x), Odd!konst(c.default))
    ELSE Even!RoutesRight(Number(EvenWire, "P", 3, c.amount), c.k, 5, Number(EvenWire, "mixed", c.n, c.x), Even!konst(c.default))

\* Interpolation and every evaluation of the polynomial agree.
TablesRight ==
  On("tables") => LET c == case[1] IN IF c.odd THEN Odd11!InterpolationRight(Len(c.y), c.y) ELSE Even!InterpolationRight(Len(c.y), c.y)

\* A decoder takes the encodings of numbers and no other element.
CodesRight ==
  On("codes") =>
    LET c == case[1] IN IF c.odd THEN c.e < 11 => Odd11!DecodersRight(c.width, c.e) ELSE Even!DecodersRight(c.width, c.e)

\* Sums of numbers checked in the field hold modulo the width only, up to the
\* largest number of terms the field is accepted for.
WrappingSumsRight ==
  On("sums") =>
    LET c == case[1] IN
    IF c.odd THEN Odd17!SumRight(Number(OddWire, "P", c.n, c.expected), [i \in DOMAIN c.terms |-> Number(OddWire, "P", c.n, c.terms[i])])
    ELSE Even!SumRight(Number(EvenWire, "N", c.n, c.expected), [i \in DOMAIN c.terms |-> Number(EvenWire, "mixed", c.n, c.terms[i])])

\* The product of two elements of the binary field, computed bit by bit in a
\* circuit over either field, and by either multiplication of the field.
ProductsRight ==
  On("products") =>
    LET c == case[1]
        z == gf_mul(4, 3, c.x, c.y)
    IN /\ IF c.odd THEN Odd!Means(Odd!gf_product(Number(OddWire, "mixed", 4, c.x), Number(OddWire, "N", 4, c.y)), z)
          ELSE Even!Means(Even!gf_product(Number(EvenWire, "mixed", 4, c.x), Number(EvenWire, "N", 4, c.y)), z)
       /\ mul_pclmul(4, 3, c.x, c.y) = z
       /\ c.x # 0 => gf_mul(4, 3, c.x, gf_invert(4, 3, c.x)) = 1

-----------------------------------------------------------------------------
(***************************************************************************)
(* Cases of the arithmetic of the runtime's fields.                        *)
(***************************************************************************)
\* Two limbs of two bits, for every odd modulus of four bits; one limb a word
\* and two limbs a word.
Fp64 == INSTANCE Montgomery WITH LIMB_BITS <- 2, L <- 2, ACCUM_L <- 5, BYTE_BITS <- 1, LIMBS_PER_WORD <- 1
Fp32 == INSTANCE Montgomery WITH LIMB_BITS <- 1, L <- 4, ACCUM_L <- 10, BYTE_BITS <- 1, LIMBS_PER_WORD <- 2
Fp192 == INSTANCE Montgomery WITH LIMB_BITS <- 2, L <- 3, ACCUM_L <- 7, BYTE_BITS <- 2, LIMBS_PER_WORD <- 1
\* The shape of P-256 with x = 2: the modulus is 199.
P256_32 == INSTANCE Montgomery WITH LIMB_BITS <- 1, L <- 8, ACCUM_L <- 18, BYTE_BITS <- 1, LIMBS_PER_WORD <- 2
P256_64 == INSTANCE Montgomery WITH LIMB_BITS <- 2, L <- 4, ACCUM_L <- 9, BYTE_BITS <- 1, LIMBS_PER_WORD <- 1

\* Binary fields of degree 4 (x^4 + x + 1), 16 (x^16 + x^5 + x^3 + x + 1) and 28
\* (x^28 + x + 1).  With words of 8 bits and two classes, as with 64 and four,
\* the bits of a class in a product are just enough for their carries.
Gf4 == INSTANCE BinaryProducts WITH h <- 2, low <- 3, b <- 2, g <- 1
Gf6 == INSTANCE BinaryProducts WITH h <- 3, low <- 3, b <- 3, g <- 2
Gf2_16 == INSTANCE BinaryProducts WITH h <- 8, low <- 43, b <- 8, g <- 2
Gf2_28 == INSTANCE BinaryProducts WITH h <- 14, low <- 3, b <- 2, g <- 3

Moduli == {m \in 3 .. 15 : m % 2 = 1}
WideModuli == {3, 33, 61, 63}
WideNumbers == {0, 1, 2, 31, 32, 47, 60, 61, 62, 63}
P256Numbers == {0, 1, 2, 63, 64, 100, 127, 128, 150, 197, 198}
SomeWords == {0, 1, 85, 128, 170, 199, 255}
Elements == {0, 1, 2, 3, 16383, 16384, 2^27, 2^28 - 1, 178956970, 219540062}
Fields64 == [m \in Moduli |-> Fp64!new_generic(Fp64!Limbs(2, m))]
Fields32 == [m \in Moduli |-> Fp32!new_generic(Fp32!Limbs(4, m))]
Fields192 == [m \in WideModuli |-> Fp192!new_generic(Fp192!Limbs(3, m))]
Shape64 == P256_64!new_generic(P256_64!p256_modulus_halves)
Shape32 == P256_32!new_generic(P256_32!p256_modulus_whole)

NextField ==
  \/ Pick("primes", {c \in [m : Moduli, x : 0 .. 15, y : 0 .. 15] : c.x < c.m \/ c.y = 0})
  \/ Pick("wide primes", {c \in [m : WideModuli, x : WideNumbers, y : WideNumbers] : c.x < c.m /\ c.y < c.m})
  \/ Pick("p256", [x : P256Numbers, y : P256Numbers])
  \/ Pick("binary words", [x : 0 .. 255, y : SomeWords])
  \/ Pick("binary elements", [x : 0 .. 15, y : 0 .. 15] \cup [x : Elements, y : Elements])

\* The four operations on arrays of limbs are those of the integers modulo
\* the modulus, however close it is to the largest number of the limbs.
MontgomeryRight ==
  /\ On("primes") => LET c == case[1] IN
       c.x < c.m /\ c.y < c.m => /\ Fp64!ArithmeticRight(Fields64[c.m], c.m, c.x, c.y)
                                 /\ Fp32!ArithmeticRight(Fields32[c.m], c.m, c.x, c.y)
  /\ On("wide primes") => LET c == case[1] IN Fp192!ArithmeticRight(Fields192[c.m], c.m, c.x, c.y)

\* The greatest common divisor ends with the inverse.
InversesRight ==
  /\ On("primes") => LET c == case[1] IN
       c.y = 0 /\ c.x \in 1 .. c.m - 1 => /\ Fp64!InverseRight(Fields64[c.m], c.m, c.x)
                                          /\ Fp32!InverseRight(Fields32[c.m], c.m, c.x)
  /\ On("wide primes") => LET c == case[1] IN c.y = 0 /\ c.x > 0 => Fp192!InverseRight(Fields192[c.m], c.m, c.x)

\* A sum of as many products as the accumulator holds loses no carry, and its
\* reduction takes out the powers of the radix it brings in.
AccumulatorsRight ==
  /\ On("primes") => LET c == case[1] IN
       c.x < c.m /\ c.y < c.m => \A n \in 0 .. Fp64!MaxProducts : /\ Fp64!SumRight(Fields64[c.m], c.m, c.x, c.y, n)
                                                                  /\ Fp32!SumRight(Fields32[c.m], c.m, c.x, c.y, n)
  /\ On("wide primes") => LET c == case[1] IN
       \A n \in {1, Fp192!MaxProducts} : Fp192!SumRight(Fields192[c.m], c.m, c.x, c.y, n)

\* Bytes, words, numbers and samples denote the same element, and those that
\* are not below the modulus are refused, drawn again or reduced.
ConversionsRight ==
  On("primes") => LET c == case[1] IN
    c.y = 0 => /\ Fp64!ConversionsRight(Fields64[c.m], c.m, c.x)
               /\ Fp32!ConversionsRight(Fields32[c.m], c.m, c.x)

\* The reductions written for P-256 agree with the general multiplication.
StrategiesAgree ==
  On("p256") => LET c == case[1] IN
    /\ P256_64!StrategiesAgree_64(Shape64, P256_64!Limbs(4, c.x), P256_64!Limbs(4, c.y))
    /\ P256_32!StrategiesAgree_32(Shape32, P256_32!Limbs(8, c.x), P256_32!Limbs(8, c.y))

\* Every way to multiply words without carries gives the same product.
BinaryWordsRight == On("binary words") => LET c == case[1] IN Gf2_16!WordsRight(c.x, c.y)

\* The machines' products, sums of products and inverses are those of the
\* field: a proof made on one machine is verified on another.
MachinesAgree ==
  On("binary elements") => LET c == case[1] IN
    /\ c.x < 16 /\ c.y < 16 => /\ Gf4!MachinesAgree(c.x, c.y)
                               /\ c.y = 0 => Gf4!InverseRight(c.x) /\ Gf4!ConversionsRight(c.x)
                               /\ c.x = c.y => Gf4!PointsRight(<<1, 6, 2, 10>>, c.x)
    /\ {c.x, c.y} \subseteq Elements => Gf2_28!MachinesAgree(c.x, c.y)
    /\ c.x < 16 /\ c.y = 1 => \A k \in 0 .. 3 : Gf6!InverseRight(c.x + 16 * k)

-----------------------------------------------------------------------------
(***************************************************************************)
(* Cases of the transforms and of the interpolation built on them.         *)
(***************************************************************************)
\* The prime 31 is 7 modulo 8 like that of P-256, and its extension has roots
\* of order 32 on the unit circle.  The prime 17 has roots of order 16.
R31 == INSTANCE RangeInterpolation WITH p <- 31, omega <- <<2, 20>>, omega_order <- 32
F17 == INSTANCE RangeInterpolation WITH p <- 17, omega <- <<3, 0>>, omega_order <- 16
\* Interpolation with transforms of at most 8 and of at most 32 elements.
I8 == INSTANCE RangeInterpolation WITH p <- 31, omega <- <<4, 4>>, omega_order <- 8
I32 == INSTANCE RangeInterpolation WITH p <- 31, omega <- <<2, 20>>, omega_order <- 32
\* F_7[x] / (x^6 - 3), as the code's, and F_7[x] / (x^2 - 3); the auxiliary
\* prime 193 fills a word of 8 bits and has roots of order 8.  At most 5 values
\* keep a sum of products of 6 below it.
E6 == INSTANCE ExtensionField WITH Q <- 7, D <- 6, BETA <- 3, BYTE_BITS <- 2, BASE_SERIALIZED_SIZE <- 2,
        WORD_BYTES <- 5, WORDS <- 3, SAMPLE_BITS <- 3,
        CRT_PRIME <- 193, CRT_OMEGA <- 43, CRT_OMEGA_ORDER <- 8, CRT_BITS <- 8,
        CRT_MONTGOMERY_ONE <- 63, CRT_MONTGOMERY_R2 <- 109, CRT_MONTGOMERY_NPRIME <- 191
E2 == INSTANCE ExtensionField WITH Q <- 7, D <- 2, BETA <- 3, BYTE_BITS <- 2, BASE_SERIALIZED_SIZE <- 2,
        WORD_BYTES <- 3, WORDS <- 2, SAMPLE_BITS <- 3,
        CRT_PRIME <- 193, CRT_OMEGA <- 43, CRT_OMEGA_ORDER <- 8, CRT_BITS <- 8,
        CRT_MONTGOMERY_ONE <- 63, CRT_MONTGOMERY_R2 <- 109, CRT_MONTGOMERY_NPRIME <- 191
\* GF(16) with its Cantor basis, and spans in it of fewer elements.
Gf == INSTANCE FiniteField
Times16 == Build(16, LAMBDA x : Build(16, LAMBDA y : Gf!gf_mul(4, 3, x - 1, y - 1)))
A16(span) == INSTANCE AdditiveTransform WITH m <- 4, plus <- XorTable, times <- Times16, basis <- span
Cantor == <<1, 6, 2, 10>>
Hat == A16(Cantor)!w_hat
Novel16 == A16(Cantor)!NovelTable
Powers31 == R31!Powers

Lengths == {1, 2, 4, 8, 16, 32}
\* Inputs on which linear maps of a length agree only if they are equal.
Unit(n, k) == [i \in 1 .. n |-> IF i = k THEN 1 ELSE 0]
Mixed(n) == [i \in 1 .. n |-> (i * i + 5 * i + 3) % 31]
Inputs(n) == {Unit(n, k) : k \in 1 .. n} \cup {Mixed(n)}

Sources == {<<b, b + n>> : b \in {0, 1, 7, 19}, n \in 1 .. 9} \cup {<<0, 31>>, <<22, 31>>}
Destinations == {<<0, 31>>, <<0, 0>>, <<3, 8>>, <<7, 16>>, <<12, 31>>, <<30, 31>>, <<0, 19>>}
Coefficients(n) == {Unit(n, n), Mixed(n)}
Sextics == {<<1, 0, 0, 0, 0, 0>>, <<0, 1, 0, 0, 0, 0>>, <<0, 0, 0, 0, 0, 6>>, <<3, 0, 0, 0, 0, 0>>, <<6, 6, 6, 6, 6, 6>>,
            <<0, 0, 1, 0, 5, 0>>, <<1, 2, 3, 4, 5, 6>>, <<0, 0, 0, 4, 0, 0>>, <<0, 3, 0, 0, 2, 1>>, <<0, 0, 0, 0, 0, 0>>}
Spans == {<<1, 6>>, <<9, 3>>, <<6, 10, 5>>, <<12, 8, 3>>, Cantor, <<15>>, <<7, 14, 13, 11>>}
Of16(n) == {Unit(n, k) : k \in 1 .. n} \cup {[i \in 1 .. n |-> (i * 7 + 3) % 16]}

NextTransform ==
  \/ Pick("spectra", UNION {Inputs(n) : n \in Lengths})
  \/ Pick("ranges", UNION {[source : {s}, destination : Destinations, coefficients : Coefficients(s[2] - s[1])] : s \in Sources})
  \/ Pick("sextics", Sextics \X Sextics)
  \/ Pick("quadratics", {<<a, b>> : a \in 0 .. 6, b \in 0 .. 6} \X {<<a, b>> : a \in 0 .. 6, b \in 0 .. 6})
  \/ Pick("auxiliary", (0 .. 192) \X {0, 1, 2, 96, 97, 191, 192})
  \/ Pick("crt", {c \in [source : (0 .. 6) \X (1 .. 7), destination : (0 .. 7) \X (0 .. 7), power : {0, 1, 3, 4}] :
                    c.source[1] < c.source[2] /\ c.destination[1] <= c.destination[2] /\ c.power < c.source[2] - c.source[1]})
  \/ Pick("cosets", UNION {[b : Of16(2^l), coset : {0, 4, 8, 11, 15}] : l \in 0 .. 4})
  \/ Pick("binary ranges", {c \in [source : (0 .. 15) \X (1 .. 16), destination : {<<0, 16>>, <<3, 13>>, <<9, 9>>, <<6, 7>>}] :
                             c.source[1] < c.source[2]})
  \/ Pick("spans", [span : Spans, e : 0 .. 15])
  \/ Pick("extension", (0 .. 30) \X {0, 1, 2, 15, 16, 29, 30})

\* The transform in place gives the half-complex spectrum of its definition,
\* whether the length is a power of four or not, and the inverse transform
\* gives the input back, scaled.
SpectraRight ==
  On("spectra") => LET a == case[1] IN R31!RootRight /\ R31!ForwardRight(Powers31, a) /\ R31!BackwardRight(a)

\* The transform of a field with roots of its own, and its inverse.
FieldTransformsRight ==
  On("spectra") /\ Len(case[1]) <= 16 => F17!FieldTransformRight([i \in DOMAIN case[1] |-> case[1][i] % 17], 3, 16)

\* Products with three multiplications, with a conjugate, and inverses.
ExtensionRight ==
  On("extension") => LET c == case[1] IN \A y \in {<<0, 1>>, <<1, 0>>, <<30, 30>>, <<2, 20>>, <<17, 5>>} : R31!ExtensionRight(c, y)

\* Every plan a backend accepts gives the values of the polynomial at every
\* destination: before, after, across and inside the source, in one block or
\* in several.
PlansRight ==
  On("ranges") => LET c == case[1] IN /\ I8!PlansRight(c.coefficients, c.source, c.destination)
                                      /\ I32!PlansRight(c.coefficients, c.source, c.destination)

\* Products and inverses in the extension, also on the paths for elements of
\* the base field and when a pivot is zero.
ExtensionFieldRight ==
  /\ On("sextics") => LET c == case[1] IN E6!ExtensionArithmeticRight(c[1], c[2]) /\ E6!ExtensionInverseRight(c[1])
  /\ On("quadratics") => LET c == case[1] IN E2!ExtensionArithmeticRight(c[1], c[2]) /\ E2!ExtensionInverseRight(c[1])

\* An element has one encoding in bytes and one in words, and a draw gives a
\* canonical element.
ExtensionEncodingsRight ==
  /\ On("sextics") => LET c == case[1] IN \A byte \in 0 .. 3 : E6!EncodingsRight(c[1], byte, c[2] \o <<7, 15>> \o c[1])
  /\ On("quadratics") => LET c == case[1] IN E2!EncodingsRight(c[1], c[2][1] % 4, <<7>> \o c[2] \o <<9, 1>>) /\ E2!LookupRight((c[1][1] % 6) + 1)

\* Convolution in the auxiliary field gives the same values as evaluating the
\* polynomial, for every component and for the base field alone.
CrtPlansRight ==
  /\ On("auxiliary") => LET c == case[1] IN E2!AuxiliaryRight(c[1], c[2])
  /\ On("crt") => LET c == case[1]
                     n == c.source[2] - c.source[1]
                 IN E2!CrtPlanRight(<<Unit(n, c.power + 1), [i \in 1 .. n |-> (i * i + 5) % 7]>>, c.source, c.destination)

\* The additive transform evaluates its polynomial on every coset, and the
\* bidirectional one exchanges values and coefficients for every number of
\* values known, at the beginning or at the end.
CosetsRight ==
  On("cosets") => LET c == case[1]
                      l == CHOOSE k \in 0 .. 4 : 2^k = Len(c.b)
                  IN /\ A16(Cantor)!TransformsRight(Novel16, Hat, l, c.coset, c.b)
                     /\ \A k \in 0 .. Len(c.b) : A16(Cantor)!BidirectionalRight(Novel16, Hat, l, c.coset, k, c.b)

\* From any range of points to any other the values are those of the
\* polynomial of degree below the number of source points: contained in a half,
\* crossing the halves, at an end, with destinations in other cosets.
BinaryRangesRight ==
  On("binary ranges") => LET c == case[1]
                             n == c.source[2] - c.source[1]
                         IN \A k \in {Unit(n, n), [i \in 1 .. n |-> (i * 7 + 3) % 16]} :
                              A16(Cantor)!RangesRight(Hat, k, c.source, c.destination)

\* The coordinates of an element of a span, and of no other.
CoordinatesRight ==
  On("spans") => LET c == case[1] IN A16(c.span)!CoordinatesRight(A16(c.span)!rref, c.e)
=============================================================================
