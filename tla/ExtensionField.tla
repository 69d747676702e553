--------------------------- MODULE ExtensionField ---------------------------
(***************************************************************************)
(* The field of the ML-DSA circuits, F_Q[x] / (x^D - BETA)                 *)
(* (core/algebra/fp24.rs and fp24_ext6.rs, and the same field at run time  *)
(* and at compile time), and interpolation over it by exact convolution in *)
(* an auxiliary prime field (range_interpolation/crt.rs, crt_fft.rs).      *)
(*                                                                         *)
(* In the code Q = 8380417, D = 6, BETA = 7, the auxiliary prime has 64    *)
(* bits.  An element is the sequence of its D coefficients.                *)
(***************************************************************************)
EXTENDS Integers, Sequences, SequencesExt, Loops

CONSTANTS Q, D, BETA,
          BYTE_BITS, BASE_SERIALIZED_SIZE,   \* a coefficient takes so many bytes
          WORD_BYTES, WORDS,                 \* and an element so many words
          SAMPLE_BITS,                       \* bits of a draw that are kept
          CRT_PRIME, CRT_OMEGA, CRT_OMEGA_ORDER, CRT_BITS,
          CRT_MONTGOMERY_ONE, CRT_MONTGOMERY_R2, CRT_MONTGOMERY_NPRIME

(***************************************************************************)
(* Coefficients.                                                           *)
(***************************************************************************)
add_base(a, b) == IF a + b >= Q THEN a + b - Q ELSE a + b
sub_base(a, b) == IF a >= b THEN a - b ELSE a + Q - b
mul_base(a, b) == (a * b) % Q
half_base(a) == IF a % 2 = 0 THEN a \div 2 ELSE a \div 2 + (Q + 1) \div 2
\* Binary extended gcd: a takes at most twice the bits of Q halvings.
MaxHalvings == 2 * (CHOOSE k \in 1 .. 30 : Q <= 2^k /\ 2^(k - 1) < Q)
gcd_step_Unswapped(s) ==
  IF s.a % 2 = 0 THEN [s EXCEPT !.a = s.a \div 2, !.u = half_base(s.u)]
  ELSE LET t == IF s.a < s.b THEN [s EXCEPT !.a = s.b, !.b = s.a] ELSE s
       IN [t EXCEPT !.a = (t.a - t.b) \div 2, !.u = half_base(sub_base(t.u, t.v))]
gcd_step(s) ==
  IF s.a % 2 = 0 THEN [s EXCEPT !.a = s.a \div 2, !.u = half_base(s.u)]
  ELSE LET t == IF s.a < s.b THEN [a |-> s.b, b |-> s.a, u |-> s.v, v |-> s.u] ELSE s
       IN [t EXCEPT !.a = (t.a - t.b) \div 2, !.u = half_base(sub_base(t.u, t.v))]
GcdState(value) ==
  For([a |-> value, b |-> Q, u |-> 1, v |-> 0], 1, MaxHalvings, LAMBDA s, i : IF s.a = 0 THEN s ELSE gcd_step(s))
invert_base(value) == GcdState(value).v

(***************************************************************************)
(* Elements.                                                               *)
(***************************************************************************)
zero == Build(D, LAMBDA i : 0)
u64_to_element(n) == [zero EXCEPT ![1] = n]
contains(a) == \A i \in 2 .. D : a[i] = 0     \* in the base field
add_extension(a, b) == Build(D, LAMBDA i : add_base(a[i], b[i]))
sub_extension(a, b) == Build(D, LAMBDA i : sub_base(a[i], b[i]))
\* A product with an element of the base field takes D multiplications.
mul_extension(a, b) ==
  LET product(k) == SumOver(1, D, LAMBDA i : IF k - i \in 0 .. D - 1 THEN a[i] * b[k - i + 1] ELSE 0)
  IN CASE contains(b) -> Build(D, LAMBDA i : mul_base(a[i], b[1]))
       [] contains(a) -> Build(D, LAMBDA i : mul_base(a[1], b[i]))
       [] OTHER -> Build(D, LAMBDA k : (product(k) + (IF k < D THEN product(k + D) * BETA ELSE 0)) % Q)

\* Gauss-Jordan on the matrix of the multiplication.
Circulant(a) ==
  Build(D, LAMBDA row : Build(D, LAMBDA column :
    IF row >= column THEN a[row - column + 1] ELSE mul_base(a[row + D - column + 1], BETA)))
eliminate(s, column) ==
  LET pivot == CHOOSE row \in column .. D : s.matrix[row][column] # 0 /\ \A r \in column .. row - 1 : s.matrix[r][column] = 0
      swapped == [matrix |-> [s.matrix EXCEPT ![column] = s.matrix[pivot], ![pivot] = s.matrix[column]],
                  result |-> [s.result EXCEPT ![column] = s.result[pivot], ![pivot] = s.result[column]]]
      scale == invert_base(swapped.matrix[column][column])
      row0 == Build(D, LAMBDA j : mul_base(swapped.matrix[column][j], scale))
      res0 == mul_base(swapped.result[column], scale)
      factor(row) == swapped.matrix[row][column]
  IN [matrix |-> Build(D, LAMBDA row : IF row = column THEN row0
                   ELSE Build(D, LAMBDA j : sub_base(swapped.matrix[row][j], mul_base(factor(row), row0[j])))),
      result |-> Build(D, LAMBDA row : IF row = column THEN res0
                   ELSE sub_base(swapped.result[row], mul_base(factor(row), res0)))]
invert_extension(a) ==
  IF contains(a) THEN u64_to_element(invert_base(a[1]))
  ELSE For([matrix |-> Circulant(a), result |-> u64_to_element(1)], 1, D, eliminate).result

lookup_point(n, i) == u64_to_element((2 * i + Q - ((n - 1) % Q)) % Q)
newton_denominator(i) == u64_to_element(invert_base(i))
reduce_nat(bytes) ==
  u64_to_element(For(0, 1, Len(bytes), LAMBDA acc, k : (acc * 2^BYTE_BITS + bytes[Len(bytes) + 1 - k]) % Q))

(***************************************************************************)
(* Bytes and words.                                                        *)
(***************************************************************************)
Refused == <<>>
SERIALIZED_SIZE == BASE_SERIALIZED_SIZE * D
BytesOf(n, x) == Build(n, LAMBDA i : (x \div 2^(BYTE_BITS * (i - 1))) % 2^BYTE_BITS)
OfBytes(bytes) == SumOver(1, Len(bytes), LAMBDA i : bytes[i] * 2^(BYTE_BITS * (i - 1)))
serialize(a) == Concat(1, D, LAMBDA i : BytesOf(BASE_SERIALIZED_SIZE, a[i]))
deserialize(bytes) ==
  LET coefficients == Build(D, LAMBDA i : OfBytes(SubSeq(bytes, (i - 1) * BASE_SERIALIZED_SIZE + 1, i * BASE_SERIALIZED_SIZE)))
  IN IF Len(bytes) # SERIALIZED_SIZE THEN Refused
     ELSE IF \E i \in 1 .. D : coefficients[i] >= Q THEN Refused ELSE coefficients
to_words64(a) ==
  LET bytes == serialize(a) \o Build(WORDS * WORD_BYTES - SERIALIZED_SIZE, LAMBDA i : 0)
  IN Build(WORDS, LAMBDA i : OfBytes(SubSeq(bytes, (i - 1) * WORD_BYTES + 1, i * WORD_BYTES)))
words64_to_element_Padding(words) == deserialize(SubSeq(Concat(1, WORDS, LAMBDA i : BytesOf(WORD_BYTES, words[i])), 1, SERIALIZED_SIZE))
words64_to_element(words) ==
  LET bytes == Concat(1, WORDS, LAMBDA i : BytesOf(WORD_BYTES, words[i]))
  IN IF \E i \in SERIALIZED_SIZE + 1 .. Len(bytes) : bytes[i] # 0 THEN Refused
     ELSE deserialize(SubSeq(bytes, 1, SERIALIZED_SIZE))
\* Every coefficient takes draws until one is below Q.
sample(draws) ==
  LET kept == SelectSeq([i \in DOMAIN draws |-> draws[i] % 2^SAMPLE_BITS], LAMBDA d : d < Q)
  IN SubSeq(kept, 1, D)
\* The base field alone.
subfield_to_bytes(a) == BytesOf(BASE_SERIALIZED_SIZE, a[1])
subfield_of_bytes(bytes) ==
  IF Len(bytes) # BASE_SERIALIZED_SIZE \/ OfBytes(bytes) >= Q THEN Refused ELSE u64_to_element(OfBytes(bytes))
subfield_sample(draws) ==
  u64_to_element(SelectSeq([i \in DOMAIN draws |-> draws[i] % 2^SAMPLE_BITS], LAMBDA d : d < Q)[1])

(***************************************************************************)
(* The auxiliary field: one limb in Montgomery form.                       *)
(***************************************************************************)
CRT_R == 2^CRT_BITS
crt_add(a, b) ==
  LET sum == (a + b) % CRT_R
  IN CASE a + b >= CRT_R -> sum + (CRT_R - CRT_PRIME)
       [] a + b < CRT_R /\ sum >= CRT_PRIME -> sum - CRT_PRIME
       [] OTHER -> sum
crt_sub(a, b) == IF a >= b THEN a - b ELSE CRT_PRIME - (b - a)
crt_mul_Wrapped(a, b) ==
  LET low == (a * b) % CRT_R
      correction == ((low * CRT_MONTGOMERY_NPRIME) % CRT_R) * CRT_PRIME
      carry == (low + (correction % CRT_R)) \div CRT_R
      value == ((a * b) \div CRT_R + correction \div CRT_R + carry) % CRT_R
  IN IF value >= CRT_PRIME THEN value - CRT_PRIME ELSE value
crt_mul(a, b) ==
  LET low == (a * b) % CRT_R
      correction == ((low * CRT_MONTGOMERY_NPRIME) % CRT_R) * CRT_PRIME
      carry == (low + (correction % CRT_R)) \div CRT_R
      value == (a * b) \div CRT_R + correction \div CRT_R + carry
  IN CASE value >= CRT_R -> ((value % CRT_R) + (CRT_R - CRT_PRIME)) % CRT_R
       [] value < CRT_R /\ value >= CRT_PRIME -> value - CRT_PRIME
       [] OTHER -> value
crt_from_u64(x) == crt_mul(x, CRT_MONTGOMERY_R2)
crt_to_u64(x) == crt_mul(x, 1)
crt_pow(base, exponent) ==
  For([result |-> CRT_MONTGOMERY_ONE, base |-> base], 0, CRT_BITS - 1, LAMBDA s, i :
    [result |-> IF Bit(exponent, i) = 1 THEN crt_mul(s.result, s.base) ELSE s.result, base |-> crt_mul(s.base, s.base)]).result
root_for_size(size) == crt_pow(crt_from_u64(CRT_OMEGA), CRT_OMEGA_ORDER \div size)
root_table(root, size) == For(<<CRT_MONTGOMERY_ONE>>, 1, size - 1, LAMBDA w, i : Append(w, crt_mul(w[i], root)))
T == INSTANCE RangeInterpolation WITH p <- Q, omega <- <<1, 0>>, omega_order <- 1   \* no transform of its own
fft_backward(values, roots) ==
  LET n == Len(values)
      butterfly(a, o, j, half) ==
        LET product == crt_mul(a[o + j + half + 1], roots[j * (n \div (2 * half)) + 1])
            old == a[o + j + 1]
        IN [a EXCEPT ![o + j + 1] = crt_add(old, product), ![o + j + half + 1] = crt_sub(old, product)]
      pass(a, half) == T!EveryChunk(a, 2 * half, LAMBDA b, o : For(b, 0, half - 1, LAMBDA e, j : butterfly(e, o, j, half)))
  IN For(T!bitrev(values), 1, T!Log2(n), LAMBDA a, k : pass(a, 2^(k - 1)))

(***************************************************************************)
(* Interpolation, one component after the other.                           *)
(***************************************************************************)
crt_can_interpolate(source, destination) ==
  /\ T!valid(source, destination, Q)
  /\ T!needs_work(source, destination) =>
       T!Length(source) <= CRT_OMEGA_ORDER /\ T!Length(source) * (Q - 1)^2 < CRT_PRIME
prepare(block, inverse_roots, scale) ==
  fft_backward(Build(Len(block.kernel), LAMBDA i : crt_mul(crt_from_u64(block.kernel[i]), scale)), inverse_roots)
prepare_component(values, component, weights, inverse_roots) ==
  fft_backward(Build(Len(inverse_roots), LAMBDA i :
    IF i <= Len(values) THEN crt_from_u64(mul_base(values[i][component], weights[i])) ELSE 0), inverse_roots)
write_component(work, destination, component, block) ==
  For(destination, 1, Len(block.factors), LAMBDA d, i :
    [d EXCEPT ![block.output + i][component] = mul_base(crt_to_u64(work[i]) % Q, block.factors[i])])
apply_components(source, destination, values, components) ==
  LET known == T!trivial(source, destination, values, zero)
      geometry == T!ArithmeticGeometry(source, destination, CRT_OMEGA_ORDER)
      n == geometry.padding
      roots == root_table(root_for_size(n), n)
      inverse_roots == root_table(crt_pow(root_for_size(n), CRT_PRIME - 2), n)
      scale == crt_pow(crt_from_u64(n), CRT_PRIME - 2)
      component(d, c) ==
        LET prepared == prepare_component(values, c, geometry.weights, inverse_roots)
        IN ForEach(d, geometry.blocks, LAMBDA e, block :
             LET spectrum == prepare(block, inverse_roots, scale)
             IN write_component(fft_backward(Build(n, LAMBDA i : crt_mul(prepared[i], spectrum[i])), roots), e, c, block))
  IN IF known.done THEN known.out ELSE For(known.out, 1, components, component)
\* With a hint that the values are in the base field.
apply_subfield(source, destination, values) == apply_components(source, destination, values, 1)

(***************************************************************************)
(* What they are for.                                                      *)
(***************************************************************************)
\* The product by definition: coefficient k of the polynomial product, with
\* x^D = BETA.
Product(a, b) ==
  [k \in 1 .. D |-> (SumOver(1, D, LAMBDA i : SumOver(1, D, LAMBDA j :
     IF (i + j - 2) % D = k - 1 THEN a[i] * b[j] * (IF i + j - 2 >= D THEN BETA ELSE 1) ELSE 0))) % Q]
ExtensionArithmeticRight(a, b) ==
  /\ mul_extension(a, b) = Product(a, b)
  /\ add_extension(sub_extension(a, b), b) = a
  /\ contains(a) /\ contains(b) => mul_extension(a, b) = u64_to_element((a[1] * b[1]) % Q)
ExtensionInverseRight(a) ==
  /\ a # zero => Product(a, invert_extension(a)) = u64_to_element(1)
  /\ a[1] # 0 => GcdState(a[1]).a = 0 /\ mul_base(a[1], newton_denominator(a[1])[1]) = 1
EncodingsRight(a, byte, draws) ==
  /\ deserialize(serialize(a)) = a /\ words64_to_element(to_words64(a)) = a
  /\ \A i \in 1 .. SERIALIZED_SIZE :
       LET bytes == [serialize(a) EXCEPT ![i] = byte]
       IN deserialize(bytes) # Refused => serialize(deserialize(bytes)) = bytes
  /\ \A i \in 0 .. WORD_BYTES - 1 :
       LET words == [to_words64(a) EXCEPT ![WORDS] = (@ + 2^(BYTE_BITS * i)) % 2^(BYTE_BITS * WORD_BYTES)]
       IN words64_to_element(words) # Refused => to_words64(words64_to_element(words)) = words
  /\ contains(a) => subfield_of_bytes(subfield_to_bytes(a)) = a
  /\ LET bytes == BytesOf(BASE_SERIALIZED_SIZE, byte) IN subfield_of_bytes(bytes) # Refused => byte < Q
  /\ reduce_nat(serialize(a))[1] = OfBytes(serialize(a)) % Q
  /\ \A i \in 1 .. D : sample(draws)[i] \in 0 .. Q - 1
  /\ subfield_sample(draws) = u64_to_element(sample(draws)[1])
\* Lookup points are distinct and symmetric around zero.
LookupRight(n) ==
  /\ \A i, j \in 0 .. n - 1 : lookup_point(n, i) = lookup_point(n, j) => i = j
  /\ \A i \in 0 .. n - 1 : add_extension(lookup_point(n, i), lookup_point(n, n - 1 - i)) = zero
AuxiliaryRight(x, y) ==
  /\ CRT_MONTGOMERY_ONE = CRT_R % CRT_PRIME /\ CRT_MONTGOMERY_R2 = (CRT_MONTGOMERY_ONE * CRT_MONTGOMERY_ONE) % CRT_PRIME
  /\ (CRT_MONTGOMERY_NPRIME * CRT_PRIME) % CRT_R = CRT_R - 1
  /\ crt_add(x, y) = (x + y) % CRT_PRIME /\ crt_sub(crt_add(x, y), y) = x
  /\ crt_to_u64(crt_mul(crt_from_u64(x), crt_from_u64(y))) = (x * y) % CRT_PRIME
CrtPlanRight(coefficients, source, destination) ==
  LET at(j, c) == T!Eval(coefficients[c], j)
      on(range) == Build(T!Length(range), LAMBDA k : Build(D, LAMBDA c : at(range[1] + k - 1, c)))
      base(v) == Build(Len(v), LAMBDA k : u64_to_element(v[k][1]))
  IN crt_can_interpolate(source, destination) =>
       /\ apply_components(source, destination, on(source), D) = on(destination)
       /\ apply_subfield(source, destination, base(on(source))) = base(on(destination))
=============================================================================
