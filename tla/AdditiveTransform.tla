------------------------- MODULE AdditiveTransform -------------------------
(***************************************************************************)
(* Interpolation over a binary field: the additive transform on cosets of  *)
(* the span of a basis (runtime/algebra/lch14.rs), the interpolation from  *)
(* any range of points to any other built on it                            *)
(* (range_interpolation/binary.rs), and the coordinates of an element      *)
(* (subfield.rs).                                                          *)
(*                                                                         *)
(* Elements are numbers below 2^m; arrays are sequences, index k at        *)
(* position k + 1.  Point i is the sum of the basis elements of the bits   *)
(* of i.                                                                   *)
(***************************************************************************)
EXTENDS Integers, Sequences, FiniteSets, SequencesExt, Loops

CONSTANTS m,       \* the degree of the field
          plus,    \* exclusive or of numbers of m bits: plus[x + 1][y + 1]
          times,   \* the multiplication, likewise
          basis    \* of the points

dimension == Len(basis)
Add(x, y) == plus[x + 1][y + 1]
Mul(x, y) == times[x + 1][y + 1]
InverseOf(x) == CHOOSE y \in 0 .. 2^m - 1 : Mul(x, y) = 1
Xor(a, b) == plus[a + 1][b + 1]               \* of indices

(***************************************************************************)
(* Coordinates: reduced rows, with the combination that gives each.        *)
(***************************************************************************)
rref ==
  LET n == dimension
      start == [u |-> basis, linv |-> Build(n, LAMBDA i : 2^(i - 1)), ldnz |-> <<>>]
      step(s, j) ==
        LET rnk == Len(s.ldnz) + 1
            found == {i \in rnk .. n : Bit(s.u[i], j) = 1}
            i0 == CHOOSE i \in found : \A k \in found : i <= k
            swap(f) == [f EXCEPT ![rnk] = f[i0], ![i0] = f[rnk]]
            u == swap(s.u)
            linv == swap(s.linv)
            clears(i) == i # rnk /\ Bit(u[i], j) = 1
        IN IF found = {} THEN s
           ELSE [u    |-> Build(n, LAMBDA i : IF clears(i) THEN Add(u[i], u[rnk]) ELSE u[i]),
                 linv |-> Build(n, LAMBDA i : IF clears(i) THEN Xor(linv[i], linv[rnk]) ELSE linv[i]),
                 ldnz |-> Append(s.ldnz, j)]
  IN For(start, 0, m - 1, step)
embed(u) == For(0, 1, dimension, LAMBDA t, i : IF Bit(u, i - 1) = 1 THEN Add(t, basis[i]) ELSE t)
solve_Original(rows, e) ==
  For([ue |-> e, u |-> 0], 1, dimension, LAMBDA s, r :
    IF Bit(e, rows.ldnz[r]) = 1 THEN [ue |-> Add(s.ue, basis[r]), u |-> Xor(s.u, rows.linv[r])] ELSE s)
solve(rows, e) ==
  For([ue |-> e, u |-> 0], 1, dimension, LAMBDA s, r :
    IF Bit(s.ue, rows.ldnz[r]) = 1 THEN [ue |-> Add(s.ue, rows.u[r]), u |-> Xor(s.u, rows.linv[r])] ELSE s)
contains(rows, e) == solve(rows, e).ue = 0
NotInSubfield == -1
project(rows, e) == LET s == solve(rows, e) IN IF s.ue # 0 THEN NotInSubfield ELSE s.u
\* A draw gives an element of the span: excess bits are dropped.
subfield_sample(draw) == embed(draw % 2^dimension)

(***************************************************************************)
(* The vanishing polynomials of the spans of the first basis elements, at  *)
(* the basis, normalized; they are the rows of a matrix.                   *)
(***************************************************************************)
w_hat ==
  LET n == dimension
      next(row, i) == Build(n, LAMBDA j : Mul(row[j], Add(row[j], row[i])))
      rows == For(<<basis>>, 1, n - 1, LAMBDA w, i : Append(w, next(w[i], i)))
  IN Build(n, LAMBDA i : Build(n, LAMBDA j : Mul(rows[i][j], InverseOf(rows[i][i]))))
twiddle(w, i, u) == For(0, 0, dimension - 1, LAMBDA t, k : IF Bit(u, k) = 1 THEN Add(t, w[i + 1][k + 1]) ELSE t)
\* All twiddles of a pass at once: every shift doubles the known ones.
twiddles(w, i, l, coset) ==
  For(<<twiddle(w, i, coset)>>, 0, l - 2 - i, LAMBDA tw, k :
    tw \o Build(Len(tw), LAMBDA j : Add(tw[j], w[i + 1][i + k + 2])))

butterfly_fwd(b, x, y, tw) ==
  LET u == Add(b[x], Mul(b[y], tw)) IN [b EXCEPT ![x] = u, ![y] = Add(b[y], u)]
butterfly_bwd(b, x, y, tw) ==
  LET v == Add(b[y], b[x]) IN [b EXCEPT ![y] = v, ![x] = Add(b[x], Mul(v, tw))]
butterfly_diag(b, x, y, tw) == [b EXCEPT ![y] = Add(b[y], b[x]), ![x] = Add(b[x], Mul(b[y], tw))]

\* One pass over the chunks of 2s elements of 2^l.
Pass(b, w, i, l, coset, butterfly(_, _, _, _)) ==
  LET s == 2^i
      tw == twiddles(w, i, l, coset)
  IN For(b, 0, 2^l \div (2 * s) - 1, LAMBDA c, chunk :
       For(c, 1, s, LAMBDA d, v : butterfly(d, chunk * 2 * s + v, chunk * 2 * s + s + v, tw[chunk + 1])))
fft(w, l, coset, b) == For(b, 1, l, LAMBDA c, k : Pass(c, w, l - k, l, coset, butterfly_fwd))
ifft(w, l, coset, b) == For(b, 0, l - 1, LAMBDA c, i : Pass(c, w, i, l, coset, butterfly_bwd))

(***************************************************************************)
(* The transform that knows k values and the coefficients from k on.       *)
(***************************************************************************)
Some(b, from, to, s, tw, butterfly(_, _, _, _)) == For(b, from + 1, to, LAMBDA c, v : butterfly(c, v, v + s, tw))
Left(b) == SubSeq(b, 1, Len(b) \div 2)
Right(b) == SubSeq(b, Len(b) \div 2 + 1, Len(b))
RECURSIVE bidir_recur(_, _, _, _, _)
bidir_recur(w, l, coset, k, b) ==
  LET i == l - 1
      s == 2^i
      tw == twiddle(w, i, coset)
      below ==
        LET b1 == Some(b, k, s, s, tw, butterfly_fwd)
            b2 == bidir_recur(w, i, coset, k, Left(b1)) \o Right(b1)
            b3 == Some(b2, 0, k, s, tw, butterfly_diag)
        IN Left(b3) \o fft(w, i, Xor(coset, s), Right(b3))
      above ==
        LET b1 == ifft(w, i, coset, Left(b)) \o Right(b)
            b2 == Some(b1, k - s, s, s, tw, butterfly_diag)
            b3 == Left(b2) \o bidir_recur(w, i, Xor(coset, s), k - s, Right(b2))
        IN Some(b3, 0, k - s, s, tw, butterfly_bwd)
  IN CASE l = 0 -> b
       [] l > 0 /\ k < s -> below
       [] OTHER -> above
ReverseSlice(b, from, to) == SubSeq(b, 1, from) \o Reverse(SubSeq(b, from + 1, to)) \o SubSeq(b, to + 1, Len(b))
\* Values at the last k points of the coset: the points are reversed by a
\* translation of the coset.
bidir_suffix_Same(w, l, coset, k, b) ==
  ReverseSlice(bidir_recur(w, l, coset, k, ReverseSlice(b, 0, k)), k, 2^l)
bidir_suffix(w, l, coset, k, b) ==
  ReverseSlice(bidir_recur(w, l, Xor(coset, 2^l - 1), k, ReverseSlice(b, 0, k)), k, 2^l)

(***************************************************************************)
(* From values on any interval of a coset, and the coefficients from their *)
(* number on, to all coefficients and all values.                          *)
(***************************************************************************)
Mixed(coefficients, evaluations) == [coefficients |-> coefficients, evaluations |-> evaluations]
Zeros(n) == Build(n, LAMBDA i : 0)
AddAll(x, y) == Build(Len(x), LAMBDA i : Add(x[i], y[i]))
MulAll(x, y) == Build(Len(x), LAMBDA i : Mul(x[i], y[i]))
Drop(x, n) == SubSeq(x, n + 1, Len(x))
Take(x, n) == SubSeq(x, 1, n)
fold_coefficients(lower, upper, tw) == Build(Len(lower), LAMBDA i : Add(lower[i], Mul(tw, upper[i])))
ordinary(w, log, coset, start, samples, tail) ==
  LET count == Len(samples)
      suffix == start # 0 /\ count # 0
      mixed == IF suffix THEN bidir_suffix(w, log, coset, count, samples \o tail)
                         ELSE bidir_recur(w, log, coset, count, samples \o tail)
  IN Mixed(Take(mixed, count) \o tail, IF suffix THEN Drop(mixed, count) \o samples ELSE samples \o Drop(mixed, count))
\* The other half's values, and the coefficients of both, from one half's.
complete_half(w, log, coset, result, upper, offset) ==
  LET half == 2^(log - 1)
      tw == twiddle(w, log - 1, Xor(coset, offset))
      opposite == fft(w, log - 1, Xor(Xor(coset, offset), half), AddAll(result.coefficients, upper))
  IN Mixed(fold_coefficients(result.coefficients, upper, tw) \o upper,
           IF offset = 0 THEN result.evaluations \o opposite ELSE opposite \o result.evaluations)
left_baseline(w, log, coset, start, count, left_samples, tail) ==
  LET half == 2^(log - 1)
      left == Len(left_samples)
      provisional == Zeros(count) \o tail
      upper == Drop(provisional, half)
      folded == fold_coefficients(SubSeq(provisional, left + 1, half), Drop(upper, left), twiddle(w, log - 1, coset))
  IN complete_half(w, log, coset, ordinary(w, log - 1, coset, start, left_samples, folded), upper, 0)
\* The polynomial that vanishes at the left samples, on both halves, and its
\* inverses at the right samples.
CrossingMerge(w, log, coset, start, count) ==
  LET half == 2^(log - 1)
      left == half - start
      result == ordinary(w, log - 1, coset, start, Zeros(left), [Zeros(half - left) EXCEPT ![1] = 1])
      right_values == fft(w, log - 1, Xor(coset, half), result.coefficients)
  IN [vanishing |-> result.evaluations \o right_values,
      inverse_right |-> Build(count - left, LAMBDA i : InverseOf(right_values[i]))]
correction_LeftCoset(w, merge, log, coset, samples, baseline) ==
  LET half == 2^(log - 1)
      quotient_samples == MulAll(AddAll(samples, Take(baseline, Len(samples))), merge.inverse_right)
      quotient == ordinary(w, log - 1, coset, 0, quotient_samples, Zeros(half - Len(samples)))
  IN MulAll(fft(w, log - 1, coset, quotient.coefficients) \o quotient.evaluations, merge.vanishing)
correction(w, merge, log, coset, samples, baseline) ==
  LET half == 2^(log - 1)
      quotient_samples == MulAll(AddAll(samples, Take(baseline, Len(samples))), merge.inverse_right)
      quotient == ordinary(w, log - 1, Xor(coset, half), 0, quotient_samples, Zeros(half - Len(samples)))
  IN MulAll(fft(w, log - 1, coset, quotient.coefficients) \o quotient.evaluations, merge.vanishing)
Log2Up(n) == CHOOSE k \in 0 .. 20 : 2^k >= n /\ (k = 0 \/ 2^(k - 1) < n)
add_correction(w, coset, count, baseline, c) ==
  LET short == ifft(w, Log2Up(count), coset, Take(c, 2^Log2Up(count)))
  IN Mixed(AddAll(Take(baseline.coefficients, count), Take(short, count)) \o Drop(baseline.coefficients, count),
           AddAll(baseline.evaluations, c))
apply_crossing(w, log, coset, start, samples, tail) ==
  LET half == 2^(log - 1)
      left == half - start
      baseline == left_baseline(w, log, coset, start, Len(samples), Take(samples, left), tail)
      c == correction(w, CrossingMerge(w, log, coset, start, Len(samples)), log, coset, Drop(samples, left), Drop(baseline.evaluations, half))
  IN add_correction(w, coset, Len(samples), baseline, c)
RECURSIVE BinaryTransform(_, _, _, _, _, _)
BinaryTransform(w, log, coset, start, samples, tail) ==
  LET half == 2^(log - 1)
      count == Len(samples)
      offset == IF start >= half THEN half ELSE 0
      upper == Drop(tail, half - count)
      folded == fold_coefficients(Take(tail, half - count), Drop(upper, count), twiddle(w, log - 1, Xor(coset, offset)))
  IN CASE count = 0 \/ start = 0 \/ start + count = 2^log -> ordinary(w, log, coset, start, samples, tail)
       [] count > 0 /\ start > 0 /\ (start + count <= half \/ (start >= half /\ start + count < 2^log)) ->
            complete_half(w, log, coset, BinaryTransform(w, log - 1, Xor(coset, offset), start - offset, samples, folded), upper, offset)
       [] OTHER -> apply_crossing(w, log, coset, start, samples, tail)

(***************************************************************************)
(* Range to range: the smallest aligned coset around the source, and as    *)
(* many cosets of its size as cover the destination.                       *)
(***************************************************************************)
R == INSTANCE RangeInterpolation WITH p <- 2, omega <- <<1, 0>>, omega_order <- 1   \* the ranges only
can_interpolate(source, destination) == R!valid(source, destination, 2^dimension)
SourceLog(source) == Log2Up(Xor(source[1], source[2] - 1) + 1)
AlignedBase(i, size) == i - (i % size)
cover(source, destination, size, source_base) ==
  ForEach(<<>>, R!outside(source, destination), LAMBDA blocks, segment :
    For(blocks, AlignedBase(segment[1], size) \div size, (segment[2] - 1) \div size, LAMBDA bs, k :
      LET begin == R!More(segment[1], k * size)
          end == R!Less(segment[2], (k + 1) * size)
      IN Append(bs, [output |-> begin - destination[1], length |-> end - begin, coset |-> Xor(k * size, source_base), local |-> begin - k * size])))
RangeTransform(w, source, destination, values) ==
  LET log == SourceLog(source)
      size == 2^log
      base == AlignedBase(source[1], size)
      result == BinaryTransform(w, log, 0, source[1] - base, values, Zeros(size - Len(values)))
      on(block) == IF block.coset = 0 THEN result.evaluations ELSE fft(w, log, block.coset, result.coefficients)
      write(d, block) == Strictly(on(block), LAMBDA v :
        Take(d, block.output) \o SubSeq(v, block.local + 1, block.local + block.length) \o Drop(d, block.output + block.length))
      known == R!trivial(source, destination, values, 0)
  IN IF known.done THEN known.out ELSE ForEach(known.out, cover(source, destination, size, base), write)

(***************************************************************************)
(* What they are for.                                                      *)
(***************************************************************************)
\* The normalized vanishing polynomial i of the span, and the basis polynomial
\* j of the coefficients, at x.
W(i, x) == For(1, 0, 2^i - 1, LAMBDA acc, u : Mul(acc, Add(x, embed(u))))
Novel(j, x) ==
  For(1, 0, dimension - 1, LAMBDA acc, i : IF Bit(j, i) = 1 THEN Mul(acc, Mul(W(i, x), InverseOf(W(i, basis[i + 1])))) ELSE acc)
NovelTable == Build(2^dimension, LAMBDA j : Build(2^dimension, LAMBDA i : Novel(j - 1, embed(i - 1))))
TransformOn(novel, coefficients, coset, n) ==
  Build(n, LAMBDA u : For(0, 1, Len(coefficients), LAMBDA acc, j :
    Add(acc, Mul(coefficients[j], novel[j][Xor(coset, u - 1) + 1]))))
TransformsRight(novel, w, l, coset, b) ==
  /\ fft(w, l, coset, b) = TransformOn(novel, b, coset, 2^l)
  /\ ifft(w, l, coset, fft(w, l, coset, b)) = b
\* Values at the first or the last k points for the coefficients below k.
BidirectionalRight(novel, w, l, coset, k, b) ==
  LET values == TransformOn(novel, b, coset, 2^l)
      n == 2^l
  IN /\ bidir_recur(w, l, coset, k, Take(values, k) \o Drop(b, k)) = Take(b, k) \o Drop(values, k)
     /\ bidir_suffix(w, l, coset, k, Drop(values, n - k) \o Drop(b, k)) = Take(b, k) \o Take(values, n - k)
Eval(coefficients, x) ==
  For(0, 1, Len(coefficients), LAMBDA acc, k : Add(Mul(acc, x), coefficients[Len(coefficients) + 1 - k]))
ValuesOn(coefficients, range) == Build(R!Length(range), LAMBDA k : Eval(coefficients, embed(range[1] + k - 1)))
RangesRight(w, coefficients, source, destination) ==
  can_interpolate(source, destination) =>
    RangeTransform(w, source, destination, ValuesOn(coefficients, source)) = ValuesOn(coefficients, destination)
\* The coordinates of exactly the elements of the span.
CoordinatesRight(rows, e) ==
  LET span == {embed(u) : u \in 0 .. 2^dimension - 1}
  IN /\ Len(rows.ldnz) = dimension
     /\ contains(rows, e) <=> e \in span
     /\ project(rows, e) # NotInSubfield <=> e \in span
     /\ e \in span => embed(project(rows, e)) = e
     /\ subfield_sample(e) \in span
=============================================================================
