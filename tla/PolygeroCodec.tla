--------------------------- MODULE PolygeroCodec ---------------------------
(***************************************************************************)
(* The wire format of Polygero proofs (runtime/proto/polygero.rs).  A byte *)
(* is 0 .. Base - 1.  Sizes have one byte where the code has four, digests *)
(* and nonces one where it has 32; field elements have two and elements of *)
(* the subfield one.  The version marker is a byte.                        *)
(***************************************************************************)
EXTENDS Integers, Sequences, FiniteSets, SequencesExt, Loops

CONSTANTS
  Base,
  Field,    \* size of the field: elements are 0 .. Field - 1
  Embed     \* elements of the subfield, in the order of their encodings

Err == [ok |-> FALSE]
Got(x, rest) == [ok |-> TRUE, x |-> x, rest |-> rest]
Rest(bytes, n) == SubSeq(bytes, n + 1, Len(bytes))

contains(x) == \E i \in 1 .. Len(Embed) : Embed[i] = x
write_elt_field(x) == <<x % Base, x \div Base>>
write_subfield_elt(x) == <<(CHOOSE i \in 1 .. Len(Embed) : Embed[i] = x) - 1>>
\* Elements above the field are refused; so is an encoding that the writer
\* does not produce.
read_field(bytes) ==
  IF Len(bytes) < 2 THEN Err
  ELSE LET x == bytes[1] + Base * bytes[2] IN IF x >= Field THEN Err ELSE Got(x, Rest(bytes, 2))
\* A subfield reader may reduce a byte; then it is not the writer's.
read_subfield_elt(bytes) ==
  IF Len(bytes) < 1 THEN Err
  ELSE LET x == Embed[(bytes[1] % Len(Embed)) + 1]
       IN IF write_subfield_elt(x) # SubSeq(bytes, 1, 1) THEN Err ELSE Got(x, Rest(bytes, 1))
read_size(bytes) == IF bytes = <<>> THEN Err ELSE Got(bytes[1], Rest(bytes, 1))

-----------------------------------------------------------------------------
(***************************************************************************)
(* Runs of values, of the field first and of the subfield in turn.         *)
(***************************************************************************)
RECURSIVE RunLength(_, _), write_rows(_, _)
RunLength(values, subfield) ==
  IF values = <<>> THEN 0
  ELSE IF contains(values[1]) # subfield THEN 0 ELSE 1 + RunLength(Tail(values), subfield)
write_rows(values, subfield) ==
  IF values = <<>> THEN <<>>
  ELSE LET n == RunLength(values, subfield)
       IN <<n>> \o Concat(1, n, LAMBDA i : IF subfield THEN write_subfield_elt(values[i]) ELSE write_elt_field(values[i]))
          \o write_rows(Rest(values, n), ~subfield)

\* n values of one run.
ReadRun(bytes, n, subfield) ==
  For(Got(<<>>, bytes), 1, n, LAMBDA s, i :
    IF ~s.ok THEN Err
    ELSE LET v == IF subfield THEN read_subfield_elt(s.rest) ELSE read_field(s.rest)
         IN IF ~v.ok THEN Err
            ELSE IF contains(v.x) # subfield THEN Err ELSE Got(Append(s.x, v.x), v.rest))
\* Mutant of RunLengthOk: empty runs may follow.
RunLengthOk_Empty(n, first, left) == n <= left
RunLengthOk(n, first, left) == ~(n = 0 /\ ~first) /\ n <= left
RECURSIVE ReadRuns(_, _, _, _, _)
ReadRuns(bytes, values, count, subfield, first) ==
  IF Len(values) = count THEN Got(values, bytes)
  ELSE LET size == read_size(bytes)
       IN IF ~size.ok THEN Err
          ELSE IF ~RunLengthOk(size.x, first, count - Len(values)) THEN Err
          ELSE IF size.x > Len(size.rest) \div (IF subfield THEN 1 ELSE 2) THEN Err
          ELSE LET run == ReadRun(size.rest, size.x, subfield)
               IN IF ~run.ok THEN Err ELSE ReadRuns(run.rest, values \o run.x, count, ~subfield, FALSE)
read_rows(bytes, count) == ReadRuns(bytes, <<>>, count, FALSE, TRUE)

-----------------------------------------------------------------------------
(***************************************************************************)
(* Proofs [h, z, rows, nonce, path] for a geometry.                        *)
(***************************************************************************)
Marker == 3
sizes(g) == <<g.nw, g.nq, g.k, g.s, g.n, g.t>>
\* The rows sent, as in module Polygero.
opened_count(g) ==
  LET width == g.k - g.t
      groups == IF g.nq = 0 THEN 0 ELSE (g.nq + (g.k + 1) \div 2 - g.t - 1) \div ((g.k + 1) \div 2 - g.t)
  IN g.t * ((g.nw + width - 1) \div width + 2 * groups + 3)
PathLimit(g) == g.t * ((CHOOSE b \in 0 .. 8 : 2 ^ b >= g.n /\ \A a \in 0 .. b - 1 : 2 ^ a < g.n) + 1)

write(g, p) ==
  <<Marker>> \o sizes(g)
  \o Concat(1, Len(p.h), LAMBDA i : write_elt_field(p.h[i])) \o Concat(1, Len(p.z), LAMBDA i : write_elt_field(p.z[i]))
  \o write_rows(p.rows, FALSE) \o p.nonce \o <<Len(p.path)>> \o p.path

\* Mutant of Needed: every opened value takes the size of a field element.
Needed_Wide(g) == 2 * (3 * g.k + g.s) + 2 * opened_count(g) + g.t + 2
\* The size below which nothing is read: responses, rows that are all of the
\* subfield, one run header, nonces and the number of digests.
Needed(g) == 2 * (3 * g.k + g.s) + opened_count(g) + g.t + 2

read_values(bytes, n) ==
  For(Got(<<>>, bytes), 1, n, LAMBDA s, i :
    IF ~s.ok THEN Err ELSE LET v == read_field(s.rest) IN IF ~v.ok THEN Err ELSE Got(Append(s.x, v.x), v.rest))
read_opening(bytes, g) ==
  IF Len(bytes) < g.t THEN Err
  ELSE LET count == read_size(Rest(bytes, g.t))
       IN IF ~count.ok THEN Err
          ELSE IF count.x > PathLimit(g) \/ count.x > Len(count.rest) THEN Err
          ELSE Got([nonce |-> SubSeq(bytes, 1, g.t), path |-> SubSeq(count.rest, 1, count.x)], Rest(count.rest, count.x))
read(bytes, g) ==
  IF Len(bytes) < 7 THEN Err
  ELSE IF bytes[1] # Marker \/ SubSeq(bytes, 2, 7) # sizes(g) THEN Err
  ELSE IF Len(Rest(bytes, 7)) < Needed(g) THEN Err
  ELSE LET h == read_values(Rest(bytes, 7), g.k + g.s) IN
       IF ~h.ok THEN Err ELSE
       LET z == read_values(h.rest, 2 * g.k) IN
       IF ~z.ok THEN Err ELSE
       LET rows == read_rows(z.rest, opened_count(g)) IN
       IF ~rows.ok THEN Err ELSE
       LET opening == read_opening(rows.rest, g) IN
       IF ~opening.ok THEN Err
       ELSE Got([h |-> h.x, z |-> z.x, rows |-> rows.x, nonce |-> opening.x.nonce, path |-> opening.x.path], opening.rest)
=============================================================================
