---------------------------- MODULE CircuitFile -----------------------------
(***************************************************************************)
(* Compiled circuits and their files (core/proto): layers of terms held as *)
(* differences in a table, segments of them and a sequence of segments;    *)
(* the two formats LFC1 and LFC2 with their writers and readers; archives. *)
(*                                                                         *)
(* A file is a sequence of tokens: <<n>> is a digit of a number or a field *)
(* element, valid below q; longer ones are headers and identifiers, which  *)
(* no reader takes for a number.  SHA-256 is the sequence it hashes.       *)
(***************************************************************************)
EXTENDS Integers, Sequences, FiniteSets, SequencesExt, FiniteSetsExt, Loops

CONSTANTS
  WordBits,     \* 32, the width of a wire index
  DigitBits,    \* 7, the bits of a digit of ULEB128
  NumBits,      \* 8, the bits of a digit of LFC1
  q,            \* order of the field
  MaxWires, MaxTerms, MaxLayers,  \* limits of the readers
  MAX_LOGW

Word == 2^WordBits
\* Mutant of wrapping_add: saturates.
wrapping_add_Saturating(x, y) == IF x + y < Word THEN x + y ELSE Word - 1

wrapping_add(x, y) == (x + y) % Word
wrapping_sub(x, y) == (x - y) % Word

\* Only of a positive number.
ceil_log2(n) == CHOOSE k \in 0 .. n : 2^k >= n /\ \A j \in 0 .. k - 1 : 2^j < n
sane_logw(logw) == logw <= MAX_LOGW

-----------------------------------------------------------------------------
(***************************************************************************)
(* Terms and layers.                                                       *)
(***************************************************************************)
canonical_term(t) == IF t.h1 < t.h0 THEN [t EXCEPT !.h0 = t.h1, !.h1 = t.h0] ELSE t

msb(x) == CHOOSE k \in 0 .. WordBits : 2^k <= x /\ x < 2^(k + 1)

\* Mutant of morton_cmp: h0 wins at the same bit.
morton_cmp_H0First(x0, x1, y0, y1) ==
  LET d0 == XorBits(x0, y0, WordBits)
      d1 == XorBits(x1, y1, WordBits)
      Sign(x, k) == IF Bit(x, k) = 0 THEN -1 ELSE 1
  IN CASE d0 = 0 /\ d1 = 0 -> 0
       [] d0 # 0 /\ (d1 = 0 \/ msb(d0) >= msb(d1)) -> Sign(x0, msb(d0))
       [] OTHER -> Sign(x1, msb(d1))

\* morton::cmp, as -1, 0 or 1.
morton_cmp(x0, x1, y0, y1) ==
  LET d0 == XorBits(x0, y0, WordBits)
      d1 == XorBits(x1, y1, WordBits)
      Sign(x, k) == IF Bit(x, k) = 0 THEN -1 ELSE 1
  IN CASE d0 = 0 /\ d1 = 0 -> 0
       [] d0 # 0 /\ d1 = 0 -> Sign(x0, msb(d0))
       [] d0 = 0 /\ d1 # 0 -> Sign(x1, msb(d1))
       [] OTHER -> IF msb(d1) >= msb(d0) THEN Sign(x1, msb(d1)) ELSE Sign(x0, msb(d0))

compare_term(t, s) ==
  LET m == morton_cmp(t.h0, t.h1, s.h0, s.h1)
      Sign(x) == IF x < 0 THEN -1 ELSE IF x > 0 THEN 1 ELSE 0
  IN IF m # 0 THEN m ELSE IF t.g # s.g THEN Sign(t.g - s.g) ELSE Sign(t.k - s.k)

\* for_each_delta
Deltas(layer) ==
  FlattenSeq([i \in DOMAIN layer.tokens |->
                LET seg == layer.segments[layer.tokens[i] + 1]
                IN [j \in DOMAIN seg |-> layer.deltas[seg[j] + 1]]])

\* for_each_term, terms
terms(layer, constants) ==
  ForEach([g |-> 0, h0 |-> 0, h1 |-> 0, out |-> <<>>], Deltas(layer),
          LAMBDA acc, d :
            LET g == wrapping_add(acc.g, d.g)
                h0 == wrapping_add(acc.h0, d.h0)
                h1 == wrapping_add(acc.h1, d.h1)
            IN [g |-> g, h0 |-> h0, h1 |-> h1,
                out |-> Append(acc.out, [g |-> g, h0 |-> h0, h1 |-> h1, k |-> constants[d.k + 1]])]
         ).out

num_terms(layer) == SumOver(1, Len(layer.tokens), LAMBDA i : Len(layer.segments[layer.tokens[i] + 1]))

\* How many corners binding will leave, computed per segment.
nterms_after_bind_g(layer) ==
  LET Moves(d) == d.h0 # 0 \/ d.h1 # 0
      count[s \in DOMAIN layer.segments] ==
        Cardinality({j \in DOMAIN layer.segments[s] : Moves(layer.deltas[layer.segments[s][j] + 1])})
      full == SelectSeq(layer.tokens, LAMBDA t : layer.segments[t + 1] # <<>>)
      first == layer.deltas[layer.segments[full[1] + 1][1] + 1]
  IN SumOver(1, Len(full), LAMBDA i : count[full[i] + 1])
     + (IF full = <<>> THEN 0 ELSE IF Moves(first) THEN 0 ELSE 1)

-----------------------------------------------------------------------------
(***************************************************************************)
(* Delta tables.  A table is its deltas and, for the approximate one, a    *)
(* cache of two slots for each value of a hash.                            *)
(***************************************************************************)
HashOf(d, size) == (d.g + 3 * d.h0 + 5 * d.h1 + 7 * d.k) % size
NoSlot == [valid |-> FALSE, index |-> 0]
NewApproximate(size) == [deltas |-> <<>>, cache |-> [i \in 0 .. size - 1 |-> <<NoSlot, NoSlot>>]]

\* Mutant of dedup: an evicted slot keeps the index of the one that replaces it.
dedup_StaleIndex(table, d) ==
  LET i == HashOf(d, Cardinality(DOMAIN table.cache))
      ent == table.cache[i]
      Hit(s) == ent[s].valid /\ table.deltas[ent[s].index + 1] = d
      index == Len(table.deltas)
  IN IF Hit(1) THEN <<table, ent[1].index>>
     ELSE IF Hit(2) THEN <<[table EXCEPT !.cache[i] = <<ent[2], ent[1]>>], ent[1].index>>
     ELSE <<[deltas |-> Append(table.deltas, d),
             cache |-> [table.cache EXCEPT ![i] = <<[valid |-> TRUE, index |-> index], ent[1]>>]],
            index>>

\* dedup of ApproximateDeltaTableBuilder: <<table, index>>.  A slot's delta is
\* that of its index.
dedup(table, d) ==
  LET i == HashOf(d, Cardinality(DOMAIN table.cache))
      ent == table.cache[i]
      Hit(s) == ent[s].valid /\ table.deltas[ent[s].index + 1] = d
      index == Len(table.deltas)
  IN IF Hit(1) THEN <<table, ent[1].index>>
     ELSE IF Hit(2) THEN <<[table EXCEPT !.cache[i] = <<ent[2], ent[1]>>], ent[2].index>>
     ELSE <<[deltas |-> Append(table.deltas, d),
             cache |-> [table.cache EXCEPT ![i] = <<[valid |-> TRUE, index |-> index], ent[1]>>]],
            index>>

\* dedup of ExactDeltaTableBuilder.
dedup_exact(deltas, d) ==
  LET found == SelectInSeq(deltas, LAMBDA e : e = d) IN
  IF found # 0 THEN <<deltas, found - 1>> ELSE <<Append(deltas, d), Len(deltas)>>

\* A sequence of deltas through a table.
Tabulate(ds, size) ==
  ForEach([table |-> NewApproximate(size), seq |-> <<>>], ds,
          LAMBDA acc, d : LET r == dedup(acc.table, d)
                          IN [table |-> r[1], seq |-> Append(acc.seq, r[2])])
TabulateExact(ds) ==
  ForEach([table |-> <<>>, seq |-> <<>>], ds,
          LAMBDA acc, d : LET r == dedup_exact(acc.table, d)
                          IN [table |-> r[1], seq |-> Append(acc.seq, r[2])])

new_uncompressed(nw, logw, deltas, seq) ==
  [nw |-> nw, logw |-> logw, deltas |-> deltas, segments |-> <<seq>>, tokens |-> <<0>>]

new_compressed(nw, logw, runs, tokens) ==
  LET r == ForEach([table |-> <<>>, segments |-> <<>>], runs,
             LAMBDA acc, run :
               LET s == ForEach([table |-> acc.table, seq |-> <<>>], run,
                          LAMBDA a, d : LET x == dedup_exact(a.table, d)
                                        IN [table |-> x[1], seq |-> Append(a.seq, x[2])])
               IN [table |-> s.table, segments |-> Append(acc.segments, s.seq)])
  IN [nw |-> nw, logw |-> logw, deltas |-> r.table, segments |-> r.segments, tokens |-> tokens]

\* Differences of a sequence of terms, with indices of constants.
DeltasOf(ts) ==
  [i \in DOMAIN ts |->
     LET p == IF i = 1 THEN [g |-> 0, h0 |-> 0, h1 |-> 0] ELSE ts[i - 1] IN
     [g |-> wrapping_sub(ts[i].g, p.g), h0 |-> wrapping_sub(ts[i].h0, p.h0),
      h1 |-> wrapping_sub(ts[i].h1, p.h1), k |-> ts[i].k]]

\* compute_id: a layer is its terms, whatever its tables.
compute_id(raw) ==
  <<raw.noutput, raw.logv, 1, 0, Len(raw.layers), raw.ninput, raw.npublic_input,
    raw.subfield_boundary>>
  \o Concat(1, Len(raw.layers), LAMBDA i :
       LET l == raw.layers[i]
           ts == terms(l, raw.constants)
       IN <<l.nw, l.logw, num_terms(l)>>
          \o Concat(1, Len(ts), LAMBDA j : <<ts[j].g, ts[j].h0, ts[j].h1, ts[j].k>>))

-----------------------------------------------------------------------------
(***************************************************************************)
(* Numbers.  A writer yields tokens; a reader takes file and position and  *)
(* yields the next position with a value, or none.                         *)
(***************************************************************************)
Digit == 2^DigitBits

uleb128_len(val) == CHOOSE n \in 1 .. WordBits : val < Digit^n /\ (n > 1 => val >= Digit^(n - 1))

\* serialize_uleb128, and the one of at most four digits where it is defined.
serialize_uleb128(val) ==
  LET n == uleb128_len(val) IN
  [i \in 1 .. n |-> <<((val \div Digit^(i - 1)) % Digit) + (IF i < n THEN Digit ELSE 0)>>]
FitsUleb4(val) == val < Digit^4

IsDigit(token) == Len(token) = 1

Err == [ok |-> FALSE]
Ok(at, v) == [ok |-> TRUE, at |-> at, v |-> v]

\* read_uleb128 with at most n digits.
ReadUleb(file, at, n) ==
  LET ends == {i \in at .. at + n - 1 : i <= Len(file) /\ IsDigit(file[i]) /\ file[i][1] < Digit} IN
  IF ends = {} \/ \E i \in at .. Min(ends) : ~IsDigit(file[i]) THEN Err
  ELSE LET e == Min(ends)
       IN Ok(e + 1, SumOver(at, e, LAMBDA i : (file[i][1] % Digit) * Digit^(i - at)))
read_uleb128(file, at) == ReadUleb(file, at, 8)
read_uleb128_max4_u32(file, at) == ReadUleb(file, at, 4)

\* Three digits of LFC1.
serialize_num(g) == [i \in 1 .. 3 |-> <<(g \div 2^(NumBits * (i - 1))) % 2^NumBits>>]
FitsNum(g) == g < 2^(3 * NumBits)
read_num_stream(file, at) ==
  IF at + 2 > Len(file) \/ \E i \in 0 .. 2 : ~IsDigit(file[at + i]) THEN Err
  ELSE Ok(at + 3, SumOver(0, 2, LAMBDA i : file[at + i][1] * 2^(NumBits * i)))

\* Mutant of zigzag_encode_delta: minus one gets the code of the next.
zigzag_encode_delta_Off(d) == IF d < Word \div 2 THEN 2 * d ELSE 2 * (Word - d) + 1

\* The two codes of a difference.
zigzag_encode_delta(d) == IF d < Word \div 2 THEN 2 * d ELSE 2 * (Word - d) - 1
decode_delta_lfc2(v) == IF v % 2 = 0 THEN v \div 2 ELSE Word - 1 - v \div 2
serialize_index(val, prev) == (IF val >= prev THEN 2 * (val - prev) ELSE 2 * (prev - val) + 1) % Word
decode_delta_lfc1(v) == IF v % 2 = 0 THEN v \div 2 ELSE (Word - v \div 2) % Word

\* A field element and an identifier are one token.
ReadElement(file, at) ==
  IF at <= Len(file) /\ IsDigit(file[at]) /\ file[at][1] < q THEN Ok(at + 1, file[at][1]) ELSE Err
ReadId(file, at) == IF at <= Len(file) /\ ~IsDigit(file[at]) THEN Ok(at + 1, file[at]) ELSE Err
WriteElements(ks) == [i \in DOMAIN ks |-> <<ks[i]>>]

\* Reading one value after another: what was read, in v.
Start(at) == Ok(at, <<>>)
Step(r, read(_), valid(_)) ==
  IF ~r.ok THEN Err
  ELSE LET x == read(r.at)
       IN IF x.ok /\ valid(x.v) THEN Ok(x.at, Append(r.v, x.v)) ELSE Err
Free(v) == TRUE
Times(r, n, read(_), valid(_)) ==
  IF ~r.ok THEN Err
  ELSE LET all == For(Start(r.at), 1, n, LAMBDA acc, i : Step(acc, read, valid))
       IN IF all.ok THEN Ok(all.at, Append(r.v, all.v)) ELSE Err

-----------------------------------------------------------------------------
(***************************************************************************)
(* LFC2.                                                                   *)
(***************************************************************************)
WriteNumbers(ns) == Concat(1, Len(ns), LAMBDA i : serialize_uleb128(ns[i]))

WriteLayer_lfc2(l) ==
  WriteNumbers(<<l.logw, l.nw, Len(l.deltas)>>)
  \o Concat(1, Len(l.deltas), LAMBDA i :
       LET d == l.deltas[i]
       IN WriteNumbers(<<zigzag_encode_delta(d.g), zigzag_encode_delta(d.h0),
                         zigzag_encode_delta(d.h1), d.k>>))
  \o WriteNumbers(<<Len(l.segments)>>)
  \o Concat(1, Len(l.segments), LAMBDA i : WriteNumbers(<<Len(l.segments[i])>> \o l.segments[i]))
  \o WriteNumbers(<<Len(l.tokens)>> \o l.tokens)

LFC2_MAGIC == <<76, 70, 67, 50>>

to_bytes_lfc2(fid, c) ==
  <<LFC2_MAGIC>>
  \o WriteNumbers(<<fid, c.raw.noutput, 1, c.raw.npublic_input, c.raw.subfield_boundary,
                    c.raw.ninput, Len(c.raw.layers), Len(c.raw.constants)>>)
  \o WriteElements(c.raw.constants)
  \o Concat(1, Len(c.raw.layers), LAMBDA i : WriteLayer_lfc2(c.raw.layers[i]))
  \o <<c.id>>

\* Where the writer does not stop: every difference fits four digits.
WritableLfc2(raw) ==
  \A i \in DOMAIN raw.layers : \A d \in ToSet(raw.layers[i].deltas) :
    \A x \in {"g", "h0", "h1"} : FitsUleb4(zigzag_encode_delta(d[x]))

\* Mutant of Within: one too many.
Within_Off(i, table) == i <= Len(table)

\* An index into a table.
Within(i, table) == i < Len(table)

ReadLayer_lfc2(file, at, constants) ==
  LET num(a) == read_uleb128_max4_u32(file, a)
      word(a) == LET x == num(a) IN IF x.ok THEN Ok(x.at, decode_delta_lfc2(x.v)) ELSE Err
      delta(a) == LET x == Step(Step(Step(Step(Start(a), word, Free), word, Free), word, Free),
                                num, LAMBDA k : Within(k, constants))
                  IN IF x.ok THEN Ok(x.at, [g |-> x.v[1], h0 |-> x.v[2], h1 |-> x.v[3], k |-> x.v[4]])
                     ELSE Err
      head == Step(Step(Step(Start(at), num, sane_logw), num, LAMBDA n : n <= MaxWires),
                   num, LAMBDA n : n <= MaxTerms)
      table == Step(Times(head, IF head.ok THEN head.v[3] ELSE 0, delta, Free),
                    num, LAMBDA n : n <= MaxTerms)
      segment(a) == LET n == Step(Start(a), num, LAMBDA x : x <= MaxTerms)
                        s == Times(n, IF n.ok THEN n.v[1] ELSE 0, num,
                                   LAMBDA i : Within(i, table.v[4]))
                    IN IF s.ok THEN Ok(s.at, s.v[2]) ELSE Err
      dict == Step(Times(table, IF table.ok THEN table.v[5] ELSE 0, segment, Free),
                   num, LAMBDA n : n <= MaxTerms)
      all == Times(dict, IF dict.ok THEN dict.v[7] ELSE 0, num, LAMBDA t : Within(t, dict.v[6]))
  IN IF ~all.ok THEN Err
     ELSE Ok(all.at, [logw |-> all.v[1], nw |-> all.v[2], deltas |-> all.v[4],
                      segments |-> all.v[6], tokens |-> all.v[8]])

-----------------------------------------------------------------------------
(***************************************************************************)
(* LFC1: no tables, constants collected from the terms.                    *)
(***************************************************************************)
\* The constants of all terms, in the order of their first use.
CollectConstants(raw) ==
  ForEach(<<>>, Concat(1, Len(raw.layers), LAMBDA i : terms(raw.layers[i], raw.constants)),
          LAMBDA kvec, t : IF Contains(kvec, t.k) THEN kvec ELSE Append(kvec, t.k))

WriteLayer_lfc1(l, raw, kvec) ==
  LET ts == terms(l, raw.constants)
      prev(i) == IF i = 1 THEN [g |-> 0, h0 |-> 0, h1 |-> 0] ELSE ts[i - 1]
  IN serialize_num(l.logw) \o serialize_num(l.nw) \o serialize_num(num_terms(l))
     \o Concat(1, Len(ts), LAMBDA i :
          serialize_num(serialize_index(ts[i].g, prev(i).g))
          \o serialize_num(serialize_index(ts[i].h0, prev(i).h0))
          \o serialize_num(serialize_index(ts[i].h1, prev(i).h1))
          \o serialize_num(SelectInSeq(kvec, LAMBDA k : k = ts[i].k) - 1))

\* Where the writer does not stop: every difference fits a number.
WritableLfc1(raw) ==
  \A i \in DOMAIN raw.layers :
    LET ts == terms(raw.layers[i], raw.constants)
        prev(j) == IF j = 1 THEN [g |-> 0, h0 |-> 0, h1 |-> 0] ELSE ts[j - 1]
    IN \A j \in DOMAIN ts : \A x \in {"g", "h0", "h1"} : FitsNum(serialize_index(ts[j][x], prev(j)[x]))

to_bytes_lfc1(fid, c) ==
  LET kvec == CollectConstants(c.raw)
      header == <<fid, c.raw.noutput, 1, c.raw.npublic_input, c.raw.subfield_boundary,
                  c.raw.ninput, Len(c.raw.layers), Len(kvec)>>
  IN << <<1>> >>
     \o Concat(1, Len(header), LAMBDA i : serialize_num(header[i]))
     \o WriteElements(kvec)
     \o Concat(1, Len(c.raw.layers), LAMBDA i : WriteLayer_lfc1(c.raw.layers[i], c.raw, kvec))
     \o <<c.id>>

\* A layer of LFC1 is read through the approximate table.
ReadLayer_lfc1(file, at, constants, cache) ==
  LET num(a) == read_num_stream(file, a)
      word(a) == LET x == num(a) IN IF x.ok THEN Ok(x.at, decode_delta_lfc1(x.v)) ELSE Err
      delta(a) == LET x == Step(Step(Step(Step(Start(a), word, Free), word, Free), word, Free),
                                num, LAMBDA k : Within(k, constants))
                  IN IF x.ok THEN Ok(x.at, [g |-> x.v[1], h0 |-> x.v[2], h1 |-> x.v[3], k |-> x.v[4]])
                     ELSE Err
      head == Step(Step(Step(Start(at), num, sane_logw), num, LAMBDA n : n <= MaxWires),
                   num, LAMBDA n : n <= MaxTerms)
      all == Times(head, IF head.ok THEN head.v[3] ELSE 0, delta, Free)
  IN IF ~all.ok THEN Err
     ELSE LET t == Tabulate(all.v[4], cache)
          IN Ok(all.at, new_uncompressed(all.v[2], all.v[1], t.table.deltas, t.seq))

-----------------------------------------------------------------------------
(***************************************************************************)
(* Readers.                                                                *)
(***************************************************************************)
Failed(how) == [result |-> how]

\* validate_raw_circuit
validate_raw_circuit(raw) ==
  /\ raw.noutput <= MaxWires /\ raw.npublic_input <= MaxWires /\ raw.ninput <= MaxWires
  /\ raw.npublic_input <= raw.ninput
  /\ Len(raw.layers) <= MaxLayers

\* from_stream_lfc1_inner, from_stream_lfc2_inner: one order of reading, two
\* codes of numbers and of layers.  The logarithm of no output is undefined.
FromStream(file, at, fid, limit, enforce, num(_), layer(_, _)) ==
  LET wires(n) == n <= MaxWires
      out == Step(Step(Start(at), num, Free), num, wires)
      head == Step(Step(Step(Step(Step(out, num, LAMBDA n : n = 1), num, wires), num, wires), num, wires),
                   num, LAMBDA n : n <= MaxLayers)
      count == Step(head, num, wires)
      const == IF count.ok /\ count.v[1] = fid
               THEN Times(count, count.v[8],
                          LAMBDA a : ReadElement(file, a), Free)
               ELSE Err
      read(acc) == LET l == layer(acc.at, const.v[9]) IN
                   IF acc.ok /\ l.ok /\ num_terms(l.v) <= MaxTerms /\ acc.total + num_terms(l.v) <= limit
                   THEN [ok |-> TRUE, at |-> l.at, total |-> acc.total + num_terms(l.v),
                         v |-> Append(acc.v, l.v)]
                   ELSE [acc EXCEPT !.ok = FALSE]
      layers == For([ok |-> const.ok, at |-> IF const.ok THEN const.at ELSE 0, total |-> 0, v |-> <<>>],
                    1, IF const.ok THEN const.v[7] ELSE 0,
                    LAMBDA acc, i : IF acc.ok THEN read(acc) ELSE acc)
      id == IF layers.ok THEN ReadId(file, layers.at) ELSE Err
      raw == [noutput |-> const.v[2], npublic_input |-> const.v[4],
              subfield_boundary |-> const.v[5], ninput |-> const.v[6],
              logv |-> ceil_log2(const.v[2]), constants |-> const.v[9], layers |-> layers.v]
  IN IF out.ok /\ out.v[2] = 0 THEN Failed("panic")
     ELSE IF ~id.ok THEN Failed("err")
     ELSE IF ~sane_logw(raw.logv) \/ ~validate_raw_circuit(raw) THEN Failed("err")
     ELSE IF enforce /\ compute_id(raw) # id.v THEN Failed("err")
     ELSE [result |-> "ok", circuit |-> [raw |-> raw, id |-> id.v], rest |-> Len(file) - id.at + 1]

from_stream_lfc1(file, fid, limit, enforce, cache) ==
  FromStream(file, 2, fid, limit, enforce, LAMBDA a : read_num_stream(file, a), LAMBDA a, k : ReadLayer_lfc1(file, a, k, cache))
from_stream_lfc2(file, fid, limit, enforce) ==
  FromStream(file, 2, fid, limit, enforce, LAMBDA a : read_uleb128_max4_u32(file, a), LAMBDA a, k : ReadLayer_lfc2(file, a, k))

\* from_stream: the format is seen from the first token.
from_stream(file, fid, limit, enforce, cache) ==
  CASE file # <<>> /\ file[1] = LFC2_MAGIC -> from_stream_lfc2(file, fid, limit, enforce)
    [] file # <<>> /\ file[1] = <<1>> -> from_stream_lfc1(file, fid, limit, enforce, cache)
    [] OTHER -> Failed("err")

-----------------------------------------------------------------------------
(***************************************************************************)
(* What is checked of tables and files.                                    *)
(***************************************************************************)
\* Either table numbers deltas so that the numbers give the deltas back; the
\* exact one holds none twice, and neither holds more than were asked for.
TablesFaithfulFor(ds, size) ==
  LET a == Tabulate(ds, size)
      e == TabulateExact(ds)
  IN /\ \A i \in DOMAIN ds : /\ a.seq[i] < Len(a.table.deltas) /\ a.table.deltas[a.seq[i] + 1] = ds[i]
                             /\ e.seq[i] < Len(e.table) /\ e.table[e.seq[i] + 1] = ds[i]
     /\ IsInjective(e.table) /\ ToSet(e.table) = ToSet(ds)
     /\ Len(e.table) <= Len(a.table.deltas) /\ Len(a.table.deltas) <= Len(ds)

\* Terms cut into runs, each run once in the dictionary, are the terms again, and
\* the corners predicted to be left after binding are the changes of (h0, h1).
LayerFaithfulFor(ts, cut, constants) ==
  LET ds == DeltasOf(ts)
      l == new_compressed(0, 0, <<SubSeq(ds, 1, cut), SubSeq(ds, cut + 1, Len(ds))>>, <<0, 1>>)
      corner(i) == <<ts[i].h0, ts[i].h1>>
  IN /\ terms(l, constants) = [i \in DOMAIN ts |-> [ts[i] EXCEPT !.k = constants[@ + 1]]]
     /\ num_terms(l) = Len(ts)
     /\ nterms_after_bind_g(l) = Cardinality({i \in DOMAIN ts : i = 1 \/ corner(i) # corner(i - 1)})

\* The order of terms is that of the numbers with interleaved bits, h1 first.
MortonFor(t, s) ==
  LET code(x) == SumOver(0, WordBits - 1, LAMBDA i : Bit(x.h0, i) * 4^i + 2 * Bit(x.h1, i) * 4^i)
      m == morton_cmp(t.h0, t.h1, s.h0, s.h1)
  IN /\ (m < 0) = (code(t) < code(s)) /\ (m > 0) = (code(t) > code(s))
     /\ compare_term(t, s) = -compare_term(s, t)

\* Every index of a circuit is within its table, and every count within its limit.
WellFormed(raw, limit) ==
  /\ raw.npublic_input <= raw.ninput /\ raw.ninput <= MaxWires /\ Len(raw.layers) <= MaxLayers
  /\ \A i \in DOMAIN raw.layers :
       LET l == raw.layers[i] IN
       /\ \A j \in DOMAIN l.deltas : l.deltas[j].k < Len(raw.constants)
       /\ \A t \in ToSet(l.tokens) : t < Len(l.segments)
       /\ \A x \in UNION {ToSet(s) : s \in ToSet(l.segments)} : x < Len(l.deltas)
       /\ \A d \in ToSet(l.deltas) : {d.g, d.h0, d.h1} \subseteq 0 .. Word - 1
  /\ SumOver(1, Len(raw.layers), LAMBDA i : num_terms(raw.layers[i])) <= limit

\* A circuit written in LFC2 is read back as it was; in LFC1 with the same terms,
\* and writing it once more gives the same file.  What follows is left unread.
FilesRoundTripFor(raw, fid, limit, cache, rest) ==
  LET c == [raw |-> raw, id |-> compute_id(raw)]
      f2 == to_bytes_lfc2(fid, c)
      f1 == to_bytes_lfc1(fid, c)
      r2 == from_stream(f2 \o rest, fid, limit, TRUE, cache)
      r1 == from_stream(f1 \o rest, fid, limit, TRUE, cache)
  IN /\ WritableLfc2(raw) => r2.result = "ok" /\ r2.circuit = c /\ r2.rest = Len(rest)
     /\ WritableLfc1(raw) =>
          /\ r1.result = "ok" /\ compute_id(r1.circuit.raw) = c.id /\ r1.rest = Len(rest)
          /\ to_bytes_lfc1(fid, r1.circuit) = f1

\* A file with one token changed, or cut, is read as the circuit it was made from
\* or not at all when identifiers are enforced; when not, as a well-formed circuit
\* or not at all.  It stops the reader only where it says that there is no output.
DamageFoundIn(file, at, token, id, fid, limit, cache) ==
  LET damaged == IF token = <<>> THEN SubSeq(file, 1, at - 1) ELSE [file EXCEPT ![at] = token]
      r == from_stream(damaged, fid, limit, TRUE, cache)
      u == from_stream(damaged, fid, limit, FALSE, cache)
  IN /\ u.result = "ok" => WellFormed(u.circuit.raw, limit)
     /\ r.result = "ok" => compute_id(r.circuit.raw) = id /\ r.circuit.id = id
     /\ "panic" \in {r.result, u.result} => token # <<>> /\ token[1] = 0

-----------------------------------------------------------------------------
(***************************************************************************)
(* Archives of circuits (core/proto/src/archive).  LFA2 has a header, a    *)
(* table of entries and their payloads; LFA1 is two circuits of LFC1 one   *)
(* after the other, without anything around them.                          *)
(***************************************************************************)
LFA2_MAGIC == <<76, 70, 65, 50>>
LFA_VERSION == 1
P256 == 1
Gf2_128 == 4

\* Mutant of compute_combined_id: the first circuit only.
compute_combined_id_First(entries) ==
  IF entries = <<>> THEN <<>> ELSE entries[1].circuit_id

\* SHA-256 of the identifiers, as the sequence hashed.
compute_combined_id(entries) == FlattenSeq([i \in DOMAIN entries |-> entries[i].circuit_id])

\* The builder; texts are those of the caller.
build(version, texts, entries) ==
  [circuit_version |-> version, texts |-> texts, entries |-> entries,
   combined_id |-> compute_combined_id(entries)]

get(archive, name) == SelectInSeq(archive.entries, LAMBDA e : e.name = name)

-----------------------------------------------------------------------------
write_utf8_string(s) == serialize_uleb128(Len(s)) \o WriteElements(s)

to_bytes_lfa2(a) ==
  <<LFA2_MAGIC, <<LFA_VERSION>> >> \o serialize_uleb128(a.circuit_version) \o <<a.combined_id>>
  \o Concat(1, 4, LAMBDA i : write_utf8_string(a.texts[i]))
  \o serialize_uleb128(Len(a.entries))
  \o Concat(1, Len(a.entries), LAMBDA i :
       LET e == a.entries[i]
       IN write_utf8_string(e.name) \o <<e.circuit_id>> \o serialize_uleb128(Len(e.payload)))
  \o Concat(1, Len(a.entries), LAMBDA i : a.entries[i].payload)

read_utf8_string(file, at, max_len) ==
  LET n == Step(Start(at), LAMBDA a : read_uleb128(file, a), LAMBDA x : x <= max_len)
      s == Times(n, IF n.ok THEN n.v[1] ELSE 0,
                 LAMBDA a : IF a <= Len(file) /\ IsDigit(file[a]) THEN Ok(a + 1, file[a][1]) ELSE Err,
                 Free)
  IN IF s.ok THEN Ok(s.at, s.v[2]) ELSE Err

\* from_stream_lfa2_body.  A payload is as long as its entry says; the memory for
\* it is reserved before the bytes are seen, and a length that exhausts it ends
\* the program where this reader returns an error.
ReadEntry(file, at, max_len) ==
  LET r == Step(Step(Step(Start(at), LAMBDA a : read_utf8_string(file, a, max_len), Free),
                     LAMBDA a : ReadId(file, a), Free),
                LAMBDA a : read_uleb128(file, a), Free)
  IN IF r.ok THEN Ok(r.at, [name |-> r.v[1], circuit_id |-> r.v[2], len |-> r.v[3]]) ELSE Err

from_stream_lfa2_body(file, max_len, max_entries) ==
  LET text(a) == read_utf8_string(file, a, max_len)
      num(a) == read_uleb128(file, a)
      head == Step(Step(Step(Start(2), num, LAMBDA v : v = LFA_VERSION), num, Free),
                   LAMBDA a : ReadId(file, a), Free)
      count == Step(Times(head, 4, text, Free), num, LAMBDA n : n <= max_entries)
      table == Times(count, IF count.ok THEN count.v[5] ELSE 0,
                     LAMBDA a : ReadEntry(file, a, max_len), Free)
      metadata == table.v[6]
      entries == For(Start(table.at), 1, Len(metadata), LAMBDA acc, i :
                   IF ~acc.ok \/ acc.at + metadata[i].len - 1 > Len(file) THEN Err
                   ELSE Ok(acc.at + metadata[i].len,
                           Append(acc.v, [name |-> metadata[i].name,
                                          circuit_id |-> metadata[i].circuit_id,
                                          payload |-> SubSeq(file, acc.at, acc.at + metadata[i].len - 1)])))
  IN IF ~table.ok THEN Failed("err")
     ELSE IF ~entries.ok THEN Failed("err")
     ELSE IF head.v[3] # compute_combined_id(entries.v) THEN Failed("err")
     ELSE [result |-> "ok", archive |-> build(head.v[2], table.v[4], entries.v), rest |-> Len(file) - entries.at + 1]

-----------------------------------------------------------------------------
\* to_bytes_lfa1, where it is defined: nothing but "sig" and "hash".
FitsLfa1(a, sig, hash) ==
  /\ a.circuit_version = 0 /\ a.texts = << <<>>, <<>>, <<>>, <<>> >>
  /\ Len(a.entries) = 2 /\ get(a, sig) # 0 /\ get(a, hash) # 0
to_bytes_lfa1(a, sig, hash) == a.entries[get(a, sig)].payload \o a.entries[get(a, hash)].payload

\* from_stream_lfa1: each circuit ends where its reader stops.
from_stream_lfa1(file, sig, hash, limit, cache) ==
  LET c1 == from_stream(file, P256, limit, FALSE, cache)
      rest == SubSeq(file, Len(file) - c1.rest + 1, Len(file))
      c2 == from_stream(rest, Gf2_128, limit, FALSE, cache)
      entry(name, c, bytes) ==
        [name |-> name, circuit_id |-> c.circuit.id, payload |-> SubSeq(bytes, 1, Len(bytes) - c.rest)]
  IN IF c1.result # "ok" THEN c1
     ELSE IF c2.result # "ok" THEN c2
     ELSE [result |-> "ok", rest |-> 0, archive |-> build(0, << <<>>, <<>>, <<>>, <<>> >>, <<entry(sig, c1, file), entry(hash, c2, rest)>>)]

\* CircuitArchive::from_stream: the format is seen from the first token.
from_stream_archive(file, names, max_len, max_entries, limit, cache) ==
  CASE file # <<>> /\ file[1] = LFA2_MAGIC -> from_stream_lfa2_body(file, max_len, max_entries)
    [] file # <<>> /\ file[1] = <<1>> -> from_stream_lfa1(file, names[1], names[2], limit, cache)
    [] OTHER -> Failed("err")

-----------------------------------------------------------------------------
\* An archive written in either format is read back as it was, and one with a
\* text that is too long or with too many circuits is not read at all.
ArchiveRoundTripFor(a, names, max_len, max_entries, limit, cache, rest) ==
  LET read(file) == from_stream_archive(file, names, max_len, max_entries, limit, cache)
      r2 == read(to_bytes_lfa2(a) \o rest)
      r1 == read(to_bytes_lfa1(a, names[1], names[2]) \o rest)
      fits == /\ \A t \in ToSet(a.texts) \cup {e.name : e \in ToSet(a.entries)} : Len(t) <= max_len
              /\ Len(a.entries) <= max_entries
  IN /\ (r2.result = "ok") = fits
     /\ fits => r2.archive = a /\ r2.rest = Len(rest)
     /\ FitsLfa1(a, names[1], names[2]) =>
          r1.result = "ok" /\ ToSet(r1.archive.entries) = ToSet(a.entries)

\* One token of an LFA2 archive changed: it is refused, or names the same circuits
\* in the same order.
ArchiveDamageFoundIn(a, at, token, names, max_len, max_entries, limit, cache) ==
  LET r == from_stream_archive([to_bytes_lfa2(a) EXCEPT ![at] = token], names, max_len, max_entries, limit, cache)
      ids(es) == [i \in DOMAIN es |-> es[i].circuit_id]
  IN r.result = "ok" => ids(r.archive.entries) = ids(a.entries)
=============================================================================
