------------------------------- MODULE Sampler -------------------------------
(***************************************************************************)
(* The choice of query positions: gen_idx of the Ligero transcript and     *)
(* choose, nat and mask of runtime/random.                                 *)
(*                                                                         *)
(* choose is a partial Fisher-Yates shuffle driven by nat, which draws a   *)
(* number below its argument by masking and rejection.  The loops of nat   *)
(* and choose are actions, one turn each.  The bytes are any bytes; a      *)
(* string of l bytes is represented by its little-endian value.            *)
(***************************************************************************)
EXTENDS Integers, SequencesExt

CONSTANTS
  ByteBits,  \* bits of a byte: 8 in the code
  MaxN       \* bound: positions, and positions chosen

ASSUME SamplerAssumption ==
  ByteBits \in Nat \ {0} /\ MaxN \in Nat

VARIABLES
  pc,     \* control point
  n, k,   \* arguments of choose
  a,      \* the array that is shuffled
  res,    \* the positions chosen
  i,      \* loop variable of choose
  m,      \* argument of nat
  nn, l,  \* loop variables of the byte count of nat
  msk,    \* the mask
  drawn   \* the numbers nat returned, in order

vars == <<pc, n, k, a, res, i, m, nn, l, msk, drawn>>

-----------------------------------------------------------------------------
\* Powers of two, as a recursive function; the number of strings of w bytes.
Powers(w) == LET v[q \in 0 .. w] == IF q = 0 THEN 1 ELSE 2 * v[q - 1] IN v
TwoTo(w) == Powers(w)[w]
Strings(w) == TwoTo(ByteBits * w)

\* gen_idx: the assertions, then choose and its early return.
GenIdx ==
  /\ pc = "gen_idx" /\ n >= k
  /\ res' = [q \in 0 .. k - 1 |-> 0]
  /\ a' = [p \in 0 .. n - 1 |-> p]
  /\ i' = 0
  /\ pc' = IF n = 0 \/ k = 0 THEN "returned" ELSE "choose"
  /\ UNCHANGED <<n, k, m, nn, l, msk, drawn>>

GenIdxPanics ==
  /\ pc = "gen_idx" /\ n < k
  /\ pc' = "panicked"
  /\ UNCHANGED <<n, k, a, res, i, m, nn, l, msk, drawn>>

\* Mutant of CallNat: the range does not shrink as positions are taken.
CallNat_WholeRange ==
  /\ pc = "choose" /\ i < k
  /\ m' = n /\ nn' = n /\ l' = 0
  /\ pc' = "width"
  /\ UNCHANGED <<n, k, a, res, i, msk, drawn>>

\* nat(n - i) is called.
CallNat ==
  /\ pc = "choose" /\ i < k
  /\ m' = n - i /\ nn' = n - i /\ l' = 0
  /\ pc' = "width"
  /\ UNCHANGED <<n, k, a, res, i, msk, drawn>>

WidthStep ==
  /\ pc = "width" /\ nn # 0
  /\ nn' = nn \div TwoTo(ByteBits)
  /\ l' = l + 1
  /\ UNCHANGED <<pc, n, k, a, res, i, m, msk, drawn>>

WidthDone ==
  /\ pc = "width" /\ nn = 0
  /\ msk' = 0
  /\ pc' = "mask"
  /\ UNCHANGED <<n, k, a, res, i, m, nn, l, drawn>>

\* x & msk, for a mask of the form 2^b - 1.
Masked(x) == x % (msk + 1)

MaskStep ==
  /\ pc = "mask" /\ Masked(m) # m
  /\ msk' = 2 * msk + 1
  /\ UNCHANGED <<pc, n, k, a, res, i, m, nn, l, drawn>>

MaskDone ==
  /\ pc = "mask" /\ Masked(m) = m
  /\ pc' = "draw"
  /\ UNCHANGED <<n, k, a, res, i, m, nn, l, msk, drawn>>

\* Mutant of Reduce: the remainder, with no rejection.
Reduce_Mod(v) == v % m

\* r &= msk
Reduce(v) == Masked(v)

\* Mutant of Target: the offset i is forgotten.
Target_NoOffset(x, r) == r % n

Target(x, r) == (x + r) % n

\* Mutant of Swap: the element at x is lost.
Swap_Copy(b, x, y) == [b EXCEPT ![x] = b[y]]

Swap(b, x, y) == [b EXCEPT ![x] = b[y], ![y] = b[x]]

\* One turn of the rejection loop, and after it the rest of choose's turn.
Draw(v) ==
  LET r == Reduce(v) IN
  /\ pc = "draw"
  /\ r < m
  /\ a' = Swap(a, i, Target(i, r))
  /\ res' = [res EXCEPT ![i] = a'[i]]
  /\ drawn' = Append(drawn, r)
  /\ i' = i + 1
  /\ pc' = "choose"
  /\ UNCHANGED <<n, k, m, nn, l, msk>>

\* The number is too large: the loop draws again.
DrawAgain(v) ==
  /\ pc = "draw" /\ Reduce(v) >= m
  /\ UNCHANGED vars

Return ==
  /\ pc = "choose" /\ i = k
  /\ pc' = "returned"
  /\ UNCHANGED <<n, k, a, res, i, m, nn, l, msk, drawn>>

-----------------------------------------------------------------------------
Init ==
  /\ pc = "gen_idx"
  /\ n \in 0 .. MaxN /\ k \in 0 .. MaxN
  /\ a = <<>> /\ res = <<>> /\ i = 0
  /\ m = 0 /\ nn = 0 /\ l = 0 /\ msk = 0
  /\ drawn = <<>>

Next ==
  \/ GenIdx \/ GenIdxPanics
  \/ CallNat \/ WidthStep \/ WidthDone \/ MaskStep \/ MaskDone
  \/ \E v \in 0 .. Strings(l) - 1 : Draw(v) \/ DrawAgain(v)
  \/ Return

Spec == Init /\ [][Next]_vars

-----------------------------------------------------------------------------
(***************************************************************************)
(* Properties.                                                             *)
(***************************************************************************)
\* Type invariant; in particular every swap stays inside the array.
TypeOK ==
  /\ pc \in {"gen_idx", "panicked", "choose", "width", "mask", "draw", "returned"}
  /\ n \in 0 .. MaxN /\ k \in 0 .. MaxN
  /\ i \in 0 .. k
  /\ m \in Nat /\ nn \in Nat /\ l \in Nat /\ msk \in Nat
  /\ pc \in {"choose", "width", "mask", "draw"} =>
       a \in [0 .. n - 1 -> 0 .. n - 1] /\ res \in [0 .. k - 1 -> 0 .. n - 1]
  /\ pc \in {"width", "mask", "draw"} => i < k /\ m = n - i
  /\ drawn \in Seq(Nat)

\* choose returns k different positions below n: mark_paths_to_root of the
\* Merkle heap never refuses the queries the transcript made.
ChosenDistinct ==
  pc = "returned" =>
    /\ \A q \in 0 .. k - 1 : res[q] \in 0 .. n - 1
    /\ \A p, q \in 0 .. k - 1 : res[p] = res[q] => p = q

\* nat is uniform: every number below m comes from equally many byte strings,
\* and from at least one.
Preimages(r) == {v \in 0 .. Strings(l) - 1 : Reduce(v) = r}

NatUnbiased ==
  pc = "draw" => \A r \in 0 .. m - 1 :
                   /\ Preimages(r) # {}
                   /\ Cardinality(Preimages(r)) = Cardinality(Preimages(0))

\* choose is uniform: no other sequence of draws selects the same positions in
\* the same order, so each of the n!/(n-k)! selections has just one.  The array
\* after each turn, for draws ds:
Shuffles(ds) ==
  LET b[x \in 0 .. k] == IF x = 0 THEN [p \in 0 .. n - 1 |-> p]
                         ELSE Swap(b[x - 1], x - 1, Target(x - 1, ds[x]))
  IN  b

Draws == {ds \in [1 .. k -> 0 .. n - 1] : \A x \in 1 .. k : ds[x] < n - x + 1}

ChooseUnbiased ==
  pc = "returned" /\ n > 0 =>
    \A ds \in Draws : (\A q \in 0 .. k - 1 : Shuffles(ds)[k][q] = res[q]) => ds = drawn

\* Every selection of k positions is as likely as every other one: nat favours
\* no number, and no two sequences of draws meet in choose (gen_idx).
Unbiased == NatUnbiased /\ ChooseUnbiased
=============================================================================
