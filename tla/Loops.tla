------------------------------- MODULE Loops -------------------------------
(***************************************************************************)
(* Loops of the code, as folds from left to right.  They are recursive     *)
(* functions because the loops modelled with them run over sequences that  *)
(* are too long for the folds over sets of the community modules.          *)
(***************************************************************************)
EXTENDS Integers, Sequences, FiniteSets

\* One step of a loop from a value computed before it (an operator's argument
\* is otherwise evaluated where it is used).
Strictly(before, step(_)) == CHOOSE a \in {step(b) : b \in {before}} : TRUE

\* for i in lo..=hi { acc = step(acc, i) }, in blocks that keep the depth of the
\* recursion low.
Block == 6
Run(init, lo, hi, step(_, _)) ==
  LET acc[i \in lo - 1 .. hi] == IF i < lo THEN init ELSE Strictly(acc[i - 1], LAMBDA b : step(b, i))
  IN IF hi < lo THEN init ELSE acc[hi]
For(init, lo, hi, step(_, _)) ==
  LET last(k) == IF lo + k * Block - 1 < hi THEN lo + k * Block - 1 ELSE hi
      done[k \in Nat] == IF k = 0 THEN init ELSE Strictly(done[k - 1], LAMBDA b : Run(b, lo + (k - 1) * Block, last(k), step))
  IN IF hi - lo < Block THEN Run(init, lo, hi, step) ELSE done[(hi - lo) \div Block + 1]

\* for x in seq { acc = step(acc, x) }
ForEach(init, seq, step(_, _)) == For(init, 1, Len(seq), LAMBDA acc, i : step(acc, seq[i]))

\* Sum and product of a function over lo..=hi.
SumOver(lo, hi, f(_)) == For(0, lo, hi, LAMBDA acc, i : acc + f(i))
ProductOver(lo, hi, f(_)) == For(1, lo, hi, LAMBDA acc, i : acc * f(i))

\* Concatenation of the sequences part(lo), ..., part(hi).
Concat(lo, hi, part(_)) == For(<<>>, lo, hi, LAMBDA acc, i : acc \o part(i))

\* The sequence f(1), ..., f(n), every element computed once.
Build(n, f(_)) == For(<<>>, 1, n, LAMBDA acc, i : Append(acc, f(i)))

\* The members of a set in a strict total order.
InOrder(S, less(_, _)) == [i \in 1 .. Cardinality(S) |-> CHOOSE x \in S : Cardinality({y \in S : less(y, x)}) = i - 1]

\* Bit i of a number, and the number of given bits, least significant first.
Bit(x, i) == (x \div 2^i) % 2
FromBits(bits) == SumOver(1, Len(bits), LAMBDA i : bits[i] * 2^(i - 1))
BitsOf(x, n) == [i \in 1 .. n |-> Bit(x, i - 1)]

\* Xor of two numbers of n bits, four bits at a time.
XorTable == Build(16, LAMBDA x : Build(16, LAMBDA y : SumOver(0, 3, LAMBDA i : ((Bit(x - 1, i) + Bit(y - 1, i)) % 2) * 2^i)))
XorBits(x, y, n) ==
  Strictly(<<x, y>>, LAMBDA p :
    SumOver(0, (n - 1) \div 4, LAMBDA i : XorTable[((p[1] \div 16^i) % 16) + 1][((p[2] \div 16^i) % 16) + 1] * 16^i) % 2^n)
=============================================================================
