------------------------------- MODULE MCLigero -------------------------------
(***************************************************************************)
(* Instances of Ligero for TLC.  The tapes are the values of the           *)
(* quadratic polynomials over the field, so that each coin takes every     *)
(* value and neighbouring coins take all combinations.                     *)
(***************************************************************************)
EXTENDS Ligero, TLC

CONSTANTS
  Known,       \* elements witnesses and right-hand sides are made of
  Coefficients \* coefficients of the tapes

Tape(len, c0, c1, c2) == [k \in 0 .. len - 1 |-> (c0 + c1 * k + c2 * k * k) % q]
TapesOf(len) == {Tape(len, c0, c1, c2) : c0, c1, c2 \in Coefficients}

MCWitnesses == [0 .. nw - 1 -> Known]
MCEvals == [0 .. nl - 1 -> Known]
MCCoins == TapesOf(NCoins)
MCTapes == TapesOf(NChallenges)

\* Two equations on three witnesses; w1 = w0 * w0, w0 = w0 * w2, w1 = w2 * w1.
MCllterm == << [c |-> 0, w |-> 0, k |-> 1], [c |-> 0, w |-> 2, k |-> 2],
               [c |-> 1, w |-> 1, k |-> q - 1] >>
MClqc == 0 :> [x |-> 0, y |-> 0, z |-> 1] @@ 1 :> [x |-> 0, y |-> 2, z |-> 0]
         @@ 2 :> [x |-> 2, y |-> 1, z |-> 1]

\* A witness that satisfies the products, with right-hand sides that make the
\* equations true, or the second one false.
MCLossy == {0 :> q - 1 @@ 1 :> 1 @@ 2 :> 1}
           \X {0 :> q - 1 @@ 1 :> e : e \in {0, 1}}
           \X {Tape(NCoins, 0, 3, 3)}
=============================================================================
