---------------------------- MODULE Computations ----------------------------
(***************************************************************************)
(* The frame in which computations without a state of their own are        *)
(* checked: a behaviour picks a family of cases and one case of it, and    *)
(* then is done with that case.  What a family promises is stated of the   *)
(* case that was picked, and a run checks it of the step that ends it.     *)
(***************************************************************************)
EXTENDS Integers, Sequences, FiniteSets, SequencesExt, FiniteSetsExt, Loops

CONSTANT Families   \* the names of the families to run

VARIABLES task, case
vars == <<task, case>>

Init == task \in Families /\ case = <<>>

\* One of the cases of a family; and whether a case of it was picked.
Pick(name, cases) == task = name /\ case = <<>> /\ \E c \in cases : case' = <<c>> /\ UNCHANGED task
On(name) == task = name /\ case # <<>>
\* The case that was picked has been computed.
Done == case # <<>> /\ task' = "done" /\ case' = <<>>
=============================================================================
