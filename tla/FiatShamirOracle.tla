-------------------------- MODULE FiatShamirOracle --------------------------
(***************************************************************************)
(* What a Fiat-Shamir transcript promises: the challenge bytes are read    *)
(* off an ideal stream chosen by the messages absorbed so far and by       *)
(* nothing else.  No generator, buffer, counter or framing is visible.     *)
(***************************************************************************)
EXTENDS Naturals, Sequences

CONSTANTS
  Replica,         \* transcript objects
  Message,         \* messages that can be absorbed
  Challenge(_, _)  \* Challenge(ms, n): n-th byte after the messages ms

VARIABLES
  msgs,            \* messages absorbed by each replica
  stream           \* challenge bytes drawn since the last message

Init ==
  /\ msgs \in [Replica -> {<<m>> : m \in Message}]
  /\ stream = [r \in Replica |-> <<>>]

Absorb(r) ==
  /\ \E m \in Message : msgs' = [msgs EXCEPT ![r] = Append(@, m)]
  /\ stream' = [stream EXCEPT ![r] = <<>>]

Draw(r) ==
  /\ stream' = [stream EXCEPT ![r] = Append(@, Challenge(msgs[r], Len(@) + 1))]
  /\ UNCHANGED msgs

Copy(r, s) ==
  /\ msgs' = [msgs EXCEPT ![s] = msgs[r]]
  /\ stream' = [stream EXCEPT ![s] = stream[r]]

Next == \E r \in Replica : Absorb(r) \/ Draw(r) \/ \E s \in Replica : Copy(r, s)

Spec == Init /\ [][Next]_<<msgs, stream>>
=============================================================================
