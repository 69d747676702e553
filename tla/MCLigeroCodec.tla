---------------------------- MODULE MCLigeroCodec ----------------------------
(***************************************************************************)
(* Instances of LigeroCodec for TLC: bytes are bits, a size has two of     *)
(* them, a field element two and a subfield element one.                   *)
(***************************************************************************)
EXTENDS LigeroCodec

CONSTANTS NRow, NReq, PathLen

MCEmbed == [u \in 0 .. 1 |-> u]

MCGeometries ==
  {[block |-> 1, dblock |-> 1, r |-> 1, nrow |-> NRow, nreq |-> q, mc_pathlen |-> PathLen]
     : q \in 1 .. NReq}

\* Proofs of the right shape with fixed responses, and one with a column short.
MCProofs(g) ==
  LET shaped(reqs) ==
        [y : {<<<<2>>, <<0>>, <<1>>, <<>>>>}, nonce : {[q \in 1 .. g.nreq |-> 1]},
         req : reqs, path : UNION {[1 .. len -> 0 .. 1] : len \in 0 .. g.nreq * PathLen}]
  IN shaped([1 .. g.nreq * g.nrow -> 0 .. P - 1]) \cup shaped({<<>>})
=============================================================================
