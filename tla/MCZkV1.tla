------------------------------- MODULE MCZkV1 -------------------------------
(***************************************************************************)
(* Two circuits for module ZkV1, their terms in the order of core/proto.   *)
(*   Squares: one output, w1 w1 + 2 w0 w1 - w0 w2, over two layers, the    *)
(*     inputs three in number: neither layer fills its table.              *)
(*   Asserts: one layer with two assertions on three inputs, two of them   *)
(*     public.                                                             *)
(***************************************************************************)
EXTENDS ZkV1

T(g, h0, h1, k) == [g |-> g, h0 |-> h0, h1 |-> h1, k |-> k % q]

Squares ==
  [ninput |-> 3, npublic_input |-> 1, noutput |-> 1, logv |-> 0,
   layers |-> <<[nw |-> 2, logw |-> 1, terms |-> <<T(0, 0, 1, 1)>>],
                [nw |-> 3, logw |-> 2,
                 terms |-> <<T(1, 0, 0, 1), T(0, 0, 1, 2), T(0, 1, 1, 1), T(0, 0, 2, -1)>>]>>]

Asserts ==
  [ninput |-> 3, npublic_input |-> 2, noutput |-> 2, logv |-> 1,
   layers |-> <<[nw |-> 3, logw |-> 2,
                 terms |-> <<T(0, 0, 1, 0), T(1, 0, 1, 3), T(0, 1, 2, 0), T(1, 1, 2, 1)>>]>>]

MCCircuits == {Squares, Asserts}
MCInputs(c) == {in \in [0 .. c.ninput - 1 -> {0, 1, 3}] : in[0] = 1 /\ in[1] # 3 /\ in[2] # 1}
MCPoints == {<<2, 5>>, <<5, 3>>}
MCPadTapes == {[k \in 0 .. 31 |-> (k * k + 3 * k + 1) % q]}
=============================================================================
