----------------------------- MODULE SumcheckV1 -----------------------------
(***************************************************************************)
(* The sumcheck argument of runtime/sumcheck-v1: tables and tensors that   *)
(* are bound one bit at a time, the prover's rounds, the replay by the     *)
(* verifier, and the relations both derive.                                *)
(*                                                                         *)
(* The field is the integers modulo the prime q, with points 0, 1 and 2.   *)
(* A layer is [nw, logw, terms]; a term [g, h0, h1, k] stands for k times  *)
(* wire h0 times wire h1 in output g, and k = 0 for the assertion that the *)
(* product is zero.  An array is a function on 0 .. n - 1.                 *)
(***************************************************************************)
EXTENDS Integers, Sequences, FiniteSets, Functions, SequencesExt, TLC

CONSTANTS
  q,
  MAX_LOGW,   \* length of the vectors of points drawn at the start
  Circuits,   \* circuits tried: [ninput, npublic_input, noutput, logv, layers]
  Challenges, \* values a challenge takes, a subset of F
  Points      \* vectors of challenges drawn at the start, functions on 1 .. MAX_LOGW

F == 0 .. q - 1

ASSUME SumcheckAssumption ==
  /\ q \in Nat /\ q > 2 /\ \A x, y \in 1 .. q - 1 : (x * y) % q # 0
  /\ Challenges \subseteq F /\ Points \subseteq [1 .. MAX_LOGW -> F]
  /\ \A c \in Circuits :
       c.layers \in Seq([nw : Nat, logw : Nat, terms : Seq([g : Nat, h0 : Nat, h1 : Nat, k : F])])

Sum(f) == SumFunction(f) % q
Inv(x) == CHOOSE y \in F : (x * y) % q = 1
NewArray(n, x) == [i \in 0 .. n - 1 |-> x]
Size(v) == Cardinality(DOMAIN v)
sane_logw(logw) == logw <= MAX_LOGW

-----------------------------------------------------------------------------
(***************************************************************************)
(* Polynomials given by their values at 0, 1 and 2 (algebra/poly.rs).      *)
(***************************************************************************)
newton_denominator(k, i) == Inv((k - (k - i)) % q)

\* Divided differences, in place: column i from row 2 down to row i.
newton_of_lagrange(y) ==
  LET y1 == [y EXCEPT ![2] = ((y[2] - y[1]) * newton_denominator(2, 1)) % q,
                      ![1] = ((y[1] - y[0]) * newton_denominator(1, 1)) % q]
  IN [y1 EXCEPT ![2] = ((y1[2] - y1[1]) * newton_denominator(2, 2)) % q]

eval_newton(c, x) == (((c[2] * (x - 1)) + c[1]) * x + c[0]) % q

\* Lagrange weights at x: the basis in Newton form, evaluated.
Coef(x) ==
  [k \in 0 .. 2 |->
     eval_newton(newton_of_lagrange([i \in 0 .. 2 |-> IF i = k THEN 1 ELSE 0]), x)]

\* RoundCoefficients::new
RoundCoefficients(x) ==
  LET l == Coef(x) IN [l1 |-> l[1], l0_minus_l1 |-> (l[0] - l[1]) % q, l2 |-> l[2]]

\* Mutant of EvaluateRound: p(1) is taken to be the claim.
EvaluateRound_NoSplit(co, poly, claim) ==
  (co.l1 * claim + (co.l0_minus_l1 + co.l1) * poly[0] + co.l2 * poly[1]) % q

\* RoundCoefficients::evaluate: the wire has p(0) and p(2), and p(0) + p(1)
\* is the claim.
EvaluateRound(co, poly, claim) ==
  (co.l1 * claim + co.l0_minus_l1 * poly[0] + co.l2 * poly[1]) % q

-----------------------------------------------------------------------------
(***************************************************************************)
(* Tables of wires (dense.rs) and weights of indices (eq.rs).              *)
(***************************************************************************)
affine_interpolation(r, f0, f1) == (f0 + (f1 - f0) * r) % q

\* Mutant of Bind: a wire without partner is dropped.
Bind_Floor(v, r) ==
  [i \in 0 .. Size(v) \div 2 - 1 |-> affine_interpolation(r, v[2 * i], v[2 * i + 1])]

\* bind, bind_out_of_place: a missing last partner is zero.
Bind(v, r) ==
  LET n == Size(v)
  IN [i \in 0 .. (n + 1) \div 2 - 1 |->
        affine_interpolation(r, v[2 * i], IF 2 * i + 1 < n THEN v[2 * i + 1] ELSE 0)]

normalize(v) == IF Size(v) = 0 THEN NewArray(1, 0) ELSE v

\* eq[i] = w0 EQ(g0, i) + w1 EQ(g1, i), split at the highest bit of i.
fill_recursive(logn, n, g0, g1) ==
  LET fill[l \in 0 .. logn, m \in 0 .. n, w0 \in F, w1 \in F] ==
        IF l = 0 THEN [i \in 0 .. m - 1 |-> IF i = 0 THEN (w0 + w1) % q ELSE 0]
        ELSE LET s == 2 ^ (l - 1)
                 hi0 == (w0 * g0[l]) % q
                 hi1 == (w1 * g1[l]) % q
                 lo == fill[l - 1, IF s < m THEN s ELSE m, (w0 - hi0) % q, (w1 - hi1) % q]
             IN IF s < m
                THEN LET hi == fill[l - 1, m - s, hi0, hi1]
                     IN [i \in 0 .. m - 1 |-> IF i < s THEN lo[i] ELSE hi[i - s]]
                ELSE lo
  IN fill

\* Mutant of eq2: both claims are weighted at the first point.
eq2_OnePoint(logn, n, g0, g1, alpha) == fill_recursive(logn, n, g0, g0)[logn, n, 1, alpha]

eq2(logn, n, g0, g1, alpha) == fill_recursive(logn, n, g0, g1)[logn, n, 1, alpha]

-----------------------------------------------------------------------------
(***************************************************************************)
(* The wiring tensor after binding the outputs (hquad.rs): a sequence of   *)
(* corners [h, v], with h[1] the right wire (hand 0), h[2] the left.       *)
(***************************************************************************)
bind_g(layer, logv, nv, g0, g1, alpha, beta) ==
  LET dot == eq2(logv, nv, g0, g1, alpha)
      Add(hq, t) ==
        LET v == ((IF t.k = 0 THEN beta ELSE t.k) * dot[t.g]) % q
        IN IF hq # <<>> /\ Last(hq).h = <<t.h0, t.h1>>
           THEN [hq EXCEPT ![Len(hq)].v = (@ + v) % q]
           ELSE Append(hq, [h |-> <<t.h0, t.h1>>, v |-> v])
  IN FoldLeft(Add, <<>>, layer.terms)

\* Mutant of Partners: the other hand is not compared.
Partners_AnyOther(c, d, hand) ==
  /\ c.h[hand + 1] \div 2 = d.h[hand + 1] \div 2
  /\ d.h[hand + 1] = c.h[hand + 1] + 1

\* Do two neighbouring corners differ in the lowest bit of one hand only?
Partners(c, d, hand) ==
  /\ c.h[2 - hand] = d.h[2 - hand]
  /\ c.h[hand + 1] \div 2 = d.h[hand + 1] \div 2
  /\ d.h[hand + 1] = c.h[hand + 1] + 1

\* One pass over the corners; a corner is read once, alone or with its partner.
bind_h(hq, r, hand) ==
  LET bound[i \in 1 .. Len(hq) + 1] ==
        IF i > Len(hq) THEN <<>>
        ELSE LET c == hq[i]
                 pair == i < Len(hq) /\ Partners(c, hq[i + 1], hand)
                 even == c.h[hand + 1] % 2 = 0
                 v == IF pair THEN affine_interpolation(r, c.v, hq[i + 1].v)
                      ELSE IF even THEN affine_interpolation(r, c.v, 0)
                      ELSE affine_interpolation(r, 0, c.v)
             IN <<[h |-> [c.h EXCEPT ![hand + 1] = @ \div 2], v |-> v]>>
                \o bound[IF pair THEN i + 2 ELSE i + 1]
  IN bound[1]

\* HQuad::scalar asserts this before it reads the value.
IsScalar(hq) == Len(hq) = 1 /\ hq[1].h = <<0, 0>>

-----------------------------------------------------------------------------
(***************************************************************************)
(* eval.rs: layers are evaluated from the inputs, the last, to the first.  *)
(***************************************************************************)
AssertionsHold(layer, w) ==
  \A t \in 1 .. Len(layer.terms) :
    layer.terms[t].k = 0 => (w[layer.terms[t].h0] * w[layer.terms[t].h1]) % q = 0

eval_quad(nv, w, layer) ==
  [g \in 0 .. nv - 1 |->
     Sum([t \in {u \in 1 .. Len(layer.terms) : layer.terms[u].g = g} |->
            layer.terms[t].k * w[layer.terms[t].h1] * w[layer.terms[t].h0]])]

OutputWidth(c, l) == IF l > 1 THEN c.layers[l - 1].nw ELSE c.noutput

\* in_layers[l] is the input of layer l; in_layers[0] the output of the circuit.
Wires(c, w) ==
  LET nl == Len(c.layers)
      in[l \in 0 .. nl] == IF l = nl THEN w
                           ELSE eval_quad(OutputWidth(c, l + 1), in[l + 1], c.layers[l + 1])
  IN in

eval_circuit_ok(c, in) ==
  /\ \A l \in 1 .. Len(c.layers) : AssertionsHold(c.layers[l], in[l])
  /\ \A i \in DOMAIN in[0] : in[0][i] = 0

-----------------------------------------------------------------------------
(***************************************************************************)
(* One round of the prover.                                                *)
(***************************************************************************)
\* fill_round_weights
RoundWeights(hq, other, hand, n) ==
  [h \in 0 .. n - 1 |->
     Sum([i \in {j \in 1 .. Len(hq) : hq[j].h[hand + 1] = h} |->
            hq[i].v * other[hq[i].h[2 - hand]]])]

\* Mutant of quad_round_poly: the last wire of an odd number is left out.
quad_round_poly_Even(n, qw, wv, sum) ==
  LET pairs == 0 .. n \div 2 - 1
      a0 == Sum([i \in pairs |-> qw[2 * i] * wv[2 * i]])
      a2 == Sum([i \in pairs |-> (qw[2 * i + 1] - qw[2 * i]) * (wv[2 * i + 1] - wv[2 * i])])
      g1 == (sum - a0) % q
  IN <<a0, g1, ((a2 * 2 + g1 - a0 - a2) * 2 + a0) % q>>

\* Values at 0, 1 and 2; the value at 1 follows from the claim.
quad_round_poly(n, qw, wv, sum) ==
  LET pairs == 0 .. n \div 2 - 1
      last == IF n % 2 = 1 THEN qw[n - 1] * wv[n - 1] ELSE 0
      a0 == (Sum([i \in pairs |-> qw[2 * i] * wv[2 * i]]) + last) % q
      a2 == (Sum([i \in pairs |->
                    (qw[2 * i + 1] - qw[2 * i]) * (wv[2 * i + 1] - wv[2 * i])]) + last) % q
      g1 == (sum - a0) % q
  IN <<a0, g1, ((a2 * 2 + g1 - a0 - a2) * 2 + a0) % q>>

-----------------------------------------------------------------------------
(***************************************************************************)
(* The transcript, as module Transcript shows it: a log of what was        *)
(* absorbed and drawn.  A draw after a log that the prover had as well     *)
(* gives what the prover drew; after any other log it gives fresh.         *)
(***************************************************************************)
Absorbed(log, v) == Append(log, [op |-> "absorb", v |-> v])
Drawn(log, v) == Append(log, [op |-> "draw", v |-> v])

Replay(provers, log, fresh) ==
  IF /\ Len(log) < Len(provers)
     /\ SubSeq(provers, 1, Len(log)) = log
     /\ provers[Len(log) + 1].op = "draw"
  THEN provers[Len(log) + 1].v
  ELSE fresh

\* begin_circuit draws a vector for copies first, which no one uses.
CopyDrawn(log) == Drawn(log, "copy")

\* write_sumcheck_statement: circuit, public inputs, zero output, padding.
Statement(log, c, inputs) ==
  Absorbed(Absorbed(Absorbed(log, c), [i \in 0 .. c.npublic_input - 1 |-> inputs[i]]),
           [zeros |-> FoldLeft(LAMBDA n, l : n + Len(l.terms), 0, c.layers)])

-----------------------------------------------------------------------------
(***************************************************************************)
(* derive_verifier_data: the same rounds from the messages.                *)
(***************************************************************************)
\* One round: two elements are absorbed and a point drawn.
ReplayStep(messages, s, k, provers, fresh) ==
  LET round == (k - 1) \div 2
      hand == (k - 1) % 2
      m == messages.hp[hand][round]
      log1 == Absorbed(Absorbed(s.log, m[0]), m[1])
      r == Replay(provers, log1, fresh)
  IN [log |-> Drawn(log1, r), points |-> [s.points EXCEPT ![hand] = Append(@, r)]]

\* Threads the log through the rounds of a layer, in the order round, hand:
\* the state after k of them.
ReplayRounds(messages, logw, log0, provers, fresh) ==
  LET after[k \in 0 .. 2 * logw] ==
        IF k = 0 THEN [log |-> log0, points |-> [hand \in 0 .. 1 |-> <<>>]]
        ELSE ReplayStep(messages, after[k - 1], k, provers, fresh)
  IN after

\* The tensor with k bits of each hand bound.
BindHands(hq, right, left) ==
  LET bound[k \in 0 .. Len(right)] ==
        IF k = 0 THEN hq ELSE bind_h(bind_h(bound[k - 1], right[k], 0), left[k], 1)
  IN bound

Rounds(points) ==
  [hand \in 0 .. 1 |-> [k \in 0 .. Len(points[hand]) - 1 |-> RoundCoefficients(points[hand][k + 1])]]

\* The turn of the verifier's loop for layer l.
ReplayLayer(c, proof, s, l, provers, fresh) ==
  LET layer == c.layers[l]
      alpha == Replay(provers, s.log, fresh)
      log1 == Drawn(s.log, alpha)
      beta == Replay(provers, log1, fresh)
      rounds == ReplayRounds(proof[l], layer.logw, Drawn(log1, beta), provers, fresh)[2 * layer.logw]
      hq == BindHands(bind_g(layer, s.logv, s.nv, s.points[0], s.points[1], alpha, beta),
                      rounds.points[0], rounds.points[1])[Len(rounds.points[0])]
  IN [log |-> Absorbed(rounds.log, proof[l].claims),
      points |-> rounds.points, logv |-> layer.logw, nv |-> layer.nw,
      ok |-> s.ok /\ IsScalar(hq),
      layers |-> Append(s.layers, [rounds |-> Rounds(rounds.points), alpha |-> alpha,
                                   bound_quad |-> hq[1].v])]

\* The state after l layers.
ReplayLayers(c, proof, log0, provers, fresh) ==
  LET start == Replay(provers, CopyDrawn(log0), [k \in 1 .. MAX_LOGW |-> fresh])
      after[l \in 0 .. Len(c.layers)] ==
        IF l = 0 THEN [log |-> Drawn(CopyDrawn(log0), start), points |-> [hand \in 0 .. 1 |-> start],
                       logv |-> c.logv, nv |-> c.noutput, ok |-> TRUE, layers |-> <<>>]
        ELSE ReplayLayer(c, proof, after[l - 1], l, provers, fresh)
  IN after

derive_verifier_data(c, proof, log0, provers, fresh) ==
  LET end == ReplayLayers(c, proof, log0, provers, fresh)[Len(c.layers)]
      input_alpha == Replay(provers, end.log, fresh)
  IN [ok |-> end.ok,
      data |-> [layers |-> end.layers, input_alpha |-> input_alpha,
                input_weights |-> eq2(end.logv, c.ninput, end.points[0], end.points[1], input_alpha)],
      log |-> Drawn(end.log, input_alpha)]

-----------------------------------------------------------------------------
(***************************************************************************)
(* symbolic.rs: a relation is affine in the pads, plus a multiple of the   *)
(* product of two of them.  A pad is <<"round", layer, round, hand,        *)
(* evaluation>> or <<"endpoint", layer, endpoint>>.                        *)
(***************************************************************************)
PadTerm(pad, k) == [pad |-> pad, coefficient |-> k % q]

endpoint_claim(l, messages, alpha) ==
  [constant |-> (messages[0] + alpha * messages[1]) % q,
   terms |-> <<PadTerm(<<"endpoint", l, 0>>, 1), PadTerm(<<"endpoint", l, 1>>, alpha)>>]

Scaled(claim, k) ==
  [constant |-> (claim.constant * k) % q,
   terms |-> [t \in 1 .. Len(claim.terms) |->
                [claim.terms[t] EXCEPT !.coefficient = (@ * k) % q]]]

\* One round of the symbolic claim.
SymbolicRound(claim, l, round, hand, m, co) ==
  LET s == Scaled(claim, co.l1)
  IN [constant |-> (s.constant + co.l0_minus_l1 * m[0] + co.l2 * m[1]) % q,
      terms |-> s.terms \o <<PadTerm(<<"round", l, round, hand, 0>>, co.l0_minus_l1),
                             PadTerm(<<"round", l, round, hand, 1>>, co.l2)>>]

NoClaim == [constant |-> 0, terms |-> <<>>]

LayerRelation(proof, data, l) ==
  LET first == IF l = 1 THEN NoClaim
               ELSE endpoint_claim(l - 1, proof[l - 1].claims, data.layers[l].alpha)
      m == proof[l]
      Step(claim, k) ==
        LET round == (k - 1) \div 2
            hand == (k - 1) % 2
        IN SymbolicRound(claim, l, round, hand, m.hp[hand][round],
                         data.layers[l].rounds[hand][round])
      c == FoldLeft(Step, first, [k \in 1 .. 2 * Size(m.hp[0]) |-> k])
      quad == data.layers[l].bound_quad
  IN [linear |-> [constant |-> (c.constant - quad * m.claims[0] * m.claims[1]) % q,
                  terms |-> c.terms \o
                    <<PadTerm(<<"endpoint", l, 0>>, -(quad * m.claims[1])),
                      PadTerm(<<"endpoint", l, 1>>, -(quad * m.claims[0]))>>],
      product_coefficient |-> (-quad) % q]

\* symbolic::verify
Relations(proof, data) ==
  LET nl == Len(proof)
      last == IF nl = 0 THEN NoClaim
              ELSE endpoint_claim(nl, proof[nl].claims, data.input_alpha)
  IN [layers |-> [l \in 1 .. nl |-> LayerRelation(proof, data, l)],
      input |-> [weights |-> data.input_weights, linear |-> Scaled(last, -1)]]

\* PadExpression::evaluate
PadValue(pads, pad) ==
  IF pad[1] = "round" THEN pads[pad[2]].hp[pad[4]][pad[3]][pad[5]]
  ELSE pads[pad[2]].claims[pad[3]]

Evaluate(e, pads) ==
  (e.constant + Sum([t \in 1 .. Len(e.terms) |->
                       e.terms[t].coefficient * PadValue(pads, e.terms[t].pad)])) % q

\* VerificationRelations::evaluate: one residual per layer, then the inputs'.
Residuals(rel, inputs, pads) ==
  [l \in 1 .. Len(rel.layers) |->
     (Evaluate(rel.layers[l].linear, pads)
      + rel.layers[l].product_coefficient * pads[l].claims[0] * pads[l].claims[1]) % q]
  \o <<(Evaluate(rel.input.linear, pads)
        + Sum([i \in DOMAIN rel.input.weights |-> rel.input.weights[i] * inputs[i]])) % q>>

=============================================================================
