----------------------------- MODULE SumcheckV2 -----------------------------
(***************************************************************************)
(* The sumcheck of version 2 (runtime/sumcheck-v2) and the constraints     *)
(* that runtime/zk-v2 compiles from it.  Only one hand is bound: a layer   *)
(* is the sum over l of q_l[l] W[l], tables are coefficients of monomials, *)
(* and one claim is carried from layer to layer.                           *)
(*                                                                         *)
(* The field is the integers modulo P.  Layers and terms are as in module  *)
(* SumcheckV1, an array is a function on 0 .. n - 1.  Both roles are       *)
(* functions of the transcript they continue, see below.                   *)
(***************************************************************************)
EXTENDS Integers, Sequences, FiniteSets, SequencesExt, Loops

CONSTANT P

Mod(x) == x % P
Array(n, f(_)) == [i \in 0 .. n - 1 |-> f(i)]
Size(v) == Cardinality(DOMAIN v)
Dot(u, v) == Mod(SumOver(0, Size(u) - 1, LAMBDA i : u[i] * v[i]))
\* y + alpha x
axpy(y, alpha, x) == [i \in DOMAIN y |-> Mod(y[i] + alpha * x[i])]
Elements(v) == [i \in 1 .. Size(v) |-> v[i - 1]]

-----------------------------------------------------------------------------
(***************************************************************************)
(* The transcript: all that was absorbed, and a number made from it.  A    *)
(* draw is a function of that number, so it depends on everything absorbed *)
(* and on nothing else; the seed stands for the choice of that function.   *)
(***************************************************************************)
Opened(seed) == [log |-> <<>>, acc |-> seed]
Absorb(ts, x) == [log |-> Append(ts.log, x), acc |-> (ts.acc * 37 + x + 11) % 10007]
AbsorbAll(ts, xs) == ForEach(ts, xs, Absorb)
Drawn(ts) == [x |-> Mod(ts.acc * ts.acc + ts.acc \div P), ts |-> Absorb(ts, 1)]
\* n draws: elt_field_slice
DrawnAll(ts, n) ==
  For([xs |-> <<>>, ts |-> ts], 1, n, LAMBDA s, i :
    LET d == Drawn(s.ts) IN [xs |-> Append(s.xs, d.x), ts |-> d.ts])

\* Labels that separate the steps on the transcript.
BeginLabel == 101
AssertionLabel == 102
CombineLabel == 103
StatementLabel == 104

write_sumcheck_statement(ts, c, id, public) ==
  LET nterms == SumOver(1, Len(c.layers), LAMBDA l : Len(c.layers[l].terms))
  IN Absorb(Absorb(AbsorbAll(Absorb(ts, id), public), 0), nterms)

-----------------------------------------------------------------------------
(***************************************************************************)
(* Tables of monomial coefficients (monomial.rs, dense.rs).                *)
(***************************************************************************)
RECURSIVE fill(_, _, _)
fill(n, point, weight) ==
  IF point = <<>> THEN Array(n, LAMBDA i : IF i = 0 THEN weight ELSE 0)
  ELSE LET stride == 2 ^ (Len(point) - 1)
           low == fill(IF stride < n THEN stride ELSE n, Front(point), weight)
       IN IF stride < n
          THEN LET high == fill(n - stride, Front(point), Mod(weight * Last(point)))
               IN Array(n, LAMBDA i : IF i < stride THEN low[i] ELSE high[i - stride])
          ELSE low
\* Weight of index i: the product of the coordinates of its bits.
weights(logn, n, point) == IF n = 0 THEN <<>> ELSE fill(n, SubSeq(point, 1, logn), 1)

\* Mutant of bind: the last of an odd number is multiplied as well.
bind_Last(v, z) ==
  LET n == Size(v)
  IN Array((n + 1) \div 2, LAMBDA i : IF 2 * i + 1 < n THEN Mod(v[2 * i] + z * v[2 * i + 1]) ELSE Mod(z * v[2 * i]))
bind(v, z) ==
  LET n == Size(v)
  IN Array((n + 1) \div 2, LAMBDA i : IF 2 * i + 1 < n THEN Mod(v[2 * i] + z * v[2 * i + 1]) ELSE v[2 * i])

-----------------------------------------------------------------------------
(***************************************************************************)
(* The wiring tensor bound on one side (quad.rs).                          *)
(***************************************************************************)
\* The coefficient of term t: an assertion has its own challenge, in order.
Coefficient(layer, a, assertions, t) ==
  LET term == layer.terms[t]
      rank == Cardinality({u \in 1 .. t : layer.terms[u].k = 0})
  IN IF term.k = 0 THEN assertions[rank] ELSE Mod(a[term.g] * term.k)
bind_l(layer, a, assertions, b_l) ==
  Array(layer.nw, LAMBDA r :
    Mod(SumOver(1, Len(layer.terms), LAMBDA t :
      IF layer.terms[t].h1 = r THEN Coefficient(layer, a, assertions, t) * b_l[layer.terms[t].h0] ELSE 0)))
bind_r(layer, a, assertions, b_r) ==
  Array(layer.nw, LAMBDA l :
    Mod(SumOver(1, Len(layer.terms), LAMBDA t :
      IF layer.terms[t].h0 = l THEN Coefficient(layer, a, assertions, t) * b_r[layer.terms[t].h1] ELSE 0)))
\* Mutant of weights_next: the two claims are combined the other way round.
weights_next_Swapped(layer, a, assertions, point, alpha) ==
  LET m_l == weights(layer.logw, layer.nw, point) IN axpy(bind_l(layer, a, assertions, m_l), alpha, m_l)
weights_next(layer, a, assertions, point, alpha) ==
  LET m_l == weights(layer.logw, layer.nw, point) IN axpy(m_l, alpha, bind_l(layer, a, assertions, m_l))

\* eval.rs: the inputs of all layers, or an error.
eval_layer(w, layer, noutput) ==
  Array(noutput, LAMBDA g :
    Mod(SumOver(1, Len(layer.terms), LAMBDA t :
      LET x == layer.terms[t] IN IF x.g = g THEN x.k * w[x.h0] * w[x.h1] ELSE 0)))
AssertionsHold(w, layer) ==
  \A t \in 1 .. Len(layer.terms) : layer.terms[t].k = 0 => Mod(w[layer.terms[t].h0] * w[layer.terms[t].h1]) = 0
eval_circuit(c, w) ==
  LET nl == Len(c.layers)
      in[l \in 0 .. nl] ==
        IF l = nl THEN w
        ELSE eval_layer(in[l + 1], c.layers[l + 1], IF l = 0 THEN c.noutput ELSE c.layers[l].nw)
  IN [ok |-> (\A l \in 1 .. nl : AssertionsHold(in[l], c.layers[l])) /\ (\A g \in DOMAIN in[0] : in[0][g] = 0),
      w_layers |-> [l \in 1 .. nl |-> in[l]]]

-----------------------------------------------------------------------------
(***************************************************************************)
(* The steps both roles take on the transcript (transcript.rs).            *)
(***************************************************************************)
begin(ts, c) ==
  LET d == DrawnAll(Absorb(ts, BeginLabel), c.logv) IN [ts |-> d.ts, a |-> weights(c.logv, c.noutput, d.xs)]
assertion_weights(ts, layer, index) ==
  DrawnAll(Absorb(Absorb(ts, AssertionLabel), index), Cardinality({t \in 1 .. Len(layer.terms) : layer.terms[t].k = 0}))
round_challenge(ts, m) == Drawn(AbsorbAll(ts, m))
end_layer(ts, claims) == Drawn(Absorb(AbsorbAll(ts, claims), CombineLabel))

-----------------------------------------------------------------------------
(***************************************************************************)
(* The prover (prover.rs).                                                 *)
(***************************************************************************)
\* The coefficients c0 and c1 of a round's polynomial; c0 + c2 is the claim.
quad_round_poly(q_l, w, claim) ==
  LET n == Size(w)
      last == IF n % 2 = 1 THEN q_l[n - 1] * w[n - 1] ELSE 0
      c0 == SumOver(0, n \div 2 - 1, LAMBDA i : q_l[2 * i] * w[2 * i]) + last
      p1 == SumOver(0, n \div 2 - 1, LAMBDA i : (q_l[2 * i] + q_l[2 * i + 1]) * (w[2 * i] + w[2 * i + 1])) + last
  IN <<Mod(c0), Mod(p1 - claim)>>
\* p(z) from the claim and the two coefficients.
NextClaim(claim, c, z) == Mod(z * z * claim + (1 - z * z) * c[1] + z * c[2])
Minus(u, v) == [i \in 1 .. Len(u) |-> Mod(u[i] - v[i])]

round(s, pads) ==
  LET p == quad_round_poly(s.q_l, s.w, s.claim)
      m == Minus(p, pads)
      d == round_challenge(s.ts, m)
  IN [ts |-> d.ts, w |-> bind(s.w, d.x), q_l |-> bind(s.q_l, d.x), claim |-> NextClaim(s.claim, p, d.x),
      rounds |-> Append(s.rounds, m), point |-> Append(s.point, d.x)]

\* prove_dot_product; ok is its assertion.
prove_dot_product(ts, w, q_l, pads, claim) ==
  LET s == ForEach([ts |-> ts, w |-> w, q_l |-> q_l, claim |-> claim, rounds |-> <<>>, point |-> <<>>], pads.rounds, round)
      claims == <<s.w[0], s.q_l[0]>>
      d == end_layer(s.ts, Minus(claims, pads.claims))
  IN [ts |-> d.ts, ok |-> Size(s.w) = 1 /\ Size(s.q_l) = 1 /\ s.claim = Mod(claims[1] * claims[2]),
      proof |-> [rounds |-> s.rounds, claims |-> Minus(claims, pads.claims)],
      challenges |-> [point_l |-> s.point, alpha |-> d.x],
      claim |-> Mod(claims[1] + d.x * claims[2])]

ProveLayer(c, w_layers, pads, s, l) ==
  LET layer == c.layers[l]
      as == assertion_weights(s.ts, layer, l)
      q_l == bind_r(layer, s.a, as.xs, w_layers[l])
      p == prove_dot_product(as.ts, w_layers[l], q_l, pads[l], s.claim)
  IN [ts |-> p.ts, ok |-> s.ok /\ p.ok, claim |-> p.claim,
      a |-> weights_next(layer, s.a, as.xs, p.challenges.point_l, p.challenges.alpha),
      proof |-> Append(s.proof, p.proof), challenges |-> Append(s.challenges, p.challenges)]

-----------------------------------------------------------------------------
(***************************************************************************)
(* symbolic.rs: the claims as affine expressions in the pads, which are    *)
(* <<"round", layer, round, slot>> and <<"claim", layer, slot>>.           *)
(***************************************************************************)
SymbolicRound(e, l, r, m, z) ==
  [constant |-> Mod(z * z * e.constant + (1 - z * z) * m[1] + z * m[2]),
   terms |-> [t \in 1 .. Len(e.terms) |-> <<e.terms[t][1], Mod(e.terms[t][2] * z * z)>>]
             \o <<<<<<"round", l, r, 1>>, Mod(1 - z * z)>>, <<<<"round", l, r, 2>>, z>>>>]
\* The affine part of claim - A B.
subtract_claim_product(e, l, m) ==
  [constant |-> Mod(e.constant - m[1] * m[2]),
   terms |-> e.terms \o <<<<<<"claim", l, 1>>, Mod(-m[2])>>, <<<<"claim", l, 2>>, Mod(-m[1])>>>>]
claim_next(l, m, alpha) ==
  [constant |-> Mod(m[1] + alpha * m[2]), terms |-> <<<<<<"claim", l, 1>>, 1>>, <<<<"claim", l, 2>>, alpha>>>>]

build_constraints(proof, challenges, input_weights) ==
  LET Layer(s, l) ==
        LET m == proof[l]
            e == For(s.claim, 1, Len(m.rounds), LAMBDA x, r : SymbolicRound(x, l, r, m.rounds[r], challenges[l].point_l[r]))
        IN [layers |-> Append(s.layers, subtract_claim_product(e, l, m.claims)),
            claim |-> claim_next(l, m.claims, challenges[l].alpha)]
      end == For([layers |-> <<>>, claim |-> [constant |-> 0, terms |-> <<>>]], 1, Len(proof), Layer)
  IN [layers |-> end.layers, input_claim |-> end.claim, input_weights |-> input_weights]

prove_core(ts, c, w_layers, pads) ==
  LET b == begin(ts, c)
      end == For([ts |-> b.ts, ok |-> TRUE, claim |-> 0, a |-> b.a, proof |-> <<>>, challenges |-> <<>>],
                 1, Len(c.layers), LAMBDA s, l : ProveLayer(c, w_layers, pads, s, l))
  IN [ts |-> end.ts, ok |-> end.ok, proof |-> end.proof, constraints |-> build_constraints(end.proof, end.challenges, end.a)]

\* reduction.rs: the same challenges from the messages, without a witness.
ReduceLayer(c, proof, s, l) ==
  LET layer == c.layers[l]
      as == assertion_weights(s.ts, layer, l)
      r == ForEach([ts |-> as.ts, point |-> <<>>], proof[l].rounds, LAMBDA x, m :
             LET d == round_challenge(x.ts, m) IN [ts |-> d.ts, point |-> Append(x.point, d.x)])
      d == end_layer(r.ts, proof[l].claims)
  IN [ts |-> d.ts, a |-> weights_next(layer, s.a, as.xs, r.point, d.x),
      challenges |-> Append(s.challenges, [point_l |-> r.point, alpha |-> d.x])]
logw_layers(c) == [l \in 1 .. Len(c.layers) |-> c.layers[l].logw]
\* SumcheckProof::validate: a message for every round of every layer.
MAX_LOGW == 40
SumcheckShape(proof, geom) ==
  /\ Len(proof) = Len(geom)
  /\ \A l \in 1 .. Len(geom) : Len(proof[l].rounds) = geom[l] /\ geom[l] <= MAX_LOGW
derive_constraints(ts, c, proof) ==
  LET b == begin(ts, c)
      end == For([ts |-> b.ts, a |-> b.a, challenges |-> <<>>], 1, Len(proof), LAMBDA s, l : ReduceLayer(c, proof, s, l))
  IN IF ~SumcheckShape(proof, logw_layers(c)) \/ Size(end.a) # c.ninput THEN [ok |-> FALSE]
     ELSE [ok |-> TRUE, ts |-> end.ts, constraints |-> build_constraints(proof, end.challenges, end.a)]

\* verifier.rs: the residuals, one for each layer and one for the inputs.
pad_value(pads, pad) == IF pad[1] = "round" THEN pads[pad[2]].rounds[pad[3]][pad[4]] ELSE pads[pad[2]].claims[pad[3]]
Evaluate(e, pads) == Mod(ForEach(e.constant, e.terms, LAMBDA acc, t : acc + t[2] * pad_value(pads, t[1])))
residuals(cs, inputs, pads) ==
  [l \in 1 .. Len(cs.layers) |-> Mod(Evaluate(cs.layers[l], pads) - pads[l].claims[1] * pads[l].claims[2])]
  \o <<Mod(Evaluate(cs.input_claim, pads) - Dot(cs.input_weights, inputs))>>

-----------------------------------------------------------------------------
(***************************************************************************)
(* Pads, where they are committed, and the wire format (prover.rs,         *)
(* proto/sumcheck_v2.rs, proto/zk_v2.rs).                                  *)
(***************************************************************************)
pad_count(logw) == 2 * logw + 3
\* Pads with the shape of a proof, and as they are committed; coins is the
\* prover's tape, a function on the naturals.
sample_pads(geom, coins) ==
  LET at(l) == SumOver(1, l - 1, LAMBDA i : 2 * geom[i] + 2)
      Layer(l) == [rounds |-> [r \in 1 .. geom[l] |-> [e \in 1 .. 2 |-> coins[at(l) + 2 * (r - 1) + e]]],
                   claims |-> [e \in 1 .. 2 |-> coins[at(l) + 2 * geom[l] + e]]]
      pads == [l \in 1 .. Len(geom) |-> Layer(l)]
  IN [pads |-> pads,
      witness |-> Concat(1, Len(geom), LAMBDA l :
        FlattenSeq(pads[l].rounds) \o pads[l].claims \o <<Mod(pads[l].claims[1] * pads[l].claims[2])>>)]

\* Mutant of claim_indices: the products between the layers are forgotten.
claim_indices_NoProduct(geom, base, l) == base + SumOver(1, l, LAMBDA i : 2 * geom[i] + 2) - 2
\* Position of the first final pad of a layer; the second and the product follow.
claim_indices(geom, base, l) == base + SumOver(1, l, LAMBDA i : pad_count(geom[i])) - 3
pad_coordinate(geom, base, pad) ==
  LET claims == claim_indices(geom, base, pad[2])
  IN IF pad[1] = "round" THEN claims - 2 * geom[pad[2]] + 2 * (pad[3] - 1) + pad[4] - 1 ELSE claims + pad[3] - 1
product_constraints(geom, base) ==
  [l \in 1 .. Len(geom) |-> LET x == claim_indices(geom, base, l) IN [x |-> x, y |-> x + 1, z |-> x + 2]]
witness_and_constraint_count(c) ==
  <<c.ninput - c.npublic_input + SumOver(1, Len(c.layers), LAMBDA l : pad_count(c.layers[l].logw)), Len(c.layers)>>

\* constraint_compiler.rs: A w + b = 0 on the committed vector.
append_pad_terms(l, e, geom, base) ==
  [t \in 1 .. Len(e.terms) |-> [c |-> l, w |-> pad_coordinate(geom, base, e.terms[t][1]), k |-> e.terms[t][2]]]
compile(cs, geom, base, public) ==
  LET nl == Len(cs.layers)
      npublic == Len(public)
  IN [a |-> Concat(1, nl, LAMBDA l : append_pad_terms(l, cs.layers[l], geom, base)
                                     \o <<[c |-> l, w |-> claim_indices(geom, base, l) + 2, k |-> Mod(-1)]>>)
            \o [i \in 1 .. Size(cs.input_weights) - npublic |->
                  [c |-> nl + 1, w |-> i - 1, k |-> Mod(-cs.input_weights[npublic + i - 1])]]
            \o append_pad_terms(nl + 1, cs.input_claim, geom, base),
      b |-> [l \in 1 .. nl |-> cs.layers[l].constant]
            \o <<Mod(cs.input_claim.constant - SumOver(1, npublic, LAMBDA i : cs.input_weights[i - 1] * public[i]))>>]

\* Two coefficients for every round, then the two claims of the layer.
WriteSumcheck(proof) == Concat(1, Len(proof), LAMBDA l : FlattenSeq(proof[l].rounds) \o proof[l].claims)
ReadSumcheck(elements, geom) ==
  LET at(l) == SumOver(1, l - 1, LAMBDA i : 2 * geom[i] + 2)
      two(k) == <<elements[k + 1], elements[k + 2]>>
  IN [l \in 1 .. Len(geom) |-> [rounds |-> [r \in 1 .. geom[l] |-> two(at(l) + 2 * (r - 1))],
                                claims |-> two(at(l) + 2 * geom[l])]]

\* zk-v2/transcript.rs
statement_digest(ts) == DrawnAll(Absorb(ts, StatementLabel), 2)
=============================================================================
