-------------------------------- MODULE ZkV1 --------------------------------
(***************************************************************************)
(* The zero-knowledge proof of runtime/zk-v1: pads are sampled and         *)
(* committed after the private inputs, the sumcheck prover sends its       *)
(* messages minus the pads, and both roles turn the relations into linear  *)
(* constraints A W + b = 0 and products on the committed vector W, which   *)
(* Ligero then proves (module Ligero).                                     *)
(*                                                                         *)
(* The prover is stepped through round by round; the verifier's replay is  *)
(* one step.  Between the two the proof is encoded and decoded, and one    *)
(* element of it may be changed.                                           *)
(***************************************************************************)
EXTENDS SumcheckV1

CONSTANTS
  Inputs(_),  \* inputs tried for a circuit
  PadTapes,   \* the prover's random elements, functions on Nat
  Changed     \* positions in the proof at which an element may be changed

VARIABLES
  pc,
  circuit, inputs,
  rng,                \* the tape of random elements
  in_layers,          \* wires of all layers
  layer, round, hand, \* position of the prover
  logv, nv, points,   \* the claims the layer starts from: Bindings
  alpha, sum, claims,
  hquad, w,
  proof, data,        \* messages and verifier data so far
  log,                \* the prover's transcript
  tampered,           \* was an element changed on the way?
  received,           \* what derive_verifier_data made of the proof
  fresh               \* what the verifier draws where the transcripts differ

vars == <<pc, circuit, inputs, rng, in_layers, layer, round, hand, logv, nv, points,
          alpha, sum, claims, hquad, w, proof, data, log, tampered, received, fresh>>

-----------------------------------------------------------------------------
(***************************************************************************)
(* Pads: sampled in the order layer, round, hand, evaluation, then the two *)
(* of the claims, and committed with the product of these two.             *)
(***************************************************************************)
logw_layers(c) == [l \in 1 .. Len(c.layers) |-> c.layers[l].logw]
pad_count(logw) == 4 * logw + 3

\* Number of random elements drawn before layer l.
CoinsBefore(geom, l) ==
  LET drawn[k \in 0 .. Len(geom)] == IF k = 0 THEN 0 ELSE drawn[k - 1] + 4 * geom[k] + 2
  IN drawn[l - 1]

\* Mutant of SamplePad: hand, then round.
SamplePad_HandFirst(tape, geom, l) ==
  LET at == CoinsBefore(geom, l) IN
  [hp |-> [h \in 0 .. 1 |-> [r \in 0 .. geom[l] - 1 |-> [e \in 0 .. 1 |->
             tape[at + 2 * geom[l] * h + 2 * r + e]]]],
   claims |-> [e \in 0 .. 1 |-> tape[at + 4 * geom[l] + e]]]

\* pad::sample, the structured pad of a layer.
SamplePad(tape, geom, l) ==
  LET at == CoinsBefore(geom, l) IN
  [hp |-> [h \in 0 .. 1 |-> [r \in 0 .. geom[l] - 1 |-> [e \in 0 .. 1 |->
             tape[at + 4 * r + 2 * h + e]]]],
   claims |-> [e \in 0 .. 1 |-> tape[at + 4 * geom[l] + e]]]

Pad(tape, geom) == [l \in 1 .. Len(geom) |-> SamplePad(tape, geom, l)]

\* pad::sample, the vector of a layer that is committed.
PadWitness(tape, geom, l) ==
  LET at == CoinsBefore(geom, l)
      n == 4 * geom[l] + 2
  IN [k \in 1 .. n |-> tape[at + k - 1]] \o <<(tape[at + n - 2] * tape[at + n - 1]) % q>>

n_witness(c) == c.ninput - c.npublic_input

\* ZkProver::commit: private inputs, then the pads of all layers.
Committed(tape, c, in) ==
  LET geom == logw_layers(c)
      v == [k \in 1 .. n_witness(c) |-> in[c.npublic_input + k - 1]]
           \o FoldLeft(LAMBDA s, l : s \o PadWitness(tape, geom, l), <<>>, [l \in 1 .. Len(geom) |-> l])
  IN [k \in 0 .. Len(v) - 1 |-> v[k + 1]]

\* witness_and_constraint_count, by which the verifier sets Ligero up.
witness_count(c) == FoldLeft(LAMBDA n, l : n + 4 * l.logw + 3, n_witness(c), c.layers)

-----------------------------------------------------------------------------
(***************************************************************************)
(* Where the pads are in the committed vector (proto/sumcheck_v1.rs).      *)
(***************************************************************************)
\* Mutant of claim_indices: the product is not counted.
claim_indices_NoProduct(geom, base, l) ==
  LET next == FoldLeft(LAMBDA n, k : n + pad_count(k) - 1, base, SubSeq(geom, 1, l - 1))
  IN next + pad_count(geom[l]) - 3

\* First of the three coordinates of the claims of layer l.
claim_indices(geom, base, l) ==
  LET next == FoldLeft(LAMBDA n, k : n + pad_count(k), base, SubSeq(geom, 1, l - 1))
  IN next + pad_count(geom[l]) - 3

pad_layout(geom, base, pad) ==
  LET claim == claim_indices(geom, base, pad[2])
      start == claim - 4 * geom[pad[2]]
  IN IF pad[1] = "round" THEN start + 4 * pad[3] + 2 * pad[4] + pad[5]
     ELSE claim + pad[3]

\* product_constraints
product_constraints(geom, base) ==
  [l \in 1 .. Len(geom) |->
     LET x == claim_indices(geom, base, l) IN [x |-> x, y |-> x + 1, z |-> x + 2]]

\* append_pad_terms
PadTerms(c, e, geom, base) ==
  [t \in 1 .. Len(e.terms) |->
     [c |-> c, w |-> pad_layout(geom, base, e.terms[t].pad), k |-> e.terms[t].coefficient]]

\* compile: the terms of A, and the constants b.
CompileA(rel, geom, npublic, base) ==
  FlattenSeq([l \in 1 .. Len(rel.layers) |->
    Append(PadTerms(l, rel.layers[l].linear, geom, base),
           [c |-> l, w |-> claim_indices(geom, base, l) + 2,
            k |-> rel.layers[l].product_coefficient])])
  \o [i \in 1 .. Size(rel.input.weights) - npublic |->
        [c |-> Len(rel.layers) + 1, w |-> i - 1, k |-> rel.input.weights[npublic + i - 1]]]
  \o PadTerms(Len(rel.layers) + 1, rel.input.linear, geom, base)

CompileB(rel, npublic, in) ==
  [l \in 1 .. Len(rel.layers) |-> rel.layers[l].linear.constant]
  \o <<(rel.input.linear.constant
        + Sum([i \in 0 .. npublic - 1 |-> rel.input.weights[i] * in[i]])) % q>>

\* What Ligero proves of the committed vector W.
LinearValue(A, b, W, c) ==
  (b[c] + Sum([t \in {u \in 1 .. Len(A) : A[u].c = c} |-> A[t].k * W[A[t].w]])) % q

-----------------------------------------------------------------------------
(***************************************************************************)
(* SumcheckProof::write_to_buf and read, as a sequence of elements.        *)
(***************************************************************************)
WriteLayer(m, logw) ==
  [k \in 1 .. 4 * logw |->
     m.hp[(k - 1) % 2][(k - 1) \div 4][((k - 1) % 4) \div 2]]
  \o <<m.claims[0], m.claims[1]>>

WriteProof(pf, geom) ==
  LET written[l \in 0 .. Len(geom)] ==
        IF l = 0 THEN <<>> ELSE written[l - 1] \o WriteLayer(pf[l], geom[l])
  IN written[Len(geom)]

ProofElements(geom) == FoldLeft(LAMBDA n, k : n + 4 * k + 2, 0, geom)

\* Mutant of ReadLayer: the two values of a hand are read one after the other.
ReadLayer_ByHand(e, at, logw) ==
  [hp |-> [h \in 0 .. 1 |-> [r \in 0 .. logw - 1 |-> [k \in 0 .. 1 |->
             e[at + 4 * r + 2 * h + k + 1]]]],
   claims |-> [k \in 0 .. 1 |-> e[at + 4 * logw + k + 1]]]

\* The reader takes p(0) of both hands, then p(2) of both.
ReadLayer(e, at, logw) ==
  [hp |-> [h \in 0 .. 1 |-> [r \in 0 .. logw - 1 |-> [k \in 0 .. 1 |->
             e[at + 4 * r + 2 * k + h + 1]]]],
   claims |-> [k \in 0 .. 1 |-> e[at + 4 * logw + k + 1]]]

\* The tests of the length and of logw that come first in the code are left out:
\* a message has the number of elements of the geometry.
ReadProof(e, geom) ==
  [l \in 1 .. Len(geom) |-> ReadLayer(e, CoinsBefore(geom, l), geom[l])]

-----------------------------------------------------------------------------
(***************************************************************************)
(* The prover.                                                             *)
(***************************************************************************)
NoData == [layers |-> <<>>, input_alpha |-> 0, input_weights |-> <<>>]

Init ==
  /\ pc = "commit"
  /\ circuit \in Circuits /\ inputs \in Inputs(circuit) /\ rng \in PadTapes
  /\ in_layers = <<>> /\ layer = 0 /\ round = 0 /\ hand = 0
  /\ logv = 0 /\ nv = 0 /\ points = <<>>
  /\ alpha = 0 /\ sum = 0 /\ claims = <<0, 0>>
  /\ hquad = <<>> /\ w = <<>>
  /\ proof = <<>> /\ data = NoData /\ log = <<>>
  /\ tampered = FALSE /\ received = [ok |-> FALSE] /\ fresh = 0

\* commit, then the start of prove: the statement is absorbed, the circuit
\* evaluated; a wrong witness ends here.
Commit ==
  /\ pc = "commit"
  /\ log' = Statement(Absorbed(log, Committed(rng, circuit, inputs)), circuit, inputs)
  /\ in_layers' = Wires(circuit, inputs)
  /\ pc' = IF eval_circuit_ok(circuit, in_layers') THEN "begin" ELSE "eval_circuit failed"
  /\ UNCHANGED <<circuit, inputs, rng, layer, round, hand, logv, nv, points, alpha, sum,
                 claims, hquad, w, proof, data, tampered, received, fresh>>

\* begin_circuit
BeginCircuit ==
  /\ pc = "begin"
  /\ \E g \in Points :
       /\ points' = [h \in 0 .. 1 |-> g]
       /\ log' = Drawn(CopyDrawn(log), g)
  /\ logv' = circuit.logv /\ nv' = circuit.noutput
  /\ layer' = 1
  /\ pc' = "layer"
  /\ UNCHANGED <<circuit, inputs, rng, in_layers, round, hand, alpha, sum, claims, hquad,
                 w, proof, data, tampered, received, fresh>>

\* begin_layer and the start of layer().
BeginLayer ==
  /\ pc = "layer"
  /\ layer <= Len(circuit.layers)
  /\ \E a, beta \in Challenges :
       /\ log' = Drawn(Drawn(log, a), beta)
       /\ alpha' = a
       /\ hquad' = bind_g(circuit.layers[layer], logv, nv, points[0], points[1], a, beta)
       /\ sum' = (claims[1] + a * claims[2]) % q
  /\ w' = [h \in 0 .. 1 |-> normalize(in_layers[layer])]
  /\ points' = [h \in 0 .. 1 |-> <<>>]
  /\ round' = 0 /\ hand' = 0
  /\ proof' = Append(proof, [hp |-> [h \in 0 .. 1 |-> <<>>], claims |-> <<>>])
  /\ pc' = "round"
  /\ UNCHANGED <<circuit, inputs, rng, in_layers, layer, logv, nv, claims, data, tampered,
                 received, fresh>>

\* The message of the current round before its pad is taken off.
RoundValues ==
  LET n == Size(w[hand])
      p == quad_round_poly(n, RoundWeights(hquad, w[1 - hand], hand, n), w[hand], sum)
  IN [e \in 0 .. 1 |-> p[2 * e + 1]]

Round ==
  /\ pc = "round" /\ round < circuit.layers[layer].logw
  /\ LET pad == SamplePad(rng, logw_layers(circuit), layer)
         values == RoundValues
         m == [e \in 0 .. 1 |-> (values[e] - pad.hp[hand][round][e]) % q]
     IN /\ proof' = [proof EXCEPT ![layer].hp[hand] = [k \in 0 .. round |-> IF k < round THEN @[k] ELSE m]]
        /\ \E r \in Challenges :
             /\ log' = Drawn(Absorbed(Absorbed(log, m[0]), m[1]), r)
             /\ sum' = EvaluateRound(RoundCoefficients(r), values, sum)
             /\ points' = [points EXCEPT ![hand] = Append(@, r)]
             /\ w' = [w EXCEPT ![hand] = Bind(@, r)]
             /\ hquad' = bind_h(hquad, r, hand)
  /\ hand' = 1 - hand
  /\ round' = round + hand
  /\ UNCHANGED <<pc, circuit, inputs, rng, in_layers, layer, logv, nv, alpha, claims, data,
                 tampered, received, fresh>>

\* The assertions at the end of layer(), which panic: EndLayer is stuck then.
LayerEndsWell ==
  /\ Size(w[0]) = 1 /\ Size(w[1]) = 1
  /\ IsScalar(hquad)
  /\ sum = (w[0][0] * w[1][0] * hquad[1].v) % q

EndLayer ==
  /\ pc = "round" /\ round = circuit.layers[layer].logw
  /\ LayerEndsWell
  /\ LET pad == SamplePad(rng, logw_layers(circuit), layer)
         m == [e \in 0 .. 1 |-> (w[e][0] - pad.claims[e]) % q]
     IN /\ proof' = [proof EXCEPT ![layer].claims = m]
        /\ log' = Absorbed(log, m)
  /\ claims' = <<w[0][0], w[1][0]>>
  /\ data' = [data EXCEPT !.layers = Append(@, [rounds |-> Rounds(points), alpha |-> alpha,
                                                bound_quad |-> hquad[1].v])]
  /\ logv' = circuit.layers[layer].logw /\ nv' = circuit.layers[layer].nw
  /\ layer' = layer + 1
  /\ pc' = "layer"
  /\ UNCHANGED <<circuit, inputs, rng, in_layers, round, hand, points, alpha, sum, hquad, w,
                 tampered, received, fresh>>

\* The last challenge; the prover then compiles its constraints and hands them
\* to Ligero, and the proof is written.
FinishProof ==
  /\ pc = "layer" /\ layer > Len(circuit.layers)
  /\ \E a \in Challenges :
       /\ log' = Drawn(log, a)
       /\ data' = [data EXCEPT !.input_alpha = a,
                               !.input_weights = eq2(logv, circuit.ninput, points[0], points[1], a)]
  /\ pc' = "sent"
  /\ UNCHANGED <<circuit, inputs, rng, in_layers, layer, round, hand, logv, nv, points, alpha,
                 sum, claims, hquad, w, proof, tampered, received, fresh>>

-----------------------------------------------------------------------------
(***************************************************************************)
(* The way to the verifier, and ZkVerifier::verify.                        *)
(***************************************************************************)
Geometry == logw_layers(circuit)

\* The verifier reads the elements and replays the transcript.
Receive(elements, f) ==
  \E pf \in {ReadProof(elements, Geometry)},
     log0 \in {Statement(Absorbed(<<>>, Committed(rng, circuit, inputs)), circuit, inputs)} :
    \E r \in {derive_verifier_data(circuit, pf, log0, log, f)} :
      received' = [ok |-> r.ok, proof |-> pf, data |-> r.data]

Deliver ==
  /\ pc = "sent"
  /\ Receive(WriteProof(proof, Geometry), 0)
  /\ pc' = "received"
  /\ UNCHANGED <<circuit, inputs, rng, in_layers, layer, round, hand, logv, nv, points, alpha,
                 sum, claims, hquad, w, proof, data, log, tampered, fresh>>

\* One element arrives with another value.
DeliverChanged ==
  /\ pc = "sent"
  /\ \E k \in Changed \cap 1 .. ProofElements(Geometry), f \in Challenges :
       /\ fresh' = f
       /\ Receive([WriteProof(proof, Geometry) EXCEPT ![k] = (@ + 1) % q], f)
  /\ tampered' = TRUE
  /\ pc' = "received"
  /\ UNCHANGED <<circuit, inputs, rng, in_layers, layer, round, hand, logv, nv, points, alpha,
                 sum, claims, hquad, w, proof, data, log>>

Next ==
  \/ Commit \/ BeginCircuit \/ BeginLayer \/ Round \/ EndLayer
  \/ FinishProof \/ Deliver \/ DeliverChanged

Spec == Init /\ [][Next]_vars

-----------------------------------------------------------------------------
(***************************************************************************)
(* Properties.                                                             *)
(***************************************************************************)
VerifierRelations == Relations(received.proof, received.data)

VerifierA == CompileA(VerifierRelations, Geometry, circuit.npublic_input, n_witness(circuit))
VerifierB == CompileB(VerifierRelations, circuit.npublic_input, inputs)

W == Committed(rng, circuit, inputs)

\* The prover's assertions hold and the verifier's constraints on the committed
\* vector are satisfied, if the inputs satisfy the circuit: prove, verify.
Complete ==
  /\ pc = "round" /\ round = circuit.layers[layer].logw => LayerEndsWell
  /\ pc = "received" /\ ~tampered =>
       /\ received.ok
       /\ \A c \in 1 .. Len(circuit.layers) + 1 : LinearValue(VerifierA, VerifierB, W, c) = 0
       /\ \A p \in Range(product_constraints(Geometry, n_witness(circuit))) :
            (W[p.x] * W[p.y]) % q = W[p.z]

\* prove_core, which binds the tensor between the rounds, and
\* derive_verifier_data, which binds it after them, give the same data, and
\* the codec gives the same messages: both roles state the same constraints.
RolesAgree ==
  pc = "received" /\ ~tampered => received.proof = proof /\ received.data = data

\* Whatever the messages are, the compiled constraints say of the committed
\* vector what the relations say of pads and inputs (compile, pad_layout).
CompiledFaithfully ==
  pc = "received" =>
    LET res == Residuals(VerifierRelations, inputs, Pad(rng, Geometry))
        A == VerifierA
        b == VerifierB
    IN /\ DOMAIN W = 0 .. witness_count(circuit) - 1
       /\ \A c \in 1 .. Len(circuit.layers) + 1 : LinearValue(A, b, W, c) = res[c]

\* The weight of index i at a point: the product that eq.rs documents.
EqWeight(g, l, i) ==
  FoldFunction(LAMBDA x, y : (x * y) % q, 1,
               [j \in 1 .. l |-> IF (i \div 2 ^ (j - 1)) % 2 = 1 THEN g[j] ELSE (1 - g[j]) % q])

\* Between the rounds of a layer the corners are, in Morton order, the tensor
\* with the bits bound so far: bind_h, which looks at neighbours only, has
\* merged all partners, and the claim is the sum that is left to be proved.  The
\* two tables of wires, of any length, have shrunk alike and no corner points
\* outside of them.
TensorIsBound ==
  pc = "round" =>
    /\ \A h \in 0 .. 1 :
         LET bits == 2 ^ Len(points[h])
         IN /\ Size(w[h]) = (Size(normalize(in_layers[layer])) + bits - 1) \div bits
            /\ \A i \in 1 .. Len(hquad) : hquad[i].h[h + 1] \in DOMAIN w[h]
    /\ \A i, j \in 1 .. Len(hquad) : hquad[i].h = hquad[j].h => i = j
    /\ sum = Sum([i \in 1 .. Len(hquad) |->
                    hquad[i].v * w[0][hquad[i].h[1]] * w[1][hquad[i].h[2]]])
    /\ \A h \in 0 .. 1 : \A i \in DOMAIN w[h] :
         LET bound == Len(points[h])
             in == normalize(in_layers[layer])
         IN w[h][i] = Sum([k \in 0 .. 2 ^ bound - 1 |->
                             IF i * 2 ^ bound + k \in DOMAIN in
                             THEN EqWeight(points[h], bound, k) * in[i * 2 ^ bound + k] ELSE 0])

\* EvaluateRound is the value at r of a quadratic polynomial p with the two
\* values sent and p(0) + p(1) the claim; as it is linear in them, a claim that is
\* not the sum is carried on to the next round by any message for at most two
\* challenges.
WrongClaimSurvives ==
  pc = "commit" =>
    \A claim, m0, m2 \in F :
      LET p == [r \in F |-> EvaluateRound(RoundCoefficients(r), [e \in 0 .. 1 |-> IF e = 0 THEN m0 ELSE m2], claim)]
      IN /\ (p[0] + p[1]) % q = claim
         /\ claim # 0 => Cardinality({r \in F : p[r] = 0}) <= 2
=============================================================================
