--------------------------- MODULE MCComputations ---------------------------
(***************************************************************************)
(* All families of computations in one run; those of the proofs of version *)
(* 2 are here.                                                             *)
(***************************************************************************)
EXTENDS AlgebraCases, CircuitCases

(***************************************************************************)
(* Cases of the proofs of version 2: circuits of up to five wires a layer, *)
(* commitments of up to three rows, and the wire format.                   *)
(***************************************************************************)
Z2 == INSTANCE ZkV2 WITH P <- 17
TermOf(g, h0, h1, k) == [g |-> g, h0 |-> h0, h1 |-> h1, k |-> k % 17]

\* (2 w0 w1 + w1 w1 - w0 w2) times w0 w0, over two layers.
Squares2 ==
  [ninput |-> 3, npublic_input |-> 1, noutput |-> 1, subfield_boundary |-> 3, logv |-> 0,
   layers |-> <<[nw |-> 2, logw |-> 1, terms |-> <<TermOf(0, 0, 1, 1)>>],
                [nw |-> 3, logw |-> 2, terms |-> <<TermOf(1, 0, 0, 1), TermOf(0, 0, 1, 2), TermOf(0, 1, 1, 1), TermOf(0, 0, 2, -1)>>]>>]
\* Two assertions and two outputs on three inputs.
Asserts2 ==
  [ninput |-> 3, npublic_input |-> 2, noutput |-> 2, subfield_boundary |-> 2, logv |-> 1,
   layers |-> <<[nw |-> 3, logw |-> 2, terms |-> <<TermOf(0, 0, 1, 0), TermOf(1, 0, 1, 3), TermOf(0, 1, 2, 0), TermOf(1, 1, 2, 1)>>]>>]
\* Three outputs on five wires: an odd number of them for three rounds.
Five2 ==
  [ninput |-> 5, npublic_input |-> 1, noutput |-> 3, subfield_boundary |-> 1, logv |-> 2,
   layers |-> <<[nw |-> 5, logw |-> 3,
                 terms |-> <<TermOf(2, 1, 1, 1), TermOf(2, 0, 2, -1), TermOf(0, 1, 2, -1), TermOf(0, 0, 3, 1), TermOf(1, 1, 3, -1), TermOf(1, 4, 4, 1)>>]>>]
Circuits2 == <<Squares2, Asserts2, Five2>>
Inputs2 == <<{<<1, 0, 0>>, <<1, 1, 3>>, <<1, 3, 15>>, <<2, 3, 1>>, <<1, 1, 1>>},
             {<<1, 0, 5>>, <<0, 3, 0>>, <<4, 0, 0>>, <<1, 1, 0>>},
             {<<1, 2, 4, 8, 4>>, <<1, 0, 0, 5, 0>>, <<1, 1, 1, 1, 16>>, <<1, 2, 4, 8, 5>>}>>
Tape(seed, n) == [i \in 1 .. n |-> (i * i * seed + 5 * i + seed * seed + (i \div 3)) % 17]
Config2 == [k |-> 4, s |-> 2, n |-> 10, t |-> 1]
Config3 == [k |-> 5, s |-> 1, n |-> 12, t |-> 2]

\* The sumcheck alone: roles, residuals and compiled constraints; an element
\* of the proof is changed on the way unless `changed' is zero.
SumcheckCases ==
  UNION {[c : {c}, in : Inputs2[c], seed : 1 .. 6, changed : 0 .. 12] : c \in 1 .. 3}
EquationValue(ab, l, values) ==
  (ab.b[l] + SumOver(1, Len(ab.a), LAMBDA i : IF ab.a[i].c = l THEN ab.a[i].k * values[ab.a[i].w + 1] ELSE 0)) % 17
\* What the layer lacks to what is claimed of it: the outputs and assertions
\* that are not zero, weighted by their challenges, and multiplied by z^2 - z
\* for the challenge z of each round.
Missed(c, w_layers, start, proof, l) ==
  LET before == For([ts |-> start.ts, a |-> start.a, challenges |-> <<>>], 1, l - 1, LAMBDA s, i : Z2!ReduceLayer(c, proof, s, i))
      layer == c.layers[l]
      w == w_layers[l]
      assertions == Z2!assertion_weights(before.ts, layer, l).xs
      point == Z2!ReduceLayer(c, proof, before, l).challenges[l].point_l
      failed == SumOver(1, Len(layer.terms), LAMBDA t :
                  IF layer.terms[t].k = 0
                  THEN Z2!Coefficient(layer, before.a, assertions, t) * w[layer.terms[t].h0] * w[layer.terms[t].h1] ELSE 0)
                + IF l = 1 THEN Z2!Dot(before.a, Z2!eval_layer(w, layer, c.noutput)) ELSE 0
  IN For(-failed, 1, Len(point), LAMBDA acc, r : (acc * point[r] * (point[r] - 1)) % 17) % 17
SumcheckOf(x) ==
  LET c == Circuits2[x.c]
      public == SubSeq(x.in, 1, c.npublic_input)
      private == SubSeq(x.in, c.npublic_input + 1, c.ninput)
      inputs == [i \in 0 .. c.ninput - 1 |-> x.in[i + 1]]
      geom == Z2!logw_layers(c)
      sampled == Z2!sample_pads(geom, Tape(x.seed, 40))
      eval == Z2!eval_circuit(c, inputs)
      start == Z2!write_sumcheck_statement(Z2!Opened(x.seed), c, x.c, public)
      sent == Z2!prove_core(start, c, eval.w_layers, sampled.pads)
      elements == Z2!WriteSumcheck(sent.proof)
      arrived == IF x.changed \in 1 .. Len(elements) THEN [elements EXCEPT ![x.changed] = (@ + x.seed) % 17] ELSE elements
      derived == Z2!derive_constraints(start, c, Z2!ReadSumcheck(arrived, geom))
      values == private \o sampled.witness
      ab == Z2!compile(derived.constraints, geom, c.ninput - c.npublic_input, public)
  IN [eval |-> eval.ok, honest |-> arrived = elements, sent |-> sent, derived |-> derived,
      residuals |-> Z2!residuals(derived.constraints, inputs, sampled.pads),
      missed |-> [l \in 1 .. Len(geom) |-> Missed(c, eval.w_layers, Z2!begin(start, c), sent.proof, l)],
      compiled |-> [l \in 1 .. Len(ab.b) |-> EquationValue(ab, l, values)],
      count |-> Len(values) = Z2!witness_and_constraint_count(c)[1],
      products |-> \A i \in 1 .. Len(geom) :
        LET p == Z2!product_constraints(geom, Len(private))[i] IN (values[p.x + 1] * values[p.y + 1]) % 17 = values[p.z + 1]]
\* The verifier, who reads the messages only, derives from the same transcript
\* the constraints of the prover.  Inputs and pads satisfy them if the inputs
\* satisfy the circuit.  If they do not, and the prover goes on, each layer's
\* equation is off by just what its failed outputs and assertions weigh, and
\* the prover's own assertion fails if and only if one is off (eval_circuit,
\* prove_core, derive_constraints, build_constraints).
SingleHandRight ==
  On("single hand") =>
    LET s == SumcheckOf(case[1])
    IN s.honest =>
         /\ s.derived.ok /\ s.derived.constraints = s.sent.constraints /\ s.derived.ts = s.sent.ts
         /\ s.residuals = s.missed \o <<0>>
         /\ s.eval => \A l \in 1 .. Len(s.missed) : s.missed[l] = 0
         /\ s.sent.ok = \A l \in 1 .. Len(s.residuals) : s.residuals[l] = 0
\* Whatever the inputs and whatever arrives, the equations compiled for Polygero
\* have on the committed vector the values that the constraints have on inputs
\* and pads, and each product is of the pads it stands for
\* (constraint_compiler, pad_layout).
CompiledRight ==
  On("single hand") =>
    LET s == SumcheckOf(case[1]) IN s.compiled = s.residuals /\ s.count /\ s.products

\* A wrong claim stays wrong for all but two challenges of a round, whatever the
\* message, and the rounds of a layer end in the product of two sums over the
\* bound point (round, weights).
RoundsRight ==
  On("rounds") =>
    LET x == case[1]
        p == [z \in 0 .. 16 |-> Z2!NextClaim(x.d, <<x.e0, x.e1>>, z)]
        v == [i \in 0 .. x.n - 1 |-> (i * i + x.e0 * i + x.d) % 17]
        point == <<x.e0, x.e1, x.d>>
        bound == For(v, 1, 3, LAMBDA u, i : Z2!bind(u, point[i]))
    IN /\ x.d # 0 => Cardinality({z \in 0 .. 16 : p[z] = 0}) <= 2
       /\ DOMAIN bound = {0}
       /\ bound[0] = SumOver(0, x.n - 1, LAMBDA i : v[i] * ProductOver(1, 3, LAMBDA j : IF Bit(i, j - 1) = 1 THEN point[j] ELSE 1)) % 17
       /\ bound[0] = Z2!Dot(Z2!weights(3, x.n, point), v)

-----------------------------------------------------------------------------
(***************************************************************************)
(* Polygero on its own: seven values, two products, three equations, of    *)
(* which the last holds only if `off' is zero.  With `bad' the prover      *)
(* commits to a value that is not the product of its factors.              *)
(***************************************************************************)
SevenValues == <<3, 5, 15, 2, 8, 16, 1>>
Committed(bad) == [i \in 0 .. 6 |-> IF i = 2 THEN (SevenValues[3] + bad) % 17 ELSE SevenValues[i + 1]]
TwoProducts == <<[x |-> 0, y |-> 1, z |-> 2], [x |-> 3, y |-> 4, z |-> 5]>>
EquationTerms == <<[c |-> 1, w |-> 0, k |-> 2], [c |-> 1, w |-> 6, k |-> 4], [c |-> 2, w |-> 5, k |-> 1], [c |-> 2, w |-> 2, k |-> 16],
       [c |-> 3, w |-> 1, k |-> 3], [c |-> 1, w |-> 0, k |-> 5], [c |-> 3, w |-> 4, k |-> 0]>>
Residual(b, c, bad) == (b[c] + SumOver(1, Len(EquationTerms), LAMBDA i : IF EquationTerms[i].c = c THEN EquationTerms[i].k * Committed(bad)[EquationTerms[i].w] ELSE 0)) % 17
EquationConstants(off) == LET b == [c \in 1 .. 3 |-> (-Residual(<<0, 0, 0>>, c, 0)) % 17] IN [b EXCEPT ![3] = (@ + off) % 17]
Products2(n) == SubSeq(TwoProducts, 1, n)
Geometry2(config, nq) == [nw |-> 7, nq |-> nq, k |-> config.k, s |-> config.s, n |-> config.n, t |-> config.t]
Configs2 == {Config2, Config3, [k |-> 3, s |-> 3, n |-> 6, t |-> 1]}

CommitmentOf(x) ==
  LET g == Geometry2(x.config, x.nq)
      w == Z2!encode_rows(g, Products2(x.nq), Committed(x.bad), Tape(x.seed, Z2!CoinsNeeded(g)))
      ts == Z2!receive_commitment(Z2!Opened(x.seed), x.nq, Z2!Root(w))
      b == EquationConstants(x.off)
  IN [g |-> g, w |-> w, ts |-> ts, b |-> b, ch |-> Z2!challenges(ts, g, 3, <<x.seed>>),
      sent |-> Z2!prove(ts, g, Products2(x.nq), w, b, EquationTerms, <<x.seed>>)]
Verdict(x, com, proof) ==
  Z2!verify(com.ts, [com |-> com.g, products |-> Products2(x.nq), root |-> 1, domain |-> 1], 1, 1, com.w, com.b, EquationTerms, <<x.seed>>, proof)

\* The responses agree with the columns whatever is committed, and the global
\* sum is zero if and only if the challenges cancel the residuals of equations
\* and products (PolygeroProver::prove, PolygeroVerifier::verify).
CommitmentsRight ==
  On("commitments") =>
    LET x == case[1]
        com == CommitmentOf(x)
        combined == (SumOver(1, 3, LAMBDA c : com.ch.alpha[c] * Residual(com.b, c, x.bad))
                     - (IF x.nq > 0 THEN x.bad * com.ch.alpha[3 + 3] ELSE 0)) % 17
    IN /\ Z2!ParamOk(com.g, Products2(x.nq), 17, 1000)
       /\ \A boundary \in 0 .. 8 : \A len \in {6, 7} :
            Z2!validate_witness(com.g, Products2(x.nq), [i \in 0 .. len - 1 |-> Committed(x.bad)[i]], boundary)
              = ((x.bad = 0 \/ x.nq = 0) /\ len = 7 /\ boundary <= 7)
       /\ Verdict(x, com, com.sent.proof) = IF combined = 0 THEN "accepted" ELSE "sum"
\* A response changed in one sample agrees with the committed columns at fewer
\* columns than its degree allows, or misses the global sum; a changed opened
\* value does not belong to the committed column.
ResponsesBind ==
  On("responses") =>
    LET x == case[1]
        com == CommitmentOf(x)
        p == com.sent.proof
        g == com.g
        column(j) == [r \in 1 .. Len(com.w) |-> com.w[r][j]]
        h == [p.h EXCEPT ![x.at % (g.k + g.s)] = (@ + x.by) % 17]
        z == [p.z EXCEPT ![x.at % (2 * g.k)] = (@ + x.by) % 17]
        rows == Z2!batch_constraints(g, Products2(x.nq), com.b, EquationTerms, com.ch.alpha)
    IN /\ Cardinality({j \in 0 .. g.n - 1 : Z2!PrimaryAgrees(g, h, com.ch.batching, column(j), j)}) < g.k + g.s
       /\ \/ Z2!GlobalSum(g, z, com.ch.alpha, com.b) # 0
          \/ Cardinality({j \in 0 .. g.n - 1 : Z2!ArithmeticAgrees(g, z, rows, column(j), j)}) < 2 * g.k
       /\ Verdict(x, com, [p EXCEPT !.rows[(x.at % Len(p.rows)) + 1] = (@ + x.by) % 17]) = "columns"
\* Any t columns of a row take all values equally often as its masks vary,
\* whatever the values it holds (encode_ordinary_rows).  A row before the
\* boundary has its values, masks and points in the subfield and is computed
\* there: of such a row this is the statement with the subfield for the field.
OpenedHide ==
  On("openings") =>
    LET x == case[1]
        g == Geometry2(x.config, 0)
        plan == Z2!make_range(0, g.k, g.k, g.n)
        masks == [1 .. g.t -> 0 .. 16]
        opened(m) == LET row == Z2!apply(plan, Z2!Samples(g, g.k, m, 0, x.values)) IN [q \in 1 .. g.t |-> row[x.columns[q]]]
    IN Cardinality({opened(m) : m \in masks}) = 17 ^ g.t
\* In a geometry that validate accepts every value of the witness has a slot of
\* its own behind the masks of a row, every product has its three copies, and
\* the product of two input rows fits the degree of a row.
LayoutFits ==
  On("geometries") =>
    LET g == case[1]
        slots == {<<i \div (g.k - g.t), g.t + (i % (g.k - g.t))>> : i \in 0 .. g.nw - 1}
        copies == {<<i \div Z2!product_width(g), g.t + (i % Z2!product_width(g))>> : i \in 0 .. g.nq - 1}
    IN Z2!validate(g, 400) =>
         /\ Cardinality(slots) = g.nw
         /\ \A x \in slots : x[1] < Z2!ordinary_rows(g) /\ x[2] < g.k
         /\ \A x \in copies : x[1] < Z2!product_groups(g) /\ x[2] < (g.k + 1) \div 2
         /\ g.nq > 0 => Cardinality(copies) = g.nq /\ 2 * (Z2!product_dimension(g) - 1) < g.k
         /\ {r \in 0 .. Z2!nrow(g) - 1 : Z2!is_product_output(g, r)}
              = {2 + Z2!ordinary_rows(g) + 3 * i + 2 : i \in 0 .. Z2!product_groups(g) - 1}

\* The complete proof of version 2: a prover returns one exactly for inputs that
\* satisfy the circuit, and it is accepted.  What a prover sends who goes on with
\* others is refused by the global sum, unless the challenges cancel what the
\* equations are off by.  In both cases the verifier compiles from the messages
\* the very equations of the prover.  Inputs or messages of another length, a
\* root that was not received and another domain are refused as such (ZkProver,
\* ZkVerifier).
ProofsRight ==
  On("proofs") =>
    LET x == case[1]
        c == Circuits2[x.c]
        public == SubSeq(x.in, 1, c.npublic_input)
        private == SubSeq(x.in, c.npublic_input + 1, c.ninput)
        ts == Z2!Opened(x.seed)
        com == Z2!commit(ts, c, Config2, 1, private, Tape(x.seed, 120))
        sent == Z2!ProveZk(com, c, x.c, public, private)
        new == Z2!prepare_layout(c, Config2, 1)
        at == Z2!Receive(ts, new, sent.proof.root)
        Verify(v, domain, pub, proof) == Z2!VerifyZk(at.ts, v, c, x.c, domain, pub, proof, com.w)
        Given(proof) == Verify(at.v, 1, public, proof)
        replayed == Z2!compile_constraints(com.ts, c, x.c, public, sent.proof.sumcheck, new)
        alpha == Z2!challenges(sent.statement.ts, new.com, Len(sent.ab.b), sent.statement.xs).alpha
        off == SumOver(1, Len(sent.ab.b), LAMBDA l : alpha[l] * EquationValue(sent.ab, l, Z2!Elements(com.witness))) % 17
        p == sent.proof
    IN /\ com.ok
       /\ sent.ok = Z2!eval_circuit(c, [i \in 0 .. c.ninput - 1 |-> x.in[i + 1]]).ok
       /\ replayed.ok /\ replayed.ab = sent.ab
       /\ sent.ok => off = 0
       /\ Given(p) = IF off = 0 THEN "accepted" ELSE "sum"
       /\ ~Z2!commit(ts, c, Config2, 1, Append(private, 0), Tape(x.seed, 120)).ok
       /\ ~Z2!ProveZk(com, c, x.c, Append(public, 0), private).ok
       /\ Verify(at.v, 1, Append(public, 0), p) = "public"
       /\ Given([p EXCEPT !.sumcheck = Tail(@)]) = "sumcheck"
       /\ Given([p EXCEPT !.sumcheck[1].rounds = Append(@, <<0, 0>>)]) = "sumcheck"
       /\ Given([p EXCEPT !.com.rows = Tail(@)]) = "shape" /\ Given([p EXCEPT !.com.nonces = @ + 1]) = "shape"
       /\ Given([p EXCEPT !.root = @ + 1]) = "commitment" /\ Verify(new, 1, public, p) = "commitment"
       /\ Verify(at.v, 2, public, p) = "domain"

-----------------------------------------------------------------------------
(***************************************************************************)
(* The wire format, in bytes of three values for all inputs, and of five   *)
(* for whole proofs.                                                       *)
(***************************************************************************)
Runs3 == INSTANCE PolygeroCodec WITH Base <- 3, Field <- 7, Embed <- <<0, 3>>
Runs5 == INSTANCE PolygeroCodec WITH Base <- 5, Field <- 23, Embed <- <<0, 7, 9, 4>>
Bytes3(n) == UNION {[1 .. i -> 0 .. 2] : i \in 0 .. n}
\* Every input of three values that is read is what the writer makes of them,
\* and every three values are read back (read_rows, write_rows).
RunsRight ==
  /\ On("runs") =>
       LET r == Runs3!read_rows(case[1], 3) IN r.ok => Runs3!write_rows(r.x, FALSE) \o r.rest = case[1]
  /\ On("values") =>
       LET bytes == Runs3!write_rows(case[1], FALSE)
       IN Runs3!read_rows(bytes \o <<2>>, 3) = Runs3!Got(case[1], <<2>>)

Geometry5 == [nw |-> 1, nq |-> 0, k |-> 2, s |-> 0, n |-> 4, t |-> 1]
ProofsFor5 ==
  {[h |-> <<1, 22>>, z |-> <<7, 0, 12, x>>, rows |-> <<0, x, y, z>>, nonce |-> <<2>>, path |-> [i \in 1 .. l |-> i]] :
      x \in {0, 7, 22}, y \in {4, 5}, z \in {9, 10}, l \in 0 .. 3}
\* A proof is read back from what was written, also the shortest; cut short it is
\* refused, and with a byte changed it is refused or what was then read is
\* written in just these bytes (write_to_buf, read).
WireRight ==
  On("wire") =>
    LET x == case[1]
        bytes == Runs5!write(Geometry5, x.p)
        cut == Runs5!read(SubSeq(bytes, 1, x.at - 1), Geometry5)
        changed == [bytes EXCEPT ![x.at] = (@ + x.by) % 5]
        r == Runs5!read(changed, Geometry5)
    IN x.at <= Len(bytes) =>
         /\ Runs5!read(bytes \o <<1>>, Geometry5) = Runs5!Got(x.p, <<1>>)
         /\ ~cut.ok
         /\ r.ok => Runs5!write(Geometry5, r.x) \o r.rest = changed

NextProofV2 ==
  \/ Pick("single hand", SumcheckCases)
  \/ Pick("rounds", [d : {0, 1, 5, 16}, e0 : {0, 1, 3, 8, 16}, e1 : {0, 2, 5, 11}, n : 1 .. 8])
  \/ Pick("commitments", [config : Configs2, nq : 0 .. 2, seed : 1 .. 6, off : {0, 9}, bad : {0, 5}])
  \/ Pick("responses", [config : Configs2, nq : {2}, seed : {3}, off : {0}, bad : {0}, at : 0 .. 9, by : {1, 6}])
  \/ Pick("openings", [config : {Config2}, values : {<<3, 0, 5>>, <<16, 1, 1>>}, columns : {<<j>> : j \in 0 .. 9}]
                      \cup [config : {Config3}, values : {<<3, 0, 5>>}, columns : {c \in (0 .. 3) \X (0 .. 3) : c[1] < c[2]}])
  \/ Pick("geometries", [nw : {1, 5, 7}, nq : 0 .. 3, k : 0 .. 7, s : {0, 2}, n : {2, 9, 14}, t : 0 .. 3])
  \/ Pick("proofs", UNION {[c : {c}, in : Inputs2[c], seed : 1 .. 2] : c \in 1 .. 3})
  \/ Pick("runs", Bytes3(7))
  \/ Pick("values", [1 .. 3 -> 0 .. 6])
  \/ Pick("wire", [p : ProofsFor5, at : 1 .. 29, by : 1 .. 4])

Next == NextFile \/ NextCompiler \/ NextMdoc \/ NextGadget \/ NextField \/ NextTransform \/ NextCrypto
        \/ NextCredential \/ NextProofV2 \/ Done
Spec == Init /\ [][Next]_vars
-----------------------------------------------------------------------------
(***************************************************************************)
(* What the run checks, one property for each subject: a step that ends a  *)
(* case ends one that was computed right.  The parts are stated where      *)
(* their cases are, and `task' tells which of them a counterexample        *)
(* belongs to.                                                             *)
(***************************************************************************)

\* A circuit written in either format, or put in an archive, with tables that
\* forget deltas or not, is read back as it was with what follows it left, its
\* terms ordered as Morton's order says; a damaged one is refused or keeps its
\* indices inside its tables and never passes for the identifier asked for
\* (readers and writers of lfc1, lfc2, lfa1 and lfa2).
FilesFaithful ==
  [][(TablesFaithful /\ LayerFaithful /\ FilesRoundTrip /\ DamageFound /\ ArchivesFaithful /\ MortonIsInterleaving)]_vars

\* A compiled circuit of either generation accepts exactly the inputs on which
\* every assertion of the program, and every one attached to a wire that the
\* circuit uses, holds, and what it reports as failed did fail; it has an
\* identifier that the order of assertions does not change, and reports joined
\* assertions with the fate and scopes of their group (the compiler's passes,
\* schedulers and assertion scopes).
CompilerFaithful == [][(Compiled /\ Canonical /\ ScopesFaithful)]_vars

\* Prover and verifier push the inputs of a presentation in the order, and with
\* the widths, in which the compiler of the circuits allocated their wires.
LayoutsAgree == [][LayoutsRight]_vars

\* The circuits for bits, numbers, shifts, tables, decoders, wrapping sums and
\* products, over a prime field and over a binary one and for every way a bit is
\* held, and those for hashes, signatures and codes made of them, accept the
\* witness of the right result and no witness of another one.
CircuitsRight ==
  [][(/\ GatesRight /\ NumbersRight /\ RoutesRight /\ TablesRight /\ CodesRight /\ WrappingSumsRight /\ ProductsRight
      /\ BlocksRight /\ MessagesRight /\ PaddingsRight /\ PointsRight /\ SignaturesRight /\ MacsRight)]_vars

\* Arithmetic on words is the field's: Montgomery products and their carries,
\* inverses, delayed reductions, conversions, each strategy of multiplication
\* and each machine's carry-less product give the element of the definition.
\* Transforms, and extensions by transforms, over every field and along every
\* plan, are the evaluations and interpolations they replace.
AlgebraRight ==
  [][(/\ MontgomeryRight /\ InversesRight /\ AccumulatorsRight /\ ConversionsRight /\ StrategiesAgree
      /\ BinaryWordsRight /\ MachinesAgree
      /\ SpectraRight /\ FieldTransformsRight /\ ExtensionRight /\ PlansRight /\ ExtensionFieldRight
      /\ ExtensionEncodingsRight /\ CrtPlansRight /\ CosetsRight /\ BinaryRangesRight /\ CoordinatesRight)]_vars

\* What the parsers take from a credential, what the circuits assert of it and
\* what the issuer signed are the same bytes: headers, nesting, items and their
\* digests, documents and presentations.
CredentialsRight ==
  [][(/\ HeadersRight /\ DecodersAgree /\ NestingBounded /\ ItemsRight
      /\ DocumentsRight /\ PresentationsRight /\ SignedMessagesRight)]_vars

\* Proofs of version 2: prover and verifier derive one transcript and one set of
\* equations from the messages.  Inputs that satisfy the circuit satisfy them and
\* their proof is accepted; others leave the equations off by what failed in the
\* circuit, weighted by challenges, and are refused unless that cancels.  The
\* commitment binds and hides: responses agree with the columns, the global sum
\* is zero exactly for residuals that cancel, opened columns of a row say nothing
\* of its values, every value has a slot, and a proof has one encoding.
ProofsV2Right ==
  [][(/\ SingleHandRight /\ CompiledRight /\ RoundsRight /\ ProofsRight
      /\ CommitmentsRight /\ ResponsesBind /\ OpenedHide /\ LayoutFits /\ RunsRight /\ WireRight)]_vars
=============================================================================
