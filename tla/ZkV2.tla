-------------------------------- MODULE ZkV2 --------------------------------
(***************************************************************************)
(* Polygero (runtime/polygero, runtime/proto/polygero.rs), the commitment  *)
(* of version 2: a witness is laid out in rows of samples of polynomials,  *)
(* evaluated on n oracle columns, and answered by two polynomials          *)
(*    H = fstar + sum of B_i W_i                                           *)
(*    Z = sum of C_i W_i over the data rows + V u + z_R m                  *)
(* which the verifier checks at t columns.                                 *)
(*                                                                         *)
(* Point i of the domain is the number i.  Interpolation is by Lagrange's  *)
(* formula, which the plans of the code compute (module RangeInterpolation *)
(* is about them).  The Merkle tree shows the committed columns, as module *)
(* Merkle proves, so the commitment is the table of columns itself.        *)
(* A geometry is [nw, nq, k, s, n, t]; rows and columns count from 0.      *)
(***************************************************************************)
EXTENDS SumcheckV2

CommitmentLabel == 105
ChallengesLabel == 106
OpeningsLabel == 107

\* The value at x of the polynomial with the given samples from point start on.
InverseTable == [x \in 1 .. P - 1 |-> CHOOSE y \in 1 .. P - 1 : (x * y) % P = 1]
LagrangeWeight(start, n, i, x) ==
  For(1, 0, n - 1, LAMBDA acc, j :
    IF j = i THEN acc ELSE Mod(acc * Mod(x - (start + j)) * InverseTable[Mod(i - j)]))
interpolate(start, samples, x) ==
  LET n == Size(samples) IN Mod(SumOver(0, n - 1, LAMBDA i : samples[i] * LagrangeWeight(start, n, i, x)))
\* A plan, made once and applied to several rows.
make_range(start, len, lo, n) ==
  Build(n, LAMBDA j : Build(len, LAMBDA i : LagrangeWeight(start, len, i - 1, lo + j - 1)))
apply(plan, samples) ==
  Array(Len(plan), LAMBDA j : Mod(SumOver(1, Len(plan[j + 1]), LAMBDA i : samples[i - 1] * plan[j + 1][i])))
interpolate_range(start, samples, lo, n) == apply(make_range(start, Size(samples), lo, n), samples)

-----------------------------------------------------------------------------
(***************************************************************************)
(* Geometry (proto/polygero.rs) and parameters (param.rs, config.rs).      *)
(***************************************************************************)
div_ceil(a, b) == (a + b - 1) \div b
ordinary_width(g) == g.k - g.t
\* Mutant of ordinary_rows: a row that is not full is not counted.
ordinary_rows_Full(g) == g.nw \div ordinary_width(g)
ordinary_rows(g) == div_ceil(g.nw, ordinary_width(g))
product_dimension(g) == div_ceil(g.k, 2)
product_width(g) == product_dimension(g) - g.t
product_groups(g) == IF g.nq = 0 THEN 0 ELSE div_ceil(g.nq, product_width(g))
data_rows(g) == ordinary_rows(g) + 3 * product_groups(g)
nrow(g) == data_rows(g) + 3
transmitted_rows(g) == nrow(g) - product_groups(g)
response_lengths(g) == <<g.k + g.s, 2 * g.k>>
\* Sizes are bounded by `limit', which is 2^28 in the code.
validate(g, limit) ==
  /\ g.k # 0 /\ g.t < g.k /\ g.t # 0 /\ g.t <= g.n
  /\ g.k + g.s <= g.n /\ 2 * g.k <= g.n
  /\ g.nq > 0 => div_ceil(g.k, 2) > g.t
  /\ nrow(g) * g.n <= limit

\* The interpolations whose capacity is checked: <<from, length, to, length>>.
CheckedRanges(g) ==
  {<<0, g.k, g.k, g.n>>, <<0, g.k + 1, g.k, g.n>>, <<0, div_ceil(g.k, 2), g.k, g.n>>,
   <<0, g.k, g.k, 2 * g.k>>, <<g.k, g.k, g.k, g.n>>, <<g.k, g.k + g.s, g.k, g.n>>,
   <<g.k, g.s + 1, g.k, g.k + g.s>>, <<g.k, g.s + 1, g.k, g.n>>, <<g.k, 2 * g.k, 0, g.k + g.n>>}
\* A domain of `points' points can interpolate what lies within it.
can_interpolate(g, points) ==
  /\ g.k # 0 /\ g.t < g.k /\ g.k + g.s <= g.n /\ 2 * g.k <= g.n
  /\ \A r \in CheckedRanges(g) : r[1] + r[2] <= points /\ r[3] + r[4] <= points
\* try_new
ParamOk(g, products, points, limit) ==
  /\ validate(g, limit)
  /\ \A i \in 1 .. Len(products) : products[i].x < g.nw /\ products[i].y < g.nw /\ products[i].z < g.nw
  /\ can_interpolate(g, points)

u_row == 0
m_row == 1
data_start == 2
fstar_row(g) == nrow(g) - 1
is_product_output(g, row) ==
  LET start == data_start + ordinary_rows(g)
  IN row \in start .. start + 3 * product_groups(g) - 1 /\ (row - start) % 3 = 2

-----------------------------------------------------------------------------
(***************************************************************************)
(* The rows (prover_commitment.rs).  coins is the prover's tape.           *)
(***************************************************************************)
\* The declared subfield: a field of prime order has no smaller one.
Subfield == 0 .. P - 1
\* `boundary' values of the witness are declared to lie in the subfield, and
\* then all points of the domain must.
validate_witness(g, products, witness, boundary) ==
  /\ Size(witness) = g.nw /\ boundary <= g.nw
  /\ \A i \in 0 .. boundary - 1 : witness[i] \in Subfield
  /\ boundary = 0 \/ \A i \in 0 .. g.k + g.n - 1 : Mod(i) \in Subfield
  /\ \A i \in 1 .. Len(products) : Mod(witness[products[i].x] * witness[products[i].y]) = witness[products[i].z]
\* Mutant of Samples: a mask is missing.
Samples_Fewer(g, len, coins, at, values) ==
  Array(len, LAMBDA i : IF i < g.t - 1 THEN coins[at + i + 1] ELSE IF i >= g.t /\ i - g.t < Len(values) THEN values[i - g.t + 1] ELSE 0)
\* Samples of a row: t masks from the tape, values, zeros.  The masks of a row
\* before the boundary are drawn from the subfield, which here is the field.
Samples(g, len, coins, at, values) ==
  Array(len, LAMBDA i : IF i < g.t THEN coins[at + i + 1] ELSE IF i - g.t < Len(values) THEN values[i - g.t + 1] ELSE 0)
\* The values of m: their sum over the witness slots is zero.
MaskM(g, coins, at) ==
  LET m == Array(g.k, LAMBDA i : coins[at + i + 1])
  IN [m EXCEPT ![g.t] = Mod(-SumOver(g.t + 1, g.k - 1, LAMBDA j : m[j]))]
OrdinaryValues(g, witness, row) ==
  LET width == ordinary_width(g)
      end == IF (row + 1) * width < g.nw THEN (row + 1) * width ELSE g.nw
  IN [j \in 1 .. end - row * width |-> witness[row * width + j - 1]]
ProductValues(g, products, witness, group, part) ==
  LET first == group * product_width(g)
      count == IF first + product_width(g) < g.nq THEN product_width(g) ELSE g.nq - first
  IN [j \in 1 .. count |-> witness[IF part = 0 THEN products[first + j].x ELSE products[first + j].y]]
encode_rows(g, products, witness, coins) ==
  LET plan == make_range(0, g.k, g.k, g.n)
      planP == make_range(0, product_dimension(g), g.k, g.n)
      ordinary == 2 * g.k
      product == ordinary + g.t * ordinary_rows(g)
      primary == product + 2 * g.t * product_groups(g)
      Triple(group) ==
        LET x == apply(planP, Samples(g, product_dimension(g), coins, product + 2 * g.t * group, ProductValues(g, products, witness, group, 0)))
            y == apply(planP, Samples(g, product_dimension(g), coins, product + 2 * g.t * group + g.t, ProductValues(g, products, witness, group, 1)))
        IN <<x, y, Array(g.n, LAMBDA j : Mod(x[j] * y[j]))>>
  IN <<interpolate_range(g.k, Array(g.k, LAMBDA i : coins[i + 1]), g.k, g.n),
       apply(plan, MaskM(g, coins, g.k))>>
     \o Build(ordinary_rows(g), LAMBDA r : apply(plan, Samples(g, g.k, coins, ordinary + g.t * (r - 1), OrdinaryValues(g, witness, r - 1))))
     \o Concat(1, product_groups(g), LAMBDA group : Triple(group - 1))
     \o <<interpolate_range(g.k, Array(g.k + g.s, LAMBDA i : coins[primary + i + 1]), g.k, g.n)>>
CoinsNeeded(g) == 3 * g.k + g.s + g.t * ordinary_rows(g) + 2 * g.t * product_groups(g)
\* Row i of the table: the sequences of this module count from 1.
Row(w, i) == w[i + 1]

-----------------------------------------------------------------------------
(***************************************************************************)
(* Challenges and constraints (transcript.rs, constraints.rs).             *)
(***************************************************************************)
receive_commitment(ts, context, root) == Absorb(Absorb(Absorb(ts, CommitmentLabel), context), root)
challenges(ts, g, nconstraints, statement) ==
  LET al == DrawnAll(AbsorbAll(Absorb(ts, ChallengesLabel), statement), nconstraints + 3 * g.nq)
      bs == For([xs |-> <<>>, ts |-> al.ts], 1, nrow(g) - 1, LAMBDA s, i :
              LET d == DrawnAll(s.ts, g.s + 1) IN [xs |-> Append(s.xs, [j \in 0 .. g.s |-> d.xs[j + 1]]), ts |-> d.ts])
  IN [alpha |-> al.xs, batching |-> bs.xs, ts |-> bs.ts]
\* choose: t different columns; the transcript's digits pick among those left.
queries(ts, g, h, z) ==
  LET open == AbsorbAll(AbsorbAll(Absorb(ts, OpeningsLabel), Elements(h)), Elements(z))
      Pick(s, i) ==
        LET d == Drawn(s.ts)
            left == InOrder((0 .. g.n - 1) \ {s.xs[j] : j \in 1 .. Len(s.xs)}, <)
        IN [xs |-> Append(s.xs, left[(d.x % Len(left)) + 1]), ts |-> d.ts]
  IN For([xs |-> <<>>, ts |-> open], 1, g.t, Pick)

TermsOk(nw, equations, a) == \A i \in 1 .. Len(a) : a[i].c <= equations /\ a[i].w < nw
\* Mutant of batch_constraints: copies are not tied to their originals.
batch_constraints_NoOriginals(g, products, b, a, alpha) ==
  LET coefficient == Array(g.nw, LAMBDA w :
        Mod(SumOver(1, Len(a), LAMBDA i : IF a[i].w = w THEN alpha[a[i].c] * a[i].k ELSE 0)))
  IN Build(ordinary_rows(g), LAMBDA r :
       Array(g.k, LAMBDA i : IF i >= g.t /\ (r - 1) * ordinary_width(g) + i - g.t < g.nw
                             THEN coefficient[(r - 1) * ordinary_width(g) + i - g.t] ELSE 0))
     \o Concat(1, product_groups(g), LAMBDA group : [part \in 1 .. 3 |-> Array(g.k, LAMBDA i : 0)])
\* The weights C_i: the combination of the equations, then of the copies.
batch_constraints(g, products, b, a, alpha) ==
  LET copy(i, part) == alpha[Len(b) + 3 * (i - 1) + part]
      coefficient == Array(g.nw, LAMBDA w :
        Mod(SumOver(1, Len(a), LAMBDA i : IF a[i].w = w THEN alpha[a[i].c] * a[i].k ELSE 0)
            - SumOver(1, g.nq, LAMBDA i : (IF products[i].x = w THEN copy(i, 1) ELSE 0)
                + (IF products[i].y = w THEN copy(i, 2) ELSE 0) + (IF products[i].z = w THEN copy(i, 3) ELSE 0))))
      slot(group, i) == (group - 1) * product_width(g) + i - g.t + 1
  IN Build(ordinary_rows(g), LAMBDA r :
       Array(g.k, LAMBDA i : IF i >= g.t /\ (r - 1) * ordinary_width(g) + i - g.t < g.nw
                             THEN coefficient[(r - 1) * ordinary_width(g) + i - g.t] ELSE 0))
     \o Concat(1, product_groups(g), LAMBDA group :
          [part \in 1 .. 3 |-> Array(g.k, LAMBDA i :
             IF i >= g.t /\ i - g.t < product_width(g) /\ slot(group, i) <= g.nq THEN copy(slot(group, i), part) ELSE 0)])

\* V, monic with the logical points as roots, and z_R, on the oracle (polynomials.rs).
vanishing(g) ==
  interpolate_range(0, Array(g.k + 1, LAMBDA i : IF i < g.k THEN 0 ELSE For(1, 0, g.k - 1, LAMBDA acc, j : Mod(acc * (g.k - j)))), g.k, g.n)
selector(g) == interpolate_range(0, Array(g.k, LAMBDA i : IF i < g.t THEN 0 ELSE 1), g.k, g.n)

-----------------------------------------------------------------------------
(***************************************************************************)
(* The prover's responses (prover.rs).                                     *)
(***************************************************************************)
primary_response(g, w, batching) ==
  LET dim == g.k + g.s
      plan == make_range(g.k, g.s + 1, g.k, dim)
  IN ForEach(Array(dim, LAMBDA j : Row(w, fstar_row(g))[j]), [i \in 1 .. nrow(g) - 1 |-> i], LAMBDA h, i :
       Strictly(apply(plan, batching[i]), LAMBDA b : Array(dim, LAMBDA j : Mod(h[j] + b[j] * w[i][j]))))
arithmetic_response(g, w, rows) ==
  LET size == 2 * g.k
      plan == make_range(0, g.k, g.k, size)
      v == vanishing(g)
      sel == selector(g)
  IN For(Array(size, LAMBDA j : Mod(v[j] * Row(w, u_row)[j] + sel[j] * Row(w, m_row)[j])), 1, Len(rows), LAMBDA z, i :
       Strictly(apply(plan, rows[i]), LAMBDA c : Array(size, LAMBDA j : Mod(z[j] + c[j] * Row(w, data_start + i - 1)[j]))))
open_columns(g, w, indices) ==
  Concat(0, nrow(g) - 1, LAMBDA r : IF is_product_output(g, r) THEN <<>> ELSE [q \in 1 .. Len(indices) |-> Row(w, r)[indices[q]]])

\* How many digests open these columns: those of the nodes of the tree (module
\* Merkle) that lie beside an opened leaf's ancestors.
PathLength(g, indices) ==
  LET above == {(g.n + indices[q]) \div 2 ^ d : q \in 1 .. Len(indices), d \in 0 .. g.n}
  IN Cardinality({i \in 2 .. 2 * g.n - 1 : i \notin above /\ i \div 2 \in above})
prove(ts, g, products, w, b, a, statement) ==
  LET ch == challenges(ts, g, Len(b), statement)
      h == primary_response(g, w, ch.batching)
      z == arithmetic_response(g, w, batch_constraints(g, products, b, a, ch.alpha))
      qs == queries(ch.ts, g, h, z)
  IN [ok |-> TermsOk(g.nw, Len(b), a), ts |-> qs.ts,
      proof |-> [h |-> h, z |-> z, rows |-> open_columns(g, w, qs.xs), nonces |-> Len(qs.xs), path |-> PathLength(g, qs.xs)]]

-----------------------------------------------------------------------------
(***************************************************************************)
(* The verifier (verifier.rs): its layout, the domain it was made for and  *)
(* the root it received, if any.  `columns' is what the root commits to.   *)
(***************************************************************************)
NoRoot == -1
Log2Ceil(n) == CHOOSE d \in 0 .. n : 2 ^ d >= n /\ \A e \in 0 .. d - 1 : 2 ^ e < n
ProofShape(g, proof) ==
  /\ <<Size(proof.h), Size(proof.z)>> = response_lengths(g)
  /\ Len(proof.rows) = g.t * transmitted_rows(g)
  /\ proof.nonces = g.t /\ proof.path <= g.t * (Log2Ceil(g.n) + 1)
\* All rows at the queries: product outputs are made from their inputs.
materialize_rows(g, received) ==
  For([rows |-> <<>>, used |-> 0], 0, nrow(g) - 1, LAMBDA s, r :
    IF is_product_output(g, r)
    THEN [rows |-> Append(s.rows, [q \in 1 .. g.t |-> Mod(s.rows[Len(s.rows) - 1][q] * s.rows[Len(s.rows)][q])]), used |-> s.used]
    ELSE [rows |-> Append(s.rows, SubSeq(received, g.t * s.used + 1, g.t * (s.used + 1))), used |-> s.used + 1]).rows
\* Mutant of authenticate_columns: the blinding row is left out of the leaf.
authenticate_columns_Data(g, columns, indices, opened) ==
  \A q \in 1 .. g.t : \A r \in 1 .. nrow(g) - 1 : columns[r][indices[q]] = opened[r][q]
authenticate_columns(g, columns, indices, opened) ==
  \A q \in 1 .. g.t : \A r \in 1 .. nrow(g) : columns[r][indices[q]] = opened[r][q]
\* Does H agree with an opened column j?
PrimaryAgrees(g, h, batching, column, j) ==
  interpolate(g.k, h, g.k + j)
  = Mod(column[nrow(g)] + SumOver(1, nrow(g) - 1, LAMBDA i : interpolate(g.k, batching[i], g.k + j) * column[i]))
\* The sum of Z over the witness slots, with the constants of the equations.
GlobalSum(g, z, alpha, b) ==
  Mod(SumOver(g.t, g.k - 1, LAMBDA j : interpolate(g.k, z, j)) + SumOver(1, Len(b), LAMBDA c : alpha[c] * b[c]))
ArithmeticAgrees(g, z, rows, column, j) ==
  interpolate(g.k, z, g.k + j)
  = Mod(SumOver(1, Len(rows), LAMBDA i : interpolate(0, rows[i], g.k + j) * column[data_start + i])
        + vanishing(g)[j] * column[u_row + 1] + selector(g)[j] * column[m_row + 1])

verify(ts, v, root, domain, columns, b, a, statement, proof) ==
  LET g == v.com
      ch == challenges(ts, g, Len(b), statement)
      qs == queries(ch.ts, g, proof.h, proof.z)
      opened == materialize_rows(g, proof.rows)
      rows == batch_constraints(g, v.products, b, a, ch.alpha)
      column(q) == [r \in 1 .. nrow(g) |-> opened[r][q]]
  IN IF v.root # root THEN "commitment"
     ELSE IF v.domain # domain THEN "domain"
     ELSE IF ~ProofShape(g, proof) THEN "shape"
     ELSE IF ~TermsOk(g.nw, Len(b), a) THEN "terms"
     ELSE IF ~authenticate_columns(g, columns, qs.xs, opened) THEN "columns"
     ELSE IF \E q \in 1 .. g.t : ~PrimaryAgrees(g, proof.h, ch.batching, column(q), qs.xs[q]) THEN "primary"
     ELSE IF GlobalSum(g, proof.z, ch.alpha, b) # 0 THEN "sum"
     ELSE IF \E q \in 1 .. g.t : ~ArithmeticAgrees(g, proof.z, rows, column(q), qs.xs[q]) THEN "arithmetic"
     ELSE "accepted"

-----------------------------------------------------------------------------
(***************************************************************************)
(* The zero-knowledge proof of version 2 (runtime/zk-v2): private inputs   *)
(* and pads are committed by Polygero, the sumcheck runs on the same       *)
(* transcript, and Polygero proves the constraints compiled from it.       *)
(* A configuration is [k, s, n, t].                                        *)
(***************************************************************************)
private_input_count(c) == c.ninput - c.npublic_input
\* prepare_layout, commitment_layout: ok if the parameters are.  The domain of
\* the field has all its elements as points.
SizeLimit == 2 ^ 28
prepare_layout(c, config, domain) ==
  LET counts == witness_and_constraint_count(c)
      geom == logw_layers(c)
      products == product_constraints(geom, private_input_count(c))
      com == [nw |-> counts[1], nq |-> counts[2], k |-> config.k, s |-> config.s, n |-> config.n, t |-> config.t]
  IN [ok |-> ParamOk(com, products, P, SizeLimit), sc |-> geom, products |-> products, com |-> com, domain |-> domain, root |-> NoRoot]

\* Digests: of the public layout, and of the committed columns.
Digest(xs) == ForEach(7, xs, LAMBDA acc, x : (acc * 41 + x + 3) % 9973)
ContextDigest(layout) ==
  LET g == layout.com
  IN Digest(<<g.k, g.nw, g.nq, g.s, g.n, g.t>> \o Concat(1, g.nq, LAMBDA i : <<layout.products[i].x, layout.products[i].y, layout.products[i].z>>))
Root(w) == Digest(Concat(1, Len(w), LAMBDA r : Elements(w[r])))

\* ZkProver::commit.  The tape is used for the pads first, then for the rows.
commit(ts, c, config, domain, private, coins) ==
  LET layout == prepare_layout(c, config, domain)
      sampled == sample_pads(layout.sc, coins)
      npads == SumOver(1, Len(layout.sc), LAMBDA l : 2 * layout.sc[l] + 2)
      values == private \o sampled.witness
      witness == Array(Len(values), LAMBDA i : values[i + 1])
      boundary == IF c.subfield_boundary < c.npublic_input THEN 0 ELSE c.subfield_boundary - c.npublic_input
      w == encode_rows(layout.com, layout.products, witness, [i \in 1 .. CoinsNeeded(layout.com) |-> coins[npads + i]])
  IN IF \/ Len(private) # private_input_count(c) \/ ~layout.ok
        \/ ~validate_witness(layout.com, layout.products, witness, boundary)
     THEN [ok |-> FALSE]
     ELSE [ok |-> TRUE, ts |-> receive_commitment(ts, ContextDigest(layout), Root(w)), layout |-> layout,
           pads |-> sampled.pads, witness |-> witness, w |-> w]

\* ZkProver::prove.  ok: the circuit accepts the inputs, the sumcheck met its
\* assertion and the commitment had no error; the rest is what a prover sends
\* who goes on without that.
ProveZk(committed, c, id, public, private) ==
  LET inputs == Array(c.ninput, LAMBDA i : (public \o private)[i + 1])
      eval == eval_circuit(c, inputs)
      sumcheck == prove_core(write_sumcheck_statement(committed.ts, c, id, public), c, eval.w_layers, committed.pads)
      statement == statement_digest(sumcheck.ts)
      ab == compile(sumcheck.constraints, committed.layout.sc, private_input_count(c), public)
      com == prove(statement.ts, committed.layout.com, committed.layout.products, committed.w, ab.b, ab.a, statement.xs)
  IN IF Len(public) # c.npublic_input \/ Len(private) # private_input_count(c) THEN [ok |-> FALSE]
     ELSE [ok |-> eval.ok /\ sumcheck.ok /\ com.ok,
           proof |-> [root |-> Root(committed.w), sumcheck |-> sumcheck.proof, com |-> com.proof],
           constraints |-> sumcheck.constraints, ab |-> ab, statement |-> statement, ts |-> com.ts]

\* Mutant of compile_constraints: the digest is drawn before the sumcheck is read.
compile_constraints_Early(ts, c, id, public, proof, layout) ==
  LET statement == statement_digest(write_sumcheck_statement(ts, c, id, public))
      derived == derive_constraints(statement.ts, c, proof)
  IN IF ~derived.ok THEN derived ELSE [ok |-> derived.ok, constraints |-> derived.constraints, statement |-> statement.xs, ts |-> derived.ts,
      ab |-> compile(derived.constraints, layout.sc, private_input_count(c), public)]
\* ZkVerifier::compile_constraints.  What derive_constraints returns has the
\* shape that the compiler of constraints checks again.
compile_constraints(ts, c, id, public, proof, layout) ==
  LET derived == derive_constraints(write_sumcheck_statement(ts, c, id, public), c, proof)
      statement == statement_digest(derived.ts)
  IN IF ~derived.ok THEN derived
     ELSE [ok |-> TRUE, constraints |-> derived.constraints, statement |-> statement.xs, ts |-> statement.ts,
           ab |-> compile(derived.constraints, layout.sc, private_input_count(c), public)]
\* ZkVerifier::receive_commitment: the verifier and the transcript afterwards.
Receive(ts, v, root) == [v |-> [v EXCEPT !.root = root], ts |-> receive_commitment(ts, ContextDigest(v), root)]
\* ZkVerifier::verify, with lengths and shapes before the transcript moves.
VerifyZk(ts, v, c, id, domain, public, proof, columns) ==
  LET cs == compile_constraints(ts, c, id, public, proof.sumcheck, v)
  IN IF Len(public) # c.npublic_input THEN "public"
     ELSE IF ~SumcheckShape(proof.sumcheck, v.sc) THEN "sumcheck"
     ELSE IF ~ProofShape(v.com, proof.com) THEN "shape"
     ELSE IF ~cs.ok THEN "width"
     ELSE verify(cs.ts, v, proof.root, domain, columns, cs.ab.b, cs.ab.a, cs.statement, proof.com)
=============================================================================
