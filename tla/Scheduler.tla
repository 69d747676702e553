----------------------------- MODULE Scheduler -----------------------------
(***************************************************************************)
(* From expressions to layers (compile/compiler): the quadratic form, the  *)
(* schedule of both generations, the compression of the result; and the    *)
(* evaluation of a compiled circuit (compile/eval).                        *)
(*                                                                         *)
(* A quadratic circuit is a sequence of nodes, each after what it uses; the *)
(* first is the constant one, which is input 0.  Assertions are after the  *)
(* other nodes here and mixed with them in the code: no step depends on it. *)
(***************************************************************************)
EXTENDS Compiler

CONSTANT SegmentWidth   \* 32, the length of a macro of segment_layer

-----------------------------------------------------------------------------
(***************************************************************************)
(* ir_to_quad.                                                             *)
(***************************************************************************)
\* The term of a node of a sum, as a factor and two nodes; 0 is the constant one.
TermOf(nodes, x) ==
  CASE nodes[x].op = "quad" -> <<nodes[x].e, nodes[x].x, nodes[x].y>>
    [] nodes[x].op = "one" -> <<1, 0, 0>>
    [] OTHER -> <<1, 0, x>>
TermsOf(nodes, x) ==
  IF nodes[x].op = "sum" THEN [i \in DOMAIN nodes[x].l |-> TermOf(nodes, nodes[x].l[i])]
  ELSE <<TermOf(nodes, x)>>

\* walk_eltw: the nodes that become wires.
Wires(nodes, roots) ==
  For(roots, 1, Len(nodes), LAMBDA acc, i :
    LET x == Len(nodes) + 1 - i IN
    IF x \in acc /\ nodes[x].op \in {"sum", "quad"}
    THEN acc \cup (UNION {{t[2], t[3]} : t \in ToSet(TermsOf(nodes, x))} \ {0}) ELSE acc)

ir_to_quad(s) ==
  LET order == InOrder({x \in Wires(s.nodes, {item.expr : item \in ToSet(s.v)}) : ~Is(s, x, "one")}, <)
      wire(x) == IF x = 0 \/ (x # 0 /\ Is(s, x, "one")) THEN 1 ELSE 1 + SelectInSeq(order, LAMBDA y : y = x)
      term(t) == <<t[1], wire(t[2]), wire(t[3])>>
      node(x) == IF Is(s, x, "input") THEN [op |-> "input", p |-> s.nodes[x].p]
                 ELSE [op |-> "sum", terms |-> [i \in DOMAIN TermsOf(s.nodes, x) |-> term(TermsOf(s.nodes, x)[i])]]
      asserted == Distinct([i \in DOMAIN s.v |-> [expr |-> wire(s.v[i].expr), id |-> s.v[i].id]])
      all == Reachable(s.nodes, {item.expr : item \in ToSet(s.v)})
  IN IF \E x \in all : s.nodes[x].op \in {"const", "linear", "with"} THEN Panic(s, "unexpected expression")
     ELSE [why |-> "",
           nodes |-> <<[op |-> "input", p |-> 0]>> \o [i \in DOMAIN order |-> node(order[i])]
                       \o [i \in DOMAIN asserted |-> [op |-> "assert0", w |-> asserted[i].expr]],
           asserts |-> [i \in DOMAIN asserted |-> [at |-> Len(order) + 1 + i, id |-> asserted[i].id]]]

-----------------------------------------------------------------------------
(***************************************************************************)
(* Layers and wires.                                                       *)
(***************************************************************************)
Uses(n) == CASE n.op = "sum" -> UNION {{t[2], t[3]} : t \in ToSet(n.terms)}
             [] n.op = "assert0" -> {n.w}
             [] OTHER -> {}

\* assert_all_needed
AllNeeded(nodes) ==
  \A i \in 2 .. Len(nodes) : nodes[i].op = "assert0" \/ \E j \in DOMAIN nodes : i \in Uses(nodes[j])

\* depth_of_node
NodeDepths(nodes) ==
  LET d[i \in DOMAIN nodes] ==
        CASE nodes[i].op = "input" -> 0
          [] nodes[i].op = "assert0" -> d[nodes[i].w]
          [] OTHER -> 1 + Max({d[x] : x \in Uses(nodes[i])})
  IN d

\* assert_layering
Layered(nodes, d) ==
  \A i \in DOMAIN nodes : nodes[i].op = "sum" =>
    \A t \in ToSet(nodes[i].terms) : t[1] # 0 /\ d[i] = d[t[2]] + 1 /\ d[i] = d[t[3]] + 1

\* compute_node_depths with materialize_assertions: an assertion above the last
\* layer becomes a term with the factor zero, one layer later.
\* Mutant: an assertion in the last layer but one is taken for an output.
Materialized_Late(nodes) ==
  LET d == NodeDepths(nodes)
      last == Max({1} \cup {d[i] : i \in DOMAIN nodes})
      early(i) == nodes[i].op = "assert0" /\ d[i] < last - 1
  IN [depth |-> [i \in DOMAIN nodes |-> IF early(i) THEN d[i] + 1 ELSE d[i]], last |-> last,
      nodes |-> [i \in DOMAIN nodes |->
                   IF early(i) THEN [op |-> "sum", terms |-> << <<0, nodes[i].w, nodes[i].w>> >>] ELSE nodes[i]]]

Materialized(nodes) ==
  LET d == NodeDepths(nodes)
      last == Max({1} \cup {d[i] : i \in DOMAIN nodes})
      early(i) == nodes[i].op = "assert0" /\ d[i] < last
  IN [depth |-> [i \in DOMAIN nodes |-> IF early(i) THEN d[i] + 1 ELSE d[i]], last |-> last,
      nodes |-> [i \in DOMAIN nodes |->
                   IF early(i) THEN [op |-> "sum", terms |-> << <<0, nodes[i].w, nodes[i].w>> >>] ELSE nodes[i]]]

Sign(x, y) == IF x < y THEN -1 ELSE IF x > y THEN 1 ELSE 0
FirstOf(signs) == LET at == SelectInSeq(signs, LAMBDA x : x # 0) IN IF at = 0 THEN 0 ELSE signs[at]

\* RenamedTerm::compare, RenamedNode::compare: from the last term down.
CompareRenamed(s, t) == FirstOf(<<Sign(s.h1, t.h1), Sign(s.h0, t.h0), Sign(s.k, t.k)>>)
CompareNodes(a, b) ==
  LET n == Min({Len(a), Len(b)})
  IN FirstOf([i \in 1 .. n |-> CompareRenamed(a[Len(a) + 1 - i], b[Len(b) + 1 - i])] \o <<Sign(Len(b), Len(a))>>)

SumsAt(m, d) == SelectSeq([i \in DOMAIN m.nodes |-> i], LAMBDA i : m.depth[i] = d /\ m.nodes[i].op = "sum")
Renamed(m, ids, i) ==
  LET named == [j \in DOMAIN m.nodes[i].terms |->
                  LET t == m.nodes[i].terms[j]
                  IN canonical_term([k |-> t[1], h0 |-> ids[t[2]], h1 |-> ids[t[3]], g |-> 0])]
  IN SortSeq(named, LAMBDA s, t : CompareRenamed(s, t) < 0)

\* The wires of every layer: inputs by position, the others in the order of
\* their terms.  No two nodes, and no two terms of a node, are the same.
assign_wire_ids(m) ==
  LET inputs == [i \in DOMAIN m.nodes |-> IF m.nodes[i].op = "input" THEN m.nodes[i].p ELSE Word]
      layer(acc, d) ==
        LET at == SumsAt(m, d)
            named == [j \in DOMAIN at |-> [i |-> at[j], terms |-> Renamed(m, acc.ids, at[j])]]
            order == SortSeq(named, LAMBDA a, b : CompareNodes(a.terms, b.terms) < 0)
            same == \E j \in 1 .. Len(order) - 1 : CompareNodes(order[j].terms, order[j + 1].terms) = 0
            twice == \E n \in ToSet(named) : \E j \in 1 .. Len(n.terms) - 1 : n.terms[j] = n.terms[j + 1]
        IN IF acc.why # "" THEN acc
           ELSE [why |-> IF twice THEN "duplicate term" ELSE IF same THEN "duplicate node" ELSE "",
                 ids |-> [i \in DOMAIN m.nodes |->
                            IF i \in ToSet(at) THEN SelectInSeq(order, LAMBDA n : n.i = i) - 1 ELSE acc.ids[i]]]
  IN For([ids |-> inputs, why |-> ""], 1, m.last, layer)

\* collect_quads: the terms of a layer in the order of its wires.
collect_quads(m, ids, d) ==
  LET order == SortSeq(SumsAt(m, d), LAMBDA i, j : ids[i] < ids[j])
      quads(i) == [j \in DOMAIN m.nodes[i].terms |->
                     LET t == m.nodes[i].terms[j]
                     IN canonical_term([g |-> ids[i], h0 |-> ids[t[2]], h1 |-> ids[t[3]], k |-> t[1]])]
  IN Concat(1, Len(order), LAMBDA i : quads(order[i]))

\* Every wire but assertions and the constant one is used by the next layer.
check_connectivity(layers, widths, ninput) ==
  \A l \in DOMAIN layers :
    LET used == UNION {{t.h0, t.h1} : t \in ToSet(layers[l])}
        free == IF l = 1 THEN {0} ELSE {t.g : t \in {u \in ToSet(layers[l - 1]) : u.k = 0}}
    IN \A i \in 0 .. (IF l = 1 THEN ninput ELSE widths[l - 1]) - 1 : i \in used \cup free

\* The layer and wire of every assertion, layer 0 the last.
extract_debug_symbols(m, quad, ids) ==
  {LET n == m.nodes[a.at]
       at == IF n.op = "assert0" THEN n.w ELSE a.at
   IN [layer |-> m.last - m.depth[at], index |-> ids[at], id |-> a.id] : a \in ToSet(quad.asserts)}

-----------------------------------------------------------------------------
(***************************************************************************)
(* The order of terms in a layer.                                          *)
(***************************************************************************)
\* The kind of a term by its factors known to be one.
kind(t, ones) ==
  CASE t.h0 \in ones /\ t.h1 \in ones -> 0
    [] t.h0 \in ones \/ t.h1 \in ones -> 1
    [] OTHER -> IF t.h0 = t.h1 THEN 2 ELSE 3

\* What is known of the outputs: a value, or none (q).
propagate_constants(ts, known, noutput) ==
  [g \in 0 .. noutput - 1 |->
     LET mine == SelectSeq(ts, LAMBDA t : t.g = g) IN
     IF \E t \in ToSet(mine) : known[t.h0] = q \/ known[t.h1] = q \/ t.k = 0 THEN q
     ELSE SumOver(1, Len(mine), LAMBDA i : mine[i].k * known[mine[i].h0] * known[mine[i].h1]) % q]

\* order_layer
CompareV2(s, t, ones) ==
  FirstOf(<<Sign(kind(s, ones), kind(t, ones)), Sign(t.g, s.g), Sign(t.h1, s.h1), Sign(s.h0, t.h0), Sign(s.k, t.k)>>)

\* ordered_layers of the two generations, from the inputs on.
ordered_layers_v1(layers) ==
  [l \in DOMAIN layers |-> SortSeq(layers[l], LAMBDA s, t : compare_term(s, t) < 0)]
ordered_layers_v2(layers, widths, ninput) ==
  LET known[l \in DOMAIN layers] ==
        IF l = 1 THEN [i \in 0 .. ninput - 1 |-> IF i = 0 THEN 1 ELSE q]
        ELSE propagate_constants(layers[l - 1], known[l - 1], widths[l - 1])
      ones(l) == {i \in DOMAIN known[l] : known[l][i] = 1}
  IN [l \in DOMAIN layers |-> SortSeq(layers[l], LAMBDA s, t : CompareV2(s, t, ones(l)) < 0)]

collect_constants(layers) ==
  ForEach(<<>>, FlattenSeq(layers), LAMBDA acc, t : IF t.k \in ToSet(acc) THEN acc ELSE Append(acc, t.k))

build_layer(constants, ts, nw) ==
  new_compressed(nw, ceil_log2(nw),
    <<DeltasOf([i \in DOMAIN ts |-> [ts[i] EXCEPT !.k = SelectInSeq(constants, LAMBDA k : k = ts[i].k) - 1]])>>, <<0>>)

\* validate_and_count_inputs
ninput_wires(nodes) == Cardinality({i \in DOMAIN nodes : nodes[i].op = "input"})
ninput_positions(nodes) == 1 + Max({nodes[i].p : i \in {j \in DOMAIN nodes : nodes[j].op = "input"}})

schedule(version, quad, npublic_input, subfield_boundary) ==
  LET m == Materialized(quad.nodes)
      assigned == assign_wire_ids(m)
      ninput == ninput_wires(quad.nodes)
      layers == [d \in 1 .. m.last |-> collect_quads(m, assigned.ids, d)]
      widths == [d \in 1 .. m.last |-> Len(SumsAt(m, d))]
      constants == collect_constants(layers)
      ordered == IF version = 1 THEN ordered_layers_v1(layers) ELSE ordered_layers_v2(layers, widths, ninput)
      repeated == \E l \in DOMAIN ordered : \E i \in 1 .. Len(ordered[l]) - 1 : compare_term(ordered[l][i], ordered[l][i + 1]) = 0
      built == [l \in DOMAIN ordered |-> build_layer(constants, ordered[l], IF l = 1 THEN ninput ELSE widths[l - 1])]
      raw == [ninput |-> ninput, npublic_input |-> npublic_input, noutput |-> widths[m.last],
              logv |-> ceil_log2(widths[m.last]), subfield_boundary |-> subfield_boundary,
              constants |-> constants, layers |-> Reverse(built)]
  IN CASE ~AllNeeded(quad.nodes) -> Panic(quad, "not needed")
       [] quad.asserts = <<>> -> Panic(quad, "no depth")
       [] ~Layered(quad.nodes, NodeDepths(quad.nodes)) -> Panic(quad, "layering")
       [] assigned.why # "" -> Panic(quad, assigned.why)
       [] ninput # ninput_positions(quad.nodes) -> Panic(quad, "some inputs are unused")
       [] npublic_input \notin 1 .. ninput \/ subfield_boundary > ninput -> Panic(quad, "boundaries")
       [] ~check_connectivity(layers, widths, ninput) -> Panic(quad, "unvisited wire")
       [] repeated -> Panic(quad, "duplicate term in layer")
       [] OTHER -> [why |-> "", raw |-> raw, id |-> compute_id(raw),
                    symbols |-> extract_debug_symbols(m, quad, assigned.ids)]

\* top::compile: what both generations share, and a generation.
ToQuad(prog, ninputs) ==
  LET built == BuildProgram(prog, ninputs)
      simplified == rewrite_assertions(built.nodes, built.v)
      copied == rewrite_copies(simplified.nodes, simplified.v)
  IN CASE built.why # "" -> built
       [] simplified.why # "" -> simplified
       [] copied.why # "" -> copied
       [] OTHER -> ir_to_quad(copied)
compile(version, quad, npublic_input, subfield_boundary) ==
  IF quad.why # "" THEN quad ELSE schedule(version, quad, npublic_input, subfield_boundary)

-----------------------------------------------------------------------------
(***************************************************************************)
(* Compression: segment_layer, segment_circuit.  Lists of indices count    *)
(* from 0.                                                                 *)
(***************************************************************************)
Indices(layer) == FlattenSeq([i \in DOMAIN layer.tokens |-> layer.segments[layer.tokens[i] + 1]])
Count(seq, x) == Cardinality({i \in DOMAIN seq : seq[i] = x})
\* A renumbering of 0 .. n - 1 with the frequent first: the old numbers in order.
ByFrequency(n, freq(_)) ==
  SortSeq([i \in 1 .. n |-> i - 1], LAMBDA a, b : freq(a) > freq(b) \/ (freq(a) = freq(b) /\ a < b))
NewIndex(order, old) == SelectInSeq(order, LAMBDA x : x = old) - 1

\* The macros: windows that occur twice at multiples of the width.  A sequence
\* stands for its rolling hash, and a match is compared anyway.
Macros(idx) ==
  LET window(i) == SubSeq(idx, i * SegmentWidth + 1, (i + 1) * SegmentWidth)
      n == Len(idx) \div SegmentWidth
  IN {w \in {window(i) : i \in 0 .. n - 1} : Cardinality({i \in 0 .. n - 1 : window(i) = w}) >= 2}

\* Macros where they match, runs of at most the width between them.
Runs(idx, macros) ==
  LET take(acc, i) ==
        LET w == SubSeq(idx, i, i + SegmentWidth - 1) IN
        CASE i < acc.next -> acc
          [] i >= acc.next /\ i + SegmentWidth - 1 <= Len(idx) /\ w \in macros ->
               [out |-> acc.out \o (IF acc.buf = <<>> THEN <<w>> ELSE <<acc.buf, w>>), buf |-> <<>>, next |-> i + SegmentWidth]
          [] OTHER -> LET b == Append(acc.buf, idx[i])
                      IN IF Len(b) = SegmentWidth THEN [out |-> Append(acc.out, b), buf |-> <<>>, next |-> i + 1]
                         ELSE [acc EXCEPT !.buf = b, !.next = i + 1]
      all == For([out |-> <<>>, buf |-> <<>>, next |-> 1], 1, Len(idx), take)
  IN IF all.buf = <<>> THEN all.out ELSE Append(all.out, all.buf)

\* Mutant of segment_layer: the segments are sorted and the tokens are not renumbered.
segment_layer_Tokens(layer) ==
  LET idx == Indices(layer)
      runs == Runs(idx, Macros(idx))
      distinct == ForEach(<<>>, runs, LAMBDA acc, r : IF r \in ToSet(acc) THEN acc ELSE Append(acc, r))
      deltas == ByFrequency(Len(layer.deltas), LAMBDA d : Count(idx, d))
      segs == ByFrequency(Len(distinct), LAMBDA s : Count(runs, distinct[s + 1]))
      renumber(r) == [i \in DOMAIN r |-> NewIndex(deltas, r[i])]
  IN IF idx = <<>> THEN [layer EXCEPT !.deltas = <<>>, !.segments = <<>>, !.tokens = <<>>]
     ELSE [layer EXCEPT !.deltas = [i \in DOMAIN deltas |-> layer.deltas[deltas[i] + 1]],
                        !.segments = [i \in DOMAIN segs |-> renumber(distinct[segs[i] + 1])],
                        !.tokens = [i \in DOMAIN runs |-> SelectInSeq(distinct, LAMBDA r : r = runs[i]) - 1]]

segment_layer(layer) ==
  LET idx == Indices(layer)
      runs == Runs(idx, Macros(idx))
      distinct == ForEach(<<>>, runs, LAMBDA acc, r : IF r \in ToSet(acc) THEN acc ELSE Append(acc, r))
      deltas == ByFrequency(Len(layer.deltas), LAMBDA d : Count(idx, d))
      segs == ByFrequency(Len(distinct), LAMBDA s : Count(runs, distinct[s + 1]))
      renumber(r) == [i \in DOMAIN r |-> NewIndex(deltas, r[i])]
      token(r) == NewIndex(segs, SelectInSeq(distinct, LAMBDA s : s = r) - 1)
  IN IF idx = <<>> THEN [layer EXCEPT !.deltas = <<>>, !.segments = <<>>, !.tokens = <<>>]
     ELSE [layer EXCEPT !.deltas = [i \in DOMAIN deltas |-> layer.deltas[deltas[i] + 1]],
                        !.segments = [i \in DOMAIN segs |-> renumber(distinct[segs[i] + 1])],
                        !.tokens = [i \in DOMAIN runs |-> token(runs[i])]]

segment_circuit(raw) ==
  LET layers == [l \in DOMAIN raw.layers |-> segment_layer(raw.layers[l])]
      used == FlattenSeq([l \in DOMAIN layers |-> [i \in DOMAIN Deltas(layers[l]) |-> Deltas(layers[l])[i].k]])
      order == ByFrequency(Len(raw.constants), LAMBDA k : Count(used, k))
  IN [raw EXCEPT !.constants = [i \in DOMAIN order |-> @[order[i] + 1]],
                 !.layers = [l \in DOMAIN layers |->
                    [layers[l] EXCEPT !.deltas = [i \in DOMAIN @ |-> [@[i] EXCEPT !.k = NewIndex(order, @)]]]]]

-----------------------------------------------------------------------------
(***************************************************************************)
(* Evaluation of a compiled circuit.                                       *)
(***************************************************************************)
\* The values of a layer, and the wires whose assertion failed.
eval_layer(ts, noutput, vin) ==
  LET value(t) == Mul(vin[t.h0], vin[t.h1])
  IN [v |-> [g \in 0 .. noutput - 1 |->
              SumOver(1, Len(ts), LAMBDA i : IF ts[i].g = g THEN ts[i].k * value(ts[i]) ELSE 0) % q],
      failed |-> {t.g : t \in {u \in ToSet(ts) : u.k = 0 /\ value(u) # 0}}]

\* fates: the names of assertions by what the evaluation says of them.  A name
\* told twice keeps what was said last.
eval_circuit(c, inputs) ==
  LET raw == c.raw
      n == Len(raw.layers)
      named(l, i) == UNION {sym.id : sym \in {s \in c.symbols : s.layer = l /\ s.index = i}}
      layer(acc, j) ==
        LET l == n - j
            r == eval_layer(terms(raw.layers[l + 1], raw.constants),
                            IF l = 0 THEN raw.noutput ELSE raw.layers[l].nw, acc.v)
        IN [v |-> r.v, failed |-> acc.failed \/ r.failed # {},
            says |-> acc.says \cup UNION {named(l, i) : i \in r.failed}]
      run == For([v |-> inputs, failed |-> FALSE, says |-> {}], 1, n, layer)
      zero == {i \in DOMAIN run.v : run.v[i] = 0}
      nonzero == DOMAIN run.v \ zero
  IN [ok |-> ~run.failed /\ nonzero = {},
      failed |-> (run.says \ UNION {named(0, i) : i \in zero}) \cup UNION {named(0, i) : i \in nonzero}]

-----------------------------------------------------------------------------
(***************************************************************************)
(* What a compiled circuit is checked for.                                 *)
(***************************************************************************)
\* The value of every node of an arena on inputs.
Values(nodes, inputs) ==
  LET v[x \in DOMAIN nodes] ==
        LET n == nodes[x] IN
        CASE n.op = "input" -> inputs[n.p]
          [] n.op = "one" -> 1
          [] n.op = "const" -> n.e
          [] n.op = "linear" -> Mul(n.e, v[n.x])
          [] n.op = "quad" -> Mul(n.e, Mul(v[n.x], v[n.y]))
          [] n.op = "with" -> v[n.x]
          [] n.op = "sum" -> SumOver(1, Len(n.l), LAMBDA i : v[n.l[i]]) % q
  IN v

\* The assertions of a built program: its own and those attached to what they use.
BuiltAssertions(built) ==
  ToSet(built.v) \cup UNION {ToSet(built.nodes[x].a) :
    x \in {y \in Reachable(built.nodes, {item.expr : item \in ToSet(built.v)}) : Is(built, y, "with")}}
FailedItems(built, inputs) ==
  LET v == Values(built.nodes, inputs) IN {item \in BuiltAssertions(built) : v[item.expr] # 0}

\* Why a program may be refused: an assertion that cannot hold, one that cannot
\* fail but is seen so too late, or an input without use.
Refusals == {"assertion failure", "the constant zero", "no depth", "some inputs are unused"}

WithOneInput(inputs) == [i \in 0 .. Len(inputs) |-> IF i = 0 THEN 1 ELSE inputs[i]]

CompiledFor(prog, ninputs) ==
  LET built == BuildProgram(prog, ninputs)
      quad == ToQuad(prog, ninputs)
      c1 == compile(1, quad, 1, 0)
      c2 == compile(2, quad, 1, 0)
  IN /\ c1.why = c2.why
     /\ c1.why \in {""} \cup Refusals
     /\ c1.why = "" =>
          \A inputs \in [1 .. ninputs -> 0 .. q - 1] :
            LET wires == WithOneInput(inputs)
                ran == EvalProgram(prog, inputs)
                failed == FailedItems(built, inputs)
                r1 == eval_circuit(c1, wires)
                r2 == eval_circuit(c2, wires)
            IN /\ r1.ok = (failed = {})
               /\ r1.ok = r2.ok
               /\ ran = {} => r1.ok
               /\ r1.ok => \A x \in ran : x <= Len(prog.steps)
               /\ r1.failed \subseteq UNION {item.id : item \in failed}

\* Neither compression nor the order of the assertions changes what is proved.
CanonicalFor(prog, ninputs) ==
  LET quad == ToQuad(prog, ninputs)
      back == ToQuad([prog EXCEPT !.asserts = Reverse(@)], ninputs)
  IN \A version \in {1, 2} :
       LET c == compile(version, quad, 1, 0)
           d == compile(version, back, 1, 0)
           s == segment_circuit(c.raw)
       IN c.why = "" =>
            /\ d.why = "" /\ d.id = c.id
            /\ \A l \in DOMAIN s.layers : \A t \in ToSet(s.layers[l].tokens) : t < Len(s.layers[l].segments)
            /\ compute_id(s) = c.id
=============================================================================
