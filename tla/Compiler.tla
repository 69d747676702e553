------------------------------ MODULE Compiler ------------------------------
(***************************************************************************)
(* From expressions to expressions (compile/compiler): the builder of a    *)
(* circuit, common subexpressions, algebraic simplification, collection of *)
(* the assertions attached to wires, and copies that make every product    *)
(* one of two wires of the same depth.  Module Scheduler goes on from the  *)
(* quadratic form.                                                         *)
(*                                                                         *)
(* An arena is the sequence of its nodes and a node is named by its place, *)
(* as the code's identifiers are.  A step takes an arena s and gives one,  *)
(* with the node it made in s.v; s.why says why the compiler stopped.      *)
(* The code's walk goes from the roots down, this one from the first node  *)
(* up: only the numbering of the new nodes depends on it.                  *)
(***************************************************************************)
EXTENDS CircuitFile, Integers, Sequences, FiniteSets, SequencesExt, Loops

Add(x, y) == (x + y) % q
Mul(x, y) == (x * y) % q
Neg(x) == (q - x) % q

NewArena == [nodes |-> <<>>, v |-> 0, why |-> ""]
Panic(s, why) == [s EXCEPT !.why = why]
Then(s, f(_)) == IF s.why # "" THEN s ELSE f(s)
Is(s, x, op) == s.nodes[x].op = op
Node(s) == s.nodes[s.v]

\* The nodes made for the members of a sequence, one after the other, in v.
Each(s, seq, f(_, _)) ==
  ForEach([s EXCEPT !.v = <<>>], seq,
          LAMBDA acc, x : Then(acc, LAMBDA a : LET r == f(a, x) IN [r EXCEPT !.v = Append(a.v, r.v)]))

-----------------------------------------------------------------------------
(***************************************************************************)
(* Common subexpressions: one node for one expression.                     *)
(***************************************************************************)
memo_expr(s, e) ==
  LET at == SelectInSeq(s.nodes, LAMBDA n : n = e) IN
  IF at # 0 THEN [s EXCEPT !.v = at]
  ELSE [s EXCEPT !.nodes = Append(@, e), !.v = Len(s.nodes) + 1]

ById(l) == SortSeq(l, <)
Input(s, p) == memo_expr(s, [op |-> "input", p |-> p])
One(s) == memo_expr(s, [op |-> "one"])
Constant(s, e) == memo_expr(s, [op |-> "const", e |-> e])
Sum(s, l, precious) == memo_expr(s, [op |-> "sum", l |-> ById(l), precious |-> precious])
Linear(s, e, x) == memo_expr(s, [op |-> "linear", e |-> e, x |-> x])
Quadratic(s, e, x, y) ==
  memo_expr(s, [op |-> "quad", e |-> e, x |-> IF x < y THEN x ELSE y, y |-> IF x < y THEN y ELSE x])

\* depth_expr and depth_term, of a node of an arena.
Depths(nodes) ==
  LET d[i \in DOMAIN nodes] ==
        LET n == nodes[i]
            term(x) == IF nodes[x].op \in {"input", "one", "const"} THEN 1 ELSE d[x]
        IN CASE n.op \in {"input", "one", "const"} -> 0
             [] n.op = "linear" -> 1 + d[n.x]
             [] n.op = "quad" -> 1 + Max({d[n.x], d[n.y]})
             [] n.op = "with" -> Max({d[n.x]} \cup {d[item.expr] : item \in ToSet(n.a)})
             [] n.op = "sum" -> Max({0} \cup {term(x) : x \in ToSet(n.l)})
  IN d

-----------------------------------------------------------------------------
(***************************************************************************)
(* Algebraic simplification.                                               *)
(***************************************************************************)
flatten_sum(s, l) ==
  LET ordinary == {s.nodes[x].l : x \in {y \in ToSet(l) : Is(s, y, "sum") /\ ~s.nodes[y].precious}}
  IN Concat(1, Len(l), LAMBDA i :
       IF Is(s, l[i], "sum") /\ s.nodes[l[i]].l \in ordinary THEN s.nodes[l[i]].l ELSE <<l[i]>>)

low_degree(s, x) == ~Is(s, x, "quad") /\ ~(Is(s, x, "sum") /\ s.nodes[x].precious)

\* A term as a product of two nodes and a factor, the first node before the second.
unquadratic(s, x, one) ==
  LET n == s.nodes[x]
      canonical(e, a, b) == IF a < b THEN <<a, b, e>> ELSE <<b, a, e>>
  IN CASE n.op = "quad" -> canonical(n.e, n.x, n.y)
       [] n.op = "linear" -> canonical(n.e, one, n.x)
       [] n.op = "const" -> <<one, one, n.e>>
       [] OTHER -> canonical(1, one, x)

\* Products of the same nodes become one.
Coalesce(triples) ==
  LET pairs == {<<t[1], t[2]>> : t \in ToSet(triples)}
      less(a, b) == a[1] < b[1] \/ (a[1] = b[1] /\ a[2] < b[2])
      total(p) == SumOver(1, Len(triples), LAMBDA i :
                    IF <<triples[i][1], triples[i][2]>> = p THEN triples[i][3] ELSE 0) % q
      order == InOrder(pairs, less)
  IN [i \in DOMAIN order |-> <<order[i][1], order[i][2], total(order[i])>>]

RECURSIVE alg_linear0(_, _, _), alg_linear(_, _, _), alg_sum(_, _, _), alg_quadratic(_, _, _, _),
          alg_assert0(_, _)

alg_linear0(s, e, x) ==
  LET n == s.nodes[x] IN
  CASE e = 0 -> Constant(s, 0)
    [] e = 1 -> [s EXCEPT !.v = x]
    [] n.op = "const" -> Constant(s, Mul(e, n.e))
    [] n.op = "linear" -> alg_linear0(s, Mul(e, n.e), n.x)
    [] n.op = "quad" -> Quadratic(s, Mul(e, n.e), n.x, n.y)
    [] OTHER -> Linear(s, e, x)

alg_linear(s, e, x) ==
  LET n == s.nodes[x] IN
  IF n.op = "sum" /\ ~n.precious
  THEN Then(Each(s, n.l, LAMBDA a, y : alg_linear0(a, e, y)), LAMBDA a : alg_sum(a, a.v, FALSE))
  ELSE alg_linear0(s, e, x)

alg_sum(s, l, precious) ==
  LET one == Constant(s, 1)
      triples == [i \in DOMAIN flatten_sum(one, l) |-> unquadratic(one, flatten_sum(one, l)[i], one.v)]
      made == Each(one, Coalesce(triples), LAMBDA a, t : alg_quadratic(a, t[3], t[1], t[2]))
      finish(a) ==
        LET nonconst == SelectSeq(a.v, LAMBDA x : ~Is(a, x, "const"))
            const == SelectSeq(a.v, LAMBDA x : Is(a, x, "const"))
            c == SumOver(1, Len(const), LAMBDA i : a.nodes[const[i]].e) % q
            b == Constant(a, c)
            list == IF c = 0 THEN nonconst ELSE Append(nonconst, b.v)
        IN CASE list = <<>> -> b
             [] Len(list) = 1 -> [b EXCEPT !.v = list[1]]
             [] OTHER -> Sum(b, list, precious)
  IN Then(made, finish)

alg_quadratic(s, e, x, y) ==
  LET n == s.nodes[x]
      m == s.nodes[y]
      spread(k) == k.op = "sum" /\ ~k.precious /\ \A z \in ToSet(k.l) : low_degree(s, z)
      over(l, z) == Then(Each(s, l, LAMBDA a, t : alg_quadratic(a, e, t, z)), LAMBDA a : alg_sum(a, a.v, FALSE))
  IN CASE e = 0 -> Constant(s, 0)
       [] n.op = "const" -> alg_linear(s, Mul(e, n.e), y)
       [] m.op = "const" -> alg_linear(s, Mul(e, m.e), x)
       [] n.op = "linear" -> alg_quadratic(s, Mul(e, n.e), n.x, y)
       [] m.op = "linear" -> alg_quadratic(s, Mul(e, m.e), m.x, x)
       [] n.op = "sum" /\ m.op = "sum" -> Quadratic(s, e, x, y)
       [] spread(m) -> over(m.l, x)
       [] spread(n) -> over(n.l, y)
       [] OTHER -> Quadratic(s, e, x, y)

\* What is left to assert of x = 0: v is the sequence of nodes.
alg_assert0(s, x) ==
  LET n == s.nodes[x] IN
  CASE n.op = "const" -> IF n.e = 0 THEN [s EXCEPT !.v = <<>>] ELSE Panic(s, "assertion failure")
    [] n.op = "linear" -> alg_assert0(s, n.x)
    [] OTHER -> [s EXCEPT !.v = <<x>>]

-----------------------------------------------------------------------------
(***************************************************************************)
(* Walks.  A rewriter is what to do with a node whose children have been   *)
(* rewritten, and with an assertion attached to it.                        *)
(***************************************************************************)
Children(n) ==
  CASE n.op = "sum" -> ToSet(n.l)
    [] n.op = "linear" -> {n.x}
    [] n.op = "quad" -> {n.x, n.y}
    [] n.op = "with" -> {n.x} \cup {item.expr : item \in ToSet(n.a)}
    [] OTHER -> {}

Reachable(nodes, roots) ==
  For(roots, 1, Len(nodes), LAMBDA acc, i :
    LET x == Len(nodes) + 1 - i IN IF x \in acc THEN acc \cup Children(nodes[x]) ELSE acc)

\* dedup_assertions.  The tracker joins the names of assertions of the same node:
\* an item has the set of names that were joined.
Distinct(items) ==
  ForEach(<<>>, items, LAMBDA acc, item :
    LET at == SelectInSeq(acc, LAMBDA other : other.expr = item.expr)
    IN IF at = 0 THEN Append(acc, item) ELSE [acc EXCEPT ![at].id = @ \cup item.id])

\* Within one attachment a walk keeps the first item of a node.
FirstOfEach(items) ==
  ForEach(<<>>, items, LAMBDA acc, item :
    IF \E other \in ToSet(acc) : other.expr = item.expr THEN acc ELSE Append(acc, item))

\* A node with its children replaced by what the walk made of them.
Moved(n, map) ==
  CASE n.op = "sum" -> [n EXCEPT !.l = [i \in DOMAIN @ |-> map[@[i]]]]
    [] n.op = "linear" -> [n EXCEPT !.x = map[@]]
    [] n.op = "quad" -> [n EXCEPT !.x = map[@], !.y = map[@]]
    [] OTHER -> n

walk(src, s0, items, rewrite(_, _), assert0(_, _)) ==
  LET live == Reachable(src, {item.expr : item \in ToSet(items)})
      attached(s, n, map) ==
        Each(s, n.a, LAMBDA a, item :
          LET r == assert0(a, map[item.expr])
          IN IF r.why # "" THEN r ELSE [r EXCEPT !.v = [i \in DOMAIN @ |-> [expr |-> @[i], id |-> item.id]]])
      visit(acc, i) ==
        LET n == src[i]
            with == attached(acc.s, n, acc.map)
            r == IF n.op = "with"
                 THEN Then(with, LAMBDA a : rewrite(a, [op |-> "with", a |-> FirstOfEach(FlattenSeq(a.v)), x |-> acc.map[n.x]]))
                 ELSE rewrite(acc.s, Moved(n, acc.map))
        IN IF i \notin live \/ acc.s.why # "" THEN acc
           ELSE [s |-> r, map |-> [acc.map EXCEPT ![i] = IF r.why = "" THEN r.v ELSE 0]]
      all == For([s |-> s0, map |-> [i \in DOMAIN src |-> 0]], 1, Len(src), visit)
  IN [all.s EXCEPT !.v = [i \in DOMAIN items |-> [expr |-> all.map[items[i].expr], id |-> items[i].id]]]

keep0(s, x) == [s EXCEPT !.v = <<x>>]

CseRewrite(s, n) ==
  CASE n.op = "sum" -> Sum(s, n.l, n.precious)
    [] n.op = "quad" -> Quadratic(s, n.e, n.x, n.y)
    [] OTHER -> memo_expr(s, n)

AlgebraicRewrite(s, n) ==
  CASE n.op = "sum" -> alg_sum(s, n.l, n.precious)
    [] n.op = "linear" -> alg_linear(s, n.e, n.x)
    [] n.op = "quad" -> alg_quadratic(s, n.e, n.x, n.y)
    [] n.op = "one" -> Constant(s, 1)
    [] n.op = "with" /\ n.a = <<>> -> [s EXCEPT !.v = n.x]
    [] OTHER -> memo_expr(s, n)

-----------------------------------------------------------------------------
(***************************************************************************)
(* Assertions.  What was attached to wires joins the assertions.           *)
(***************************************************************************)
\* Mutant of StripRewrite: what is attached is dropped.
StripRewrite_Dropped(s, n) == IF n.op = "with" THEN [s EXCEPT !.v = n.x] ELSE CseRewrite(s, n)

StripRewrite(s, n) ==
  IF n.op = "with" THEN [s EXCEPT !.v = n.x, !.collected = @ \o n.a] ELSE CseRewrite(s, n)

RECURSIVE StripAgain(_, _)
StripAgain(s, items) ==
  LET t == walk(s.nodes, [s EXCEPT !.collected = <<>>], Distinct(items), StripRewrite, keep0)
  IN IF t.collected = <<>> THEN [t EXCEPT !.v = Distinct(t.v)] ELSE StripAgain(t, t.v \o t.collected)

strip_all(src, items) ==
  LET s0 == [nodes |-> <<>>, v |-> 0, why |-> "", collected |-> <<>>]
      t == walk(src, s0, items, StripRewrite, keep0)
  IN IF t.collected = <<>> THEN [t EXCEPT !.v = Distinct(t.v)] ELSE StripAgain(t, t.v \o t.collected)

\* assertion::rewrite.  Simplifying goes on in the arena of the stripped nodes
\* with a fresh table, which is a fresh arena here.
rewrite_assertions(src, items) ==
  LET stripped == strip_all(src, items)
      t == walk(stripped.nodes, NewArena, stripped.v, AlgebraicRewrite, alg_assert0)
  IN [t EXCEPT !.v = Distinct(@)]

-----------------------------------------------------------------------------
(***************************************************************************)
(* Copies.  Constants and linear terms become products with the constant   *)
(* one, and a wire used further down is multiplied by one on the way.      *)
(***************************************************************************)
DepthOf(s, x) == Depths(s.nodes)[x]
TermDepth(s, x) == IF s.nodes[x].op \in {"input", "one"} THEN 1 ELSE DepthOf(s, x)

ground_quadratic(s, e, x, y) ==
  IF DepthOf(s, x) = DepthOf(s, y) THEN Quadratic(s, e, x, y) ELSE Panic(s, "depths differ")

RECURSIVE one_at_depth(_, _), lift(_, _, _), sum_no_nested_sums(_, _), copy_quadratic(_, _, _, _)

one_at_depth(s, d) ==
  IF d = 0 THEN One(s) ELSE LET o == one_at_depth(s, d - 1) IN ground_quadratic(o, 1, o.v, o.v)

\* A wire one layer later.  The factor of a product moves to the copy.
copy(s, x) ==
  LET n == s.nodes[x]
      one == one_at_depth(s, DepthOf(s, x))
      sub == ground_quadratic(one, 1, n.x, n.y)
  IN CASE n.op = "quad" -> ground_quadratic(sub, n.e, one.v, sub.v)
       [] n.op \in {"linear", "const"} -> Panic(s, "copy of a constant or linear term")
       [] OTHER -> ground_quadratic(one, 1, one.v, x)

lift(s, d, x) ==
  IF s.nodes[x].op \notin {"input", "one", "quad"} THEN Panic(s, "depth of a nested sum")
  ELSE IF TermDepth(s, x) > d THEN Panic(s, "lifted too far")
  ELSE IF TermDepth(s, x) = d THEN [s EXCEPT !.v = x]
  ELSE Then(copy(s, x), LAMBDA a : lift(a, d, a.v))

\* The deepest terms stay; the others become one sum, lifted to them.
sum_no_nested_sums(s, l) ==
  LET d == Max({TermDepth(s, x) : x \in ToSet(l)})
      yes == SelectSeq(l, LAMBDA x : TermDepth(s, x) = d)
      no == SelectSeq(l, LAMBDA x : TermDepth(s, x) # d)
      deep(a) == Then(copy(a, a.v), LAMBDA b : lift(b, d, b.v))
  IN CASE l = <<>> -> Panic(s, "empty sum")
       [] Len(l) = 1 -> [s EXCEPT !.v = l[1]]
       [] Len(l) > 1 /\ no = <<>> -> Sum(s, yes, FALSE)
       [] OTHER -> Then(Then(sum_no_nested_sums(s, no), deep),
                        LAMBDA a : sum_no_nested_sums(a, Append(yes, a.v)))

copy_quadratic(s, e, x, y) ==
  IF DepthOf(s, x) < DepthOf(s, y)
  THEN Then(copy(s, x), LAMBDA a : copy_quadratic(a, e, a.v, y))
  ELSE IF DepthOf(s, x) > DepthOf(s, y)
  THEN Then(copy(s, y), LAMBDA a : copy_quadratic(a, e, a.v, x))
  ELSE ground_quadratic(s, e, x, y)

WithOne(s, e, x) == LET one == One(s) IN copy_quadratic(one, e, one.v, IF x = 0 THEN one.v ELSE x)

copy_sum(s, l) ==
  Then(Each(s, l, LAMBDA a, x : IF Is(a, x, "sum") THEN WithOne(a, 1, x) ELSE [a EXCEPT !.v = x]),
       LAMBDA a : sum_no_nested_sums(a, a.v))

CopyRewrite(s, n) ==
  CASE n.op = "sum" -> copy_sum(s, n.l)
    [] n.op = "const" -> IF n.e = 1 THEN One(s)
                         ELSE IF n.e = 0 THEN Panic(s, "the constant zero") ELSE WithOne(s, n.e, 0)
    [] n.op = "linear" -> WithOne(s, n.e, n.x)
    [] n.op = "quad" -> copy_quadratic(s, n.e, n.x, n.y)
    [] n.op = "with" -> Panic(s, "unexpected assertion")
    [] OTHER -> memo_expr(s, n)

rewrite_copies(src, items) == walk(src, NewArena, items, CopyRewrite, keep0)

-----------------------------------------------------------------------------
(***************************************************************************)
(* The builder.  A program is a sequence of operations, each of which adds *)
(* a wire; the first wires are the inputs.  EvalLogic runs it on values,   *)
(* CompilerLogic on nodes; both number assertions as they meet them.       *)
(***************************************************************************)
\* promote_sum_to_precious
precious(s, x) ==
  LET inner[i \in 0 .. Len(s.nodes)] == \* the node below i attachments
        IF i = 0 THEN x ELSE IF Is(s, inner[i - 1], "with") THEN s.nodes[inner[i - 1]].x ELSE inner[i - 1]
      depth == CHOOSE i \in 0 .. Len(s.nodes) : ~Is(s, inner[i], "with") /\ \A j \in 0 .. i - 1 : Is(s, inner[j], "with")
      n == s.nodes[inner[depth]]
  IN IF n.op # "sum" THEN [s EXCEPT !.v = x]
     ELSE For(alg_sum(s, n.l, TRUE), 1, depth, LAMBDA acc, i :
            AlgebraicRewrite(acc, [op |-> "with", a |-> s.nodes[inner[depth - i]].a, x |-> acc.v]))

\* assert0 of CompilerLogic: items of one assertion.
LogicAssert0(s, x, id) ==
  LET r == alg_assert0(s, x)
  IN IF r.why # "" THEN r ELSE [r EXCEPT !.v = [i \in DOMAIN @ |-> [expr |-> @[i], id |-> {id}]]]

sub(s, x, y) == Then(alg_linear(s, Neg(1), y), LAMBDA a : alg_sum(a, <<x, a.v>>, FALSE))

\* slicing: the witness, with the assertion that it is what was computed.
slicing(s, w, c, id) ==
  Then(Then(sub(s, w, c), LAMBDA a : LogicAssert0(a, a.v, id)),
       LAMBDA a : AlgebraicRewrite(a, [op |-> "with", a |-> a.v, x |-> w]))

\* An operation of CompilerLogic: step i of a program on the wires ws.
LogicStep(s, ws, op, i) ==
  CASE op[1] = "add" -> alg_sum(s, <<ws[op[2]], ws[op[3]]>>, FALSE)
    [] op[1] = "sub" -> sub(s, ws[op[2]], ws[op[3]])
    [] op[1] = "mul" -> alg_quadratic(s, 1, ws[op[2]], ws[op[3]])
    [] op[1] = "mulk" -> alg_linear(s, op[2], ws[op[3]])
    [] op[1] = "konst" -> Constant(s, op[2])
    [] op[1] = "precious" -> precious(s, ws[op[2]])
    [] op[1] = "slice" -> slicing(s, ws[op[2]], ws[op[3]], i)

\* An operation of EvalLogic: a wire is a value and the failed assertions it carries.
EvalStep(ws, op, i) ==
  LET val(x) == ws[x].value
      both(v) == [value |-> v, failed |-> ws[op[2]].failed \cup ws[op[3]].failed]
  IN CASE op[1] = "add" -> both(Add(val(op[2]), val(op[3])))
       [] op[1] = "sub" -> both(Add(val(op[2]), Neg(val(op[3]))))
       [] op[1] = "mul" -> both(Mul(val(op[2]), val(op[3])))
       [] op[1] = "mulk" -> [ws[op[3]] EXCEPT !.value = Mul(op[2], @)]
       [] op[1] = "konst" -> [value |-> op[2], failed |-> {}]
       [] op[1] = "precious" -> ws[op[2]]
       [] op[1] = "slice" -> [both(val(op[2])) EXCEPT !.failed = @ \cup (IF val(op[2]) = val(op[3]) THEN {} ELSE {i})]

\* The wires of a program on inputs, and the numbers of its failed assertions:
\* those asserted at the end have numbers past the steps.
EvalProgram(prog, inputs) ==
  LET ws == For([i \in DOMAIN inputs |-> [value |-> inputs[i], failed |-> {}]], 1, Len(prog.steps),
                LAMBDA acc, i : Append(acc, EvalStep(acc, prog.steps[i], i)))
  IN UNION {ws[prog.asserts[i]].failed \cup (IF ws[prog.asserts[i]].value = 0 THEN {} ELSE {Len(prog.steps) + i}) :
              i \in DOMAIN prog.asserts}

BuildProgram(prog, ninputs) ==
  LET in == Each(NewArena, [i \in 1 .. ninputs |-> i], Input)
      run == For([s |-> in, ws |-> in.v], 1, Len(prog.steps), LAMBDA acc, i :
               IF acc.s.why # "" THEN acc
               ELSE LET r == LogicStep(acc.s, acc.ws, prog.steps[i], i)
                    IN [s |-> r, ws |-> Append(acc.ws, r.v)])
      asserted == Each(run.s, [i \in DOMAIN prog.asserts |-> i], LAMBDA a, i :
                    LogicAssert0(a, run.ws[prog.asserts[i]], Len(prog.steps) + i))
  IN IF run.s.why # "" THEN run.s
     ELSE Then(asserted, LAMBDA a : [a EXCEPT !.v = FlattenSeq(a.v)])

-----------------------------------------------------------------------------
(***************************************************************************)
(* The names of assertions (compile/logic/src/scope.rs): a forest of       *)
(* assertions that turned out to be one, with the members of every tree    *)
(* and the path of every assertion.  Identifiers count from 1; 0 is nil.   *)
(***************************************************************************)
NIL == 0
NewScope == [parent |-> <<>>, path |-> <<>>, members |-> <<>>]
Known(st, id) == id \in DOMAIN st.parent

\* The root of an identifier, and the forest after its path was compressed.
Root(st, id) ==
  LET up[n \in 0 .. Len(st.parent)] == IF n = 0 THEN id ELSE st.parent[up[n - 1]]
  IN up[Len(st.parent)]
find_rep(st, id) ==
  IF ~Known(st, id) THEN [st |-> st, rep |-> NIL]
  ELSE LET up[n \in 0 .. Len(st.parent)] == IF n = 0 THEN id ELSE st.parent[up[n - 1]]
       IN [st |-> [st EXCEPT !.parent = [i \in DOMAIN @ |-> IF i \in {up[n] : n \in DOMAIN up} THEN Root(st, id) ELSE @[i]]],
           rep |-> Root(st, id)]

\* new_leaf, with the path of its name alone.
new_leaf(st, name) ==
  LET id == Len(st.parent) + 1
  IN [parent |-> Append(st.parent, id), path |-> Append(st.path, <<name>>), members |-> Append(st.members, <<id>>)]

prepend_scope(st, id, name) ==
  LET r == find_rep(st, id) IN
  IF r.rep = NIL THEN st
  ELSE [r.st EXCEPT !.path = [i \in DOMAIN @ |-> IF i \in ToSet(r.st.members[r.rep]) THEN <<name>> \o @[i] ELSE @[i]]]

\* Mutant of union: the identifiers are linked, not their representatives.
union_Linked(st, id1, id2) ==
  LET r1 == find_rep(st, id1)
      r2 == find_rep(r1.st, id2)
  IN IF r1.rep = NIL \/ r2.rep = NIL \/ r1.rep = r2.rep THEN r2.st
     ELSE [r2.st EXCEPT !.parent[id2] = r1.rep,
                        !.members[r1.rep] = @ \o r2.st.members[r2.rep], !.members[r2.rep] = <<>>]

\* The tree of id2 is hung below the one of id1, and its members go along.
union(st, id1, id2) ==
  LET r1 == find_rep(st, id1)
      r2 == find_rep(r1.st, id2)
  IN IF r1.rep = NIL \/ r2.rep = NIL \/ r1.rep = r2.rep THEN r2.st
     ELSE [r2.st EXCEPT !.parent[r2.rep] = r1.rep,
                        !.members[r1.rep] = @ \o r2.st.members[r2.rep], !.members[r2.rep] = <<>>]

path_matches(path, prefix) == IsPrefix(prefix, path)

\* query_fates: the paths below a prefix with a fate, one group at a time; a
\* group has failed when one of its members has.  fates maps ids to pass or fail.
query_fates(st, prefix, fates) ==
  LET ids == InOrder({id \in DOMAIN fates : Known(st, id)}, <)
      reps == ForEach(<<>>, ids, LAMBDA acc, id :
                IF Root(st, id) \in ToSet(acc) THEN acc ELSE Append(acc, Root(st, id)))
      fate(rep) == IF \E id \in ToSet(ids) : Root(st, id) = rep /\ fates[id] = "fail" THEN "fail" ELSE "pass"
      group(rep) == SelectSeq([i \in DOMAIN st.members[rep] |-> <<st.path[st.members[rep][i]], fate(rep)>>],
                              LAMBDA f : path_matches(f[1], prefix))
  IN Concat(1, Len(reps), LAMBDA i : group(reps[i]))

-----------------------------------------------------------------------------
(***************************************************************************)
(* What it is checked for, after a sequence of operations.                 *)
(***************************************************************************)
Do(st, op) ==
  CASE op[1] = "leaf" -> new_leaf(st, op[2])
    [] op[1] = "scope" -> prepend_scope(st, op[2], op[3])
    [] op[1] = "join" -> union(st, op[2], op[3])
After(ops) == ForEach(NewScope, ops, Do)

\* The assertions an assertion was joined with, directly or not.
Joined(ops, id) ==
  LET pairs == {<<op[2], op[3]>> : op \in {o \in ToSet(ops) : o[1] = "join"}}
      grow(S) == S \cup {p[1] : p \in {r \in pairs : r[2] \in S}} \cup {p[2] : p \in {r \in pairs : r[1] \in S}}
  IN For({id}, 1, Len(ops), LAMBDA S, i : grow(S))

ScopesFaithfulFor(ops, fates) ==
  LET st == After(ops)
      ids == DOMAIN st.parent
      told == query_fates(st, <<>>, fates)
      failed(id) == \E j \in Joined(ops, id) \cap DOMAIN fates : fates[j] = "fail"
      heard == {id \in ids : Joined(ops, id) \cap DOMAIN fates # {}}
      prepended(i) == \* the names given to the group of i as it was then
        LET n == Len(ops)
            mine == SelectSeq([k \in 1 .. n |-> k], LAMBDA k :
                      ops[k][1] = "scope" /\ ops[k][2] \in Joined(SubSeq(ops, 1, k), i))
        IN Reverse([k \in DOMAIN mine |-> ops[mine[k]][3]])
  IN /\ \A i, j \in ids : (Root(st, i) = Root(st, j)) = (j \in Joined(ops, i))
     /\ \A i \in ids : ToSet(st.members[Root(st, i)]) = Joined(ops, i)
     /\ \A i \in ids : SubSeq(st.path[i], 1, Len(st.path[i]) - 1) = prepended(i)
     /\ Len(told) = Cardinality(heard)
     /\ ToSet(told) = {<<st.path[i], IF failed(i) THEN "fail" ELSE "pass">> : i \in heard}
=============================================================================
