--------------------------- MODULE MCMdocSession ---------------------------
(***************************************************************************)
(* Sessions for module MdocSession: a request for one attribute and the    *)
(* document that answers it, with one or both sides changed in one place   *)
(* and the document changed in one place.                                  *)
(***************************************************************************)
EXTENDS MdocSession

\* Text of more than 23 bytes has a header of two.
Value(head, tail, len) ==
  [head |-> head, tail |-> tail, len |-> len, kind |-> "text", header |-> IF len > 1 THEN 2 ELSE 0]
Attr(ns, id, value) == [ns |-> ns, id |-> id, idlen |-> 12, value |-> value]
Yes == Value("yes", "", 1)

Base(g) ==
  LET version == IF g = 1 THEN 7 ELSE 8
      spec == [version |-> version, num_attributes |-> 1, hash |-> <<version, 1>>]
  IN [spec |-> spec,
      file |-> [framing |-> "lfa2", trailing |-> FALSE, id |-> spec.hash, version |-> version,
                layout |-> version, entries |-> {"sig", "hash"}, ids_match |-> TRUE, nattr |-> 1, genuine |-> TRUE],
      via |-> "provider", key |-> "K", transcript |-> "t1",
      attrs |-> <<Attr("ns", "age", Yes)>>,
      now |-> [t |-> 5, len |-> 20], doc_type |-> <<"m", "d">>]

\* Another specification, with the circuits of it.
Respec(r, version, n) ==
  [r EXCEPT !.spec = [version |-> version, num_attributes |-> n, hash |-> <<version, n>>],
            !.file.id = <<version, n>>, !.file.version = version,
            !.file.layout = version, !.file.nattr = n]

Two(a) == <<a, Attr("ns", "name", Yes)>>

Variants(r) ==
  {[r EXCEPT !.attrs[1].value = v] :
      v \in {Value("no", "", 1), Value("yes", "x", 70), Value("yes", "y", 70),
             Value("yes", "", 64), [Yes EXCEPT !.kind = "other"],
             [Value("cut", "", 1) EXCEPT !.kind = "other", !.header = 2]}}
  \cup {[r EXCEPT !.attrs[1] = a] :
          a \in {Attr("ns2", "age", Yes), Attr("ns", "none", Yes),
                 [Attr("ns", "age", Yes) EXCEPT !.idlen = 33]}}
  \cup {[r EXCEPT !.attrs = Two(@[1])],
        [Respec(r, r.spec.version, 2) EXCEPT !.attrs = Two(@[1])],
        [Respec(r, r.spec.version, 2) EXCEPT !.attrs = Two([@[1] EXCEPT !.ns = "ns2"])]}
  \cup {[r EXCEPT !.now = n] : n \in {[t |-> 8, len |-> 20], [t |-> 5, len |-> 19],
                                      [t |-> 5, len |-> 21]}}
  \cup {[r EXCEPT !.key = k] : k \in {"K2", "malformed"}}
  \cup {[r EXCEPT !.transcript = "t2"]}
  \cup {[r EXCEPT !.doc_type = d] : d \in {<<"m">>, [i \in 1 .. 33 |-> "m"]}}
  \cup {Respec(r, v, 1) : v \in {6, 9}}
  \cup {[r EXCEPT !.via = v, !.file = f] :
          v \in {"provider", "caller"},
          f \in {[r.file EXCEPT !.framing = "plain"], [r.file EXCEPT !.framing = "missing"],
                 [r.file EXCEPT !.trailing = TRUE], [r.file EXCEPT !.entries = {"sig"}],
                 [r.file EXCEPT !.version = 1], [r.file EXCEPT !.ids_match = FALSE],
                 [r.file EXCEPT !.genuine = FALSE],
                 [r.file EXCEPT !.id = <<0, 0>>, !.genuine = FALSE],
                 [r.file EXCEPT !.id = <<0, 0>>, !.nattr = 3, !.genuine = FALSE],
                 [r.file EXCEPT !.id = <<0, 0>>, !.layout = 5, !.genuine = FALSE]}}

BaseDoc ==
  [items |-> <<[id |-> "age", value |-> Yes, len |-> 100],
               [id |-> "name", value |-> Yes, len |-> 60]>>,
   mso_len |-> 2000, parses |-> TRUE, m |-> [i \in Halves |-> i % q], issuer |-> "K",
   issuer_sig |-> [degenerate |-> {}, reduced |-> TRUE],
   device_sig |-> [degenerate |-> FALSE, reduced |-> TRUE],
   signed |-> <<"t1", <<"m", "d">>>>, doc_type |-> <<"m", "d">>, from |-> 3, until |-> 7]

DocVariants ==
  {BaseDoc}
  \cup {[BaseDoc EXCEPT !.items[1].value = v] :
          v \in {Value("no", "", 1), Value("yes", "x", 70), Value("yes", "", 64)}}
  \cup {[BaseDoc EXCEPT !.items[1].len = n] : n \in {50, 200, 300}}
  \cup {[BaseDoc EXCEPT !.mso_len = n] : n \in {2300, 2531, 2600}}
  \cup {[BaseDoc EXCEPT !.parses = FALSE], [BaseDoc EXCEPT !.issuer = "K2"],
        [BaseDoc EXCEPT !.signed = <<"t2", <<"m", "d">>>>],
        [BaseDoc EXCEPT !.signed = <<"t1", <<"m">>>>],
        [BaseDoc EXCEPT !.issuer_sig.degenerate = {"K"}],
        [BaseDoc EXCEPT !.device_sig.degenerate = TRUE],
        [BaseDoc EXCEPT !.issuer_sig.reduced = FALSE],
        [BaseDoc EXCEPT !.until = 9], [BaseDoc EXCEPT !.until = 4]}

Sides(g) ==
  LET r == Base(g) IN
  {<<r, r>>} \cup UNION {{<<x, r>>, <<r, x>>, <<x, x>>} : x \in Variants(r)}

MCScenarios ==
  UNION {{[gen |-> g, prover |-> s[1], verifier |-> s[2], doc |-> d,
           pads |-> [i \in Halves |-> (i * i + 1) % q]] : s \in Sides(g), d \in DocVariants} :
         g \in {1, 2}}
=============================================================================
