---------------------------- MODULE MerkleProofs ----------------------------
(***************************************************************************)
(* Proofs about Merkle: type correctness, binding, the one accepted path,  *)
(* that the prover's opening is accepted and that its path is within the   *)
(* limits, for every number of leaves, every set of query positions and    *)
(* every proof.                                                            *)
(***************************************************************************)
EXTENDS Merkle, SequenceTheorems, FiniteSetTheorems, NaturalsInduction,
        WellFoundedInduction, TLAPS

(***************************************************************************)
(* Every set of naturals that is not empty has a least element: the form   *)
(* in which induction over the heap is used below.                         *)
(***************************************************************************)
LEMMA LeastNat ==
  ASSUME NEW T, T \subseteq Nat, T # {}
  PROVE  \E x \in T : \A y \in T : x <= y
<1>1. IsWellFoundedOn(OpToRel(<, Nat), Nat)
  BY NatLessThanWellFounded
<1>2. PICK x \in T : \A y \in T : ~(<<y, x>> \in OpToRel(<, Nat))
  BY <1>1, WFMin, Zenon
<1>3. \A y \in T : ~(y < x)
  BY <1>2 DEF OpToRel
<1>4. \A y \in T : x <= y
  BY <1>3
<1> QED
  BY <1>4

(***************************************************************************)
(* The shape of the heap.                                                  *)
(***************************************************************************)
Geometry == num_leaves \in Nat \ {0}

LEMMA Children ==
  ASSUME Geometry, NEW j \in Internal
  PROVE  /\ j \in Node /\ 2 * j \in Node /\ 2 * j + 1 \in Node
         /\ 2 * j > j /\ 2 * j + 1 > j
BY DEF Geometry, Internal, Node

LEMMA Parent ==
  ASSUME Geometry, NEW j \in Node, j # 1
  PROVE  \E p \in Internal : p < j /\ (j = 2 * p \/ j = 2 * p + 1)
<1> DEFINE p == j \div 2
<1>1. p \in Nat /\ (j = 2 * p \/ j = 2 * p + 1)
  BY DEF Node, Geometry
<1>2. p \in Internal /\ p < j
  BY <1>1 DEF Node, Internal, Geometry
<1> QED
  BY <1>1, <1>2

LEMMA LeafOrInternal ==
  ASSUME Geometry, NEW j \in Node
  PROVE  j \in Internal \/ \E k \in 0 .. num_leaves - 1 : j = num_leaves + k
<1>1. CASE j < num_leaves
  BY <1>1 DEF Geometry, Node, Internal
<1>2. CASE j >= num_leaves
  <2>1. j - num_leaves \in 0 .. num_leaves - 1 /\ j = num_leaves + (j - num_leaves)
    BY <1>2 DEF Geometry, Node
  <2> QED
    BY <2>1
<1> QED
  BY <1>1, <1>2 DEF Geometry, Node

(***************************************************************************)
(* The inductive invariant.                                                *)
(***************************************************************************)
BuiltAbove(m) ==
  \A j \in Internal : j > m => layers[j] = hash2(layers[2 * j], layers[2 * j + 1])

HeapInv ==
  /\ pc # "commit" =>
       /\ DOMAIN layers = Node
       /\ \A k \in 0 .. num_leaves - 1 :
            layers[num_leaves + k] = LeafHash(salt[k], column[k])
  /\ pc = "build" => BuiltAbove(i)
  /\ pc \notin {"commit", "build"} => BuiltAbove(0)

Marking == pc \in {"open_mark", "verify_mark"}
Checking == pc \in {"siblings", "rebuild"}

IsOpened(j) == \E q \in DOMAIN indices : j = indices[q] + num_leaves

\* Exactly the opened leaves are marked.
LeafMarks ==
  \A k \in 0 .. num_leaves - 1 :
    is_node_on_path[num_leaves + k] <=> IsOpened(num_leaves + k)

\* An internal node is marked when one of its children is.
ClosedAbove(m) ==
  \A j \in Internal : j > m =>
    (is_node_on_path[j] <=> is_node_on_path[2 * j] \/ is_node_on_path[2 * j + 1])

MarkInv ==
  /\ Marking \/ Checking \/ pc = "generate" =>
       is_node_on_path \in [Node -> BOOLEAN] /\ Markable
  /\ Marking => LeafMarks /\ ClosedAbove(i)
  /\ Checking => LeafMarks /\ ClosedAbove(0) /\ is_node_on_path[1]

SuppliedAbove(m) ==
  \A j \in Internal : j > m /\ NeedsSibling(j) => Sibling(j) \in known

LeavesIn ==
  \A q \in DOMAIN indices :
    /\ indices[q] + num_leaves \in known
    /\ computed[indices[q] + num_leaves] = OpenedLeaf(q)

\* A marked node was recomputed from its two children.
RebuiltAbove(m) ==
  \A j \in Internal : j > m /\ is_node_on_path[j] =>
    /\ {j, 2 * j, 2 * j + 1} \subseteq known
    /\ computed[j] = hash2(computed[2 * j], computed[2 * j + 1])

CheckInv ==
  /\ pc = "verify_mark" \/ Checking =>
       DOMAIN computed = Node /\ Len(proof.nonce) = Len(indices)
  /\ pc = "siblings" => SuppliedAbove(i)
  /\ pc = "rebuild" => SuppliedAbove(0) /\ LeavesIn /\ RebuiltAbove(i)

IInv == TypeOK /\ HeapInv /\ MarkInv /\ CheckInv /\ Binding

LEMMA TypeGeometry == TypeOK => Geometry
BY MerkleAssumption DEF TypeOK, Geometry

(***************************************************************************)
(* Marks spread from the leaves to the root.                               *)
(***************************************************************************)
LEMMA RootMarked ==
  ASSUME Geometry, is_node_on_path \in [Node -> BOOLEAN], ClosedAbove(0),
         NEW j \in Node, is_node_on_path[j]
  PROVE  is_node_on_path[1]
<1> DEFINE T == {k \in Node : is_node_on_path[k]}
<1>1. T \subseteq Nat /\ T # {}
  BY DEF Node
<1>2. PICK x \in T : \A y \in T : x <= y
  BY <1>1, LeastNat
<1>3. x = 1
  <2> SUFFICES ASSUME x # 1 PROVE FALSE
    OBVIOUS
  <2>1. PICK p \in Internal : p < x /\ (x = 2 * p \/ x = 2 * p + 1)
    BY Parent
  <2>2. p > 0 /\ p \in Node
    BY <2>1, Children DEF Internal
  <2>3. is_node_on_path[p]
    BY <2>1, <2>2 DEF ClosedAbove
  <2>4. p \in T /\ x <= p
    BY <1>2, <2>2, <2>3
  <2> QED
    BY <2>1, <2>4 DEF Node, Internal
<1> QED
  BY <1>3

(***************************************************************************)
(* Agreement at the root reaches every marked node: a node that equals the *)
(* committed one was hashed from children that equal the committed ones.   *)
(***************************************************************************)
LEMMA RootBinds ==
  ASSUME Geometry, is_node_on_path \in [Node -> BOOLEAN],
         BuiltAbove(0), ClosedAbove(0), RebuiltAbove(0),
         computed[1] = layers[1],
         NEW j \in Node, is_node_on_path[j]
  PROVE  computed[j] = layers[j]
<1> DEFINE T == {k \in Node : is_node_on_path[k] /\ computed[k] # layers[k]}
<1> SUFFICES ASSUME T # {} PROVE FALSE
  OBVIOUS
<1>1. T \subseteq Nat
  BY DEF Node
<1>2. PICK x \in T : \A y \in T : x <= y
  BY <1>1, LeastNat
<1>3. x # 1 /\ x \in Node
  OBVIOUS
<1>4. PICK p \in Internal : p < x /\ (x = 2 * p \/ x = 2 * p + 1)
  BY <1>3, Parent
<1>5. p > 0 /\ p \in Node /\ x \in Nat
  BY <1>3, <1>4, Children DEF Internal, Node
<1>6. is_node_on_path[p]
  BY <1>4, <1>5 DEF ClosedAbove
<1>7. computed[p] = layers[p]
  <2>1. p \notin T
    BY <1>2, <1>4, <1>5 DEF Internal
  <2> QED
    BY <2>1, <1>5, <1>6
<1>8. hash2(computed[2 * p], computed[2 * p + 1]) = hash2(layers[2 * p], layers[2 * p + 1])
  BY <1>4, <1>5, <1>6, <1>7 DEF RebuiltAbove, BuiltAbove
<1>9. computed[2 * p] = layers[2 * p] /\ computed[2 * p + 1] = layers[2 * p + 1]
  BY <1>8 DEF hash2
<1> QED
  BY <1>4, <1>9

(***************************************************************************)
(* The invariant is inductive: one lemma per phase of the protocol.        *)
(***************************************************************************)
LEMMA InitIInv == Init => IInv
BY MerkleAssumption
   DEF Init, IInv, TypeOK, ControlPoint, Verdict, HeapInv, MarkInv, Marking,
       Checking, CheckInv, Binding

LEMMA CommitPreserves ==
  ASSUME IInv, Commit \/ BuildStep
  PROVE  IInv'
<1> USE TypeGeometry DEF IInv
<1>1. CASE Commit
  <2> USE <1>1 DEF Commit
  <2>1. TypeOK'
    BY DEF TypeOK, ControlPoint, Node, Geometry
  <2>2. HeapInv'
    <3>1. \A k \in 0 .. num_leaves - 1 :
            num_leaves + k \in Node /\ num_leaves + k - num_leaves = k
      BY DEF Geometry, Node
    <3>2. \A k \in 0 .. num_leaves - 1 :
            layers'[num_leaves + k] = LeafHash(salt[k], column[k])
      BY <3>1 DEF Geometry
    <3>3. BuiltAbove(i)'
      BY DEF BuiltAbove, Internal, Geometry
    <3> QED
      BY <3>2, <3>3 DEF HeapInv, LeafHash, Node
  <2>3. MarkInv' /\ CheckInv' /\ Binding'
    BY DEF MarkInv, Marking, Checking, CheckInv, Binding, TypeOK
  <2> QED
    BY <2>1, <2>2, <2>3
<1>2. CASE BuildStep
  <2> USE <1>2 DEF BuildStep
  <2>0. i \in Internal
    BY DEF TypeOK, Geometry, Internal
  <2>1. TypeOK'
    BY DEF TypeOK, ControlPoint, Node, Geometry
  <2>2. HeapInv'
    <3>1. \A k \in 0 .. num_leaves - 1 : num_leaves + k # i
      BY <2>0 DEF Geometry, Internal
    <3>2. BuiltAbove(i)'
      <4> SUFFICES ASSUME NEW j \in Internal, j > i - 1
                   PROVE  layers'[j] = hash2(layers'[2 * j], layers'[2 * j + 1])
        BY DEF BuiltAbove, Internal, hash2
      <4>1. 2 * j # i /\ 2 * j + 1 # i
        BY <2>0 DEF Internal, Geometry
      <4>2. j = i \/ j > i
        BY <2>0 DEF Internal, Geometry
      <4>3. j \in DOMAIN layers /\ i \in DOMAIN layers
        BY <2>0, Children DEF HeapInv
      <4> QED
        BY <4>1, <4>2, <4>3 DEF BuiltAbove, HeapInv
    <3> QED
      BY <3>1, <3>2 DEF HeapInv, LeafHash, Node
  <2>3. MarkInv' /\ CheckInv' /\ Binding'
    BY DEF MarkInv, Marking, Checking, CheckInv, Binding, TypeOK
  <2> QED
    BY <2>1, <2>2, <2>3
<1> QED
  BY <1>1, <1>2

\* Once the heap is built no action touches it.
LEMMA HeapKept ==
  ASSUME HeapInv, UNCHANGED heap, pc' \notin {"commit", "build"},
         pc \notin {"commit", "build"} \/ (pc = "build" /\ i = 0)
  PROVE  HeapInv'
BY DEF HeapInv, heap, BuiltAbove, Internal, Node, LeafHash, hash2

LEMMA OpenPreserves ==
  ASSUME IInv, Open \/ OpenPanics \/ GenerateProof \/ GenerateStep
  PROVE  IInv'
<1> USE TypeGeometry DEF IInv
<1>1. HeapInv'
  BY HeapKept DEF Open, OpenPanics, GenerateProof, GenerateStep, heap
<1>2. TypeOK'
  <2>1. CASE Open
    BY <2>1 DEF TypeOK, Open, ControlPoint, Node, Geometry
  <2>2. CASE OpenPanics
    BY <2>2 DEF TypeOK, OpenPanics, heap, ControlPoint, Node
  <2>3. CASE GenerateProof
    BY <2>3 DEF TypeOK, GenerateProof, heap, ControlPoint, Node, Geometry
  <2>4. CASE GenerateStep
    BY <2>4 DEF TypeOK, GenerateStep, heap, ControlPoint, Node, Geometry
  <2> QED
    BY <2>1, <2>2, <2>3, <2>4
<1>3. MarkInv' /\ CheckInv' /\ Binding'
  BY DEF Open, OpenPanics, GenerateProof, GenerateStep, heap, MarkInv, Marking,
         Checking, CheckInv, Binding, TypeOK, Markable, BadIndex, Node
<1> QED
  BY <1>1, <1>2, <1>3

LEMMA ReceivePreserves ==
  ASSUME IInv, ReceiveHonest \/ ReceiveOther
  PROVE  IInv'
<1> USE TypeGeometry DEF IInv
<1>1. PICK p : Receive(p)
  BY DEF ReceiveHonest, ReceiveOther
<1>2. pc \in {"generate", "open"}
  BY DEF ReceiveHonest, ReceiveOther
<1> USE <1>1, <1>2 DEF Receive
<1>3. HeapInv'
  BY HeapKept DEF heap
<1>4. TypeOK'
  BY DEF TypeOK, heap, ControlPoint, Node, Geometry
<1>5. MarkInv' /\ CheckInv' /\ Binding'
  BY DEF heap, MarkInv, Marking, Checking, CheckInv, Binding, TypeOK
<1> QED
  BY <1>3, <1>4, <1>5

(***************************************************************************)
(* Marking: the leaves first, then every internal node after its children. *)
(***************************************************************************)
LEMMA MarkPreserves ==
  ASSUME IInv, OpenMark \/ VerifyMark
  PROVE  IInv'
<1> USE TypeGeometry DEF IInv, OpenMark, VerifyMark
<1>1. HeapInv'
  BY HeapKept DEF heap
<1>2. is_node_on_path' = MarkedLeaves /\ i' = num_leaves - 1 /\ Markable
      /\ UNCHANGED <<num_leaves, indices>>
  BY DEF heap
<1>3. MarkedLeaves \in [Node -> BOOLEAN]
  BY DEF MarkedLeaves
<1>4. TypeOK'
  <2>1. Node' = Node /\ i' \in 0 .. num_leaves' - 1 /\ pc' \in {"open_mark", "verify_mark"}
    BY <1>2 DEF Node, Geometry
  <2>2. CASE OpenMark
    BY <2>1, <2>2, <1>2, <1>3 DEF TypeOK, heap, ControlPoint
  <2>3. CASE VerifyMark
    BY <2>1, <2>3, <1>2, <1>3 DEF TypeOK, heap, ControlPoint
  <2> QED
    BY <2>2, <2>3
<1>5. LeafMarks'
  <2>1. \A k \in 0 .. num_leaves - 1 : num_leaves + k \in Node
    BY DEF Node, Geometry
  <2> QED
    BY <1>2, <2>1 DEF LeafMarks, IsOpened, MarkedLeaves
<1>6. ClosedAbove(i)'
  BY <1>2 DEF ClosedAbove, Internal, Geometry
<1>7. Markable'
  BY <1>2 DEF Markable, BadIndex
<1>8. MarkInv'
  BY <1>2, <1>3, <1>5, <1>6, <1>7 DEF MarkInv, Marking, Checking, Node
<1>9. CheckInv' /\ Binding'
  BY DEF heap, CheckInv, Checking, Binding, TypeOK, Node
<1> QED
  BY <1>1, <1>4, <1>8, <1>9

LEMMA MarkStepPreserves ==
  ASSUME IInv, NEW at \in {"open_mark", "verify_mark"}, MarkStep(at)
  PROVE  IInv'
<1> USE TypeGeometry DEF IInv, MarkStep
<1>1. HeapInv'
  BY HeapKept DEF heap
<1>2. i \in Internal /\ i \in Nat
  BY DEF TypeOK, Geometry, Internal
<1>3. is_node_on_path \in [Node -> BOOLEAN] /\ Markable /\ LeafMarks /\ ClosedAbove(i)
  BY DEF MarkInv, Marking
<1>4. is_node_on_path[2 * i] \in BOOLEAN /\ is_node_on_path[2 * i + 1] \in BOOLEAN
  BY <1>2, <1>3, Children
<1>5. is_node_on_path' \in [Node -> BOOLEAN]
  BY <1>2, <1>3, <1>4, Children
<1>6. TypeOK'
  BY <1>5 DEF TypeOK, ControlPoint, Node, Geometry
<1>7. LeafMarks'
  <2>1. \A k \in 0 .. num_leaves - 1 : num_leaves + k # i /\ num_leaves + k \in Node
    BY <1>2 DEF Geometry, Internal, Node
  <2>2. \A k \in 0 .. num_leaves - 1 :
          is_node_on_path'[num_leaves + k] = is_node_on_path[num_leaves + k]
    BY <2>1, <1>3
  <2> QED
    BY <1>3, <2>2 DEF LeafMarks, IsOpened
<1>8. ClosedAbove(i)'
  <2> SUFFICES ASSUME NEW j \in Internal, j > i - 1
               PROVE  is_node_on_path'[j] <=>
                        is_node_on_path'[2 * j] \/ is_node_on_path'[2 * j + 1]
    BY DEF ClosedAbove, Internal
  <2>1. 2 * j # i /\ 2 * j + 1 # i /\ (j = i \/ j > i)
    BY <1>2 DEF Internal, Geometry
  <2>2. j \in Node /\ 2 * j \in Node /\ 2 * j + 1 \in Node
    BY Children
  <2>3. is_node_on_path'[2 * j] = is_node_on_path[2 * j]
        /\ is_node_on_path'[2 * j + 1] = is_node_on_path[2 * j + 1]
    BY <1>3, <2>1, <2>2
  <2>4. CASE j = i
    BY <1>3, <2>2, <2>3, <2>4
  <2>5. CASE j > i
    <3>1. is_node_on_path'[j] = is_node_on_path[j]
      BY <1>2, <1>3, <2>2, <2>5 DEF Internal
    <3> QED
      BY <1>3, <2>3, <2>5, <3>1 DEF ClosedAbove
  <2> QED
    BY <2>1, <2>4, <2>5
<1>9. MarkInv'
  BY <1>3, <1>5, <1>7, <1>8 DEF MarkInv, Marking, Checking, Markable, BadIndex, Node
<1>10. CheckInv' /\ Binding'
  BY DEF heap, CheckInv, Checking, Binding, TypeOK, Node
<1> QED
  BY <1>1, <1>6, <1>9, <1>10

(***************************************************************************)
(* The verifier.                                                           *)
(***************************************************************************)
\* Indices that pass mark_paths_to_root are distinct positions.
LEMMA MarkableIndices ==
  ASSUME TypeOK, Markable
  PROVE  /\ DOMAIN indices # {}
         /\ \A q \in DOMAIN indices :
              indices[q] \in 0 .. num_leaves - 1 /\ indices[q] + num_leaves \in Node
         /\ \A p, q \in DOMAIN indices : indices[p] = indices[q] => p = q
<1>1. indices \in Seq(0 .. num_leaves) /\ num_leaves \in Nat \ {0}
  BY TypeGeometry DEF TypeOK, Geometry
<1>2. \A q \in DOMAIN indices : q \in Nat /\ q >= 1 /\ indices[q] \in 0 .. num_leaves
  BY <1>1
<1>3. \A q \in DOMAIN indices : indices[q] < num_leaves
  BY <1>1, <1>2 DEF Markable, BadIndex
<1>4. \A p, q \in DOMAIN indices : p < q => indices[p] # indices[q]
  BY <1>2 DEF Markable, BadIndex
<1>5. DOMAIN indices # {}
  <2>1. Len(indices) # 0 /\ Len(indices) \in Nat
    BY <1>1, EmptySeq DEF Markable
  <2>2. 1 \in DOMAIN indices
    BY <1>1, <2>1
  <2> QED
    BY <2>2
<1>6. \A p, q \in DOMAIN indices : p < q \/ q < p \/ p = q
  BY <1>2
<1>7. \A q \in DOMAIN indices :
        indices[q] \in 0 .. num_leaves - 1 /\ indices[q] + num_leaves \in Node
  BY <1>1, <1>2, <1>3 DEF Node
<1> QED
  BY <1>4, <1>5, <1>6, <1>7

LEMMA RejectPreserves ==
  ASSUME IInv, NEW e \in Verdict, Reject(e), pc \notin {"commit", "build"},
         e = "Ok" => Binding'
  PROVE  IInv'
<1> USE DEF IInv, Reject
<1>1. HeapInv'
  BY HeapKept DEF heap
<1>2. Node' = Node
  BY DEF Node, heap
<1>3. TypeOK'
  BY <1>2 DEF TypeOK, heap, ControlPoint
<1>4. MarkInv' /\ CheckInv' /\ Binding'
  BY DEF MarkInv, Marking, Checking, CheckInv, Binding
<1> QED
  BY <1>1, <1>3, <1>4

LEMMA RejectingPreserves ==
  ASSUME IInv, VerifyNonceLength \/ VerifyIndices \/ PathTooShort \/ PathTooLong
  PROVE  IInv'
<1>1. PICK e \in Verdict \ {"Ok"} : Reject(e) /\ pc \in {"verify", "siblings"}
  BY DEF VerifyNonceLength, VerifyIndices, PathTooShort, PathTooLong, MarkError,
         IndexError, Verdict
<1> QED
  BY <1>1, RejectPreserves

LEMMA StartSiblingsPreserves ==
  ASSUME IInv, StartSiblings
  PROVE  IInv'
<1> USE TypeGeometry DEF IInv
<1>1. /\ is_node_on_path \in [Node -> BOOLEAN] /\ Markable
      /\ LeafMarks /\ ClosedAbove(0)
  BY DEF StartSiblings, MarkInv, Marking
<1>2. is_node_on_path[1]
  <2>1. PICK q \in DOMAIN indices : TRUE
    BY <1>1, MarkableIndices
  <2>2. indices[q] \in 0 .. num_leaves - 1 /\ num_leaves + indices[q] \in Node
    BY <1>1, MarkableIndices DEF Geometry
  <2>3. num_leaves + indices[q] = indices[q] + num_leaves
    BY <2>2 DEF Geometry
  <2>4. is_node_on_path[num_leaves + indices[q]]
    BY <1>1, <2>2, <2>3 DEF LeafMarks, IsOpened
  <2> QED
    BY <1>1, <2>2, <2>4, RootMarked
<1> USE <1>2 DEF StartSiblings
<1>3. HeapInv'
  BY HeapKept DEF heap
<1>4. Node' = Node /\ Internal' = Internal /\ i' \in 0 .. num_leaves' - 1
  BY DEF Node, Internal, Geometry, heap
<1>5. TypeOK'
  BY <1>4 DEF TypeOK, heap, ControlPoint
<1>6. MarkInv'
  BY <1>1, <1>4 DEF MarkInv, Marking, Checking, Markable, BadIndex, LeafMarks, IsOpened,
                    ClosedAbove, heap
<1>7. CheckInv'
  BY <1>4 DEF CheckInv, Checking, SuppliedAbove, heap, Internal, Geometry
<1>8. Binding'
  BY DEF Binding, TypeOK
<1> QED
  BY <1>3, <1>5, <1>6, <1>7, <1>8

LEMMA SiblingStepPreserves ==
  ASSUME IInv, SiblingStep
  PROVE  IInv'
<1> USE TypeGeometry DEF IInv, SiblingStep
<1>1. /\ is_node_on_path \in [Node -> BOOLEAN] /\ DOMAIN computed = Node
      /\ i \in Internal /\ i \in Nat /\ SuppliedAbove(i)
      /\ proof_idx \in Nat /\ known \subseteq Node
  BY DEF MarkInv, CheckInv, Checking, TypeOK, Internal, Geometry
<1>2. HeapInv'
  BY HeapKept DEF heap
<1>3. Node' = Node /\ Internal' = Internal /\ i' \in 0 .. num_leaves' - 1
  BY <1>1 DEF Node, Internal, Geometry, heap
<1>4. Sibling(i) \in Node
  BY <1>1, Children DEF Sibling
<1>5. known \subseteq known' /\ known' \subseteq Node /\ DOMAIN computed' = Node
      /\ (NeedsSibling(i) => Sibling(i) \in known') /\ proof_idx' \in Nat
  BY <1>1, <1>4
<1>6. TypeOK'
  BY <1>3, <1>5 DEF TypeOK, heap, ControlPoint
<1>7. MarkInv'
  BY <1>3 DEF MarkInv, Marking, Checking, Markable, BadIndex, LeafMarks, IsOpened,
              ClosedAbove, heap
<1>8. SuppliedAbove(i)'
  <2> SUFFICES ASSUME NEW j \in Internal, j > i - 1, NeedsSibling(j)
               PROVE  Sibling(j) \in known'
    BY <1>3 DEF SuppliedAbove, NeedsSibling, Sibling
  <2>1. j = i \/ j > i
    BY <1>1 DEF Internal
  <2> QED
    BY <1>1, <1>5, <2>1 DEF SuppliedAbove
<1>9. CheckInv'
  BY <1>3, <1>5, <1>8 DEF CheckInv, Checking, heap
<1>10. Binding'
  BY DEF Binding, TypeOK
<1> QED
  BY <1>2, <1>6, <1>7, <1>9, <1>10

LEMMA PopulatePreserves ==
  ASSUME IInv, Populate
  PROVE  IInv'
<1> USE TypeGeometry DEF IInv, Populate
<1>1. /\ Markable /\ DOMAIN computed = Node /\ SuppliedAbove(0)
      /\ known \subseteq Node
  BY DEF MarkInv, CheckInv, Checking, TypeOK
<1>2. HeapInv'
  BY HeapKept DEF heap
<1>3. Node' = Node /\ Internal' = Internal /\ i' \in 0 .. num_leaves' - 1
  BY DEF Node, Internal, Geometry, heap
<1>4. known \subseteq known' /\ known' \subseteq Node /\ DOMAIN computed' = Node
  BY <1>1, MarkableIndices
<1>5. TypeOK'
  BY <1>3, <1>4 DEF TypeOK, heap, ControlPoint
<1>6. MarkInv'
  BY <1>3 DEF MarkInv, Marking, Checking, Markable, BadIndex, LeafMarks, IsOpened,
              ClosedAbove, heap
<1>7. LeavesIn'
  <2> SUFFICES ASSUME NEW q \in DOMAIN indices
               PROVE  /\ indices[q] + num_leaves \in known'
                      /\ computed'[indices[q] + num_leaves] = OpenedLeaf(q)
    BY DEF LeavesIn, OpenedLeaf, heap
  <2> DEFINE j == indices[q] + num_leaves
             c == CHOOSE p \in DOMAIN indices : j = indices[p] + num_leaves
  <2>1. j \in Node
    BY <1>1, MarkableIndices
  <2>2. c \in DOMAIN indices /\ j = indices[c] + num_leaves
    OBVIOUS
  <2>3. indices[c] \in 0 .. num_leaves - 1 /\ indices[q] \in 0 .. num_leaves - 1
    BY <1>1, <2>2, MarkableIndices
  <2>4. indices[c] = indices[q]
    BY <2>2, <2>3 DEF Geometry
  <2>5. c = q
    BY <1>1, <2>2, <2>4, MarkableIndices
  <2>6. computed'[j] = OpenedLeaf(c)
    BY <2>1, <2>2
  <2> QED
    BY <2>5, <2>6
<1>8. SuppliedAbove(0)'
  BY <1>1, <1>3, <1>4 DEF SuppliedAbove, NeedsSibling, Sibling
<1>9. RebuiltAbove(i)'
  BY <1>3 DEF RebuiltAbove, Internal, Geometry, heap
<1>10. CheckInv'
  BY <1>4, <1>3, <1>7, <1>8, <1>9 DEF CheckInv, Checking, heap
<1>11. Binding'
  BY DEF Binding, TypeOK
<1> QED
  BY <1>2, <1>5, <1>6, <1>10, <1>11

\* When the rebuild loop is at a marked node, both its children are there: a
\* marked child was opened or rebuilt, the other one came with the path.
LEMMA ChildrenKnown ==
  ASSUME IInv, pc = "rebuild", i \in Internal, is_node_on_path[i]
  PROVE  {2 * i, 2 * i + 1} \subseteq known
<1> USE TypeGeometry DEF IInv
<1>1. /\ is_node_on_path \in [Node -> BOOLEAN]
      /\ LeafMarks /\ ClosedAbove(0)
      /\ SuppliedAbove(0) /\ LeavesIn /\ RebuiltAbove(i)
  BY DEF MarkInv, CheckInv, Checking
<1>2. ASSUME NEW c \in {2 * i, 2 * i + 1}, is_node_on_path[c]
      PROVE  c \in known
  <2>1. c \in Node /\ c > i
    BY Children
  <2>2. CASE c \in Internal
    BY <1>1, <1>2, <2>1, <2>2 DEF RebuiltAbove
  <2>3. ASSUME NEW k \in 0 .. num_leaves - 1, c = num_leaves + k
        PROVE  c \in known
    BY <1>1, <1>2, <2>3 DEF LeafMarks, IsOpened, LeavesIn
  <2> QED
    BY <2>1, <2>2, <2>3, LeafOrInternal
<1>3. i > 0
  BY DEF Internal
<1>4. is_node_on_path[2 * i] \/ is_node_on_path[2 * i + 1]
  BY <1>1, <1>3 DEF ClosedAbove
<1>5. is_node_on_path[2 * i] \in BOOLEAN /\ is_node_on_path[2 * i + 1] \in BOOLEAN
  BY <1>1, Children
<1>6. CASE is_node_on_path[2 * i] /\ is_node_on_path[2 * i + 1]
  BY <1>2, <1>6
<1>7. CASE is_node_on_path[2 * i] /\ ~is_node_on_path[2 * i + 1]
  <2>1. NeedsSibling(i) /\ Sibling(i) = 2 * i + 1
    BY <1>7 DEF NeedsSibling, Sibling
  <2> QED
    BY <1>1, <1>2, <1>3, <1>7, <2>1 DEF SuppliedAbove
<1>8. CASE ~is_node_on_path[2 * i] /\ is_node_on_path[2 * i + 1]
  <2>1. NeedsSibling(i) /\ Sibling(i) = 2 * i
    BY <1>8 DEF NeedsSibling, Sibling
  <2> QED
    BY <1>1, <1>2, <1>3, <1>8, <2>1 DEF SuppliedAbove
<1> QED
  BY <1>4, <1>5, <1>6, <1>7, <1>8

LEMMA RebuildStepPreserves ==
  ASSUME IInv, RebuildStep
  PROVE  IInv'
<1> USE TypeGeometry DEF IInv, RebuildStep
<1>1. /\ is_node_on_path \in [Node -> BOOLEAN] /\ DOMAIN computed = Node
      /\ i \in Internal /\ i \in Nat /\ known \subseteq Node /\ Markable
      /\ SuppliedAbove(0) /\ LeavesIn /\ RebuiltAbove(i)
  BY DEF MarkInv, CheckInv, Checking, TypeOK, Internal, Geometry
<1>2. HeapInv'
  BY HeapKept DEF heap
<1>3. Node' = Node /\ Internal' = Internal /\ i' \in 0 .. num_leaves' - 1
  BY <1>1 DEF Node, Internal, Geometry, heap
<1>4. known \subseteq known' /\ known' \subseteq Node /\ DOMAIN computed' = Node
  BY <1>1, Children
<1>5. TypeOK'
  BY <1>3, <1>4 DEF TypeOK, heap, ControlPoint
<1>6. MarkInv'
  BY <1>3 DEF MarkInv, Marking, Checking, Markable, BadIndex, LeafMarks, IsOpened,
              ClosedAbove, heap
<1>7. \A j \in Node : j # i => computed'[j] = computed[j]
  BY <1>1
<1>8. LeavesIn'
  <2>1. \A q \in DOMAIN indices :
          indices[q] + num_leaves \in Node /\ indices[q] + num_leaves # i
    BY <1>1, MarkableIndices DEF Internal, Geometry
  <2> QED
    BY <1>1, <1>4, <1>7, <2>1 DEF LeavesIn, OpenedLeaf, heap
<1>9. SuppliedAbove(0)'
  BY <1>1, <1>3, <1>4 DEF SuppliedAbove, NeedsSibling, Sibling
<1>10. RebuiltAbove(i)'
  <2> SUFFICES ASSUME NEW j \in Internal, j > i - 1, is_node_on_path[j]
               PROVE  /\ {j, 2 * j, 2 * j + 1} \subseteq known'
                      /\ computed'[j] = hash2(computed'[2 * j], computed'[2 * j + 1])
    BY <1>3 DEF RebuiltAbove, hash2
  <2>1. (j = i \/ j > i) /\ 2 * j # i /\ 2 * j + 1 # i
    BY <1>1 DEF Internal
  <2>2. j \in Node /\ 2 * j \in Node /\ 2 * j + 1 \in Node
    BY Children
  <2>3. computed'[2 * j] = computed[2 * j] /\ computed'[2 * j + 1] = computed[2 * j + 1]
    BY <1>7, <2>1, <2>2
  <2>4. CASE j = i
    <3>1. {2 * i, 2 * i + 1} \subseteq known
      BY <1>1, <2>4, ChildrenKnown
    <3>2. computed' = [computed EXCEPT ![i] = hash2(computed[2 * i], computed[2 * i + 1])]
          /\ known' = known \cup {i}
      BY <3>1
    <3> QED
      BY <1>1, <2>2, <2>3, <2>4, <3>1, <3>2
  <2>5. CASE j > i
    <3>1. j # i
      BY <1>1, <2>5 DEF Internal
    <3> QED
      BY <1>1, <1>4, <1>7, <2>2, <2>3, <2>5, <3>1 DEF RebuiltAbove
  <2> QED
    BY <2>1, <2>4, <2>5
<1>11. CheckInv'
  BY <1>3, <1>4, <1>8, <1>9, <1>10 DEF CheckInv, Checking, heap
<1>12. Binding'
  BY DEF Binding, TypeOK
<1> QED
  BY <1>2, <1>5, <1>6, <1>11, <1>12

LEMMA CheckRootPreserves ==
  ASSUME IInv, CheckRoot
  PROVE  IInv'
<1> USE TypeGeometry DEF IInv, CheckRoot
<1>1. ASSUME RootMatches
      PROVE  \A q \in DOMAIN indices : /\ proof.column[q] = column[indices[q]]
                                       /\ proof.nonce[q] = salt[indices[q]]
  <2>1. /\ is_node_on_path \in [Node -> BOOLEAN] /\ Markable
        /\ LeafMarks /\ ClosedAbove(0) /\ BuiltAbove(0)
        /\ LeavesIn /\ RebuiltAbove(0) /\ computed[1] = layers[1]
    BY <1>1 DEF MarkInv, CheckInv, Checking, HeapInv, RootMatches, root
  <2> SUFFICES ASSUME NEW q \in DOMAIN indices
               PROVE  /\ proof.column[q] = column[indices[q]]
                      /\ proof.nonce[q] = salt[indices[q]]
    OBVIOUS
  <2>2. indices[q] \in 0 .. num_leaves - 1 /\ num_leaves + indices[q] \in Node
        /\ indices[q] + num_leaves = num_leaves + indices[q]
    BY <2>1, MarkableIndices DEF Geometry
  <2>3. is_node_on_path[num_leaves + indices[q]]
    BY <2>1, <2>2 DEF LeafMarks, IsOpened
  <2>4. computed[num_leaves + indices[q]] = layers[num_leaves + indices[q]]
    BY <2>1, <2>2, <2>3, RootBinds
  <2>5. OpenedLeaf(q) = LeafHash(salt[indices[q]], column[indices[q]])
    BY <2>1, <2>2, <2>4 DEF LeavesIn, HeapInv
  <2> QED
    BY <2>5 DEF OpenedLeaf, LeafHash
<1>2. Binding'
  BY <1>1 DEF Binding, Reject, heap
<1>3. PICK e \in Verdict : Reject(e)
  BY DEF Verdict
<1> QED
  BY <1>2, <1>3, RejectPreserves

LEMMA Inductive == IInv /\ [Next]_vars => IInv'
<1> SUFFICES ASSUME IInv, [Next]_vars PROVE IInv'
  OBVIOUS
<1>1. CASE UNCHANGED vars
  BY <1>1 DEF vars, IInv, TypeOK, HeapInv, MarkInv, CheckInv, Binding, Node,
     Internal, Marking, Checking, BuiltAbove, Markable, BadIndex, LeafMarks, IsOpened,
     ClosedAbove, SuppliedAbove, NeedsSibling, Sibling, LeavesIn, OpenedLeaf, RebuiltAbove
<1>2. CASE Next
  BY <1>2, CommitPreserves, OpenPreserves, MarkPreserves, MarkStepPreserves,
     ReceivePreserves, RejectingPreserves, StartSiblingsPreserves,
     SiblingStepPreserves, PopulatePreserves, RebuildStepPreserves,
     CheckRootPreserves DEF Next
<1> QED
  BY <1>1, <1>2

(***************************************************************************)
(* commit, open and verify keep their state well typed for every number of *)
(* leaves; LeafIndexNotOnPath is never returned.                           *)
(***************************************************************************)
THEOREM TypeCorrect == Spec => []TypeOK
<1>1. IInv => TypeOK
  BY DEF IInv
<1> QED
  BY <1>1, InitIInv, Inductive, PTL DEF Spec

(***************************************************************************)
(* The commitment is binding under an ideal hash: verify (commitment.rs)   *)
(* accepts no column and no salt but the committed ones, for every number  *)
(* of leaves, every choice of positions and every nonces and path.         *)
(***************************************************************************)
THEOREM OpeningsBind == Spec => []Binding
<1>1. IInv => Binding
  BY DEF IInv
<1> QED
  BY <1>1, InitIInv, Inductive, PTL DEF Spec

(***************************************************************************)
(* The path.  What generate_proof lists and verify_proof consumes, in      *)
(* terms of the marks M and of r, where r[j] counts the digests that come  *)
(* from the nodes above j.  The marks are a parameter because the verifier *)
(* computes its own: they are determined by the opened positions.          *)
(***************************************************************************)
Marks(M) ==
  /\ M \in [Node -> BOOLEAN]
  /\ \A k \in 0 .. num_leaves - 1 : M[num_leaves + k] <=> IsOpened(num_leaves + k)
  /\ \A j \in Internal : M[j] <=> M[2 * j] \/ M[2 * j + 1]

Needs(M, j) == M[j] /\ M[2 * j] # M[2 * j + 1]

Other(M, j) == IF M[2 * j] THEN 2 * j + 1 ELSE 2 * j

Ranks(M, r, m) ==
  /\ r \in [0 .. num_leaves - 1 -> Nat]
  /\ r[num_leaves - 1] = 0
  /\ \A j \in Internal : j > m => r[j - 1] = IF Needs(M, j) THEN r[j] + 1 ELSE r[j]
  /\ \A j \in m .. num_leaves - 1 : r[j] <= r[m]

Listed(M, r, m) ==
  /\ Len(path) = r[m]
  /\ \A j \in Internal : j > m /\ Needs(M, j) => path[r[j] + 1] = layers[Other(M, j)]
  /\ \A k \in 1 .. r[m] : \E j \in Internal : j > m /\ Needs(M, j) /\ k = r[j] + 1

Consumed(r, m) ==
  /\ proof_idx = r[m] /\ proof_idx <= Len(proof.path)
  /\ \A j \in Internal : j > m /\ NeedsSibling(j) =>
       computed[Sibling(j)] = proof.path[r[j] + 1]

\* A node the verifier knows hangs from a marked one.
KnownBelowMarked ==
  \A j \in Internal : 2 * j \in known \/ 2 * j + 1 \in known => is_node_on_path[j]

Digest == {layers[j] : j \in Node}

GenerateInv ==
  pc = "generate" =>
    /\ Marks(is_node_on_path) /\ path \in Seq(Digest)
    /\ \E r : Ranks(is_node_on_path, r, i) /\ Listed(is_node_on_path, r, i)

ReceivedInv ==
  /\ pc \in {"verify", "verify_mark", "siblings", "rebuild"} /\ Markable =>
       path \in Seq(Digest) /\ proof.path \in Seq(Digest \cup Foreign)
  /\ pc \in {"verify", "verify_mark"} /\ Markable =>
       \E M, r : Marks(M) /\ Ranks(M, r, 0) /\ Listed(M, r, 0)

ConsumeInv ==
  /\ pc = "verify_mark" => known = {}
  /\ Checking => KnownBelowMarked
  /\ pc = "siblings" =>
       \E r : /\ Ranks(is_node_on_path, r, 0) /\ Listed(is_node_on_path, r, 0)
              /\ Consumed(r, i)
  /\ pc = "rebuild" =>
       \E r : /\ Ranks(is_node_on_path, r, 0) /\ Listed(is_node_on_path, r, 0)
              /\ Consumed(r, 0) /\ Len(proof.path) = r[0]

HonestInv ==
  Checking /\ proof = HonestProof => \A k \in known : computed[k] = layers[k]

PathInv ==
  GenerateInv /\ ReceivedInv /\ ConsumeInv /\ HonestInv /\ CanonicalPath /\ HonestAccepted

LEMMA MarksUnique ==
  ASSUME Geometry, NEW M, NEW N, Marks(M), Marks(N)
  PROVE  M = N
<1> DEFINE T == {k \in Nat : \E j \in Node : k = 2 * num_leaves - j /\ M[j] # N[j]}
<1> SUFFICES ASSUME M # N PROVE FALSE
  OBVIOUS
<1>0. M \in [Node -> BOOLEAN] /\ N \in [Node -> BOOLEAN]
  BY DEF Marks
<1>1. PICK j \in Node : M[j] # N[j]
  BY <1>0
<1>2. 2 * num_leaves - j \in T
  BY <1>1 DEF Node, Geometry
<1>3. PICK x \in T : \A y \in T : x <= y
  BY <1>2, LeastNat
<1>4. PICK a \in Node : x = 2 * num_leaves - a /\ M[a] # N[a]
  OBVIOUS
<1>5. \A b \in Node : b > a => M[b] = N[b]
  <2> SUFFICES ASSUME NEW b \in Node, b > a, M[b] # N[b] PROVE FALSE
    OBVIOUS
  <2>1. 2 * num_leaves - b \in T /\ 2 * num_leaves - b < x
    BY <1>4 DEF Node, Geometry
  <2>2. x <= 2 * num_leaves - b /\ x \in Nat
    BY <1>3, <2>1
  <2> QED
    BY <2>1, <2>2 DEF Node, Geometry
<1>6. CASE a \in Internal
  <2>1. M[2 * a] = N[2 * a] /\ M[2 * a + 1] = N[2 * a + 1]
    BY <1>5, <1>6, Children
  <2> QED
    BY <1>0, <1>4, <1>6, <2>1 DEF Marks
<1>7. ASSUME NEW k \in 0 .. num_leaves - 1, a = num_leaves + k
      PROVE  FALSE
  BY <1>0, <1>4, <1>7 DEF Marks
<1> QED
  BY <1>6, <1>7, LeafOrInternal

\* The child that the path supplies is not marked, and belongs to one parent.
LEMMA OtherUnmarked ==
  ASSUME Geometry, NEW M \in [Node -> BOOLEAN], NEW j \in Internal, Needs(M, j)
  PROVE  /\ Other(M, j) \in {2 * j, 2 * j + 1} /\ Other(M, j) \in Node
         /\ Other(M, j) > j /\ ~M[Other(M, j)]
BY Children DEF Needs, Other

LEMMA OtherDistinct ==
  ASSUME Geometry, NEW M, NEW j \in Internal, NEW l \in Internal, j # l
  PROVE  Other(M, j) # Other(M, l)
BY DEF Other, Internal, Geometry

LEMMA NeedsIsSibling ==
  ASSUME NEW j
  PROVE  /\ NeedsSibling(j) = Needs(is_node_on_path, j)
         /\ Sibling(j) = Other(is_node_on_path, j)
BY DEF NeedsSibling, Needs, Sibling, Other

LEMMA ListingFrame ==
  ASSUME UNCHANGED <<heap, indices>>, NEW M, NEW r, NEW m
  PROVE  /\ Marks(M) => Marks(M)'
         /\ Ranks(M, r, m) => Ranks(M, r, m)'
         /\ Listed(M, r, m) /\ path' = path => Listed(M, r, m)'
<1>1. Node' = Node /\ Internal' = Internal /\ num_leaves' = num_leaves
      /\ layers' = layers /\ indices' = indices
  BY DEF heap, Node, Internal
<1>2. Marks(M) => Marks(M)'
  BY <1>1 DEF Marks, IsOpened
<1>3. Ranks(M, r, m) => Ranks(M, r, m)'
  BY <1>1 DEF Ranks, Needs
<1>4. Listed(M, r, m) /\ path' = path => Listed(M, r, m)'
  BY <1>1 DEF Listed, Needs, Other
<1> QED
  BY <1>2, <1>3, <1>4

LEMMA AppendAt ==
  ASSUME NEW S, NEW s \in Seq(S), NEW x \in S
  PROVE  /\ Append(s, x) \in Seq(S) /\ Len(Append(s, x)) = Len(s) + 1
         /\ Append(s, x)[Len(s) + 1] = x
         /\ \A k \in 1 .. Len(s) : Append(s, x)[k] = s[k]
OBVIOUS

\* The ranks below m determine the rank of m - 1.
LEMMA RankStep ==
  ASSUME Geometry, NEW M, NEW r, NEW m \in Internal, Ranks(M, r, m)
  PROVE  \E t : /\ Ranks(M, t, m - 1)
                /\ \A j \in m .. num_leaves - 1 : t[j] = r[j]
                /\ t[m - 1] = IF Needs(M, m) THEN r[m] + 1 ELSE r[m]
<1> DEFINE v == IF Needs(M, m) THEN r[m] + 1 ELSE r[m]
           t == [r EXCEPT ![m - 1] = v]
<1>1. /\ r \in [0 .. num_leaves - 1 -> Nat] /\ num_leaves \in Nat \ {0}
      /\ m \in 1 .. num_leaves - 1 /\ m - 1 \in 0 .. num_leaves - 1
      /\ r[m] \in Nat
  BY DEF Ranks, Geometry, Internal
<1>2. v \in Nat /\ r[m] <= v
  BY <1>1
<1> HIDE DEF v
<1>3. t \in [0 .. num_leaves - 1 -> Nat] /\ t[m - 1] = v
  BY <1>1, <1>2
<1>4. \A j \in m .. num_leaves - 1 : t[j] = r[j] /\ r[j] \in Nat /\ r[j] <= r[m]
  BY <1>1 DEF Ranks
<1> HIDE DEF t
<1>5. t[num_leaves - 1] = 0
  BY <1>1, <1>4 DEF Ranks
<1>6. \A j \in Internal : j > m - 1 => t[j - 1] = IF Needs(M, j) THEN t[j] + 1 ELSE t[j]
  <2> SUFFICES ASSUME NEW j \in Internal, j > m - 1
               PROVE  t[j - 1] = IF Needs(M, j) THEN t[j] + 1 ELSE t[j]
    OBVIOUS
  <2>1. j \in m .. num_leaves - 1 /\ (j = m \/ j > m)
    BY <1>1 DEF Internal
  <2>2. CASE j = m
    BY <1>3, <1>4, <2>1, <2>2 DEF v
  <2>3. CASE j > m
    <3>1. j - 1 \in m .. num_leaves - 1
      BY <1>1, <2>1, <2>3
    <3>2. t[j - 1] = r[j - 1] /\ t[j] = r[j]
      BY <1>4, <2>1, <3>1
    <3>3. r[j - 1] = IF Needs(M, j) THEN r[j] + 1 ELSE r[j]
      BY <2>3 DEF Ranks
    <3> QED
      BY <3>2, <3>3
  <2> QED
    BY <2>1, <2>2, <2>3
<1>7. \A j \in m - 1 .. num_leaves - 1 : t[j] <= t[m - 1]
  <2> SUFFICES ASSUME NEW j \in m - 1 .. num_leaves - 1 PROVE t[j] <= t[m - 1]
    OBVIOUS
  <2>1. j = m - 1 \/ j \in m .. num_leaves - 1
    BY <1>1
  <2> QED
    BY <1>1, <1>2, <1>3, <1>4, <2>1
<1>8. Ranks(M, t, m - 1)
  BY <1>3, <1>5, <1>6, <1>7 DEF Ranks
<1> QED
  BY <1>3, <1>4, <1>8 DEF v

\* A digest listed above m was listed at its rank, within the path.
LEMMA RankBelow ==
  ASSUME Geometry, NEW M, NEW r, NEW m \in 0 .. num_leaves - 1, Ranks(M, r, m),
         NEW j \in Internal, j > m, Needs(M, j)
  PROVE  r[j] \in Nat /\ r[m] \in Nat /\ r[j] + 1 \in 1 .. r[m]
<1>1. j \in 0 .. num_leaves - 1 /\ j - 1 \in m .. num_leaves - 1 /\ m \in 0 .. num_leaves - 1
  BY DEF Internal, Geometry
<1>2. r[j] \in Nat /\ r[m] \in Nat /\ r[j - 1] = r[j] + 1 /\ r[j - 1] <= r[m]
  BY <1>1 DEF Ranks
<1> QED
  BY <1>2

LEMMA ListStep ==
  ASSUME Geometry, NEW M \in [Node -> BOOLEAN], NEW r, NEW m \in Internal,
         Ranks(M, r, m), Listed(M, r, m), path \in Seq(Digest), UNCHANGED heap,
         path' = IF Needs(M, m) THEN Append(path, layers[Other(M, m)]) ELSE path
  PROVE  path' \in Seq(Digest) /\ \E t : Ranks(M, t, m - 1)' /\ Listed(M, t, m - 1)'
<1>1. PICK t : /\ Ranks(M, t, m - 1)
               /\ \A j \in m .. num_leaves - 1 : t[j] = r[j]
               /\ t[m - 1] = IF Needs(M, m) THEN r[m] + 1 ELSE r[m]
  BY RankStep
<1>2. /\ Node' = Node /\ Internal' = Internal /\ num_leaves' = num_leaves
      /\ layers' = layers
  BY DEF heap, Node, Internal
<1>3. Ranks(M, t, m - 1)'
  BY <1>1, <1>2 DEF Ranks, Needs
<1>4. /\ m \in 1 .. num_leaves - 1 /\ m \in 0 .. num_leaves - 1 /\ num_leaves \in Nat
      /\ \A j \in Internal : j \in Nat /\ (j > m => j \in m .. num_leaves - 1)
      /\ m \in m .. num_leaves - 1
  BY DEF Internal, Geometry
<1>5. r[m] \in Nat /\ r[m] = Len(path) /\ t[m] = r[m]
  BY <1>1, <1>4 DEF Ranks, Listed
<1>6. \A j \in Internal : j > m /\ Needs(M, j) =>
        /\ t[j] = r[j] /\ r[j] \in Nat /\ r[j] + 1 \in 1 .. Len(path)
        /\ path[r[j] + 1] = layers[Other(M, j)]
  BY <1>1, <1>4, <1>5, RankBelow DEF Listed
<1>7. \A k \in 1 .. Len(path) : \E j \in Internal : j > m /\ Needs(M, j) /\ k = r[j] + 1
  BY <1>5 DEF Listed
<1>8. CASE Needs(M, m)
  <2>1. layers[Other(M, m)] \in Digest
    BY <1>8, OtherUnmarked DEF Digest
  <2>2. path' = Append(path, layers[Other(M, m)])
    BY <1>8
  <2>3. /\ path' \in Seq(Digest) /\ Len(path') = Len(path) + 1
        /\ path'[Len(path) + 1] = layers[Other(M, m)]
        /\ \A k \in 1 .. Len(path) : path'[k] = path[k]
    <3> DEFINE x == layers[Other(M, m)]
               s == Append(path, x)
    <3> x \in Digest
      BY <2>1
    <3> HIDE DEF x
    <3>1. /\ s \in Seq(Digest) /\ Len(s) = Len(path) + 1
          /\ s[Len(path) + 1] = x
          /\ \A k \in 1 .. Len(path) : s[k] = path[k]
      BY AppendAt
    <3> QED
      BY <2>2, <3>1, Zenon DEF x
  <2>4. \A j \in Internal : j > m - 1 /\ Needs(M, j) => path'[t[j] + 1] = layers[Other(M, j)]
    <3> SUFFICES ASSUME NEW j \in Internal, j > m - 1, Needs(M, j)
                 PROVE  path'[t[j] + 1] = layers[Other(M, j)]
      OBVIOUS
    <3>1. j = m \/ j > m
      BY <1>4
    <3>2. CASE j = m
      BY <1>5, <2>3, <3>2
    <3>3. CASE j > m
      BY <1>6, <2>3, <3>3
    <3> QED
      BY <3>1, <3>2, <3>3
  <2>5. \A k \in 1 .. Len(path) + 1 :
          \E j \in Internal : j > m - 1 /\ Needs(M, j) /\ k = t[j] + 1
    <3> SUFFICES ASSUME NEW k \in 1 .. Len(path) + 1
                 PROVE  \E j \in Internal : j > m - 1 /\ Needs(M, j) /\ k = t[j] + 1
      OBVIOUS
    <3>1. CASE k = Len(path) + 1
      BY <1>4, <1>5, <1>8, <3>1
    <3>2. CASE k \in 1 .. Len(path)
      <4>1. PICK j \in Internal : j > m /\ Needs(M, j) /\ k = r[j] + 1
        BY <1>7, <3>2
      <4>2. j > m - 1 /\ k = t[j] + 1
        BY <1>4, <1>6, <4>1
      <4> QED
        BY <4>1, <4>2
    <3> QED
      BY <1>5, <3>1, <3>2
  <2>6. t[m - 1] = Len(path) + 1
    BY <1>1, <1>5, <1>8
  <2>7. Digest' = Digest
    BY <1>2 DEF Digest
  <2>8. Listed(M, t, m - 1)'
    <3>1. Len(path') = t[m - 1]
      BY <2>3, <2>6
    <3>2. \A k \in 1 .. t[m - 1] :
            \E j \in Internal : j > m - 1 /\ Needs(M, j) /\ k = t[j] + 1
      BY <2>5, <2>6
    <3> QED
      BY <1>2, <2>4, <3>1, <3>2, Zenon DEF Listed, Needs, Other
  <2> QED
    BY <1>3, <2>3, <2>7, <2>8
<1>9. CASE ~Needs(M, m)
  <2>1. path' = path /\ t[m - 1] = Len(path)
    BY <1>1, <1>5, <1>9
  <2>2. \A j \in Internal : j > m - 1 /\ Needs(M, j) => j > m
    BY <1>4, <1>9
  <2>3. \A j \in Internal : j > m - 1 /\ Needs(M, j) => path[t[j] + 1] = layers[Other(M, j)]
    BY <1>6, <2>2
  <2>4. \A k \in 1 .. Len(path) :
          \E j \in Internal : j > m - 1 /\ Needs(M, j) /\ k = t[j] + 1
    <3> SUFFICES ASSUME NEW k \in 1 .. Len(path)
                 PROVE  \E j \in Internal : j > m - 1 /\ Needs(M, j) /\ k = t[j] + 1
      OBVIOUS
    <3>1. PICK j \in Internal : j > m /\ Needs(M, j) /\ k = r[j] + 1
      BY <1>7
    <3>2. j > m - 1 /\ k = t[j] + 1
      BY <1>4, <1>6, <3>1
    <3> QED
      BY <3>1, <3>2
  <2>5. Digest' = Digest
    BY <1>2 DEF Digest
  <2>6. Listed(M, t, m - 1)'
    BY <1>2, <2>1, <2>3, <2>4 DEF Listed, Needs, Other
  <2> QED
    BY <1>3, <2>1, <2>5, <2>6
<1> QED
  BY <1>8, <1>9

LEMMA InitPath == Init => PathInv
BY DEF Init, PathInv, GenerateInv, ReceivedInv, ConsumeInv, Checking, HonestInv,
       CanonicalPath, HonestAccepted

LEMMA NotDone ==
  ASSUME TypeOK', pc' # "done"
  PROVE  CanonicalPath' /\ HonestAccepted'
BY DEF TypeOK, CanonicalPath, HonestAccepted

LEMMA QuietPath ==
  ASSUME TypeOK', pc' \in {"commit", "build", "open", "panicked", "open_mark"}
  PROVE  PathInv'
BY NotDone DEF PathInv, GenerateInv, ReceivedInv, ConsumeInv, Checking, HonestInv

LEMMA StartGenerate ==
  ASSUME IInv, IInv', GenerateProof
  PROVE  PathInv'
<1> USE TypeGeometry DEF IInv, GenerateProof
<1>0. PICK r : r = [j \in 0 .. num_leaves - 1 |-> 0]
  OBVIOUS
<1>1. PICK M : M = is_node_on_path
  OBVIOUS
<1>2. /\ Node' = Node /\ Internal' = Internal /\ num_leaves' = num_leaves
      /\ layers' = layers /\ is_node_on_path' = M /\ indices' = indices
      /\ i' = num_leaves - 1 /\ path' = <<>> /\ pc' = "generate"
  BY <1>1 DEF heap, Node, Internal
<1>3. /\ num_leaves - 1 \in 0 .. num_leaves - 1 /\ num_leaves \in Nat
      /\ \A j \in Internal : ~(j > num_leaves - 1)
  BY DEF Geometry, Internal
<1>4. Marks(M)
  <2>1. M \in [Node -> BOOLEAN] /\ LeafMarks /\ ClosedAbove(0)
    BY <1>1 DEF MarkInv, Marking
  <2>2. \A j \in Internal : j > 0
    BY DEF Internal
  <2> QED
    BY <1>1, <2>1, <2>2 DEF LeafMarks, ClosedAbove, Marks
<1>5. Marks(is_node_on_path)'
  BY <1>2, <1>4 DEF Marks, IsOpened
<1>6. Ranks(M, r, num_leaves - 1)
  <2>1. r \in [0 .. num_leaves - 1 -> Nat] /\ r[num_leaves - 1] = 0
    BY <1>0, <1>3
  <2>2. \A j \in num_leaves - 1 .. num_leaves - 1 : j = num_leaves - 1
    BY <1>3
  <2>3. r[num_leaves - 1] <= r[num_leaves - 1]
    BY <2>1
  <2>4. \A j \in num_leaves - 1 .. num_leaves - 1 : r[j] <= r[num_leaves - 1]
    BY <2>2, <2>3, Zenon
  <2>5. \A j \in Internal : j > num_leaves - 1 =>
          r[j - 1] = IF Needs(M, j) THEN r[j] + 1 ELSE r[j]
    BY <1>3, Zenon
  <2> QED
    BY <2>1, <2>4, <2>5 DEF Ranks
<1>7. Ranks(is_node_on_path, r, i)'
  BY <1>2, <1>6, Zenon DEF Ranks, Needs
<1>8. Listed(is_node_on_path, r, i)'
  <2>1. Len(path') = 0 /\ r[num_leaves - 1] = 0 /\ 1 .. r[num_leaves - 1] = {}
    BY <1>0, <1>2, <1>3
  <2>2. \A k \in 1 .. r[num_leaves - 1] : FALSE
    BY <2>1
  <2> QED
    BY <1>2, <1>3, <2>1, <2>2, Zenon DEF Listed
<1>9. path' \in Seq(Digest')
  BY <1>2
<1>10. GenerateInv'
  BY <1>5, <1>7, <1>8, <1>9 DEF GenerateInv
<1>11. ReceivedInv' /\ ConsumeInv' /\ HonestInv'
  BY <1>2 DEF ReceivedInv, ConsumeInv, Checking, HonestInv
<1> QED
  BY <1>2, <1>10, <1>11, NotDone DEF PathInv

LEMMA GenerateStepPath ==
  ASSUME IInv, IInv', PathInv, GenerateStep
  PROVE  PathInv'
<1> USE TypeGeometry DEF IInv, GenerateStep
<1>1. PICK M : M = is_node_on_path
  OBVIOUS
<1>2. PICK m : m = i
  OBVIOUS
<1>3. PICK r : Ranks(M, r, m) /\ Listed(M, r, m)
  BY <1>1, <1>2 DEF PathInv, GenerateInv
<1>4. Marks(M) /\ M \in [Node -> BOOLEAN] /\ path \in Seq(Digest)
  BY <1>1 DEF PathInv, GenerateInv, Marks
<1>5. m \in Internal
  BY <1>2 DEF TypeOK, Internal, Geometry
<1>6. path' = IF Needs(M, m) THEN Append(path, layers[Other(M, m)]) ELSE path
  BY <1>1, <1>2, NeedsIsSibling
<1>7. PICK t : path' \in Seq(Digest) /\ Ranks(M, t, m - 1)' /\ Listed(M, t, m - 1)'
  BY <1>3, <1>4, <1>5, <1>6, ListStep
<1>8. /\ Node' = Node /\ layers' = layers /\ is_node_on_path' = M /\ i' = m - 1
      /\ pc' = "generate"
  BY <1>1, <1>2 DEF heap, Node
<1>9. Marks(M)'
  BY <1>4, ListingFrame
<1>10. Marks(is_node_on_path)'
  BY <1>8, <1>9 DEF Marks
<1>11. Ranks(is_node_on_path, t, i)'
  BY <1>7, <1>8, Zenon DEF Ranks, Needs
<1>12. Listed(is_node_on_path, t, i)'
  BY <1>7, <1>8, Zenon DEF Listed, Needs, Other
<1>13. path' \in Seq(Digest')
  BY <1>7, <1>8 DEF Digest
<1>14. GenerateInv'
  BY <1>10, <1>11, <1>12, <1>13 DEF GenerateInv
<1>15. ReceivedInv' /\ ConsumeInv' /\ HonestInv'
  BY <1>8 DEF ReceivedInv, ConsumeInv, Checking, HonestInv
<1> QED
  BY <1>8, <1>14, <1>15, NotDone DEF PathInv

LEMMA ReceivePath ==
  ASSUME IInv, IInv', PathInv, ReceiveHonest \/ ReceiveOther
  PROVE  PathInv'
<1> USE TypeGeometry DEF IInv
<1>1. PICK p : Receive(p)
  BY DEF ReceiveHonest, ReceiveOther
<1>2. UNCHANGED <<heap, indices, path>> /\ pc' = "verify" /\ proof' = p
  BY <1>1 DEF Receive
<1>3. Node' = Node /\ layers' = layers /\ num_leaves' = num_leaves
  BY <1>2 DEF heap, Node
<1>4. Markable' = Markable
  BY <1>2, <1>3 DEF Markable, BadIndex
<1>5. Digest' = Digest
  BY <1>3 DEF Digest
<1>6. ASSUME Markable
      PROVE  /\ path' \in Seq(Digest') /\ proof'.path \in Seq(Digest' \cup Foreign)
             /\ \E M, r : Marks(M)' /\ Ranks(M, r, 0)' /\ Listed(M, r, 0)'
  <2>1. pc = "generate" /\ i = 0
    BY <1>6 DEF ReceiveHonest, ReceiveOther
  <2>2. PICK M : M = is_node_on_path
    OBVIOUS
  <2>3. PICK r : Ranks(M, r, 0) /\ Listed(M, r, 0)
    BY <2>1, <2>2 DEF PathInv, GenerateInv
  <2>4. Marks(M) /\ path \in Seq(Digest)
    BY <2>1, <2>2 DEF PathInv, GenerateInv
  <2>5. Marks(M)' /\ Ranks(M, r, 0)' /\ Listed(M, r, 0)'
    BY <1>2, <2>3, <2>4, ListingFrame
  <2>6. CASE ReceiveHonest
    <3>1. proof'.path = path
      BY <2>6 DEF ReceiveHonest, Receive, HonestProof
    <3>2. path \in Seq(Digest \cup Foreign)
      BY <2>4
    <3> QED
      BY <1>2, <1>5, <2>4, <2>5, <3>1, <3>2, Zenon
  <2>7. CASE ReceiveOther
    <3>1. PICK e \in AnyProof(Range(layers) \cup Foreign) : Receive(e)
      BY <2>7 DEF ReceiveOther
    <3>2. e.path \in BoundedSeq(Range(layers) \cup Foreign, MaxPath)
      BY <3>1 DEF AnyProof
    <3>3. Range(layers) = Digest
      BY DEF Range, Digest, HeapInv, ReceiveHonest, ReceiveOther
    <3>4. e.path \in Seq(Digest \cup Foreign)
      BY <3>2, <3>3 DEF BoundedSeq, SeqOf
    <3>5. proof' = e
      BY <3>1 DEF Receive
    <3> QED
      BY <1>2, <1>5, <2>4, <2>5, <3>4, <3>5, Zenon
  <2> QED
    BY <2>6, <2>7
<1>7. ReceivedInv'
  BY <1>2, <1>4, <1>6 DEF ReceivedInv
<1>8. GenerateInv' /\ ConsumeInv' /\ HonestInv'
  BY <1>2 DEF GenerateInv, ConsumeInv, Checking, HonestInv
<1> QED
  BY <1>2, <1>7, <1>8, NotDone DEF PathInv

LEMMA VerifyMarkPath ==
  ASSUME IInv, IInv', PathInv, VerifyMark \/ MarkStep("verify_mark")
  PROVE  PathInv'
<1>1. /\ UNCHANGED <<heap, indices, path>> /\ proof' = proof /\ pc' = "verify_mark"
      /\ pc \in {"verify", "verify_mark"} /\ known' = {} /\ Markable
  BY DEF VerifyMark, MarkStep, heap, PathInv, ConsumeInv, IInv, MarkInv, Marking
<1>2. Digest' = Digest /\ Markable' = Markable
  BY <1>1 DEF heap, Digest, Node, Markable, BadIndex
<1>3. PICK M, r : Marks(M) /\ Ranks(M, r, 0) /\ Listed(M, r, 0)
  BY <1>1 DEF PathInv, ReceivedInv
<1>4. Marks(M)' /\ Ranks(M, r, 0)' /\ Listed(M, r, 0)'
  BY <1>1, <1>3, ListingFrame
<1>5. path' \in Seq(Digest') /\ proof'.path \in Seq(Digest' \cup Foreign)
  BY <1>1, <1>2 DEF PathInv, ReceivedInv
<1>6. ReceivedInv'
  BY <1>4, <1>5 DEF ReceivedInv
<1>7. GenerateInv' /\ ConsumeInv' /\ HonestInv'
  BY <1>1 DEF GenerateInv, ConsumeInv, Checking, HonestInv
<1> QED
  BY <1>1, <1>6, <1>7, NotDone DEF PathInv, IInv

LEMMA CheckingMarks ==
  ASSUME IInv, Checking \/ (pc = "verify_mark" /\ i = 0)
  PROVE  Marks(is_node_on_path) /\ Markable
<1>1. is_node_on_path \in [Node -> BOOLEAN] /\ LeafMarks /\ ClosedAbove(0) /\ Markable
  BY DEF IInv, MarkInv, Checking, Marking
<1>2. \A j \in Internal : j > 0
  BY DEF Internal
<1> QED
  BY <1>1, <1>2 DEF LeafMarks, ClosedAbove, Marks

LEMMA StartSiblingsPath ==
  ASSUME IInv, IInv', PathInv, StartSiblings
  PROVE  PathInv'
<1> USE TypeGeometry DEF IInv
<1>1. is_node_on_path[1]
  BY DEF StartSiblings, Reject, TypeOK, Verdict
<1>2. /\ UNCHANGED <<heap, indices, path>> /\ proof' = proof /\ pc' = "siblings"
      /\ is_node_on_path' = is_node_on_path /\ proof_idx' = 0 /\ i' = num_leaves - 1
      /\ pc = "verify_mark" /\ i = 0 /\ known' = {}
  BY <1>1 DEF StartSiblings, PathInv, ConsumeInv
<1>3. Marks(is_node_on_path) /\ Markable
  BY <1>2, CheckingMarks
<1>4. PICK M, r : Marks(M) /\ Ranks(M, r, 0) /\ Listed(M, r, 0)
  BY <1>2, <1>3 DEF PathInv, ReceivedInv
<1>5. M = is_node_on_path
  BY <1>3, <1>4, MarksUnique
<1>6. Ranks(M, r, 0)' /\ Listed(M, r, 0)'
  BY <1>2, <1>4, ListingFrame
<1>7. M = is_node_on_path'
  BY <1>2, <1>5
<1>8. Ranks(is_node_on_path, r, 0)' /\ Listed(is_node_on_path, r, 0)'
  <2>1. Ranks(is_node_on_path, r, 0)'
    BY <1>6, <1>7, Zenon DEF Ranks, Needs
  <2>2. Listed(is_node_on_path, r, 0)'
    BY <1>6, <1>7, Zenon DEF Listed, Needs, Other
  <2> QED
    BY <2>1, <2>2
<1>9. /\ Digest' = Digest /\ Markable' = Markable /\ num_leaves' = num_leaves
      /\ Internal' = Internal
  BY <1>2 DEF heap, Digest, Node, Internal, Markable, BadIndex
<1>10. path' \in Seq(Digest') /\ proof'.path \in Seq(Digest' \cup Foreign)
  BY <1>2, <1>3, <1>9 DEF PathInv, ReceivedInv
<1>11. Consumed(r, i)'
  <2>1. r[num_leaves - 1] = 0
    BY <1>4 DEF Ranks
  <2>2. \A j \in Internal : ~(j > num_leaves - 1)
    BY DEF Internal, Geometry
  <2>3. Len(proof'.path) \in Nat
    BY <1>10
  <2>4. proof_idx' = r[i'] /\ proof_idx' <= Len(proof'.path)
    BY <1>2, <2>1, <2>3
  <2> QED
    BY <1>2, <1>9, <2>2, <2>4, Zenon DEF Consumed
<1>12. ConsumeInv'
  BY <1>2, <1>8, <1>11 DEF ConsumeInv, Checking, KnownBelowMarked
<1>13. ReceivedInv'
  BY <1>2, <1>10 DEF ReceivedInv
<1>14. GenerateInv' /\ HonestInv'
  BY <1>2 DEF GenerateInv, HonestInv
<1> QED
  BY <1>2, <1>12, <1>13, <1>14, NotDone DEF PathInv

(***************************************************************************)
(* A verdict: what an Ok and what a refusal have to show.                  *)
(***************************************************************************)
LEMMA VerdictPath ==
  ASSUME NEW e, Reject(e), e = "Ok" => proof.path = path,
         e # "Ok" => ~(Markable /\ proof = HonestProof)
  PROVE  PathInv'
<1>1. /\ pc' = "done" /\ result' = e /\ UNCHANGED <<heap, indices, path, proof>>
  BY DEF Reject
<1>2. Markable' = Markable /\ HonestProof' = HonestProof
  BY <1>1 DEF heap, Markable, BadIndex, HonestProof
<1> QED
  BY <1>1, <1>2 DEF PathInv, GenerateInv, ReceivedInv, ConsumeInv, Checking, HonestInv,
                    CanonicalPath, HonestAccepted

LEMMA RejectingPath ==
  ASSUME IInv, PathInv, VerifyNonceLength \/ VerifyIndices \/ PathTooShort \/ PathTooLong
  PROVE  PathInv'
<1> USE TypeGeometry DEF IInv
<1>1. CASE VerifyNonceLength
  <2>1. Len(proof.nonce) # Len(indices) /\ Reject("InvalidNonceLength")
    BY <1>1 DEF VerifyNonceLength
  <2>2. indices \in Seq(0 .. num_leaves)
    BY DEF TypeOK
  <2>3. ASSUME proof = HonestProof PROVE Len(proof.nonce) = Len(indices)
    <3>1. proof.nonce = [q \in DOMAIN indices |-> salt[indices[q]]]
      BY <2>3 DEF HonestProof
    <3>2. DOMAIN indices = 1 .. Len(indices) /\ Len(indices) \in Nat
      BY <2>2
    <3> QED
      BY <3>1, <3>2
  <2> QED
    BY <2>1, <2>3, VerdictPath
<1>2. CASE VerifyIndices
  <2>1. PICK e \in Verdict \ {"Ok"} : Reject(e)
    BY <1>2 DEF VerifyIndices, MarkError, IndexError, Verdict
  <2> QED
    BY <1>2, <2>1, VerdictPath DEF VerifyIndices
<1>3. ASSUME pc = "siblings", proof = HonestProof
      PROVE  \E r : /\ Ranks(is_node_on_path, r, 0) /\ Consumed(r, i)
                    /\ Len(proof.path) = r[0]
  BY <1>3 DEF PathInv, ConsumeInv, Listed, HonestProof
<1>4. CASE PathTooShort
  <2>1. /\ pc = "siblings" /\ i \in Internal /\ NeedsSibling(i) /\ proof_idx >= Len(proof.path)
        /\ Reject("ProofLengthMismatch") /\ 0 \in 0 .. num_leaves - 1 /\ i > 0
        /\ i \in 0 .. num_leaves - 1
    BY <1>4 DEF PathTooShort, TypeOK, Internal, Geometry
  <2>2. ASSUME proof = HonestProof PROVE FALSE
    <3>1. PICK r : /\ Ranks(is_node_on_path, r, 0) /\ Consumed(r, i)
                   /\ Len(proof.path) = r[0]
      BY <1>3, <2>1, <2>2
    <3>2. r[i] \in Nat /\ r[0] \in Nat /\ r[i] + 1 \in 1 .. r[0]
      BY <2>1, <3>1, RankBelow, NeedsIsSibling
    <3>3. proof_idx = r[i]
      BY <3>1 DEF Consumed
    <3> QED
      BY <2>1, <3>1, <3>2, <3>3
  <2> QED
    BY <2>1, <2>2, VerdictPath
<1>5. CASE PathTooLong
  <2>1. /\ pc = "siblings" /\ i = 0 /\ ~PathConsumed /\ Reject("ProofLengthMismatch")
    BY <1>5 DEF PathTooLong
  <2>2. ASSUME proof = HonestProof PROVE FALSE
    BY <1>3, <2>1, <2>2 DEF Consumed, PathConsumed
  <2> QED
    BY <2>1, <2>2, VerdictPath
<1> QED
  BY <1>1, <1>2, <1>4, <1>5

(***************************************************************************)
(* The passes of the verifier over the path.                               *)
(***************************************************************************)
LEMMA CheckingFrame ==
  ASSUME UNCHANGED <<heap, indices, path, is_node_on_path, proof>>
  PROVE  /\ Node' = Node /\ Internal' = Internal /\ Digest' = Digest
         /\ Markable' = Markable /\ HonestProof' = HonestProof /\ layers' = layers
         /\ \A j : NeedsSibling(j)' = NeedsSibling(j) /\ Sibling(j)' = Sibling(j)
         /\ \A r : Ranks(is_node_on_path, r, 0) => Ranks(is_node_on_path, r, 0)'
         /\ \A r : Listed(is_node_on_path, r, 0) => Listed(is_node_on_path, r, 0)'
<1>1. /\ Node' = Node /\ Internal' = Internal /\ Digest' = Digest
      /\ Markable' = Markable /\ HonestProof' = HonestProof /\ layers' = layers
  BY DEF heap, Node, Internal, Digest, Markable, BadIndex, HonestProof
<1>2. \A j : NeedsSibling(j)' = NeedsSibling(j) /\ Sibling(j)' = Sibling(j)
  BY DEF NeedsSibling, Sibling
<1>3. PICK M : M = is_node_on_path
  OBVIOUS
<1>4. M = is_node_on_path'
  BY <1>3
<1>5. ASSUME NEW r, Ranks(is_node_on_path, r, 0) PROVE Ranks(is_node_on_path, r, 0)'
  <2>1. Ranks(M, r, 0)'
    BY <1>3, <1>5, ListingFrame
  <2> QED
    BY <1>4, <2>1, Zenon DEF Ranks, Needs
<1>6. ASSUME NEW r, Listed(is_node_on_path, r, 0) PROVE Listed(is_node_on_path, r, 0)'
  <2>1. Listed(M, r, 0)'
    BY <1>3, <1>6, ListingFrame
  <2> QED
    BY <1>4, <2>1, Zenon DEF Listed, Needs, Other
<1> QED
  BY <1>1, <1>2, <1>5, <1>6

LEMMA ReceivedKept ==
  ASSUME IInv, PathInv, Checking, Checking',
         UNCHANGED <<heap, indices, path, is_node_on_path, proof>>
  PROVE  ReceivedInv' /\ GenerateInv'
<1>1. Digest' = Digest /\ Markable
  BY CheckingFrame, CheckingMarks
<1>2. path' \in Seq(Digest') /\ proof'.path \in Seq(Digest' \cup Foreign)
  BY <1>1 DEF PathInv, ReceivedInv, Checking
<1> QED
  BY <1>2 DEF ReceivedInv, GenerateInv, Checking

LEMMA SiblingStepPath ==
  ASSUME IInv, IInv', PathInv, SiblingStep
  PROVE  PathInv'
<1> USE TypeGeometry DEF IInv
<1>0. /\ UNCHANGED <<heap, indices, path, is_node_on_path, proof>> /\ pc = "siblings"
      /\ pc' = "siblings" /\ i' = i - 1 /\ i >= 1
  BY DEF SiblingStep
<1>1. Checking /\ Checking' /\ pc' # "done"
  BY <1>0 DEF Checking
<1>2. /\ Marks(is_node_on_path) /\ Markable /\ is_node_on_path \in [Node -> BOOLEAN]
  BY <1>1, CheckingMarks DEF Marks
<1>3. PICK r : /\ Ranks(is_node_on_path, r, 0) /\ Listed(is_node_on_path, r, 0)
               /\ Consumed(r, i)
  BY <1>0 DEF PathInv, ConsumeInv
<1>4. /\ i \in Internal /\ i > 0 /\ i \in Nat /\ i \in 0 .. num_leaves - 1
      /\ 0 \in 0 .. num_leaves - 1 /\ known \subseteq Node /\ DOMAIN computed = Node
  BY <1>0, <1>1 DEF TypeOK, Internal, Geometry
<1>5. /\ proof_idx = r[i] /\ r[i] \in Nat
      /\ r[i - 1] = IF NeedsSibling(i) THEN r[i] + 1 ELSE r[i]
  BY <1>3, <1>4, NeedsIsSibling DEF Consumed, Ranks
<1>6. Len(proof.path) \in Nat /\ proof_idx <= Len(proof.path)
  <2>1. proof.path \in Seq(Digest \cup Foreign)
    BY <1>0, <1>2 DEF PathInv, ReceivedInv
  <2> QED
    BY <1>3, <2>1 DEF Consumed
<1>7. \A j \in Internal : j > i /\ NeedsSibling(j) =>
        computed[Sibling(j)] = proof.path[r[j] + 1]
  BY <1>3 DEF Consumed
<1>8. \A j \in Internal : j = i \/ (j > i - 1 <=> j > i)
  BY <1>4 DEF Internal
<1>9. CASE NeedsSibling(i)
  <2>1. /\ computed' = [computed EXCEPT ![Sibling(i)] = proof.path[proof_idx + 1]]
        /\ known' = known \cup {Sibling(i)}
        /\ proof_idx' = proof_idx + 1 /\ proof_idx < Len(proof.path)
    BY <1>9 DEF SiblingStep
  <2>2. Sibling(i) \in Node /\ Sibling(i) \in {2 * i, 2 * i + 1}
    BY <1>2, <1>4, <1>9, OtherUnmarked, NeedsIsSibling
  <2>3. computed'[Sibling(i)] = proof.path[r[i] + 1]
    BY <1>4, <1>5, <2>1, <2>2
  <2>4. \A k \in Node : k # Sibling(i) => computed'[k] = computed[k]
    BY <1>4, <2>1
  <2>5. \A j \in Internal : j > i - 1 /\ NeedsSibling(j) =>
          computed'[Sibling(j)] = proof.path[r[j] + 1]
    <3> SUFFICES ASSUME NEW j \in Internal, j > i - 1, NeedsSibling(j)
                 PROVE  computed'[Sibling(j)] = proof.path[r[j] + 1]
      OBVIOUS
    <3>1. CASE j = i
      BY <2>3, <3>1
    <3>2. CASE j # i
      <4>1. Sibling(j) \in Node /\ Sibling(j) # Sibling(i)
        BY <1>2, <1>4, <3>2, OtherUnmarked, OtherDistinct, NeedsIsSibling
      <4> QED
        BY <1>7, <1>8, <2>4, <3>2, <4>1
    <3> QED
      BY <3>1, <3>2
  <2>6. proof_idx' = r[i - 1] /\ proof_idx' <= Len(proof.path)
    BY <1>5, <1>6, <1>9, <2>1
  <2>7. \A j \in Internal : (2 * j \in known' \/ 2 * j + 1 \in known') => is_node_on_path[j]
    <3> SUFFICES ASSUME NEW j \in Internal, 2 * j \in known' \/ 2 * j + 1 \in known'
                 PROVE  is_node_on_path[j]
      OBVIOUS
    <3>1. CASE 2 * j \in known \/ 2 * j + 1 \in known
      BY <1>1, <3>1 DEF PathInv, ConsumeInv, KnownBelowMarked
    <3>2. CASE 2 * j = Sibling(i) \/ 2 * j + 1 = Sibling(i)
      <4>1. j = i
        BY <1>4, <2>2, <3>2 DEF Internal
      <4> QED
        BY <1>9, <4>1 DEF NeedsSibling
    <3> QED
      BY <2>1, <3>1, <3>2
  <2>8. ASSUME proof = HonestProof, NEW k \in known' PROVE computed'[k] = layers[k]
    <3>1. CASE k = Sibling(i)
      <4>1. path[r[i] + 1] = layers[Sibling(i)]
        BY <1>3, <1>4, <1>9, NeedsIsSibling DEF Listed
      <4>2. proof.path = path
        BY <2>8 DEF HonestProof
      <4> QED
        BY <2>3, <3>1, <4>1, <4>2
    <3>2. CASE k # Sibling(i)
      BY <1>1, <1>4, <2>1, <2>4, <2>8, <3>2 DEF PathInv, HonestInv
    <3> QED
      BY <3>1, <3>2
  <2> QED
    <3>1. Consumed(r, i)'
      BY <1>0, <2>5, <2>6, CheckingFrame DEF Consumed
    <3>2. KnownBelowMarked'
      BY <1>0, <2>7, CheckingFrame DEF KnownBelowMarked
    <3>3. Ranks(is_node_on_path, r, 0)' /\ Listed(is_node_on_path, r, 0)'
      BY <1>0, <1>3, CheckingFrame
    <3>4. ConsumeInv'
      BY <1>0, <3>1, <3>2, <3>3 DEF ConsumeInv
    <3>5. HonestInv'
      BY <1>0, <2>8, CheckingFrame DEF HonestInv
    <3>6. ReceivedInv' /\ GenerateInv'
      BY <1>0, <1>1, ReceivedKept
    <3> QED
      BY <1>1, <3>4, <3>5, <3>6, NotDone DEF PathInv
<1>10. CASE ~NeedsSibling(i)
  <2>1. UNCHANGED <<computed, known, proof_idx>>
    BY <1>10 DEF SiblingStep
  <2>2. \A j \in Internal : j > i - 1 /\ NeedsSibling(j) =>
          computed[Sibling(j)] = proof.path[r[j] + 1]
    BY <1>7, <1>8, <1>10
  <2>3. Consumed(r, i)'
    BY <1>0, <1>5, <1>6, <1>10, <2>1, <2>2, CheckingFrame DEF Consumed
  <2>4. KnownBelowMarked'
    BY <1>0, <1>1, <2>1, CheckingFrame DEF PathInv, ConsumeInv, KnownBelowMarked
  <2>5. Ranks(is_node_on_path, r, 0)' /\ Listed(is_node_on_path, r, 0)'
    BY <1>0, <1>3, CheckingFrame
  <2>6. ConsumeInv'
    BY <1>0, <2>3, <2>4, <2>5 DEF ConsumeInv
  <2>7. HonestInv'
    BY <1>0, <1>1, <2>1, CheckingFrame DEF PathInv, HonestInv
  <2>8. ReceivedInv' /\ GenerateInv'
    BY <1>0, <1>1, ReceivedKept
  <2> QED
    BY <1>1, <2>6, <2>7, <2>8, NotDone DEF PathInv
<1> QED
  BY <1>9, <1>10

\* Writing marked nodes leaves the supplied siblings alone.
LEMMA SuppliedKept ==
  ASSUME Geometry, is_node_on_path \in [Node -> BOOLEAN], NEW r,
         UNCHANGED <<heap, indices, path, is_node_on_path, proof, proof_idx>>,
         Consumed(r, 0),
         \A k \in Node : ~is_node_on_path[k] => computed'[k] = computed[k]
  PROVE  Consumed(r, 0)'
<1>1. \A j \in Internal : NeedsSibling(j) => computed'[Sibling(j)] = computed[Sibling(j)]
  BY OtherUnmarked, NeedsIsSibling
<1> QED
  BY <1>1, CheckingFrame DEF Consumed

LEMMA PopulatePath ==
  ASSUME IInv, IInv', PathInv, Populate
  PROVE  PathInv'
<1> USE TypeGeometry DEF IInv
<1>0. /\ UNCHANGED <<heap, indices, path, is_node_on_path, proof, proof_idx>>
      /\ pc = "siblings" /\ pc' = "rebuild" /\ i = 0 /\ proof_idx = Len(proof.path)
      /\ known' = known \cup {indices[q] + num_leaves : q \in DOMAIN indices}
  BY DEF Populate, PathConsumed
<1>1. Checking /\ Checking' /\ pc' # "done"
  BY <1>0 DEF Checking
<1>2. /\ Marks(is_node_on_path) /\ Markable /\ is_node_on_path \in [Node -> BOOLEAN]
  BY <1>1, CheckingMarks DEF Marks
<1>3. PICK r : /\ Ranks(is_node_on_path, r, 0) /\ Listed(is_node_on_path, r, 0)
               /\ Consumed(r, 0)
  BY <1>0 DEF PathInv, ConsumeInv
<1>4. \A q \in DOMAIN indices :
        /\ indices[q] \in 0 .. num_leaves - 1 /\ indices[q] + num_leaves \in Node
        /\ indices[q] + num_leaves = num_leaves + indices[q]
        /\ is_node_on_path[indices[q] + num_leaves]
  <2> SUFFICES ASSUME NEW q \in DOMAIN indices
               PROVE  /\ indices[q] \in 0 .. num_leaves - 1 /\ indices[q] + num_leaves \in Node
                      /\ indices[q] + num_leaves = num_leaves + indices[q]
                      /\ is_node_on_path[indices[q] + num_leaves]
    OBVIOUS
  <2>1. indices[q] \in 0 .. num_leaves - 1 /\ indices[q] + num_leaves \in Node
    BY <1>2, MarkableIndices
  <2>2. indices[q] + num_leaves = num_leaves + indices[q]
    BY <2>1 DEF Geometry
  <2>3. IsOpened(num_leaves + indices[q])
    BY <2>2 DEF IsOpened
  <2> QED
    BY <1>2, <2>1, <2>2, <2>3 DEF Marks
<1>5. \A k \in Node : ~IsOpened(k) => computed'[k] = computed[k]
  BY DEF Populate, IsOpened
<1>6. \A k \in Node : ~is_node_on_path[k] => computed'[k] = computed[k]
  BY <1>4, <1>5 DEF IsOpened
<1>7. Consumed(r, 0)'
  BY <1>0, <1>2, <1>3, <1>6, SuppliedKept
<1>8. Ranks(is_node_on_path, r, 0)' /\ Listed(is_node_on_path, r, 0)'
  BY <1>0, <1>3, CheckingFrame
<1>9. Len(proof'.path) = r[0]
  BY <1>0, <1>3 DEF Consumed
<1>10. KnownBelowMarked'
  <2>1. \A j \in Internal : (2 * j \in known' \/ 2 * j + 1 \in known') => is_node_on_path[j]
    <3> SUFFICES ASSUME NEW j \in Internal, NEW c \in {2 * j, 2 * j + 1}, c \in known'
                 PROVE  is_node_on_path[j]
      OBVIOUS
    <3>1. CASE c \in known
      BY <1>1, <3>1 DEF PathInv, ConsumeInv, KnownBelowMarked
    <3>2. CASE c \notin known
      <4>1. is_node_on_path[c]
        BY <1>0, <1>4, <3>2
      <4> QED
        BY <1>2, <4>1 DEF Marks
    <3> QED
      BY <3>1, <3>2
  <2> QED
    BY <1>0, <2>1, CheckingFrame DEF KnownBelowMarked
<1>11. ConsumeInv'
  BY <1>0, <1>7, <1>8, <1>9, <1>10 DEF ConsumeInv
<1>12. HonestInv'
  <2> SUFFICES ASSUME proof = HonestProof, NEW k \in known' PROVE computed'[k] = layers[k]
    BY <1>0, CheckingFrame DEF HonestInv
  <2>1. ASSUME NEW q \in DOMAIN indices, k = indices[q] + num_leaves
        PROVE  computed'[k] = layers[k]
    <3>1. computed'[k] = OpenedLeaf(q)
      <4>1. LeavesIn'
        BY <1>0 DEF CheckInv
      <4>2. computed'[indices[q] + num_leaves] = OpenedLeaf(q)'
        BY <1>0, <4>1 DEF LeavesIn, heap
      <4>3. OpenedLeaf(q)' = OpenedLeaf(q)
        BY <1>0 DEF OpenedLeaf
      <4> QED
        BY <2>1, <4>2, <4>3
    <3>2. proof.nonce[q] = salt[indices[q]] /\ proof.column[q] = column[indices[q]]
      BY DEF HonestProof
    <3>3. layers[num_leaves + indices[q]] = LeafHash(salt[indices[q]], column[indices[q]])
      BY <1>0, <1>4 DEF HeapInv
    <3> QED
      BY <1>4, <2>1, <3>1, <3>2, <3>3 DEF OpenedLeaf
  <2>2. CASE ~IsOpened(k)
    <3>1. k \in known /\ k \in Node
      BY <1>0, <2>2 DEF IsOpened, TypeOK
    <3> QED
      BY <1>1, <1>5, <2>2, <3>1 DEF PathInv, HonestInv
  <2> QED
    BY <2>1, <2>2 DEF IsOpened
<1>13. ReceivedInv' /\ GenerateInv'
  BY <1>0, <1>1, ReceivedKept
<1> QED
  BY <1>1, <1>11, <1>12, <1>13, NotDone DEF PathInv

LEMMA RebuildStepPath ==
  ASSUME IInv, IInv', PathInv, RebuildStep
  PROVE  PathInv'
<1> USE TypeGeometry DEF IInv
<1>0. /\ UNCHANGED <<heap, indices, path, is_node_on_path, proof, proof_idx>>
      /\ pc = "rebuild" /\ pc' = "rebuild" /\ i >= 1
  BY DEF RebuildStep
<1>1. Checking /\ Checking' /\ pc' # "done"
  BY <1>0 DEF Checking
<1>2. /\ Marks(is_node_on_path) /\ Markable /\ is_node_on_path \in [Node -> BOOLEAN]
  BY <1>1, CheckingMarks DEF Marks
<1>3. PICK r : /\ Ranks(is_node_on_path, r, 0) /\ Listed(is_node_on_path, r, 0)
               /\ Consumed(r, 0) /\ Len(proof.path) = r[0]
  BY <1>0 DEF PathInv, ConsumeInv
<1>4. /\ i \in Internal /\ i > 0 /\ i \in Node /\ known \subseteq Node
      /\ DOMAIN computed = Node
  BY <1>0, <1>1, Children DEF TypeOK, Internal, Geometry, Checking
<1>5. KnownBelowMarked
  BY <1>1 DEF PathInv, ConsumeInv
<1>6. ASSUME NEW k \in Node, computed'[k] # computed[k] \/ k \in known' \ known
      PROVE  /\ k = i /\ is_node_on_path[i] /\ {2 * i, 2 * i + 1} \subseteq known
             /\ computed'[i] = hash2(computed[2 * i], computed[2 * i + 1])
  <2>1. {2 * i, 2 * i + 1} \subseteq known
    BY <1>6 DEF RebuildStep
  <2>2. /\ computed' = [computed EXCEPT ![i] = hash2(computed[2 * i], computed[2 * i + 1])]
        /\ known' = known \cup {i}
    BY <2>1 DEF RebuildStep
  <2>3. k = i /\ computed'[i] = hash2(computed[2 * i], computed[2 * i + 1])
    BY <1>4, <1>6, <2>2
  <2> QED
    BY <1>4, <1>5, <2>1, <2>3 DEF KnownBelowMarked
<1>7. Consumed(r, 0)'
  BY <1>0, <1>2, <1>3, <1>6, SuppliedKept
<1>8. Ranks(is_node_on_path, r, 0)' /\ Listed(is_node_on_path, r, 0)'
  BY <1>0, <1>3, CheckingFrame
<1>9. Len(proof'.path) = r[0]
  BY <1>0, <1>3
<1>10. KnownBelowMarked'
  <2>1. \A j \in Internal : (2 * j \in known' \/ 2 * j + 1 \in known') => is_node_on_path[j]
    <3> SUFFICES ASSUME NEW j \in Internal, NEW c \in {2 * j, 2 * j + 1}, c \in known'
                 PROVE  is_node_on_path[j]
      OBVIOUS
    <3>1. CASE c \in known
      BY <1>5, <3>1 DEF KnownBelowMarked
    <3>2. CASE c \notin known
      <4>1. c \in Node
        BY Children
      <4>2. c = i /\ is_node_on_path[i]
        BY <1>6, <3>2, <4>1
      <4> QED
        BY <1>2, <4>2 DEF Marks
    <3> QED
      BY <3>1, <3>2
  <2> QED
    BY <1>0, <2>1, CheckingFrame DEF KnownBelowMarked
<1>11. ConsumeInv'
  BY <1>0, <1>7, <1>8, <1>9, <1>10 DEF ConsumeInv
<1>12. HonestInv'
  <2> SUFFICES ASSUME proof = HonestProof, NEW k \in known' PROVE computed'[k] = layers[k]
    BY <1>0, CheckingFrame DEF HonestInv
  <2>1. k \in Node
    BY <1>0, CheckingFrame DEF TypeOK
  <2>2. \A c \in known : computed[c] = layers[c]
    BY <1>1 DEF PathInv, HonestInv
  <2>3. CASE computed'[k] = computed[k] /\ k \in known
    BY <2>2, <2>3
  <2>4. CASE computed'[k] # computed[k] \/ k \in known' \ known
    <3>1. /\ k = i /\ {2 * i, 2 * i + 1} \subseteq known
          /\ computed'[i] = hash2(computed[2 * i], computed[2 * i + 1])
      BY <1>6, <2>1, <2>4
    <3>2. layers[i] = hash2(layers[2 * i], layers[2 * i + 1])
      BY <1>0, <1>4 DEF HeapInv, BuiltAbove
    <3> QED
      BY <2>2, <3>1, <3>2
  <2> QED
    BY <2>3, <2>4
<1>13. ReceivedInv' /\ GenerateInv'
  BY <1>0, <1>1, ReceivedKept
<1> QED
  BY <1>1, <1>11, <1>12, <1>13, NotDone DEF PathInv

LEMMA CheckRootPath ==
  ASSUME IInv, PathInv, CheckRoot
  PROVE  PathInv'
<1> USE TypeGeometry DEF IInv
<1>0. pc = "rebuild" /\ i = 0 /\ Checking
  BY DEF CheckRoot, Checking
<1>1. /\ Marks(is_node_on_path) /\ is_node_on_path \in [Node -> BOOLEAN] /\ Markable
      /\ is_node_on_path[1] /\ LeafMarks /\ ClosedAbove(0) /\ BuiltAbove(0)
      /\ LeavesIn /\ RebuiltAbove(0)
  BY <1>0, CheckingMarks DEF MarkInv, CheckInv, HeapInv
<1>2. PICK r : /\ Ranks(is_node_on_path, r, 0) /\ Listed(is_node_on_path, r, 0)
               /\ Consumed(r, 0) /\ Len(proof.path) = r[0]
  BY <1>0 DEF PathInv, ConsumeInv
<1>3. ASSUME RootMatches PROVE proof.path = path
  <2>1. path \in Seq(Digest) /\ proof.path \in Seq(Digest \cup Foreign)
    BY <1>0, <1>1 DEF PathInv, ReceivedInv
  <2>2. ASSUME NEW j \in Internal, NeedsSibling(j)
        PROVE  computed[Sibling(j)] = layers[Sibling(j)]
    <3>1. j > 0 /\ j \in Node /\ is_node_on_path[j]
      BY <2>2, Children DEF Internal, NeedsSibling
    <3>2. computed[j] = layers[j]
      BY <1>1, <1>3, <3>1, RootBinds DEF RootMatches, root
    <3>3. hash2(computed[2 * j], computed[2 * j + 1]) = hash2(layers[2 * j], layers[2 * j + 1])
      BY <1>1, <3>1, <3>2 DEF RebuiltAbove, BuiltAbove
    <3>4. computed[2 * j] = layers[2 * j] /\ computed[2 * j + 1] = layers[2 * j + 1]
      BY <3>3 DEF hash2
    <3> QED
      BY <3>4 DEF Sibling
  <2>3. \A k \in 1 .. r[0] : proof.path[k] = path[k]
    <3> SUFFICES ASSUME NEW k \in 1 .. r[0] PROVE proof.path[k] = path[k]
      OBVIOUS
    <3>1. PICK j \in Internal : j > 0 /\ NeedsSibling(j) /\ k = r[j] + 1
      BY <1>2, NeedsIsSibling DEF Listed
    <3>2. path[k] = layers[Sibling(j)]
      BY <1>2, <3>1, NeedsIsSibling DEF Listed
    <3>3. proof.path[k] = computed[Sibling(j)]
      BY <1>2, <3>1 DEF Consumed
    <3> QED
      BY <2>2, <3>1, <3>2, <3>3
  <2>4. Len(path) = r[0] /\ Len(proof.path) = r[0]
    BY <1>2 DEF Listed
  <2> QED
    BY <2>1, <2>3, <2>4
<1>4. ASSUME proof = HonestProof PROVE RootMatches
  <2>1. 1 \in known
    <3>1. 1 \in Node
      BY DEF Node, Geometry
    <3>2. CASE 1 \in Internal
      BY <1>1, <3>2 DEF RebuiltAbove
    <3>3. ASSUME NEW k \in 0 .. num_leaves - 1, 1 = num_leaves + k PROVE 1 \in known
      BY <1>1, <3>3 DEF LeafMarks, IsOpened, LeavesIn
    <3> QED
      BY <3>1, <3>2, <3>3, LeafOrInternal
  <2> QED
    BY <1>0, <1>4, <2>1 DEF PathInv, HonestInv, RootMatches, root
<1>5. CASE RootMatches
  <2>1. Reject("Ok")
    BY <1>5 DEF CheckRoot
  <2> QED
    BY <1>3, <1>5, <2>1, VerdictPath
<1>6. CASE ~RootMatches
  <2>1. Reject("RootMismatch")
    BY <1>6 DEF CheckRoot
  <2> QED
    BY <1>4, <1>6, <2>1, VerdictPath
<1> QED
  BY <1>5, <1>6

LEMMA PathInductive == IInv /\ IInv' /\ PathInv /\ [Next]_vars => PathInv'
<1> SUFFICES ASSUME IInv, IInv', PathInv, [Next]_vars PROVE PathInv'
  OBVIOUS
<1>1. CASE UNCHANGED vars
  <2>1. UNCHANGED <<pc, num_leaves, column, salt, layers, i, indices, is_node_on_path,
                    path, proof, proof_idx, known, computed, result>>
    BY <1>1 DEF vars
  <2>2. UNCHANGED <<heap, indices, path, is_node_on_path, proof>> /\ Digest' = Digest
        /\ Markable' = Markable /\ Internal' = Internal
    BY <2>1 DEF heap, Digest, Node, Internal, Markable, BadIndex
  <2>3. GenerateInv'
    <3> SUFFICES ASSUME pc = "generate"
                 PROVE  /\ Marks(is_node_on_path)' /\ path' \in Seq(Digest')
                        /\ \E r : Ranks(is_node_on_path, r, i)' /\ Listed(is_node_on_path, r, i)'
      BY <2>1 DEF GenerateInv
    <3>1. PICK M, m : M = is_node_on_path /\ m = i
      OBVIOUS
    <3>2. PICK r : Ranks(M, r, m) /\ Listed(M, r, m)
      BY <3>1 DEF PathInv, GenerateInv
    <3>3. Marks(M)
      BY <3>1 DEF PathInv, GenerateInv
    <3>4. Marks(M)' /\ Ranks(M, r, m)' /\ Listed(M, r, m)'
      BY <2>2, <3>2, <3>3, ListingFrame
    <3>5. M = is_node_on_path' /\ m = i'
      BY <2>1, <3>1
    <3>6. Marks(is_node_on_path)'
      BY <3>4, <3>5 DEF Marks
    <3>7. Ranks(is_node_on_path, r, i)'
      BY <3>4, <3>5, Zenon DEF Ranks, Needs
    <3>8. Listed(is_node_on_path, r, i)'
      BY <3>4, <3>5, Zenon DEF Listed, Needs, Other
    <3> QED
      BY <2>1, <2>2, <3>6, <3>7, <3>8 DEF PathInv, GenerateInv
  <2>4. ReceivedInv'
    <3>1. \A M, r : Marks(M) /\ Ranks(M, r, 0) /\ Listed(M, r, 0) =>
                   (Marks(M)' /\ Ranks(M, r, 0)' /\ Listed(M, r, 0)')
      BY <2>2, ListingFrame
    <3> QED
      BY <2>1, <2>2, <3>1 DEF PathInv, ReceivedInv
  <2>5. ConsumeInv'
    <3>1. \A r : /\ Ranks(is_node_on_path, r, 0) => Ranks(is_node_on_path, r, 0)'
                 /\ Listed(is_node_on_path, r, 0) => Listed(is_node_on_path, r, 0)'
      BY <2>2, CheckingFrame
    <3>2. \A r : Consumed(r, 0) => Consumed(r, 0)'
      BY <2>1, <2>2, CheckingFrame DEF Consumed
    <3>3. \A r : Consumed(r, i) => Consumed(r, i)'
      BY <2>1, <2>2, CheckingFrame DEF Consumed
    <3>4. KnownBelowMarked => KnownBelowMarked'
      BY <2>1, <2>2 DEF KnownBelowMarked
    <3> QED
      BY <2>1, <3>1, <3>2, <3>3, <3>4 DEF PathInv, ConsumeInv, Checking
  <2>6. HonestInv' /\ CanonicalPath' /\ HonestAccepted'
    BY <2>1 DEF PathInv, HonestInv, CanonicalPath, HonestAccepted, HonestProof, Checking,
                Markable, BadIndex
  <2> QED
    BY <2>3, <2>4, <2>5, <2>6 DEF PathInv
<1>2. CASE Commit \/ BuildStep \/ Open \/ OpenPanics \/ OpenMark \/ MarkStep("open_mark")
  <2>1. pc' \in {"commit", "build", "open", "panicked", "open_mark"}
    BY <1>2 DEF Commit, BuildStep, Open, OpenPanics, OpenMark, MarkStep
  <2> QED
    BY <2>1, QuietPath DEF IInv
<1>3. CASE GenerateProof \/ GenerateStep \/ ReceiveHonest \/ ReceiveOther
  BY <1>3, StartGenerate, GenerateStepPath, ReceivePath
<1>4. CASE VerifyNonceLength \/ VerifyIndices \/ PathTooShort \/ PathTooLong
  BY <1>4, RejectingPath
<1>5. CASE VerifyMark \/ MarkStep("verify_mark") \/ StartSiblings
  BY <1>5, VerifyMarkPath, StartSiblingsPath
<1>6. CASE SiblingStep \/ Populate \/ RebuildStep \/ CheckRoot
  BY <1>6, SiblingStepPath, PopulatePath, RebuildStepPath, CheckRootPath
<1> QED
  BY <1>1, <1>2, <1>3, <1>4, <1>5, <1>6 DEF Next

(***************************************************************************)
(* An opening has one encoding: whatever the prover or anyone else sends,  *)
(* verify_proof_with_hash accepts no path but the one generate_proof makes *)
(* for the same positions, for every number of leaves.                     *)
(***************************************************************************)
THEOREM PathsCanonical == Spec => []CanonicalPath
<1>1. PathInv => CanonicalPath
  BY DEF PathInv
<1> QED
  BY <1>1, InitIInv, Inductive, InitPath, PathInductive, PTL DEF Spec

(***************************************************************************)
(* The prover's opening of any distinct positions, in any order, is        *)
(* accepted: generate_proof and verify_proof_with_hash agree on which      *)
(* digests the path holds and on their order, for every number of leaves.  *)
(***************************************************************************)
THEOREM HonestOpeningAccepted == Spec => []HonestAccepted
<1>1. PathInv => HonestAccepted
  BY DEF PathInv
<1> QED
  BY <1>1, InitIInv, Inductive, InitPath, PathInductive, PTL DEF Spec

-----------------------------------------------------------------------------
(***************************************************************************)
(* Powers of two and the size estimate as recursive functions.             *)
(***************************************************************************)
\* f starts with first and goes on by step.
Follows(f, V, w, first, step) ==
  f \in [0 .. w -> V] /\ f[0] = first /\ \A q \in 1 .. w : f[q] = step[q][f[q - 1]]

\* There is a function that starts with first and goes on by any step, when the
\* step is given as a function.
LEMMA Recursion ==
  ASSUME NEW V, NEW first \in V, NEW w \in Nat, NEW step \in [1 .. w -> [V -> V]]
  PROVE  \E f : Follows(f, V, w, first, step)
<1> DEFINE Good(u) == \E f \in [0 .. u -> V] :
             f[0] = first /\ \A q \in 1 .. u : f[q] = step[q][f[q - 1]]
           T == {u \in 0 .. w : ~Good(u)}
<1> HIDE DEF Good
<1>1. ASSUME T # {} PROVE FALSE
  <2>1. PICK u \in T : \A z \in T : u <= z
    <3>1. T \subseteq Nat
      OBVIOUS
    <3> HIDE DEF T
    <3> QED
      BY <1>1, <3>1, LeastNat, Zenon
  <2>2. u \in 0 .. w /\ ~Good(u)
    OBVIOUS
  <2>3. u # 0
    <3>1. [q \in 0 .. 0 |-> first] \in [0 .. 0 -> V]
      OBVIOUS
    <3>2. [q \in 0 .. 0 |-> first][0] = first /\ \A q \in 1 .. 0 : FALSE
      OBVIOUS
    <3>3. Good(0)
      BY <3>1, <3>2 DEF Good
    <3> QED
      BY <2>2, <3>3
  <2>4. u - 1 \in 0 .. w /\ u - 1 \notin T
    BY <2>1, <2>2, <2>3
  <2>5. PICK f \in [0 .. u - 1 -> V] :
          f[0] = first /\ \A q \in 1 .. u - 1 : f[q] = step[q][f[q - 1]]
    BY <2>4 DEF Good
  <2> DEFINE g == [q \in 0 .. u |-> IF q = u THEN step[u][f[u - 1]] ELSE f[q]]
  <2>6. f[u - 1] \in V /\ step[u][f[u - 1]] \in V
    <3>1. f[u - 1] \in V
      BY <2>2, <2>3, <2>5
    <3>2. u \in 1 .. w
      BY <2>2, <2>3
    <3> QED
      BY <3>1, <3>2
  <2>7. g \in [0 .. u -> V]
    <3>1. \A q \in 0 .. u : q # u => q \in 0 .. u - 1
      BY <2>2
    <3>2. \A q \in 0 .. u : (IF q = u THEN step[u][f[u - 1]] ELSE f[q]) \in V
      BY <2>5, <2>6, <3>1
    <3> QED
      BY <3>2
  <2>8. g[0] = first
    BY <2>2, <2>3, <2>5
  <2>9. \A q \in 1 .. u : g[q] = step[q][g[q - 1]]
    <3> SUFFICES ASSUME NEW q \in 1 .. u PROVE g[q] = step[q][g[q - 1]]
      OBVIOUS
    <3>1. q - 1 \in 0 .. u /\ q - 1 # u /\ g[q - 1] = f[q - 1]
      BY <2>2
    <3>2. CASE q = u
      BY <3>1, <3>2
    <3>3. CASE q # u
      <4>1. q \in 1 .. u - 1 /\ g[q] = f[q]
        BY <2>2, <3>3
      <4> QED
        BY <2>5, <3>1, <4>1
    <3> QED
      BY <3>2, <3>3
  <2>10. Good(u)
    BY <2>7, <2>8, <2>9 DEF Good
  <2> QED
    BY <2>2, <2>10
<1>2. Good(w)
  <2>1. w \in 0 .. w
    OBVIOUS
  <2> QED
    BY <1>1, <2>1, Zenon
<1> QED
  BY <1>2 DEF Good, Follows

\* What holds at 0 and is passed on by every step holds everywhere.
LEMMA Steps ==
  ASSUME NEW w \in Nat, NEW S, NEW v, v[0] \in S,
         \A q \in 1 .. w : v[q - 1] \in S => v[q] \in S
  PROVE  \A q \in 0 .. w : v[q] \in S
<1> DEFINE T == {q \in 0 .. w : v[q] \notin S}
<1> SUFFICES ASSUME T # {} PROVE FALSE
  OBVIOUS
<1>1. T \subseteq Nat
  OBVIOUS
<1>2. PICK q \in T : \A p \in T : q <= p
  <2> HIDE DEF T
  <2> QED
    BY <1>1, LeastNat, Zenon
<1>3. q \in 0 .. w /\ v[q] \notin S /\ q # 0
  OBVIOUS
<1>4. q - 1 \in 0 .. w /\ q - 1 \notin T
  BY <1>2, <1>3
<1>5. v[q - 1] \in S /\ q \in 1 .. w
  BY <1>3, <1>4
<1> QED
  BY <1>3, <1>5

LEMMA PowersRec ==
  ASSUME NEW w \in Nat
  PROVE  /\ Powers(w) \in [0 .. w -> Nat] /\ Powers(w)[0] = 1
         /\ \A q \in 1 .. w : Powers(w)[q] = 2 * Powers(w)[q - 1]
<1> DEFINE step == [q \in 1 .. w |-> [x \in Nat |-> 2 * x]]
<1>1. \A x \in Nat : 2 * x \in Nat
  OBVIOUS
<1>2. step \in [1 .. w -> [Nat -> Nat]]
  BY <1>1
<1>3. \A q \in 1 .. w, x \in Nat : step[q][x] = 2 * x
  OBVIOUS
<1> HIDE DEF step
<1>4. PICK f : f \in [0 .. w -> Nat] /\ f[0] = 1
                /\ \A q \in 1 .. w : f[q] = step[q][f[q - 1]]
  <2>1. 1 \in Nat
    OBVIOUS
  <2>2. \E f : Follows(f, Nat, w, 1, step)
    BY <1>2, <2>1, Recursion
  <2> QED
    BY <2>2 DEF Follows
<1>5. \A q \in 0 .. w : q # 0 => (q \in 1 .. w /\ f[q - 1] \in Nat)
  BY <1>4
<1>6. f = [q \in 0 .. w |-> IF q = 0 THEN 1 ELSE 2 * f[q - 1]]
  BY <1>3, <1>4, <1>5
<1> DEFINE Is(v) == v = [q \in 0 .. w |-> IF q = 0 THEN 1 ELSE 2 * v[q - 1]]
<1>7. Powers(w) = CHOOSE v : Is(v)
  BY DEF Powers
<1>8. Is(Powers(w))
  BY <1>6, <1>7
<1> DEFINE v == Powers(w)
<1>9. v = [q \in 0 .. w |-> IF q = 0 THEN 1 ELSE 2 * v[q - 1]]
  BY <1>8
<1> HIDE DEF v
<1>10. v[0] = 1 /\ \A q \in 1 .. w : v[q] = 2 * v[q - 1]
  BY <1>9
<1>11. \A q \in 0 .. w : v[q] \in Nat
  <2>1. v[0] \in Nat
    BY <1>10
  <2>2. \A q \in 1 .. w : v[q - 1] \in Nat => v[q] \in Nat
    BY <1>1, <1>10, Zenon
  <2> QED
    BY <2>1, <2>2, Steps, Zenon
<1> QED
  BY <1>9, <1>10, <1>11 DEF v

\* A longer table of powers begins like a shorter one.
LEMMA TwoToStep ==
  ASSUME NEW w \in Nat
  PROVE  /\ TwoTo(w) \in Nat /\ TwoTo(w) > 0 /\ TwoTo(0) = 1
         /\ TwoTo(w + 1) = 2 * TwoTo(w)
<1> DEFINE f == Powers(w)
           g == Powers(w + 1)
           T == {q \in 0 .. w : g[q] # f[q] \/ ~(f[q] > 0)}
<1>1. f \in [0 .. w -> Nat] /\ f[0] = 1 /\ \A q \in 1 .. w : f[q] = 2 * f[q - 1]
  BY PowersRec
<1>2. /\ w + 1 \in Nat /\ g \in [0 .. w + 1 -> Nat] /\ g[0] = 1
      /\ \A q \in 1 .. w + 1 : g[q] = 2 * g[q - 1]
  BY PowersRec
<1>3. TwoTo(w) = f[w] /\ TwoTo(w + 1) = g[w + 1]
  BY DEF TwoTo
<1>4. TwoTo(0) = 1
  BY PowersRec DEF TwoTo
<1> HIDE DEF f, g
<1>5. T = {}
  <2> SUFFICES ASSUME T # {} PROVE FALSE
    OBVIOUS
  <2>1. T \subseteq Nat
    OBVIOUS
  <2>2. PICK q \in T : \A p \in T : q <= p
    <3> HIDE DEF T
    <3> QED
      BY <2>1, LeastNat, Zenon
  <2>3. q \in 0 .. w /\ (g[q] # f[q] \/ ~(f[q] > 0))
    OBVIOUS
  <2>4. q # 0
    BY <1>1, <1>2, <2>3
  <2>5. q \in 1 .. w /\ q \in 1 .. w + 1 /\ q - 1 \in 0 .. w /\ q - 1 \notin T
    BY <2>2, <2>3, <2>4
  <2>6. g[q - 1] = f[q - 1] /\ f[q - 1] > 0 /\ f[q - 1] \in Nat
    BY <1>1, <2>5
  <2>7. g[q] = 2 * g[q - 1] /\ f[q] = 2 * f[q - 1]
    BY <1>1, <1>2, <2>5, Zenon
  <2> QED
    BY <2>3, <2>6, <2>7
<1>6. w \in 0 .. w /\ w \notin T /\ w + 1 \in 1 .. w + 1 /\ (w + 1) - 1 = w
  BY <1>5
<1>7. g[w] = f[w] /\ f[w] > 0 /\ f[w] \in Nat
  BY <1>1, <1>6
<1>8. g[w + 1] = 2 * g[w]
  BY <1>2, <1>6, Zenon
<1> QED
  BY <1>3, <1>4, <1>7, <1>8

\* What holds at one end of a range and is passed on holds in all of it.
LEMMA Upward ==
  ASSUME NEW a \in Nat, NEW b \in Nat, NEW S, a \in S,
         \A x \in a .. b - 1 : x \in S => x + 1 \in S
  PROVE  \A x \in a .. b : x \in S
<1> DEFINE T == {x \in a .. b : x \notin S}
<1> SUFFICES ASSUME T # {} PROVE FALSE
  OBVIOUS
<1>1. T \subseteq Nat
  OBVIOUS
<1>2. PICK x \in T : \A y \in T : x <= y
  <2> HIDE DEF T
  <2> QED
    BY <1>1, LeastNat, Zenon
<1>3. x \in a .. b /\ x \notin S /\ x # a
  OBVIOUS
<1>4. x - 1 \in a .. b /\ x - 1 \in a .. b - 1 /\ (x - 1) + 1 = x /\ x - 1 \notin T
  BY <1>2, <1>3
<1>5. x - 1 \in S
  BY <1>4
<1> QED
  BY <1>3, <1>4, <1>5

LEMMA Downward ==
  ASSUME NEW a \in Nat, NEW b \in Nat, NEW S, b \in S,
         \A x \in a + 1 .. b : x \in S => x - 1 \in S
  PROVE  \A x \in a .. b : x \in S
<1> DEFINE T == {k \in Nat : k <= b - a /\ b - k \notin S}
<1> SUFFICES ASSUME NEW z \in a .. b, z \notin S PROVE FALSE
  OBVIOUS
<1>1. T \subseteq Nat /\ b - z \in T
  <2>1. b - (b - z) = z /\ b - z \in Nat /\ b - z <= b - a
    OBVIOUS
  <2> QED
    BY <2>1
<1>2. PICK k \in T : \A y \in T : k <= y
  <2> HIDE DEF T
  <2> QED
    BY <1>1, LeastNat, Zenon
<1>3. k \in Nat /\ k <= b - a /\ b - k \notin S /\ k # 0
  OBVIOUS
<1>4. k - 1 \in Nat /\ k - 1 <= b - a /\ ~(k <= k - 1)
  BY <1>3
<1>5. b - (k - 1) \in S
  BY <1>2, <1>4
<1>6. b - (k - 1) \in a + 1 .. b /\ (b - (k - 1)) - 1 = b - k
  BY <1>3
<1> QED
  BY <1>3, <1>5, <1>6

LEMMA Bound ==
  ASSUME NEW level \in Nat, NEW k \in Nat
  PROVE  /\ level_bound(level, k) \in Nat /\ level_bound(level, k) <= k
         /\ level_bound(level, k) = IF TwoTo(level) <= k THEN 0
                                    ELSE IF TwoTo(level) - k <= k THEN TwoTo(level) - k ELSE k
<1>1. PICK t \in Nat : t = TwoTo(level)
  BY TwoToStep
<1>2. PICK u : u = Max({0, t - k})
  OBVIOUS
<1>3. u = IF t <= k THEN 0 ELSE t - k
  BY <1>1, <1>2 DEF Max
<1>4. u \in Nat
  BY <1>1, <1>3
<1>5. Min({k, u}) = IF u <= k THEN u ELSE k
  BY <1>4 DEF Min
<1>6. level_bound(level, k) = Min({k, u})
  BY <1>1, <1>2 DEF level_bound
<1> QED
  BY <1>1, <1>3, <1>4, <1>5, <1>6

\* The running total of the estimate.
LEMMA Totals ==
  ASSUME NEW h \in Nat, NEW k \in Nat
  PROVE  /\ total_digests(h, k) \in [0 .. h -> Nat] /\ total_digests(h, k)[0] = 0
         /\ h >= 1 => total_digests(h, k)[1] = 0
         /\ \A l \in 2 .. h : total_digests(h, k)[l] = total_digests(h, k)[l - 1] + level_bound(l - 1, k)
<1> DEFINE by(l) == IF l <= 1 THEN 0 ELSE level_bound(l - 1, k)
           step == [l \in 1 .. h |-> [x \in Nat |-> x + by(l)]]
<1>1. \A l \in 1 .. h : by(l) \in Nat
  <2> SUFFICES ASSUME NEW l \in 1 .. h PROVE by(l) \in Nat
    OBVIOUS
  <2>1. l - 1 \in Nat
    OBVIOUS
  <2> QED
    BY <2>1, Bound
<1> HIDE DEF by
<1>2. step \in [1 .. h -> [Nat -> Nat]]
  BY <1>1
<1>3. \A l \in 1 .. h, x \in Nat : step[l][x] = x + by(l)
  OBVIOUS
<1> HIDE DEF step
<1>4. PICK f : f \in [0 .. h -> Nat] /\ f[0] = 0
                /\ \A l \in 1 .. h : f[l] = step[l][f[l - 1]]
  <2>1. 0 \in Nat
    OBVIOUS
  <2>2. \E f : Follows(f, Nat, h, 0, step)
    BY <1>2, <2>1, Recursion
  <2> QED
    BY <2>2 DEF Follows
<1>5. \A l \in 0 .. h : l # 0 => (l \in 1 .. h /\ f[l - 1] \in Nat)
  BY <1>4
<1>6. \A l \in 1 .. h : f[l] = f[l - 1] + by(l)
  BY <1>3, <1>4, <1>5
<1> DEFINE Turn(v, l) == IF l <= 1 THEN 0 ELSE v[l - 1] + level_bound(l - 1, k)
           Is(v) == v = [l \in 0 .. h |-> Turn(v, l)]
<1>7. \A l \in 0 .. h : f[l] = Turn(f, l)
  <2> SUFFICES ASSUME NEW l \in 0 .. h PROVE f[l] = Turn(f, l)
    OBVIOUS
  <2>1. CASE l = 0
    BY <1>4, <2>1
  <2>2. CASE l = 1
    <3>1. f[1] = f[0] + by(1) /\ by(1) = 0 /\ f[0] = 0
      BY <1>4, <1>6, <2>2 DEF by
    <3> QED
      BY <2>2, <3>1
  <2>3. CASE l >= 2
    <3>1. f[l] = f[l - 1] + by(l) /\ by(l) = level_bound(l - 1, k)
      BY <1>6, <2>3 DEF by
    <3> QED
      BY <2>3, <3>1
  <2> QED
    BY <2>1, <2>2, <2>3
<1>8. Is(f)
  <2> HIDE DEF Turn
  <2> QED
    BY <1>4, <1>7
<1>9. total_digests(h, k) = CHOOSE v : Is(v)
  BY DEF total_digests
<1>10. Is(total_digests(h, k))
  BY <1>8, <1>9
<1> DEFINE v == total_digests(h, k)
<1>11. v = [l \in 0 .. h |-> Turn(v, l)]
  BY <1>10
<1> HIDE DEF v
<1>12. /\ v[0] = 0 /\ (h >= 1 => v[1] = 0)
       /\ \A l \in 2 .. h : v[l] = v[l - 1] + level_bound(l - 1, k)
  BY <1>11
<1>13. \A l \in 0 .. h : v[l] \in Nat
  <2>1. v[0] \in Nat
    BY <1>12
  <2>2. \A l \in 1 .. h : v[l - 1] \in Nat => v[l] \in Nat
    <3> SUFFICES ASSUME NEW l \in 1 .. h, v[l - 1] \in Nat PROVE v[l] \in Nat
      OBVIOUS
    <3>1. CASE l = 1
      BY <1>12, <3>1
    <3>2. CASE l >= 2
      <4>1. level_bound(l - 1, k) \in Nat
        <5>1. l - 1 \in Nat
          BY <3>2
        <5> QED
          BY <5>1, Bound
      <4>2. v[l] = v[l - 1] + level_bound(l - 1, k)
        BY <1>12, <3>2
      <4> QED
        BY <4>1, <4>2
    <3> QED
      BY <3>1, <3>2
  <2> QED
    BY <2>1, <2>2, Steps, Zenon
<1> QED
  BY <1>11, <1>12, <1>13 DEF v

-----------------------------------------------------------------------------
(***************************************************************************)
(* How many nodes are marked.  For every t up to the number of leaves the  *)
(* nodes t .. 2t - 1 cut all paths from the leaves to the root, which      *)
(* bounds the marked ones among them by the positions opened.              *)
(***************************************************************************)
Marked(M, t) == {j \in 1 .. t - 1 : M[j]}
Count(M, t) == Cardinality(Marked(M, t))
Bit(M, j) == IF M[j] THEN 1 ELSE 0

LEMMA CountStep ==
  ASSUME Geometry, NEW M, Marks(M), NEW t \in Node
  PROVE  /\ Count(M, t) \in Nat /\ Bit(M, t) \in 0 .. 1
         /\ Count(M, t + 1) = Count(M, t) + Bit(M, t)
<1>1. /\ M \in [Node -> BOOLEAN] /\ t \in Nat /\ t >= 1 /\ M[t] \in BOOLEAN
      /\ 1 .. t \subseteq Node
  BY DEF Marks, Node, Geometry
<1>2. IsFiniteSet(Marked(M, t)) /\ Count(M, t) \in Nat
  <2>1. IsFiniteSet(1 .. t - 1)
    BY <1>1, FS_Interval
  <2>2. Marked(M, t) \subseteq 1 .. t - 1
    BY DEF Marked
  <2> QED
    BY <2>1, <2>2, FS_Subset, FS_CardinalityType DEF Count
<1>3. CASE M[t]
  <2>1. Marked(M, t + 1) = Marked(M, t) \cup {t} /\ t \notin Marked(M, t)
    BY <1>1, <1>3 DEF Marked
  <2>2. Cardinality(Marked(M, t) \cup {t}) = Cardinality(Marked(M, t)) + 1
    BY <1>2, <2>1, FS_AddElement
  <2>3. Count(M, t + 1) = Count(M, t) + 1
    BY <2>1, <2>2, Zenon DEF Count
  <2>4. Bit(M, t) = 1
    BY <1>3 DEF Bit
  <2> QED
    BY <1>2, <2>3, <2>4
<1>4. CASE ~M[t]
  <2>1. Marked(M, t + 1) = Marked(M, t)
    BY <1>1, <1>4 DEF Marked
  <2> QED
    BY <1>2, <1>4, <2>1 DEF Count, Bit
<1> QED
  BY <1>1, <1>3, <1>4

LEMMA CountNone ==
  ASSUME NEW M
  PROVE  Count(M, 1) = 0
<1>1. Marked(M, 1) = {}
  BY DEF Marked
<1> QED
  BY <1>1, FS_EmptySet DEF Count

LEMMA CountNat ==
  ASSUME Geometry, NEW M, Marks(M), NEW t \in 1 .. 2 * num_leaves
  PROVE  Count(M, t) \in Nat
<1>1. CASE t \in Node
  BY <1>1, CountStep
<1>2. CASE t = 2 * num_leaves
  <2>1. PICK u \in Node : u + 1 = t
    <3>1. t - 1 \in Node /\ (t - 1) + 1 = t
      BY <1>2 DEF Node, Geometry
    <3> QED
      BY <3>1
  <2>2. Count(M, u + 1) = Count(M, u) + Bit(M, u) /\ Count(M, u) \in Nat /\ Bit(M, u) \in 0 .. 1
    BY CountStep
  <2> QED
    BY <2>1, <2>2
<1> QED
  BY <1>1, <1>2 DEF Node, Geometry

\* d more nodes hold at most d more marks.
LEMMA CountAdds ==
  ASSUME Geometry, NEW M, Marks(M), NEW t \in 1 .. 2 * num_leaves, NEW u \in t .. 2 * num_leaves
  PROVE  Count(M, t) <= Count(M, u) /\ Count(M, u) <= Count(M, t) + (u - t)
<1> DEFINE S == {x \in t .. u : Count(M, t) <= Count(M, x) /\ Count(M, x) <= Count(M, t) + (x - t)}
<1>0. num_leaves \in Nat /\ t \in Nat /\ u \in Nat /\ t <= u
  BY DEF Geometry
<1>1. t \in S
  <2>1. Count(M, t) \in Nat
    BY CountNat
  <2> QED
    BY <1>0, <2>1
<1>2. \A x \in t .. u - 1 : x \in S => x + 1 \in S
  <2> SUFFICES ASSUME NEW x \in t .. u - 1, x \in S PROVE x + 1 \in S
    OBVIOUS
  <2>1. x \in Node /\ x + 1 \in t .. u
    BY <1>0 DEF Node
  <2>2. Count(M, x) \in Nat /\ Bit(M, x) \in 0 .. 1 /\ Count(M, x + 1) = Count(M, x) + Bit(M, x)
    BY <2>1, CountStep
  <2>3. Count(M, t) \in Nat
    BY CountNat
  <2>4. Count(M, t) <= Count(M, x) /\ Count(M, x) <= Count(M, t) + (x - t)
    OBVIOUS
  <2>5. Count(M, t) <= Count(M, x + 1) /\ Count(M, x + 1) <= Count(M, t) + ((x + 1) - t)
    BY <1>0, <2>2, <2>3, <2>4
  <2> QED
    BY <2>1, <2>5
<1>3. u \in S
  <2> HIDE DEF S
  <2>1. \A x \in t .. u : x \in S
    BY <1>0, <1>1, <1>2, Upward
  <2> QED
    BY <1>0, <2>1
<1> QED
  BY <1>3

\* From the cut at t to the cut at t + 1.
LEMMA CutStep ==
  ASSUME Geometry, NEW M, Marks(M), NEW t \in Internal
  PROVE  /\ Count(M, t) \in Nat /\ Count(M, 2 * t) \in Nat /\ Bit(M, t) \in 0 .. 1
         /\ Count(M, t + 1) = Count(M, t) + Bit(M, t)
         /\ Count(M, 2 * (t + 1)) \in Nat
         /\ Count(M, 2 * (t + 1)) + (IF Needs(M, t) THEN 1 ELSE 0) = Count(M, 2 * t) + 2 * Bit(M, t)
         /\ Count(M, 2 * t) + Bit(M, t) <= Count(M, 2 * (t + 1))
         /\ Count(M, 2 * (t + 1)) <= Count(M, 2 * t) + 2 * Bit(M, t)
<1>1. /\ t \in Node /\ 2 * t \in Node /\ 2 * t + 1 \in Node /\ (2 * t + 1) + 1 = 2 * (t + 1)
  BY Children DEF Internal, Geometry
<1>2. Count(M, t) \in Nat /\ Bit(M, t) \in 0 .. 1 /\ Count(M, t + 1) = Count(M, t) + Bit(M, t)
  BY <1>1, CountStep
<1>3. /\ Count(M, 2 * t) \in Nat /\ Bit(M, 2 * t) \in 0 .. 1
      /\ Count(M, 2 * t + 1) = Count(M, 2 * t) + Bit(M, 2 * t)
  BY <1>1, CountStep
<1>4. /\ Count(M, 2 * t + 1) \in Nat /\ Bit(M, 2 * t + 1) \in 0 .. 1
      /\ Count(M, 2 * (t + 1)) = Count(M, 2 * t + 1) + Bit(M, 2 * t + 1)
  <2>1. /\ Count(M, 2 * t + 1) \in Nat /\ Bit(M, 2 * t + 1) \in 0 .. 1
        /\ Count(M, (2 * t + 1) + 1) = Count(M, 2 * t + 1) + Bit(M, 2 * t + 1)
    BY <1>1, CountStep
  <2> QED
    BY <1>1, <2>1
<1>5. /\ M[t] \in BOOLEAN /\ M[2 * t] \in BOOLEAN /\ M[2 * t + 1] \in BOOLEAN
      /\ M[t] <=> M[2 * t] \/ M[2 * t + 1]
  BY <1>1 DEF Marks
<1>6. Bit(M, 2 * t) + Bit(M, 2 * t + 1) + (IF Needs(M, t) THEN 1 ELSE 0) = 2 * Bit(M, t)
  BY <1>5 DEF Bit, Needs
<1>7. (IF Needs(M, t) THEN 1 ELSE 0) \in 0 .. 1
      /\ (IF Needs(M, t) THEN 1 ELSE 0) <= Bit(M, t)
  BY <1>5 DEF Needs, Bit
<1>8. PICK e \in 0 .. 1 : e = IF Needs(M, t) THEN 1 ELSE 0
  BY <1>7
<1> QED
  BY <1>2, <1>3, <1>4, <1>6, <1>7, <1>8

\* As many leaves are marked as positions are opened.
LEMMA LeafCount ==
  ASSUME Geometry, NEW M, Marks(M), Markable, NEW k \in Nat, k >= 1, indices \in [1 .. k -> Nat]
  PROVE  Count(M, 2 * num_leaves) = Count(M, num_leaves) + k
<1> DEFINE D == {num_leaves + indices[x] : x \in 1 .. k}
<1>1. /\ num_leaves \in Nat /\ num_leaves >= 1 /\ M \in [Node -> BOOLEAN] /\ DOMAIN indices = 1 .. k
      /\ \A x \in 1 .. k : indices[x] \in Nat
  BY DEF Geometry, Marks
<1>2. /\ \A x \in 1 .. k : indices[x] < num_leaves
      /\ \A x, y \in 1 .. k : indices[x] = indices[y] => x = y
  <2>1. \A x \in 1 .. k : ~BadIndex(x)
    BY <1>1 DEF Markable
  <2>2. \A x \in 1 .. k : indices[x] < num_leaves /\ \A y \in 1 .. x - 1 : indices[y] # indices[x]
    BY <1>1, <2>1 DEF BadIndex
  <2>3. ASSUME NEW x \in 1 .. k, NEW y \in 1 .. k, indices[x] = indices[y], x # y PROVE FALSE
    <3>1. x \in 1 .. y - 1 \/ y \in 1 .. x - 1
      BY <2>3
    <3> QED
      BY <2>2, <2>3, <3>1
  <2> QED
    BY <2>2, <2>3
<1>3. IsFiniteSet(D) /\ Cardinality(D) = k
  <2> DEFINE f == [x \in 1 .. k |-> num_leaves + indices[x]]
  <2>1. f \in Bijection(1 .. k, D)
    <3>1. f \in [1 .. k -> D]
      OBVIOUS
    <3>2. \A x, y \in 1 .. k : f[x] = f[y] => x = y
      BY <1>1, <1>2
    <3>3. \A d \in D : \E x \in 1 .. k : f[x] = d
      OBVIOUS
    <3> HIDE DEF f, D
    <3>4. f \in Injection(1 .. k, D)
      BY <3>1, <3>2, Zenon DEF Injection, IsInjective
    <3>5. f \in Surjection(1 .. k, D)
      BY <3>1, <3>3, Zenon DEF Surjection
    <3> QED
      BY <3>4, <3>5 DEF Bijection
  <2>2. IsFiniteSet(1 .. k) /\ Cardinality(1 .. k) = k
    <3>1. 1 \in Int /\ k \in Int /\ ~(1 > k) /\ k - 1 + 1 = k
      OBVIOUS
    <3> QED
      BY <3>1, FS_Interval
  <2>3. ExistsBijection(1 .. k, D)
    BY <2>1, Zenon DEF ExistsBijection
  <2> HIDE DEF f, D
  <2>4. IsFiniteSet(D) /\ Cardinality(D) = Cardinality(1 .. k)
    BY <2>2, <2>3, FS_Bijection, Zenon
  <2> QED
    BY <2>2, <2>4
<1>4. Marked(M, 2 * num_leaves) = Marked(M, num_leaves) \cup D
  <2>1. ASSUME NEW j \in Marked(M, 2 * num_leaves) PROVE j \in Marked(M, num_leaves) \cup D
    <3>1. j \in 1 .. 2 * num_leaves - 1 /\ M[j]
      BY DEF Marked
    <3>2. CASE j < num_leaves
      BY <1>1, <3>1, <3>2 DEF Marked
    <3>3. CASE j >= num_leaves
      <4>1. j - num_leaves \in 0 .. num_leaves - 1 /\ num_leaves + (j - num_leaves) = j
        BY <1>1, <3>1, <3>3
      <4>2. IsOpened(j)
        BY <3>1, <4>1 DEF Marks
      <4>3. PICK x \in 1 .. k : j = indices[x] + num_leaves
        BY <1>1, <4>2 DEF IsOpened
      <4>4. j = num_leaves + indices[x]
        BY <1>1, <4>3
      <4> QED
        BY <4>4
    <3> QED
      BY <1>1, <3>1, <3>2, <3>3
  <2>2. ASSUME NEW j \in Marked(M, num_leaves) PROVE j \in Marked(M, 2 * num_leaves)
    BY <1>1 DEF Marked
  <2>3. ASSUME NEW j \in D PROVE j \in Marked(M, 2 * num_leaves)
    <3>1. PICK x \in 1 .. k : j = num_leaves + indices[x]
      OBVIOUS
    <3>2. indices[x] \in 0 .. num_leaves - 1
      BY <1>1, <1>2
    <3>3. IsOpened(j)
      <4>1. j = indices[x] + num_leaves
        BY <1>1, <3>1
      <4> QED
        BY <1>1, <4>1 DEF IsOpened
    <3>4. M[j]
      BY <3>1, <3>2, <3>3 DEF Marks
    <3> QED
      BY <1>1, <3>1, <3>2, <3>4 DEF Marked
  <2> HIDE DEF D
  <2> QED
    BY <2>1, <2>2, <2>3
<1>5. Marked(M, num_leaves) \cap D = {}
  <2> SUFFICES ASSUME NEW j \in Marked(M, num_leaves), j \in D PROVE FALSE
    OBVIOUS
  <2>1. PICK x \in 1 .. k : j = num_leaves + indices[x]
    OBVIOUS
  <2> QED
    BY <1>1, <2>1 DEF Marked
<1>6. IsFiniteSet(Marked(M, num_leaves))
  <2>1. IsFiniteSet(1 .. num_leaves - 1)
    BY <1>1, FS_Interval
  <2>2. Marked(M, num_leaves) \subseteq 1 .. num_leaves - 1
    BY DEF Marked
  <2> QED
    BY <2>1, <2>2, FS_Subset
<1> HIDE DEF D
<1>7. Cardinality(Marked(M, num_leaves) \cup D)
        = Cardinality(Marked(M, num_leaves)) + Cardinality(D) - Cardinality(Marked(M, num_leaves) \cap D)
  BY <1>3, <1>6, FS_Union
<1>8. Cardinality(Marked(M, num_leaves) \cap D) = 0
  BY <1>5, FS_EmptySet
<1>9. Cardinality(Marked(M, num_leaves)) \in Nat
  BY <1>6, FS_CardinalityType
<1>10. PICK c \in Nat : c = Cardinality(Marked(M, num_leaves))
  BY <1>9
<1>11. Cardinality(Marked(M, num_leaves) \cup D) = c + k - 0
  BY <1>3, <1>7, <1>8, <1>10, Zenon
<1>12. Count(M, 2 * num_leaves) = c + k - 0 /\ Count(M, num_leaves) = c
  BY <1>4, <1>10, <1>11, Zenon DEF Count
<1> QED
  BY <1>10, <1>12

LEMMA Cuts ==
  ASSUME Geometry, NEW M, Marks(M)
  PROVE  \A t \in 1 .. num_leaves :
           /\ Count(M, 2 * t) <= 2 * Count(M, t) + 1
           /\ Count(M, 2 * t) + Count(M, num_leaves) <= Count(M, 2 * num_leaves) + Count(M, t)
<1> DEFINE n == num_leaves
           Below(t) == Count(M, 2 * t) <= 2 * Count(M, t) + 1
           Widens(t) == Count(M, 2 * t) + Count(M, n) <= Count(M, 2 * n) + Count(M, t)
           S == {t \in 1 .. n : Below(t)}
           U == {t \in 1 .. n : Widens(t)}
<1>0. n \in Nat /\ n >= 1 /\ 1 \in Nat
  BY DEF Geometry
<1>1. \A t \in 1 .. n - 1 : t \in Internal /\ t + 1 \in 1 .. n
  BY <1>0 DEF Internal
<1>2. 1 \in S
  <2>1. 1 \in Node
    BY <1>0 DEF Node
  <2>2. /\ Count(M, 1) \in Nat /\ Bit(M, 1) \in 0 .. 1
        /\ Count(M, 1 + 1) = Count(M, 1) + Bit(M, 1)
    BY <2>1, CountStep
  <2>3. Count(M, 1) = 0 /\ 1 + 1 = 2 * 1
    BY CountNone
  <2> QED
    BY <1>0, <2>2, <2>3
<1>3. \A t \in 1 .. n - 1 : t \in S => t + 1 \in S
  <2> SUFFICES ASSUME NEW t \in 1 .. n - 1, t \in S PROVE Below(t + 1)
    BY <1>1
  <2>1. /\ Count(M, t) \in Nat /\ Count(M, 2 * t) \in Nat /\ Bit(M, t) \in 0 .. 1
        /\ Count(M, t + 1) = Count(M, t) + Bit(M, t)
        /\ Count(M, 2 * (t + 1)) \in Nat
        /\ Count(M, 2 * (t + 1)) <= Count(M, 2 * t) + 2 * Bit(M, t)
    BY <1>1, CutStep
  <2>2. Count(M, 2 * t) <= 2 * Count(M, t) + 1
    OBVIOUS
  <2> QED
    BY <2>1, <2>2
<1>4. n \in U
  <2>1. Count(M, 2 * n) \in Nat /\ Count(M, n) \in Nat
    BY <1>0, CountNat
  <2> QED
    BY <1>0, <2>1
<1>5. \A t \in 1 + 1 .. n : t \in U => t - 1 \in U
  <2> SUFFICES ASSUME NEW t \in 1 + 1 .. n, t \in U PROVE t - 1 \in U
    OBVIOUS
  <2>1. PICK x \in 1 .. n - 1 : t = x + 1 /\ t - 1 = x
    <3>1. t - 1 \in 1 .. n - 1 /\ t = (t - 1) + 1
      BY <1>0
    <3> QED
      BY <3>1
  <2>2. /\ Count(M, x) \in Nat /\ Count(M, 2 * x) \in Nat /\ Bit(M, x) \in 0 .. 1
        /\ Count(M, x + 1) = Count(M, x) + Bit(M, x)
        /\ Count(M, 2 * (x + 1)) \in Nat
        /\ Count(M, 2 * x) + Bit(M, x) <= Count(M, 2 * (x + 1))
    BY <1>1, CutStep
  <2>3. Count(M, 2 * (x + 1)) + Count(M, n) <= Count(M, 2 * n) + Count(M, x + 1)
    BY <2>1
  <2>4. Count(M, 2 * n) \in Nat /\ Count(M, n) \in Nat
    BY <1>0, CountNat
  <2>5. Widens(x)
    BY <2>2, <2>3, <2>4
  <2> QED
    BY <1>0, <2>1, <2>5
<1>6. \A t \in 1 .. n : t \in S
  <2> HIDE DEF S, n
  <2> QED
    BY <1>0, <1>2, <1>3, Upward
<1>7. \A t \in 1 .. n : t \in U
  <2> HIDE DEF U, n
  <2> QED
    BY <1>0, <1>4, <1>5, Downward
<1> QED
  BY <1>6, <1>7

\* The digests listed so far, in terms of the marks.
LEMMA RankIs ==
  ASSUME Geometry, NEW M, Marks(M), NEW m \in 0 .. num_leaves - 1, NEW r, Ranks(M, r, m),
         NEW k \in Nat, Count(M, 2 * num_leaves) = Count(M, num_leaves) + k
  PROVE  /\ r[m] \in Nat
         /\ r[m] + k + 2 * Count(M, m + 1) = Count(M, 2 * (m + 1)) + Count(M, num_leaves)
<1> DEFINE n == num_leaves
           Is(x) == r[x] + k + 2 * Count(M, x + 1) = Count(M, 2 * (x + 1)) + Count(M, n)
           S == {x \in m .. n - 1 : Is(x)}
<1>0. /\ n \in Nat /\ n >= 1 /\ m \in Nat /\ n - 1 \in Nat /\ m <= n - 1
      /\ r \in [0 .. n - 1 -> Nat] /\ r[n - 1] = 0
      /\ \A j \in Internal : j > m => r[j - 1] = IF Needs(M, j) THEN r[j] + 1 ELSE r[j]
  BY DEF Geometry, Ranks
<1>1. Count(M, n) \in Nat
  BY <1>0, CountNat
<1>2. n - 1 \in S
  <2>1. (n - 1) + 1 = n
    BY <1>0
  <2>2. Is(n - 1)
    BY <1>0, <1>1, <2>1
  <2> QED
    BY <1>0, <2>2
<1>3. \A x \in m + 1 .. n - 1 : x \in S => x - 1 \in S
  <2> SUFFICES ASSUME NEW x \in m + 1 .. n - 1, x \in S PROVE x - 1 \in S
    OBVIOUS
  <2>1. /\ x \in Internal /\ x > m /\ x - 1 \in m .. n - 1 /\ (x - 1) + 1 = x
        /\ x \in 0 .. n - 1 /\ x - 1 \in 0 .. n - 1
    BY <1>0 DEF Internal
  <2>2. /\ Count(M, x) \in Nat /\ Count(M, 2 * x) \in Nat /\ Bit(M, x) \in 0 .. 1
        /\ Count(M, x + 1) = Count(M, x) + Bit(M, x)
        /\ Count(M, 2 * (x + 1)) \in Nat
        /\ Count(M, 2 * (x + 1)) + (IF Needs(M, x) THEN 1 ELSE 0) = Count(M, 2 * x) + 2 * Bit(M, x)
    BY <2>1, CutStep
  <2>3. r[x - 1] = r[x] + (IF Needs(M, x) THEN 1 ELSE 0) /\ r[x] \in Nat
    BY <1>0, <2>1
  <2>4. PICK e \in 0 .. 1 : e = IF Needs(M, x) THEN 1 ELSE 0
    OBVIOUS
  <2>5. r[x] + k + 2 * Count(M, x + 1) = Count(M, 2 * (x + 1)) + Count(M, n)
    OBVIOUS
  <2>6. r[x - 1] + k + 2 * Count(M, x) = Count(M, 2 * x) + Count(M, n)
    BY <1>1, <2>2, <2>3, <2>4, <2>5
  <2>7. Is(x - 1)
    BY <2>1, <2>6
  <2> QED
    BY <2>1, <2>7
<1>4. \A x \in m .. n - 1 : x \in S
  <2> HIDE DEF S, n
  <2> QED
    BY <1>0, <1>2, <1>3, Downward
<1>5. m \in m .. n - 1 /\ r[m] \in Nat
  BY <1>0
<1> QED
  BY <1>4, <1>5

\* The number of levels.
LEMMA HeapLen ==
  ASSUME NEW n \in Nat, n >= 1
  PROVE  \E e \in Nat : /\ merkle_heap_len(n) = e + 1 /\ TwoTo(e) >= n
                        /\ \A l \in 0 .. e - 1 : TwoTo(l) < n
<1> DEFINE Right(e) == TwoTo(e) >= n /\ \A l \in 0 .. e - 1 : TwoTo(l) < n
           S == {x \in Nat : TwoTo(x) >= x}
           T == {x \in Nat : TwoTo(x) >= n}
<1>1. n \in S
  <2>1. 0 \in S
    BY TwoToStep
  <2>2. \A x \in 0 .. n - 1 : x \in S => x + 1 \in S
    <3> SUFFICES ASSUME NEW x \in 0 .. n - 1, x \in S PROVE x + 1 \in S
      OBVIOUS
    <3>1. x \in Nat /\ x + 1 \in Nat /\ TwoTo(x) >= x
      OBVIOUS
    <3>2. TwoTo(x) \in Nat /\ TwoTo(x) > 0 /\ TwoTo(x + 1) = 2 * TwoTo(x)
      BY <3>1, TwoToStep
    <3>3. TwoTo(x + 1) >= x + 1
      BY <3>1, <3>2
    <3> QED
      BY <3>1, <3>3
  <2>3. \A x \in 0 .. n : x \in S
    <3>1. 0 \in Nat
      OBVIOUS
    <3> HIDE DEF S
    <3> QED
      BY <2>1, <2>2, <3>1, Upward
  <2> QED
    BY <2>3
<1>2. n \in T /\ T \subseteq Nat
  BY <1>1
<1>3. PICK e \in T : \A y \in T : e <= y
  <2> HIDE DEF T
  <2> QED
    BY <1>2, LeastNat, Zenon
<1>4. e \in 0 .. n /\ TwoTo(e) >= n
  BY <1>2, <1>3
<1>5. ASSUME NEW l \in 0 .. e - 1 PROVE TwoTo(l) < n
  <2>1. l \in Nat /\ l \notin T /\ TwoTo(l) \in Nat
    <3>1. l \in Nat /\ ~(e <= l)
      BY <1>4
    <3>2. l \notin T
      BY <1>3, <3>1
    <3> QED
      BY <3>1, <3>2, TwoToStep
  <2> QED
    BY <2>1
<1>6. Right(e)
  BY <1>4, <1>5
<1>7. merkle_heap_len(n) = (CHOOSE x \in 0 .. n : Right(x)) + 1
  BY DEF merkle_heap_len
<1>8. PICK c : c = CHOOSE x \in 0 .. n : Right(x)
  OBVIOUS
<1>9. c \in 0 .. n /\ Right(c)
  <2> HIDE DEF Right
  <2> QED
    BY <1>4, <1>6, <1>8
<1>10. c \in Nat /\ merkle_heap_len(n) = c + 1
  BY <1>7, <1>8, <1>9
<1> QED
  BY <1>9, <1>10, Zenon

Least(a, b) == IF a <= b THEN a ELSE b

\* The marks on the levels above the leaves are within the estimate.
LEMMA LevelSum ==
  ASSUME Geometry, NEW M, Marks(M), NEW k \in Nat, k >= 1,
         Count(M, 2 * num_leaves) = Count(M, num_leaves) + k
  PROVE  LET h == merkle_heap_len(num_leaves) IN
           /\ h \in Nat /\ merkle_path_length_digests(h, k) \in Nat
           /\ Count(M, num_leaves) + 1 <= merkle_path_length_digests(h, k) + k
           /\ merkle_path_length_digests(h, k) <= k * h
<1>0. PICK n \in Nat : n = num_leaves /\ n >= 1
  BY DEF Geometry
<1>1. PICK e \in Nat : /\ merkle_heap_len(n) = e + 1 /\ TwoTo(e) >= n
                       /\ \A l \in 0 .. e - 1 : TwoTo(l) < n
  BY <1>0, HeapLen
<1>2. PICK h \in Nat : h = e + 1
  OBVIOUS
<1>3. PICK v : v = total_digests(h, k)
  OBVIOUS
<1>4. /\ v \in [0 .. h -> Nat] /\ v[0] = 0 /\ v[1] = 0
      /\ \A l \in 2 .. h : v[l] = v[l - 1] + level_bound(l - 1, k)
  <2>1. /\ total_digests(h, k) \in [0 .. h -> Nat] /\ total_digests(h, k)[0] = 0
        /\ h >= 1 => total_digests(h, k)[1] = 0
        /\ \A l \in 2 .. h : total_digests(h, k)[l] = total_digests(h, k)[l - 1] + level_bound(l - 1, k)
    BY Totals, Zenon
  <2>2. h >= 1
    BY <1>2
  <2> QED
    BY <1>3, <2>1, <2>2, Zenon
<1> DEFINE Upper(l) == Least(TwoTo(l), n)
           S == {l \in 0 .. e : Count(M, Upper(l)) + 1 <= v[l + 1] + Least(k, TwoTo(l))}
           U == {l \in 0 .. h : v[l] <= k * l}
<1>5. 0 \in S
  <2>1. TwoTo(0) = 1 /\ Upper(0) = 1 /\ Least(k, 1) = 1
    BY <1>0, TwoToStep DEF Least
  <2>2. Count(M, 1) = 0
    BY CountNone
  <2> QED
    BY <1>4, <2>1, <2>2
<1>6. \A l \in 0 .. e - 1 : l \in S => l + 1 \in S
  <2> SUFFICES ASSUME NEW l \in 0 .. e - 1, l \in S PROVE l + 1 \in S
    OBVIOUS
  <2>1. l \in Nat /\ l + 1 \in Nat /\ l + 1 \in 0 .. e /\ (l + 1) + 1 \in 2 .. h
        /\ ((l + 1) + 1) - 1 = l + 1 /\ l + 1 \in 0 .. h
    BY <1>2
  <2>2. PICK t \in Nat : t = TwoTo(l) /\ t > 0 /\ TwoTo(l + 1) = 2 * t /\ t < n
    BY <1>1, <2>1, TwoToStep
  <2>3. PICK b \in Nat : b = level_bound(l + 1, k)
                         /\ b = IF 2 * t <= k THEN 0 ELSE IF 2 * t - k <= k THEN 2 * t - k ELSE k
    <3>1. /\ level_bound(l + 1, k) \in Nat
          /\ level_bound(l + 1, k) = IF TwoTo(l + 1) <= k THEN 0
                                     ELSE IF TwoTo(l + 1) - k <= k THEN TwoTo(l + 1) - k ELSE k
      BY <2>1, Bound
    <3> QED
      BY <2>2, <3>1
  <2>4. v[(l + 1) + 1] = v[l + 1] + b /\ v[l + 1] \in Nat
    BY <1>4, <2>1, <2>3
  <2>5. Upper(l) = t
    BY <1>0, <2>2 DEF Least
  <2>6. PICK u \in 1 .. 2 * n : u = Upper(l + 1) /\ u <= 2 * t
    <3>1. Least(2 * t, n) \in 1 .. 2 * n /\ Least(2 * t, n) <= 2 * t
      BY <1>0, <2>2 DEF Least
    <3> QED
      BY <2>2, <3>1
  <2>7. Count(M, u) <= Count(M, 2 * t) /\ Count(M, u) \in Nat
    <3>1. 2 * t \in u .. 2 * num_leaves /\ u \in 1 .. 2 * num_leaves
      BY <1>0, <2>2, <2>6
    <3> QED
      BY <3>1, CountAdds, CountNat
  <2>8. Count(M, 2 * t) <= Count(M, t) + t /\ Count(M, t) \in Nat /\ Count(M, 2 * t) \in Nat
    <3>1. t \in 1 .. 2 * num_leaves /\ 2 * t \in t .. 2 * num_leaves /\ 2 * t - t = t
          /\ 2 * t \in 1 .. 2 * num_leaves
      BY <1>0, <2>2
    <3>2. Count(M, 2 * t) <= Count(M, t) + (2 * t - t)
      BY <3>1, CountAdds
    <3> QED
      BY <3>1, <3>2, CountNat
  <2>9. Count(M, 2 * t) <= Count(M, t) + k
    <3>1. t \in 1 .. num_leaves
      BY <1>0, <2>2
    <3>2. Count(M, 2 * t) + Count(M, num_leaves) <= Count(M, 2 * num_leaves) + Count(M, t)
      BY <3>1, Cuts
    <3>3. Count(M, num_leaves) \in Nat
      BY <1>0, CountNat
    <3> QED
      BY <2>8, <3>2, <3>3
  <2>10. Count(M, t) + 1 <= v[l + 1] + Least(k, t)
    BY <2>2, <2>5
  <2>11. Count(M, u) + 1 <= v[(l + 1) + 1] + Least(k, 2 * t)
    BY <2>2, <2>3, <2>4, <2>7, <2>8, <2>9, <2>10 DEF Least
  <2> QED
    BY <2>1, <2>2, <2>6, <2>11
<1>7. e \in S
  <2>1. 0 \in Nat /\ e \in 0 .. e
    OBVIOUS
  <2> HIDE DEF S
  <2> QED
    BY <1>5, <1>6, <2>1, Upward
<1>8. Count(M, n) + 1 <= v[h] + k
  <2>1. TwoTo(e) \in Nat /\ v[h] \in Nat /\ Count(M, n) \in Nat
    <3>1. TwoTo(e) \in Nat
      BY TwoToStep
    <3>2. v[h] \in Nat
      BY <1>2, <1>4
    <3>3. num_leaves \in 1 .. 2 * num_leaves
      BY <1>0
    <3>4. Count(M, num_leaves) \in Nat
      BY <3>3, CountNat
    <3> QED
      BY <1>0, <3>1, <3>2, <3>4
  <2>2. Upper(e) = n /\ Least(k, TwoTo(e)) <= k /\ Least(k, TwoTo(e)) \in Nat
    BY <1>1, <2>1 DEF Least
  <2>3. Count(M, n) + 1 <= v[h] + Least(k, TwoTo(e))
    BY <1>2, <1>7, <2>2
  <2> QED
    BY <2>1, <2>2, <2>3
<1>9. v[h] <= k * h
  <2>1. 0 \in U
    BY <1>4
  <2>2. \A l \in 0 .. h - 1 : l \in U => l + 1 \in U
    <3> SUFFICES ASSUME NEW l \in 0 .. h - 1, l \in U PROVE l + 1 \in U
      OBVIOUS
    <3>1. k * (l + 1) = k * l + k /\ k * l \in Nat /\ l + 1 \in 0 .. h
      OBVIOUS
    <3>2. CASE l = 0
      <4>1. v[l + 1] = 0
        BY <1>4, <3>2
      <4> QED
        BY <3>1, <4>1
    <3>3. CASE l >= 1
      <4>1. l \in Nat /\ l + 1 \in 2 .. h /\ (l + 1) - 1 = l
        BY <3>3
      <4>2. v[l + 1] = v[l] + level_bound(l, k) /\ v[l] \in Nat
        BY <1>4, <4>1
      <4>3. level_bound(l, k) \in Nat /\ level_bound(l, k) <= k
        BY <4>1, Bound
      <4>4. v[l] <= k * l
        OBVIOUS
      <4>5. PICK p \in Nat : p = k * l
        BY <3>1
      <4>6. v[l + 1] <= p + k
        BY <4>2, <4>3, <4>4, <4>5
      <4> QED
        BY <3>1, <4>5, <4>6
    <3> QED
      BY <3>2, <3>3
  <2>3. 0 \in Nat /\ h \in 0 .. h
    OBVIOUS
  <2>4. h \in U
    <3> HIDE DEF U
    <3> QED
      BY <2>1, <2>2, <2>3, Upward
  <2> QED
    BY <2>4
<1>10. merkle_heap_len(num_leaves) = h /\ merkle_path_length_digests(h, k) = v[h] /\ v[h] \in Nat
  BY <1>0, <1>1, <1>2, <1>3, <1>4 DEF merkle_path_length_digests
<1> QED
  BY <1>0, <1>8, <1>9, <1>10

\* What generate_proof has listed at any time is within both limits.
LEMMA PathFits ==
  ASSUME IInv, PathInv, pc = "generate"
  PROVE  /\ Len(path) <= Len(indices) * merkle_heap_len(num_leaves)
         /\ Len(path) <= merkle_path_length_digests(merkle_heap_len(num_leaves), Len(indices))
<1>1. Geometry
  BY TypeGeometry DEF IInv
<1>2. PICK M : M = is_node_on_path /\ Marks(M)
  BY DEF PathInv, GenerateInv
<1>3. PICK r : Ranks(M, r, i) /\ Listed(M, r, i)
  BY <1>2 DEF PathInv, GenerateInv
<1>4. Markable
  BY DEF IInv, MarkInv
<1>5. PICK k \in Nat : k = Len(indices) /\ k >= 1 /\ indices \in [1 .. k -> Nat]
  <2>1. indices \in Seq(Nat) /\ indices # <<>>
    BY <1>1, <1>4 DEF IInv, TypeOK, Markable, Geometry
  <2> QED
    BY <2>1
<1>6. i \in 0 .. num_leaves - 1
  BY DEF IInv, TypeOK
<1>7. Count(M, 2 * num_leaves) = Count(M, num_leaves) + k
  BY <1>1, <1>2, <1>4, <1>5, LeafCount
<1>8. /\ r[i] \in Nat
      /\ r[i] + k + 2 * Count(M, i + 1) = Count(M, 2 * (i + 1)) + Count(M, num_leaves)
  BY <1>1, <1>2, <1>3, <1>6, <1>7, RankIs
<1>9. /\ Count(M, 2 * (i + 1)) <= 2 * Count(M, i + 1) + 1
      /\ Count(M, i + 1) \in Nat /\ Count(M, 2 * (i + 1)) \in Nat /\ Count(M, num_leaves) \in Nat
  <2>1. /\ i + 1 \in 1 .. num_leaves /\ i + 1 \in 1 .. 2 * num_leaves
        /\ 2 * (i + 1) \in 1 .. 2 * num_leaves /\ num_leaves \in 1 .. 2 * num_leaves
    BY <1>1, <1>6 DEF Geometry
  <2> QED
    BY <1>1, <1>2, <2>1, Cuts, CountNat
<1>10. PICK h \in Nat, e \in Nat :
         /\ h = merkle_heap_len(num_leaves) /\ e = merkle_path_length_digests(h, k)
         /\ Count(M, num_leaves) + 1 <= e + k /\ e <= k * h
  BY <1>1, <1>2, <1>5, <1>7, LevelSum
<1>11. Len(path) = r[i]
  BY <1>3 DEF Listed
<1>12. Len(path) <= e
  <2>1. Count(M, num_leaves) + 1 <= e + k
    BY <1>10
  <2>2. r[i] + k <= Count(M, num_leaves) + 1
    BY <1>8, <1>9
  <2>3. r[i] <= e
    BY <1>8, <1>9, <2>1, <2>2
  <2> QED
    BY <1>11, <2>3
<1>13. Len(path) <= k * h
  <2>1. PICK p \in Nat : p = k * h
    OBVIOUS
  <2>2. Len(path) \in Nat /\ e <= p
    BY <1>8, <1>10, <1>11, <2>1
  <2> QED
    BY <1>12, <2>1, <2>2
<1> QED
  BY <1>5, <1>10, <1>12, <1>13

\* Completeness at the reader: the prover's path passes the limit of read_path
\* (nreq * mc_pathlen digests) and merkle_path_length_digests allows for it,
\* for every number of leaves and every set of positions, although the bound
\* per level in that function's comment does not hold.
THEOREM OpeningsComplete == Spec => []Complete
<1>1. IInv /\ PathInv => Complete
  BY PathFits DEF Complete, PathInv
<1> QED
  BY <1>1, InitIInv, Inductive, InitPath, PathInductive, PTL DEF Spec
=============================================================================
