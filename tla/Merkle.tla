------------------------------- MODULE Merkle -------------------------------
(***************************************************************************)
(* The Merkle heap commitment of runtime/merkle/src: commit, open with a   *)
(* compressed multi-leaf proof, and verify.                                *)
(*                                                                         *)
(* The heap is an array indexed 1 .. 2n - 1, leaves at n .. 2n - 1, the    *)
(* children of j at 2j and 2j + 1.  The loops over the heap are actions,   *)
(* one turn each, so that they can be reasoned about by invariants.        *)
(*                                                                         *)
(* SHA-256 is ideal: a digest is the pair it was computed from, with no    *)
(* domain separation between a leaf (nonce, column) and an internal node   *)
(* (left, right), exactly as in the code.                                  *)
(*                                                                         *)
(* The verifier takes the query positions from its own transcript; nonces, *)
(* columns and path come from the proof it was given, which may be the     *)
(* prover's or any other.                                                  *)
(***************************************************************************)
EXTENDS Integers, SequencesExt

CONSTANTS
  Leaves,     \* numbers of leaves (codeword lengths) to commit to
  Column,     \* contents of a committed column
  Nonce,      \* salts
  DisputedLeaves,  \* bound: leaves up to which other proofs arrive
  DisputedQueries, \* bound: positions up to which other proofs arrive
  Foreign,    \* digests that occur in no heap
  MaxQueries, \* bound: positions opened at once
  MaxPath     \* bound: digests in a proof that is not the prover's

ASSUME MerkleAssumption ==
  /\ Leaves \subseteq Nat \ {0}
  /\ MaxQueries \in Nat /\ MaxPath \in Nat
  /\ DisputedLeaves \in Nat /\ DisputedQueries \in Nat

VARIABLES
  pc,          \* control point of the prover, then of the verifier
  num_leaves,  \* number of leaves
  column,      \* the committed columns
  salt,        \* MerkleCommitment.nonce
  layers,      \* MerkleHeap.layers
  i,           \* loop variable
  indices,     \* opened_indices, from the transcript
  is_node_on_path,
  path,        \* the path generated by the prover
  proof,       \* what the verifier received: nonces, columns and path
  proof_idx,   \* digests of the path consumed
  known,       \* nodes for which computed_nodes holds Some
  computed,    \* computed_nodes
  result       \* the verifier's verdict

heap == <<num_leaves, column, salt, layers>>
vars == <<pc, num_leaves, column, salt, layers, i, indices, is_node_on_path,
          path, proof, proof_idx, known, computed, result>>

-----------------------------------------------------------------------------
Node == 1 .. 2 * num_leaves - 1
Internal == 1 .. num_leaves - 1

\* sha.update(nonce); update_leaf_hash(...)
LeafHash(n, c) == <<n, c>>

hash2(l, r) == <<l, r>>

Default == <<>>

root == layers[1]

\* Powers of two, as a recursive function.
Powers(w) == LET v[q \in 0 .. w] == IF q = 0 THEN 1 ELSE 2 * v[q - 1] IN v
TwoTo(w) == Powers(w)[w]

\* Mutant of merkle_heap_len: the base-two logarithm, rounded down.
merkle_heap_len_Log(n) ==
  IF n = 0 THEN 0 ELSE CHOOSE k \in 0 .. n : TwoTo(k) <= n /\ TwoTo(k + 1) > n

\* Number of levels of a heap: the exponent of the next power of two, plus 1.
merkle_heap_len(n) ==
  IF n = 0 THEN 0
  ELSE (CHOOSE k \in 0 .. n : TwoTo(k) >= n /\ \A m \in 0 .. k - 1 : TwoTo(m) < n) + 1

\* merkle_path_length_digests of runtime/ligero/src/geometry.rs: the number of
\* digests the size estimate allows at a level, the total when its loop comes to
\* a level, and in all.
level_bound(level, nreq) == Min({nreq, Max({0, TwoTo(level) - nreq})})

total_digests(h, nreq) ==
  LET total[level \in 0 .. h] ==
        IF level <= 1 THEN 0 ELSE total[level - 1] + level_bound(level - 1, nreq)
  IN  total

\* Mutant of merkle_path_length_digests: the level of the leaves is left out.
merkle_path_length_digests_NoLeaves(h, nreq) == total_digests(h, nreq)[Max({0, h - 1})]

merkle_path_length_digests(h, nreq) == total_digests(h, nreq)[h]

-----------------------------------------------------------------------------
(***************************************************************************)
(* commit: hash every salted column and build the heap bottom-up.          *)
(***************************************************************************)
Commit ==
  /\ pc = "commit"
  /\ layers' = [j \in Node |->
       IF j >= num_leaves
         THEN LeafHash(salt[j - num_leaves], column[j - num_leaves])
         ELSE Default]
  /\ i' = num_leaves - 1
  /\ pc' = "build"
  /\ UNCHANGED <<num_leaves, column, salt, indices, is_node_on_path, path,
                 proof, proof_idx, known, computed, result>>

BuildStep ==
  /\ pc = "build" /\ i >= 1
  /\ layers' = [layers EXCEPT ![i] = hash2(layers[2 * i], layers[2 * i + 1])]
  /\ i' = i - 1
  /\ UNCHANGED <<pc, num_leaves, column, salt, indices, is_node_on_path, path,
                 proof, proof_idx, known, computed, result>>

-----------------------------------------------------------------------------
(***************************************************************************)
(* mark_paths_to_root, used by open and by verify.                         *)
(***************************************************************************)
BadIndex(q) ==
  \/ indices[q] >= num_leaves
  \/ \E p \in 1 .. q - 1 : indices[p] = indices[q]

\* The error of the first index that is out of range or repeated.
IndexError ==
  LET q == CHOOSE q \in DOMAIN indices :
             BadIndex(q) /\ \A p \in 1 .. q - 1 : ~BadIndex(p)
  IN  IF indices[q] >= num_leaves THEN "LeafIndexOutOfBounds"
                                  ELSE "DuplicateLeafIndex"

MarkError ==
  IF indices = <<>> THEN "EmptyLeaves" ELSE IndexError

Markable == indices # <<>> /\ \A q \in DOMAIN indices : ~BadIndex(q)

\* The leaf loop: the opened leaves are on the path.
MarkedLeaves ==
  [j \in Node |-> \E q \in DOMAIN indices : j = indices[q] + num_leaves]

\* Mutant of MarkStep: only the left child is looked at.
MarkStep_Left(at) ==
  /\ pc = at /\ i >= 1
  /\ is_node_on_path' = [is_node_on_path EXCEPT ![i] = is_node_on_path[2 * i]]
  /\ i' = i - 1
  /\ UNCHANGED <<pc, num_leaves, column, salt, layers, indices, path, proof,
                 proof_idx, known, computed, result>>

\* One turn of the loop over the internal nodes, from the bottom.
MarkStep(at) ==
  /\ pc = at /\ i >= 1
  /\ is_node_on_path' = [is_node_on_path EXCEPT ![i] =
       is_node_on_path[2 * i] \/ is_node_on_path[2 * i + 1]]
  /\ i' = i - 1
  /\ UNCHANGED <<pc, num_leaves, column, salt, layers, indices, path, proof,
                 proof_idx, known, computed, result>>

\* The child of j that the proof has to supply, if just one is on the path.
NeedsSibling(j) ==
  is_node_on_path[j] /\ is_node_on_path[2 * j] # is_node_on_path[2 * j + 1]

\* Mutant of Sibling: the child that is on the path.
Sibling_Wrong(j) == IF is_node_on_path[2 * j] THEN 2 * j ELSE 2 * j + 1

Sibling(j) == IF is_node_on_path[2 * j] THEN 2 * j + 1 ELSE 2 * j

-----------------------------------------------------------------------------
(***************************************************************************)
(* open: the salts of the opened leaves and generate_proof.  A bad index   *)
(* trips the assertion or the expect, and the prover panics.               *)
(***************************************************************************)
Open ==
  /\ pc = "build" /\ i = 0
  /\ \E q \in 0 .. MaxQueries : indices' \in [1 .. q -> 0 .. num_leaves]
  /\ pc' = "open"
  /\ UNCHANGED <<num_leaves, column, salt, layers, i, is_node_on_path, path,
                 proof, proof_idx, known, computed, result>>

OpenPanics ==
  /\ pc = "open" /\ ~Markable
  /\ pc' = "panicked"
  /\ UNCHANGED <<heap, i, indices, is_node_on_path, path, proof, proof_idx,
                 known, computed, result>>

OpenMark ==
  /\ pc = "open" /\ Markable
  /\ is_node_on_path' = MarkedLeaves
  /\ i' = num_leaves - 1
  /\ pc' = "open_mark"
  /\ UNCHANGED <<heap, indices, path, proof, proof_idx, known, computed, result>>

GenerateProof ==
  /\ pc = "open_mark" /\ i = 0
  /\ path' = <<>>
  /\ i' = num_leaves - 1
  /\ pc' = "generate"
  /\ UNCHANGED <<heap, indices, is_node_on_path, proof, proof_idx, known,
                 computed, result>>

GenerateStep ==
  /\ pc = "generate" /\ i >= 1
  /\ path' = IF NeedsSibling(i) THEN Append(path, layers[Sibling(i)]) ELSE path
  /\ i' = i - 1
  /\ UNCHANGED <<pc, heap, indices, is_node_on_path, proof, proof_idx, known,
                 computed, result>>

-----------------------------------------------------------------------------
(***************************************************************************)
(* The proof reaches the verifier.                                         *)
(***************************************************************************)
HonestProof ==
  [nonce  |-> [q \in DOMAIN indices |-> salt[indices[q]]],
   column |-> [q \in DOMAIN indices |-> column[indices[q]]],
   path   |-> path]

Receive(p) ==
  /\ proof' = p
  /\ pc' = "verify"
  /\ UNCHANGED <<heap, i, indices, is_node_on_path, path, proof_idx, known,
                 computed, result>>

ReceiveHonest == pc = "generate" /\ i = 0 /\ Receive(HonestProof)

\* Any other nonces, columns and path.
AnyProof(pool) ==
  [nonce  : BoundedSeq(Nonce, MaxQueries),
   column : [DOMAIN indices -> Column],
   path   : BoundedSeq(pool, MaxPath)]

ReceiveOther ==
  /\ num_leaves <= DisputedLeaves /\ Len(indices) <= DisputedQueries
  /\ (pc = "generate" /\ i = 0) \/ (pc = "open" /\ ~Markable)
  /\ \E p \in AnyProof(Range(layers) \cup Foreign) : Receive(p)

-----------------------------------------------------------------------------
(***************************************************************************)
(* verify: nonce count, leaf digests, mark_paths_to_root, then the three   *)
(* passes of verify_proof_with_hash.                                       *)
(***************************************************************************)
Reject(error) ==
  /\ result' = error
  /\ pc' = "done"
  /\ UNCHANGED <<heap, i, indices, is_node_on_path, path, proof, proof_idx,
                 known, computed>>

VerifyNonceLength ==
  /\ pc = "verify" /\ Len(proof.nonce) # Len(indices)
  /\ Reject("InvalidNonceLength")

VerifyIndices ==
  /\ pc = "verify" /\ Len(proof.nonce) = Len(indices) /\ ~Markable
  /\ Reject(MarkError)

VerifyMark ==
  /\ pc = "verify" /\ Len(proof.nonce) = Len(indices) /\ Markable
  /\ is_node_on_path' = MarkedLeaves
  /\ known' = {}
  /\ computed' = [j \in Node |-> Default]
  /\ i' = num_leaves - 1
  /\ pc' = "verify_mark"
  /\ UNCHANGED <<heap, indices, path, proof, proof_idx, result>>

\* LeafIndexNotOnPath is returned unless the root came out marked.
StartSiblings ==
  /\ pc = "verify_mark" /\ i = 0
  /\ IF is_node_on_path[1]
       THEN /\ proof_idx' = 0
            /\ i' = num_leaves - 1
            /\ pc' = "siblings"
            /\ UNCHANGED <<heap, indices, is_node_on_path, path, proof, known,
                           computed, result>>
       ELSE Reject("LeafIndexNotOnPath")

SiblingStep ==
  /\ pc = "siblings" /\ i >= 1
  /\ NeedsSibling(i) => proof_idx < Len(proof.path)
  /\ IF NeedsSibling(i)
       THEN /\ computed' = [computed EXCEPT ![Sibling(i)] = proof.path[proof_idx + 1]]
            /\ known' = known \cup {Sibling(i)}
            /\ proof_idx' = proof_idx + 1
       ELSE UNCHANGED <<computed, known, proof_idx>>
  /\ i' = i - 1
  /\ UNCHANGED <<pc, heap, indices, is_node_on_path, path, proof, result>>

PathTooShort ==
  /\ pc = "siblings" /\ i >= 1
  /\ NeedsSibling(i) /\ proof_idx >= Len(proof.path)
  /\ Reject("ProofLengthMismatch")

\* Mutant of PathConsumed: any path that was long enough will do.
PathConsumed_Anyway == TRUE

PathConsumed == proof_idx = Len(proof.path)

\* Trailing digests are a second encoding of the same opening.
PathTooLong ==
  /\ pc = "siblings" /\ i = 0 /\ ~PathConsumed
  /\ Reject("ProofLengthMismatch")

\* Mutant of OpenedLeaf: the first opened column is used for every query.
OpenedLeaf_First(q) == LeafHash(proof.nonce[1], proof.column[1])

OpenedLeaf(q) == LeafHash(proof.nonce[q], proof.column[q])

Populate ==
  /\ pc = "siblings" /\ i = 0 /\ PathConsumed
  /\ computed' = [j \in Node |->
       IF \E q \in DOMAIN indices : j = indices[q] + num_leaves
         THEN OpenedLeaf(CHOOSE q \in DOMAIN indices : j = indices[q] + num_leaves)
         ELSE computed[j]]
  /\ known' = known \cup {indices[q] + num_leaves : q \in DOMAIN indices}
  /\ i' = num_leaves - 1
  /\ pc' = "rebuild"
  /\ UNCHANGED <<heap, indices, is_node_on_path, path, proof, proof_idx, result>>

RebuildStep ==
  /\ pc = "rebuild" /\ i >= 1
  /\ IF {2 * i, 2 * i + 1} \subseteq known
       THEN /\ computed' = [computed EXCEPT ![i] =
                              hash2(computed[2 * i], computed[2 * i + 1])]
            /\ known' = known \cup {i}
       ELSE UNCHANGED <<computed, known>>
  /\ i' = i - 1
  /\ UNCHANGED <<pc, heap, indices, is_node_on_path, path, proof, proof_idx, result>>

RootMatches == 1 \in known /\ computed[1] = root

CheckRoot ==
  /\ pc = "rebuild" /\ i = 0
  /\ Reject(IF RootMatches THEN "Ok" ELSE "RootMismatch")

-----------------------------------------------------------------------------
Init ==
  /\ pc = "commit"
  /\ num_leaves \in Leaves
  /\ column \in [0 .. num_leaves - 1 -> Column]
  /\ salt \in [0 .. num_leaves - 1 -> Nonce]
  /\ layers = <<>> /\ i = 0 /\ indices = <<>> /\ is_node_on_path = <<>>
  /\ path = <<>> /\ proof = <<>> /\ proof_idx = 0
  /\ known = {} /\ computed = <<>> /\ result = "none"

Next ==
  \/ Commit \/ BuildStep
  \/ Open \/ OpenPanics \/ OpenMark \/ MarkStep("open_mark")
  \/ GenerateProof \/ GenerateStep
  \/ ReceiveHonest \/ ReceiveOther
  \/ VerifyNonceLength \/ VerifyIndices \/ VerifyMark \/ MarkStep("verify_mark")
  \/ StartSiblings \/ SiblingStep \/ PathTooShort \/ PathTooLong
  \/ Populate \/ RebuildStep \/ CheckRoot

Spec == Init /\ [][Next]_vars

-----------------------------------------------------------------------------
(***************************************************************************)
(* Properties.                                                             *)
(***************************************************************************)
ControlPoint ==
  {"commit", "build", "open", "panicked", "open_mark", "generate", "verify",
   "verify_mark", "siblings", "rebuild", "done"}

Verdict ==
  {"none", "Ok", "InvalidNonceLength", "EmptyLeaves", "LeafIndexOutOfBounds",
   "DuplicateLeafIndex", "ProofLengthMismatch", "RootMismatch"}

\* Type invariant.  LeafIndexNotOnPath is not a verdict: once the indices
\* pass, the root is always marked, so that error of verify_proof is dead.
TypeOK ==
  /\ pc \in ControlPoint
  /\ num_leaves \in Leaves
  /\ i \in 0 .. num_leaves - 1
  /\ indices \in Seq(0 .. num_leaves)
  /\ pc # "commit" => DOMAIN layers = Node
  /\ pc \in {"open_mark", "generate", "verify_mark", "siblings", "rebuild"} =>
       is_node_on_path \in [Node -> BOOLEAN]
  /\ proof_idx \in Nat
  /\ known \subseteq Node
  /\ pc \in {"verify_mark", "siblings", "rebuild"} => DOMAIN computed = Node
  /\ result \in Verdict
  /\ result # "none" => pc = "done"

\* Binding (verify of commitment.rs): whatever proof was supplied, an opening
\* that is accepted shows, at every queried position, the column and the salt
\* that were committed there.  No domain separation is needed for it.
Binding ==
  result = "Ok" =>
    \A q \in DOMAIN indices :
      /\ proof.column[q] = column[indices[q]]
      /\ proof.nonce[q] = salt[indices[q]]

\* Completeness: the proof made by open is accepted, for every set of distinct
\* positions in any order and every number of leaves, a power of two or not.
HonestAccepted ==
  pc = "done" /\ Markable /\ proof = HonestProof => result = "Ok"

\* Completeness at the reader too: the path of an honest proof, which is
\* accepted, passes the reader's limit of nreq * mc_pathlen digests (read_path
\* of runtime/proto/src/merkle.rs), and the estimate of the size allows for it.
Complete ==
  /\ HonestAccepted
  /\ pc = "generate" =>
       /\ Len(path) <= Len(indices) * merkle_heap_len(num_leaves)
       /\ Len(path) <= merkle_path_length_digests(merkle_heap_len(num_leaves), Len(indices))

\* An opening has one encoding: an accepted path is the one generate_proof
\* makes, digest by digest, with nothing missing, reordered or trailing.
CanonicalPath == result = "Ok" => proof.path = path

\* What the comment on merkle_path_length_digests says of one level: at most
\* min(nreq, 2^level - nreq) digests come from it.
SiblingOf(j) == IF j % 2 = 0 THEN j + 1 ELSE j - 1

Supplied(level) ==
  {j \in Node \ {1} : /\ TwoTo(level) <= j /\ j < TwoTo(level + 1)
                      /\ ~is_node_on_path[j] /\ is_node_on_path[SiblingOf(j)]}

EstimateByLevel ==
  pc = "generate" =>
    \A level \in 1 .. merkle_heap_len(num_leaves) - 1 :
      Cardinality(Supplied(level)) <= level_bound(level, Len(indices))
=============================================================================
