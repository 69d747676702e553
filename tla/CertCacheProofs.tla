-------------------------- MODULE CertCacheProofs --------------------------
(***************************************************************************)
(* Proofs about CertCache: whatever the modules, the number of workers and *)
(* the edits, an accepted cache holds current objects for the modules that *)
(* are compiled one by one.                                                *)
(***************************************************************************)
EXTENDS CertCache, TLAPS

(***************************************************************************)
(* The inductive invariant.  Compiled(S) is what a finished loop over S    *)
(* leaves behind and what the later steps must not disturb.                *)
(***************************************************************************)
Compiled(S) == \A m \in S : m \notin linked /\ object[m] = staged[m]

Progress ==
  /\ pc = "base" => todo \subseteq Base /\ Compiled(Base \ todo)
  /\ pc = "pool" => todo \subseteq Leaf /\ Compiled(Base)
  /\ pc = "top" => todo \subseteq Top /\ Compiled(Base) /\ Compiled(Top \ todo)
  /\ pc # "idle" => state.status # "checked"
  /\ state.status = "checked" => Compiled(Base \cup Top)

\* Lean works on a module whose link is gone, on behalf of one worker or of
\* certify itself; a worker that was joined has returned Ok.
Processes ==
  /\ lean \cap linked = {}
  /\ pc \in {"idle", "stage"} => lean = {}
  /\ pc \in {"base", "top"} => lean \subseteq todo
  /\ pc = "pool" =>
       /\ lean \subseteq Leaf
       /\ \A m \in lean : \E w \in Worker : worker[w] = m
       /\ \A w \in Worker : w <= joined => worker[w] = "ok"

IInv == TypeOK /\ Progress /\ Processes

LEMMA StatusIsNoLeaf == WorkerStatus \cap Leaf = {}
BY CertCacheAssumption DEF Module

LEMMA InitIInv == Init => IInv
BY CertCacheAssumption
   DEF Init, IInv, TypeOK, Progress, Processes, Compiled, Module, Version, Worker,
       WorkerStatus, Missing, NoModule

LEMMA Inductive == IInv /\ [Next]_vars => IInv'
<1> SUFFICES ASSUME IInv, [Next]_vars PROVE IInv'
  OBVIOUS
<1> USE CertCacheAssumption, StatusIsNoLeaf DEF IInv, files, run
<1>1. ASSUME NEW m \in Module, NEW v \in Version, Edit(m, v) PROVE IInv'
  BY <1>1 DEF Edit, TypeOK, Progress, Processes, Compiled
<1>2. CASE Start
  BY <1>2 DEF Start, TypeOK, Progress, Processes, Compiled
<1>3. CASE Crash
  BY <1>3 DEF Crash, Abandon, TypeOK, Progress, Processes, Compiled, NoModule, Missing,
              WorkerStatus
<1>4. ASSUME NEW m \in Module, StageRead(m) PROVE IInv'
  BY <1>4 DEF StageRead, TypeOK, Progress, Processes, Compiled, Version
<1>5. CASE StageWrite
  <2>1. source[reading.module] \in 0 .. MaxVersion /\ reading.module \in Module
    BY <1>5 DEF StageWrite, TypeOK, Version, NoModule
  <2>2. TypeOK'
    BY <1>5, <2>1 DEF StageWrite, TypeOK, Missing, NoModule
  <2>3. Progress'
    BY <1>5 DEF StageWrite, Progress
  <2>4. Processes'
    BY <1>5 DEF StageWrite, Processes
  <2> QED
    BY <2>2, <2>3, <2>4
<1>6. CASE StageDone
  BY <1>6 DEF StageDone, TypeOK, Progress, Processes, Compiled, Module
<1>7. ASSUME NEW m \in Module, StartCompile(m) PROVE IInv'
  <2>1. TypeOK'
    BY <1>7 DEF StartCompile, Detach, TypeOK, Missing
  <2>2. Progress'
    BY <1>7 DEF StartCompile, Detach, TypeOK, Progress, Compiled, Module
  <2>3. Processes'
    BY <1>7 DEF StartCompile, Detach, Processes
  <2> QED
    BY <2>1, <2>2, <2>3
<1>8. ASSUME NEW m \in Module, Compile(m) PROVE IInv'
  <2>1. /\ object' = [object EXCEPT ![m] = staged[m]]
        /\ reuse' = reuse /\ linked' = linked /\ m \notin linked
        /\ lean' = lean \ {m} /\ m \in todo
    BY <1>8 DEF Compile, LeanWrites, Processes
  <2>2. TypeOK'
    BY <1>8, <2>1 DEF Compile, TypeOK
  <2>3. Progress'
    BY <1>8, <2>1 DEF Compile, TypeOK, Progress, Compiled, Module
  <2>4. Processes'
    BY <1>8, <2>1 DEF Compile, Processes
  <2> QED
    BY <2>2, <2>3, <2>4
<1>9. ASSUME NEW m \in Module, CompileRejected(m) PROVE IInv'
  <2>1. TypeOK'
    BY <1>9 DEF CompileRejected, Abandon, TypeOK, NoModule, Missing, WorkerStatus
  <2>2. Progress'
    BY <1>9 DEF CompileRejected, Abandon, Progress, Compiled
  <2>3. Processes'
    BY <1>9 DEF CompileRejected, Abandon, Processes
  <2> QED
    BY <2>1, <2>2, <2>3
<1>10. CASE StartPool
  <2>1. lean = {}
    BY <1>10 DEF StartPool, Processes
  <2>2. \A w \in Worker : ~(w <= 0)
    BY DEF Worker
  <2> QED
    BY <1>10, <2>1, <2>2
       DEF StartPool, TypeOK, Progress, Processes, Compiled, Module, WorkerStatus
<1>11. ASSUME NEW w \in Worker, NEW m \in Leaf, Pop(w, m) PROVE IInv'
  <2>1. pc = "pool" /\ "run" \notin Leaf
    BY <1>11 DEF Pop, TypeOK, WorkerStatus
  <2>2. TypeOK' /\ Progress'
    BY <1>11, <2>1 DEF Pop, TypeOK, Progress, Compiled
  <2>3. Processes'
    BY <1>11, <2>1 DEF Pop, TypeOK, Processes
  <2> QED
    BY <2>2, <2>3
<1>12. ASSUME NEW w \in Worker, WorkerReturns(w) PROVE IInv'
  <2>1. pc = "pool" /\ "run" \notin Leaf
    BY <1>12 DEF WorkerReturns, TypeOK, WorkerStatus
  <2>2. TypeOK' /\ Progress'
    BY <1>12, <2>1 DEF WorkerReturns, TypeOK, Progress, Compiled, WorkerStatus
  <2>3. Processes'
    BY <1>12, <2>1 DEF WorkerReturns, TypeOK, Processes
  <2> QED
    BY <2>2, <2>3
<1>13. ASSUME NEW w \in Worker, WorkerStarts(w) PROVE IInv'
  <2>1. pc = "pool" /\ worker[w] \in Leaf /\ worker[w] \in Module
    BY <1>13 DEF WorkerStarts, TypeOK, WorkerStatus, Module
  <2>2. TypeOK'
    BY <1>13, <2>1 DEF WorkerStarts, Detach, TypeOK, Missing
  <2>3. Progress'
    BY <1>13, <2>1 DEF WorkerStarts, Detach, TypeOK, Progress, Compiled, Module
  <2>4. Processes'
    BY <1>13, <2>1 DEF WorkerStarts, Detach, TypeOK, Processes
  <2> QED
    BY <2>2, <2>3, <2>4
<1>14. ASSUME NEW w \in Worker, WorkerCompiles(w) PROVE IInv'
  <2>1. pc = "pool"
    BY <1>14 DEF WorkerCompiles, TypeOK, Processes, WorkerStatus, Module
  <2>2. worker[w] \in Leaf /\ worker[w] \in Module /\ worker[w] \notin linked
    BY <1>14, <2>1 DEF WorkerCompiles, Processes, Module
  <2>3. /\ object' = [object EXCEPT ![worker[w]] = staged[worker[w]]]
        /\ reuse' = reuse /\ linked' = linked /\ lean' = lean \ {worker[w]}
    BY <1>14, <2>2 DEF WorkerCompiles, LeanWrites
  <2>4. TypeOK'
    BY <1>14, <2>1, <2>2, <2>3 DEF WorkerCompiles, TypeOK, WorkerStatus
  <2>5. Progress'
    BY <1>14, <2>1, <2>2, <2>3 DEF WorkerCompiles, TypeOK, Progress, Compiled, Module
  <2>6. Processes'
    BY <1>14, <2>1, <2>2, <2>3 DEF WorkerCompiles, TypeOK, Processes, WorkerStatus
  <2> QED
    BY <2>4, <2>5, <2>6
<1>15. ASSUME NEW w \in Worker, WorkerRejected(w) PROVE IInv'
  <2>1. pc = "pool"
    BY <1>15 DEF WorkerRejected, TypeOK, Processes, WorkerStatus, Module
  <2>2. worker[w] \in Leaf
    BY <1>15, <2>1 DEF WorkerRejected, Processes
  <2>3. TypeOK'
    BY <1>15, <2>1, <2>2 DEF WorkerRejected, TypeOK, WorkerStatus
  <2>4. Progress'
    BY <1>15, <2>1 DEF WorkerRejected, Progress, Compiled
  <2>5. Processes'
    BY <1>15, <2>1, <2>2 DEF WorkerRejected, TypeOK, Processes, WorkerStatus
  <2> QED
    BY <2>3, <2>4, <2>5
<1>16. CASE Join
  <2>1. \A w \in Worker : w <= joined + 1 => w <= joined \/ w = joined + 1
    BY DEF TypeOK, Worker
  <2> QED
    BY <1>16, <2>1 DEF Join, TypeOK, Progress, Processes, Compiled
<1>17. CASE PoolFails
  BY <1>17 DEF PoolFails, Abandon, TypeOK, Progress, Processes, Compiled, NoModule, Missing,
               WorkerStatus
<1>18. CASE PoolDone
  <2>1. \A w \in Worker : worker[w] = "ok"
    BY <1>18 DEF PoolDone, Processes, Worker
  <2>2. lean = {}
    BY <1>18, <2>1 DEF PoolDone, Processes, WorkerStatus
  <2> QED
    BY <1>18, <2>2
       DEF PoolDone, TypeOK, Progress, Processes, Compiled, Module, WorkerStatus
<1>19. CASE Publish
  <2>1. TypeOK'
    BY <1>19 DEF Publish, Abandon, TypeOK, NoModule, Missing, WorkerStatus
  <2>2. Progress'
    BY <1>19 DEF Publish, Abandon, Progress, Compiled
  <2>3. Processes'
    BY <1>19 DEF Publish, Abandon, Processes
  <2> QED
    BY <2>1, <2>2, <2>3
<1>20. CASE UNCHANGED vars
  BY <1>20 DEF vars, TypeOK, Progress, Processes, Compiled
<1> QED
  BY <1>1, <1>2, <1>3, <1>4, <1>5, <1>6, <1>7, <1>8, <1>9, <1>10, <1>11, <1>12, <1>13,
     <1>14, <1>15, <1>16, <1>17, <1>18, <1>19, <1>20 DEF Next, Certify

(***************************************************************************)
(* certify keeps its files and threads well typed; no worker thread        *)
(* outlives compile_leaves.                                                *)
(***************************************************************************)
THEOREM TypeCorrect == Spec => []TypeOK
<1>1. IInv => TypeOK
  BY DEF IInv
<1> QED
  BY <1>1, InitIInv, Inductive, PTL DEF Spec

(***************************************************************************)
(* A cache accepted by validated_environment (cache.rs) holds the objects  *)
(* of the current sources of the modules that certify compiles one by one, *)
(* for every inventory, pool size and history of edits and kills.          *)
(***************************************************************************)
THEOREM AcceptedCurrent == Spec => []AcceptedIsCurrent
<1>1. IInv => AcceptedIsCurrent
  BY DEF IInv, Progress, Compiled, AcceptedIsCurrent, Accepts, ObjectAt, Module
<1> QED
  BY <1>1, InitIInv, Inductive, PTL DEF Spec

(***************************************************************************)
(* compile_leaves.  A pending leaf is queued, with one worker, compiled,   *)
(* or lost with a worker that reports the error and was not joined yet.    *)
(***************************************************************************)
Done(m) == m \notin linked /\ object[m] = staged[m]

Accounted(m) ==
  \/ m \in todo
  \/ \E w \in Worker : worker[w] = m
  \/ Done(m)
  \/ \E w \in Worker : worker[w] = "err"

PoolInv ==
  /\ pc = "pool" =>
       /\ \A m \in Leaf \ ready : Accounted(m)
       /\ \A w \in Worker : worker[w] \in Leaf =>
            /\ worker[w] \notin todo
            /\ \A u \in Worker : worker[u] = worker[w] => u = w
       /\ \A w \in Worker : worker[w] = "ok" => todo = {}
  /\ pc = "top" => \A m \in Leaf \ ready : Done(m)

LEMMA PoolInductive == IInv /\ PoolInv /\ [Next]_vars => PoolInv'
<1> SUFFICES ASSUME IInv, PoolInv, [Next]_vars PROVE PoolInv'
  OBVIOUS
<1> USE CertCacheAssumption, StatusIsNoLeaf DEF IInv, files, run
<1>1. CASE pc' \notin {"pool", "top"}
  BY <1>1 DEF PoolInv
<1>2. ASSUME NEW m \in Module, NEW v \in Version, Edit(m, v) PROVE PoolInv'
  BY <1>2 DEF Edit, PoolInv, Accounted, Done
<1>3. ASSUME NEW m \in Module, StartCompile(m) PROVE PoolInv'
  <2>1. pc # "top" \/ m \notin Leaf
    BY <1>3 DEF StartCompile, Progress
  <2> QED
    BY <1>3, <2>1 DEF StartCompile, Detach, TypeOK, PoolInv, Done, Module
<1>4. ASSUME NEW m \in Module, Compile(m) PROVE PoolInv'
  <2>1. pc # "top" \/ m \notin Leaf
    BY <1>4 DEF Compile, Progress, Processes
  <2>2. object' = [object EXCEPT ![m] = staged[m]] /\ linked' = linked
    BY <1>4 DEF Compile, LeanWrites, Processes
  <2> QED
    BY <1>4, <2>1, <2>2 DEF Compile, TypeOK, PoolInv, Done, Module
<1>5. CASE StartPool
  BY <1>5 DEF StartPool, PoolInv, Accounted, WorkerStatus, Worker
<1>6. ASSUME NEW w \in Worker, NEW m \in Leaf, Pop(w, m) PROVE PoolInv'
  <2>1. pc = "pool" /\ pc' = "pool"
    BY <1>6 DEF Pop, TypeOK
  <2>2. \A l \in Leaf \ ready : Accounted(l)'
    BY <1>6, <2>1 DEF Pop, TypeOK, PoolInv, Accounted, Done, WorkerStatus
  <2>3. \A u \in Worker : worker'[u] \in Leaf =>
          worker'[u] \notin todo' /\ \A x \in Worker : worker'[x] = worker'[u] => x = u
    BY <1>6, <2>1 DEF Pop, TypeOK, PoolInv
  <2>4. \A u \in Worker : worker'[u] = "ok" => todo' = {}
    BY <1>6, <2>1 DEF Pop, TypeOK, PoolInv, WorkerStatus
  <2> QED
    BY <1>6, <2>1, <2>2, <2>3, <2>4 DEF Pop, PoolInv
<1>7. ASSUME NEW w \in Worker, WorkerReturns(w) PROVE PoolInv'
  <2>1. pc = "pool" /\ pc' = "pool"
    BY <1>7 DEF WorkerReturns, TypeOK
  <2> QED
    BY <1>7, <2>1 DEF WorkerReturns, TypeOK, PoolInv, Accounted, Done, WorkerStatus
<1>8. ASSUME NEW w \in Worker, WorkerStarts(w) PROVE PoolInv'
  <2>1. pc = "pool" /\ pc' = "pool" /\ worker[w] \in Leaf /\ worker' = worker
    BY <1>8 DEF WorkerStarts, TypeOK, WorkerStatus
  <2>2. ASSUME NEW l \in Leaf \ ready PROVE Accounted(l)'
    <3>1. CASE l = worker[w]
      BY <2>1, <3>1 DEF Accounted
    <3>2. CASE l # worker[w]
      BY <1>8, <2>1, <3>2 DEF WorkerStarts, Detach, TypeOK, PoolInv, Accounted, Done
    <3> QED
      BY <3>1, <3>2
  <2> QED
    BY <1>8, <2>1, <2>2 DEF WorkerStarts, PoolInv
<1>9. ASSUME NEW w \in Worker, WorkerCompiles(w) PROVE PoolInv'
  <2>1. pc = "pool" /\ pc' = "pool"
    BY <1>9 DEF WorkerCompiles, TypeOK, Processes, WorkerStatus, Module
  <2>2. worker[w] \in Leaf /\ worker[w] \in Module /\ worker[w] \notin linked
    BY <1>9, <2>1 DEF WorkerCompiles, Processes, Module
  <2>3. object' = [object EXCEPT ![worker[w]] = staged[worker[w]]] /\ linked' = linked
    BY <1>9, <2>2 DEF WorkerCompiles, LeanWrites
  <2>4. ASSUME NEW l \in Leaf \ ready PROVE Accounted(l)'
    <3>1. CASE l = worker[w]
      BY <1>9, <2>2, <2>3, <3>1 DEF WorkerCompiles, TypeOK, Accounted, Done
    <3>2. CASE l # worker[w]
      BY <1>9, <2>1, <2>2, <2>3, <3>2
         DEF WorkerCompiles, TypeOK, PoolInv, Accounted, Done, WorkerStatus
    <3> QED
      BY <3>1, <3>2
  <2>5. \A u \in Worker : worker'[u] \in Leaf =>
          worker'[u] \notin todo' /\ \A x \in Worker : worker'[x] = worker'[u] => x = u
    BY <1>9, <2>1, <2>2 DEF WorkerCompiles, TypeOK, PoolInv, WorkerStatus
  <2>6. \A u \in Worker : worker'[u] = "ok" => todo' = {}
    BY <1>9, <2>1, <2>2 DEF WorkerCompiles, TypeOK, PoolInv
  <2> QED
    BY <1>9, <2>1, <2>4, <2>5, <2>6 DEF WorkerCompiles, PoolInv
<1>10. ASSUME NEW w \in Worker, WorkerRejected(w) PROVE PoolInv'
  <2>1. pc = "pool" /\ pc' = "pool"
    BY <1>10 DEF WorkerRejected, TypeOK, Processes, WorkerStatus, Module
  <2>2. worker[w] \in Leaf
    BY <1>10, <2>1 DEF WorkerRejected, Processes
  <2>3. \A l \in Leaf \ ready : Accounted(l)'
    BY <1>10, <2>1 DEF WorkerRejected, TypeOK, Accounted
  <2>4. \A u \in Worker : worker'[u] \in Leaf =>
          worker'[u] \notin todo' /\ \A x \in Worker : worker'[x] = worker'[u] => x = u
    BY <1>10, <2>1, <2>2 DEF WorkerRejected, TypeOK, PoolInv, WorkerStatus
  <2>5. \A u \in Worker : worker'[u] = "ok" => todo' = {}
    BY <1>10, <2>1 DEF WorkerRejected, TypeOK, PoolInv
  <2> QED
    BY <1>10, <2>1, <2>3, <2>4, <2>5 DEF WorkerRejected, PoolInv
<1>11. CASE Join
  BY <1>11 DEF Join, PoolInv, Accounted, Done
<1>12. CASE PoolDone
  <2>1. \A w \in Worker : worker[w] = "ok"
    BY <1>12 DEF PoolDone, Processes, Worker
  <2>2. 1 \in Worker
    BY DEF Worker
  <2>3. todo = {}
    BY <1>12, <2>1, <2>2 DEF PoolDone, PoolInv
  <2>4. \A m \in Leaf \ ready : Done(m)
    BY <1>12, <2>1, <2>3 DEF PoolDone, PoolInv, Accounted, WorkerStatus
  <2> QED
    BY <1>12, <2>4 DEF PoolDone, PoolInv, Done
<1>13. CASE UNCHANGED vars
  BY <1>13 DEF vars, PoolInv, Accounted, Done
<1> QED
  BY <1>1, <1>2, <1>3, <1>4, <1>5, <1>6, <1>7, <1>8, <1>9, <1>10, <1>11, <1>12, <1>13
     DEF Next, Certify, Start, Crash, Abandon, StageRead, StageWrite, StageDone,
         CompileRejected, PoolFails, Publish

(***************************************************************************)
(* compile_leaves (lean.rs) returns Ok only if every pending leaf was      *)
(* compiled, for every number of leaves and threads and every schedule.    *)
(***************************************************************************)
THEOREM FailuresReported == Spec => []PoolReports
<1>1. Init => PoolInv
  BY DEF Init, PoolInv
<1>2. PoolInv => PoolReports
  BY DEF PoolInv, PoolReports, Done, ObjectAt
<1> QED
  BY <1>1, <1>2, InitIInv, Inductive, PoolInductive, PTL DEF Spec

(***************************************************************************)
(* Reused leaves.  While no source is edited under a running certify and   *)
(* no earlier version comes back, a recorded digest that equals the        *)
(* current source means that the source was not touched since, and so that *)
(* the object was not replaced by one of another version.                  *)
(***************************************************************************)
Fresh(m) == ObjectAt(m) = source[m]

LeafInv ==
  /\ \A m \in Module : reuse[m].object # Missing => reuse[m].object = reuse[m].source
  /\ \A m \in Module : m \in linked => object[m] = Missing
  /\ \A m \in Module : state.hashes[m] <= source[m]
  /\ \A m \in Module : state.hashes[m] = source[m] => ObjectAt(m) \in {Missing, source[m]}
  /\ pc = "idle" => ready = {} /\ reading.module = NoModule
  /\ pc # "idle" => previous = state.hashes
  /\ pc = "stage" =>
       /\ \A m \in Module \ todo : staged[m] = source[m] /\ hashes[m] = source[m]
       /\ reading.module # NoModule =>
            reading.bytes = source[reading.module] /\ reading.module \in todo
       /\ ready \cap todo = {}
  /\ pc \in {"base", "pool", "top"} =>
       staged = source /\ hashes = source
  /\ pc # "idle" => \A m \in ready \cap Leaf : Fresh(m)
  /\ state.status = "checked" => \A m \in Leaf : state.hashes[m] = source[m] => Fresh(m)
  /\ pc = "pool" => \A w \in Worker : worker[w] \in Leaf => worker[w] \notin ready
  /\ pc = "pool" => todo \cap ready = {}

OrderlyInv == orderly => LeafInv

LEMMA LeafInductive == IInv /\ PoolInv /\ OrderlyInv /\ [Next]_vars => OrderlyInv'
<1> SUFFICES ASSUME IInv, PoolInv, OrderlyInv, [Next]_vars, orderly' PROVE LeafInv'
  BY DEF OrderlyInv
<1>0. LeafInv
  BY DEF OrderlyInv, Next, Certify, vars, Edit, Start, Crash, StageRead, StageWrite,
         StageDone, StartCompile, Compile, CompileRejected, StartPool, Pop, WorkerReturns,
         WorkerStarts, WorkerCompiles, WorkerRejected, Join, PoolFails, PoolDone, Publish
<1> USE <1>0, CertCacheAssumption, StatusIsNoLeaf DEF IInv, files, run, Missing
<1>1. ASSUME NEW m \in Module, NEW v \in Version, Edit(m, v) PROVE LeafInv'
  <2>0. pc = "idle" /\ v > source[m]
    BY <1>1, Zenon DEF Edit
  <2>1. pc = "idle" /\ v > source[m] /\ source[m] \in Nat /\ v \in Nat
    BY <2>0 DEF TypeOK, Version
  <2>2. \A l \in Module : state.hashes[l] \in Nat
    BY DEF TypeOK
  <2>3. state.hashes[m] < v
    BY <2>1, <2>2 DEF LeafInv
  <2>4. \A l \in Module : source'[l] = IF l = m THEN v ELSE source[l]
    BY <1>1 DEF Edit, TypeOK
  <2> QED
    BY <1>1, <2>1, <2>2, <2>3, <2>4 DEF Edit, LeafInv, ObjectAt, Fresh, Module
<1>2. CASE Start
  BY <1>2 DEF Start, TypeOK, LeafInv, ObjectAt, Fresh, NoModule
<1>3. CASE Crash
  BY <1>3 DEF Crash, Abandon, Progress, LeafInv, ObjectAt
<1>4. ASSUME NEW m \in Module, StageRead(m) PROVE LeafInv'
  BY <1>4 DEF StageRead, LeafInv, ObjectAt, Fresh
<1>5. CASE StageWrite
  <2>0. PICK m \in Module : m = reading.module
    BY <1>5 DEF StageWrite, TypeOK
  <2>1. /\ m \in todo /\ reading.bytes = source[m]
        /\ source[m] \in Version /\ m \notin ready /\ source[m] # Missing
    BY <1>5, <2>0 DEF StageWrite, TypeOK, LeafInv, NoModule, Version
  <2>2. \A l \in Module : l # m => ObjectAt(l)' = ObjectAt(l)
    BY <1>5, <2>0 DEF StageWrite, ObjectAt, TypeOK
  <2>3. CASE Unchanged(m, source[m])
    BY <1>5, <2>0, <2>1, <2>2, <2>3 DEF StageWrite, Unchanged, Exists, TypeOK, LeafInv, ObjectAt,
                                  Fresh, Progress
  <2>4. CASE ~Unchanged(m, source[m]) /\ Reusable(m, reading.bytes)
    <3>1. linked' = linked \cup {m} /\ object' = [object EXCEPT ![m] = Missing]
          /\ ready' = ready \cup {m}
      BY <1>5, <2>0, <2>4 DEF StageWrite
    <3>2. ObjectAt(m)' = source[m]
      BY <1>5, <2>0, <2>1, <2>4, <3>1 DEF StageWrite, Reusable, LeafInv, ObjectAt
    <3> QED
      BY <1>5, <2>0, <2>1, <2>2, <3>1, <3>2 DEF StageWrite, TypeOK, LeafInv, Fresh, Progress, NoModule
  <2>5. CASE ~Unchanged(m, source[m]) /\ ~Reusable(m, reading.bytes)
    BY <1>5, <2>0, <2>1, <2>2, <2>5 DEF StageWrite, TypeOK, LeafInv, ObjectAt, Fresh, Progress
  <2> QED
    BY <2>3, <2>4, <2>5
<1>6. CASE StageDone
  <2>1. staged = source /\ hashes = source
    BY <1>6 DEF StageDone, LeafInv, TypeOK
  <2> QED
    BY <1>6, <2>1 DEF StageDone, LeafInv, ObjectAt, Fresh
\* Compiling an object makes it fresh, and touches no other object.
<1>7. ASSUME NEW m \in Module, LeanWrites(m), m \in lean,
             UNCHANGED <<source, staged, linked, state, pc, previous, hashes, ready>>,
             pc \in {"base", "pool", "top"}, todo' \subseteq todo,
             pc' = "pool" => \A w \in Worker : worker'[w] \in Leaf => worker'[w] \notin ready
      PROVE  LeafInv'
  <2>1. staged[m] = source[m]
    BY <1>7 DEF LeafInv
  <2>2. /\ m \notin linked /\ reuse' = reuse
        /\ object' = [object EXCEPT ![m] = staged[m]]
    BY <1>7 DEF LeanWrites, Processes
  <2>3. \A l \in Module : ObjectAt(l)' = IF l = m THEN source[m] ELSE ObjectAt(l)
    BY <1>7, <2>1, <2>2 DEF ObjectAt, TypeOK
  <2>4. \A l \in Module : l \in linked' => object'[l] = Missing
    BY <1>7, <2>2 DEF LeafInv, TypeOK
  <2> QED
    BY <1>7, <2>2, <2>3, <2>4 DEF LeafInv, Fresh, TypeOK, Progress, Module
<1>8. ASSUME NEW m \in Module, Compile(m) PROVE LeafInv'
  BY <1>7, <1>8 DEF Compile, LeafInv
<1>9. ASSUME NEW w \in Worker, WorkerCompiles(w) PROVE LeafInv'
  <2>1. pc = "pool"
    BY <1>9 DEF WorkerCompiles, TypeOK, Processes, WorkerStatus, Module
  <2>2. worker[w] \in Leaf /\ worker[w] \in Module
    BY <1>9, <2>1 DEF WorkerCompiles, Processes, Module
  <2>3. \A u \in Worker : worker'[u] \in Leaf => worker'[u] \notin ready
    BY <1>9, <2>1, <2>2 DEF WorkerCompiles, TypeOK, LeafInv, WorkerStatus
  <2> QED
    BY <1>7, <1>9, <2>1, <2>2, <2>3 DEF WorkerCompiles
\* Starting Lean may remove an object, never that of a leaf that is ready.
<1>10. ASSUME NEW m \in Module, Detach(m), m \notin ready \cap Leaf,
              UNCHANGED <<source, staged, reuse, state, pc, previous, hashes, ready, todo,
                          worker>>, pc \in {"base", "pool", "top"}
       PROVE  LeafInv'
  <2>1. \A l \in Module : /\ ObjectAt(l)' \in {ObjectAt(l), Missing}
                          /\ l # m => ObjectAt(l)' = ObjectAt(l)
    BY <1>10 DEF Detach, ObjectAt, TypeOK
  <2>2. \A l \in Module : l \in linked' => object'[l] = Missing
    BY <1>10 DEF Detach, LeafInv, TypeOK
  <2>3. \A l \in ready \cap Leaf : Fresh(l)'
    BY <1>10, <2>1 DEF LeafInv, Fresh, Module
  <2> QED
    BY <1>10, <2>1, <2>2, <2>3 DEF LeafInv, Progress
<1>10a. ASSUME NEW m \in Module, StartCompile(m) PROVE LeafInv'
  <2>1. m \notin Leaf
    BY <1>10a DEF StartCompile, Progress
  <2> QED
    BY <1>10, <1>10a, <2>1 DEF StartCompile
<1>10b. ASSUME NEW w \in Worker, WorkerStarts(w) PROVE LeafInv'
  <2>1. pc = "pool" /\ worker[w] \in Leaf /\ worker[w] \notin ready /\ worker[w] \in Module
    BY <1>10b DEF WorkerStarts, TypeOK, LeafInv, WorkerStatus, Module
  <2> QED
    BY <1>10, <1>10b, <2>1 DEF WorkerStarts
<1>10c. ASSUME NEW m \in Module, CompileRejected(m) PROVE LeafInv'
  BY <1>10c DEF CompileRejected, Abandon, LeafInv, Progress, ObjectAt
<1>11. ASSUME NEW w \in Worker, WorkerRejected(w) PROVE LeafInv'
  <2>1. pc = "pool"
    BY <1>11 DEF WorkerRejected, TypeOK, Processes, WorkerStatus, Module
  <2>2. \A u \in Worker : worker'[u] \in Leaf => worker'[u] \notin ready
    BY <1>11, <2>1 DEF WorkerRejected, TypeOK, LeafInv, WorkerStatus
  <2> QED
    BY <1>11, <2>1, <2>2 DEF WorkerRejected, LeafInv, Progress, ObjectAt, Fresh
<1>12. CASE StartPool
  BY <1>12 DEF StartPool, LeafInv, ObjectAt, Fresh, WorkerStatus
<1>13. ASSUME NEW w \in Worker, NEW m \in Leaf, Pop(w, m) PROVE LeafInv'
  <2>1. pc = "pool"
    BY <1>13 DEF Pop, TypeOK
  <2>2. todo \cap ready = {}
    BY <2>1 DEF LeafInv
  <2> QED
    BY <1>13, <2>1, <2>2 DEF Pop, TypeOK, LeafInv, ObjectAt, Fresh
<1>14. ASSUME NEW w \in Worker, WorkerReturns(w) PROVE LeafInv'
  <2>1. pc = "pool"
    BY <1>14 DEF WorkerReturns, TypeOK
  <2> QED
    BY <1>14, <2>1 DEF WorkerReturns, TypeOK, LeafInv, ObjectAt, Fresh, WorkerStatus
<1>15. CASE Join
  BY <1>15 DEF Join, LeafInv, ObjectAt, Fresh
<1>16. CASE PoolFails
  BY <1>16 DEF PoolFails, Abandon, Progress, LeafInv, ObjectAt, NoModule
<1>17. CASE PoolDone
  BY <1>17 DEF PoolDone, LeafInv, ObjectAt, Fresh
<1>18. CASE Publish
  <2>1. \A m \in Leaf : Fresh(m)
    BY <1>18 DEF Publish, PoolInv, LeafInv, Done, Fresh, ObjectAt
  <2>2. \A m \in Base \cup Top : Fresh(m)
    BY <1>18 DEF Publish, Progress, Compiled, LeafInv, Fresh, ObjectAt
  <2>3. hashes = source /\ \A m \in Module : source[m] <= source[m]
    BY <1>18 DEF Publish, LeafInv, TypeOK, Version
  <2>4. \A m \in Module : Fresh(m) /\ Fresh(m)'
    BY <1>18, <2>1, <2>2 DEF Publish, Module, Fresh, ObjectAt
  <2> QED
    BY <1>18, <2>3, <2>4 DEF Publish, Abandon, LeafInv, Fresh, Module
<1>19. CASE UNCHANGED vars
  BY <1>19 DEF vars, LeafInv, ObjectAt, Fresh
<1> QED
  BY <1>1, <1>2, <1>3, <1>4, <1>5, <1>6, <1>8, <1>9, <1>10a, <1>10b, <1>10c, <1>11,
     <1>12, <1>13, <1>14, <1>15, <1>16, <1>17, <1>18, <1>19 DEF Next, Certify

LEMMA InitLeafInv == Init => LeafInv
BY CertCacheAssumption
   DEF Init, LeafInv, ObjectAt, Missing, Version

(***************************************************************************)
(* As long as sources only moved forward and none was edited under a       *)
(* running certify, the leaves it reuses (stage of cache.rs) are current   *)
(* as well.  Otherwise they need not be: run cert_cache_revert.            *)
(***************************************************************************)
THEOREM LeavesCurrent == Spec => []OrderlyLeafIsCurrent
<1>1. Init => PoolInv /\ OrderlyInv
  BY InitLeafInv DEF Init, PoolInv, OrderlyInv
<1>2. OrderlyInv => OrderlyLeafIsCurrent
  BY DEF OrderlyInv, OrderlyLeafIsCurrent, LeafInv, LeafIsCurrent, Accepts, Fresh, Module
<1> QED
  BY <1>1, <1>2, InitIInv, Inductive, PoolInductive, LeafInductive, PTL DEF Spec

(***************************************************************************)
(* No step of certify writes into the cache it reuses, for any links and   *)
(* schedule: compile (lean.rs) removes a link before it starts Lean, and   *)
(* nothing makes one again while Lean may still write (Processes).         *)
(***************************************************************************)
THEOREM ReuseKept == Spec => ReuseUntouched
<1>1. ASSUME IInv, [Next]_vars PROVE [reuse' = reuse]_vars
  <2>1. ASSUME NEW m \in Module, Compile(m) PROVE reuse' = reuse
    BY <1>1, <2>1 DEF Compile, LeanWrites, IInv, Processes
  <2>2. ASSUME NEW w \in Worker, WorkerCompiles(w) PROVE reuse' = reuse
    BY <1>1, <2>2 DEF WorkerCompiles, LeanWrites, IInv, Processes
  <2> QED
    BY <1>1, <2>1, <2>2
       DEF Next, Certify, files, Edit, Start, Crash, StageRead, StageWrite, StageDone,
           StartCompile, CompileRejected, StartPool, Pop, WorkerReturns, WorkerStarts,
           WorkerRejected, Join, PoolFails, PoolDone, Publish
<1> QED
  BY <1>1, InitIInv, Inductive, PTL DEF Spec, ReuseUntouched
=============================================================================
