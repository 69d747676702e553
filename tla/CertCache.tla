------------------------------ MODULE CertCache ------------------------------
(***************************************************************************)
(* The certificate cache of tools/zk_tool: certify (lean.rs) stages the    *)
(* Lean sources into a private directory, reuses or recompiles objects     *)
(* with a pool of worker threads and publishes build-state.json;           *)
(* validated_environment (cache.rs) decides later whether the cache may be *)
(* trusted.  The sources may be edited, certify may fail at every compile  *)
(* and may be killed between any two steps, together with the Lean         *)
(* processes it started.                                                   *)
(*                                                                         *)
(* A source file is represented by its version, a digest by the version it *)
(* is a digest of, and an object file by the version Lean compiled.        *)
(* write_json replaces a file by rename, hence in one step.  Lean is       *)
(* external: it accepts or rejects a file, and writes the object only when *)
(* it accepts it.  One certify runs at a time.                             *)
(***************************************************************************)
EXTENDS Integers, FiniteSets

CONSTANTS
  Base,        \* modules compiled one by one before the pool
  Leaf,        \* the Degree modules, reused or compiled by the pool
  Top,         \* modules compiled one by one after the pool
  jobs,        \* number of worker threads
  MaxVersion,  \* bound: versions of a source file
  Reuse,       \* modules that the --reuse-checked-cache, if given, may hold
  Racing       \* modules whose source may be edited while certify runs

Module == Base \cup Leaf \cup Top
Version == 1 .. MaxVersion
Worker == 1 .. jobs
Missing == 0
NoModule == "none"
WorkerStatus == {"idle", "run", "ok", "err"}

ASSUME CertCacheAssumption ==
  /\ jobs \in Nat \ {0} /\ MaxVersion \in Nat \ {0}
  /\ Reuse \subseteq Module /\ Racing \subseteq Module
  /\ NoModule \notin Module /\ WorkerStatus \cap Module = {}
  /\ Base \cap Leaf = {} /\ Base \cap Top = {} /\ Leaf \cap Top = {}

VARIABLES
  source,   \* the formal project
  staged,   \* sources under modules/
  object,   \* objects under modules/, a version or Missing
  linked,   \* objects that are symbolic links into the reuse cache
  reuse,    \* --reuse-checked-cache: version of each source and object there
  state,    \* build-state.json
  orderly,  \* history: no edit brought back an older source or met a run
  pc,       \* control point of certify
  previous, \* previous_hashes
  hashes,   \* digests taken while staging
  ready,    \* leaves that need no compilation
  todo,     \* modules still to be staged or compiled at this point
  reading,  \* the module being staged, and the bytes read from it
  worker,   \* what each worker thread does
  joined,   \* workers joined so far
  lean      \* modules that a Lean process is compiling

files == <<source, staged, object, linked, reuse, state>>
run == <<pc, previous, hashes, ready, todo, reading, worker, joined, lean>>
vars == <<files, orderly, run>>

-----------------------------------------------------------------------------
(***************************************************************************)
(* Objects.  Opening a symbolic link for writing writes the file behind    *)
(* it; removing the link leaves that file alone.                           *)
(***************************************************************************)
ObjectAt(m) == IF m \in linked THEN reuse[m].object ELSE object[m]

Exists(m) == ObjectAt(m) # Missing

\* Mutant of Detach: a link into the reuse cache is left where it is.
Detach_KeepLink(m) ==
  /\ UNCHANGED <<linked, object>>
  /\ lean' = lean \cup {m}

\* compile, first step: a linked object is removed, then Lean is started.
Detach(m) ==
  /\ linked' = linked \ {m}
  /\ object' = IF m \in linked THEN [object EXCEPT ![m] = Missing] ELSE object
  /\ lean' = lean \cup {m}

\* Lean accepts the staged source and writes what is at the target path.
LeanWrites(m) ==
  /\ IF m \in linked
       THEN reuse' = [reuse EXCEPT ![m].object = staged[m]] /\ UNCHANGED object
       ELSE object' = [object EXCEPT ![m] = staged[m]] /\ UNCHANGED reuse
  /\ lean' = lean \ {m}

-----------------------------------------------------------------------------
\* Somebody edits the formal project and may bring back an earlier version.
Edit(m, v) ==
  /\ m \in Racing \/ pc = "idle"
  /\ v # source[m]
  /\ source' = [source EXCEPT ![m] = v]
  /\ orderly' = (orderly /\ pc = "idle" /\ v > source[m])
  /\ UNCHANGED <<staged, object, linked, reuse, state, run>>

\* The run ends, with an error or killed: all but the files is lost.
Abandon ==
  /\ pc' = "idle"
  /\ previous' = [m \in Module |-> Missing]
  /\ hashes' = [m \in Module |-> Missing]
  /\ ready' = {} /\ todo' = {}
  /\ reading' = [module |-> NoModule, bytes |-> Missing]
  /\ worker' = [w \in Worker |-> "idle"]
  /\ joined' = 0
  /\ lean' = {}

Crash == pc # "idle" /\ Abandon /\ UNCHANGED <<files, orderly>>

\* Mutant of Start: the published status stays while the cache is rebuilt.
Start_KeepStatus ==
  /\ pc = "idle"
  /\ previous' = state.hashes
  /\ todo' = Module
  /\ pc' = "stage"
  /\ UNCHANGED <<files, orderly, hashes, ready, reading, worker, joined, lean>>

\* stage_modules: "Invalidate completed status before staging".
Start ==
  /\ pc = "idle"
  /\ previous' = state.hashes
  /\ state' = [status |-> "building", hashes |-> state.hashes]
  /\ todo' = Module
  /\ pc' = "stage"
  /\ UNCHANGED <<source, staged, object, linked, reuse, orderly,
                 hashes, ready, reading, worker, joined, lean>>

\* stage: fs::read(source).
StageRead(m) ==
  /\ pc = "stage" /\ reading.module = NoModule /\ m \in todo
  /\ reading' = [module |-> m, bytes |-> source[m]]
  /\ UNCHANGED <<files, orderly, pc, previous, hashes, ready, todo, worker, joined,
                 lean>>

\* An object of the candidate cache that goes with identical source, and is
\* not the object itself.
Reusable(m, bytes) ==
  reuse[m].source = bytes /\ reuse[m].object # Missing /\ m \notin linked

\* Mutant of Unchanged: any object that is there will do.
Unchanged_Present(m, hash) == Exists(m)

\* The source is the one checked before, and its object is still there.
Unchanged(m, hash) == previous[m] = hash /\ Exists(m)

\* stage: digest(source), which reads the source again, and the rest.
StageWrite ==
  /\ pc = "stage" /\ reading.module # NoModule
  /\ LET m     == reading.module
         hash  == source[m]
         known == Unchanged(m, hash)
         link  == ~known /\ Reusable(m, reading.bytes)
     IN  /\ hashes' = [hashes EXCEPT ![m] = hash]
         /\ ready' = IF known \/ link THEN ready \cup {m} ELSE ready
         /\ linked' = IF link THEN linked \cup {m} ELSE linked
         /\ object' = IF link THEN [object EXCEPT ![m] = Missing] ELSE object
         /\ staged' = [staged EXCEPT ![m] = reading.bytes]
         /\ todo' = todo \ {m}
  /\ reading' = [module |-> NoModule, bytes |-> Missing]
  /\ UNCHANGED <<source, reuse, state, orderly, pc, previous, worker, joined, lean>>

StageDone ==
  /\ pc = "stage" /\ reading.module = NoModule /\ todo = {}
  /\ pc' = "base" /\ todo' = Base
  /\ UNCHANGED <<files, orderly, previous, hashes, ready, reading, worker, joined,
                 lean>>

-----------------------------------------------------------------------------
(***************************************************************************)
(* certify: the modules compiled one by one; the first rejection ends it.  *)
(***************************************************************************)
StartCompile(m) ==
  /\ pc \in {"base", "top"} /\ m \in todo /\ lean = {}
  /\ Detach(m)
  /\ UNCHANGED <<source, staged, reuse, state, orderly, pc, previous, hashes,
                 ready, todo, reading, worker, joined>>

Compile(m) ==
  /\ pc \in {"base", "top"} /\ m \in lean
  /\ LeanWrites(m)
  /\ todo' = todo \ {m}
  /\ UNCHANGED <<source, staged, linked, state, orderly, pc, previous, hashes,
                 ready, reading, worker, joined>>

CompileRejected(m) ==
  /\ pc \in {"base", "top"} /\ m \in lean
  /\ Abandon
  /\ UNCHANGED <<files, orderly>>

(***************************************************************************)
(* compile_leaves: the threads share the queue of pending leaves.  A       *)
(* worker returns when the queue is empty or at its first rejection; the   *)
(* caller joins the workers in order and, because of the thread scope,     *)
(* leaves only when all have returned.                                     *)
(***************************************************************************)
StartPool ==
  /\ pc = "base" /\ todo = {}
  /\ pc' = "pool" /\ todo' = Leaf \ ready
  /\ worker' = [w \in Worker |-> "run"]
  /\ joined' = 0
  /\ UNCHANGED <<files, orderly, previous, hashes, ready, reading, lean>>

Pop(w, m) ==
  /\ worker[w] = "run" /\ m \in todo
  /\ todo' = todo \ {m}
  /\ worker' = [worker EXCEPT ![w] = m]
  /\ UNCHANGED <<files, orderly, pc, previous, hashes, ready, reading, joined,
                 lean>>

WorkerReturns(w) ==
  /\ worker[w] = "run" /\ todo = {}
  /\ worker' = [worker EXCEPT ![w] = "ok"]
  /\ UNCHANGED <<files, orderly, pc, previous, hashes, ready, todo, reading, joined,
                 lean>>

WorkerStarts(w) ==
  /\ worker[w] \in Leaf \ lean
  /\ Detach(worker[w])
  /\ UNCHANGED <<source, staged, reuse, state, orderly, pc, previous, hashes,
                 ready, todo, reading, worker, joined>>

WorkerCompiles(w) ==
  /\ worker[w] \in lean
  /\ LeanWrites(worker[w])
  /\ worker' = [worker EXCEPT ![w] = "run"]
  /\ UNCHANGED <<source, staged, linked, state, orderly, pc, previous, hashes,
                 ready, todo, reading, joined>>

\* Mutant of WorkerRejected: the job goes back to the queue.
WorkerRejected_Requeue(w) ==
  /\ worker[w] \in lean
  /\ lean' = lean \ {worker[w]}
  /\ todo' = todo \cup {worker[w]}
  /\ worker' = [worker EXCEPT ![w] = "run"]
  /\ UNCHANGED <<files, orderly, pc, previous, hashes, ready, reading, joined>>

WorkerRejected(w) ==
  /\ worker[w] \in lean
  /\ lean' = lean \ {worker[w]}
  /\ worker' = [worker EXCEPT ![w] = "err"]
  /\ UNCHANGED <<files, orderly, pc, previous, hashes, ready, todo, reading,
                 joined>>

\* Mutant of Join: a worker's error is dropped.
Join_Any ==
  /\ pc = "pool" /\ joined < jobs
  /\ worker[joined + 1] \in {"ok", "err"}
  /\ joined' = joined + 1
  /\ UNCHANGED <<files, orderly, pc, previous, hashes, ready, todo, reading, worker,
                 lean>>

Join ==
  /\ pc = "pool" /\ joined < jobs
  /\ worker[joined + 1] = "ok"
  /\ joined' = joined + 1
  /\ UNCHANGED <<files, orderly, pc, previous, hashes, ready, todo, reading, worker,
                 lean>>

\* worker.join()?? returns the first error; the scope waits for the others.
PoolFails ==
  /\ pc = "pool" /\ joined < jobs
  /\ worker[joined + 1] = "err"
  /\ \A w \in Worker : worker[w] \in {"ok", "err"}
  /\ Abandon
  /\ UNCHANGED <<files, orderly>>

\* Mutant of PoolDone: the threads are left running.
PoolDone_Detach ==
  /\ pc = "pool"
  /\ pc' = "top" /\ todo' = Top
  /\ UNCHANGED <<files, orderly, previous, hashes, ready, reading, worker, joined,
                 lean>>

PoolDone ==
  /\ pc = "pool" /\ joined = jobs
  /\ pc' = "top" /\ todo' = Top
  /\ worker' = [w \in Worker |-> "idle"]
  /\ joined' = 0
  /\ UNCHANGED <<files, orderly, previous, hashes, ready, reading, lean>>

\* Publish the digests with the status "Lean checked".
Publish ==
  /\ pc = "top" /\ todo = {}
  /\ state' = [status |-> "checked", hashes |-> hashes]
  /\ Abandon
  /\ UNCHANGED <<source, staged, object, linked, reuse, orderly>>

-----------------------------------------------------------------------------
\* validated_environment: status, digest of source and of staged source,
\* and presence of the object, for every module of the inventory.
Accepts ==
  /\ state.status = "checked"
  /\ \A m \in Module :
       /\ state.hashes[m] = source[m] /\ state.hashes[m] = staged[m]
       /\ Exists(m)

-----------------------------------------------------------------------------
Init ==
  /\ source = [m \in Module |-> 1]
  /\ staged = [m \in Module |-> Missing]
  /\ object = [m \in Module |-> Missing]
  /\ linked = {}
  \* A trusted cache: an object there was compiled from the source beside it.
  /\ \E r \in [Module -> 0 .. MaxVersion] :
       /\ \A m \in Module \ Reuse : r[m] = Missing
       /\ reuse = [m \in Module |-> [source |-> r[m], object |-> r[m]]]
  /\ state = [status |-> "absent", hashes |-> [m \in Module |-> Missing]]
  /\ orderly = TRUE
  /\ pc = "idle"
  /\ previous = [m \in Module |-> Missing]
  /\ hashes = [m \in Module |-> Missing]
  /\ ready = {} /\ todo = {}
  /\ reading = [module |-> NoModule, bytes |-> Missing]
  /\ worker = [w \in Worker |-> "idle"]
  /\ joined = 0
  /\ lean = {}

\* A step of certify, when it is not killed.
Certify ==
  \/ \E m \in Module :
       StageRead(m) \/ StartCompile(m) \/ Compile(m) \/ CompileRejected(m)
  \/ StageWrite \/ StageDone \/ StartPool
  \/ \E w \in Worker :
       WorkerReturns(w) \/ WorkerStarts(w) \/ WorkerCompiles(w) \/ WorkerRejected(w)
  \/ \E w \in Worker, m \in Leaf : Pop(w, m)
  \/ Join \/ PoolFails \/ PoolDone \/ Publish

Next ==
  \/ \E m \in Module, v \in Version : Edit(m, v)
  \/ Start \/ Crash
  \/ Certify

Spec == Init /\ [][Next]_vars

\* A certify that was started and is not killed goes on; Lean answers.
FairSpec == Spec /\ WF_vars(Certify)

-----------------------------------------------------------------------------
(***************************************************************************)
(* Properties.                                                             *)
(***************************************************************************)
\* Type invariant.  Threads exist only while compile_leaves is running.
TypeOK ==
  /\ source \in [Module -> Version]
  /\ staged \in [Module -> 0 .. MaxVersion]
  /\ object \in [Module -> 0 .. MaxVersion]
  /\ linked \subseteq Module
  /\ reuse \in [Module -> [source : 0 .. MaxVersion, object : 0 .. MaxVersion]]
  /\ state \in [status : {"absent", "building", "checked"},
                hashes : [Module -> 0 .. MaxVersion]]
  /\ orderly \in BOOLEAN
  /\ pc \in {"idle", "stage", "base", "pool", "top"}
  /\ previous \in [Module -> 0 .. MaxVersion]
  /\ hashes \in [Module -> 0 .. MaxVersion]
  /\ ready \subseteq Module /\ todo \subseteq Module
  /\ reading \in [module : Module \cup {NoModule}, bytes : 0 .. MaxVersion]
  /\ worker \in [Worker -> WorkerStatus \cup Leaf]
  /\ pc # "pool" => worker = [w \in Worker |-> "idle"]
  /\ joined \in 0 .. jobs
  /\ lean \subseteq Module

\* A cache that validated_environment accepts holds, for every module compiled
\* one by one, the object of the current source: across edits at any time,
\* rejected compiles, kills and restarts.
AcceptedIsCurrent ==
  Accepts => \A m \in Base \cup Top : ObjectAt(m) = source[m]

\* The same for the leaves, whose objects are reused: "Replace stale objects
\* only with trusted objects accompanied by identical source" (cache.rs).
LeafIsCurrent ==
  Accepts => \A m \in Leaf : ObjectAt(m) = source[m]

\* It holds as long as the sources only moved forward and no edit met a
\* running certify: then a digest kept by stage_modules vouches for its object.
OrderlyLeafIsCurrent == orderly => LeafIsCurrent

\* compile_leaves returns Ok only when every pending leaf was compiled: no
\* rejection is lost, whichever worker meets it and whoever is joined first.
PoolReports ==
  pc = "top" => \A m \in Leaf \ ready : ObjectAt(m) = staged[m]

\* Lean never writes through a link into the cache an object was reused from,
\* although links are made while staging, stay in the cache from run to run and
\* are removed one step before Lean opens the path (compile of lean.rs).
ReuseUntouched == [][reuse' = reuse]_vars

\* certify ends: no schedule of the workers leaves it waiting.
Terminates == pc # "idle" ~> pc = "idle"
=============================================================================
