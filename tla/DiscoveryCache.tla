--------------------------- MODULE DiscoveryCache ---------------------------
(***************************************************************************)
(* Test discovery and its cache (RegressionConfig, lib/regression.py):     *)
(* simmer processes look for the metadata of their scope in                *)
(* .simmer/cache, collect it with Bazel when it is not there or not of the *)
(* present inputs, and publish it for others, under one advisory lock.     *)
(* Meanwhile the metadata files of the project are edited.                 *)
(***************************************************************************)
EXTENDS Naturals, FiniteSets

CONSTANTS
  Process,    \* simmer processes of one project
  Scope,      \* what they discover: bench query and --allow-no-run
  Files,      \* the BUILD, .bzl and configuration files are numbered 1..Files
  Retries,    \* DISCOVERY_MAX_SOURCE_RETRIES
  MaxEdits,   \* bound: versions of a file after its first
  Reverting,  \* may an edit bring an earlier version back?
  MaxCrashes, \* bound: kills of a process
  Legacy,     \* may there be a generation in the files of earlier releases?
  None

Inputs == [1..Files -> 0..MaxEdits + 1]   \* the last stands for all that were before
LegacyFiles == 2   \* bound: there are four
Unreadable == [inputs |-> None]
Generation(i, m) == [inputs |-> i, meta |-> m]
AnyGeneration == [inputs : Inputs, meta : SUBSET Inputs]
Nothing == [f \in 1..Files |-> 0]
Outdated == [f \in 1..Files |-> MaxEdits + 1]

ASSUME DiscoveryCacheAssumption ==
  /\ Process # {} /\ IsFiniteSet(Process) /\ Scope # {}
  /\ Files \in Nat \ {0} /\ Retries \in Nat /\ MaxEdits \in Nat /\ MaxCrashes \in Nat
  /\ Legacy \in BOOLEAN /\ Reverting \in BOOLEAN
  /\ None \notin Process /\ None \notin Inputs /\ None \notin AnyGeneration

VARIABLES
  inputs,          \* the version of each file
  cache,           \* discovery/<scope>.json: None, Unreadable or a generation
  legacy, pieces,  \* the legacy generation, and how many of its files are left
  lock,            \* the process that has .discovery.lock exclusively
  pc,              \* where each process is in RegressionConfig.__init__
  scope,           \* its scope
  read,            \* how many files the manifest it computes has read
  current,         \* that manifest
  before,          \* manifest_before
  meta,            \* the inputs its Bazel commands have seen, or that its cached data comes from
  attempt,         \* of test_discovery_all
  since,           \* history: the inputs there have been since it began
  crashes

file == <<cache, legacy, pieces>>
own == <<read, current, before, meta, attempt>>
vars == <<inputs, file, lock, pc, scope, own, since, crashes>>

\* Earlier runs left a current generation, one that is out of date, or a file of another schema
Init ==
  /\ inputs = Nothing
  /\ cache \in [Scope -> {None, Unreadable, Generation(inputs, {inputs}), Generation(Outdated, {Outdated})}]
  /\ legacy \in (IF ~Legacy THEN {None}
                 ELSE [scope : Scope, inputs : {inputs, Outdated}])
  /\ pieces = IF legacy = None THEN 0 ELSE LegacyFiles
  /\ lock = None /\ pc = [p \in Process |-> "start"]
  /\ scope \in [Process -> Scope]
  /\ read = [p \in Process |-> 0] /\ current = [p \in Process |-> Nothing]
  /\ before = [p \in Process |-> Nothing] /\ meta = [p \in Process |-> {}]
  /\ attempt = [p \in Process |-> 0]
  /\ since = [p \in Process |-> {inputs}] /\ crashes = 0

Goto(p, where) == pc' = [pc EXCEPT ![p] = where]
HaveLegacy == pieces = LegacyFiles

----------------------------------------------------------------------------
(* The manifest: files are read one after the other *)

\* What follows the manifest, by what it is computed for
After(p) ==
  CASE pc[p] = "check"  -> "lookup"
    [] pc[p] = "first"  -> "query"
    [] pc[p] = "second" -> "compare"

ReadManifestFile(p) ==
  /\ pc[p] \in {"check", "first", "second"} /\ read[p] < Files
  /\ read' = [read EXCEPT ![p] = @ + 1]
  /\ current' = [current EXCEPT ![p][read[p] + 1] = inputs[read[p] + 1]]
  /\ UNCHANGED <<inputs, file, lock, pc, scope, before, meta, attempt, since, crashes>>

ManifestRead(p) ==
  /\ pc[p] \in {"check", "first", "second"} /\ read[p] = Files
  /\ Goto(p, After(p)) /\ read' = [read EXCEPT ![p] = 0]
  /\ before' = IF pc[p] = "first" THEN [before EXCEPT ![p] = current[p]] ELSE before
  /\ UNCHANGED <<inputs, file, lock, scope, current, meta, attempt, since, crashes>>

----------------------------------------------------------------------------
(* _should_use_cached_discovery *)

\* The files are looked for without the lock
Begin(p) ==
  /\ pc[p] = "start"
  /\ Goto(p, IF cache[scope[p]] = None /\ ~HaveLegacy THEN "miss" ELSE "check")
  /\ UNCHANGED <<inputs, file, lock, scope, own, since, crashes>>

\* Faulty: what is there is used if it can be read
TakenReadable(p, g) == g # Unreadable

\* A generation is used when its manifest is the one just computed
Taken(p, g) == g.inputs = current[p]

\* What the process makes of a generation it has read
Judge(p, g) ==
  IF Taken(p, g)
  THEN Goto(p, "cached") /\ meta' = [meta EXCEPT ![p] = g.meta]
  ELSE Goto(p, "miss") /\ UNCHANGED meta

\* Under the shared lock; without a file, once more under the exclusive one
ReadShared(p) ==
  /\ pc[p] = "lookup" /\ lock = None
  /\ IF cache[scope[p]] = None THEN Goto(p, "upgrade") /\ UNCHANGED meta
     ELSE Judge(p, cache[scope[p]])
  /\ UNCHANGED <<inputs, file, lock, scope, read, current, before, attempt, since, crashes>>

\* The legacy generation is taken over when it is of this scope and these inputs
CanMigrate(p) ==
  HaveLegacy /\ legacy.scope = scope[p] /\ legacy.inputs = current[p]

ReadExclusive(p) ==
  /\ pc[p] = "upgrade" /\ lock = None
  /\ \/ cache[scope[p]] # None /\ Judge(p, cache[scope[p]]) /\ UNCHANGED <<lock, cache>>
     \/ cache[scope[p]] = None /\ ~CanMigrate(p) /\ Goto(p, "miss") /\ UNCHANGED <<meta, lock, cache>>
     \/ /\ cache[scope[p]] = None /\ CanMigrate(p)
        /\ cache' = [cache EXCEPT ![scope[p]] = Generation(legacy.inputs, {legacy.inputs})]
        /\ meta' = [meta EXCEPT ![p] = {legacy.inputs}]
        /\ lock' = p /\ Goto(p, "migrated")
  /\ UNCHANGED <<inputs, legacy, pieces, scope, read, current, before, attempt, since, crashes>>

\* The legacy files are removed one by one, and the lock released
RemoveLegacy(p, then) ==
  /\ lock = p
  /\ \/ pieces > 0 /\ pieces' = pieces - 1 /\ UNCHANGED <<lock, pc>>
     \/ pieces = 0 /\ lock' = None /\ Goto(p, then) /\ UNCHANGED pieces
  /\ UNCHANGED <<inputs, cache, legacy, scope, own, since, crashes>>

Migrated(p) == pc[p] = "migrated" /\ RemoveLegacy(p, "cached")

----------------------------------------------------------------------------
(* test_discovery_all *)

\* An explicit --no-bazel ends here
Miss(p) ==
  /\ pc[p] = "miss" /\ (Goto(p, "first") \/ Goto(p, "failed"))
  /\ UNCHANGED <<inputs, file, lock, scope, own, since, crashes>>

\* Bazel's query and cquery, and then the build with the aspect, see the project as it is then
Query(p) ==
  /\ pc[p] = "query"
  /\ \/ Goto(p, "build") /\ meta' = [meta EXCEPT ![p] = {inputs}]
     \/ Goto(p, "failed") /\ UNCHANGED meta
  /\ UNCHANGED <<inputs, file, lock, scope, read, current, before, attempt, since, crashes>>

Build(p) ==
  /\ pc[p] = "build"
  /\ \/ Goto(p, "second") /\ meta' = [meta EXCEPT ![p] = @ \cup {inputs}]
     \/ Goto(p, "failed") /\ UNCHANGED meta
  /\ UNCHANGED <<inputs, file, lock, scope, read, current, before, attempt, since, crashes>>

\* Faulty: one attempt too many
CompareOnceMore(p) ==
  /\ pc[p] = "compare"
  /\ \/ current[p] = before[p] /\ Goto(p, "publish") /\ UNCHANGED attempt
     \/ /\ current[p] # before[p] /\ attempt[p] <= Retries /\ Goto(p, "first")
        /\ attempt' = [attempt EXCEPT ![p] = @ + 1]
  /\ UNCHANGED <<inputs, file, lock, scope, read, current, before, meta, since, crashes>>

\* Faulty: only the last manifest counts
CompareLast(p) ==
  /\ pc[p] = "compare" /\ Goto(p, "publish")
  /\ UNCHANGED <<inputs, file, lock, scope, own, since, crashes>>

\* Inputs that changed meanwhile are discovered again, Retries times
Compare(p) ==
  /\ pc[p] = "compare"
  /\ \/ current[p] = before[p] /\ Goto(p, "publish") /\ UNCHANGED attempt
     \/ /\ current[p] # before[p] /\ attempt[p] < Retries /\ Goto(p, "first")
        /\ attempt' = [attempt EXCEPT ![p] = @ + 1]
     \/ current[p] # before[p] /\ attempt[p] = Retries /\ Goto(p, "failed") /\ UNCHANGED attempt
  /\ UNCHANGED <<inputs, file, lock, scope, read, current, before, meta, since, crashes>>

\* Faulty: the legacy files are taken to be of the scope that is published
SupersededAlways(p) == HaveLegacy

\* The legacy generation is out of use once its scope has a file of its own
Superseded(p) == HaveLegacy /\ legacy.scope = scope[p]

\* The file is replaced as a whole; a write that fails ends the process
Publish(p) ==
  /\ pc[p] = "publish" /\ lock = None
  /\ \/ /\ cache' = [cache EXCEPT ![scope[p]] = Generation(current[p], meta[p])]
        /\ IF Superseded(p) THEN lock' = p /\ Goto(p, "published")
           ELSE Goto(p, "ready") /\ UNCHANGED lock
     \/ Goto(p, "failed") /\ UNCHANGED <<cache, lock>>
  /\ UNCHANGED <<inputs, legacy, pieces, scope, own, since, crashes>>

Published(p) == pc[p] = "published" /\ RemoveLegacy(p, "ready")

\* A process is killed; its lock goes with it
Crash(p) ==
  /\ pc[p] \notin {"ready", "cached", "failed"} /\ crashes < MaxCrashes
  /\ crashes' = crashes + 1 /\ Goto(p, "failed")
  /\ lock' = IF lock = p THEN None ELSE lock
  /\ read' = [read EXCEPT ![p] = 0] /\ current' = [current EXCEPT ![p] = Nothing]
  /\ before' = [before EXCEPT ![p] = Nothing] /\ meta' = [meta EXCEPT ![p] = {}]
  /\ attempt' = [attempt EXCEPT ![p] = 0]
  /\ UNCHANGED <<inputs, file, scope, since>>

\* Somebody edits a file of the project
Edit(f) ==
  /\ \/ inputs[f] < MaxEdits /\ inputs' = [inputs EXCEPT ![f] = @ + 1]
     \/ Reverting /\ inputs[f] > 0 /\ inputs' = [inputs EXCEPT ![f] = @ - 1]
  /\ since' = [p \in Process |-> IF pc[p] \in {"ready", "cached", "failed"} THEN since[p]
                                 ELSE since[p] \cup {inputs'}]
  /\ UNCHANGED <<file, lock, pc, scope, own, crashes>>

Discover(p) ==
  \/ Begin(p) \/ ReadManifestFile(p) \/ ManifestRead(p) \/ ReadShared(p) \/ ReadExclusive(p)
  \/ Migrated(p) \/ Miss(p) \/ Query(p) \/ Build(p) \/ Compare(p) \/ Publish(p) \/ Published(p)

Next ==
  \/ \E p \in Process : Discover(p) \/ Crash(p)
  \/ \E f \in 1..Files : Edit(f)

Spec == Init /\ [][Next]_vars

----------------------------------------------------------------------------
(* Properties *)

TypeOK ==
  /\ inputs \in [1..Files -> 0..MaxEdits]
  /\ cache \in [Scope -> {None, Unreadable} \cup AnyGeneration]
  /\ legacy \in {None} \cup [scope : Scope, inputs : Inputs]
  /\ pieces \in 0..LegacyFiles /\ lock \in Process \cup {None}
  /\ pc \in [Process -> {"start", "check", "lookup", "upgrade", "migrated", "cached", "miss",
       "first", "query", "build", "second", "compare", "publish", "published", "ready", "failed"}]
  /\ scope \in [Process -> Scope] /\ read \in [Process -> 0..Files]
  /\ current \in [Process -> Inputs] /\ before \in [Process -> Inputs]
  /\ meta \in [Process -> SUBSET Inputs] /\ since \in [Process -> SUBSET Inputs]
  /\ attempt \in [Process -> 0..Retries] /\ crashes \in 0..MaxCrashes

\* Every generation in the cache was collected from exactly the inputs its manifest lists, though
\* the manifest is read file by file and files are edited all the while (test_discovery_all)
GenerationsCoherent ==
  \A s \in Scope : cache[s] \notin {None, Unreadable} => cache[s].meta = {cache[s].inputs}

\* What a process goes on with, from the cache or from Bazel, was collected from one state of the
\* inputs that there was since it began (_should_use_cached_discovery, test_discovery_all)
UsedIsCurrent ==
  \A p \in Process : pc[p] \in {"cached", "ready"} => \E i \in since[p] : meta[p] = {i}

\* The legacy files go only after the scope they belong to has a file of its own: publishing
\* another scope, or a crash on the way, loses nothing (_publish_discovery_cache)
LegacySuperseded ==
  legacy # None /\ ~HaveLegacy => cache[legacy.scope] \notin {None, Unreadable}

\* The cache and what is used of it are of the inputs that there are
DiscoveryInv == TypeOK /\ GenerationsCoherent /\ UsedIsCurrent /\ LegacySuperseded
=============================================================================
