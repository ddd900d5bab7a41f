---------------------------- MODULE ResultsStore ----------------------------
(***************************************************************************)
(* The history file .simmer/results.json of a project and the processes    *)
(* that use it at once (lib/simmer_results.py): savers append a run,       *)
(* readers list the runs, both migrate the legacy .simmer_results.json     *)
(* first, to which an older simmer may still be writing under its lock.    *)
(*                                                                         *)
(* A run stands for its record: each saver has one.  A file is replaced as *)
(* a whole or not at all; a lock is freed when its process dies; a lock    *)
(* file that is removed leaves those who have it open with a lock of       *)
(* their own (inode).                                                      *)
(***************************************************************************)
EXTENDS Sorting, SequencesExt

CONSTANTS
  Saver,      \* processes that save their run
  Reader,     \* processes of simmer --history
  Old,        \* processes of an older simmer: they save to the legacy file
  Past,       \* runs that may already be in the legacy file
  MaxRuns,    \* runs a file keeps
  MaxFaults,  \* bound: deaths, failed writes and removals, files damaged from outside
  MaxClock,   \* bound: the seconds that pass
  Nil

Proc == Saver \cup Reader \cup Old
Run == Saver \cup Old \cup Past

ASSUME ResultsStoreAssumption ==
  /\ MaxRuns \in Nat \ {0} /\ MaxFaults \in Nat /\ MaxClock \in Nat
  /\ Saver \cap Reader = {} /\ Run \cap Reader = {} /\ Saver \cap Old = {}
  /\ Past \cap Proc = {}
  /\ Nil \notin Proc \cup Past

VARIABLES
  store, legacyStore,  \* the two files
  storeLock,           \* who holds results.json.lock
  inode,               \* which legacy lock file there is: the how-manieth
  opened, holds,       \* of each process: the legacy lock file it opened; does it hold it
  at, mem,             \* of each process: where it is, the runs it has read
  clock, finishedAt,   \* the time in seconds; finished_at of the runs
  saves,               \* the runs in the order in which their save was done
  due,                 \* of each reader: the runs saved before it began
  lost,                \* runs that were in a file when it was damaged
  faults

storeVars == <<store, legacyStore, storeLock, inode, opened, holds, at, mem, clock, finishedAt,
               saves, due, lost, faults>>

\* Faulty: runs[-1:] in place of runs[-1]
FileLastSlice(runs) == [state |-> "ok", runs |-> runs, last_run |-> <<Last(runs)>>]

File(runs) == [state |-> "ok", runs |-> runs, last_run |-> Last(runs)]
Absent == [state |-> "absent", runs |-> <<>>, last_run |-> Nil]
Invalid == [state |-> "invalid", runs |-> <<>>, last_run |-> Nil]

StoreInit ==
  /\ store = Absent
  /\ \/ legacyStore = Absent /\ saves = <<>>
     \/ \E r \in Past : legacyStore = File(<<r>>) /\ saves = <<r>>
  /\ storeLock = Nil /\ inode = 0
  /\ opened = [p \in Proc |-> 0] /\ holds = [p \in Proc |-> FALSE]
  /\ at = [p \in Proc |-> "idle"] /\ mem = [p \in Proc |-> <<>>]
  /\ clock = 0 /\ finishedAt = [p \in Run |-> 0]
  /\ due = [p \in Reader |-> {}] /\ lost = {} /\ faults = 0

MoveTo(p, place) == at' = [at EXCEPT ![p] = place]

\* runs[-max_runs:]
Newest(runs) == SubSeq(runs, Len(runs) - MaxRuns + 1, Len(runs))
Keep(runs) == IF Len(runs) > MaxRuns THEN Newest(runs) ELSE runs

\* By the time the runs at two places finished, then by the places
Sooner(runs, i, j) ==
  \/ finishedAt[runs[i]] < finishedAt[runs[j]]
  \/ finishedAt[runs[i]] = finishedAt[runs[j]] /\ i < j

\* The runs at some places, in this order
InTime(runs, K) ==
  LET order == SortedBy(K, {p \in K \X K : Sooner(runs, p[1], p[2])})
  IN  [n \in 1..Cardinality(K) |-> runs[order[n]]]

\* Faulty: a run that is in both files is kept twice
MergeAll(old, current) == Keep(InTime(old \o current, DOMAIN (old \o current)))

\* _merge_stores: each run once, sorted by the time it finished
Merge(old, current) ==
  LET runs == old \o current
  IN  Keep(InTime(runs, {i \in DOMAIN runs : \A j \in 1..(i - 1) : runs[j] # runs[i]}))

----------------------------------------------------------------------------
(* How each process comes to the lock of the store *)

\* finalize_run sets finished_at; save_run follows
Finalize(p) ==
  /\ p \in Saver \cup Old /\ at[p] = "idle"
  /\ \E now \in {clock, clock + 1} \cap 0..MaxClock :
       clock' = now /\ finishedAt' = [finishedAt EXCEPT ![p] = now]
  /\ MoveTo(p, IF p \in Old THEN "old_open" ELSE "lock")
  /\ UNCHANGED <<store, legacyStore, storeLock, inode, opened, holds, mem, saves, due, lost,
                 faults>>

\* load_store asks for one file and then for the other before it takes the lock
QueryStore(p) ==
  /\ p \in Reader /\ at[p] = "idle"
  /\ due' = [due EXCEPT ![p] = Range(saves)]
  /\ MoveTo(p, IF store = Absent THEN "query_legacy" ELSE "lock")
  /\ UNCHANGED <<store, legacyStore, storeLock, inode, opened, holds, mem, clock, finishedAt,
                 saves, lost, faults>>

QueryLegacy(p) ==
  /\ at[p] = "query_legacy"
  /\ MoveTo(p, IF legacyStore = Absent THEN "empty" ELSE "lock")
  /\ UNCHANGED <<store, legacyStore, storeLock, inode, opened, holds, mem, clock, finishedAt,
                 saves, due, lost, faults>>

LockStore(p) ==
  /\ at[p] = "lock" /\ storeLock = Nil
  /\ storeLock' = p
  /\ MoveTo(p, "load")
  /\ UNCHANGED <<store, legacyStore, inode, opened, holds, mem, clock, finishedAt, saves, due,
                 lost, faults>>

----------------------------------------------------------------------------
(* _migrate_legacy_store_locked *)

\* Faulty: nothing is migrated once there is a store
LoadUnlessStore(p) ==
  /\ at[p] = "load"
  /\ IF legacyStore = Absent \/ store # Absent THEN MoveTo(p, "read") /\ UNCHANGED opened
     ELSE MoveTo(p, "legacy_lock") /\ opened' = [opened EXCEPT ![p] = inode]
  /\ UNCHANGED <<store, legacyStore, storeLock, inode, holds, mem, clock, finishedAt, saves,
                 due, lost, faults>>

\* Is there a legacy file? Then its lock is opened, created where it is missing
Load(p) ==
  /\ at[p] = "load"
  /\ IF legacyStore = Absent THEN MoveTo(p, "read") /\ UNCHANGED opened
     ELSE MoveTo(p, "legacy_lock") /\ opened' = [opened EXCEPT ![p] = inode]
  /\ UNCHANGED <<store, legacyStore, storeLock, inode, holds, mem, clock, finishedAt, saves,
                 due, lost, faults>>

LegacyFree(p) == \A q \in Proc : holds[q] => opened[q] # opened[p]

LockLegacy(p) ==
  /\ at[p] = "legacy_lock" /\ LegacyFree(p)
  /\ holds' = [holds EXCEPT ![p] = TRUE]
  /\ MoveTo(p, "migrate")
  /\ UNCHANGED <<store, legacyStore, storeLock, inode, opened, mem, clock, finishedAt, saves,
                 due, lost, faults>>

Unlock(p) == holds' = [holds EXCEPT ![p] = FALSE]

\* The legacy file is read, or set aside when it is not valid
ReadLegacy(p) ==
  /\ at[p] = "migrate"
  /\ mem' = [mem EXCEPT ![p] = legacyStore.runs]
  /\ IF legacyStore.state = "ok" THEN MoveTo(p, "merge") /\ UNCHANGED <<legacyStore, holds>>
     ELSE legacyStore' = Absent /\ Unlock(p) /\ MoveTo(p, "read")
  /\ UNCHANGED <<store, storeLock, inode, opened, clock, finishedAt, saves, due, lost, faults>>

\* Faulty: save_run calls itself again, and waits for the lock it has
SetAsideAgain(p) ==
  IF p \in Saver
  THEN store' = Absent /\ MoveTo(p, "lock") /\ UNCHANGED storeLock
  ELSE MoveTo(p, "failed") /\ storeLock' = Nil /\ UNCHANGED store

\* An invalid store ends a reader; save_run sets it aside and starts again
SetAside(p) ==
  IF p \in Saver
  THEN store' = Absent /\ MoveTo(p, "load") /\ UNCHANGED storeLock
  ELSE MoveTo(p, "failed") /\ storeLock' = Nil /\ UNCHANGED store

WriteMerged(p) ==
  /\ at[p] = "merge"
  /\ IF store.state = "invalid" THEN SetAside(p) /\ Unlock(p)
     ELSE /\ store' = File(Merge(mem[p], store.runs))
          /\ MoveTo(p, "remove") /\ UNCHANGED <<storeLock, holds>>
  /\ UNCHANGED <<legacyStore, inode, opened, mem, clock, finishedAt, saves, due, lost, faults>>

\* Faulty: the legacy lock is given back before the legacy file is removed
RemoveMigratedLate(p) ==
  /\ at[p] = "remove"
  /\ IF holds[p] THEN Unlock(p) /\ UNCHANGED <<legacyStore, at>>
     ELSE legacyStore' = Absent /\ MoveTo(p, "unlink") /\ UNCHANGED holds
  /\ UNCHANGED <<store, storeLock, inode, opened, mem, clock, finishedAt, saves, due, lost,
                 faults>>

\* The legacy file goes, unless it cannot be removed, then its lock is given back
RemoveMigrated(p) ==
  /\ at[p] = "remove"
  /\ Unlock(p)
  /\ \/ legacyStore' = Absent /\ MoveTo(p, "unlink") /\ UNCHANGED faults
     \/ faults < MaxFaults /\ faults' = faults + 1 /\ MoveTo(p, "read") /\ UNCHANGED legacyStore
  /\ UNCHANGED <<store, storeLock, inode, opened, mem, clock, finishedAt, saves, due, lost>>

\* The lock file is removed: whoever opens it next opens another one
UnlinkLock(p) ==
  /\ at[p] = "unlink"
  /\ inode' = inode + 1
  /\ MoveTo(p, "read")
  /\ UNCHANGED <<store, legacyStore, storeLock, opened, holds, mem, clock, finishedAt, saves,
                 due, lost, faults>>

----------------------------------------------------------------------------
(* What follows with the store *)

\* Reading an invalid store ends a reader; save_run sets it aside and starts again
ReadStore(p) ==
  /\ at[p] = "read"
  /\ IF store.state = "invalid" THEN SetAside(p) /\ UNCHANGED mem
     ELSE /\ mem' = [mem EXCEPT ![p] = store.runs]
          /\ UNCHANGED store
          /\ IF p \in Reader THEN MoveTo(p, "done") /\ storeLock' = Nil
             ELSE MoveTo(p, "write") /\ UNCHANGED storeLock
  /\ UNCHANGED <<legacyStore, inode, opened, holds, clock, finishedAt, saves, due, lost,
                 faults>>

\* The runs but this one, then this one; a failed write leaves the file as it was
Appended(p) == Keep(Append(AtPlaces(mem[p], {i \in DOMAIN mem[p] : mem[p][i] # p}), p))

WriteStore(p) ==
  /\ at[p] = "write"
  /\ storeLock' = Nil
  /\ \/ /\ store' = File(Appended(p)) /\ saves' = Append(saves, p) /\ MoveTo(p, "done")
        /\ UNCHANGED faults
     \/ /\ faults < MaxFaults /\ faults' = faults + 1 /\ MoveTo(p, "failed")
        /\ UNCHANGED <<store, saves>>
  /\ UNCHANGED <<legacyStore, inode, opened, holds, mem, clock, finishedAt, due, lost>>

----------------------------------------------------------------------------
(* An older simmer, as the migration expects it to behave, and the outside *)

OldOpens(p) ==
  /\ at[p] = "old_open"
  /\ opened' = [opened EXCEPT ![p] = inode] /\ MoveTo(p, "old_lock")
  /\ UNCHANGED <<store, legacyStore, storeLock, inode, holds, mem, clock, finishedAt, saves,
                 due, lost, faults>>

OldReads(p) ==
  /\ at[p] = "old_lock" /\ LegacyFree(p)
  /\ holds' = [holds EXCEPT ![p] = TRUE] /\ mem' = [mem EXCEPT ![p] = legacyStore.runs]
  /\ MoveTo(p, "old_write")
  /\ UNCHANGED <<store, legacyStore, storeLock, inode, opened, clock, finishedAt, saves, due,
                 lost, faults>>

OldWrites(p) ==
  /\ at[p] = "old_write"
  /\ legacyStore' = File(Appended(p)) /\ saves' = Append(saves, p)
  /\ Unlock(p) /\ MoveTo(p, "done")
  /\ UNCHANGED <<store, storeLock, inode, opened, mem, clock, finishedAt, due, lost, faults>>

\* The kernel frees the locks of a process that dies
Die(p) ==
  /\ at[p] \notin {"idle", "done", "empty", "failed", "dead"}
  /\ faults < MaxFaults /\ faults' = faults + 1
  /\ storeLock' = IF storeLock = p THEN Nil ELSE storeLock
  /\ Unlock(p) /\ MoveTo(p, "dead")
  /\ UNCHANGED <<store, legacyStore, inode, opened, mem, clock, finishedAt, saves, due, lost>>

\* A file is damaged from outside
Damage ==
  /\ faults < MaxFaults /\ faults' = faults + 1
  /\ \/ store.state = "ok" /\ store' = Invalid /\ UNCHANGED legacyStore
        /\ lost' = lost \cup Range(store.runs)
     \/ legacyStore.state = "ok" /\ legacyStore' = Invalid /\ UNCHANGED store
        /\ lost' = lost \cup Range(legacyStore.runs)
  /\ UNCHANGED <<storeLock, inode, opened, holds, at, mem, clock, finishedAt, saves, due>>

Step(p) ==
  \/ QueryStore(p) \/ QueryLegacy(p) \/ LockStore(p)
  \/ Load(p) \/ LockLegacy(p) \/ ReadLegacy(p) \/ WriteMerged(p)
  \/ RemoveMigrated(p) \/ UnlinkLock(p)
  \/ ReadStore(p) \/ WriteStore(p)
  \/ OldOpens(p) \/ OldReads(p) \/ OldWrites(p)

StoreNext == (\E p \in Proc : Finalize(p) \/ Step(p) \/ Die(p)) \/ Damage

StoreSpec == StoreInit /\ [][StoreNext]_storeVars

\* A process that has begun goes on; a lock that is free is given to someone who waits
StoreFairSpec == StoreSpec /\ \A p \in Proc : WF_storeVars(Step(p) /\ at[p] # "idle")

----------------------------------------------------------------------------
Where == {"idle", "query_legacy", "empty", "lock", "load", "legacy_lock", "migrate", "merge",
          "remove", "unlink", "read", "write", "old_open", "old_lock", "old_write", "done",
          "failed", "dead"}

StoreFiles == [state : {"ok", "absent", "invalid"}, runs : Seq(Run), last_run : Run \cup {Nil}]

\* The files, the locks and the places of the processes are of their kinds
StoreTypeOK ==
  /\ store \in StoreFiles /\ legacyStore \in StoreFiles
  /\ storeLock \in Proc \cup {Nil} /\ inode \in Nat
  /\ opened \in [Proc -> 0..inode] /\ holds \in [Proc -> BOOLEAN]
  /\ at \in [Proc -> Where]
  /\ mem \in [Proc -> Seq(Run)] /\ saves \in Seq(Run)
  /\ finishedAt \in [Run -> 0..MaxClock] /\ clock \in 0..MaxClock
  /\ due \in [Reader -> SUBSET Run] /\ lost \subseteq Run /\ faults \in 0..MaxFaults

\* The store has each run once, whatever was migrated again after a death in between, and no
\* more than a file keeps
RunsOnce == IsInjective(store.runs) /\ Len(store.runs) <= MaxRuns

Index(r) == CHOOSE i \in DOMAIN saves : saves[i] = r

\* The runs that may stand after r in a file: saved later, or finished no earlier
Newer(r) == {s \in Range(saves) \ {r} : Index(s) > Index(r) \/ finishedAt[s] >= finishedAt[r]}

Excused(r) == r \in lost \/ Cardinality(Newer(r)) >= MaxRuns

\* No run that was saved disappears, whoever saves, migrates or dies at the same time: one that
\* is in neither file was in a file that was damaged, or made room for as many newer ones
SavedRunsStay ==
  \A r \in Range(saves) : r \in Range(store.runs) \cup Range(legacyStore.runs) \/ Excused(r)

\* A history query that has had the lock shows every run that was saved before it began
LockedQueriesSeeAll ==
  \A p \in Reader : at[p] = "done" => \A r \in due[p] : r \in Range(mem[p]) \/ Excused(r)

\* What processes may rely on of the history file
HistoryInv == StoreTypeOK /\ RunsOnce /\ SavedRunsStay /\ LockedQueriesSeeAll

\* simmer --history shows the simulations completed before it, also when it finds nothing to
\* read: then there was nothing.  Not so: see README.md
QueriesSeeAll == LockedQueriesSeeAll /\ \A p \in Reader : at[p] = "empty" => due[p] = {}

\* What a query shows is in the order in which the runs finished.  Not so: see README.md
OldestFirst ==
  \A p \in Reader : at[p] = "done" =>
    \A i, j \in DOMAIN mem[p] : i < j => finishedAt[mem[p][i]] <= finishedAt[mem[p][j]]

\* Whoever begins to save or to list runs comes to an end
Finishes ==
  \A p \in Proc : at[p] # "idle" ~> at[p] \in {"done", "empty", "failed", "dead"}
=============================================================================
