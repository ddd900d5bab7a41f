------------------------------ MODULE ActiveRun ------------------------------
(***************************************************************************)
(* The records of active runs under .simmer/runs (lib/simmer_state.py):    *)
(* each simmer process owns one, a thread of it keeps the record up to     *)
(* date, and `simmer --status` of any process reads all of them and        *)
(* removes those it takes for left behind.                                 *)
(*                                                                         *)
(* No name here is one of CompileDir or RuntimeLocks, so that all three    *)
(* can be extended.                                                        *)
(***************************************************************************)
EXTENDS Naturals, FiniteSets

CONSTANTS
  Run,         \* simmer processes, one record each: the run_id is unique
  Kinds,       \* what a run may be: [local, job, timed, foreign : BOOLEAN]
  MaxFailures, \* bound: writes, removals and bjobs calls that fail
  MaxQueries,  \* bound: calls of simmer --status
  Nil

Working == {"COMPILING", "RUNNING", "PAUSED"}
Ending == {"FINALIZING", "STOPPING"}
Status == {"DISCOVERING"} \cup Working \cup Ending

ASSUME ActiveRunAssumption ==
  /\ Run # {} /\ IsFiniteSet(Run)
  /\ MaxFailures \in Nat /\ MaxQueries \in Nat \ {0}
  /\ Kinds \subseteq [local : BOOLEAN, job : BOOLEAN, timed : BOOLEAN, foreign : BOOLEAN]
  /\ Nil \notin Status \cup {"owner", "watcher"}

VARIABLES
  kind,     \* on the reader's host?  an LSF job?  start time known?  of another user?
  alive,    \* the simmer processes that run
  reused,   \* ended processes whose process id another process has now
  lsf,      \* the jobs LSF holds for active
  phase,    \* where main is
  final,    \* the status the run ends with
  work,     \* what the scheduler does: the status a snapshot gives
  state,    \* _state["status"]
  file,     \* the record on disk: Nil or a status
  enabled,  \* _enabled
  recLock,  \* who holds _lock
  stop,     \* _stop_event
  watcher, snap,  \* the watch thread, and the snapshot it has taken
  late,      \* history: the runs whose thread outlived the two seconds of its join
  unremoved, \* history: the runs whose close() could not remove the file
  query     \* the call of simmer --status that is under way

past == <<late, unremoved>>
mainVars == <<phase, final, stop, past>>
rec == <<state, file, enabled, recLock>>
world == <<kind, alive, reused, lsf>>
watch == <<watcher, snap>>
runVars == <<world, mainVars, work, rec, watch, query>>

NoQuery == [at |-> "idle", todo |-> {}, found |-> {}, remote |-> {}, missed |-> {},
            shown |-> {}, ended |-> {}, ready |-> {}, faults |-> 0, calls |-> 0]

RunsInit ==
  /\ kind \in [Run -> Kinds] /\ alive = Run /\ reused = {} /\ lsf = {r \in Run : kind[r].job}
  /\ phase = [r \in Run |-> "start"] /\ final = [r \in Run |-> Nil]
  /\ work = [r \in Run |-> "COMPILING"]
  /\ state = [r \in Run |-> "DISCOVERING"] /\ file = [r \in Run |-> Nil]
  /\ enabled = [r \in Run |-> TRUE] /\ recLock = [r \in Run |-> Nil]
  /\ stop = [r \in Run |-> FALSE] /\ watcher = [r \in Run |-> "none"]
  /\ snap = [r \in Run |-> Nil]
  /\ late = {} /\ unremoved = {} /\ query = NoQuery

----------------------------------------------------------------------------
(* ActiveRun *)

\* update() up to the write: nothing to do when the status is unchanged
Update(r, who, status) ==
  /\ recLock[r] = Nil
  /\ state' = [state EXCEPT ![r] = status]
  /\ recLock' = IF state[r] = status THEN recLock ELSE [recLock EXCEPT ![r] = who]
  /\ UNCHANGED <<file, enabled>>

\* Faulty: the file is truncated and written in place
PublishInPlace(r, who) ==
  /\ recLock[r] = who
  /\ \/ file' = [file EXCEPT ![r] = Nil] /\ file[r] # Nil /\ UNCHANGED recLock
     \/ file' = [file EXCEPT ![r] = state[r]] /\ recLock' = [recLock EXCEPT ![r] = Nil]
  /\ UNCHANGED <<state, enabled, query>>

\* _publish: the file is replaced as a whole; after a write that failed there are no more
Publish(r, who) ==
  /\ recLock[r] = who /\ recLock' = [recLock EXCEPT ![r] = Nil]
  /\ \/ /\ file' = IF enabled[r] THEN [file EXCEPT ![r] = state[r]] ELSE file
        /\ UNCHANGED <<enabled, query>>
     \/ /\ enabled[r] /\ query.faults < MaxFailures
        /\ enabled' = [enabled EXCEPT ![r] = FALSE]
        /\ query' = [query EXCEPT !.faults = @ + 1]
        /\ UNCHANGED file
  /\ UNCHANGED state

\* The constructor publishes before the project is discovered
Construct(r) ==
  /\ r \in alive /\ phase[r] = "start" /\ recLock[r] = Nil
  /\ recLock' = [recLock EXCEPT ![r] = "owner"] /\ phase' = [phase EXCEPT ![r] = "discover"]
  /\ UNCHANGED <<world, final, stop, past, work, state, file, enabled, watch, query>>

\* The end of an update of main
OwnerWrites(r) ==
  /\ r \in alive /\ Publish(r, "owner")
  /\ UNCHANGED <<world, mainVars, work, watch>>

\* Discovery and compile planning fail, or the jobs are known and the watcher is started
Discovered(r) ==
  /\ r \in alive /\ phase[r] = "discover" /\ recLock[r] = Nil
  /\ \/ phase' = [phase EXCEPT ![r] = "close"] /\ UNCHANGED rec
     \/ Update(r, "owner", "COMPILING") /\ phase' = [phase EXCEPT ![r] = "planned"]
  /\ UNCHANGED <<world, final, stop, past, work, watch, query>>

StartWatching(r) ==
  /\ r \in alive /\ phase[r] = "planned" /\ recLock[r] # "owner"
  /\ \/ /\ phase' = [phase EXCEPT ![r] = "jobs"] /\ watcher' = [watcher EXCEPT ![r] = "check"]
     \/ phase' = [phase EXCEPT ![r] = "close"] /\ UNCHANGED watcher
  /\ UNCHANGED <<world, final, stop, past, work, rec, snap, query>>

\* Faulty: the final status is written before the watcher is stopped
JobsEndUnjoined(r) ==
  /\ r \in alive /\ phase[r] = "jobs"
  /\ \E status \in Ending : final' = [final EXCEPT ![r] = status]
  /\ phase' = [phase EXCEPT ![r] = "final"] /\ stop' = [stop EXCEPT ![r] = TRUE]
  /\ UNCHANGED <<world, past, work, rec, watch, query>>

\* The jobs are done, Ctrl-C, or an exception that only closes the record
JobsEnd(r) ==
  /\ r \in alive /\ phase[r] = "jobs"
  /\ \E status \in Ending \cup {Nil} : final' = [final EXCEPT ![r] = status]
  /\ phase' = [phase EXCEPT ![r] = "join"] /\ stop' = [stop EXCEPT ![r] = TRUE]
  /\ UNCHANGED <<world, past, work, rec, watch, query>>

\* Faulty: the event is set and the thread not joined
JoinedNever(r) == TRUE

\* The thread has ended when main looks for it
Joined(r) == watcher[r] = "done"

\* stop_watching: join(timeout=2); from then on nobody waits for the thread
StopWatching(r) ==
  /\ r \in alive /\ phase[r] = "join"
  /\ phase' = [phase EXCEPT ![r] = IF final[r] = Nil THEN "close" ELSE "final"]
  /\ late' = IF Joined(r) THEN late ELSE late \cup {r}
  /\ UNCHANGED <<world, final, stop, unremoved, work, rec, watch, query>>

Finalize(r) ==
  /\ r \in alive /\ phase[r] = "final" /\ Update(r, "owner", final[r])
  /\ phase' = [phase EXCEPT ![r] = "post"]
  /\ UNCHANGED <<world, final, stop, past, work, watch, query>>

PostProcess(r) ==
  /\ r \in alive /\ phase[r] = "post" /\ recLock[r] # "owner"
  /\ phase' = [phase EXCEPT ![r] = "close"]
  /\ UNCHANGED <<world, final, stop, past, work, rec, watch, query>>

\* close(): the file is removed, without the lock; a failure is ignored
Close(r) ==
  /\ r \in alive /\ phase[r] = "close" /\ recLock[r] # "owner"
  /\ phase' = [phase EXCEPT ![r] = "closed"]
  /\ \/ file' = [file EXCEPT ![r] = Nil] /\ UNCHANGED <<unremoved, query>>
     \/ /\ query.faults < MaxFailures /\ query' = [query EXCEPT !.faults = @ + 1]
        /\ unremoved' = unremoved \cup {r} /\ UNCHANGED file
  /\ UNCHANGED <<world, final, stop, late, work, state, enabled, recLock, watch>>

\* The process ends, in order or killed; its threads and its lock with it
Gone(r) ==
  /\ alive' = alive \ {r} /\ recLock' = [recLock EXCEPT ![r] = Nil]
  /\ watcher' = [watcher EXCEPT ![r] = "none"] /\ snap' = [snap EXCEPT ![r] = Nil]
  /\ UNCHANGED <<kind, reused, lsf, final, stop, past, work, state, file, enabled, query>>

Exit(r) ==
  /\ r \in alive /\ phase[r] = "closed"
  /\ phase' = [phase EXCEPT ![r] = "exited"] /\ Gone(r)

Killed(r) ==
  /\ r \in alive /\ phase[r] # "closed"
  /\ phase' = [phase EXCEPT ![r] = "killed"] /\ Gone(r)

----------------------------------------------------------------------------
(* watch(), the thread of a run *)

CheckStop(r) ==
  /\ watcher[r] = "check"
  /\ watcher' = [watcher EXCEPT ![r] = IF stop[r] THEN "done" ELSE "snapshot"]
  /\ UNCHANGED <<world, mainVars, work, rec, snap, query>>

\* Faulty: the thread ends when a snapshot raises
SnapshotEndsThread(r) ==
  /\ watcher[r] = "snapshot"
  /\ \/ watcher' = [watcher EXCEPT ![r] = "update"] /\ snap' = [snap EXCEPT ![r] = work[r]]
        /\ UNCHANGED query
     \/ /\ query.faults < MaxFailures /\ query' = [query EXCEPT !.faults = @ + 1]
        /\ watcher' = [watcher EXCEPT ![r] = "done"] /\ UNCHANGED snap
  /\ UNCHANGED <<world, mainVars, work, rec>>

\* snapshot_fn; when it raises, the thread waits for the next time
Snapshot(r) ==
  /\ watcher[r] = "snapshot"
  /\ \/ watcher' = [watcher EXCEPT ![r] = "update"] /\ snap' = [snap EXCEPT ![r] = work[r]]
        /\ UNCHANGED query
     \/ /\ query.faults < MaxFailures /\ query' = [query EXCEPT !.faults = @ + 1]
        /\ watcher' = [watcher EXCEPT ![r] = "check"] /\ UNCHANGED snap
  /\ UNCHANGED <<world, mainVars, work, rec>>

WatcherUpdates(r) ==
  /\ watcher[r] = "update" /\ Update(r, "watcher", snap[r])
  /\ watcher' = [watcher EXCEPT ![r] = "write"] /\ snap' = [snap EXCEPT ![r] = Nil]
  /\ UNCHANGED <<world, mainVars, work, query>>

WatcherWrites(r) ==
  /\ watcher[r] = "write"
  /\ \/ Publish(r, "watcher") /\ UNCHANGED watcher
     \/ /\ recLock[r] # "watcher" /\ watcher' = [watcher EXCEPT ![r] = "check"]
        /\ UNCHANGED <<rec, query>>
  /\ UNCHANGED <<world, mainVars, work, snap>>

Watcher(r) == CheckStop(r) \/ Snapshot(r) \/ WatcherUpdates(r) \/ WatcherWrites(r)

\* The scheduler goes on: simulations start, are paused and resumed
Work(r) ==
  /\ r \in alive /\ phase[r] = "jobs"
  /\ \E status \in Working :
       /\ <<work[r], status>> \in {<<"COMPILING", "RUNNING">>, <<"RUNNING", "PAUSED">>,
            <<"COMPILING", "PAUSED">>, <<"PAUSED", "COMPILING">>, <<"PAUSED", "RUNNING">>}
       /\ work' = [work EXCEPT ![r] = status]
  /\ UNCHANGED <<world, mainVars, rec, watch, query>>

----------------------------------------------------------------------------
(* The system: process ids and LSF *)

ReusePid(r) ==
  /\ r \notin alive \cup reused /\ reused' = reused \cup {r}
  /\ UNCHANGED <<kind, alive, lsf, mainVars, work, rec, watch, query>>

\* LSF learns that the job of a process is done, some time after
LsfDone(r) ==
  /\ r \in lsf \ alive /\ lsf' = lsf \ {r}
  /\ UNCHANGED <<kind, alive, reused, mainVars, work, rec, watch, query>>

----------------------------------------------------------------------------
(* load_active_runs *)

\* kill(pid, 0) also fails for a process of another user, which is then taken for gone
ProcessExists(r) == r \in alive \cup reused /\ ~kind[r].foreign

\* Faulty: the start time is not compared
LocalStateIsActivePidOnly(r) == ProcessExists(r)

\* The start time tells a process from a later one that has its id, when it is known
LocalStateIsActive(r) == ProcessExists(r) /\ (kind[r].timed => r \in alive)

\* The names in the directory
Scan ==
  /\ query.at = "idle" /\ query.calls < MaxQueries
  /\ query' = [query EXCEPT
       !.at = "load", !.calls = @ + 1, !.todo = {r \in Run : file[r] # Nil}, !.found = {},
       !.remote = {}, !.missed = {}, !.shown = {},
       !.ended = {r \in Run \ alive : kind[r].local \/ r \notin lsf},
       !.ready = {r \in alive : file[r] # Nil}]
  /\ UNCHANGED <<world, mainVars, work, rec, watch>>

\* _load_state_files: a file that is gone meanwhile is passed over
LoadStateFile(r) ==
  /\ query.at = "load" /\ r \in query.todo
  /\ query' = [query EXCEPT !.todo = @ \ {r},
       !.found = IF file[r] # Nil THEN @ \cup {r} ELSE @]
  /\ UNCHANGED <<world, mainVars, work, rec, watch>>

Loaded ==
  /\ query.at = "load" /\ query.todo = {}
  /\ query' = [query EXCEPT !.at = "local", !.todo = query.found]
  /\ UNCHANGED <<world, mainVars, work, rec, watch>>

\* os.remove of what is taken for left behind; a failure is ignored
Remove(r, q) ==
  \/ file' = [file EXCEPT ![r] = Nil] /\ query' = q
  \/ /\ query.faults < MaxFailures /\ query' = [q EXCEPT !.faults = @ + 1]
     /\ UNCHANGED file

\* Records of this host are judged here; the others are left to LSF, if it knows them
JudgeLocal(r) ==
  /\ query.at = "local" /\ r \in query.todo
  /\ LET rest == [query EXCEPT !.todo = @ \ {r}] IN
       \/ /\ kind[r].local /\ LocalStateIsActive(r) /\ UNCHANGED file
          /\ query' = [rest EXCEPT !.shown = @ \cup {r}]
       \/ kind[r].local /\ ~LocalStateIsActive(r) /\ Remove(r, rest)
       \/ /\ ~kind[r].local /\ kind[r].job /\ UNCHANGED file
          /\ query' = [rest EXCEPT !.remote = @ \cup {r}]
       \/ /\ ~kind[r].local /\ ~kind[r].job /\ UNCHANGED file
          /\ query' = [rest EXCEPT !.shown = @ \cup {r}]
  /\ UNCHANGED <<world, mainVars, work, state, enabled, recLock, watch>>

\* Faulty: no answer is an empty answer
QueryLsfStatesEmpty ==
  /\ query.at = "local" /\ query.todo = {}
  /\ LET q == [query EXCEPT !.at = "remote"] IN
       \/ query' = [q EXCEPT !.todo = query.remote \ lsf, !.shown = @ \cup (query.remote \cap lsf)]
       \/ /\ query.faults < MaxFailures
          /\ query' = [q EXCEPT !.faults = @ + 1, !.todo = query.remote]
  /\ UNCHANGED <<world, mainVars, work, rec, watch>>

\* One bjobs call for all remote records.  Without any answer all are kept; a job the answer does
\* not list under the id asked for, be it an error or the id of an array, is taken for ended
QueryLsfStates ==
  /\ query.at = "local" /\ query.todo = {}
  /\ LET q == [query EXCEPT !.at = "remote"] IN
       \/ query' = [q EXCEPT !.todo = query.remote \ lsf, !.shown = @ \cup (query.remote \cap lsf)]
       \/ /\ query.faults < MaxFailures
          /\ query' = [q EXCEPT !.faults = @ + 1, !.shown = @ \cup query.remote,
                             !.ended = @ \ query.remote]
       \/ /\ query.faults < MaxFailures
          /\ \E listed \in SUBSET query.remote :
               query' = [q EXCEPT !.faults = @ + 1, !.missed = (query.remote \cap lsf) \ listed,
                                  !.todo = query.remote \ (listed \cap lsf),
                                  !.shown = @ \cup (listed \cap lsf)]
  /\ UNCHANGED <<world, mainVars, work, rec, watch>>

RemoveRemote(r) ==
  /\ query.at = "remote" /\ r \in query.todo
  /\ Remove(r, [query EXCEPT !.todo = @ \ {r}])
  /\ UNCHANGED <<world, mainVars, work, state, enabled, recLock, watch>>

\* The rest is printed
PrintStatus ==
  /\ query.at = "remote" /\ query.todo = {}
  /\ query' = [query EXCEPT !.at = "printed"]
  /\ UNCHANGED <<world, mainVars, work, rec, watch>>

Again ==
  /\ query.at = "printed"
  /\ query' = [NoQuery EXCEPT !.faults = query.faults, !.calls = query.calls]
  /\ UNCHANGED <<world, mainVars, work, rec, watch>>

ShowStatus ==
  \/ Scan \/ Loaded \/ QueryLsfStates \/ PrintStatus \/ Again
  \/ \E r \in Run : LoadStateFile(r) \/ JudgeLocal(r) \/ RemoveRemote(r)

Owner(r) ==
  \/ Construct(r) \/ OwnerWrites(r) \/ Discovered(r) \/ StartWatching(r) \/ JobsEnd(r)
  \/ StopWatching(r) \/ Finalize(r) \/ PostProcess(r) \/ Close(r) \/ Exit(r) \/ Killed(r)

RunsNext ==
  \/ ShowStatus
  \/ \E r \in Run : Owner(r) \/ Watcher(r) \/ Work(r) \/ ReusePid(r) \/ LsfDone(r)

RunsSpec == RunsInit /\ [][RunsNext]_runVars

\* The thread of a live process runs, and so do the steps of main that wait for nothing but it
RunsFairSpec ==
  RunsSpec /\ \A r \in Run : WF_runVars(Watcher(r)) /\ WF_runVars(OwnerWrites(r))

----------------------------------------------------------------------------
(* Properties *)

Queries ==
  [at : {"idle", "load", "local", "remote", "printed"}, todo : SUBSET Run, found : SUBSET Run,
   remote : SUBSET Run, missed : SUBSET Run, shown : SUBSET Run, ended : SUBSET Run,
   ready : SUBSET Run,
   faults : 0..MaxFailures, calls : 0..MaxQueries]

RunsTypeOK ==
  /\ kind \in [Run -> Kinds] /\ alive \subseteq Run /\ reused \subseteq Run \ alive
  /\ lsf \subseteq Run
  /\ phase \in [Run -> {"start", "discover", "planned", "jobs", "join", "final", "post", "close",
                        "closed", "exited", "killed"}]
  /\ final \in [Run -> Ending \cup {Nil}] /\ work \in [Run -> Working]
  /\ state \in [Run -> Status] /\ file \in [Run -> Status \cup {Nil}]
  /\ enabled \in [Run -> BOOLEAN] /\ recLock \in [Run -> {"owner", "watcher", Nil}]
  /\ stop \in [Run -> BOOLEAN]
  /\ watcher \in [Run -> {"none", "check", "snapshot", "update", "write", "done"}]
  /\ snap \in [Run -> Working \cup {Nil}]
  /\ late \subseteq Run /\ unremoved \subseteq Run /\ query \in Queries

\* A run that runs, with its record there, from before the query to its end is printed, unless
\* bjobs does not list it; the record is replaced meanwhile, and must never be missing
\* (_write_state, _load_state_files)
LiveRunsShown ==
  query.at = "printed" =>
    \A r \in (query.ready \cap alive) \ query.missed : phase[r] # "closed" => r \in query.shown

\* A run that was over when the query began is not printed if its host and start time, or LSF,
\* can tell: not even when another process has its id, or a late watch thread has written the
\* record again (_local_state_is_active)
EndedRunsNotShown ==
  query.at = "printed" =>
    \A r \in query.ended \cap query.shown :
      IF kind[r].local THEN ~kind[r].timed /\ r \in reused ELSE ~kind[r].job

\* The record is gone when its process has exited by itself: the watcher does not write it
\* again after close() has removed it.  Not so when the thread outlived its join, or the file
\* could not be removed (close, stop_watching)
RemovedAtExit ==
  \A r \in Run \ (late \cup unremoved) : phase[r] \in {"closed", "exited"} => file[r] = Nil

\* What simmer --status prints, and what a run leaves behind
ActiveRunInv == RunsTypeOK /\ LiveRunsShown /\ EndedRunsNotShown /\ RemovedAtExit

\* simmer --status never removes the record of a process that runs, however the run and the
\* query interleave, unless bjobs does not list its job: only close() does (load_active_runs,
\* _local_state_is_active).  A record that says FINALIZING or STOPPING is not set back by a
\* snapshot, unless the watch thread outlived its join
RecordsStay ==
  [][/\ \A r \in alive \ query.missed : file[r] # Nil /\ file'[r] = Nil => phase[r] = "close"
     /\ \A r \in Run \ late : file[r] \in Ending /\ file'[r] # file[r] => file'[r] = Nil]_runVars

\* While the jobs run, the record comes to show what the scheduler does, unless that changes
\* first, a write has failed, or a query has removed the record for want of an answer of bjobs:
\* an unchanged status is not written again (watch, update)
RecordCatchesUp ==
  \A r \in Run : \A status \in Working :
    (phase[r] = "jobs" /\ work[r] = status)
      ~> (phase[r] # "jobs" \/ work[r] # status \/ file[r] \in {status, Nil} \/ ~enabled[r])
=============================================================================
