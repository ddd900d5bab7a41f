------------------------------ MODULE MainFlow ------------------------------
(***************************************************************************)
(* One invocation of simmer from main() to its exit status                 *)
(* (bin/simmer.py): what it makes of the outcomes of its jobs, of Ctrl-C,  *)
(* of errors after the jobs, and what it records of them                   *)
(* (lib/simmer_results.py).  The scheduler is JobManager's; here a bench   *)
(* has its compile job and tests that end in some order.                   *)
(***************************************************************************)
EXTENDS Naturals, FiniteSets

CONSTANTS
  Test,           \* the planned tests
  MaxInterrupts,  \* bound: Ctrl-C
  Hard,           \* may simulations need SIGKILL, or outlive it, verdicts raise, saves fail?
  None

Open == [status |-> "RUNNING"]
Results == [status : {"FAILED", "INTERRUPTED", "PASSED", "PARTIAL", "COMPILE_FAILED", "NO_SIM_RUN"},
            summary : [passed : Nat, failed : Nat, interrupted : Nat, skipped : Nat]]

ASSUME MainFlowAssumption ==
  /\ Test # {} /\ IsFiniteSet(Test) /\ MaxInterrupts \in Nat /\ Hard \in BOOLEAN
  /\ None \notin {0, 1, 130} /\ None # Open /\ None \notin Results

VARIABLES
  phase,         \* where main is
  norun, report, \* the options --no-run and --report
  compile, job,  \* the compile job and the tests: their state
  sim,           \* the tests whose simulator was started
  rec,           \* simmer_results_run["tests"]: the entry of each test
  issues,        \* log.warn_count or log.error_count
  unreaped,      \* jm.shutdown_incomplete
  attempted,     \* _SharedRuntimeCleanup.attempted
  cleanups,      \* how often the shared runtime was cleaned
  failed,        \* workflow_finalize_failed or coverage_merge_failed
  complete,      \* post_processing_complete
  raised,        \* an exception or SystemExit is on its way out
  run,           \* the run's record: None, its open record, or its result
  saved,         \* what the history has of the run
  exit,          \* the exit status; 130 for a KeyboardInterrupt that nobody handles
  interrupts

\* What happens in hard cases only
Stubborn(S) == IF Hard THEN S ELSE {}

jobs == <<compile, job, sim, rec, unreaped>>
ending == <<attempted, cleanups, failed, complete, raised>>
vars == <<phase, norun, report, jobs, issues, ending, run, saved, exit, interrupts>>

NoEntry == [status |-> "none", started |-> FALSE]
Entry(status, started) == [status |-> status, started |-> started]

Init ==
  /\ phase = "setup" /\ norun \in BOOLEAN /\ report \in BOOLEAN
  /\ compile = "queued" /\ job = [t \in Test |-> "queued"]
  /\ sim = {} /\ rec = [t \in Test |-> NoEntry]
  /\ issues = FALSE /\ unreaped = FALSE
  /\ attempted = FALSE /\ cleanups = 0 /\ failed = FALSE /\ complete = FALSE /\ raised = FALSE
  /\ run = None /\ saved = None /\ exit = None /\ interrupts = 0

----------------------------------------------------------------------------
(* The record of the run *)

With(status) == {t \in Test : rec[t].status = status}
Entries == {t \in Test : rec[t] # NoEntry}

\* Faulty: subtracted the wrong way round
SkippedReversed == Cardinality(Entries) - Cardinality(Test)

Skipped == Cardinality(Test) - Cardinality(Entries)

Summary ==
  [passed |-> Cardinality(With("PASSED")), failed |-> Cardinality(With("FAILED")),
   interrupted |-> Cardinality(With("INTERRUPTED")), skipped |-> Skipped]

\* The status finalize_run gives the run
RunStatus(backend_failed) ==
  CASE backend_failed \/ With("FAILED") # {} -> "FAILED"
    [] ~backend_failed /\ With("FAILED") = {} /\ With("INTERRUPTED") # {} -> "INTERRUPTED"
    [] ~backend_failed /\ With("PASSED") = Test -> "PASSED"
    [] ~backend_failed /\ Entries # {} /\ Entries = With("PASSED") /\ Entries # Test -> "PARTIAL"
    [] ~backend_failed /\ Entries = {} -> IF compile = "failed" THEN "COMPILE_FAILED" ELSE "NO_SIM_RUN"

Finalized(backend_failed) ==
  [status |-> RunStatus(backend_failed), summary |-> Summary]

ShouldSave == run # None /\ \E t \in Entries : rec[t].started

----------------------------------------------------------------------------
(* Up to the jobs *)

\* Options are resolved and checked, jobs built; with anything to run, a record is opened
Setup ==
  /\ phase = "setup"
  /\ \/ /\ phase' = "prepare" /\ run' = IF norun THEN None ELSE Open
        /\ UNCHANGED exit
     \/ phase' = "exited" /\ exit' = 1 /\ UNCHANGED run
  /\ UNCHANGED <<norun, report, jobs, issues, ending, saved, interrupts>>

\* The backend takes the directories the regression shares; it may refuse them
Prepare ==
  /\ phase = "prepare"
  /\ \/ phase' = "jobs" /\ UNCHANGED exit
     \/ phase' = "exited" /\ exit' = 1
  /\ UNCHANGED <<norun, report, jobs, issues, ending, run, saved, interrupts>>

Live == {t \in Test : job[t] = "live"}

SchedulerRuns == phase \in {"jobs", "menu"}

CompileStarts ==
  /\ SchedulerRuns /\ compile = "queued" /\ compile' = "live"
  /\ UNCHANGED <<phase, norun, report, job, sim, rec, unreaped, issues, ending, run, saved, exit,
                 interrupts>>

\* A failed compile is logged and skips its tests, a good one may warn; under --no-run they are bypassed
CompileEnds ==
  /\ SchedulerRuns /\ compile = "live"
  /\ \E ok \in BOOLEAN :
       /\ compile' = IF ok THEN "passed" ELSE "failed"
       /\ issues' \in {issues \/ ~ok, TRUE}
       /\ job' = IF norun THEN [t \in Test |-> "bypassed"]
                 ELSE IF ok THEN job ELSE [t \in Test |-> "skipped"]
  /\ UNCHANGED <<phase, norun, report, sim, rec, unreaped, ending, run, saved, exit, interrupts>>

CompileUnreaped ==
  /\ Hard /\ SchedulerRuns /\ compile = "live"
  /\ compile' = "unreaped" /\ job' = [t \in Test |-> "skipped"]
  /\ issues' = TRUE /\ unreaped' = TRUE
  /\ UNCHANGED <<phase, norun, report, sim, rec, ending, run, saved, exit, interrupts>>

TestStarts(t) ==
  /\ SchedulerRuns /\ compile = "passed" /\ job[t] = "queued"
  /\ job' = [job EXCEPT ![t] = "live"]
  /\ UNCHANGED <<phase, norun, report, compile, sim, rec, unreaped, issues, ending, run, saved,
                 exit, interrupts>>

SimulationStarts(t) ==
  /\ SchedulerRuns /\ job[t] = "live" /\ t \notin sim
  /\ sim' = sim \cup {t}
  /\ UNCHANGED <<phase, norun, report, compile, job, rec, unreaped, issues, ending, run, saved,
                 exit, interrupts>>

\* A failure may be the one that reaches the quit count
AfterFailure(t, state, quits) ==
  job' = [u \in Test |->
            IF u = t THEN state
            ELSE IF quits /\ job[u] = "queued" THEN "skipped" ELSE job[u]]

\* post_run: the simulation passed, and its duration is in the log
TestPasses(t) ==
  /\ SchedulerRuns /\ job[t] = "live" /\ t \in sim
  /\ job' = [job EXCEPT ![t] = "passed"]
  /\ rec' = [rec EXCEPT ![t] = Entry("PASSED", TRUE)]
  /\ UNCHANGED <<phase, norun, report, compile, sim, unreaped, issues, ending, run, saved, exit,
                 interrupts>>

\* The test failed before, in or after its simulation.  The entry says the simulation started
\* when its duration is known: not when it was ended by SIGKILL, nor when the verdict raised
TestFails(t) ==
  /\ SchedulerRuns /\ job[t] = "live"
  /\ \E started \in IF t \notin sim THEN {FALSE} ELSE IF Hard THEN BOOLEAN ELSE {TRUE} :
       rec' = [rec EXCEPT ![t] = Entry("FAILED", started)]
  /\ \E quits \in BOOLEAN : AfterFailure(t, "failed", quits)
  /\ issues' = TRUE
  /\ UNCHANGED <<phase, norun, report, compile, sim, unreaped, ending, run, saved, exit, interrupts>>

\* The process group could not be reaped: the job fails, the process lives, nothing else starts
TestUnreaped(t) ==
  /\ Hard /\ SchedulerRuns /\ job[t] = "live"
  /\ rec' = [rec EXCEPT ![t] = Entry("FAILED", FALSE)]
  /\ AfterFailure(t, "unreaped", TRUE)
  /\ issues' = TRUE /\ unreaped' = TRUE
  /\ UNCHANGED <<phase, norun, report, compile, sim, ending, run, saved, exit, interrupts>>

Drained ==
  /\ compile \in {"passed", "failed", "unreaped"}
  /\ \A t \in Test : job[t] \notin {"queued", "live"}

\* wait() and stop() return
JobsDone ==
  /\ phase = "jobs" /\ Drained
  /\ phase' = "jobs_done"
  /\ UNCHANGED <<norun, report, jobs, issues, ending, run, saved, exit, interrupts>>

----------------------------------------------------------------------------
(* Ctrl-C while there are jobs *)

\* Further Ctrl-C is ignored while the first one is handled
Ignoring == {"kill", "kill_cleanup", "interrupted", "interrupted_save", "late_cleanup", "exited"}

Interrupt ==
  /\ phase \notin Ignoring /\ interrupts < MaxInterrupts
  /\ interrupts' = interrupts + 1
  /\ CASE phase = "jobs" -> phase' = "menu" /\ UNCHANGED exit
       [] phase \in {"prepare", "menu"} -> phase' = "kill" /\ UNCHANGED exit
       [] phase \in {"workflow", "summary", "report", "cleanup", "check"} ->
            phase' = "late_cleanup" /\ UNCHANGED exit
       [] OTHER -> phase' = "exited" /\ exit' = 130
  /\ UNCHANGED <<norun, report, jobs, issues, ending, run, saved>>

Menu ==
  /\ phase = "menu" /\ phase' \in {"jobs", "kill"}
  /\ UNCHANGED <<norun, report, jobs, issues, ending, run, saved, exit, interrupts>>

\* Faulty: an error of kill() is logged and forgotten
KillAssumesReaped ==
  /\ phase = "kill"
  /\ \E stays \in SUBSET Stubborn(Live), compiler \in {"skipped"} \cup Stubborn({"unreaped"}) :
       /\ job' = [t \in Test |-> IF t \in stays THEN "unreaped"
                                 ELSE IF job[t] \in {"queued", "live"}
                                      THEN [queued |-> "skipped", live |-> "interrupted"][job[t]]
                                      ELSE job[t]]
       /\ compile' = IF compile = "live" THEN compiler
                     ELSE IF compile = "queued" THEN "skipped" ELSE compile
       /\ UNCHANGED unreaped
  /\ issues' = TRUE
  /\ phase' = "kill_cleanup"
  /\ UNCHANGED <<norun, report, sim, rec, ending, run, saved, exit, interrupts>>

\* kill() tells, or raises, when a process group is left
KillJobs ==
  /\ phase = "kill"
  /\ \E stays \in SUBSET Stubborn(Live), compiler \in {"skipped"} \cup Stubborn({"unreaped"}) :
       /\ job' = [t \in Test |-> IF t \in stays THEN "unreaped"
                                 ELSE IF job[t] \in {"queued", "live"}
                                      THEN [queued |-> "skipped", live |-> "interrupted"][job[t]]
                                      ELSE job[t]]
       /\ compile' = IF compile = "live" THEN compiler
                     ELSE IF compile = "queued" THEN "skipped" ELSE compile
       /\ unreaped' = (unreaped \/ stays # {} \/ compile' = "unreaped")
  /\ issues' = TRUE
  /\ phase' = "kill_cleanup"
  /\ UNCHANGED <<norun, report, sim, rec, ending, run, saved, exit, interrupts>>

\* The shared runtime is cleaned at most once
Cleanup ==
  /\ attempted' = TRUE
  /\ cleanups' = IF attempted THEN cleanups ELSE cleanups + 1

\* finalize_interrupted_run, as long as nothing that may still run needs the runtime
InterruptedCleanup ==
  /\ phase \in {"kill_cleanup", "late_cleanup"}
  /\ IF unreaped THEN UNCHANGED <<attempted, cleanups>> ELSE Cleanup
  /\ phase' = "interrupted"
  /\ UNCHANGED <<norun, report, jobs, issues, failed, complete, raised, run, saved, exit, interrupts>>

\* Faulty: every job without a result gets an entry
RecordAll ==
  /\ phase = "interrupted"
  /\ rec' = [t \in Test |-> IF run # None /\ rec[t] = NoEntry THEN Entry("INTERRUPTED", TRUE) ELSE rec[t]]
  /\ phase' = "interrupted_save"
  /\ UNCHANGED <<norun, report, compile, job, sim, unreaped, issues, ending, run, saved, exit,
                 interrupts>>

\* The jobs that were interrupted get an entry, and the run counts as failed
RecordInterrupted ==
  /\ phase = "interrupted"
  /\ rec' = [t \in Test |-> IF run # None /\ job[t] \in {"interrupted", "unreaped"} /\ rec[t] = NoEntry
                            THEN Entry("INTERRUPTED", TRUE) ELSE rec[t]]
  /\ phase' = "interrupted_save"
  /\ UNCHANGED <<norun, report, compile, job, sim, unreaped, issues, ending, run, saved, exit,
                 interrupts>>

SaveInterrupted ==
  /\ phase = "interrupted_save"
  /\ run' = IF run = None THEN None ELSE Finalized(TRUE)
  /\ saved' \in IF ShouldSave THEN {run'} \cup Stubborn({None}) ELSE {None}
  /\ phase' = "exited" /\ exit' = 130
  /\ UNCHANGED <<norun, report, jobs, issues, ending, interrupts>>

----------------------------------------------------------------------------
(* After the jobs *)

Begin ==
  /\ phase = "jobs_done" /\ phase' = "workflow"
  /\ UNCHANGED <<norun, report, jobs, issues, ending, run, saved, exit, interrupts>>

\* An exception leaves the block for its finally clause
Raises ==
  /\ phase \in {"workflow", "summary", "report", "cleanup"}
  /\ raised' = TRUE /\ phase' = "finally"
  /\ attempted' = (attempted \/ (phase = "cleanup" /\ ~unreaped))
  /\ cleanups' = IF phase = "cleanup" /\ ~unreaped /\ ~attempted THEN cleanups + 1 ELSE cleanups
  /\ UNCHANGED <<norun, report, jobs, issues, failed, complete, run, saved, exit, interrupts>>

\* The backend finalizes its workflow, unless some process still uses it
Workflow ==
  /\ phase = "workflow"
  /\ IF unreaped THEN failed' = TRUE /\ issues' = TRUE
     ELSE failed' \in BOOLEAN /\ UNCHANGED issues
  /\ phase' = "summary"
  /\ UNCHANGED <<norun, report, jobs, attempted, cleanups, complete, raised, run, saved, exit,
                 interrupts>>

PrintSummary ==
  /\ phase = "summary" /\ phase' = IF report /\ ~unreaped THEN "report" ELSE "cleanup"
  /\ UNCHANGED <<norun, report, jobs, issues, ending, run, saved, exit, interrupts>>

\* Coverage is merged, then the pages are written under their locks
Report ==
  /\ phase = "report" /\ phase' = "cleanup"
  /\ failed' \in {failed, TRUE}
  /\ UNCHANGED <<norun, report, jobs, issues, attempted, cleanups, complete, raised, run, saved,
                 exit, interrupts>>

RuntimeCleanup ==
  /\ phase = "cleanup"
  /\ IF unreaped THEN issues' = TRUE /\ UNCHANGED <<attempted, cleanups>>
     ELSE Cleanup /\ UNCHANGED issues
  /\ complete' = TRUE /\ phase' = "check"
  /\ UNCHANGED <<norun, report, jobs, failed, raised, run, saved, exit, interrupts>>

\* exit_if_warnings_or_errors
Check ==
  /\ phase = "check"
  /\ raised' = issues /\ phase' = "finally"
  /\ UNCHANGED <<norun, report, jobs, issues, attempted, cleanups, failed, complete, run, saved,
                 exit, interrupts>>

\* Faulty: warnings and errors are not looked at again
FinalizeUnchecked ==
  /\ phase = "finally"
  /\ run' = IF run = None THEN None ELSE Finalized(failed \/ ~complete)
  /\ phase' = "persist"
  /\ UNCHANGED <<norun, report, jobs, issues, ending, saved, exit, interrupts>>

Finalize ==
  /\ phase = "finally"
  /\ run' = IF run = None THEN None ELSE Finalized(failed \/ ~complete \/ issues)
  /\ phase' = "persist"
  /\ UNCHANGED <<norun, report, jobs, issues, ending, saved, exit, interrupts>>

\* A run in which a simulation started is saved; when it cannot be, the command fails
Persist ==
  /\ phase = "persist"
  /\ \/ /\ saved' = IF ShouldSave THEN run ELSE None
        /\ phase' = "leave" /\ UNCHANGED exit
     \/ ShouldSave /\ phase' = "exited" /\ exit' = 1 /\ UNCHANGED saved
  /\ UNCHANGED <<norun, report, jobs, issues, ending, run, interrupts>>

Failures == {t \in Test : job[t] \in {"failed", "unreaped"}}

\* Faulty: only the tests decide, not the end of the regression
ExitByTests ==
  /\ phase = "leave"
  /\ exit' = IF Failures # {} THEN 1 ELSE 0
  /\ phase' = "exited"
  /\ UNCHANGED <<norun, report, jobs, issues, ending, run, saved, interrupts>>

Exit ==
  /\ phase = "leave"
  /\ exit' = IF raised \/ failed \/ Failures # {} THEN 1 ELSE 0
  /\ phase' = "exited"
  /\ UNCHANGED <<norun, report, jobs, issues, ending, run, saved, interrupts>>

Jobs ==
  \/ CompileStarts \/ CompileEnds
  \/ \E t \in Test : \/ TestStarts(t) \/ SimulationStarts(t)
                     \/ TestPasses(t) \/ TestFails(t) \/ TestUnreaped(t)

Main ==
  \/ Setup \/ Prepare \/ JobsDone \/ Menu
  \/ KillJobs \/ InterruptedCleanup \/ RecordInterrupted \/ SaveInterrupted
  \/ Begin \/ Workflow \/ PrintSummary \/ Report \/ RuntimeCleanup \/ Check \/ Raises
  \/ Finalize \/ Persist \/ Exit

Next == Jobs \/ Main \/ Interrupt

Spec == Init /\ [][Next]_vars

----------------------------------------------------------------------------
Phases ==
  {"setup", "prepare", "jobs", "menu", "kill", "kill_cleanup", "interrupted", "interrupted_save",
   "late_cleanup", "jobs_done", "workflow", "summary", "report", "cleanup", "check", "finally",
   "persist", "leave", "exited"}

\* The state of the jobs, the entries of the record and the exit status are of their kinds
TypeOK ==
  /\ phase \in Phases /\ norun \in BOOLEAN /\ report \in BOOLEAN
  /\ compile \in {"queued", "live", "passed", "failed", "skipped", "unreaped"}
  /\ job \in [Test -> {"queued", "live", "passed", "failed", "skipped", "bypassed", "interrupted",
                       "unreaped"}]
  /\ sim \subseteq Test
  /\ rec \in [Test -> [status : {"none", "PASSED", "FAILED", "INTERRUPTED"}, started : BOOLEAN]]
  /\ issues \in BOOLEAN /\ unreaped \in BOOLEAN /\ attempted \in BOOLEAN
  /\ failed \in BOOLEAN /\ complete \in BOOLEAN /\ raised \in BOOLEAN
  /\ exit \in {None, 0, 1, 130} /\ interrupts \in 0..MaxInterrupts
  /\ run = None \/ run = Open \/ run \in Results
  /\ saved = None \/ saved \in Results

AllPassed == compile = "passed" /\ \A t \in Test : job[t] = "passed"

\* Exit status 0 means that the bench compiled and, unless only compilation was asked for, that
\* each planned test passed, none was left out, and everything after them succeeded
ExitZeroMeansAllPassed ==
  exit = 0 =>
    /\ compile = "passed" /\ ~norun => AllPassed
    /\ compile = "passed" /\ ~failed /\ ~unreaped /\ complete /\ cleanups = 1

\* The history says PASSED of a run only if all of its tests passed and nothing else failed;
\* a run that exits with 0 is in the history as PASSED
HistoryAgreesWithExit ==
  phase = "exited" =>
    /\ saved # None /\ saved.status = "PASSED" => AllPassed /\ exit # 1
    /\ exit = 0 /\ ~norun => saved # None /\ saved.status = "PASSED"

CountOf(states) == Cardinality({t \in Test : job[t] \in states})

\* The counts of a saved run are those of its jobs, and add up to the tests that were planned
SummaryMatchesJobs ==
  saved # None =>
    /\ saved.summary.passed = CountOf({"passed"})
    /\ saved.summary.failed + saved.summary.interrupted = CountOf({"failed", "unreaped", "interrupted"})
    /\ saved.summary.skipped = CountOf({"skipped"})

\* The shared runtime is cleaned once at most, and never while a process of a job is left
CleanupOnceAndSafe ==
  /\ cleanups <= 1
  /\ cleanups = 1 => compile \notin {"live", "unreaped"} /\ \A t \in Test : job[t] \notin {"live", "unreaped"}

\* What the exit status, the history, the summary and the cleanup say of one invocation
MainFlowInv ==
  /\ TypeOK /\ ExitZeroMeansAllPassed /\ HistoryAgreesWithExit /\ SummaryMatchesJobs
  /\ CleanupOnceAndSafe

\* A run is recorded after at least one simulation started.  Not always: see README.md
StartedRunsAreRecorded ==
  phase = "leave" /\ ~norun /\ sim # {} => saved # None

\* An interrupted run of which a simulation completed stays visible in the history, if the
\* file could be written.  Not always: see README.md
InterruptedRunsAreRecorded ==
  exit = 130 /\ With("PASSED") # {} => saved # None
=============================================================================
