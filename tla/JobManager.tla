----------------------------- MODULE JobManager -----------------------------
(***************************************************************************)
(* The job scheduler of lib/job_lib.py: class JobManager, driven by main() *)
(* of bin/simmer.py.  Three kinds of threads act on it:                    *)
(*   - the scheduler thread runs _run_jobs: it advances the queues,        *)
(*     launches jobs, polls the active ones and runs their post_run;       *)
(*   - the main thread adds jobs, waits, and on Ctrl-C pauses, resumes or  *)
(*     kills;                                                              *)
(*   - kill() starts one thread for every active job.                      *)
(* The queues and flags are protected by one condition; a step here is one *)
(* critical section, or one call of a hook or a runner made outside it.    *)
(* A queue is a set: the lists are kept in priority order, and JobQueues   *)
(* shows that walking them gives what JobPass says of sets.                *)
(***************************************************************************)
EXTENDS Naturals, FiniteSets, JobPass

CONSTANTS
  Exclusive,      \* jobs whose execution_mode is "exclusive"; the others are "parallel"
  Bypass,         \* jobs main marks TO_BE_BYPASSED (--no-compile, --no-bazel)
  Planned,        \* jobs main adds
  Spawn,          \* Spawn[j]: jobs that post_run of j may add
  ActiveJobLimit, \* options['active_job_limit']
  QuitCount,      \* options['quit_count']
  MaxInterrupts,  \* bound: how many times the user presses Ctrl-C
  NoJob

ASSUME JobAssumption ==
  /\ IsFiniteSet(Job)
  /\ NoJob \notin Job
  /\ Exclusive \subseteq Job /\ Bypass \subseteq Job /\ Planned \subseteq Job
  /\ Spawn \in [Job -> SUBSET Job]

ASSUME DepsAssumption ==
  /\ Deps \in [Job -> SUBSET Job]
  /\ Priority \in [Job -> Int]
  /\ \A j \in Job : \A d \in Deps[j] : Priority[d] < Priority[j]

ASSUME LimitAssumption ==
  /\ ActiveJobLimit \in Nat \ {0}
  /\ QuitCount \in Nat \ {0}
  /\ MaxInterrupts \in Nat

VARIABLES
  status,                  \* status[j]: Job.jobstatus
  todo, ready, launching, active, finalizing, done, skipped,
  error_count, done_grace_exit, exited_prematurely,
  run_jobs_thread_active, paused, shutdown_incomplete,
  cancel_requested,        \* jobs whose cancel event is set
  interrupted_jobs,        \* jobs captured by kill
  proc,                    \* proc[j]: the runner's process group, see ProcState
  owned,                   \* jobs that hold their compile or run directory lock
  ended,                   \* ended[j]: the final hooks that were called for j
  added,                   \* jobs passed to add_job so far
  schedPc, cur,            \* the scheduler thread and the job it works on
  mainPc,                  \* the main thread
  pending,                 \* runners pause() or resume() has still to visit
  killers, killOk,         \* jobs with a live kill thread; no such thread failed
  killResult,              \* what kill() returned
  interrupts               \* Ctrl-C presses so far

queues == <<todo, ready, launching, active, finalizing, done, skipped>>
flags  == <<error_count, done_grace_exit, exited_prematurely, run_jobs_thread_active,
            paused, shutdown_incomplete, cancel_requested, interrupted_jobs>>
hooks  == <<proc, owned, ended>>
killing == <<killers, killOk, killResult>>
mainVars == <<pending, killing, interrupts>>
vars == <<status, queues, flags, hooks, added, schedPc, cur, mainPc, mainVars>>

\* "closing": SIGTERM was sent after a timeout, or only background processes of
\* the shell are left; "lost": the runner is done with shutdown_incomplete,
\* processes may still live
ProcState == {"none", "running", "stopped", "closing", "exited", "lost"}
Hook == {"post_run", "launch_failed", "cancel", "incomplete_shutdown"}
SchedState == {"top", "idle", "launch", "preRun", "launchFailed", "register", "pauseNew",
               "readPaused", "resumeNew", "killNew", "poll", "finalize", "postRun",
               "complete", "incomplete", "exited"}
MainState == {"add", "wait", "waiting", "prompt", "pausing", "pausedMenu", "resuming",
              "stop", "join", "kill", "joinKillers", "joinScheduler", "finish"}

TypeOK ==
  /\ status \in [Job -> Status]
  /\ todo \subseteq Job /\ ready \subseteq Job /\ launching \subseteq Job
  /\ active \subseteq Job /\ finalizing \subseteq Job
  /\ done \subseteq Job /\ skipped \subseteq Job
  /\ error_count \in Nat
  /\ done_grace_exit \in BOOLEAN /\ exited_prematurely \in BOOLEAN
  /\ run_jobs_thread_active \in BOOLEAN /\ paused \in BOOLEAN
  /\ shutdown_incomplete \in BOOLEAN
  /\ cancel_requested \subseteq Job /\ interrupted_jobs \subseteq Job
  /\ proc \in [Job -> ProcState] /\ owned \subseteq Job
  /\ ended \in [Job -> SUBSET Hook]
  /\ added \subseteq Job
  /\ schedPc \in SchedState /\ cur \in Job \cup {NoJob}
  /\ mainPc \in MainState /\ pending \subseteq Job
  /\ killers \subseteq Job /\ killOk \in BOOLEAN
  /\ killResult \in {"none", "complete", "incomplete"}
  /\ interrupts \in 0..MaxInterrupts

Init ==
  /\ status = [j \in Job |-> IF j \in Bypass THEN "TO_BE_BYPASSED" ELSE "NOT_STARTED"]
  /\ todo = {} /\ ready = {} /\ launching = {} /\ active = {}
  /\ finalizing = {} /\ done = {} /\ skipped = {}
  /\ error_count = 0 /\ done_grace_exit = FALSE /\ exited_prematurely = FALSE
  /\ run_jobs_thread_active = TRUE /\ paused = FALSE /\ shutdown_incomplete = FALSE
  /\ cancel_requested = {} /\ interrupted_jobs = {}
  /\ proc = [j \in Job |-> "none"] /\ owned = {} /\ ended = [j \in Job |-> {}]
  /\ added = {}
  /\ schedPc = "top" /\ cur = NoJob /\ mainPc = "add" /\ pending = {}
  /\ killers = {} /\ killOk = TRUE /\ killResult = "none" /\ interrupts = 0
-----------------------------------------------------------------------------
(* Operations of the queues, each made under the condition. *)

\* notify_all: whoever waits on the condition looks again
WakeMain == mainPc' = IF mainPc = "waiting" THEN "wait" ELSE mainPc
WakeScheduler == schedPc' = IF schedPc = "idle" THEN "top" ELSE schedPc

\* Faulty: the limit is checked, the execution modes are not
CanLaunchInAnyMode(j) == Cardinality(active \cup launching) < ActiveJobLimit

\* _can_launch_locked
CanLaunch(j) ==
  LET running == active \cup launching IN
  IF j \in Exclusive
  THEN running = {}
  ELSE /\ running \cap Exclusive = {}
       /\ Cardinality(running) < ActiveJobLimit

\* The launchable jobs _take_ready_job_locked may find first
FirstOf(S) == {j \in S : \A k \in S : Priority[j] <= Priority[k]}

\* A pass of _move_todo_to_ready_locked, after the jobs K were skipped and
\* before the jobs T are taken from the ready queue
MoveTodoToReady(K, T) ==
  LET t  == todo \ K
      st == MarkSkipped(status, K)
      R  == Unblocked(t, st)
  IN \E S \in SUBSET t :
       /\ SkippedByPass(S, t, st)
       /\ todo' = t \ (S \cup R)
       /\ ready' = (ready \cup R) \ T
       /\ skipped' = skipped \cup K \cup S
       /\ status' = MarkSkipped(st, S)

\* Faulty: the ready queue is not emptied
GracefulExitKeepsReady ==
  /\ exited_prematurely' = TRUE
  /\ done_grace_exit' = TRUE
  /\ status' = MarkSkipped(status, todo \cup ready)
  /\ skipped' = skipped \cup todo \cup ready
  /\ todo' = {} /\ UNCHANGED ready

\* _graceful_exit_locked, when it is called for the first time
GracefulExit ==
  /\ exited_prematurely' = TRUE
  /\ done_grace_exit' = TRUE
  /\ status' = MarkSkipped(status, todo \cup ready)
  /\ skipped' = skipped \cup todo \cup ready
  /\ todo' = {} /\ ready' = {}

\* Faulty: jobs are accepted after the graceful exit
AddJobAfterQuit(j) ==
  /\ added' = added \cup {j}
  /\ IF run_jobs_thread_active
     THEN todo' = todo \cup {j} /\ UNCHANGED skipped
     ELSE skipped' = skipped \cup {j} /\ UNCHANGED todo

\* add_job, called by main or by a post_run hook
AddJob(j) ==
  /\ added' = added \cup {j}
  /\ IF ~done_grace_exit /\ run_jobs_thread_active
     THEN todo' = todo \cup {j} /\ UNCHANGED skipped
     ELSE skipped' = skipped \cup {j} /\ UNCHANGED todo
-----------------------------------------------------------------------------
(* The scheduler thread: _run_jobs. *)

\* Top of the loop: advance the queues, then take a job to launch, poll the
\* active jobs, or wait on the condition without a timeout
RunJobs ==
  /\ schedPc = "top" /\ run_jobs_thread_active
  /\ LET launchable == IF paused THEN {}
                       ELSE {j \in ready \cup Unblocked(todo, status) : CanLaunch(j)}
     IN \/ \E j \in FirstOf(launchable) :
             /\ MoveTodoToReady({}, {j})
             /\ launching' = launching \cup {j}
             /\ cur' = j /\ schedPc' = "launch"
        \/ /\ launchable = {}
           /\ MoveTodoToReady({}, {})
           /\ schedPc' = IF active = {} THEN "idle" ELSE "poll"
           /\ UNCHANGED <<launching, cur>>
  /\ WakeMain
  /\ UNCHANGED <<active, finalizing, done, flags, hooks, added, mainVars>>

SchedulerExits ==
  /\ schedPc \in {"top", "finalize"} /\ ~run_jobs_thread_active
  /\ schedPc' = "exited"
  /\ UNCHANGED <<status, queues, flags, hooks, added, cur, mainPc, mainVars>>

\* _launch_job: the first raise_if_cancelled passes; pre_run takes the job's
\* directory lock
EnterPreRun ==
  /\ schedPc = "launch" /\ cur \notin cancel_requested
  /\ owned' = owned \cup {cur} /\ schedPc' = "preRun"
  /\ UNCHANGED <<status, queues, flags, proc, ended, added, cur, mainPc, mainVars>>

\* pre_run returns and the runner starts the process
StartRunner ==
  /\ schedPc = "preRun" /\ cur \notin cancel_requested
  /\ proc' = [proc EXCEPT ![cur] = "running"] /\ schedPc' = "register"
  /\ UNCHANGED <<status, queues, flags, owned, ended, added, cur, mainPc, mainVars>>

\* JobCancelledError, from a check or from inside pre_run
LaunchCancelled ==
  /\ schedPc \in {"launch", "preRun"} /\ cur \in cancel_requested
  /\ status' = MarkSkipped(status, {cur})
  /\ ended' = [ended EXCEPT ![cur] = @ \cup {"cancel"}] /\ owned' = owned \ {cur}
  /\ launching' = launching \ {cur} /\ skipped' = skipped \cup {cur}
  /\ schedPc' = "top" /\ WakeMain
  /\ UNCHANGED <<todo, ready, active, finalizing, done, flags, proc, added, cur, mainVars>>

\* Any other exception of pre_run or of the runner: status and launch_failed
LaunchRaises ==
  /\ schedPc = "preRun"
  /\ status' = [status EXCEPT ![cur] = Update(@, "FAILED")]
  /\ ended' = [ended EXCEPT ![cur] = @ \cup {"launch_failed"}] /\ owned' = owned \ {cur}
  /\ schedPc' = "launchFailed"
  /\ UNCHANGED <<queues, flags, proc, added, cur, mainPc, mainVars>>

\* The jobs below a failed job leave todo; at the quit count everything does
FailureSkips(K) ==
  /\ SkippedBelow(K, todo, cur)
  /\ error_count' = error_count + 1

QuitsNow == error_count + 1 >= QuitCount /\ ~done_grace_exit

LaunchFailed ==
  /\ schedPc = "launchFailed"
  /\ launching' = launching \ {cur} /\ done' = done \cup {cur}
  /\ \E K \in SUBSET todo :
       /\ FailureSkips(K)
       /\ IF QuitsNow
          THEN GracefulExit
          ELSE /\ todo' = todo \ K /\ skipped' = skipped \cup K
               /\ status' = MarkSkipped(status, K)
               /\ UNCHANGED <<ready, done_grace_exit, exited_prematurely>>
  /\ schedPc' = "top" /\ WakeMain
  /\ UNCHANGED <<active, finalizing, run_jobs_thread_active, paused, shutdown_incomplete,
                 cancel_requested, interrupted_jobs, hooks, added, cur, mainVars>>

\* The launched job becomes active, unless kill() came first
RegisterRunner ==
  /\ schedPc = "register"
  /\ launching' = launching \ {cur}
  /\ IF run_jobs_thread_active
     THEN /\ active' = active \cup {cur}
          /\ schedPc' = IF paused THEN "pauseNew" ELSE "top"
     ELSE schedPc' = "killNew" /\ UNCHANGED active
  /\ WakeMain
  /\ UNCHANGED <<status, todo, ready, finalizing, done, skipped, flags, hooks, added, cur,
                 mainVars>>

\* A runner launched while paused: pause it, then look whether the user has
\* resumed in between, and if so resume it
PauseNewRunner ==
  /\ schedPc = "pauseNew"
  /\ proc' = [proc EXCEPT ![cur] = IF @ = "running" THEN "stopped" ELSE @]
  /\ schedPc' = "readPaused"
  /\ UNCHANGED <<status, queues, flags, owned, ended, added, cur, mainPc, mainVars>>

\* Faulty: whether the user has resumed in between is not looked at
ReadPausedNever ==
  /\ schedPc = "readPaused" /\ schedPc' = "top"
  /\ UNCHANGED <<status, queues, flags, hooks, added, cur, mainPc, mainVars>>

ReadPaused ==
  /\ schedPc = "readPaused"
  /\ schedPc' = IF paused THEN "top" ELSE "resumeNew"
  /\ UNCHANGED <<status, queues, flags, hooks, added, cur, mainPc, mainVars>>

ResumeNewRunner ==
  /\ schedPc = "resumeNew"
  /\ proc' = [proc EXCEPT ![cur] = IF @ = "stopped" THEN "running" ELSE @]
  /\ schedPc' = "top"
  /\ UNCHANGED <<status, queues, flags, owned, ended, added, cur, mainPc, mainVars>>

\* A runner launched during shutdown is killed; cancel only if it is gone
KillNewRunner ==
  /\ schedPc = "killNew"
  /\ \/ /\ proc' = [proc EXCEPT ![cur] = "exited"] /\ owned' = owned \ {cur}
        /\ ended' = [ended EXCEPT ![cur] = @ \cup {"cancel"}]
        /\ UNCHANGED shutdown_incomplete
     \/ /\ proc[cur] # "exited" /\ proc' = [proc EXCEPT ![cur] = "lost"]
        /\ shutdown_incomplete' = TRUE
        /\ UNCHANGED <<owned, ended>>
  /\ schedPc' = "top" /\ WakeMain
  /\ UNCHANGED <<status, queues, error_count, done_grace_exit, exited_prematurely,
                 run_jobs_thread_active, paused, cancel_requested, interrupted_jobs, added,
                 cur, mainVars>>
-----------------------------------------------------------------------------
(* Polling and completion. *)

\* The snapshot of active jobs is polled outside the lock; only this thread
\* changes active, so the snapshot is still active itself
PollFindsDone(j) ==
  /\ schedPc = "poll" /\ j \in active /\ proc[j] \in {"exited", "lost"}
  /\ cur' = j /\ schedPc' = IF proc[j] = "lost" THEN "incomplete" ELSE "finalize"
  /\ UNCHANGED <<status, queues, flags, hooks, added, mainPc, mainVars>>

\* check_for_done finds a timeout and sends SIGTERM
PollSendsTerm(j) ==
  /\ schedPc = "poll" /\ j \in active /\ proc[j] = "running"
  /\ proc' = [proc EXCEPT ![j] = "closing"]
  /\ UNCHANGED <<status, queues, flags, owned, ended, added, schedPc, cur, mainPc, mainVars>>

\* check_for_done gives up on a process group that survives SIGKILL
PollGivesUp(j) ==
  /\ schedPc = "poll" /\ j \in active /\ proc[j] \in {"running", "closing"}
  /\ proc' = [proc EXCEPT ![j] = "lost"] /\ cur' = j /\ schedPc' = "incomplete"
  /\ UNCHANGED <<status, queues, flags, owned, ended, added, mainPc, mainVars>>

\* No job is done: the timed wait, which ends by itself
PollFindsNone ==
  /\ schedPc = "poll" /\ \A j \in active : proc[j] \notin {"exited", "lost"}
  /\ schedPc' = "top"
  /\ UNCHANGED <<status, queues, flags, hooks, added, cur, mainPc, mainVars>>

\* Faulty: finalizing starts although kill() has begun
BeginFinalizingInShutdown ==
  /\ schedPc = "finalize"
  /\ active' = active \ {cur} /\ finalizing' = finalizing \cup {cur}
  /\ schedPc' = "postRun" /\ WakeMain
  /\ UNCHANGED <<status, todo, ready, launching, done, skipped, flags, hooks, added, cur,
                 mainVars>>

\* The job found done moves to finalizing, unless kill() has begun
BeginFinalizing ==
  /\ schedPc = "finalize" /\ run_jobs_thread_active
  /\ active' = active \ {cur} /\ finalizing' = finalizing \cup {cur}
  /\ schedPc' = "postRun" /\ WakeMain
  /\ UNCHANGED <<status, todo, ready, launching, done, skipped, flags, hooks, added, cur,
                 mainVars>>

\* post_run adds a job: the ask job its selected tests, a test its next run
PostRunAdds(j) ==
  /\ schedPc = "postRun" /\ j \in Spawn[cur] \ added
  /\ AddJob(j) /\ WakeMain
  /\ UNCHANGED <<status, ready, launching, active, finalizing, done, flags, hooks, schedPc,
                 cur, mainVars>>

\* post_run ends, or raises and post_run_failed records the failure
PostRun(outcome) ==
  /\ schedPc = "postRun"
  /\ status' = [status EXCEPT ![cur] = Update(@, outcome)]
  /\ ended' = [ended EXCEPT ![cur] = @ \cup {"post_run"}] /\ owned' = owned \ {cur}
  /\ schedPc' = "complete"
  /\ UNCHANGED <<queues, flags, proc, added, cur, mainPc, mainVars>>

CompleteJob ==
  /\ schedPc = "complete"
  /\ finalizing' = finalizing \ {cur} /\ done' = done \cup {cur}
  /\ \/ /\ Successful(status[cur])
        /\ MoveTodoToReady({}, {})
        /\ UNCHANGED <<error_count, done_grace_exit, exited_prematurely>>
     \/ /\ ~Successful(status[cur])
        /\ \E K \in SUBSET todo :
             /\ FailureSkips(K)
             /\ IF QuitsNow
                THEN GracefulExit
                ELSE /\ MoveTodoToReady(K, {})
                     /\ UNCHANGED <<done_grace_exit, exited_prematurely>>
  /\ schedPc' = "top" /\ WakeMain
  /\ UNCHANGED <<launching, active, run_jobs_thread_active, paused, shutdown_incomplete,
                 cancel_requested, interrupted_jobs, hooks, added, cur, mainVars>>

\* _record_incomplete_shutdown: the job fails and keeps its lock, and nothing
\* is launched any more
RecordIncomplete ==
  /\ schedPc = "incomplete"
  /\ active' = active \ {cur} /\ done' = done \cup {cur}
  /\ ended' = [ended EXCEPT ![cur] = @ \cup {"incomplete_shutdown"}]
  /\ shutdown_incomplete' = TRUE /\ error_count' = error_count + 1
  /\ exited_prematurely' = TRUE /\ done_grace_exit' = TRUE
  /\ status' = [MarkSkipped(status, todo \cup ready) EXCEPT ![cur] = Update(@, "FAILED")]
  /\ skipped' = skipped \cup todo \cup ready /\ todo' = {} /\ ready' = {}
  /\ schedPc' = "top" /\ WakeMain
  /\ UNCHANGED <<launching, finalizing, run_jobs_thread_active, paused, cancel_requested,
                 interrupted_jobs, proc, owned, added, cur, mainVars>>

\* A process group ends by itself, or its shell ends and leaves background
\* processes behind, which are not paused any more
ProcessExits(j) ==
  /\ \/ proc[j] \in {"running", "closing"} /\ proc' = [proc EXCEPT ![j] = "exited"]
     \/ proc[j] = "running" /\ proc' = [proc EXCEPT ![j] = "closing"]
  /\ UNCHANGED <<status, queues, flags, owned, ended, added, schedPc, cur, mainPc, mainVars>>
-----------------------------------------------------------------------------
(* The main thread: main, _wait_for_jobs and _prompt_interrupt_action of    *)
(* bin/simmer.py with the JobManager operations they call.                 *)

MainAddsJob(j) ==
  /\ mainPc = "add" /\ j \in Planned \ added /\ Deps[j] \cap Planned \subseteq added
  /\ AddJob(j) /\ WakeScheduler
  /\ UNCHANGED <<status, ready, launching, active, finalizing, done, flags, hooks, cur,
                 mainPc, mainVars>>

MainAddedAll ==
  /\ mainPc = "add" /\ Planned \subseteq added
  /\ mainPc' = "wait"
  /\ UNCHANGED <<status, queues, flags, hooks, added, schedPc, cur, mainVars>>

\* Faulty: wait does not look at the finalizing jobs
WaitWithoutFinalizing ==
  /\ mainPc = "wait"
  /\ mainPc' = IF todo \cup ready \cup launching \cup active = {} THEN "stop" ELSE "waiting"
  /\ UNCHANGED <<status, queues, flags, hooks, added, schedPc, cur, mainVars>>

\* wait: one evaluation of its loop condition
Wait ==
  /\ mainPc = "wait"
  /\ mainPc' = IF todo \cup ready \cup launching \cup active \cup finalizing = {}
               THEN "stop" ELSE "waiting"
  /\ UNCHANGED <<status, queues, flags, hooks, added, schedPc, cur, mainVars>>

Stop ==
  /\ mainPc = "stop"
  /\ run_jobs_thread_active' = FALSE
  /\ mainPc' = "join" /\ WakeScheduler
  /\ UNCHANGED <<status, queues, error_count, done_grace_exit, exited_prematurely, paused,
                 shutdown_incomplete, cancel_requested, interrupted_jobs, hooks, added, cur,
                 mainVars>>

StopJoins ==
  /\ mainPc = "join" /\ schedPc = "exited"
  /\ mainPc' = "finish"
  /\ UNCHANGED <<status, queues, flags, hooks, added, schedPc, cur, mainVars>>

\* Ctrl-C: a menu while waiting; anywhere else, also inside pause() and
\* resume(), the end of the regression
Interrupt ==
  /\ mainPc \in {"add", "wait", "waiting", "pausing", "resuming", "stop", "join"}
  /\ interrupts < MaxInterrupts /\ interrupts' = interrupts + 1
  /\ mainPc' = IF mainPc \in {"wait", "waiting"} THEN "prompt" ELSE "kill"
  /\ UNCHANGED <<status, queues, flags, hooks, added, schedPc, cur, pending, killing>>

ChooseContinue ==
  /\ mainPc = "prompt" /\ mainPc' = "wait"
  /\ UNCHANGED <<status, queues, flags, hooks, added, schedPc, cur, mainVars>>

ChooseStop ==
  /\ mainPc \in {"prompt", "pausedMenu"} /\ mainPc' = "kill"
  /\ UNCHANGED <<status, queues, flags, hooks, added, schedPc, cur, mainVars>>

\* pause and resume: the flag and a snapshot of active under the lock
SetPaused(from, flag, to) ==
  /\ mainPc = from /\ mainPc' = to
  /\ paused' = flag /\ pending' = active
  /\ WakeScheduler
  /\ UNCHANGED <<status, queues, error_count, done_grace_exit, exited_prematurely,
                 run_jobs_thread_active, shutdown_incomplete, cancel_requested,
                 interrupted_jobs, hooks, added, cur, killing, interrupts>>

Pause == run_jobs_thread_active /\ SetPaused("prompt", TRUE, "pausing")
Resume == SetPaused("pausedMenu", FALSE, "resuming")

\* ... then the runners of the snapshot one after the other, unlocked;
\* SubprocessJobRunner.pause and resume leave a finished or closing one alone
PauseRunner(j) ==
  /\ mainPc = "pausing" /\ j \in pending
  /\ proc' = [proc EXCEPT ![j] = IF @ = "running" THEN "stopped" ELSE @]
  /\ pending' = pending \ {j}
  /\ UNCHANGED <<status, queues, flags, owned, ended, added, schedPc, cur, mainPc, killing,
                 interrupts>>

ResumeRunner(j) ==
  /\ mainPc = "resuming" /\ j \in pending
  /\ proc' = [proc EXCEPT ![j] = IF @ = "stopped" THEN "running" ELSE @]
  /\ pending' = pending \ {j}
  /\ UNCHANGED <<status, queues, flags, owned, ended, added, schedPc, cur, mainPc, killing,
                 interrupts>>

RunnersVisited ==
  /\ mainPc \in {"pausing", "resuming"} /\ pending = {}
  /\ mainPc' = IF mainPc = "pausing" THEN "pausedMenu" ELSE "wait"
  /\ UNCHANGED <<status, queues, flags, hooks, added, schedPc, cur, mainVars>>

\* Faulty: the job under launch is reported as skipped
KillSkipsLaunching ==
  /\ mainPc = "kill"
  /\ exited_prematurely' = TRUE /\ run_jobs_thread_active' = FALSE /\ paused' = FALSE
  /\ interrupted_jobs' = launching \cup active \cup finalizing
  /\ cancel_requested' = cancel_requested \cup todo \cup ready \cup launching \cup active
  /\ status' = MarkSkipped(status, todo \cup ready \cup launching)
  /\ skipped' = skipped \cup todo \cup ready \cup launching /\ todo' = {} /\ ready' = {}
  /\ killers' = active /\ mainPc' = "joinKillers" /\ WakeScheduler
  /\ UNCHANGED <<launching, active, finalizing, done, error_count, done_grace_exit,
                 shutdown_incomplete, hooks, added, cur, pending, killOk, killResult,
                 interrupts>>

\* kill: the section under the lock, and one thread per active job
Kill ==
  /\ mainPc = "kill"
  /\ exited_prematurely' = TRUE /\ run_jobs_thread_active' = FALSE /\ paused' = FALSE
  /\ interrupted_jobs' = launching \cup active \cup finalizing
  /\ cancel_requested' = cancel_requested \cup todo \cup ready \cup launching \cup active
  /\ status' = MarkSkipped(status, todo \cup ready)
  /\ skipped' = skipped \cup todo \cup ready /\ todo' = {} /\ ready' = {}
  /\ killers' = active /\ mainPc' = "joinKillers" /\ WakeScheduler
  /\ UNCHANGED <<launching, active, finalizing, done, error_count, done_grace_exit,
                 shutdown_incomplete, hooks, added, cur, pending, killOk, killResult,
                 interrupts>>

\* Faulty: cancel is called whether the group is gone or not
KillRunnerAlwaysCancels(j) ==
  /\ j \in killers /\ killers' = killers \ {j}
  /\ proc' = [proc EXCEPT ![j] = IF @ = "exited" THEN @ ELSE "lost"]
  /\ owned' = owned \ {j} /\ ended' = [ended EXCEPT ![j] = @ \cup {"cancel"}]
  /\ killOk' = FALSE
  /\ UNCHANGED <<status, queues, flags, added, schedPc, cur, mainPc, pending, killResult,
                 interrupts>>

\* A kill thread: runner.kill(), and cancel only if the group is gone
KillRunner(j) ==
  /\ j \in killers /\ killers' = killers \ {j}
  /\ \/ /\ proc' = [proc EXCEPT ![j] = "exited"] /\ owned' = owned \ {j}
        /\ ended' = [ended EXCEPT ![j] = @ \cup {"cancel"}]
        /\ UNCHANGED killOk
     \/ /\ proc[j] # "exited" /\ proc' = [proc EXCEPT ![j] = "lost"] /\ killOk' = FALSE
        /\ UNCHANGED <<owned, ended>>
  /\ UNCHANGED <<status, queues, flags, added, schedPc, cur, mainPc, pending, killResult,
                 interrupts>>

\* kill joins its threads for a bounded time ...
JoinKillers ==
  /\ mainPc = "joinKillers" /\ mainPc' = "joinScheduler"
  /\ killOk' = (killOk /\ killers = {})
  /\ UNCHANGED <<status, queues, flags, hooks, added, schedPc, cur, pending, killers,
                 killResult, interrupts>>

\* Faulty: what the scheduler could not stop is not reported
KillReturnsUnaware ==
  /\ mainPc = "joinScheduler" /\ mainPc' = "finish"
  /\ killResult' = IF killOk /\ schedPc = "exited" THEN "complete" ELSE "incomplete"
  /\ UNCHANGED <<status, queues, flags, hooks, added, schedPc, cur, pending, killers, killOk,
                 interrupts>>

\* ... then the scheduler, and reports whether everything stopped
KillReturns ==
  /\ mainPc = "joinScheduler" /\ mainPc' = "finish"
  /\ killResult' = IF killOk /\ schedPc = "exited" /\ ~shutdown_incomplete
                   THEN "complete" ELSE "incomplete"
  /\ UNCHANGED <<status, queues, flags, hooks, added, schedPc, cur, pending, killers, killOk,
                 interrupts>>

\* Faulty: everything captured by kill() counts as interrupted
InterruptedJobsAll == interrupted_jobs

\* interrupted_jobs: what was captured by kill() and has not completed since
InterruptedJobs == interrupted_jobs \ done

\* simmer is about to exit
Finished == mainPc = "finish" /\ UNCHANGED vars
-----------------------------------------------------------------------------
Scheduler ==
  \/ RunJobs \/ SchedulerExits \/ EnterPreRun \/ StartRunner \/ LaunchCancelled
  \/ LaunchRaises \/ LaunchFailed \/ RegisterRunner \/ PauseNewRunner \/ ReadPaused
  \/ ResumeNewRunner \/ KillNewRunner \/ PollFindsNone \/ BeginFinalizing
  \/ CompleteJob \/ RecordIncomplete
  \/ \E j \in Job : PollFindsDone(j) \/ PollSendsTerm(j) \/ PollGivesUp(j) \/ PostRunAdds(j)
  \/ \E outcome \in {"PASSED", "FAILED"} : PostRun(outcome)

Main ==
  \/ MainAddedAll \/ Wait \/ Stop \/ StopJoins \/ ChooseContinue \/ ChooseStop
  \/ Pause \/ Resume \/ RunnersVisited \/ Kill \/ JoinKillers \/ KillReturns
  \/ \E j \in Job : MainAddsJob(j) \/ PauseRunner(j) \/ ResumeRunner(j)

Next ==
  \/ Scheduler \/ Main \/ Interrupt \/ Finished
  \/ \E j \in Job : KillRunner(j) \/ ProcessExits(j)

Spec == Init /\ [][Next]_vars

\* The threads run, the user answers a prompt, and a process that is not
\* stopped ends; nobody has to press Ctrl-C
FairSpec ==
  /\ Spec /\ WF_vars(Scheduler) /\ WF_vars(Main)
  /\ \A j \in Job : WF_vars(KillRunner(j)) /\ WF_vars(ProcessExits(j))
-----------------------------------------------------------------------------
(* Properties. *)

Alive(j) == proc[j] \in {"running", "stopped", "closing", "lost"}

\* An exclusive job's processes never overlap with another job's, and no more
\* than active_job_limit jobs have processes: _can_launch_locked looks at the
\* queues, this looks at the processes, over launches, shutdowns and losses.
ProcessesExclusive ==
  /\ \A j, k \in Job : Alive(j) /\ Alive(k) /\ j \in Exclusive => j = k
  /\ Cardinality({j \in Job : Alive(j)}) <= ActiveJobLimit

\* A job whose process was ever started has only successful dependencies, for
\* as long as the manager lives: the launch gate of _move_todo_to_ready_locked.
DependenciesSucceeded ==
  \A j \in Job : proc[j] # "none" => \A d \in Deps[j] : Successful(status[d]) /\ d \in done

\* No job is in two queues, and while the scheduler is active no job that was
\* added is in none: the queue transitions of _run_jobs and its hooks.
QueuesPartition ==
  LET Q == <<todo, ready, launching, active, finalizing, done, skipped>> IN
  /\ \A a, b \in DOMAIN Q : a # b => Q[a] \cap Q[b] = {}
  /\ run_jobs_thread_active => added = UNION {Q[a] : a \in DOMAIN Q}

\* A process lives inside the lock of its job: from pre_run until a hook that
\* runs after the group is gone.  A job given up by incomplete_shutdown or by
\* a failed kill keeps its lock.
LockCoversProcess == \A j \in Job : Alive(j) => j \in owned

\* At most one of post_run, launch_failed and cancel is called for a job,
\* whatever kill() meets the scheduler doing: both would release the lock and
\* record a result.
OneFinalHook == \A j \in Job : Cardinality(ended[j] \ {"incomplete_shutdown"}) <= 1

\* A job reported as skipped never had a process, even when kill() skipped it.
SkippedNeverStarted == \A j \in skipped : proc[j] = "none"

\* wait() returns only when every job is settled, those included that a
\* post_run hook added, and nothing is locked or alive except what was lost.
WaitMeansDrained ==
  mainPc \in {"stop", "join"} =>
    /\ Planned \subseteq added /\ added \subseteq done \cup skipped
    /\ \A j \in Job : Alive(j) \/ j \in owned => "incomplete_shutdown" \in ended[j]

\* When kill() reports a complete shutdown no process is left, no job lock is
\* held and the scheduler has ended: main then removes shared directories.  The
\* jobs reported as interrupted have not recorded a result of their own:
\* interrupted_jobs leaves out what finished meanwhile.
CompleteKillIsQuiet ==
  killResult = "complete" =>
    /\ \A j \in Job : ~Alive(j)
    /\ owned = {} /\ schedPc = "exited"
    /\ \A j \in InterruptedJobs : ended[j] \subseteq {"cancel"}

\* With the pause menu open every active process group is stopped, or closing
\* after a timeout, or about to be stopped by the launch that was under way.
\* The code keeps it for one Ctrl-C only: see README.md.
PausedMeansStopped ==
  mainPc = "pausedMenu" =>
    \A j \in active : proc[j] = "running" => schedPc = "pauseNew" /\ cur = j

\* After the graceful exit (quit count reached, or processes that could not be
\* reaped) no process is started any more, also for jobs added later.
NoStartAfterQuit ==
  [][done_grace_exit => \A j \in Job : proc[j] = "none" => proc'[j] = "none"]_vars

\* The regression ends: no wake-up is lost, no job stays in todo behind a
\* dependency that was skipped, and shutdown does not wait for ever.
Termination == <>(mainPc = "finish")

(* The phase of a job as JobLifecycle sees it. *)
PhaseOf(j) ==
  CASE j \in skipped              -> "skipped"
    [] j \notin skipped /\ "cancel" \in ended[j] -> "stopped"
    [] OTHER ->
         IF proc[j] = "lost" THEN "lost"
         ELSE IF j \in done THEN (IF Successful(status[j]) THEN "passed" ELSE "failed")
         ELSE IF proc[j] = "none" THEN "pending" ELSE "running"

Lifecycle ==
  INSTANCE JobLifecycle WITH
    phase  <- [j \in Job |-> PhaseOf(j)],
    halted <- done_grace_exit \/ ~run_jobs_thread_active

\* The manager implements JobLifecycle: jobs start only when their dependencies
\* passed and there is room, end once, and are skipped only with a reason.
ImplementsLifecycle == Lifecycle!Spec
=============================================================================
