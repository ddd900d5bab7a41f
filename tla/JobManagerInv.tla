---------------------------- MODULE JobManagerInv ----------------------------
(***************************************************************************)
(* The inductive invariant of JobManager, in seven layers: each layer is   *)
(* preserved by every step that starts and ends in a state of the layers   *)
(* before it.  TLC checks it in the runs; JobManagerProofs proves it.      *)
(***************************************************************************)
EXTENDS JobManager

\* A job that was never run, skipped or failed
Open(j) == status[j] \in {"NOT_STARTED", "TO_BE_BYPASSED"}

Started(j) == proc[j] # "none"

Queued == todo \cup ready
InSlot == launching \cup active
Final(j) == ended[j] \ {"incomplete_shutdown"}
-----------------------------------------------------------------------------
(* Layer 1: where jobs are. *)

\* The job in the scheduler's hands is the one its program counter says
SchedulerJob ==
  /\ launching = IF schedPc \in {"launch", "preRun", "launchFailed", "register"}
                 THEN {cur} ELSE {}
  /\ finalizing = IF schedPc \in {"postRun", "complete"} THEN {cur} ELSE {}
  /\ schedPc \in {"pauseNew", "readPaused", "resumeNew", "finalize", "incomplete"} =>
       cur \in active
  /\ schedPc = "killNew" =>
       /\ ~run_jobs_thread_active
       /\ cur \in added \ (Queued \cup active \cup done \cup skipped)

Disjoint ==
  /\ todo \cap (ready \cup launching \cup active \cup finalizing \cup done \cup skipped) = {}
  /\ ready \cap (launching \cup active \cup finalizing \cup done \cup skipped) = {}
  /\ launching \cap (active \cup finalizing \cup done \cup skipped) = {}
  /\ active \cap (finalizing \cup done \cup skipped) = {}
  /\ finalizing \cap (done \cup skipped) = {}
  /\ done \cap skipped = {}

InQueues == todo \cup ready \cup launching \cup active \cup finalizing \cup done \cup skipped

Settled == InQueues \subseteq added /\ (run_jobs_thread_active => added = InQueues)

\* Jobs that wait or run have no outcome yet
OpenJobs ==
  /\ \A j \in Queued \cup active \cup (Job \ added) : Open(j)
  /\ \A j \in launching : schedPc # "launchFailed" => Open(j)
  /\ \A j \in finalizing : schedPc = "postRun" => Open(j)

Placement == TypeOK /\ SchedulerJob /\ Disjoint /\ Settled /\ OpenJobs
-----------------------------------------------------------------------------
(* Layer 2: how far the main thread is. *)

Serving == {"add", "wait", "waiting", "prompt", "pausing", "pausedMenu", "resuming", "stop"}

\* Only kill() and stop() end the scheduler, and stop() is called when wait()
\* has seen everything settled
MainOrder ==
  /\ mainPc \in Serving => run_jobs_thread_active
  /\ mainPc \in Serving \ {"add"} => Planned \subseteq added
  /\ mainPc = "join" => Planned \subseteq added
  /\ mainPc \in {"stop", "join"} => added \subseteq done \cup skipped
  /\ mainPc \in {"stop", "join"} \/ (mainPc = "kill" /\ ~run_jobs_thread_active) =>
       Queued \cup InSlot \cup finalizing = {}
-----------------------------------------------------------------------------
(* Layer 3: which jobs have processes. *)

NotStarted ==
  /\ \A j \in Queued \cup skipped \cup (Job \ added) : ~Started(j)
  /\ \A j \in launching : Started(j) <=> schedPc = "register"
  /\ \A j \in active \cup killers : Started(j)
  /\ schedPc = "killNew" => Started(cur)

\* A successful job has been through _complete_job, or is about to
SuccessIsDone ==
  \A j \in Job : Successful(status[j]) => j \in done \/ (schedPc = "complete" /\ cur = j)

DependenciesDone ==
  \A j \in Job : j \in ready \cup launching \/ Started(j) =>
    \A d \in Deps[j] : Successful(status[d]) /\ d \in done

Gate == NotStarted /\ SuccessIsDone /\ DependenciesDone
-----------------------------------------------------------------------------
(* Layer 4: locks and final hooks. *)

\* Kill threads only exist during shutdown, and never for the job the
\* scheduler is launching or finalizing
KillersApart ==
  /\ killers # {} => ~run_jobs_thread_active
  /\ killers \cap (launching \cup finalizing) = {}
  /\ schedPc = "killNew" => cur \notin killers

Gone ==
  /\ schedPc = "finalize" => proc[cur] = "exited"
  /\ \A j \in finalizing : proc[j] = "exited"

Locks ==
  /\ schedPc = "preRun" => cur \in owned
  /\ LockCoversProcess

\* A lock is held by a job in flight; a job given up or left over from a
\* shutdown keeps it
LockHolders ==
  /\ schedPc \in {"complete", "launchFailed"} => cur \notin owned
  /\ \A j \in owned :
       \/ ~run_jobs_thread_active
       \/ j \in InSlot \cup finalizing
       \/ "incomplete_shutdown" \in ended[j]
  /\ mainPc \in {"stop", "join"} => \A j \in owned : "incomplete_shutdown" \in ended[j]

\* A job no final hook was called for yet
NotEnded ==
  /\ \A j \in Queued \cup killers \cup (Job \ added) : Final(j) = {}
  /\ \A j \in launching : schedPc # "launchFailed" => Final(j) = {}
  /\ \A j \in finalizing : schedPc = "postRun" => Final(j) = {}
  /\ \A j \in active : run_jobs_thread_active => Final(j) = {}
  /\ schedPc = "killNew" => Final(cur) = {}

LockState == KillersApart /\ Gone /\ Locks /\ LockHolders /\ NotEnded

Hooks == LockState /\ OneFinalHook
-----------------------------------------------------------------------------
(* Layer 5: the room _can_launch_locked gives. *)

Slots == InSlot \cup {j \in Job : Alive(j)}

\* A process outside the queues it was launched through is left over from a
\* shutdown, or was given up; then nothing is launched any more
SlotsAreQueues ==
  \/ {j \in Job : Alive(j)} \subseteq InSlot
  \/ ~run_jobs_thread_active
  \/ done_grace_exit

QuitEmpties == done_grace_exit => Queued \cup launching = {}

Room ==
  /\ \A j, k \in Slots : j \in Exclusive => j = k
  /\ Cardinality(Slots) <= ActiveJobLimit

Limits == SlotsAreQueues /\ QuitEmpties /\ Room
-----------------------------------------------------------------------------
(* Layer 6: what a shutdown leaves. *)

\* As long as no kill thread has failed and nothing was given up, what is alive
\* or locked is in the hands of the scheduler or of a kill thread
ShutdownCovers ==
  killOk /\ ~shutdown_incomplete =>
    \A j \in Job : Alive(j) \/ j \in owned =>
      \/ j \in launching \cup finalizing \cup killers
      \/ j \in active /\ run_jobs_thread_active
      \/ schedPc = "killNew" /\ cur = j

\* A job captured by kill() records a result of its own only on its way to done
InterruptedHooks ==
  /\ \A j \in Job : "incomplete_shutdown" \in ended[j] => j \in done
  /\ \A j \in interrupted_jobs :
       j \in done \cup launching \cup finalizing \/ ended[j] \subseteq {"cancel"}

\* kill() reports a complete shutdown after its threads and the scheduler ended
KillReport ==
  /\ killers # {} => mainPc \in {"joinKillers", "joinScheduler", "finish"}
  /\ mainPc \in {"joinKillers", "joinScheduler"} => ~run_jobs_thread_active
  /\ mainPc = "joinScheduler" /\ killOk => killers = {}
  /\ killResult = "complete" =>
       /\ mainPc = "finish" /\ schedPc = "exited" /\ killers = {}
       /\ killOk /\ ~shutdown_incomplete /\ ~run_jobs_thread_active

Shutdown == ShutdownCovers /\ InterruptedHooks /\ KillReport
-----------------------------------------------------------------------------
(* Layer 7: what the phase of a job, PhaseOf, depends on. *)

\* An unsuccessful status comes with the queue its job is in
Outcomes ==
  /\ \A j \in Job : status[j] = "SKIPPED" => j \in skipped
  /\ \A j \in Job : status[j] = "FAILED" =>
       j \in done \/ (schedPc \in {"complete", "launchFailed"} /\ cur = j)

\* cancel is called for a job that is skipped, or by a shutdown
Cancelled ==
  /\ cancel_requested # {} => ~run_jobs_thread_active
  /\ \A j \in Job : "cancel" \in ended[j] =>
       j \in skipped \/ (~run_jobs_thread_active /\ j \notin launching \cup finalizing)

\* The processes of a successful job have ended, and nobody cancels it
SuccessEnded ==
  \A j \in Job : Successful(status[j]) =>
    proc[j] = "exited" /\ "cancel" \notin ended[j] /\ j \notin killers

\* A job was given up because its processes could not be reaped
GivenUp ==
  /\ schedPc = "incomplete" => proc[cur] = "lost" \/ "cancel" \in ended[cur]
  /\ \A j \in killers \cap done : proc[j] = "lost"

\* A started job is in a queue until it is done, killed or lost
StartedPlaced ==
  \A j \in Job : Started(j) =>
    \/ j \in InSlot \cup finalizing \cup done
    \/ schedPc = "killNew" /\ cur = j
    \/ "cancel" \in ended[j] \/ proc[j] = "lost"

Phases == Outcomes /\ Cancelled /\ SuccessEnded /\ GivenUp /\ StartedPlaced
-----------------------------------------------------------------------------
IInv == Placement /\ MainOrder /\ Gate /\ Hooks /\ Limits /\ Shutdown /\ Phases
=============================================================================
