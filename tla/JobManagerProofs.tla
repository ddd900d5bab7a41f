-------------------------- MODULE JobManagerProofs --------------------------
(***************************************************************************)
(* Proofs about JobManager for every value of its constants: the layers of *)
(* JobManagerInv are inductive, one after the other, and imply the safety  *)
(* properties of the runs; a step of the manager is a step of JobLifecycle.*)
(***************************************************************************)
EXTENDS JobManagerInv, FiniteSetTheorems, TLAPS

USE DEF queues, flags, hooks, mainVars, killing, WakeMain, WakeScheduler

\* Update never leaves the statuses when it skips a job that is not completed
LEMMA MarkSkippedType ==
  ASSUME NEW st \in [Job -> Status], NEW S
  PROVE  MarkSkipped(st, S) \in [Job -> Status]
BY SMT DEF MarkSkipped, Update, Legal, Completed, Status

\* Skipping changes neither who succeeded nor the jobs that are not skipped
LEMMA MarkSkippedKeeps ==
  ASSUME NEW st \in [Job -> Status], NEW S, NEW j \in Job
  PROVE  /\ Successful(MarkSkipped(st, S)[j]) <=> Successful(st[j])
         /\ j \notin S => MarkSkipped(st, S)[j] = st[j]
         /\ MarkSkipped(st, S)[j] \in {st[j], "SKIPPED"}
BY SMT DEF MarkSkipped, Update, Legal, Completed, Successful, Status

\* What a pass of _move_todo_to_ready_locked does to the queues, given that it
\* skips S: the jobs whose dependencies are all successful become ready, no
\* outcome changes but that of jobs that had none, and each job of S has a
\* dependency that failed or is skipped
PassSkipping(K, T, S) ==
  /\ S \subseteq todo \ K
  /\ S \cap Unblocked(todo \ K, status) = {}
  /\ todo' = (todo \ K) \ (S \cup Unblocked(todo \ K, status))
  /\ ready' = (ready \cup Unblocked(todo \ K, status)) \ T
  /\ skipped' = skipped \cup K \cup S
  /\ status' \in [Job -> Status]
  /\ \A j \in Job : Successful(status'[j]) <=> Successful(status[j])
  /\ \A j \in Job : j \notin K \cup S => status'[j] = status[j]
  /\ \A j \in Job : status'[j] \in {status[j], "SKIPPED"}
  /\ \A j \in S : \E d \in Deps[j] : d \in K \cup S \/ status[d] \in {"FAILED", "SKIPPED"}

LEMMA PassMoves ==
  ASSUME TypeOK, NEW K, NEW T, MoveTodoToReady(K, T)
  PROVE  \E S : PassSkipping(K, T, S)
<1> DEFINE t == todo \ K
           st == MarkSkipped(status, K)
<1>1. status \in [Job -> Status] /\ t \subseteq Job
  BY DEF TypeOK
<1>2. st \in [Job -> Status]
  BY <1>1, MarkSkippedType
<1>3. \A j \in Job : Deps[j] \subseteq Job
  BY DepsAssumption
<1>4. Unblocked(t, st) = Unblocked(t, status)
  BY <1>1, <1>3, MarkSkippedKeeps DEF Unblocked
<1>5. PICK S \in SUBSET t :
        /\ SkippedByPass(S, t, st)
        /\ todo' = t \ (S \cup Unblocked(t, st))
        /\ ready' = (ready \cup Unblocked(t, st)) \ T
        /\ skipped' = skipped \cup K \cup S
        /\ status' = MarkSkipped(st, S)
  BY DEF MoveTodoToReady
<1>6. S \cap Unblocked(t, st) = {}
  BY <1>5 DEF SkippedByPass, Unblocked
<1>7. status' \in [Job -> Status]
  BY <1>2, <1>5, MarkSkippedType
<1>8. ASSUME NEW j \in Job
      PROVE  /\ Successful(status'[j]) <=> Successful(status[j])
             /\ j \notin K \cup S => status'[j] = status[j]
             /\ status'[j] \in {status[j], "SKIPPED"}
  <2>1. /\ Successful(st[j]) <=> Successful(status[j])
        /\ j \notin K => st[j] = status[j]
        /\ st[j] \in {status[j], "SKIPPED"}
    BY <1>1, MarkSkippedKeeps
  <2>2. /\ Successful(MarkSkipped(st, S)[j]) <=> Successful(st[j])
        /\ j \notin S => MarkSkipped(st, S)[j] = st[j]
        /\ MarkSkipped(st, S)[j] \in {st[j], "SKIPPED"}
    BY <1>2, MarkSkippedKeeps
  <2> QED
    BY <1>5, <2>1, <2>2
<1>9. ASSUME NEW j \in S
      PROVE  \E d \in Deps[j] : d \in K \cup S \/ status[d] \in {"FAILED", "SKIPPED"}
  <2>1. PICK d \in Deps[j] : ~Successful(st[d]) /\ (Completed(st[d]) \/ d \in S)
    BY <1>5 DEF SkippedByPass
  <2>2. d \in Job
    BY <1>1, <1>3, <1>5
  <2>3. d \in S \/ st[d] \in {"FAILED", "SKIPPED"}
    BY <2>1 DEF Completed, Successful
  <2>4. d \notin K => st[d] = status[d]
    BY <1>1, <2>2, MarkSkippedKeeps
  <2> QED
    BY <2>3, <2>4
<1> HIDE DEF t, st
<1>10. /\ S \in SUBSET t
       /\ S \cap Unblocked(t, status) = {}
       /\ todo' = t \ (S \cup Unblocked(t, status))
       /\ ready' = (ready \cup Unblocked(t, status)) \ T
       /\ skipped' = skipped \cup K \cup S
  BY <1>4, <1>5, <1>6
<1> QED
  BY <1>7, <1>8, <1>9, <1>10 DEF t, PassSkipping

\* A pass only takes jobs from todo
LEMMA UnblockedInTodo ==
  ASSUME NEW t, NEW st PROVE Unblocked(t, st) \subseteq t
BY DEF Unblocked
-----------------------------------------------------------------------------
(* Layer 1. *)

LEMMA InitPlacement == Init => Placement
<1> SUFFICES ASSUME Init PROVE Placement
  OBVIOUS
<1>1. TypeOK
  <2>1. status \in [Job -> Status]
    BY DEF Init, Status
  <2>2. proc \in [Job -> ProcState] /\ ended \in [Job -> SUBSET Hook]
    BY DEF Init, ProcState
  <2>3. interrupts \in 0..MaxInterrupts
    BY LimitAssumption DEF Init
  <2> QED
    BY <2>1, <2>2, <2>3 DEF Init, TypeOK, SchedState, MainState
<1>2. SchedulerJob /\ Disjoint /\ Settled
  BY DEF Init, SchedulerJob, Disjoint, Settled, InQueues
<1>3. OpenJobs
  BY DEF Init, OpenJobs, Open, Queued
<1> QED
  BY <1>1, <1>2, <1>3 DEF Placement

LEMMA PlacementAfterRunJobs ==
  ASSUME Placement, RunJobs
  PROVE  Placement'
<1> USE DEF Placement
<1> DEFINE launchable == IF paused THEN {}
                         ELSE {j \in ready \cup Unblocked(todo, status) : CanLaunch(j)}
<1>1. TypeOK
  OBVIOUS
<1>2. Unblocked(todo, status) \subseteq todo
  BY UnblockedInTodo
<1>3. ASSUME NEW j \in FirstOf(launchable), MoveTodoToReady({}, {j}),
             launching' = launching \cup {j}, cur' = j, schedPc' = "launch"
      PROVE  Placement'
  <2>1. j \in ready \cup Unblocked(todo, status)
    BY <1>3 DEF FirstOf
  <2>2. PICK S : PassSkipping({}, {j}, S)
    BY <1>1, <1>3, PassMoves
  <2>3. TypeOK'
    BY <1>2, <1>3, <2>1, <2>2 DEF PassSkipping, RunJobs, TypeOK, SchedState, MainState
  <2>4. SchedulerJob' /\ Disjoint' /\ Settled'
    BY <1>2, <1>3, <2>1, <2>2 DEF PassSkipping, RunJobs, SchedulerJob, Disjoint, Settled,
           InQueues, TypeOK
  <2>5. OpenJobs'
    BY <1>2, <1>3, <2>1, <2>2, <2>3
       DEF PassSkipping, RunJobs, OpenJobs, Open, Queued, SchedulerJob, Disjoint, Settled,
       InQueues, TypeOK
  <2> QED
    BY <2>3, <2>4, <2>5
<1>4. ASSUME MoveTodoToReady({}, {}), schedPc' \in {"idle", "poll"}, UNCHANGED <<launching, cur>>
      PROVE  Placement'
  <2>2. PICK S : PassSkipping({}, {}, S)
    BY <1>1, <1>4, PassMoves
  <2>3. TypeOK'
    BY <1>2, <1>4, <2>2 DEF PassSkipping, RunJobs, TypeOK, SchedState, MainState
  <2>4. SchedulerJob' /\ Disjoint' /\ Settled'
    BY <1>2, <1>4, <2>2 DEF PassSkipping, RunJobs, SchedulerJob, Disjoint, Settled, InQueues,
           TypeOK
  <2>5. OpenJobs'
    BY <1>2, <1>4, <2>2, <2>3
       DEF PassSkipping, RunJobs, OpenJobs, Open, Queued, SchedulerJob, Disjoint, Settled,
       InQueues, TypeOK
  <2> QED
    BY <2>3, <2>4, <2>5
<1> QED
  BY <1>3, <1>4 DEF RunJobs

LEMMA PlacementAfterLaunchFailed ==
  ASSUME Placement, LaunchFailed
  PROVE  Placement'
<1> USE DEF Placement
<1>1. PICK K \in SUBSET todo :
       /\ FailureSkips(K)
       /\ IF QuitsNow
          THEN GracefulExit
          ELSE /\ todo' = todo \ K /\ skipped' = skipped \cup K
               /\ status' = MarkSkipped(status, K)
               /\ UNCHANGED <<ready, done_grace_exit, exited_prematurely>>
  BY DEF LaunchFailed
<1>5. error_count' \in Nat
  BY <1>1 DEF FailureSkips, TypeOK
<1>2. TypeOK'
  <2>1. status' \in [Job -> Status]
    BY <1>1, MarkSkippedType DEF GracefulExit, TypeOK
  <2> QED
    BY <1>1, <1>5, <2>1 DEF LaunchFailed, GracefulExit, TypeOK, SchedulerJob, SchedState,
           MainState
<1>3. SchedulerJob' /\ Disjoint' /\ Settled'
  BY <1>1 DEF LaunchFailed, GracefulExit, SchedulerJob, Disjoint, Settled, InQueues, Queued,
         TypeOK
<1>4. OpenJobs'
  BY <1>1, <1>2 DEF LaunchFailed, GracefulExit, SchedulerJob, Disjoint, Settled, InQueues,
         Queued, TypeOK, OpenJobs, Open, MarkSkipped
<1> QED
  BY <1>2, <1>3, <1>4

LEMMA PlacementAfterCompleteJob ==
  ASSUME Placement, CompleteJob
  PROVE  Placement'
<1> USE DEF Placement
<1>0. TypeOK
  OBVIOUS
<1>1. ASSUME NEW K \in SUBSET todo, MoveTodoToReady(K, {}), error_count' \in Nat,
             UNCHANGED <<done_grace_exit, exited_prematurely>>
      PROVE  Placement'
  <2>1. Unblocked(todo \ K, status) \subseteq todo \ K
    BY DEF Unblocked
  <2>2. PICK S : PassSkipping(K, {}, S)
    BY <1>1, <1>0, PassMoves
  <2>3. TypeOK'
    BY <1>1, <2>1, <2>2 DEF PassSkipping, CompleteJob, TypeOK, SchedulerJob, SchedState,
           MainState
  <2>4. SchedulerJob' /\ Disjoint'
    BY <1>1, <2>1, <2>2 DEF PassSkipping, CompleteJob, SchedulerJob, Disjoint
  <2>6. Settled'
    BY <1>1, <2>1, <2>2 DEF PassSkipping, CompleteJob, SchedulerJob, Settled, InQueues
  <2>5. OpenJobs'
    BY <1>1, <2>1, <2>2, <2>3
       DEF PassSkipping, CompleteJob, OpenJobs, Open, Queued, SchedulerJob, Disjoint, Settled,
       InQueues, TypeOK
  <2> QED
    BY <2>3, <2>4, <2>5, <2>6
<1>2. ASSUME GracefulExit, error_count' \in Nat
      PROVE  Placement'
  <2>1. TypeOK'
    BY <1>2, MarkSkippedType DEF CompleteJob, GracefulExit, TypeOK, SchedulerJob, SchedState,
           MainState
  <2>2. SchedulerJob' /\ Disjoint' /\ Settled'
    BY <1>2 DEF CompleteJob, GracefulExit, SchedulerJob, Disjoint, Settled, InQueues, Queued,
           TypeOK
  <2>3. OpenJobs'
    BY <1>2, <2>1 DEF CompleteJob, GracefulExit, SchedulerJob, Disjoint, Settled, InQueues,
           Queued, TypeOK, OpenJobs, Open, MarkSkipped
  <2> QED
    BY <2>1, <2>2, <2>3
<1>3. error_count \in Nat
  BY DEF TypeOK
<1>4. CASE Successful(status[cur])
  BY <1>1, <1>3, <1>4 DEF CompleteJob
<1>5. CASE ~Successful(status[cur])
  <2>1. PICK K \in SUBSET todo :
             /\ FailureSkips(K)
             /\ IF QuitsNow
                THEN GracefulExit
                ELSE /\ MoveTodoToReady(K, {})
                     /\ UNCHANGED <<done_grace_exit, exited_prematurely>>
    BY <1>5 DEF CompleteJob
  <2>2. error_count' \in Nat
    BY <1>3, <2>1 DEF FailureSkips
  <2> QED
    BY <1>1, <1>2, <2>1, <2>2
<1> QED
  BY <1>4, <1>5

LEMMA PlacementStep ==
  ASSUME Placement, [Next]_vars
  PROVE  Placement'
<1> USE DEF Placement, TypeOK, SchedulerJob, Disjoint, Settled, OpenJobs, Open, InQueues,
            Queued, SchedState, MainState, ProcState
<1>1. CASE RunJobs
  BY <1>1, PlacementAfterRunJobs
<1>2. CASE LaunchFailed
  BY <1>2, PlacementAfterLaunchFailed
<1>3. CASE CompleteJob
  BY <1>3, PlacementAfterCompleteJob
<1>4. CASE SchedulerExits
  BY <1>4 DEF SchedulerExits
<1>5. CASE EnterPreRun
  BY <1>5 DEF EnterPreRun
<1>6. CASE StartRunner
  BY <1>6 DEF StartRunner
<1>7. CASE RegisterRunner
  BY <1>7 DEF RegisterRunner
<1>8. CASE PauseNewRunner
  BY <1>8 DEF PauseNewRunner
<1>9. CASE ReadPaused
  BY <1>9 DEF ReadPaused
<1>10. CASE ResumeNewRunner
  BY <1>10 DEF ResumeNewRunner
<1>11. CASE PollFindsNone
  BY <1>11 DEF PollFindsNone
<1>12. CASE BeginFinalizing
  BY <1>12 DEF BeginFinalizing
<1>13. CASE LaunchCancelled
  <2>1. status' \in [Job -> Status]
    BY <1>13, MarkSkippedType DEF LaunchCancelled
  <2>2. \A j \in Job : j \notin {cur} => status'[j] = status[j]
    BY <1>13 DEF LaunchCancelled, MarkSkipped
  <2>6. ended' \in [Job -> SUBSET Hook]
    BY <1>13 DEF LaunchCancelled, Hook
  <2>7. cur \in Job \cup {NoJob} /\ TypeOK
    OBVIOUS
  <2>3. TypeOK'
    <3> HIDE DEF Placement, SchedulerJob, Disjoint, Settled, OpenJobs
    <3> QED
      BY <1>13, <2>1, <2>6, <2>7 DEF LaunchCancelled
  <2>4. SchedulerJob' /\ Disjoint' /\ Settled'
    BY <1>13 DEF LaunchCancelled
  <2>5. OpenJobs'
    <3>1. \A j \in Queued' \cup active' \cup (Job \ added') : Open(j)'
      BY <1>13, <2>2 DEF LaunchCancelled
    <3>2. launching' \subseteq launching /\ finalizing' = finalizing
      BY <1>13 DEF LaunchCancelled
    <3>3. \A j \in launching' : schedPc' # "launchFailed" => Open(j)'
      BY <1>13, <2>2, <3>2 DEF LaunchCancelled
    <3>4. \A j \in finalizing' : schedPc' = "postRun" => Open(j)'
      BY <1>13, <2>2, <3>2 DEF LaunchCancelled
    <3> QED
      BY <3>1, <3>3, <3>4
  <2> QED
    BY <2>3, <2>4, <2>5
<1>14. CASE Kill
  <2>1. status' \in [Job -> Status]
    BY <1>14, MarkSkippedType DEF Kill
  <2>2. \A j \in Job : j \notin Queued => status'[j] = status[j]
    BY <1>14 DEF Kill, MarkSkipped
  <2>6. ended' \in [Job -> SUBSET Hook]
    BY <1>14 DEF Kill, Hook
  <2>7. cur \in Job \cup {NoJob} /\ TypeOK
    OBVIOUS
  <2>3. TypeOK'
    <3> HIDE DEF Placement, SchedulerJob, Disjoint, Settled, OpenJobs
    <3> QED
      BY <1>14, <2>1, <2>6, <2>7 DEF Kill
  <2>4. SchedulerJob' /\ Disjoint' /\ Settled'
    BY <1>14 DEF Kill
  <2>5. OpenJobs'
    <3>1. \A j \in Queued' \cup active' \cup (Job \ added') : Open(j)'
      BY <1>14, <2>2 DEF Kill
    <3>2. launching' \subseteq launching /\ finalizing' = finalizing
      BY <1>14 DEF Kill
    <3>3. \A j \in launching' : schedPc' # "launchFailed" => Open(j)'
      BY <1>14, <2>2, <3>2 DEF Kill
    <3>4. \A j \in finalizing' : schedPc' = "postRun" => Open(j)'
      BY <1>14, <2>2, <3>2 DEF Kill
    <3> QED
      BY <3>1, <3>3, <3>4
  <2> QED
    BY <2>3, <2>4, <2>5
<1>15. CASE RecordIncomplete
  <2>1. cur \in Job /\ status[cur] \in Status /\ Update(status[cur], "FAILED") \in Status
    BY <1>15 DEF RecordIncomplete, Update, Legal, Status
  <2>7. MarkSkipped(status, Queued) \in [Job -> Status]
    BY MarkSkippedType
  <2>8. MarkSkipped(status, Queued)[cur] = status[cur]
    BY <1>15 DEF RecordIncomplete, MarkSkipped
  <2>2. status' \in [Job -> Status]
    BY <1>15, <2>1, <2>7, <2>8 DEF RecordIncomplete
  <2>3. \A j \in Job : j \notin Queued \cup {cur} => status'[j] = status[j]
    BY <1>15 DEF RecordIncomplete, MarkSkipped
  <2>9. ended' \in [Job -> SUBSET Hook]
    BY <1>15, <2>1 DEF RecordIncomplete, Hook
  <2>4. TypeOK'
    <3>1. TypeOK
      OBVIOUS
    <3>2. error_count' \in Nat
      BY <1>15 DEF RecordIncomplete
    <3> HIDE DEF Placement, SchedulerJob, Disjoint, Settled, OpenJobs
    <3> QED
      BY <1>15, <2>1, <2>2, <2>9, <3>1, <3>2 DEF RecordIncomplete
  <2>5. SchedulerJob' /\ Disjoint' /\ Settled'
    BY <1>15 DEF RecordIncomplete
  <2>6. OpenJobs'
    <3>1. ASSUME NEW j \in active' \cup (Job \ added') PROVE Open(j)'
      <4>1. j \in Job /\ j \notin Queued \cup {cur} /\ Open(j)
        BY <1>15, <3>1 DEF RecordIncomplete
      <4> QED
        BY <2>3, <4>1
    <3>2. Queued' = {} /\ launching' = {} /\ finalizing' = {}
      BY <1>15 DEF RecordIncomplete
    <3> QED
      BY <3>1, <3>2
  <2> QED
    BY <2>4, <2>5, <2>6
<1>16. CASE LaunchRaises
  <2>1. cur \in Job /\ Update(status[cur], "FAILED") \in Status
    BY <1>16 DEF LaunchRaises, Update, Legal, Status
  <2>2. status' \in [Job -> Status] /\ ended' \in [Job -> SUBSET Hook]
    BY <1>16, <2>1 DEF LaunchRaises, Hook
  <2> QED
    BY <1>16, <2>2 DEF LaunchRaises
<1>17. ASSUME NEW r \in {"PASSED", "FAILED"}, PostRun(r) PROVE Placement'
  <2>1. cur \in Job /\ Update(status[cur], r) \in Status
    BY <1>17 DEF PostRun, Update, Legal, Status
  <2>2. status' \in [Job -> Status] /\ ended' \in [Job -> SUBSET Hook]
    BY <1>17, <2>1 DEF PostRun, Hook
  <2> QED
    BY <1>17, <2>2 DEF PostRun
<1>18. CASE KillNewRunner
  <2>1. proc' \in [Job -> ProcState] /\ ended' \in [Job -> SUBSET Hook]
    BY <1>18 DEF KillNewRunner, Hook
  <2> QED
    BY <1>18, <2>1 DEF KillNewRunner
<1>19. ASSUME NEW j \in Job, PollFindsDone(j) PROVE Placement'
  BY <1>19 DEF PollFindsDone
<1>20. ASSUME NEW j \in Job, PollSendsTerm(j) PROVE Placement'
  BY <1>20 DEF PollSendsTerm
<1>21. ASSUME NEW j \in Job, PollGivesUp(j) PROVE Placement'
  BY <1>21 DEF PollGivesUp
<1>22. ASSUME NEW j \in Job, PauseRunner(j) PROVE Placement'
  BY <1>22 DEF PauseRunner
<1>23. ASSUME NEW j \in Job, ResumeRunner(j) PROVE Placement'
  BY <1>23 DEF ResumeRunner
<1>24. ASSUME NEW j \in Job, ProcessExits(j) PROVE Placement'
  BY <1>24 DEF ProcessExits
<1>25. ASSUME NEW j \in Job, PostRunAdds(j) PROVE Placement'
  <2>1. TypeOK'
    BY <1>25 DEF PostRunAdds, AddJob
  <2>2. SchedulerJob' /\ Disjoint' /\ Settled'
    BY <1>25 DEF PostRunAdds, AddJob
  <2>3. OpenJobs'
    BY <1>25 DEF PostRunAdds, AddJob
  <2> QED
    BY <2>1, <2>2, <2>3
<1>26. ASSUME NEW j \in Job, MainAddsJob(j) PROVE Placement'
  <2>1. TypeOK'
    BY <1>26 DEF MainAddsJob, AddJob
  <2>2. SchedulerJob' /\ Disjoint' /\ Settled'
    BY <1>26 DEF MainAddsJob, AddJob
  <2>3. OpenJobs'
    BY <1>26 DEF MainAddsJob, AddJob
  <2> QED
    BY <2>1, <2>2, <2>3
<1>27. ASSUME NEW j \in Job, KillRunner(j) PROVE Placement'
  <2>1. proc' \in [Job -> ProcState] /\ ended' \in [Job -> SUBSET Hook]
    BY <1>27 DEF KillRunner, Hook
  <2>2. TypeOK'
    <3>1. TypeOK
      OBVIOUS
    <3> HIDE DEF Placement, SchedulerJob, Disjoint, Settled, OpenJobs
    <3>2. killers' \subseteq Job /\ owned' \subseteq Job /\ killOk' \in BOOLEAN
      BY <1>27, <3>1 DEF KillRunner
    <3> QED
      BY <1>27, <2>1, <3>1, <3>2 DEF KillRunner
  <2>3. SchedulerJob' /\ Disjoint' /\ Settled' /\ OpenJobs'
    BY <1>27 DEF KillRunner
  <2> QED
    BY <2>2, <2>3
<1>28. CASE MainAddedAll
  BY <1>28 DEF MainAddedAll
<1>29. CASE Wait
  BY <1>29 DEF Wait
<1>30. CASE StopJoins
  BY <1>30 DEF StopJoins
<1>31. CASE ChooseContinue
  BY <1>31 DEF ChooseContinue
<1>32. CASE ChooseStop
  BY <1>32 DEF ChooseStop
<1>33. CASE Pause
  BY <1>33 DEF Pause, SetPaused
<1>34. CASE RunnersVisited
  BY <1>34 DEF RunnersVisited
<1>35. CASE JoinKillers
  BY <1>35 DEF JoinKillers
<1>36. CASE KillReturns
  BY <1>36 DEF KillReturns
<1>37. CASE Stop
  <2>1. TypeOK'
    BY <1>37 DEF Stop
  <2>2. SchedulerJob' /\ Disjoint' /\ Settled' /\ OpenJobs'
    BY <1>37 DEF Stop
  <2> QED
    BY <2>1, <2>2
<1>38. CASE Resume
  <2>1. TypeOK'
    BY <1>38 DEF Resume, SetPaused
  <2>2. SchedulerJob' /\ Disjoint' /\ Settled' /\ OpenJobs'
    BY <1>38 DEF Resume, SetPaused
  <2> QED
    BY <2>1, <2>2
<1>39. CASE Interrupt
  <2>1. interrupts' \in 0..MaxInterrupts
    BY <1>39, LimitAssumption DEF Interrupt
  <2> QED
    BY <1>39, <2>1 DEF Interrupt
<1>40. CASE UNCHANGED vars
  BY <1>40 DEF vars
<1> HIDE DEF Placement, TypeOK, SchedulerJob, Disjoint, Settled, OpenJobs
<1> QED
  BY <1>1, <1>2, <1>3, <1>4, <1>5, <1>6, <1>7, <1>8, <1>9, <1>10, <1>11, <1>12, <1>13, <1>14,
     <1>15, <1>16, <1>17, <1>18, <1>19, <1>20, <1>21, <1>22, <1>23, <1>24, <1>25, <1>26, <1>27, <1>28, <1>29, <1>30, <1>31, <1>32, <1>33, <1>34, <1>35, <1>36, <1>37, <1>38, <1>39, <1>40
     DEF Next, Scheduler, Main, Finished

\* The jobs are where the scheduler's program counter says, in one queue each,
\* and those that wait or run have no outcome yet.
THEOREM PlacementInvariant == Spec => []Placement
<1>1. Placement /\ [Next]_vars => Placement'
  BY PlacementStep
<1> QED
  BY InitPlacement, <1>1, PTL DEF Spec

\* Every variable keeps its type; in particular no job ever makes a status
\* transition that JobStatus.update refuses, for any job graph and any limits.
THEOREM TypeCorrect == Spec => []TypeOK
<1>1. Placement => TypeOK
  BY DEF Placement
<1> QED
  BY <1>1, PlacementInvariant, PTL

\* No job is in two queues, and while the scheduler is active each job that was
\* added is in one.
THEOREM OneQueueEach == Spec => []QueuesPartition
<1>1. Placement => QueuesPartition
  <2> SUFFICES ASSUME Placement PROVE QueuesPartition
    OBVIOUS
  <2> DEFINE Q == <<todo, ready, launching, active, finalizing, done, skipped>>
  <2>1. DOMAIN Q = 1..7
    OBVIOUS
  <2>2. /\ Q[1] = todo /\ Q[2] = ready /\ Q[3] = launching /\ Q[4] = active
        /\ Q[5] = finalizing /\ Q[6] = done /\ Q[7] = skipped
    OBVIOUS
  <2> HIDE DEF Q
  <2>3. ASSUME NEW a \in 1..7, NEW b \in 1..7, a # b PROVE Q[a] \cap Q[b] = {}
    <3>1. ASSUME NEW m \in 1..7, NEW n \in 1..7, m < n PROVE Q[m] \cap Q[n] = {}
      BY <2>2, <3>1 DEF Placement, Disjoint
    <3>2. a < b \/ b < a
      BY <2>3
    <3> QED
      BY <3>1, <3>2
  <2>4. UNION {Q[a] : a \in 1..7} = InQueues
    BY <2>2 DEF InQueues
  <2> QED
    BY <2>1, <2>3, <2>4 DEF Placement, Settled, QueuesPartition, Q
<1> QED
  BY <1>1, PlacementInvariant, PTL
-----------------------------------------------------------------------------
(* Layer 2. *)

LEMMA InitMainOrder == Init => MainOrder
BY DEF Init, MainOrder, Serving, Queued, InSlot

LEMMA MainOrderStep ==
  ASSUME Placement, MainOrder, [Next]_vars
  PROVE  MainOrder'
<1> USE DEF Placement, SchedulerJob, Disjoint, Settled, InQueues, Queued, InSlot, MainOrder,
            Serving
<1>0. TypeOK
  OBVIOUS
<1> USE DEF TypeOK
<1>1. CASE RunJobs
  <2>1. Unblocked(todo, status) \subseteq todo
    BY UnblockedInTodo
  <2>2. /\ skipped \subseteq skipped' /\ Queued' \subseteq Queued
        /\ Queued = {} => launching' = launching
    <3>1. ASSUME NEW T, MoveTodoToReady({}, T)
          PROVE  skipped \subseteq skipped' /\ Queued' \subseteq Queued
      <4>1. PICK S : PassSkipping({}, T, S)
        BY <1>0, <3>1, PassMoves
      <4> QED
        BY <2>1, <4>1 DEF PassSkipping
    <3>2. ASSUME NEW j \in ready \cup Unblocked(todo, status) PROVE Queued # {}
      BY <2>1
    <3> QED
      BY <1>1, <3>1, <3>2 DEF RunJobs, FirstOf
  <2>3. mainPc' \in Serving <=> mainPc \in Serving
    BY <1>1 DEF RunJobs
  <2> QED
    BY <1>1, <2>2, <2>3 DEF RunJobs
<1>2. CASE SchedulerExits
  BY <1>2 DEF SchedulerExits
<1>3. CASE EnterPreRun
  BY <1>3 DEF EnterPreRun
<1>4. CASE StartRunner
  BY <1>4 DEF StartRunner
<1>5. CASE LaunchCancelled
  BY <1>5 DEF LaunchCancelled
<1>6. CASE LaunchRaises
  BY <1>6 DEF LaunchRaises
<1>7. CASE LaunchFailed
  BY <1>7 DEF LaunchFailed
<1>8. CASE RegisterRunner
  BY <1>8 DEF RegisterRunner
<1>9. CASE PauseNewRunner
  BY <1>9 DEF PauseNewRunner
<1>10. CASE ReadPaused
  BY <1>10 DEF ReadPaused
<1>11. CASE ResumeNewRunner
  BY <1>11 DEF ResumeNewRunner
<1>12. CASE KillNewRunner
  BY <1>12 DEF KillNewRunner
<1>13. CASE PollFindsNone
  BY <1>13 DEF PollFindsNone
<1>14. CASE BeginFinalizing
  BY <1>14 DEF BeginFinalizing
<1>15. CASE CompleteJob
  <2>1. finalizing # {}
    BY <1>15 DEF CompleteJob
  <2> QED
    BY <1>15, <2>1 DEF CompleteJob
<1>16. CASE RecordIncomplete
  BY <1>16 DEF RecordIncomplete
<1>17. ASSUME NEW j \in Job, PollFindsDone(j) PROVE MainOrder'
  BY <1>17 DEF PollFindsDone
<1>18. ASSUME NEW j \in Job, PollSendsTerm(j) PROVE MainOrder'
  BY <1>18 DEF PollSendsTerm
<1>19. ASSUME NEW j \in Job, PollGivesUp(j) PROVE MainOrder'
  BY <1>19 DEF PollGivesUp
<1>20. ASSUME NEW j \in Job, PostRunAdds(j) PROVE MainOrder'
  BY <1>20 DEF PostRunAdds, AddJob
<1>21. ASSUME NEW r \in {"PASSED", "FAILED"}, PostRun(r) PROVE MainOrder'
  BY <1>21 DEF PostRun
<1>22. CASE MainAddedAll
  BY <1>22 DEF MainAddedAll
<1>23. CASE Wait
  BY <1>23 DEF Wait
<1>24. CASE Stop
  BY <1>24 DEF Stop
<1>25. CASE StopJoins
  BY <1>25 DEF StopJoins
<1>26. CASE ChooseContinue
  BY <1>26 DEF ChooseContinue
<1>27. CASE ChooseStop
  BY <1>27 DEF ChooseStop
<1>28. CASE Pause
  BY <1>28 DEF Pause, SetPaused
<1>29. CASE Resume
  BY <1>29 DEF Resume, SetPaused
<1>30. CASE RunnersVisited
  BY <1>30 DEF RunnersVisited
<1>31. CASE Kill
  BY <1>31 DEF Kill
<1>32. CASE JoinKillers
  BY <1>32 DEF JoinKillers
<1>33. CASE KillReturns
  BY <1>33 DEF KillReturns
<1>34. ASSUME NEW j \in Job, MainAddsJob(j) PROVE MainOrder'
  BY <1>34 DEF MainAddsJob, AddJob
<1>35. ASSUME NEW j \in Job, PauseRunner(j) PROVE MainOrder'
  BY <1>35 DEF PauseRunner
<1>36. ASSUME NEW j \in Job, ResumeRunner(j) PROVE MainOrder'
  BY <1>36 DEF ResumeRunner
<1>37. CASE Interrupt
  BY <1>37 DEF Interrupt
<1>38. ASSUME NEW j \in Job, KillRunner(j) PROVE MainOrder'
  BY <1>38 DEF KillRunner
<1>39. ASSUME NEW j \in Job, ProcessExits(j) PROVE MainOrder'
  BY <1>39 DEF ProcessExits
<1>40. CASE UNCHANGED vars
  BY <1>40 DEF vars
<1> QED
  BY <1>1, <1>2, <1>3, <1>4, <1>5, <1>6, <1>7, <1>8, <1>9, <1>10, <1>11, <1>12, <1>13,
     <1>14, <1>15, <1>16, <1>17, <1>18, <1>19, <1>20, <1>21, <1>22, <1>23, <1>24, <1>25,
     <1>26, <1>27, <1>28, <1>29, <1>30, <1>31, <1>32, <1>33, <1>34, <1>35, <1>36, <1>37,
     <1>38, <1>39, <1>40
     DEF Next, Scheduler, Main, Finished

\* The scheduler is only ended by stop() and kill(), and stop() is called when
\* everything that main or a post_run added is settled.
THEOREM MainOrderInvariant == Spec => []MainOrder
<1>1. Placement /\ MainOrder /\ [Next]_vars => MainOrder'
  BY MainOrderStep
<1> QED
  BY InitMainOrder, PlacementInvariant, <1>1, PTL DEF Spec
-----------------------------------------------------------------------------
(* Layer 3. *)

LEMMA InitGate == Init => Gate
BY DepsAssumption DEF Init, Gate, NotStarted, SuccessIsDone, DependenciesDone, Started,
       Queued, Successful

LEMMA GateStep ==
  ASSUME Placement, Gate, [Next]_vars
  PROVE  Gate'
<1> USE DEF Placement, SchedulerJob, Disjoint, Settled, OpenJobs, Open, InQueues, Queued,
            Gate, NotStarted, SuccessIsDone, DependenciesDone, Started
<1>0. TypeOK
  OBVIOUS
<1> USE DEF TypeOK
<1>1. CASE RunJobs
  <2>1. /\ Unblocked(todo, status) \subseteq todo
        /\ \A j \in Unblocked(todo, status) : \A d \in Deps[j] : Successful(status[d])
    BY DEF Unblocked
  <2>2. launching = {}
    BY <1>1 DEF RunJobs
  <2>3. ASSUME NEW T, MoveTodoToReady({}, T), T \cap launching' = launching',
               launching' \subseteq ready \cup Unblocked(todo, status),
               schedPc' \in {"idle", "poll", "launch"}
        PROVE  Gate'
    <3>1. PICK S : PassSkipping({}, T, S)
      BY <2>3, <1>0, PassMoves
    <3>2. NotStarted'
      BY <1>1, <2>1, <2>3, <3>1 DEF RunJobs, PassSkipping
    <3>3. SuccessIsDone'
      BY <1>1, <2>3, <3>1 DEF RunJobs, PassSkipping
    <3>4. DependenciesDone'
      BY <1>1, <2>1, <2>3, <3>1, DepsAssumption DEF RunJobs, PassSkipping
    <3> QED
      BY <3>2, <3>3, <3>4
  <2>4. CASE schedPc' = "launch"
    <3>1. PICK j \in ready \cup Unblocked(todo, status) :
            MoveTodoToReady({}, {j}) /\ launching' = launching \cup {j}
      BY <1>1, <2>4 DEF RunJobs, FirstOf
    <3>2. launching' = {j}
      BY <2>2, <3>1
    <3> QED
      BY <2>3, <2>4, <3>1, <3>2
  <2>5. CASE schedPc' # "launch"
    <3>1. MoveTodoToReady({}, {}) /\ launching' = {} /\ schedPc' \in {"idle", "poll"}
      BY <1>1, <2>2, <2>5 DEF RunJobs
    <3> QED
      BY <2>3, <3>1
  <2> QED
    BY <2>4, <2>5
<1>2. CASE SchedulerExits
  BY <1>2 DEF SchedulerExits
<1>3. CASE EnterPreRun
  BY <1>3 DEF EnterPreRun
<1>4. CASE StartRunner
  BY <1>4 DEF StartRunner
<1>5. CASE LaunchCancelled
  <2>1. \A j \in Job : Successful(status'[j]) <=> Successful(status[j])
    BY <1>5, MarkSkippedKeeps DEF LaunchCancelled
  <2> QED
    BY <1>5, <2>1, DepsAssumption DEF LaunchCancelled
<1>6. CASE LaunchRaises
  <2>1. \A j \in Job : Successful(status'[j]) <=> Successful(status[j])
    BY <1>6 DEF LaunchRaises, Update, Legal, Successful
  <2> QED
    BY <1>6, <2>1, DepsAssumption DEF LaunchRaises
<1>7. CASE LaunchFailed
  <2>1. PICK K \in SUBSET todo :
          IF QuitsNow
          THEN GracefulExit
          ELSE /\ todo' = todo \ K /\ skipped' = skipped \cup K
               /\ status' = MarkSkipped(status, K) /\ UNCHANGED ready
    BY <1>7 DEF LaunchFailed
  <2>2. \A j \in Job : Successful(status'[j]) <=> Successful(status[j])
    BY <2>1, MarkSkippedKeeps DEF GracefulExit
  <2>3. ready' \subseteq ready /\ todo' \subseteq todo /\ skipped' \subseteq skipped \cup Queued
    BY <2>1 DEF GracefulExit
  <2> QED
    BY <1>7, <2>2, <2>3, DepsAssumption DEF LaunchFailed
<1>8. CASE RegisterRunner
  BY <1>8 DEF RegisterRunner
<1>9. CASE PauseNewRunner
  BY <1>9 DEF PauseNewRunner
<1>10. CASE ReadPaused
  BY <1>10 DEF ReadPaused
<1>11. CASE ResumeNewRunner
  BY <1>11 DEF ResumeNewRunner
<1>12. CASE KillNewRunner
  BY <1>12 DEF KillNewRunner
<1>13. CASE PollFindsNone
  BY <1>13 DEF PollFindsNone
<1>14. CASE BeginFinalizing
  BY <1>14 DEF BeginFinalizing
<1>15. CASE CompleteJob
  <2>1. ASSUME NEW K \in SUBSET todo, MoveTodoToReady(K, {})
        PROVE  Gate'
    <3>1. /\ Unblocked(todo \ K, status) \subseteq todo \ K
          /\ \A j \in Unblocked(todo \ K, status) : \A d \in Deps[j] : Successful(status[d])
      BY DEF Unblocked
    <3>2. PICK S : PassSkipping(K, {}, S)
      BY <2>1, <1>0, PassMoves
    <3>3. NotStarted'
      BY <1>15, <2>1, <3>1, <3>2 DEF CompleteJob, PassSkipping
    <3>4. SuccessIsDone'
      BY <1>15, <3>2 DEF CompleteJob, PassSkipping
    <3>5. DependenciesDone'
      BY <1>15, <2>1, <3>1, <3>2, DepsAssumption DEF CompleteJob, PassSkipping
    <3> QED
      BY <3>3, <3>4, <3>5
  <2>2. ASSUME GracefulExit
        PROVE  Gate'
    <3>1. \A j \in Job : Successful(status'[j]) <=> Successful(status[j])
      BY <2>2, MarkSkippedKeeps DEF GracefulExit
    <3> QED
      BY <1>15, <2>2, <3>1, DepsAssumption DEF CompleteJob, GracefulExit
  <2> QED
    BY <1>15, <2>1, <2>2 DEF CompleteJob
<1>16. CASE RecordIncomplete
  <2>1. cur \in Job /\ MarkSkipped(status, Queued)[cur] = status[cur]
    BY <1>16 DEF RecordIncomplete, MarkSkipped
  <2>2. status' = [MarkSkipped(status, Queued) EXCEPT ![cur] = Update(status[cur], "FAILED")]
    BY <1>16, <2>1 DEF RecordIncomplete
  <2>3. ~Successful(status[cur]) /\ ~Successful(Update(status[cur], "FAILED"))
    BY <1>16 DEF RecordIncomplete, Update, Legal, Successful
  <2>4. \A j \in Job : Successful(MarkSkipped(status, Queued)[j]) <=> Successful(status[j])
    BY MarkSkippedKeeps
  <2>5. \A j \in Job : Successful(status'[j]) <=> Successful(status[j])
    BY <2>1, <2>2, <2>3, <2>4 DEF MarkSkipped
  <2> QED
    BY <1>16, <2>5, DepsAssumption DEF RecordIncomplete
<1>17. ASSUME NEW j \in Job, PollFindsDone(j) PROVE Gate'
  BY <1>17 DEF PollFindsDone
<1>18. ASSUME NEW j \in Job, PollSendsTerm(j) PROVE Gate'
  BY <1>18 DEF PollSendsTerm
<1>19. ASSUME NEW j \in Job, PollGivesUp(j) PROVE Gate'
  BY <1>19 DEF PollGivesUp
<1>20. ASSUME NEW j \in Job, PostRunAdds(j) PROVE Gate'
  BY <1>20 DEF PostRunAdds, AddJob
<1>21. ASSUME NEW r \in {"PASSED", "FAILED"}, PostRun(r) PROVE Gate'
  <2>1. \A j \in Job : j # cur => status'[j] = status[j]
    BY <1>21 DEF PostRun
  <2>2. ~Successful(status[cur])
    BY <1>21 DEF PostRun, Successful
  <2> QED
    BY <1>21, <2>1, <2>2, DepsAssumption DEF PostRun
<1>22. CASE MainAddedAll
  BY <1>22 DEF MainAddedAll
<1>23. CASE Wait
  BY <1>23 DEF Wait
<1>24. CASE Stop
  BY <1>24 DEF Stop
<1>25. CASE StopJoins
  BY <1>25 DEF StopJoins
<1>26. CASE ChooseContinue
  BY <1>26 DEF ChooseContinue
<1>27. CASE ChooseStop
  BY <1>27 DEF ChooseStop
<1>28. CASE Pause
  BY <1>28 DEF Pause, SetPaused
<1>29. CASE Resume
  BY <1>29 DEF Resume, SetPaused
<1>30. CASE RunnersVisited
  BY <1>30 DEF RunnersVisited
<1>31. CASE Kill
  <2>1. \A j \in Job : Successful(status'[j]) <=> Successful(status[j])
    BY <1>31, MarkSkippedKeeps DEF Kill
  <2> QED
    BY <1>31, <2>1, DepsAssumption DEF Kill
<1>32. CASE JoinKillers
  BY <1>32 DEF JoinKillers
<1>33. CASE KillReturns
  BY <1>33 DEF KillReturns
<1>34. ASSUME NEW j \in Job, MainAddsJob(j) PROVE Gate'
  BY <1>34 DEF MainAddsJob, AddJob
<1>35. ASSUME NEW j \in Job, PauseRunner(j) PROVE Gate'
  BY <1>35 DEF PauseRunner
<1>36. ASSUME NEW j \in Job, ResumeRunner(j) PROVE Gate'
  BY <1>36 DEF ResumeRunner
<1>37. CASE Interrupt
  BY <1>37 DEF Interrupt
<1>38. ASSUME NEW j \in Job, KillRunner(j) PROVE Gate'
  BY <1>38 DEF KillRunner
<1>39. ASSUME NEW j \in Job, ProcessExits(j) PROVE Gate'
  BY <1>39 DEF ProcessExits
<1>40. CASE UNCHANGED vars
  BY <1>40 DEF vars
<1> QED
  BY <1>1, <1>2, <1>3, <1>4, <1>5, <1>6, <1>7, <1>8, <1>9, <1>10, <1>11, <1>12, <1>13,
     <1>14, <1>15, <1>16, <1>17, <1>18, <1>19, <1>20, <1>21, <1>22, <1>23, <1>24, <1>25,
     <1>26, <1>27, <1>28, <1>29, <1>30, <1>31, <1>32, <1>33, <1>34, <1>35, <1>36, <1>37,
     <1>38, <1>39, <1>40
     DEF Next, Scheduler, Main, Finished

\* Only jobs whose dependencies are done and successful are ready, launched or
\* have a process.
THEOREM GateInvariant == Spec => []Gate
<1>1. Placement /\ Gate /\ [Next]_vars => Gate'
  BY GateStep
<1> QED
  BY InitGate, PlacementInvariant, <1>1, PTL DEF Spec

\* Whatever the job graph, a job whose process was started has only dependencies
\* that passed or were bypassed, and this stays so.
THEOREM StartedAfterDependencies == Spec => []DependenciesSucceeded
<1>1. Gate => DependenciesSucceeded
  BY DEF Gate, DependenciesDone, DependenciesSucceeded, Started
<1> QED
  BY <1>1, GateInvariant, PTL

\* A skipped job never had a process.
THEOREM SkippedStaysUnstarted == Spec => []SkippedNeverStarted
<1>1. Placement /\ Gate => SkippedNeverStarted
  BY DEF Gate, NotStarted, SkippedNeverStarted, Started
<1> QED
  BY <1>1, PlacementInvariant, GateInvariant, PTL
-----------------------------------------------------------------------------
(* Layer 4. *)

LEMMA InitHooks == Init => LockState /\ OneFinalHook
<1> SUFFICES ASSUME Init PROVE LockState /\ OneFinalHook
  OBVIOUS
<1>1. LockState
  BY DEF Init, LockState, KillersApart, Gone, Locks, LockHolders, NotEnded, Final,
         LockCoversProcess, Alive, Queued, InSlot
<1>2. \A j \in Job : ended[j] \ {"incomplete_shutdown"} = {}
  BY DEF Init
<1> QED
  BY <1>1, <1>2, FS_EmptySet DEF OneFinalHook

LEMMA LockStateStep ==
  ASSUME Placement, MainOrder, Gate, LockState, [Next]_vars
  PROVE  LockState'
<1> USE DEF Placement, SchedulerJob, Disjoint, Settled, InQueues, Queued, InSlot, MainOrder,
            Serving, Gate, NotStarted, Started, LockState, KillersApart, Gone, Locks,
            LockHolders, NotEnded, Final, LockCoversProcess, Alive
<1>0. TypeOK
  OBVIOUS
<1> USE DEF TypeOK
<1>1. CASE RunJobs
  <2>1. Unblocked(todo, status) \subseteq todo
    BY UnblockedInTodo
  <2>2. /\ Queued' \subseteq Queued
        /\ launching' \subseteq Queued
    <3>1. ASSUME NEW T, MoveTodoToReady({}, T)
          PROVE  Queued' \subseteq Queued
      <4>1. PICK S : PassSkipping({}, T, S)
        BY <1>0, <3>1, PassMoves
      <4> QED
        BY <2>1, <4>1 DEF PassSkipping
    <3>2. launching = {}
      BY <1>1 DEF RunJobs
    <3>3. launching' \subseteq ready \cup Unblocked(todo, status)
      <4>1. CASE schedPc' = "launch"
        <5>1. PICK k \in ready \cup Unblocked(todo, status) : launching' = launching \cup {k}
          BY <1>1, <4>1 DEF RunJobs, FirstOf
        <5> QED
          BY <3>2, <5>1
      <4>2. CASE schedPc' # "launch"
        BY <1>1, <3>2, <4>2 DEF RunJobs
      <4> QED
        BY <4>1, <4>2
    <3>4. \E T : MoveTodoToReady({}, T)
      BY <1>1 DEF RunJobs
    <3> QED
      BY <2>1, <3>1, <3>3, <3>4
  <2>3. schedPc' \in {"launch", "idle", "poll"} /\ (schedPc' = "launch" => launching' = {cur'})
    BY <1>1 DEF RunJobs
  <2>4. mainPc' \in {"stop", "join"} => mainPc' = mainPc
    BY <1>1 DEF RunJobs
  <2> QED
    BY <1>1, <2>2, <2>3, <2>4 DEF RunJobs
<1>2. CASE SchedulerExits
  BY <1>2 DEF SchedulerExits
<1>3. CASE EnterPreRun
  BY <1>3 DEF EnterPreRun
<1>4. CASE StartRunner
  BY <1>4 DEF StartRunner
<1>5. CASE LaunchCancelled
  BY <1>5 DEF LaunchCancelled
<1>6. CASE LaunchRaises
  BY <1>6 DEF LaunchRaises
<1>7. CASE LaunchFailed
  <2>1. /\ todo' \subseteq todo /\ ready' \subseteq ready
    BY <1>7 DEF LaunchFailed, GracefulExit
  <2> QED
    BY <1>7, <2>1 DEF LaunchFailed
<1>8. CASE RegisterRunner
  BY <1>8 DEF RegisterRunner
<1>9. CASE PauseNewRunner
  BY <1>9 DEF PauseNewRunner
<1>10. CASE ReadPaused
  BY <1>10 DEF ReadPaused
<1>11. CASE ResumeNewRunner
  BY <1>11 DEF ResumeNewRunner
<1>12. CASE KillNewRunner
  <2>1. \A i \in Job : i # cur => proc'[i] = proc[i] /\ ended'[i] = ended[i]
    BY <1>12 DEF KillNewRunner
  <2>2. \/ proc'[cur] = "exited" /\ owned' = owned \ {cur} /\ ended'[cur] = ended[cur] \cup {"cancel"}
        \/ /\ proc[cur] # "exited" /\ proc'[cur] = "lost"
           /\ owned' = owned /\ ended'[cur] = ended[cur]
    BY <1>12 DEF KillNewRunner
  <2>3. cur \in Job /\ cur \notin launching \cup finalizing \cup Queued \cup (Job \ added)
    BY <1>12 DEF KillNewRunner
  <2>4. KillersApart' /\ Gone'
    BY <1>12, <2>1, <2>2, <2>3 DEF KillNewRunner
  <2>5. Locks'
    <3>1. schedPc' = "preRun" => cur' \in owned' /\ cur' # cur
      BY <1>12, <2>2, <2>3 DEF KillNewRunner
    <3>2. ASSUME NEW i \in Job, i # cur, Alive(i)' PROVE i \in owned'
      BY <2>1, <2>2, <3>2
    <3>3. proc'[cur] # "exited" => cur \in owned'
      BY <1>12, <2>2, <2>3 DEF KillNewRunner, ProcState
    <3> QED
      BY <3>1, <3>2, <3>3
  <2>6. LockHolders'
    BY <1>12, <2>1, <2>2, <2>3 DEF KillNewRunner
  <2>7. NotEnded'
    BY <1>12, <2>1, <2>2, <2>3 DEF KillNewRunner
  <2> QED
    BY <2>4, <2>5, <2>6, <2>7
<1>13. CASE PollFindsNone
  BY <1>13 DEF PollFindsNone
<1>14. CASE BeginFinalizing
  BY <1>14 DEF BeginFinalizing
<1>15. CASE CompleteJob
  <2>1. Queued' \subseteq Queued
    <3>1. ASSUME NEW K \in SUBSET todo, MoveTodoToReady(K, {})
          PROVE  Queued' \subseteq Queued
      <4>1. PICK S : PassSkipping(K, {}, S)
        BY <1>0, <3>1, PassMoves
      <4>2. Unblocked(todo \ K, status) \subseteq todo \ K
        BY UnblockedInTodo
      <4> QED
        BY <4>1, <4>2 DEF PassSkipping
    <3> QED
      BY <1>15, <3>1 DEF CompleteJob, GracefulExit
  <2>2. mainPc' \in {"stop", "join"} => mainPc' = mainPc
    BY <1>15 DEF CompleteJob
  <2> QED
    BY <1>15, <2>1, <2>2 DEF CompleteJob
<1>16. CASE RecordIncomplete
  BY <1>16 DEF RecordIncomplete
<1>17. ASSUME NEW j \in Job, PollFindsDone(j) PROVE LockState'
  BY <1>17 DEF PollFindsDone
<1>18. ASSUME NEW j \in Job, PollSendsTerm(j) PROVE LockState'
  BY <1>18 DEF PollSendsTerm
<1>19. ASSUME NEW j \in Job, PollGivesUp(j) PROVE LockState'
  BY <1>19 DEF PollGivesUp
<1>20. ASSUME NEW j \in Job, PostRunAdds(j) PROVE LockState'
  BY <1>20 DEF PostRunAdds, AddJob
<1>21. ASSUME NEW r \in {"PASSED", "FAILED"}, PostRun(r) PROVE LockState'
  BY <1>21 DEF PostRun
<1>22. CASE MainAddedAll
  BY <1>22 DEF MainAddedAll
<1>23. CASE Wait
  BY <1>23 DEF Wait
<1>24. CASE Stop
  BY <1>24 DEF Stop
<1>25. CASE StopJoins
  BY <1>25 DEF StopJoins
<1>26. CASE ChooseContinue
  BY <1>26 DEF ChooseContinue
<1>27. CASE ChooseStop
  BY <1>27 DEF ChooseStop
<1>28. CASE Pause
  BY <1>28 DEF Pause, SetPaused
<1>29. CASE Resume
  BY <1>29 DEF Resume, SetPaused
<1>30. CASE RunnersVisited
  BY <1>30 DEF RunnersVisited
<1>31. CASE Kill
  BY <1>31 DEF Kill
<1>32. CASE JoinKillers
  BY <1>32 DEF JoinKillers
<1>33. CASE KillReturns
  BY <1>33 DEF KillReturns
<1>34. ASSUME NEW j \in Job, MainAddsJob(j) PROVE LockState'
  BY <1>34 DEF MainAddsJob, AddJob
<1>35. ASSUME NEW j \in Job, PauseRunner(j) PROVE LockState'
  BY <1>35 DEF PauseRunner
<1>36. ASSUME NEW j \in Job, ResumeRunner(j) PROVE LockState'
  BY <1>36 DEF ResumeRunner
<1>37. CASE Interrupt
  BY <1>37 DEF Interrupt
<1>38. ASSUME NEW j \in Job, KillRunner(j) PROVE LockState'
  <2>1. \A i \in Job : i # j => proc'[i] = proc[i] /\ ended'[i] = ended[i]
    BY <1>38 DEF KillRunner
  <2>2. \/ proc'[j] = "exited" /\ owned' = owned \ {j} /\ ended'[j] = ended[j] \cup {"cancel"}
        \/ /\ proc[j] # "exited" /\ proc'[j] = "lost"
           /\ owned' = owned /\ ended'[j] = ended[j]
    BY <1>38 DEF KillRunner
  <2>3. j \in Job /\ j \notin launching \cup finalizing \cup Queued \cup (Job \ added)
    BY <1>38 DEF KillRunner
  <2>4. KillersApart' /\ Gone'
    BY <1>38, <2>1, <2>2, <2>3 DEF KillRunner
  <2>5. Locks'
    <3>1. schedPc' = "preRun" => cur' \in owned' /\ cur' # j
      BY <1>38, <2>2, <2>3 DEF KillRunner
    <3>2. ASSUME NEW i \in Job, i # j, Alive(i)' PROVE i \in owned'
      BY <2>1, <2>2, <3>2
    <3>3. proc'[j] # "exited" => j \in owned'
      BY <1>38, <2>2, <2>3 DEF KillRunner, ProcState
    <3> QED
      BY <3>1, <3>2, <3>3
  <2>6. LockHolders'
    BY <1>38, <2>1, <2>2, <2>3 DEF KillRunner
  <2>7. NotEnded'
    BY <1>38, <2>1, <2>2, <2>3 DEF KillRunner
  <2> QED
    BY <2>4, <2>5, <2>6, <2>7
<1>39. ASSUME NEW j \in Job, ProcessExits(j) PROVE LockState'
  BY <1>39 DEF ProcessExits
<1>40. CASE UNCHANGED vars
  BY <1>40 DEF vars
<1> QED
  BY <1>1, <1>2, <1>3, <1>4, <1>5, <1>6, <1>7, <1>8, <1>9, <1>10, <1>11, <1>12, <1>13,
     <1>14, <1>15, <1>16, <1>17, <1>18, <1>19, <1>20, <1>21, <1>22, <1>23, <1>24, <1>25,
     <1>26, <1>27, <1>28, <1>29, <1>30, <1>31, <1>32, <1>33, <1>34, <1>35, <1>36, <1>37,
     <1>38, <1>39, <1>40
     DEF Next, Scheduler, Main, Finished

\* A final hook is only called for a job that has had none
LEMMA OneFinalHookStep ==
  ASSUME Placement, LockState, OneFinalHook, [Next]_vars
  PROVE  OneFinalHook'
<1>1. ASSUME NEW j \in Job
      PROVE  \/ Final(j)' = Final(j)
             \/ Final(j) = {} /\ \E h : Final(j)' = {h}
  <2> USE DEF Final, Placement, TypeOK, SchedulerJob
  <2>1. CASE UNCHANGED ended
    BY <2>1
  <2>2. ASSUME NEW c \in Job, NEW h \in Hook, Final(c) = {} \/ h = "incomplete_shutdown",
               ended' = [ended EXCEPT ![c] = @ \cup {h}]
        PROVE  \/ Final(j)' = Final(j)
               \/ Final(j) = {} /\ \E x : Final(j)' = {x}
    <3>1. CASE j # c
      BY <2>2, <3>1
    <3>2. CASE j = c /\ h = "incomplete_shutdown"
      BY <2>2, <3>2
    <3>3. CASE j = c /\ h # "incomplete_shutdown"
      <4>1. Final(j)' = {h}
        BY <2>2, <3>3
      <4> QED
        BY <2>2, <3>3, <4>1
    <3> QED
      BY <3>1, <3>2, <3>3
  <2>3. CASE LaunchCancelled \/ LaunchRaises \/ KillNewRunner \/ RecordIncomplete
    <3>1. cur \in Job /\ (RecordIncomplete \/ Final(cur) = {})
      BY <2>3 DEF LaunchCancelled, LaunchRaises, KillNewRunner, RecordIncomplete, LockState,
                  NotEnded, Settled
    <3>2. \/ UNCHANGED ended
          \/ \E h \in Hook : /\ ended' = [ended EXCEPT ![cur] = @ \cup {h}]
                             /\ RecordIncomplete => h = "incomplete_shutdown"
      BY <2>3 DEF LaunchCancelled, LaunchRaises, KillNewRunner, RecordIncomplete, Hook
    <3> QED
      BY <2>1, <2>2, <3>1, <3>2
  <2>4. ASSUME NEW r \in {"PASSED", "FAILED"}, PostRun(r)
        PROVE  \/ Final(j)' = Final(j)
               \/ Final(j) = {} /\ \E h : Final(j)' = {h}
    <3>1. cur \in Job /\ Final(cur) = {} /\ ended' = [ended EXCEPT ![cur] = @ \cup {"post_run"}]
      BY <2>4 DEF PostRun, LockState, NotEnded
    <3> QED
      BY <2>2, <3>1 DEF Hook
  <2>5. ASSUME NEW k \in Job, KillRunner(k)
        PROVE  \/ Final(j)' = Final(j)
               \/ Final(j) = {} /\ \E h : Final(j)' = {h}
    <3>1. Final(k) = {}
      BY <2>5 DEF KillRunner, LockState, NotEnded
    <3>2. UNCHANGED ended \/ ended' = [ended EXCEPT ![k] = @ \cup {"cancel"}]
      BY <2>5 DEF KillRunner
    <3> QED
      BY <2>1, <2>2, <3>1, <3>2 DEF Hook
  <2>6. \/ UNCHANGED ended
        \/ LaunchCancelled \/ LaunchRaises \/ KillNewRunner \/ RecordIncomplete
        \/ \E r \in {"PASSED", "FAILED"} : PostRun(r)
        \/ \E k \in Job : KillRunner(k)
    BY DEF Next, Scheduler, Main, Interrupt, Finished, vars, ProcessExits, RunJobs,
           SchedulerExits, EnterPreRun, StartRunner, LaunchFailed, RegisterRunner,
           PauseNewRunner, ReadPaused, ResumeNewRunner, PollFindsNone, BeginFinalizing,
           CompleteJob, PollFindsDone, PollSendsTerm, PollGivesUp, PostRunAdds, MainAddedAll,
           Wait, Stop, StopJoins, ChooseContinue, ChooseStop, Pause, Resume, SetPaused,
           RunnersVisited, Kill, JoinKillers, KillReturns, MainAddsJob, PauseRunner,
           ResumeRunner
  <2> QED
    BY <2>1, <2>3, <2>4, <2>5, <2>6
<1>2. ASSUME NEW j \in Job PROVE Cardinality(Final(j)') <= 1
  <2>1. CASE Final(j)' = Final(j)
    BY <2>1 DEF OneFinalHook, Final
  <2>2. CASE \E h : Final(j)' = {h}
    <3>1. PICK h : Final(j)' = {h}
      BY <2>2
    <3>2. Cardinality({h}) = 1
      BY FS_Singleton
    <3> QED
      BY <3>1, <3>2
  <2> QED
    BY <1>1, <2>1, <2>2
<1> QED
  BY <1>2 DEF OneFinalHook, Final

LEMMA HooksStep ==
  ASSUME Placement, MainOrder, Gate, Hooks, [Next]_vars
  PROVE  Hooks'
BY LockStateStep, OneFinalHookStep DEF Hooks

\* Locks are held by jobs in flight, and the final hooks exclude each other.
THEOREM HooksInvariant == Spec => []Hooks
<1>1. Init => Hooks
  BY InitHooks DEF Hooks
<1>2. Placement /\ MainOrder /\ Gate /\ Hooks /\ [Next]_vars => Hooks'
  BY HooksStep
<1> QED
  BY <1>1, <1>2, PlacementInvariant, MainOrderInvariant, GateInvariant, PTL DEF Spec

\* A process lives inside the lock of its job, through launches, completions,
\* shutdowns and processes that could not be reaped.
THEOREM ProcessInsideLock == Spec => []LockCoversProcess
<1>1. Hooks => LockCoversProcess
  BY DEF Hooks, LockState, Locks
<1> QED
  BY <1>1, HooksInvariant, PTL

\* post_run, launch_failed and cancel are never called twice, or both, for a job.
THEOREM HooksExcludeEachOther == Spec => []OneFinalHook
<1>1. Hooks => OneFinalHook
  BY DEF Hooks
<1> QED
  BY <1>1, HooksInvariant, PTL

\* When wait() has returned every job is settled, and what is still alive or
\* locked was recorded as an incomplete shutdown.
THEOREM WaitDrains == Spec => []WaitMeansDrained
<1>1. Placement /\ MainOrder /\ Hooks => WaitMeansDrained
  BY DEF Placement, TypeOK, MainOrder, Serving, Hooks, LockState, Locks, LockHolders,
         LockCoversProcess, WaitMeansDrained
<1> QED
  BY <1>1, PlacementInvariant, MainOrderInvariant, HooksInvariant, PTL
-----------------------------------------------------------------------------
(* Layer 5. *)

LEMMA InitLimits == Init => Limits
<1> SUFFICES ASSUME Init PROVE Limits
  OBVIOUS
<1>1. Slots = {} /\ Queued \cup launching = {} /\ {j \in Job : Alive(j)} = {}
  BY DEF Init, Slots, InSlot, Queued, Alive
<1>2. Cardinality({}) = 0
  BY FS_EmptySet
<1> QED
  BY <1>1, <1>2, LimitAssumption DEF Limits, SlotsAreQueues, QuitEmpties, Room

\* No step but a launch takes a slot, and none refills the queues after the
\* graceful exit
LEMMA NoNewSlot ==
  ASSUME Placement, Gate, Hooks, Limits, [Next]_vars,
         RunJobs => schedPc' # "launch"
  PROVE  Slots' \subseteq Slots /\ SlotsAreQueues' /\ QuitEmpties'
<1> USE DEF Placement, SchedulerJob, Disjoint, Settled, InQueues, Queued, InSlot, ProcState,
            Gate,
            NotStarted, Started, Hooks, LockState, KillersApart, Gone, Alive, Limits, Slots,
            SlotsAreQueues, QuitEmpties
<1>0. TypeOK
  OBVIOUS
<1>1. RunJobs => schedPc' # "launch"
  OBVIOUS
<1> USE DEF TypeOK
<1>2. CASE RunJobs
  <2>1. Unblocked(todo, status) \subseteq todo
    BY UnblockedInTodo
  <2>2. ASSUME NEW T, MoveTodoToReady({}, T)
        PROVE  Queued' \subseteq Queued
    <3>1. PICK S : PassSkipping({}, T, S)
      BY <1>0, <2>2, PassMoves
    <3> QED
      BY <2>1, <3>1 DEF PassSkipping
  <2>3. Queued' \subseteq Queued /\ launching' = launching
    BY <1>1, <1>2, <2>2 DEF RunJobs
  <2> QED
    BY <1>2, <2>3 DEF RunJobs
<1>3. CASE SchedulerExits
  BY <1>3 DEF SchedulerExits
<1>4. CASE EnterPreRun
  BY <1>4 DEF EnterPreRun
<1>5. CASE StartRunner
  BY <1>5 DEF StartRunner
<1>6. CASE LaunchCancelled
  BY <1>6 DEF LaunchCancelled
<1>7. CASE LaunchRaises
  BY <1>7 DEF LaunchRaises
<1>8. CASE LaunchFailed
  <2>1. \/ Queued' = {}
        \/ Queued' \subseteq Queued /\ done_grace_exit' = done_grace_exit
    BY <1>8 DEF LaunchFailed, GracefulExit
  <2>2. done_grace_exit => done_grace_exit'
    BY <1>8 DEF LaunchFailed, GracefulExit
  <2> QED
    BY <1>8, <2>1, <2>2 DEF LaunchFailed
<1>9. CASE RegisterRunner
  BY <1>9 DEF RegisterRunner
<1>10. CASE PauseNewRunner
  BY <1>10 DEF PauseNewRunner
<1>11. CASE ReadPaused
  BY <1>11 DEF ReadPaused
<1>12. CASE ResumeNewRunner
  BY <1>12 DEF ResumeNewRunner
<1>13. CASE KillNewRunner
  BY <1>13 DEF KillNewRunner
<1>14. CASE PollFindsNone
  BY <1>14 DEF PollFindsNone
<1>15. CASE BeginFinalizing
  BY <1>15 DEF BeginFinalizing
<1>16. CASE CompleteJob
  <2>1. Unblocked(todo, status) \subseteq todo
    BY UnblockedInTodo
  <2>2. ASSUME NEW K \in SUBSET todo, MoveTodoToReady(K, {})
        PROVE  Queued' \subseteq Queued
    <3>1. PICK S : PassSkipping(K, {}, S)
      BY <1>0, <2>2, PassMoves
    <3>2. Unblocked(todo \ K, status) \subseteq todo \ K
      BY UnblockedInTodo
    <3> QED
      BY <3>1, <3>2 DEF PassSkipping
  <2>3. GracefulExit => Queued' = {}
    BY DEF GracefulExit
  <2>4. Queued' = {} \/ (Queued' \subseteq Queued /\ done_grace_exit' = done_grace_exit)
    BY <1>16, <2>2, <2>3 DEF CompleteJob
  <2>5. done_grace_exit => done_grace_exit'
    BY <1>16 DEF CompleteJob, GracefulExit
  <2> QED
    BY <1>16, <2>4, <2>5 DEF CompleteJob
<1>17. CASE RecordIncomplete
  BY <1>17 DEF RecordIncomplete
<1>18. ASSUME NEW j \in Job, PollFindsDone(j) PROVE Slots' \subseteq Slots /\ SlotsAreQueues' /\ QuitEmpties'
  BY <1>18 DEF PollFindsDone
<1>19. ASSUME NEW j \in Job, PollSendsTerm(j) PROVE Slots' \subseteq Slots /\ SlotsAreQueues' /\ QuitEmpties'
  BY <1>19 DEF PollSendsTerm
<1>20. ASSUME NEW j \in Job, PollGivesUp(j) PROVE Slots' \subseteq Slots /\ SlotsAreQueues' /\ QuitEmpties'
  BY <1>20 DEF PollGivesUp
<1>21. ASSUME NEW j \in Job, PostRunAdds(j) PROVE Slots' \subseteq Slots /\ SlotsAreQueues' /\ QuitEmpties'
  BY <1>21 DEF PostRunAdds, AddJob
<1>22. ASSUME NEW r \in {"PASSED", "FAILED"}, PostRun(r) PROVE Slots' \subseteq Slots /\ SlotsAreQueues' /\ QuitEmpties'
  BY <1>22 DEF PostRun
<1>23. CASE MainAddedAll
  BY <1>23 DEF MainAddedAll
<1>24. CASE Wait
  BY <1>24 DEF Wait
<1>25. CASE Stop
  BY <1>25 DEF Stop
<1>26. CASE StopJoins
  BY <1>26 DEF StopJoins
<1>27. CASE ChooseContinue
  BY <1>27 DEF ChooseContinue
<1>28. CASE ChooseStop
  BY <1>28 DEF ChooseStop
<1>29. CASE Pause
  BY <1>29 DEF Pause, SetPaused
<1>30. CASE Resume
  BY <1>30 DEF Resume, SetPaused
<1>31. CASE RunnersVisited
  BY <1>31 DEF RunnersVisited
<1>32. CASE Kill
  BY <1>32 DEF Kill
<1>33. CASE JoinKillers
  BY <1>33 DEF JoinKillers
<1>34. CASE KillReturns
  BY <1>34 DEF KillReturns
<1>35. ASSUME NEW j \in Job, MainAddsJob(j) PROVE Slots' \subseteq Slots /\ SlotsAreQueues' /\ QuitEmpties'
  BY <1>35 DEF MainAddsJob, AddJob
<1>36. ASSUME NEW j \in Job, PauseRunner(j) PROVE Slots' \subseteq Slots /\ SlotsAreQueues' /\ QuitEmpties'
  BY <1>36 DEF PauseRunner
<1>37. ASSUME NEW j \in Job, ResumeRunner(j) PROVE Slots' \subseteq Slots /\ SlotsAreQueues' /\ QuitEmpties'
  BY <1>37 DEF ResumeRunner
<1>38. CASE Interrupt
  BY <1>38 DEF Interrupt
<1>39. ASSUME NEW j \in Job, KillRunner(j) PROVE Slots' \subseteq Slots /\ SlotsAreQueues' /\ QuitEmpties'
  BY <1>39 DEF KillRunner
<1>40. ASSUME NEW j \in Job, ProcessExits(j) PROVE Slots' \subseteq Slots /\ SlotsAreQueues' /\ QuitEmpties'
  BY <1>40 DEF ProcessExits
<1>41. CASE UNCHANGED vars
  BY <1>41 DEF vars
<1> QED
  BY <1>2, <1>3, <1>4, <1>5, <1>6, <1>7, <1>8, <1>9, <1>10, <1>11, <1>12, <1>13, <1>14,
     <1>15, <1>16, <1>17, <1>18, <1>19, <1>20, <1>21, <1>22, <1>23, <1>24, <1>25, <1>26,
     <1>27, <1>28, <1>29, <1>30, <1>31, <1>32, <1>33, <1>34, <1>35, <1>36, <1>37, <1>38,
     <1>39, <1>40, <1>41
     DEF Next, Scheduler, Main, Finished

\* A launch takes the slot _can_launch_locked has found free
LEMMA LaunchFits ==
  ASSUME Placement, Limits, RunJobs, schedPc' = "launch"
  PROVE  Limits'
<1> USE DEF Placement
<1>1. TypeOK /\ launching = {}
  BY DEF RunJobs, SchedulerJob
<1>2. PICK j \in ready \cup Unblocked(todo, status) :
        /\ CanLaunch(j) /\ MoveTodoToReady({}, {j}) /\ launching' = {j}
  BY <1>1 DEF RunJobs, FirstOf
<1>3. j \in Queued /\ j \in Job
  BY <1>1, UnblockedInTodo DEF Queued, TypeOK
<1>4. ~done_grace_exit /\ run_jobs_thread_active
  BY <1>3 DEF RunJobs, Limits, QuitEmpties
<1>5. Slots = active \cup launching
  BY <1>4 DEF Limits, SlotsAreQueues, Slots, InSlot
<1>6. Slots' = Slots \cup {j}
  BY <1>1, <1>2, <1>5 DEF RunJobs, Slots, InSlot, Alive
<1>7. IsFiniteSet(Slots) /\ Cardinality(Slots) \in Nat
  <2>1. Slots \subseteq Job
    BY <1>1 DEF Slots, InSlot, TypeOK
  <2> QED
    BY <2>1, JobAssumption, FS_Subset, FS_CardinalityType
<1>8. Room'
  <2>1. CASE j \in Exclusive
    <3>1. Slots' = {j}
      BY <1>2, <1>5, <1>6, <2>1 DEF CanLaunch
    <3>2. Cardinality(Slots') = 1
      BY <3>1, FS_Singleton
    <3> QED
      BY <3>1, <3>2, LimitAssumption DEF Room
  <2>2. CASE j \notin Exclusive
    <3>1. Slots \cap Exclusive = {} /\ Cardinality(Slots) < ActiveJobLimit
      BY <1>2, <1>5, <2>2 DEF CanLaunch
    <3>2. Cardinality(Slots') <= Cardinality(Slots) + 1
      BY <1>6, <1>7, FS_AddElement
    <3>3. Cardinality(Slots') \in Nat
      BY <1>6, <1>7, FS_AddElement, FS_CardinalityType
    <3>4. Cardinality(Slots') <= ActiveJobLimit
      BY <1>7, <3>1, <3>2, <3>3, LimitAssumption
    <3> QED
      BY <1>6, <2>2, <3>1, <3>4 DEF Room
  <2> QED
    BY <2>1, <2>2
<1>9. SlotsAreQueues'
  BY <1>1, <1>4, <1>5 DEF RunJobs, SlotsAreQueues, Slots, InSlot, Alive
<1>10. QuitEmpties'
  BY <1>4 DEF RunJobs, QuitEmpties
<1> QED
  BY <1>8, <1>9, <1>10 DEF Limits

LEMMA LimitsStep ==
  ASSUME Placement, Gate, Hooks, Limits, [Next]_vars
  PROVE  Limits'
<1>1. CASE RunJobs /\ schedPc' = "launch"
  BY <1>1, LaunchFits
<1>2. CASE ~(RunJobs /\ schedPc' = "launch")
  <2>1. Slots' \subseteq Slots /\ SlotsAreQueues' /\ QuitEmpties'
    BY <1>2, NoNewSlot
  <2>2. IsFiniteSet(Slots)
    <3>1. Slots \subseteq Job
      BY DEF Slots, InSlot, Placement, TypeOK
    <3> QED
      BY <3>1, JobAssumption, FS_Subset
  <2>3. /\ Cardinality(Slots') <= Cardinality(Slots)
        /\ Cardinality(Slots) \in Nat /\ Cardinality(Slots') \in Nat
    BY <2>1, <2>2, FS_Subset, FS_CardinalityType
  <2>4. Room'
    BY <2>1, <2>3, LimitAssumption DEF Limits, Room
  <2> QED
    BY <2>1, <2>4 DEF Limits
<1> QED
  BY <1>1, <1>2

\* Jobs in flight and processes left over never take more room than there is.
THEOREM LimitsInvariant == Spec => []Limits
<1>1. Placement /\ Gate /\ Hooks /\ Limits /\ [Next]_vars => Limits'
  BY LimitsStep
<1> QED
  BY <1>1, InitLimits, PlacementInvariant, GateInvariant, HooksInvariant, PTL DEF Spec

\* An exclusive job's processes are alone, and never do more jobs than the limit
\* have processes, for any job graph and any limit.
THEOREM ProcessesFit == Spec => []ProcessesExclusive
<1>1. Placement /\ Limits => ProcessesExclusive
  <2> SUFFICES ASSUME Placement, Limits PROVE ProcessesExclusive
    OBVIOUS
  <2> DEFINE A == {j \in Job : Alive(j)}
  <2>1. A \subseteq Slots /\ Slots \subseteq Job
    BY DEF Slots, InSlot, Placement, TypeOK
  <2>2. IsFiniteSet(Slots)
    BY <2>1, JobAssumption, FS_Subset
  <2>3. /\ Cardinality(A) <= Cardinality(Slots)
        /\ Cardinality(A) \in Nat /\ Cardinality(Slots) \in Nat
    BY <2>1, <2>2, FS_Subset, FS_CardinalityType
  <2>4. Cardinality(A) <= ActiveJobLimit
    BY <2>3, LimitAssumption DEF Limits, Room
  <2>5. \A j, k \in Job : Alive(j) /\ Alive(k) /\ j \in Exclusive => j = k
    BY <2>1 DEF Limits, Room
  <2> QED
    BY <2>4, <2>5 DEF ProcessesExclusive
<1> QED
  BY <1>1, PlacementInvariant, LimitsInvariant, PTL

\* After the graceful exit (quit count, or processes that could not be reaped) no
\* process is started any more.
THEOREM QuitIsFinal == Spec => NoStartAfterQuit
<1>1. ASSUME Placement, Gate, Limits, [Next]_vars, done_grace_exit,
             NEW j \in Job, proc[j] = "none"
      PROVE  proc'[j] = "none"
  <2> USE DEF Placement, TypeOK
  <2>1. CASE StartRunner
    BY <1>1, <2>1 DEF StartRunner, SchedulerJob, Limits, QuitEmpties
  <2>2. CASE PauseNewRunner \/ ResumeNewRunner \/ KillNewRunner
    BY <1>1, <2>2 DEF PauseNewRunner, ResumeNewRunner, KillNewRunner, Gate, NotStarted, Started
  <2>3. ASSUME NEW k \in Job,
               \/ PollSendsTerm(k) \/ PollGivesUp(k) \/ PauseRunner(k) \/ ResumeRunner(k)
               \/ KillRunner(k) \/ ProcessExits(k)
        PROVE  proc'[j] = "none"
    BY <1>1, <2>3 DEF PollSendsTerm, PollGivesUp, PauseRunner, ResumeRunner, KillRunner,
                      ProcessExits, Gate, NotStarted, Started
  <2>4. \/ UNCHANGED proc
        \/ StartRunner \/ PauseNewRunner \/ ResumeNewRunner \/ KillNewRunner
        \/ \E k \in Job :
             \/ PollSendsTerm(k) \/ PollGivesUp(k) \/ PauseRunner(k) \/ ResumeRunner(k)
             \/ KillRunner(k) \/ ProcessExits(k)
    BY <1>1
       DEF Next, Scheduler, Main, Interrupt, Finished, vars, RunJobs, SchedulerExits,
           EnterPreRun, LaunchCancelled, LaunchRaises, LaunchFailed, RegisterRunner,
           ReadPaused, PollFindsNone, BeginFinalizing, CompleteJob, RecordIncomplete,
           PollFindsDone, PostRunAdds, PostRun, MainAddedAll, Wait, Stop, StopJoins,
           ChooseContinue, ChooseStop, Pause, Resume, SetPaused, RunnersVisited, Kill,
           JoinKillers, KillReturns, MainAddsJob
  <2> QED
    BY <1>1, <2>1, <2>2, <2>3, <2>4
<1>2. Placement /\ Gate /\ Limits /\ [Next]_vars =>
        [done_grace_exit => \A j \in Job : proc[j] = "none" => proc'[j] = "none"]_vars
  BY <1>1
<1> QED
  BY <1>2, PlacementInvariant, GateInvariant, LimitsInvariant, PTL DEF Spec, NoStartAfterQuit
-----------------------------------------------------------------------------
(* Layer 6. *)

LEMMA ShutdownCoversStep ==
  ASSUME Placement, MainOrder, Gate, LockState, ShutdownCovers, KillReport, [Next]_vars
  PROVE  ShutdownCovers'
<1>0. ShutdownCovers /\ TypeOK /\ SchedulerJob
  BY DEF Placement
<1> USE DEF TypeOK, SchedulerJob, Alive, ShutdownCovers, InSlot
<1>1. CASE RunJobs
  BY <1>0, <1>1 DEF RunJobs
<1>2. CASE SchedulerExits
  BY <1>0, <1>2 DEF SchedulerExits
<1>3. CASE EnterPreRun
  BY <1>0, <1>3 DEF EnterPreRun
<1>4. CASE StartRunner
  BY <1>0, <1>4 DEF StartRunner
<1>5. CASE LaunchCancelled
  <2>1. proc[cur] = "none"
    BY <1>0, <1>5 DEF LaunchCancelled, Gate, NotStarted, Started
  <2> QED
    BY <1>0, <1>5, <2>1 DEF LaunchCancelled
<1>6. CASE LaunchRaises
  BY <1>0, <1>6 DEF LaunchRaises
<1>7. CASE LaunchFailed
  <2>1. proc[cur] = "none" /\ cur \notin owned
    BY <1>0, <1>7 DEF LaunchFailed, Gate, NotStarted, Started, LockState, LockHolders
  <2> QED
    BY <1>0, <1>7, <2>1 DEF LaunchFailed
<1>8. CASE RegisterRunner
  BY <1>0, <1>8 DEF RegisterRunner
<1>9. CASE PauseNewRunner
  BY <1>0, <1>9 DEF PauseNewRunner
<1>10. CASE ReadPaused
  BY <1>0, <1>10 DEF ReadPaused
<1>11. CASE ResumeNewRunner
  BY <1>0, <1>11 DEF ResumeNewRunner
<1>12. CASE KillNewRunner
  BY <1>0, <1>12 DEF KillNewRunner
<1>13. CASE PollFindsNone
  BY <1>0, <1>13 DEF PollFindsNone
<1>14. CASE BeginFinalizing
  BY <1>0, <1>14 DEF BeginFinalizing
<1>15. CASE CompleteJob
  <2>1. proc[cur] = "exited" /\ cur \notin owned
    BY <1>0, <1>15 DEF CompleteJob, LockState, LockHolders, Gone
  <2> QED
    BY <1>0, <1>15, <2>1 DEF CompleteJob
<1>16. CASE RecordIncomplete
  BY <1>0, <1>16 DEF RecordIncomplete
<1>17. ASSUME NEW j \in Job, PollFindsDone(j) PROVE ShutdownCovers'
  BY <1>0, <1>17 DEF PollFindsDone
<1>18. ASSUME NEW j \in Job, PollSendsTerm(j) PROVE ShutdownCovers'
  BY <1>0, <1>18 DEF PollSendsTerm
<1>19. ASSUME NEW j \in Job, PollGivesUp(j) PROVE ShutdownCovers'
  BY <1>0, <1>19 DEF PollGivesUp
<1>20. ASSUME NEW j \in Job, PostRunAdds(j) PROVE ShutdownCovers'
  BY <1>0, <1>20 DEF PostRunAdds, AddJob
<1>21. ASSUME NEW r \in {"PASSED", "FAILED"}, PostRun(r) PROVE ShutdownCovers'
  BY <1>0, <1>21 DEF PostRun
<1>22. CASE MainAddedAll
  BY <1>0, <1>22 DEF MainAddedAll
<1>23. CASE Wait
  BY <1>0, <1>23 DEF Wait
<1>24. CASE Stop
  BY <1>0, <1>24 DEF Stop, MainOrder
<1>25. CASE StopJoins
  BY <1>0, <1>25 DEF StopJoins
<1>26. CASE ChooseContinue
  BY <1>0, <1>26 DEF ChooseContinue
<1>27. CASE ChooseStop
  BY <1>0, <1>27 DEF ChooseStop
<1>28. CASE Pause
  BY <1>0, <1>28 DEF Pause, SetPaused
<1>29. CASE Resume
  BY <1>0, <1>29 DEF Resume, SetPaused
<1>30. CASE RunnersVisited
  BY <1>0, <1>30 DEF RunnersVisited
<1>31. CASE Kill
  <2>1. ~run_jobs_thread_active => active = {}
    BY <1>0, <1>31 DEF Kill, MainOrder, InSlot
  <2>2. ASSUME NEW j \in active PROVE j \in killers'
    BY <1>31, <2>2 DEF Kill
  <2>3. killers = {}
    BY <1>0, <1>31 DEF Kill, KillReport
  <2> QED
    BY <1>0, <1>31, <2>1, <2>2, <2>3 DEF Kill
<1>32. CASE JoinKillers
  BY <1>0, <1>32 DEF JoinKillers
<1>33. CASE KillReturns
  BY <1>0, <1>33 DEF KillReturns
<1>34. ASSUME NEW j \in Job, MainAddsJob(j) PROVE ShutdownCovers'
  BY <1>0, <1>34 DEF MainAddsJob, AddJob
<1>35. ASSUME NEW j \in Job, PauseRunner(j) PROVE ShutdownCovers'
  BY <1>0, <1>35 DEF PauseRunner
<1>36. ASSUME NEW j \in Job, ResumeRunner(j) PROVE ShutdownCovers'
  BY <1>0, <1>36 DEF ResumeRunner
<1>37. CASE Interrupt
  BY <1>0, <1>37 DEF Interrupt
<1>38. ASSUME NEW j \in Job, KillRunner(j) PROVE ShutdownCovers'
  BY <1>0, <1>38 DEF KillRunner
<1>39. ASSUME NEW j \in Job, ProcessExits(j) PROVE ShutdownCovers'
  BY <1>0, <1>39 DEF ProcessExits
<1>40. CASE UNCHANGED vars
  BY <1>0, <1>40 DEF vars
<1> QED
    BY <1>1, <1>2, <1>3, <1>4, <1>5, <1>6, <1>7, <1>8, <1>9, <1>10, <1>11, <1>12, <1>13,
     <1>14, <1>15, <1>16, <1>17, <1>18, <1>19, <1>20, <1>21, <1>22, <1>23, <1>24, <1>25,
     <1>26, <1>27, <1>28, <1>29, <1>30, <1>31, <1>32, <1>33, <1>34, <1>35, <1>36, <1>37,
     <1>38, <1>39, <1>40
     DEF Next, Scheduler, Main, Finished

LEMMA InterruptedHooksStep ==
  ASSUME Placement, MainOrder, LockState, InterruptedHooks, [Next]_vars
  PROVE  InterruptedHooks'
<1> USE DEF Placement, TypeOK, SchedulerJob, Disjoint, LockState, NotEnded, Final, 
            InterruptedHooks
<1>1. CASE RunJobs
  BY <1>1 DEF RunJobs
<1>2. CASE SchedulerExits
  BY <1>2 DEF SchedulerExits
<1>3. CASE EnterPreRun
  BY <1>3 DEF EnterPreRun
<1>4. CASE StartRunner
  BY <1>4 DEF StartRunner
<1>5. CASE LaunchCancelled
  BY <1>5 DEF LaunchCancelled
<1>6. CASE LaunchRaises
  BY <1>6 DEF LaunchRaises
<1>7. CASE LaunchFailed
  BY <1>7 DEF LaunchFailed, GracefulExit
<1>8. CASE RegisterRunner
  BY <1>8 DEF RegisterRunner
<1>9. CASE PauseNewRunner
  BY <1>9 DEF PauseNewRunner
<1>10. CASE ReadPaused
  BY <1>10 DEF ReadPaused
<1>11. CASE ResumeNewRunner
  BY <1>11 DEF ResumeNewRunner
<1>12. CASE KillNewRunner
  BY <1>12 DEF KillNewRunner
<1>13. CASE PollFindsNone
  BY <1>13 DEF PollFindsNone
<1>14. CASE BeginFinalizing
  BY <1>14 DEF BeginFinalizing
<1>15. CASE CompleteJob
  BY <1>15 DEF CompleteJob, GracefulExit
<1>16. CASE RecordIncomplete
  BY <1>16 DEF RecordIncomplete
<1>17. ASSUME NEW j \in Job, PollFindsDone(j) PROVE InterruptedHooks'
  BY <1>17 DEF PollFindsDone
<1>18. ASSUME NEW j \in Job, PollSendsTerm(j) PROVE InterruptedHooks'
  BY <1>18 DEF PollSendsTerm
<1>19. ASSUME NEW j \in Job, PollGivesUp(j) PROVE InterruptedHooks'
  BY <1>19 DEF PollGivesUp
<1>20. ASSUME NEW j \in Job, PostRunAdds(j) PROVE InterruptedHooks'
  BY <1>20 DEF PostRunAdds, AddJob
<1>21. ASSUME NEW r \in {"PASSED", "FAILED"}, PostRun(r) PROVE InterruptedHooks'
  BY <1>21 DEF PostRun
<1>22. CASE MainAddedAll
  BY <1>22 DEF MainAddedAll
<1>23. CASE Wait
  BY <1>23 DEF Wait
<1>24. CASE Stop
  BY <1>24 DEF Stop
<1>25. CASE StopJoins
  BY <1>25 DEF StopJoins
<1>26. CASE ChooseContinue
  BY <1>26 DEF ChooseContinue
<1>27. CASE ChooseStop
  BY <1>27 DEF ChooseStop
<1>28. CASE Pause
  BY <1>28 DEF Pause, SetPaused
<1>29. CASE Resume
  BY <1>29 DEF Resume, SetPaused
<1>30. CASE RunnersVisited
  BY <1>30 DEF RunnersVisited
<1>31. CASE Kill
  <2>1. ASSUME NEW j \in active PROVE ended[j] \subseteq {"cancel"}
    <3>1. run_jobs_thread_active
      BY <1>31, <2>1 DEF Kill, MainOrder, InSlot
    <3> QED
      BY <2>1, <3>1
  <2> QED
    BY <1>31, <2>1 DEF Kill
<1>32. CASE JoinKillers
  BY <1>32 DEF JoinKillers
<1>33. CASE KillReturns
  BY <1>33 DEF KillReturns
<1>34. ASSUME NEW j \in Job, MainAddsJob(j) PROVE InterruptedHooks'
  BY <1>34 DEF MainAddsJob, AddJob
<1>35. ASSUME NEW j \in Job, PauseRunner(j) PROVE InterruptedHooks'
  BY <1>35 DEF PauseRunner
<1>36. ASSUME NEW j \in Job, ResumeRunner(j) PROVE InterruptedHooks'
  BY <1>36 DEF ResumeRunner
<1>37. CASE Interrupt
  BY <1>37 DEF Interrupt
<1>38. ASSUME NEW j \in Job, KillRunner(j) PROVE InterruptedHooks'
  BY <1>38 DEF KillRunner
<1>39. ASSUME NEW j \in Job, ProcessExits(j) PROVE InterruptedHooks'
  BY <1>39 DEF ProcessExits
<1>40. CASE UNCHANGED vars
  BY <1>40 DEF vars
<1> QED
    BY <1>1, <1>2, <1>3, <1>4, <1>5, <1>6, <1>7, <1>8, <1>9, <1>10, <1>11, <1>12, <1>13,
     <1>14, <1>15, <1>16, <1>17, <1>18, <1>19, <1>20, <1>21, <1>22, <1>23, <1>24, <1>25,
     <1>26, <1>27, <1>28, <1>29, <1>30, <1>31, <1>32, <1>33, <1>34, <1>35, <1>36, <1>37,
     <1>38, <1>39, <1>40
     DEF Next, Scheduler, Main, Finished

LEMMA KillReportStep ==
  ASSUME TypeOK, MainOrder, LockState, KillReport, [Next]_vars
  PROVE  KillReport'
<1> USE DEF TypeOK, MainOrder, Serving, LockState, KillersApart, KillReport
<1>1. CASE RunJobs
  BY <1>1 DEF RunJobs
<1>2. CASE SchedulerExits
  BY <1>2 DEF SchedulerExits
<1>3. CASE EnterPreRun
  BY <1>3 DEF EnterPreRun
<1>4. CASE StartRunner
  BY <1>4 DEF StartRunner
<1>5. CASE LaunchCancelled
  BY <1>5 DEF LaunchCancelled
<1>6. CASE LaunchRaises
  BY <1>6 DEF LaunchRaises
<1>7. CASE LaunchFailed
  BY <1>7 DEF LaunchFailed, GracefulExit
<1>8. CASE RegisterRunner
  BY <1>8 DEF RegisterRunner
<1>9. CASE PauseNewRunner
  BY <1>9 DEF PauseNewRunner
<1>10. CASE ReadPaused
  BY <1>10 DEF ReadPaused
<1>11. CASE ResumeNewRunner
  BY <1>11 DEF ResumeNewRunner
<1>12. CASE KillNewRunner
  BY <1>12 DEF KillNewRunner
<1>13. CASE PollFindsNone
  BY <1>13 DEF PollFindsNone
<1>14. CASE BeginFinalizing
  BY <1>14 DEF BeginFinalizing
<1>15. CASE CompleteJob
  BY <1>15 DEF CompleteJob, GracefulExit
<1>16. CASE RecordIncomplete
  BY <1>16 DEF RecordIncomplete
<1>17. ASSUME NEW j \in Job, PollFindsDone(j) PROVE KillReport'
  BY <1>17 DEF PollFindsDone
<1>18. ASSUME NEW j \in Job, PollSendsTerm(j) PROVE KillReport'
  BY <1>18 DEF PollSendsTerm
<1>19. ASSUME NEW j \in Job, PollGivesUp(j) PROVE KillReport'
  BY <1>19 DEF PollGivesUp
<1>20. ASSUME NEW j \in Job, PostRunAdds(j) PROVE KillReport'
  BY <1>20 DEF PostRunAdds, AddJob
<1>21. ASSUME NEW r \in {"PASSED", "FAILED"}, PostRun(r) PROVE KillReport'
  BY <1>21 DEF PostRun
<1>22. CASE MainAddedAll
  BY <1>22 DEF MainAddedAll
<1>23. CASE Wait
  BY <1>23 DEF Wait
<1>24. CASE Stop
  BY <1>24 DEF Stop
<1>25. CASE StopJoins
  BY <1>25 DEF StopJoins
<1>26. CASE ChooseContinue
  BY <1>26 DEF ChooseContinue
<1>27. CASE ChooseStop
  BY <1>27 DEF ChooseStop
<1>28. CASE Pause
  BY <1>28 DEF Pause, SetPaused
<1>29. CASE Resume
  BY <1>29 DEF Resume, SetPaused
<1>30. CASE RunnersVisited
  BY <1>30 DEF RunnersVisited
<1>31. CASE Kill
  BY <1>31 DEF Kill
<1>32. CASE JoinKillers
  BY <1>32 DEF JoinKillers
<1>33. CASE KillReturns
  BY <1>33 DEF KillReturns
<1>34. ASSUME NEW j \in Job, MainAddsJob(j) PROVE KillReport'
  BY <1>34 DEF MainAddsJob, AddJob
<1>35. ASSUME NEW j \in Job, PauseRunner(j) PROVE KillReport'
  BY <1>35 DEF PauseRunner
<1>36. ASSUME NEW j \in Job, ResumeRunner(j) PROVE KillReport'
  BY <1>36 DEF ResumeRunner
<1>37. CASE Interrupt
  BY <1>37 DEF Interrupt
<1>38. ASSUME NEW j \in Job, KillRunner(j) PROVE KillReport'
  BY <1>38 DEF KillRunner
<1>39. ASSUME NEW j \in Job, ProcessExits(j) PROVE KillReport'
  BY <1>39 DEF ProcessExits
<1>40. CASE UNCHANGED vars
  BY <1>40 DEF vars
<1> QED
    BY <1>1, <1>2, <1>3, <1>4, <1>5, <1>6, <1>7, <1>8, <1>9, <1>10, <1>11, <1>12, <1>13,
     <1>14, <1>15, <1>16, <1>17, <1>18, <1>19, <1>20, <1>21, <1>22, <1>23, <1>24, <1>25,
     <1>26, <1>27, <1>28, <1>29, <1>30, <1>31, <1>32, <1>33, <1>34, <1>35, <1>36, <1>37,
     <1>38, <1>39, <1>40
     DEF Next, Scheduler, Main, Finished

LEMMA ShutdownStep ==
  ASSUME Placement, MainOrder, Gate, LockState, Shutdown, [Next]_vars
  PROVE  Shutdown'
BY ShutdownCoversStep, InterruptedHooksStep, KillReportStep DEF Shutdown, Placement

LEMMA InitShutdown == Init => Shutdown
BY DEF Init, Shutdown, ShutdownCovers, InterruptedHooks, KillReport, Alive

\* What kill threads, the scheduler and the reports of a shutdown tell each other.
THEOREM ShutdownInvariant == Spec => []Shutdown
<1>1. Placement /\ MainOrder /\ Gate /\ Hooks /\ Shutdown /\ [Next]_vars => Shutdown'
  BY ShutdownStep DEF Hooks
<1> QED
  BY <1>1, InitShutdown, PlacementInvariant, MainOrderInvariant, GateInvariant, HooksInvariant,
     PTL DEF Spec

\* When kill() reports a complete shutdown nothing is alive or locked, whatever
\* the scheduler was doing when it came, and what counts as interrupted has no
\* result of its own.
THEOREM CompleteShutdown == Spec => []CompleteKillIsQuiet
<1>1. Placement /\ Shutdown => CompleteKillIsQuiet
  <2> SUFFICES ASSUME Placement, Shutdown, killResult = "complete"
               PROVE  /\ \A j \in Job : ~Alive(j)
                      /\ owned = {} /\ schedPc = "exited"
                      /\ \A j \in InterruptedJobs : ended[j] \subseteq {"cancel"}
    BY DEF CompleteKillIsQuiet
  <2>1. /\ schedPc = "exited" /\ killers = {} /\ killOk
        /\ ~shutdown_incomplete /\ ~run_jobs_thread_active
    BY DEF Shutdown, KillReport
  <2>2. launching = {} /\ finalizing = {}
    BY <2>1 DEF Placement, SchedulerJob
  <2>3. \A j \in Job : ~Alive(j) /\ j \notin owned
    BY <2>1, <2>2 DEF Shutdown, ShutdownCovers
  <2>4. owned = {}
    BY <2>3 DEF Placement, TypeOK
  <2>5. \A j \in InterruptedJobs : ended[j] \subseteq {"cancel"}
    BY <2>2 DEF Shutdown, InterruptedHooks, InterruptedJobs
  <2> QED
    BY <2>1, <2>3, <2>4, <2>5
<1> QED
  BY <1>1, PlacementInvariant, ShutdownInvariant, PTL

-----------------------------------------------------------------------------
(* Layer 7. *)

\* A step keeps the status of j, or skips j
KeptOrSkipped(j) == status'[j] = status[j] \/ (status'[j] = "SKIPPED" /\ j \in skipped')

LEMMA PhasesStep ==
  ASSUME Placement, Gate, LockState, Phases, [Next]_vars
  PROVE  Phases'
<1>0. TypeOK
  BY DEF Placement
<1> USE DEF Placement, TypeOK, SchedulerJob, Disjoint, OpenJobs, Open, Queued, InSlot, Gate,
            NotStarted,
            Started, SuccessIsDone, LockState, KillersApart, Gone, NotEnded, Final, Phases,
            Outcomes, Cancelled,
            SuccessEnded, GivenUp, StartedPlaced, Successful, KeptOrSkipped
<1>1. CASE RunJobs
  <2> DEFINE launchable == IF paused THEN {}
                           ELSE {j \in ready \cup Unblocked(todo, status) : CanLaunch(j)}
  <2>1. ASSUME NEW T, MoveTodoToReady({}, T)
        PROVE  /\ \A j \in Job : KeptOrSkipped(j)
               /\ skipped \subseteq skipped'
    <3>1. PICK S : PassSkipping({}, T, S)
      BY <1>0, <2>1, PassMoves
    <3> QED
      BY <3>1 DEF PassSkipping
  <2>2. /\ \A j \in Job : KeptOrSkipped(j)
        /\ skipped \subseteq skipped'
    BY <1>1, <2>1 DEF RunJobs
  <2>3. FirstOf(launchable) \subseteq Queued
    BY UnblockedInTodo DEF FirstOf
  <2>4. \/ schedPc' = "launch" /\ cur' \in FirstOf(launchable) /\ launching' = launching \cup {cur'}
        \/ UNCHANGED <<launching, cur>>
    <3> HIDE DEF launchable
    <3>1. \/ \E j \in FirstOf(launchable) :
               launching' = launching \cup {j} /\ cur' = j /\ schedPc' = "launch"
          \/ UNCHANGED <<launching, cur>>
      BY <1>1, Zenon DEF RunJobs, launchable
    <3> QED
      BY <3>1
  <2> HIDE DEF launchable
  <2>5. /\ cur' = cur \/ (schedPc' = "launch" /\ cur' \in Queued)
        /\ launching' \subseteq launching \cup Queued
    BY <2>3, <2>4
  <2>6. Outcomes' /\ SuccessEnded'
    BY <1>1, <2>2, <2>5 DEF RunJobs
  <2>7. Cancelled'
    BY <1>1, <2>2, <2>5 DEF RunJobs
  <2> QED
    BY <1>1, <2>6, <2>7 DEF RunJobs
<1>2. CASE SchedulerExits
  BY <1>2 DEF SchedulerExits
<1>3. CASE EnterPreRun
  BY <1>3 DEF EnterPreRun
<1>4. CASE StartRunner
  BY <1>4 DEF StartRunner
<1>5. CASE LaunchCancelled
  <2>1. \A j \in Job : KeptOrSkipped(j)
    BY <1>5, MarkSkippedKeeps DEF LaunchCancelled
  <2>2. Outcomes'
    BY <1>5, <2>1 DEF LaunchCancelled
  <2>3. Cancelled'
    BY <1>5, <2>1 DEF LaunchCancelled
  <2>4. SuccessEnded'
    <3>1. ~Successful(status'[cur])
      BY <1>5, <2>1 DEF LaunchCancelled
    <3>2. \A j \in Job : Successful(status'[j]) => Successful(status[j]) /\ j # cur
      BY <2>1, <3>1
    <3>3. \A j \in Job : j # cur => ended'[j] = ended[j] /\ proc'[j] = proc[j] /\ killers' = killers
      BY <1>5 DEF LaunchCancelled
    <3> QED
      BY <3>2, <3>3
  <2>5. GivenUp'
    BY <1>5, <2>1 DEF LaunchCancelled
  <2>6. StartedPlaced'
    BY <1>5, <2>1 DEF LaunchCancelled
  <2> QED
    BY <2>2, <2>3, <2>4, <2>5, <2>6
<1>6. CASE LaunchRaises
  <2>1. status'[cur] = "FAILED" /\ \A j \in Job \ {cur} : status'[j] = status[j]
    BY <1>6 DEF LaunchRaises, Update, Legal
  <2> QED
    BY <1>6, <2>1 DEF LaunchRaises
<1>7. CASE LaunchFailed
  <2>1. /\ \A j \in Job : KeptOrSkipped(j)
        /\ skipped \subseteq skipped'
    BY <1>7, MarkSkippedKeeps DEF LaunchFailed, GracefulExit
  <2> QED
    BY <1>7, <2>1 DEF LaunchFailed
<1>8. CASE RegisterRunner
  BY <1>8 DEF RegisterRunner
<1>9. CASE PauseNewRunner
  BY <1>9 DEF PauseNewRunner
<1>10. CASE ReadPaused
  BY <1>10 DEF ReadPaused
<1>11. CASE ResumeNewRunner
  BY <1>11 DEF ResumeNewRunner
<1>12. CASE KillNewRunner
  BY <1>12 DEF KillNewRunner
<1>13. CASE PollFindsNone
  BY <1>13 DEF PollFindsNone
<1>14. CASE BeginFinalizing
  BY <1>14 DEF BeginFinalizing
<1>15. CASE CompleteJob
  <2>1. ASSUME NEW K \in SUBSET todo, MoveTodoToReady(K, {})
        PROVE  /\ \A j \in Job : KeptOrSkipped(j)
               /\ skipped \subseteq skipped'
    <3>1. PICK S : PassSkipping(K, {}, S)
      BY <1>0, <2>1, PassMoves
    <3> QED
      BY <3>1 DEF PassSkipping
  <2>2. ASSUME GracefulExit
        PROVE  /\ \A j \in Job : KeptOrSkipped(j)
               /\ skipped \subseteq skipped'
    BY <2>2, MarkSkippedKeeps DEF GracefulExit
  <2>3. /\ \A j \in Job : KeptOrSkipped(j)
        /\ skipped \subseteq skipped'
    BY <1>15, <2>1, <2>2 DEF CompleteJob
  <2> QED
    BY <1>15, <2>3 DEF CompleteJob
<1>16. CASE RecordIncomplete
  <2>1. /\ \A j \in Job \ {cur} : KeptOrSkipped(j)
        /\ status'[cur] = "FAILED"
    <3>1. cur \in Job /\ status[cur] \in Status /\ cur \notin todo \cup ready
      BY <1>16 DEF RecordIncomplete
    <3>2. MarkSkipped(status, todo \cup ready)[cur] = status[cur]
      BY <3>1, MarkSkippedKeeps
    <3>3. MarkSkipped(status, todo \cup ready) \in [Job -> Status]
      BY MarkSkippedType
    <3>4. \A j \in Job \ {cur} : status'[j] = MarkSkipped(status, todo \cup ready)[j]
      BY <1>16, <3>3 DEF RecordIncomplete
    <3>5. status'[cur] = Update(status[cur], "FAILED")
      BY <1>16, <3>1, <3>2, <3>3 DEF RecordIncomplete
    <3>6. \A j \in Job \ {cur} : KeptOrSkipped(j)
      BY <1>16, <3>4, MarkSkippedKeeps DEF RecordIncomplete
    <3>7. Open(cur)
      BY <1>16 DEF RecordIncomplete
    <3> QED
      BY <3>5, <3>6, <3>7 DEF Update, Legal
  <2>2. Outcomes'
    <3>1. skipped \subseteq skipped' /\ done' = done \cup {cur} /\ schedPc = "incomplete"
      BY <1>16 DEF RecordIncomplete
    <3> QED
      BY <2>1, <3>1
  <2>3. Cancelled'
    BY <1>16, <2>1 DEF RecordIncomplete
  <2>4. SuccessEnded'
    <3>1. \A j \in Job : Successful(status'[j]) => Successful(status[j]) /\ j # cur
      BY <2>1
    <3>2. \A j \in Job : j # cur => ended'[j] = ended[j] /\ proc'[j] = proc[j] /\ killers' = killers
      BY <1>16 DEF RecordIncomplete
    <3> QED
      BY <3>1, <3>2
  <2>5. GivenUp'
    BY <1>16, <2>1 DEF RecordIncomplete
  <2>6. StartedPlaced'
    BY <1>16, <2>1 DEF RecordIncomplete
  <2> QED
    BY <2>2, <2>3, <2>4, <2>5, <2>6
<1>17. ASSUME NEW j \in Job, PollFindsDone(j) PROVE Phases'
  BY <1>17 DEF PollFindsDone
<1>18. ASSUME NEW j \in Job, PollSendsTerm(j) PROVE Phases'
  BY <1>18 DEF PollSendsTerm
<1>19. ASSUME NEW j \in Job, PollGivesUp(j) PROVE Phases'
  BY <1>19 DEF PollGivesUp
<1>20. ASSUME NEW j \in Job, PostRunAdds(j) PROVE Phases'
  BY <1>20 DEF PostRunAdds, AddJob
<1>21. ASSUME NEW r \in {"PASSED", "FAILED"}, PostRun(r) PROVE Phases'
  <2>1. /\ \A j \in Job \ {cur} : status'[j] = status[j]
        /\ status'[cur] \in {"FAILED", "PASSED", "BYPASSED"}
    BY <1>21 DEF PostRun, Update, Legal
  <2> QED
    BY <1>21, <2>1 DEF PostRun
<1>22. CASE MainAddedAll
  BY <1>22 DEF MainAddedAll
<1>23. CASE Wait
  BY <1>23 DEF Wait
<1>24. CASE Stop
  BY <1>24 DEF Stop
<1>25. CASE StopJoins
  BY <1>25 DEF StopJoins
<1>26. CASE ChooseContinue
  BY <1>26 DEF ChooseContinue
<1>27. CASE ChooseStop
  BY <1>27 DEF ChooseStop
<1>28. CASE Pause
  BY <1>28 DEF Pause, SetPaused
<1>29. CASE Resume
  BY <1>29 DEF Resume, SetPaused
<1>30. CASE RunnersVisited
  BY <1>30 DEF RunnersVisited
<1>31. CASE Kill
  <2>1. \A j \in Job : KeptOrSkipped(j)
    BY <1>31, MarkSkippedKeeps DEF Kill
  <2>2. Outcomes'
    BY <1>31, <2>1 DEF Kill
  <2>3. Cancelled'
    BY <1>31, <2>1 DEF Kill
  <2>4. SuccessEnded'
    BY <1>31, <2>1 DEF Kill
  <2>5. GivenUp'
    BY <1>31, <2>1 DEF Kill
  <2>6. StartedPlaced'
    BY <1>31, <2>1 DEF Kill
  <2> QED
    BY <2>2, <2>3, <2>4, <2>5, <2>6
<1>32. CASE JoinKillers
  BY <1>32 DEF JoinKillers
<1>33. CASE KillReturns
  BY <1>33 DEF KillReturns
<1>34. ASSUME NEW j \in Job, MainAddsJob(j) PROVE Phases'
  BY <1>34 DEF MainAddsJob, AddJob
<1>35. ASSUME NEW j \in Job, PauseRunner(j) PROVE Phases'
  BY <1>35 DEF PauseRunner
<1>36. ASSUME NEW j \in Job, ResumeRunner(j) PROVE Phases'
  BY <1>36 DEF ResumeRunner
<1>37. CASE Interrupt
  BY <1>37 DEF Interrupt
<1>38. ASSUME NEW j \in Job, KillRunner(j) PROVE Phases'
  BY <1>38 DEF KillRunner
<1>39. ASSUME NEW j \in Job, ProcessExits(j) PROVE Phases'
  BY <1>39 DEF ProcessExits
<1>40. CASE UNCHANGED vars
  BY <1>40 DEF vars
<1> QED
    BY <1>1, <1>2, <1>3, <1>4, <1>5, <1>6, <1>7, <1>8, <1>9, <1>10, <1>11, <1>12, <1>13,
     <1>14, <1>15, <1>16, <1>17, <1>18, <1>19, <1>20, <1>21, <1>22, <1>23, <1>24, <1>25,
     <1>26, <1>27, <1>28, <1>29, <1>30, <1>31, <1>32, <1>33, <1>34, <1>35, <1>36, <1>37,
     <1>38, <1>39, <1>40
     DEF Next, Scheduler, Main, Finished

LEMMA InitPhases == Init => Phases
BY DEF Init, Phases, Outcomes, Cancelled, SuccessEnded, GivenUp, StartedPlaced, Started,
       Successful

\* What the phase of a job depends on goes with its queue, its processes and its
\* hooks.
THEOREM PhasesInvariant == Spec => []Phases
<1>1. Placement /\ Gate /\ Hooks /\ Phases /\ [Next]_vars => Phases'
  BY PhasesStep DEF Hooks
<1> QED
  BY <1>1, InitPhases, PlacementInvariant, GateInvariant, HooksInvariant, PTL DEF Spec
-----------------------------------------------------------------------------
(* The refinement of JobLifecycle. *)

Halted == done_grace_exit \/ ~run_jobs_thread_active

\* A step after which nothing a phase depends on is different for j
SameView(j) ==
  /\ j \in skipped' <=> j \in skipped
  /\ "cancel" \in ended'[j] <=> "cancel" \in ended[j]
  /\ proc'[j] = "lost" <=> proc[j] = "lost"
  /\ proc'[j] = "none" <=> proc[j] = "none"
  /\ j \in done' <=> j \in done
  /\ j \in done => (Successful(status'[j]) <=> Successful(status[j]))

LEMMA SameViewSamePhase ==
  ASSUME NEW j, SameView(j)
  PROVE  PhaseOf(j)' = PhaseOf(j)
BY DEF SameView, PhaseOf

\* The quit count stays reached and the user's stop stays in force
LEMMA HaltedStays ==
  ASSUME [Next]_vars, Halted
  PROVE  Halted'
BY DEF Halted, Next, Scheduler, Main, Interrupt, Finished, vars, ProcessExits, RunJobs,
       SchedulerExits, EnterPreRun, StartRunner, LaunchCancelled, LaunchRaises, LaunchFailed,
       GracefulExit, RegisterRunner, PauseNewRunner, ReadPaused, ResumeNewRunner,
       KillNewRunner, PollFindsNone, BeginFinalizing, CompleteJob, RecordIncomplete,
       PollFindsDone, PollSendsTerm, PollGivesUp, PostRunAdds, PostRun, MainAddedAll, Wait,
       Stop, StopJoins, ChooseContinue, ChooseStop, Pause, Resume, SetPaused, RunnersVisited,
       Kill, JoinKillers, KillReturns, MainAddsJob, PauseRunner, ResumeRunner, KillRunner

LEMMA SkipMapped ==
  ASSUME NEW S \in SUBSET Job,
         \A j \in S : PhaseOf(j) = "pending" /\ PhaseOf(j)' = "skipped",
         \A j \in Job \ S : PhaseOf(j)' = PhaseOf(j),
         Halted => Halted',
         Halted' \/ \A j \in S : \E d \in Deps[j] : PhaseOf(d)' \in {"failed", "skipped", "lost"}
  PROVE  Lifecycle!Next
<1>1. \A j \in Job : Deps[j] \subseteq Job
  BY DepsAssumption
<1>2. Lifecycle!Excused(S)
  BY <1>1 DEF Lifecycle!Excused, Halted
<1>3. Lifecycle!Skip(S)
  BY <1>2 DEF Lifecycle!Skip, Halted
<1> QED
  BY <1>3 DEF Lifecycle!Next

LEMMA EndMapped ==
  ASSUME NEW j \in Job, NEW r \in {"passed", "failed", "lost"}, NEW S \in SUBSET Job,
         PhaseOf(j) = "running" \/ (PhaseOf(j) = "pending" /\ r = "failed"),
         j \notin S, PhaseOf(j)' = r,
         \A k \in S : PhaseOf(k) = "pending" /\ PhaseOf(k)' = "skipped",
         \A k \in Job \ (S \cup {j}) : PhaseOf(k)' = PhaseOf(k),
         Halted => Halted',
         Halted' \/ \A k \in S : \E d \in Deps[k] : PhaseOf(d)' \in {"failed", "skipped", "lost"}
  PROVE  Lifecycle!Next
<1>1. \A k \in Job : Deps[k] \subseteq Job
  BY DepsAssumption
<1>2. Lifecycle!Excused(S)
  BY <1>1 DEF Lifecycle!Excused, Halted
<1>3. Lifecycle!End(j, r, S)
  BY <1>2 DEF Lifecycle!End, Halted
<1> QED
  BY <1>3 DEF Lifecycle!Next

LEMMA StopMapped ==
  ASSUME NEW j \in Job, PhaseOf(j) \in {"running", "lost"}, Halted, Halted',
         PhaseOf(j)' = "stopped", \A k \in Job \ {j} : PhaseOf(k)' = PhaseOf(k)
  PROVE  Lifecycle!Next
<1>1. Lifecycle!Stop(j)
  BY DEF Lifecycle!Stop, Halted
<1> QED
  BY <1>1 DEF Lifecycle!Next

LEMMA PendingPhase ==
  ASSUME Placement, Gate, LockState, Phases, NEW j \in Job,
         j \in Queued \cup (Job \ added) \/ (j \in launching /\ schedPc # "register")
  PROVE  PhaseOf(j) = "pending"
<1>1. j \notin skipped \cup done /\ proc[j] = "none"
  BY DEF Placement, Disjoint, Settled, InQueues, Queued, SchedulerJob, Gate, NotStarted, Started
<1>2. "cancel" \notin ended[j]
  <2>1. CASE j \in Queued \cup (Job \ added)
    BY <2>1 DEF LockState, NotEnded, Final
  <2>2. CASE j \in launching
    BY <1>1, <2>2 DEF Phases, Cancelled
  <2> QED
    BY <2>1, <2>2
<1> QED
  BY <1>1, <1>2 DEF PhaseOf

\* A job in flight runs, whether its processes have ended or not
LEMMA RunningPhase ==
  ASSUME Placement, Phases, NEW j \in Job, Started(j), proc[j] # "lost",
         "cancel" \notin ended[j],
         j \in InSlot \cup finalizing \/ (schedPc = "killNew" /\ j = cur)
  PROVE  PhaseOf(j) = "running"
BY DEF Placement, SchedulerJob, Disjoint, InSlot, Started, PhaseOf

LEMMA PassedPhase ==
  ASSUME Placement, Phases, NEW j \in Job, Successful(status[j]), j \in done
  PROVE  PhaseOf(j) = "passed"
BY DEF Placement, Disjoint, Phases, SuccessEnded, PhaseOf

\* After the step, what failed or is skipped has a phase that excuses the jobs
\* below it, unless the regression was stopped
LEMMA ExcusingPhase ==
  ASSUME Placement', Phases', NEW d \in Job, status'[d] \in {"FAILED", "SKIPPED"},
         schedPc' \notin {"complete", "launchFailed"}, ~Halted'
  PROVE  PhaseOf(d)' \in {"failed", "skipped", "lost"}
<1>1. d \in skipped' \/ (d \in done' /\ ~Successful(status'[d]))
  BY DEF Phases, Outcomes, Successful
<1>2. d \notin skipped' => "cancel" \notin ended'[d]
  BY DEF Phases, Cancelled, Halted
<1> QED
  BY <1>1, <1>2 DEF PhaseOf

LEMMA SkippedPhase ==
  ASSUME NEW j, j \in skipped' PROVE PhaseOf(j)' = "skipped"
BY DEF PhaseOf

\* JobLifecycle counts with its own instance of FiniteSets
LEMMA SameCardinality == \A S : Lifecycle!Cardinality(S) = Cardinality(S)
BY SMT DEF Lifecycle!Cardinality, Cardinality

LEMMA StartMapped ==
  ASSUME Placement, Gate, LockState, Limits, Phases, StartRunner, NEW c, c = cur
  PROVE  Lifecycle!Next
<1>1. /\ c \in Job /\ launching = {c} /\ finalizing = {} /\ c \notin done \cup skipped
      /\ schedPc = "preRun"
  BY DEF StartRunner, Placement, TypeOK, SchedulerJob, Disjoint
<1>2. PhaseOf(c) = "pending" /\ "cancel" \notin ended[c]
  BY <1>1, PendingPhase DEF LockState, NotEnded, Final
<1>3. PhaseOf(c)' = "running"
  BY <1>1, <1>2 DEF StartRunner, PhaseOf, Placement, TypeOK
<1>4. \A j \in Job \ {c} : PhaseOf(j)' = PhaseOf(j)
  <2>1. \A j \in Job \ {c} : SameView(j)
    BY DEF StartRunner, SameView, Placement, TypeOK
  <2> QED
    BY <2>1, SameViewSamePhase
<1>5. \A d \in Deps[c] : d \in Job /\ PhaseOf(d) = "passed"
  BY <1>1, PassedPhase, DepsAssumption DEF Gate, DependenciesDone
<1>6. \A j \in Job : PhaseOf(j) \in {"running", "lost"} => j \in Slots \ {c}
  <2> SUFFICES ASSUME NEW j \in Job, PhaseOf(j) \in {"running", "lost"}, j # c
               PROVE  j \in Slots
    BY <1>2
  <2>1. Started(j) /\ j \notin skipped /\ "cancel" \notin ended[j]
    BY DEF PhaseOf, Started
  <2>2. CASE proc[j] = "lost"
    BY <2>2 DEF Slots, Alive
  <2>3. CASE proc[j] # "lost"
    <3>1. j \notin done
      BY <2>1, <2>3 DEF PhaseOf
    <3> QED
      BY <1>1, <2>1, <2>3, <3>1 DEF Phases, StartedPlaced, Slots
  <2> QED
    BY <2>2, <2>3
<1>7. Lifecycle!Fits(c)
  <2> DEFINE O == {j \in Job : PhaseOf(j) \in {"running", "lost"}}
  <2>1. O = Lifecycle!Occupying
    BY DEF Lifecycle!Occupying
  <2>2. c \in Slots
    BY <1>1 DEF Slots, InSlot
  <2>3. O \subseteq Slots \ {c}
    BY <1>6
  <2>4. CASE c \in Exclusive
    <3>1. O = {}
      BY <1>1, <2>2, <2>3, <2>4 DEF Limits, Room
    <3> QED
      BY <2>1, <2>4, <3>1 DEF Lifecycle!Fits
  <2>5. CASE c \notin Exclusive
    <3>1. O \cap Exclusive = {}
      BY <2>2, <2>3 DEF Limits, Room
    <3>2. IsFiniteSet(Slots)
      <4>1. Slots \subseteq Job
        BY DEF Slots, InSlot, Placement, TypeOK
      <4> QED
        BY <4>1, JobAssumption, FS_Subset
    <3>3. /\ IsFiniteSet(Slots \ {c})
          /\ Cardinality(Slots \ {c}) = Cardinality(Slots) - 1
      BY <2>2, <3>2, FS_RemoveElement
    <3>4. /\ Cardinality(O) <= Cardinality(Slots \ {c})
          /\ Cardinality(O) \in Nat /\ Cardinality(Slots \ {c}) \in Nat
          /\ Cardinality(Slots) \in Nat
      BY <2>3, <3>2, <3>3, FS_Subset, FS_CardinalityType
    <3>5. Cardinality(O) < ActiveJobLimit
      <4> HIDE DEF O
      <4> QED
        BY <3>3, <3>4, LimitAssumption DEF Limits, Room
    <3> HIDE DEF O
    <3> QED
      BY <2>1, <2>5, <3>1, <3>5, SameCardinality DEF Lifecycle!Fits
  <2> QED
    BY <2>4, <2>5
<1>8. Halted' <=> Halted
  BY DEF StartRunner, Halted
<1>9. Lifecycle!Start(c)
  <2> DEFINE phase == [j \in Job |-> PhaseOf(j)]
  <2>1. phase[c] = "pending" /\ \A d \in Deps[c] : phase[d] = "passed"
    BY <1>1, <1>2, <1>5
  <2>2. phase' = [phase EXCEPT ![c] = "running"]
    BY <1>1, <1>3, <1>4
  <2>3. (done_grace_exit \/ ~run_jobs_thread_active)' = (done_grace_exit \/ ~run_jobs_thread_active)
    BY DEF StartRunner
  <2> QED
    BY <1>7, <2>1, <2>2, <2>3, Zenon DEF Lifecycle!Start
<1> QED
  BY <1>1, <1>9 DEF Lifecycle!Next

LEMMA QuietMapped ==
  ASSUME \A j \in Job : PhaseOf(j)' = PhaseOf(j), Halted => Halted'
  PROVE  Lifecycle!Next
<1>1. {} \in SUBSET Job /\ Job \ {} = Job
  OBVIOUS
<1> QED
  BY <1>1, SkipMapped

\* The jobs a pass skips, after the jobs K were skipped, are excused
LEMMA PassExcuses ==
  ASSUME Placement, Placement', Phases', NEW K, NEW T, NEW S, PassSkipping(K, T, S),
         schedPc' \notin {"complete", "launchFailed"}
  PROVE  Halted' \/ \A j \in S : \E d \in Deps[j] : PhaseOf(d)' \in {"failed", "skipped", "lost"}
<1> SUFFICES ASSUME ~Halted', NEW j \in S
             PROVE  \E d \in Deps[j] : PhaseOf(d)' \in {"failed", "skipped", "lost"}
  OBVIOUS
<1>1. PICK d \in Deps[j] : d \in K \cup S \/ status[d] \in {"FAILED", "SKIPPED"}
  BY DEF PassSkipping
<1>2. d \in Job
  BY DepsAssumption DEF PassSkipping, Placement, TypeOK
<1>3. CASE d \in K \cup S
  <2>1. d \in skipped'
    BY <1>3 DEF PassSkipping
  <2> QED
    BY <2>1, SkippedPhase
<1>4. CASE status[d] \in {"FAILED", "SKIPPED"}
  <2>1. status'[d] \in {"FAILED", "SKIPPED"}
    BY <1>2, <1>4 DEF PassSkipping
  <2> QED
    BY <1>2, <2>1, ExcusingPhase
<1> QED
  BY <1>1, <1>3, <1>4

LEMMA RunJobsMapped ==
  ASSUME Placement, Gate, LockState, Phases, Placement', Phases', RunJobs, Halted => Halted'
  PROVE  Lifecycle!Next
<1>1. PICK T : MoveTodoToReady({}, T)
  BY DEF RunJobs
<1>2. PICK S : PassSkipping({}, T, S)
  BY <1>1, PassMoves DEF Placement
<1>3. S \subseteq todo /\ S \subseteq Job
  BY <1>2 DEF PassSkipping, Placement, TypeOK
<1>4. \A j \in S : PhaseOf(j) = "pending" /\ PhaseOf(j)' = "skipped"
  <2>1. \A j \in S : j \in skipped'
    BY <1>2 DEF PassSkipping
  <2> QED
    BY <1>3, <2>1, PendingPhase, SkippedPhase DEF Queued
<1>5. \A j \in Job \ S : PhaseOf(j)' = PhaseOf(j)
  <2>1. \A j \in Job \ S : SameView(j)
    BY <1>2 DEF PassSkipping, RunJobs, SameView
  <2> QED
    BY <2>1, SameViewSamePhase
<1>6. schedPc' \notin {"complete", "launchFailed"}
  BY DEF RunJobs
<1>7. Halted' \/ \A j \in S : \E d \in Deps[j] : PhaseOf(d)' \in {"failed", "skipped", "lost"}
  BY <1>2, <1>6, PassExcuses
<1> QED
  BY <1>3, <1>4, <1>5, <1>7, SkipMapped

LEMMA LaunchCancelledMapped ==
  ASSUME Placement, Gate, LockState, Phases, LaunchCancelled, Halted => Halted', NEW c, c = cur
  PROVE  Lifecycle!Next
<1>1. c \in Job /\ c \in launching /\ schedPc # "register"
  BY DEF LaunchCancelled, Placement, TypeOK, SchedulerJob
<1>2. PhaseOf(c) = "pending" /\ PhaseOf(c)' = "skipped"
  <2>1. c \in skipped'
    BY DEF LaunchCancelled
  <2> QED
    BY <1>1, <2>1, PendingPhase, SkippedPhase
<1>3. \A j \in Job \ {c} : PhaseOf(j)' = PhaseOf(j)
  <2>1. \A j \in Job \ {c} : SameView(j)
    BY MarkSkippedKeeps DEF LaunchCancelled, SameView, Placement, TypeOK
  <2> QED
    BY <2>1, SameViewSamePhase
<1>4. Halted
  BY DEF LaunchCancelled, Phases, Cancelled, Halted
<1> QED
  BY <1>1, <1>2, <1>3, <1>4, SkipMapped

LEMMA AddJobMapped ==
  ASSUME Placement, Gate, LockState, Phases, Halted => Halted', NEW j \in Job \ added, AddJob(j),
         UNCHANGED <<status, done, proc, ended, done_grace_exit, run_jobs_thread_active>>
  PROVE  Lifecycle!Next
<1>1. \A k \in Job \ {j} : PhaseOf(k)' = PhaseOf(k)
  <2>1. \A k \in Job \ {j} : SameView(k)
    BY DEF AddJob, SameView
  <2> QED
    BY <2>1, SameViewSamePhase
<1>2. CASE Halted
  <2>1. PhaseOf(j) = "pending" /\ PhaseOf(j)' = "skipped"
    <3>1. j \in skipped'
      BY <1>2 DEF AddJob, Halted
    <3> QED
      BY <3>1, PendingPhase, SkippedPhase
  <2> QED
    BY <1>1, <1>2, <2>1, SkipMapped
<1>3. CASE ~Halted
  <2>1. PhaseOf(j)' = PhaseOf(j)
    <3>1. SameView(j)
      BY <1>3 DEF AddJob, SameView, Halted
    <3> QED
      BY <3>1, SameViewSamePhase
  <2> QED
    BY <1>1, <2>1, QuietMapped
<1> QED
  BY <1>2, <1>3

LEMMA KillMapped ==
  ASSUME Placement, Gate, LockState, Phases, Kill
  PROVE  Lifecycle!Next
<1>1. Queued \subseteq Job
  BY DEF Queued, Placement, TypeOK
<1>2. \A j \in Queued : PhaseOf(j) = "pending" /\ PhaseOf(j)' = "skipped"
  <2>1. \A j \in Queued : j \in skipped'
    BY DEF Kill, Queued
  <2> QED
    BY <1>1, <2>1, PendingPhase, SkippedPhase
<1>3. \A j \in Job \ Queued : PhaseOf(j)' = PhaseOf(j)
  <2>1. \A j \in Job \ Queued : SameView(j)
    BY MarkSkippedKeeps DEF Kill, Queued, SameView, Placement, TypeOK
  <2> QED
    BY <2>1, SameViewSamePhase
<1>4. Halted'
  BY DEF Kill, Halted
<1> QED
  BY <1>1, <1>2, <1>3, <1>4, SkipMapped

LEMMA LaunchFailedMapped ==
  ASSUME Placement, Gate, LockState, Phases, Placement', Phases', LaunchFailed, Halted => Halted',
         NEW c, c = cur
  PROVE  Lifecycle!Next
<1>1. c \in Job /\ launching = {c} /\ schedPc = "launchFailed" /\ c \notin todo \cup ready \cup skipped
  BY DEF LaunchFailed, Placement, TypeOK, SchedulerJob, Disjoint
<1>2. PhaseOf(c) = "pending" /\ "cancel" \notin ended[c] /\ proc[c] = "none" /\ ~Successful(status[c])
  BY <1>1, PendingPhase DEF Phases, Cancelled, SuccessEnded, Gate, NotStarted, Started
<1>3. PICK S \in SUBSET (todo \cup ready) :
        /\ skipped' = skipped \cup S /\ status' = MarkSkipped(status, S)
        /\ Halted' \/ \A k \in S : Deps[k] \cap ({c} \cup S) # {}
  <2>1. PICK K \in SUBSET todo :
             /\ FailureSkips(K)
             /\ IF QuitsNow
                THEN GracefulExit
                ELSE skipped' = skipped \cup K /\ status' = MarkSkipped(status, K)
    BY DEF LaunchFailed
  <2>2. CASE QuitsNow
    BY <2>1, <2>2 DEF GracefulExit, Halted
  <2>3. CASE ~QuitsNow
    BY <2>1, <2>3 DEF FailureSkips, SkippedBelow
  <2> QED
    BY <2>2, <2>3
<1>4. S \subseteq Job /\ c \notin S
  BY <1>1 DEF Placement, TypeOK
<1>5. PhaseOf(c)' = "failed"
  <2>1. ~Successful(status'[c]) /\ proc' = proc /\ ended' = ended /\ c \in done' /\ c \notin skipped'
    BY <1>1, <1>2, <1>3, <1>4, MarkSkippedKeeps DEF LaunchFailed, Placement, TypeOK
  <2> QED
    BY <1>2, <2>1 DEF PhaseOf
<1>6. \A k \in S : PhaseOf(k) = "pending" /\ PhaseOf(k)' = "skipped"
  <2>1. \A k \in S : k \in skipped' /\ k \in Queued
    BY <1>3 DEF Queued
  <2> QED
    BY <1>4, <2>1, PendingPhase, SkippedPhase
<1>7. \A k \in Job \ (S \cup {c}) : PhaseOf(k)' = PhaseOf(k)
  <2>1. \A k \in Job \ (S \cup {c}) : SameView(k)
    BY <1>3, MarkSkippedKeeps DEF LaunchFailed, SameView, Placement, TypeOK
  <2> QED
    BY <2>1, SameViewSamePhase
<1>8. Halted' \/ \A k \in S : \E d \in Deps[k] : PhaseOf(d)' \in {"failed", "skipped", "lost"}
  <2>1. \A d \in {c} \cup S : PhaseOf(d)' \in {"failed", "skipped"}
    BY <1>5, <1>6
  <2> QED
    BY <1>3, <2>1
<1> QED
  BY <1>1, <1>2, <1>4, <1>5, <1>6, <1>7, <1>8, EndMapped

LEMMA CompleteJobMapped ==
  ASSUME Placement, Gate, LockState, Phases, Placement', Phases', CompleteJob, Halted => Halted',
         NEW c, c = cur
  PROVE  Lifecycle!Next
<1> DEFINE Outcome(S) ==
             /\ S \subseteq Queued /\ skipped' = skipped \cup S
             /\ \A j \in Job : Successful(status'[j]) <=> Successful(status[j])
           Excuse(S) ==
             Halted' \/ \A k \in S : \E d \in Deps[k] : PhaseOf(d)' \in {"failed", "skipped", "lost"}
<1>1. /\ c \in Job /\ finalizing = {c} /\ schedPc = "complete"
      /\ c \notin todo \cup ready \cup skipped \cup done
  BY DEF CompleteJob, Placement, TypeOK, SchedulerJob, Disjoint
<1>2. proc[c] = "exited" /\ "cancel" \notin ended[c] /\ PhaseOf(c) = "running"
  <2>1. proc[c] = "exited" /\ "cancel" \notin ended[c]
    BY <1>1 DEF LockState, Gone, Phases, Cancelled
  <2> QED
    BY <1>1, <2>1, RunningPhase DEF Started
<1>3. schedPc' = "top" /\ UNCHANGED <<proc, ended>> /\ done' = done \cup {c}
  BY DEF CompleteJob
<1>4. ASSUME Successful(status[c]) PROVE \E S : Outcome(S) /\ Excuse(S)
  <2>1. MoveTodoToReady({}, {})
    BY <1>4 DEF CompleteJob
  <2>2. PICK S : PassSkipping({}, {}, S)
    BY <2>1, PassMoves DEF Placement
  <2>3. Excuse(S)
    BY <1>3, <2>2, PassExcuses
  <2>4. Outcome(S)
    BY <2>2 DEF PassSkipping, Queued
  <2> QED
    BY <2>3, <2>4
<1>5. ASSUME ~Successful(status[c]) PROVE \E S : Outcome(S) /\ Excuse(S)
  <2>1. PICK K \in SUBSET todo :
             /\ FailureSkips(K)
             /\ IF QuitsNow THEN GracefulExit ELSE MoveTodoToReady(K, {})
    BY <1>5 DEF CompleteJob
  <2>2. CASE QuitsNow
    <3>1. Outcome(Queued)
      BY <2>1, <2>2, MarkSkippedKeeps DEF GracefulExit, Queued, Placement, TypeOK
    <3>2. Halted'
      BY <2>1, <2>2 DEF GracefulExit, Halted
    <3> QED
      BY <3>1, <3>2
  <2>3. CASE ~QuitsNow
    <3>1. PICK S : PassSkipping(K, {}, S)
      BY <2>1, <2>3, PassMoves DEF Placement
    <3>2. Outcome(K \cup S)
      BY <3>1 DEF PassSkipping, Queued
    <3>3. Excuse(S)
      BY <1>3, <3>1, PassExcuses
    <3>4. \A d \in K : PhaseOf(d)' = "skipped"
      <4>1. \A d \in K : d \in skipped'
        BY <3>1 DEF PassSkipping
      <4> QED
        BY <4>1, SkippedPhase
    <3>5. Halted' \/ PhaseOf(c)' \in {"failed", "lost"}
      <4>1. ~Successful(status'[c]) /\ c \notin skipped' /\ c \in done'
        BY <1>1, <1>3, <1>5, <3>2 DEF Queued
      <4> QED
        BY <1>2, <1>3, <4>1 DEF PhaseOf
    <3>6. \A k \in K : Deps[k] \cap ({c} \cup K) # {}
      BY <2>1 DEF FailureSkips, SkippedBelow
    <3>7. Excuse(K)
      BY <3>4, <3>5, <3>6
    <3>8. Excuse(K \cup S)
      BY <3>3, <3>7
    <3> HIDE DEF Outcome, Excuse
    <3> QED
      BY <3>2, <3>8
  <2> QED
    BY <2>2, <2>3
<1>6. PICK S : Outcome(S) /\ Excuse(S)
  BY <1>4, <1>5
<1>7. S \subseteq Job /\ c \notin S
  BY <1>1, <1>6 DEF Queued, Placement, TypeOK
<1>8. PICK r \in {"passed", "failed"} : PhaseOf(c)' = r
  <2>1. proc'[c] # "lost" /\ "cancel" \notin ended'[c] /\ c \in done' /\ c \notin skipped'
    BY <1>1, <1>2, <1>3, <1>6, <1>7
  <2> QED
    BY <2>1 DEF PhaseOf
<1>9. \A k \in S : PhaseOf(k) = "pending" /\ PhaseOf(k)' = "skipped"
  <2>1. \A k \in S : k \in skipped'
    BY <1>6
  <2> QED
    BY <1>6, <1>7, <2>1, PendingPhase, SkippedPhase
<1>10. \A k \in Job \ (S \cup {c}) : PhaseOf(k)' = PhaseOf(k)
  <2>1. \A k \in Job \ (S \cup {c}) : SameView(k)
    BY <1>3, <1>6 DEF SameView
  <2> QED
    BY <2>1, SameViewSamePhase
<1> HIDE DEF Outcome
<1> QED
  BY <1>1, <1>2, <1>6, <1>7, <1>8, <1>9, <1>10, EndMapped

LEMMA RecordIncompleteMapped ==
  ASSUME Placement, Gate, LockState, Phases, RecordIncomplete, NEW c, c = cur
  PROVE  Lifecycle!Next
<1>1. /\ c \in Job /\ c \in active /\ schedPc = "incomplete"
      /\ c \notin todo \cup ready \cup skipped \cup done
  BY DEF RecordIncomplete, Placement, TypeOK, SchedulerJob, Disjoint
<1>2. Queued \subseteq Job /\ c \notin Queued
  BY <1>1 DEF Queued, Placement, TypeOK
<1>3. PhaseOf(c)' = PhaseOf(c)
  <2>1. "cancel" \in ended'[c] <=> "cancel" \in ended[c]
    BY <1>1 DEF RecordIncomplete, Placement, TypeOK
  <2>2. c \notin skipped' /\ proc' = proc
    BY <1>1 DEF RecordIncomplete
  <2>3. proc[c] = "lost" \/ "cancel" \in ended[c]
    BY <1>1 DEF Phases, GivenUp
  <2> QED
    BY <1>1, <2>1, <2>2, <2>3 DEF PhaseOf
<1>4. \A j \in Queued : PhaseOf(j) = "pending" /\ PhaseOf(j)' = "skipped"
  <2>1. \A j \in Queued : j \in skipped'
    BY DEF RecordIncomplete, Queued
  <2> QED
    BY <1>2, <2>1, PendingPhase, SkippedPhase
<1>5. \A j \in Job \ (Queued \cup {c}) : PhaseOf(j)' = PhaseOf(j)
  <2>1. MarkSkipped(status, todo \cup ready) \in [Job -> Status]
    BY MarkSkippedType DEF Placement, TypeOK
  <2>2. \A j \in Job \ {c} : status'[j] = MarkSkipped(status, todo \cup ready)[j]
    BY <2>1 DEF RecordIncomplete
  <2>3. \A j \in Job \ {c} : Successful(status'[j]) <=> Successful(status[j])
    BY <2>2, MarkSkippedKeeps DEF Placement, TypeOK
  <2>4. \A j \in Job \ (Queued \cup {c}) : SameView(j)
    BY <2>3 DEF RecordIncomplete, Queued, SameView, Placement, TypeOK
  <2> QED
    BY <2>4, SameViewSamePhase
<1>6. Halted'
  BY DEF RecordIncomplete, Halted
<1>7. \A j \in Job \ Queued : PhaseOf(j)' = PhaseOf(j)
  BY <1>3, <1>5
<1> QED
  BY <1>2, <1>4, <1>6, <1>7, SkipMapped

LEMMA LossMapped ==
  ASSUME NEW j \in Job, PhaseOf(j) = "running", PhaseOf(j)' = "lost",
         \A k \in Job \ {j} : PhaseOf(k)' = PhaseOf(k), Halted => Halted'
  PROVE  Lifecycle!Next
<1>1. {} \in SUBSET Job /\ Job \ ({} \cup {j}) = Job \ {j} /\ "lost" \in {"passed", "failed", "lost"}
  OBVIOUS
<1> QED
  BY <1>1, EndMapped

LEMMA KillNewRunnerMapped ==
  ASSUME Placement, Gate, LockState, Phases, KillNewRunner, NEW c, c = cur
  PROVE  Lifecycle!Next
<1>1. /\ c \in Job /\ Started(c) /\ schedPc = "killNew" /\ ~run_jobs_thread_active
      /\ c \notin done \cup skipped /\ Final(c) = {}
  BY DEF KillNewRunner, Placement, TypeOK, SchedulerJob, Settled, Gate, NotStarted, LockState,
         NotEnded
<1>2. "cancel" \notin ended[c]
  BY <1>1 DEF Final
<1>3. PhaseOf(c) \in {"running", "lost"}
  BY <1>1, <1>2 DEF PhaseOf, Started
<1>4. \A j \in Job \ {c} : PhaseOf(j)' = PhaseOf(j)
  <2>1. \A j \in Job \ {c} : SameView(j)
    BY DEF KillNewRunner, SameView, Placement, TypeOK
  <2> QED
    BY <2>1, SameViewSamePhase
<1>5. Halted /\ Halted'
  BY <1>1 DEF KillNewRunner, Halted
<1>6. CASE "cancel" \in ended'[c]
  <2>1. PhaseOf(c)' = "stopped"
    BY <1>1, <1>6 DEF KillNewRunner, PhaseOf
  <2> QED
    BY <1>1, <1>3, <1>4, <1>5, <2>1, StopMapped
<1>7. CASE "cancel" \notin ended'[c]
  <2>1. PhaseOf(c)' = "lost"
    BY <1>1, <1>7 DEF KillNewRunner, PhaseOf, Placement, TypeOK
  <2>2. CASE PhaseOf(c) = "running"
    BY <1>1, <1>4, <1>5, <2>1, <2>2, LossMapped
  <2>3. CASE PhaseOf(c) = "lost"
    <3>1. \A j \in Job : PhaseOf(j)' = PhaseOf(j)
      BY <1>4, <2>1, <2>3
    <3> QED
      BY <1>5, <3>1, QuietMapped
  <2> QED
    BY <1>3, <2>2, <2>3
<1> QED
  BY <1>6, <1>7

LEMMA PollGivesUpMapped ==
  ASSUME Placement, Gate, LockState, Phases, NEW j \in Job, PollGivesUp(j), Halted => Halted'
  PROVE  Lifecycle!Next
<1>1. j \in active /\ proc[j] \in {"running", "closing"} /\ j \notin done \cup skipped
  BY DEF PollGivesUp, Placement, Disjoint
<1>2. proc'[j] = "lost" /\ UNCHANGED <<ended, skipped, done, done_grace_exit>>
  BY DEF PollGivesUp, Placement, TypeOK
<1>3. \A k \in Job \ {j} : PhaseOf(k)' = PhaseOf(k)
  <2>1. \A k \in Job \ {j} : SameView(k)
    BY DEF PollGivesUp, SameView, Placement, TypeOK
  <2> QED
    BY <2>1, SameViewSamePhase
<1>4. CASE "cancel" \in ended[j]
  <2>1. PhaseOf(j)' = PhaseOf(j)
    BY <1>1, <1>2, <1>4 DEF PhaseOf
  <2>2. \A k \in Job : PhaseOf(k)' = PhaseOf(k)
    BY <1>3, <2>1
  <2> QED
    BY <2>2, QuietMapped
<1>5. CASE "cancel" \notin ended[j]
  <2>1. PhaseOf(j) = "running" /\ PhaseOf(j)' = "lost"
    BY <1>1, <1>2, <1>5 DEF PhaseOf
  <2> QED
    BY <1>3, <2>1, LossMapped
<1> QED
  BY <1>4, <1>5

LEMMA KillRunnerMapped ==
  ASSUME Placement, Gate, LockState, Phases, NEW j \in Job, KillRunner(j)
  PROVE  Lifecycle!Next
<1>1. j \in killers /\ Started(j) /\ j \notin skipped /\ "cancel" \notin ended[j]
  BY DEF KillRunner, Gate, NotStarted, LockState, NotEnded, Final
<1>2. PhaseOf(j) \in {"running", "lost"}
  BY <1>1 DEF PhaseOf, Started, Phases, GivenUp
<1>3. \A k \in Job \ {j} : PhaseOf(k)' = PhaseOf(k)
  <2>1. \A k \in Job \ {j} : SameView(k)
    BY DEF KillRunner, SameView, Placement, TypeOK
  <2> QED
    BY <2>1, SameViewSamePhase
<1>4. Halted /\ Halted'
  BY <1>1 DEF KillRunner, Halted, LockState, KillersApart
<1>5. CASE "cancel" \in ended'[j]
  <2>1. PhaseOf(j)' = "stopped"
    BY <1>1, <1>5 DEF KillRunner, PhaseOf
  <2> QED
    BY <1>2, <1>3, <1>4, <2>1, StopMapped
<1>6. CASE "cancel" \notin ended'[j]
  <2>1. PhaseOf(j)' = "lost"
    BY <1>1, <1>6 DEF KillRunner, PhaseOf, Placement, TypeOK
  <2>2. CASE PhaseOf(j) = "running"
    BY <1>3, <1>4, <2>1, <2>2, LossMapped
  <2>3. CASE PhaseOf(j) = "lost"
    <3>1. \A k \in Job : PhaseOf(k)' = PhaseOf(k)
      BY <1>3, <2>1, <2>3
    <3> QED
      BY <1>4, <3>1, QuietMapped
  <2> QED
    BY <1>2, <2>2, <2>3
<1> QED
  BY <1>5, <1>6

\* Steps that no phase depends on
QuietStep ==
  \/ SchedulerExits \/ EnterPreRun \/ LaunchRaises \/ RegisterRunner \/ PauseNewRunner
  \/ ReadPaused \/ ResumeNewRunner \/ PollFindsNone \/ BeginFinalizing \/ MainAddedAll
  \/ Wait \/ Stop \/ StopJoins \/ ChooseContinue \/ ChooseStop \/ Pause \/ Resume
  \/ RunnersVisited \/ JoinKillers \/ KillReturns \/ Interrupt
  \/ \E j \in Job : \/ PollFindsDone(j) \/ PollSendsTerm(j) \/ PauseRunner(j) \/ ResumeRunner(j)
                    \/ ProcessExits(j)
  \/ \E r \in {"PASSED", "FAILED"} : PostRun(r)

LEMMA QuietStepMapped ==
  ASSUME Placement, Gate, QuietStep \/ UNCHANGED vars, Halted => Halted'
  PROVE  Lifecycle!Next
<1>1. \A j \in Job : SameView(j)
  <2> SUFFICES ASSUME NEW k \in Job PROVE SameView(k)
    OBVIOUS
  <2> USE DEF SameView, Placement, TypeOK
  <2>1. CASE SchedulerExits
    BY <2>1 DEF SchedulerExits
  <2>2. CASE EnterPreRun
    BY <2>2 DEF EnterPreRun
  <2>3. CASE LaunchRaises
    BY <2>3 DEF LaunchRaises, SchedulerJob, Disjoint
  <2>4. CASE RegisterRunner
    BY <2>4 DEF RegisterRunner
  <2>5. CASE PauseNewRunner
    BY <2>5 DEF PauseNewRunner, SchedulerJob
  <2>6. CASE ReadPaused
    BY <2>6 DEF ReadPaused
  <2>7. CASE ResumeNewRunner
    BY <2>7 DEF ResumeNewRunner, SchedulerJob
  <2>8. CASE PollFindsNone
    BY <2>8 DEF PollFindsNone
  <2>9. CASE BeginFinalizing
    BY <2>9 DEF BeginFinalizing
  <2>10. ASSUME NEW j \in Job, PollFindsDone(j) PROVE SameView(k)
    BY <2>10 DEF PollFindsDone
  <2>11. ASSUME NEW j \in Job, PollSendsTerm(j) PROVE SameView(k)
    BY <2>11 DEF PollSendsTerm
  <2>12. ASSUME NEW r \in {"PASSED", "FAILED"}, PostRun(r) PROVE SameView(k)
    BY <2>12 DEF PostRun, SchedulerJob, Disjoint
  <2>13. CASE MainAddedAll
    BY <2>13 DEF MainAddedAll
  <2>14. CASE Wait
    BY <2>14 DEF Wait
  <2>15. CASE Stop
    BY <2>15 DEF Stop
  <2>16. CASE StopJoins
    BY <2>16 DEF StopJoins
  <2>17. CASE ChooseContinue
    BY <2>17 DEF ChooseContinue
  <2>18. CASE ChooseStop
    BY <2>18 DEF ChooseStop
  <2>19. CASE Pause
    BY <2>19 DEF Pause, SetPaused
  <2>20. CASE Resume
    BY <2>20 DEF Resume, SetPaused
  <2>21. CASE RunnersVisited
    BY <2>21 DEF RunnersVisited
  <2>22. CASE JoinKillers
    BY <2>22 DEF JoinKillers
  <2>23. CASE KillReturns
    BY <2>23 DEF KillReturns
  <2>24. ASSUME NEW j \in Job, PauseRunner(j) PROVE SameView(k)
    BY <2>24 DEF PauseRunner
  <2>25. ASSUME NEW j \in Job, ResumeRunner(j) PROVE SameView(k)
    BY <2>25 DEF ResumeRunner
  <2>26. CASE Interrupt
    BY <2>26 DEF Interrupt
  <2>27. ASSUME NEW j \in Job, ProcessExits(j) PROVE SameView(k)
    BY <2>27 DEF ProcessExits
  <2>28. CASE UNCHANGED vars
    BY <2>28 DEF vars
  <2> QED
    BY <2>1, <2>2, <2>3, <2>4, <2>5, <2>6, <2>7, <2>8, <2>9, <2>10, <2>11, <2>12,
       <2>13, <2>14, <2>15, <2>16, <2>17, <2>18, <2>19, <2>20, <2>21, <2>22, <2>23,
       <2>24, <2>25, <2>26, <2>27, <2>28
       DEF QuietStep
<1> QED
  BY <1>1, SameViewSamePhase, QuietMapped

\* Every step of the manager is a step of the life cycle, or leaves every phase
LEMMA StepMapped ==
  ASSUME Placement, Gate, LockState, Limits, Phases, Placement', Phases', [Next]_vars
  PROVE  Lifecycle!Next
<1>1. Halted => Halted'
  BY HaltedStays
<1>2. PICK c : c = cur
  OBVIOUS
<1>3. CASE RunJobs
  BY <1>1, <1>3, RunJobsMapped
<1>4. CASE StartRunner
  BY <1>2, <1>4, StartMapped
<1>5. CASE LaunchCancelled
  BY <1>1, <1>2, <1>5, LaunchCancelledMapped
<1>6. CASE LaunchFailed
  BY <1>1, <1>2, <1>6, LaunchFailedMapped
<1>7. CASE KillNewRunner
  BY <1>2, <1>7, KillNewRunnerMapped
<1>8. CASE CompleteJob
  BY <1>1, <1>2, <1>8, CompleteJobMapped
<1>9. CASE RecordIncomplete
  BY <1>2, <1>9, RecordIncompleteMapped
<1>10. CASE Kill
  BY <1>10, KillMapped
<1>11. ASSUME NEW j \in Job, PollGivesUp(j) PROVE Lifecycle!Next
  BY <1>1, <1>11, PollGivesUpMapped
<1>12. ASSUME NEW j \in Job, KillRunner(j) PROVE Lifecycle!Next
  BY <1>12, KillRunnerMapped
<1>13. ASSUME NEW j \in Job, PostRunAdds(j) PROVE Lifecycle!Next
  <2>1. /\ j \notin added /\ AddJob(j)
        /\ UNCHANGED <<status, done, proc, ended, done_grace_exit, run_jobs_thread_active>>
    BY <1>13 DEF PostRunAdds
  <2> QED
    BY <1>1, <2>1, AddJobMapped
<1>14. ASSUME NEW j \in Job, MainAddsJob(j) PROVE Lifecycle!Next
  <2>1. /\ j \notin added /\ AddJob(j)
        /\ UNCHANGED <<status, done, proc, ended, done_grace_exit, run_jobs_thread_active>>
    BY <1>14 DEF MainAddsJob
  <2> QED
    BY <1>1, <2>1, AddJobMapped
<1>15. CASE QuietStep \/ UNCHANGED vars
  BY <1>1, <1>15, QuietStepMapped
<1> QED
  BY <1>3, <1>4, <1>5, <1>6, <1>7, <1>8, <1>9, <1>10, <1>11, <1>12, <1>13, <1>14, <1>15
     DEF Next, Scheduler, Main, Finished, QuietStep

LEMMA InitMapped == Init => Lifecycle!Init
<1> SUFFICES ASSUME Init PROVE Lifecycle!Init
  OBVIOUS
<1>1. \A j \in Job : PhaseOf(j) = "pending"
  BY DEF Init, PhaseOf
<1> QED
  BY <1>1 DEF Init, Lifecycle!Init

\* The manager implements JobLifecycle, whatever the job graph and the limits:
\* no interleaving of launches, completions, kill threads and interrupts starts a
\* job before its dependencies passed or beyond the room there is, ends it twice
\* or skips it without a reason.
THEOREM LifecycleImplemented == Spec => ImplementsLifecycle
<1>1. /\ Placement /\ Placement' /\ Gate /\ Hooks /\ Limits /\ Phases /\ Phases'
      /\ [Next]_vars
      => [Lifecycle!Next]_(Lifecycle!lifecycleVars)
  BY StepMapped DEF Hooks
<1> QED
  BY <1>1, InitMapped, PlacementInvariant, GateInvariant, HooksInvariant, LimitsInvariant,
     PhasesInvariant, PTL DEF Spec, ImplementsLifecycle, Lifecycle!Spec
-----------------------------------------------------------------------------
\* The inductive invariant that TLC checks on the small instances holds for
\* every value of the constants.
THEOREM InductiveInvariant == Spec => []IInv
BY PlacementInvariant, MainOrderInvariant, GateInvariant, HooksInvariant, LimitsInvariant,
   ShutdownInvariant, PhasesInvariant, PTL DEF IInv
====
