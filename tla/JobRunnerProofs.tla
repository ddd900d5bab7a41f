-------------------------- MODULE JobRunnerProofs --------------------------
(***************************************************************************)
(* Proofs about JobRunner for every value of its constants: IInv is        *)
(* inductive, it implies the safety properties of the shutdown ladder,     *)
(* the runner implements RunnerContract, and no runner times out before    *)
(* its group has run for the timeout (TimeCharged).                        *)
(***************************************************************************)
EXTENDS JobRunner, SetLemmas

USE RunnerAssumption

\* The smaller of two numbers
LEMMA MinOfTwo ==
  ASSUME NEW a \in Nat, NEW b \in Nat
  PROVE  Min({a, b}) = IF a <= b THEN a ELSE b
BY DEF Min

\* A deadline stays a deadline when a tick passes
LEMMA OneLessType ==
  ASSUME NEW left
  PROVE  /\ left = None => OneLess(left) = None
         /\ left \in Nat => OneLess(left) = IF left = 0 THEN 0 ELSE left - 1
         /\ left \in Nat => OneLess(left) \in Nat
         /\ left \in Time => OneLess(left) \in Time
BY DEF OneLess, Time

\* No pause interval, and one more
LEMMA IntervalsType ==
  /\ <<>> \in Intervals
  /\ \A s \in Intervals, from \in Time, to \in Nat : Append(s, <<from, to>>) \in Intervals
<1>1. <<>> \in Intervals
  BY DEF Intervals
<1>2. ASSUME NEW s \in Intervals, NEW from \in Time, NEW to \in Nat
      PROVE  Append(s, <<from, to>>) \in Intervals
  <2>1. <<from, to>> \in Time \X Nat
    OBVIOUS
  <2> QED
    BY <2>1 DEF Intervals
<1> QED
  BY <1>1, <1>2
-----------------------------------------------------------------------------
(* The first state, the clock and the processes. *)

LEMMA InitIInv == Init => IInv
<1> SUFFICES ASSUME Init PROVE IInv
  OBVIOUS
<1>1. ProcessTypes /\ DeadlineTypes
  BY DEF Init, ProcessTypes, DeadlineTypes, Process, Time
<1>2. PauseTypes
  <2>1. paused_at \in Time /\ pause_intervals \in Intervals /\ pauses \in 0..MaxPauses
    BY IntervalsType DEF Init, Time
  <2> QED
    BY <2>1 DEF Init, PauseTypes, MainState
<1>3. PollTypes /\ KillTypes
  BY IntervalsType DEF Init, PollTypes, PollState, KillTypes, KillState
<1> QED
  BY <1>1, <1>2, <1>3 DEF Init, IInv, TypeOK, DoneMeansGone, KillTellsTruth, LockHeld,
                          LockedState, StoppedIsPaused, Ladder

LEMMA TickKeeps ==
  ASSUME IInv, Tick
  PROVE  IInv'
<1> USE DEF IInv, TypeOK
<1>1. ProcessTypes'
  BY DEF Tick, ProcessTypes, processes
<1>2. /\ term_deadline' \in Time /\ kill_deadline' \in Time
      /\ pollLimit' \in Nat /\ killLimit' \in Nat
  BY OneLessType DEF Tick, DeadlineTypes, PollTypes, KillTypes
<1>3. /\ told' \in Time /\ (told = None <=> told' = None)
      /\ told \in Nat => told' = IF told + 1 <= TermGrace THEN told + 1 ELSE TermGrace
  <2>1. CASE told = None
    BY <2>1 DEF Tick, Time
  <2>2. CASE told \in Nat
    BY <2>2, MinOfTwo DEF Tick, Time
  <2> QED
    BY <2>1, <2>2 DEF DeadlineTypes, Time
<1>4. DeadlineTypes'
  BY <1>2, <1>3 DEF Tick, DeadlineTypes, outcome
<1>5. PauseTypes' /\ PollTypes' /\ KillTypes'
  BY <1>2 DEF Tick, PauseTypes, PollTypes, KillTypes, pausing, main
<1>6. Ladder'
  <2>1. /\ term_deadline' = OneLess(term_deadline) /\ killLimit' = OneLess(killLimit)
        /\ UNCHANGED <<killPc, pollPc, kill_sent, killed>>
    BY DEF Tick, processes
  <2>2. told' # None => told' <= TermGrace
    BY <1>3 DEF DeadlineTypes, Time, Ladder
  <2>3. term_deadline' # None => told' # None /\ told' + term_deadline' >= TermGrace
    <3>1. CASE term_deadline = None
      BY <2>1, <3>1, OneLessType
    <3>2. CASE term_deadline \in Nat
      <4>1. told \in Nat /\ told + term_deadline >= TermGrace
        BY <3>2 DEF DeadlineTypes, Time, Ladder
      <4> QED
        BY <1>3, <2>1, <3>2, <4>1, OneLessType
    <3> QED
      BY <3>1, <3>2 DEF DeadlineTypes, Time
  <2>4. killPc' = "grace" => told' # None /\ told' + killLimit' >= TermGrace
    <3> SUFFICES ASSUME killPc = "grace"
                 PROVE  told' # None /\ told' + killLimit' >= TermGrace
      BY <2>1
    <3>1. told \in Nat /\ told + killLimit >= TermGrace
      BY DEF DeadlineTypes, Time, Ladder
    <3> QED
      BY <1>3, <2>1, <3>1, OneLessType DEF KillTypes
  <2> QED
    BY <1>3, <2>1, <2>2, <2>3, <2>4 DEF Ladder
<1>7. (DoneMeansGone /\ KillTellsTruth /\ LockHeld /\ StoppedIsPaused)'
  BY DEF Tick, DoneMeansGone, KillTellsTruth, LockHeld, StoppedIsPaused, GroupExists, outcome,
         processes, pausing, main
<1> QED
  BY <1>1, <1>4, <1>5, <1>6, <1>7

\* The processes of the job touch nothing but themselves and their log
LEMMA EnvironmentKeeps ==
  ASSUME IInv, Environment
  PROVE  IInv'
<1> USE DEF IInv, TypeOK
<1>1. ASSUME NEW p \in Process, ProcessEnds(p)
      PROVE  /\ ProcessTypes' /\ (stopped' => stopped) /\ (live = {} => live' = {})
             /\ killed' = killed
  BY <1>1 DEF ProcessEnds, ProcessTypes, clock
<1>2. ASSUME StartsBackground \/ WritesLog
      PROVE  ProcessTypes'
  <2>1. CASE StartsBackground
    BY <2>1 DEF StartsBackground, ProcessTypes, clock, Process
  <2>2. CASE WritesLog
    BY <2>2 DEF WritesLog, ProcessTypes, clock, Time
  <2> QED
    BY <1>2, <2>1, <2>2
<1>3. /\ ProcessTypes' /\ (stopped' => stopped) /\ (live = {} => live' = {})
      /\ killed' = killed
  BY <1>1, <1>2 DEF Environment, StartsBackground, WritesLog
<1>4. UNCHANGED <<deadlines, outcome, pausing, timeout_start, kill_lock, poll, main, killer>>
  BY DEF Environment, ProcessEnds, StartsBackground, WritesLog
<1>5. DeadlineTypes' /\ PauseTypes' /\ PollTypes' /\ KillTypes'
  BY <1>4 DEF DeadlineTypes, PauseTypes, PollTypes, KillTypes, deadlines, outcome, pausing, poll,
              main, killer
<1>6. Ladder' /\ LockHeld' /\ StoppedIsPaused'
  BY <1>3, <1>4 DEF Ladder, LockHeld, StoppedIsPaused, deadlines, pausing, poll, main, killer
<1>7. DoneMeansGone' /\ KillTellsTruth'
  BY <1>3, <1>4 DEF DoneMeansGone, KillTellsTruth, GroupExists, outcome, killer
<1> QED
  BY <1>3, <1>5, <1>6, <1>7
-----------------------------------------------------------------------------
(* The poll.  It does one of four things to what the other threads see. *)

PollFrame ==
  UNCHANGED <<clock, pausing, kill_lock, main, killer, live, stopped, log_mtime>>

LEMMA PollLeaves ==
  ASSUME IInv, PollFrame, killed' \in BOOLEAN
  PROVE  (ProcessTypes /\ PauseTypes /\ KillTypes /\ LockHeld /\ StoppedIsPaused)'
BY DEF IInv, TypeOK, PollFrame, ProcessTypes, PauseTypes, KillTypes, LockHeld, StoppedIsPaused,
       clock, pausing, main, killer

\* It does nothing
LEMMA NothingSent ==
  ASSUME IInv, PollFrame, PollTypes', timeout_start' \in Time,
         UNCHANGED <<killed, deadlines, outcome>>,
         pollPc' \in {"reap", "reapAgain", "scan"} => killed
  PROVE  IInv'
<1> USE DEF IInv, TypeOK
<1>1. (ProcessTypes /\ PauseTypes /\ KillTypes /\ LockHeld /\ StoppedIsPaused)'
  BY PollLeaves DEF ProcessTypes
<1>2. DeadlineTypes' /\ Ladder'
  BY DEF PollFrame, DeadlineTypes, Ladder, deadlines, outcome, killer
<1>3. DoneMeansGone' /\ KillTellsTruth'
  BY DEF PollFrame, DoneMeansGone, KillTellsTruth, GroupExists, outcome, killer
<1> QED
  BY <1>1, <1>2, <1>3

\* It tells the group to end
LEMMA SigtermSent ==
  ASSUME IInv, PollFrame, PollTypes', PollSigterm, timed_out' \in BOOLEAN, orphaned' \in BOOLEAN,
         UNCHANGED <<killed, outcome, timeout_start>>, pollPc' = "idle"
  PROVE  IInv'
<1> USE DEF IInv, TypeOK
<1>1. (ProcessTypes /\ PauseTypes /\ KillTypes /\ LockHeld /\ StoppedIsPaused)'
  BY PollLeaves DEF ProcessTypes
<1>2. DeadlineTypes'
  BY DEF DeadlineTypes, PollSigterm, Time, outcome
<1>3. Ladder'
  BY DEF PollFrame, Ladder, PollSigterm, DeadlineTypes, KillTypes, Time, killer
<1>4. DoneMeansGone' /\ KillTellsTruth'
  BY DEF PollFrame, DoneMeansGone, KillTellsTruth, GroupExists, outcome, killer
<1> QED
  BY <1>1, <1>2, <1>3, <1>4

\* It kills the group
LEMMA SigkillSent ==
  ASSUME IInv, PollFrame, PollTypes', SendSigkill, UNCHANGED <<outcome, timeout_start>>
  PROVE  IInv'
<1> USE DEF IInv, TypeOK
<1>1. (ProcessTypes /\ PauseTypes /\ KillTypes /\ LockHeld /\ StoppedIsPaused)'
  BY PollLeaves DEF SendSigkill
<1>2. DeadlineTypes'
  BY DEF DeadlineTypes, SendSigkill, Time, outcome
<1>3. Ladder'
  BY DEF PollFrame, Ladder, SendSigkill, killer
<1>4. DoneMeansGone' /\ KillTellsTruth'
  BY DEF PollFrame, DoneMeansGone, KillTellsTruth, GroupExists, outcome, killer
<1> QED
  BY <1>1, <1>2, <1>3, <1>4

\* It says that the runner is done, and the truth about the group
LEMMA DoneSaid ==
  ASSUME IInv, PollFrame, PollTypes', done' = TRUE, shutdown_incomplete' \in BOOLEAN,
         GroupExists => shutdown_incomplete', UNCHANGED <<killed, deadlines, timeout_start>>,
         pollPc' = "idle"
  PROVE  IInv'
<1> USE DEF IInv, TypeOK
<1>1. (ProcessTypes /\ PauseTypes /\ KillTypes /\ LockHeld /\ StoppedIsPaused)'
  BY PollLeaves DEF ProcessTypes
<1>2. DeadlineTypes' /\ Ladder'
  BY DEF PollFrame, DeadlineTypes, Ladder, deadlines, killer
<1>3. DoneMeansGone' /\ KillTellsTruth'
  BY DEF PollFrame, DoneMeansGone, KillTellsTruth, GroupExists, killer
<1> QED
  BY <1>1, <1>2, <1>3

LEMMA PollReturnsType ==
  ASSUME PollTypes, PollReturns PROVE PollTypes' /\ pollPc' = "idle"
BY IntervalsType DEF PollTypes, PollReturns, PollState

LEMMA PollGoesToType ==
  ASSUME PollTypes, NEW pc \in PollState, PollGoesTo(pc) PROVE PollTypes' /\ pollPc' = pc
BY DEF PollTypes, PollGoesTo

LEMMA EscalateKeeps ==
  ASSUME IInv, Escalate, UNCHANGED <<clock, pausing, timeout_start, kill_lock, main, killer>>
  PROVE  IInv'
<1> USE DEF IInv, TypeOK
<1>1. CASE SendSigkill /\ PollReturns /\ UNCHANGED outcome
  BY <1>1, PollReturnsType, SigkillSent DEF PollFrame, SendSigkill
<1>2. CASE PollGoesTo("error") /\ UNCHANGED <<outcome, processes, deadlines>>
  BY <1>2, PollGoesToType, NothingSent DEF PollFrame, processes, PollState, DeadlineTypes
<1>3. CASE PollReturns /\ UNCHANGED <<outcome, processes, deadlines>>
  BY <1>3, PollReturnsType, NothingSent DEF PollFrame, processes, DeadlineTypes
<1>4. CASE PollReturns /\ OwnershipWait /\ UNCHANGED <<processes, deadlines>>
  BY <1>3, <1>4, PollReturnsType, DoneSaid DEF PollFrame, OwnershipWait, processes
<1> QED
  BY <1>1, <1>2, <1>3, <1>4 DEF Escalate

LEMMA ShellExitedKeeps ==
  ASSUME IInv, ShellExited
  PROVE  IInv'
<1> USE DEF IInv, TypeOK
<1>1. UNCHANGED <<clock, pausing, timeout_start, kill_lock, main, killer>>
  BY DEF ShellExited
<1>2. CASE ~GroupExists /\ done' = TRUE /\ PollReturns
           /\ UNCHANGED <<shutdown_incomplete, processes, deadlines>>
  BY <1>1, <1>2, PollReturnsType, DoneSaid DEF PollFrame, processes, DeadlineTypes
<1>3. CASE orphaned' = TRUE /\ PollSigterm /\ PollReturns
           /\ UNCHANGED <<timed_out, processes, outcome>>
  BY <1>1, <1>3, PollReturnsType, SigtermSent DEF PollFrame, processes, DeadlineTypes
<1>4. CASE Escalate
  BY <1>1, <1>4, EscalateKeeps
<1>5. CASE PollGoesTo("guard") /\ UNCHANGED <<outcome, processes, deadlines>>
  BY <1>1, <1>5, PollGoesToType, NothingSent DEF PollFrame, processes, PollState, DeadlineTypes
<1> QED
  BY <1>2, <1>3, <1>4, <1>5 DEF ShellExited

LEMMA CheckPausedKeeps ==
  ASSUME IInv, CheckPaused
  PROVE  IInv'
<1> USE DEF IInv, TypeOK
<1>1. UNCHANGED <<clock, pausing, timeout_start, kill_lock, main, killer>>
  BY DEF CheckPaused
<1>2. CASE Escalate
  BY <1>1, <1>2, EscalateKeeps
<1>3. CASE PollReturns /\ UNCHANGED <<outcome, processes, deadlines>>
  BY <1>1, <1>3, PollReturnsType, NothingSent DEF PollFrame, processes, DeadlineTypes
<1>4. CASE PollGoesTo("start") /\ UNCHANGED <<outcome, processes, deadlines>>
  BY <1>1, <1>4, PollGoesToType, NothingSent DEF PollFrame, processes, PollState, DeadlineTypes
<1> QED
  BY <1>2, <1>3, <1>4 DEF CheckPaused

LEMMA ReadsKeep ==
  ASSUME IInv, StartPoll \/ ReadClock \/ ReadStart \/ ReadFlag \/ ReadSince
  PROVE  IInv'
<1> USE DEF IInv, TypeOK
<1>1. /\ UNCHANGED <<processes, clock, deadlines, outcome, pausing, kill_lock, main, killer>>
      /\ timeout_start' \in {timeout_start, log_mtime}
  BY DEF StartPoll, ReadClock, ReadStart, ReadFlag, ReadSince
<1>2. PollFrame /\ killed' = killed /\ timeout_start' \in Time
  BY <1>1 DEF PollFrame, processes, ProcessTypes, DeadlineTypes
<1>3. PollTypes' /\ pollPc' \notin {"reap", "reapAgain", "scan"}
  <2>1. CASE StartPoll \/ ReadClock
    BY <2>1 DEF StartPoll, ReadClock, PollTypes, PollState, ProcessTypes
  <2>2. CASE ReadStart
    BY <2>2, PollReturnsType DEF ReadStart, PollTypes, PollState, PauseTypes
  <2>3. CASE ReadFlag
    BY <2>3, PollGoesToType DEF ReadFlag, PollState
  <2>4. CASE ReadSince
    BY <2>4, IntervalsType DEF ReadSince, PollTypes, PollState, PauseTypes
  <2> QED
    BY <2>1, <2>2, <2>3, <2>4
<1> QED
  BY <1>1, <1>2, <1>3, NothingSent

LEMMA DecideKeeps ==
  ASSUME IInv, Decide
  PROVE  IInv'
<1> USE DEF IInv, TypeOK
<1>1. UNCHANGED <<processes, clock, outcome, pausing, timeout_start, kill_lock, main, killer>>
  BY DEF Decide
<1>2. CASE PollGoesTo("error") /\ UNCHANGED deadlines
  BY <1>1, <1>2, PollGoesToType, NothingSent DEF PollFrame, processes, PollState, DeadlineTypes
<1>3. CASE PollReturns /\ UNCHANGED deadlines
  BY <1>1, <1>3, PollReturnsType, NothingSent DEF PollFrame, processes, DeadlineTypes
<1>4. CASE PollReturns /\ timed_out' = TRUE /\ PollSigterm /\ UNCHANGED orphaned
  BY <1>1, <1>4, PollReturnsType, SigtermSent DEF PollFrame, processes, DeadlineTypes
<1> QED
  BY <1>2, <1>3, <1>4 DEF Decide

LEMMA PollErrorKeeps ==
  ASSUME IInv, PollError
  PROVE  IInv'
<1> USE DEF IInv, TypeOK
<1>1. UNCHANGED <<clock, deadlines, pausing, timeout_start, kill_lock, main, killer>>
  BY DEF PollError
<1>2. CASE pollPc = "error"
  <2>1. /\ pollPc' = "reap" /\ killed' = TRUE /\ UNCHANGED <<live, stopped, log_mtime, outcome>>
        /\ PollTypes'
    BY <1>2, IntervalsType DEF PollError, HandleError, PollTypes, PollState
  <2>2. (ProcessTypes /\ PauseTypes /\ KillTypes /\ LockHeld /\ StoppedIsPaused)'
    BY <1>1, <2>1, PollLeaves DEF PollFrame
  <2>3. DeadlineTypes' /\ Ladder'
    BY <1>1, <2>1 DEF DeadlineTypes, Ladder, deadlines, outcome, killer
  <2>4. DoneMeansGone' /\ KillTellsTruth'
    BY <1>1, <2>1 DEF DoneMeansGone, KillTellsTruth, GroupExists, outcome, killer
  <2> QED
    BY <2>1, <2>2, <2>3, <2>4
<1>3. CASE pollPc \in {"reap", "reapAgain"}
  <2>1. /\ pollPc' \in {"reapAgain", "scan"} /\ UNCHANGED <<processes, outcome>>
        /\ PollTypes'
    BY <1>3 DEF PollError, HandleError, PollTypes, PollState
  <2>2. killed
    BY <1>3 DEF Ladder
  <2> QED
    BY <1>1, <2>1, <2>2, NothingSent DEF PollFrame, processes, DeadlineTypes
<1>4. CASE pollPc = "scan"
  <2>1. /\ PollReturns /\ done' = TRUE /\ UNCHANGED processes
        /\ shutdown_incomplete' = (~pollReaped \/ GroupExists)
    BY <1>4 DEF PollError, HandleError
  <2> QED
    BY <1>1, <2>1, PollReturnsType, DoneSaid DEF PollFrame, processes
<1> QED
  BY <1>2, <1>3, <1>4 DEF PollError, HandleError

LEMMA PollKeeps ==
  ASSUME IInv, Poll
  PROVE  IInv'
BY ShellExitedKeeps, CheckPausedKeeps, ReadsKeep, DecideKeeps, PollErrorKeeps DEF Poll
-----------------------------------------------------------------------------
(* The main thread and the kill thread. *)

\* What neither of them changes
CallerFrame ==
  UNCHANGED <<live, killed, log_mtime, clock, deadlines, outcome, timeout_start, poll>>

LEMMA CallersLeave ==
  ASSUME IInv, CallerFrame, stopped' \in BOOLEAN
  PROVE  (ProcessTypes /\ DeadlineTypes /\ PollTypes /\ DoneMeansGone)'
BY DEF IInv, TypeOK, CallerFrame, ProcessTypes, DeadlineTypes, PollTypes, DoneMeansGone,
       GroupExists, clock, deadlines, outcome, poll

\* The main thread changes no more of this than the kill thread
LEMMA MainLeaves ==
  ASSUME IInv, CallerFrame, stopped' \in BOOLEAN, UNCHANGED killer
  PROVE  (ProcessTypes /\ DeadlineTypes /\ PollTypes /\ KillTypes /\ DoneMeansGone
           /\ KillTellsTruth /\ Ladder)'
<1>1. (ProcessTypes /\ DeadlineTypes /\ PollTypes /\ DoneMeansGone)'
  BY CallersLeave
<1>2. (KillTypes /\ KillTellsTruth /\ Ladder)'
  BY DEF IInv, TypeOK, CallerFrame, KillTypes, KillTellsTruth, Ladder, GroupExists, killer,
         deadlines, outcome, poll
<1> QED
  BY <1>1, <1>2

\* The statements that end a pause: the group continues before the flag is cleared
LEMMA UnpauseKeeps ==
  ASSUME IInv, NEW pc, NEW next, Unpause(pc, next)
  PROVE  /\ stopped' \in BOOLEAN /\ paused' \in BOOLEAN
         /\ paused_at' \in Time /\ pause_intervals' \in Intervals
         /\ pc \in {"sigcont", "append", "clearPaused", "clearPausedAt"}
         /\ next \in {"append", "clearPaused", "clearPausedAt", "idle", "sigterm"}
         /\ pc = "sigcont" \/ ~stopped => ~stopped'
<1> USE DEF IInv, TypeOK, PauseTypes, ProcessTypes
<1>1. CASE pc = "sigcont"
  BY <1>1 DEF Unpause, pausing
<1>2. CASE pc = "append"
  <2>1. /\ UNCHANGED <<stopped, paused, paused_at>> /\ next = "clearPaused"
        /\ pause_intervals' = Append(pause_intervals, <<paused_at, now>>)
    BY <1>2 DEF Unpause
  <2>2. pause_intervals' \in Intervals
    BY <2>1, IntervalsType
  <2> QED
    BY <1>2, <2>1, <2>2
<1>3. CASE pc = "clearPaused"
  <2>1. /\ UNCHANGED <<stopped, paused_at, pause_intervals>> /\ next = "clearPausedAt"
        /\ paused' = FALSE
    BY <1>3 DEF Unpause
  <2> QED
    BY <1>3, <2>1
<1>4. CASE pc = "clearPausedAt"
  BY <1>4 DEF Unpause, Time
<1> QED
  BY <1>1, <1>2, <1>3, <1>4 DEF Unpause

LEMMA PauseKeeps ==
  ASSUME IInv, Pause
  PROVE  IInv'
<1> USE DEF IInv, TypeOK
<1>1. CASE PauseCheck
  <2>1. CallerFrame /\ UNCHANGED <<stopped, killer>>
    BY <1>1 DEF PauseCheck, CallerFrame, processes
  <2>2. (ProcessTypes /\ DeadlineTypes /\ PollTypes /\ KillTypes /\ DoneMeansGone
          /\ KillTellsTruth /\ Ladder)'
    BY <2>1, MainLeaves DEF ProcessTypes
  <2>3. PauseTypes'
    BY <1>1 DEF PauseCheck, Takes, PauseTypes, MainState, LockedState, pausing
  <2>4. LockHeld' /\ StoppedIsPaused'
    BY <1>1, <2>1 DEF PauseCheck, Takes, LockHeld, StoppedIsPaused, pausing, killer
  <2> QED
    BY <2>2, <2>3, <2>4
<1>2. ASSUME NEW pc \in {"setPaused", "setPausedAt", "sigstop"},
             NEW next \in {"setPausedAt", "sigstop", "idle"}, PauseStep(pc, next),
             stopped' \in BOOLEAN, paused' \in BOOLEAN, paused_at' \in Time,
             paused \/ pc = "setPaused" => paused',
             pc = "sigstop" \/ UNCHANGED stopped
      PROVE  IInv'
  <2>1. CallerFrame /\ UNCHANGED killer
    BY <1>2 DEF PauseStep, CallerFrame
  <2>2. (ProcessTypes /\ DeadlineTypes /\ PollTypes /\ KillTypes /\ DoneMeansGone
          /\ KillTellsTruth /\ Ladder)'
    BY <1>2, <2>1, MainLeaves
  <2>3. kill_lock = "main" /\ killPc \in {"idle", "done"} /\ (pc # "setPaused" => paused)
    BY <1>2 DEF PauseStep, LockHeld, LockedState, StoppedIsPaused
  <2>4. PauseTypes'
    BY <1>2 DEF PauseStep, PauseTypes, MainState, LockedState
  <2>5. LockHeld' /\ StoppedIsPaused'
    BY <1>2, <2>1, <2>3 DEF PauseStep, LockHeld, StoppedIsPaused, LockedState, killer
  <2> QED
    BY <2>2, <2>4, <2>5
<1>3. CASE PauseStep("setPaused", "setPausedAt") /\ paused' = TRUE
           /\ UNCHANGED <<paused_at, stopped>>
  BY <1>2, <1>3 DEF PauseTypes, ProcessTypes
<1>4. CASE PauseStep("setPausedAt", "sigstop") /\ paused_at' = now
           /\ UNCHANGED <<paused, stopped>>
  BY <1>2, <1>4 DEF PauseTypes, ProcessTypes, Time
<1>5. CASE PauseStep("sigstop", "idle") /\ stopped' = (GroupExists /\ ~killed)
           /\ UNCHANGED <<paused, paused_at>>
  BY <1>2, <1>5 DEF PauseTypes, ProcessTypes
<1> QED
  BY <1>1, <1>3, <1>4, <1>5 DEF Pause

LEMMA ResumeKeeps ==
  ASSUME IInv, Resume \/ Abort
  PROVE  IInv'
<1> USE DEF IInv, TypeOK
<1>1. CASE ResumeStarts \/ Abort
  <2>1. CallerFrame /\ UNCHANGED <<stopped, paused, paused_at, pause_intervals, pauses, killer>>
    BY <1>1 DEF ResumeStarts, Abort, CallerFrame, processes, pausing
  <2>2. (ProcessTypes /\ DeadlineTypes /\ PollTypes /\ KillTypes /\ DoneMeansGone
          /\ KillTellsTruth /\ Ladder)'
    BY <2>1, MainLeaves DEF ProcessTypes
  <2>3. PauseTypes'
    BY <1>1, <2>1 DEF ResumeStarts, Abort, Takes, PauseTypes, MainState, LockedState
  <2>4. LockHeld' /\ StoppedIsPaused'
    BY <1>1, <2>1 DEF ResumeStarts, Abort, Takes, LockHeld, LockedState, StoppedIsPaused, killer
  <2> QED
    BY <2>2, <2>3, <2>4
<1>2. CASE Resume /\ ~ResumeStarts
  <2>1. /\ Unpause(mainPc, mainPc') /\ mainPc' # "sigterm"
        /\ kill_lock' = IF mainPc' = "idle" THEN "free" ELSE kill_lock
        /\ CallerFrame /\ UNCHANGED <<pauses, killer>>
    BY <1>2 DEF Resume, CallerFrame
  <2>2. /\ stopped' \in BOOLEAN /\ paused' \in BOOLEAN
        /\ paused_at' \in Time /\ pause_intervals' \in Intervals
        /\ mainPc \in {"sigcont", "append", "clearPaused", "clearPausedAt"}
        /\ mainPc' \in {"append", "clearPaused", "clearPausedAt", "idle"}
        /\ ~stopped'
    BY <2>1, UnpauseKeeps DEF StoppedIsPaused
  <2>3. (ProcessTypes /\ DeadlineTypes /\ PollTypes /\ KillTypes /\ DoneMeansGone
          /\ KillTellsTruth /\ Ladder)'
    BY <2>1, <2>2, MainLeaves
  <2>4. PauseTypes'
    BY <2>1, <2>2 DEF PauseTypes, MainState, LockedState
  <2>5. LockHeld' /\ StoppedIsPaused'
    BY <2>1, <2>2 DEF LockHeld, LockedState, StoppedIsPaused, killer
  <2> QED
    BY <2>3, <2>4, <2>5
<1> QED
  BY <1>1, <1>2

LEMMA KillBeginKeeps ==
  ASSUME IInv, KillStarts \/ KillUnpauses
  PROVE  IInv'
<1> USE DEF IInv, TypeOK
<1>1. CallerFrame /\ UNCHANGED <<main, killLimit, killReaped>>
  BY DEF KillStarts, KillUnpauses, CallerFrame, processes, main
<1>2. CASE KillStarts
  <2>1. /\ UNCHANGED <<stopped, pausing>> /\ killPc' \in {"sigcont", "sigterm"}
        /\ (killPc' = "sigterm" => ~paused) /\ kill_lock' = "killer" /\ kill_lock = "free"
    BY <1>2 DEF KillStarts, Takes, processes
  <2>2. PauseTypes' /\ KillTypes'
    BY <1>1, <2>1 DEF PauseTypes, KillTypes, KillState, LockedState, pausing, main
  <2>3. LockHeld' /\ StoppedIsPaused'
    BY <1>1, <2>1 DEF LockHeld, StoppedIsPaused, pausing, main
  <2> QED
    BY <1>1, <2>1, <2>2, <2>3, CallersLeave
       DEF CallerFrame, ProcessTypes, KillTellsTruth, Ladder, deadlines, poll
<1>3. CASE KillUnpauses
  <2>1. Unpause(killPc, killPc') /\ killPc' # "idle" /\ UNCHANGED kill_lock
    BY <1>3 DEF KillUnpauses
  <2>2. /\ stopped' \in BOOLEAN /\ paused' \in BOOLEAN
        /\ paused_at' \in Time /\ pause_intervals' \in Intervals
        /\ killPc \in {"sigcont", "append", "clearPaused", "clearPausedAt"}
        /\ killPc' \in {"append", "clearPaused", "clearPausedAt", "sigterm"}
        /\ ~stopped'
    BY <2>1, UnpauseKeeps DEF StoppedIsPaused
  <2>3. PauseTypes' /\ KillTypes'
    BY <1>1, <2>1, <2>2 DEF PauseTypes, KillTypes, KillState, LockedState, main
  <2>4. LockHeld' /\ StoppedIsPaused'
    BY <1>1, <2>1, <2>2 DEF LockHeld, LockedState, StoppedIsPaused, main
  <2> QED
    BY <1>1, <2>2, <2>3, <2>4, CallersLeave
       DEF CallerFrame, KillTellsTruth, Ladder, deadlines, poll
<1> QED
  BY <1>2, <1>3

LEMMA KillSignalsKeep ==
  ASSUME IInv, KillSigterm \/ KillGraceEnds
  PROVE  IInv'
<1> USE DEF IInv, TypeOK
<1>1. UNCHANGED <<live, stopped, log_mtime, clock, outcome, pausing, timeout_start, kill_lock,
                  poll, main, killReaped>>
  BY DEF KillSigterm, KillGraceEnds, processes
<1>2. /\ killPc \notin {"idle", "sigcont", "done"}
      /\ killPc' \in {"grace", "reap"}
  BY DEF KillSigterm, KillGraceEnds
<1>3. PauseTypes' /\ PollTypes' /\ KillTypes'
  BY <1>1 DEF KillSigterm, KillGraceEnds, PauseTypes, PollTypes, KillTypes, KillState, pausing,
              poll, main
<1>4. ProcessTypes' /\ DeadlineTypes'
  <2>1. CASE KillSigterm
    BY <1>1, <2>1 DEF KillSigterm, ProcessTypes, DeadlineTypes, Time, processes, clock, outcome
  <2>2. CASE KillGraceEnds
    BY <1>1, <2>2 DEF KillGraceEnds, ProcessTypes, DeadlineTypes, clock, outcome
  <2> QED
    BY <2>1, <2>2
<1>5. LockHeld' /\ StoppedIsPaused'
  BY <1>1, <1>2 DEF LockHeld, StoppedIsPaused, pausing, main
<1>6. DoneMeansGone' /\ KillTellsTruth'
  BY <1>1, <1>2 DEF DoneMeansGone, KillTellsTruth, GroupExists, outcome
<1>7. Ladder'
  <2>1. CASE KillSigterm
    BY <1>1, <2>1 DEF KillSigterm, Ladder, DeadlineTypes, Time, processes, poll
  <2>2. CASE KillGraceEnds
    BY <1>1, <2>2 DEF KillGraceEnds, Ladder, poll
  <2> QED
    BY <2>1, <2>2
<1> QED
  BY <1>3, <1>4, <1>5, <1>6, <1>7

LEMMA KillWaitsKeep ==
  ASSUME IInv, KillReaps \/ KillEnds
  PROVE  IInv'
<1> USE DEF IInv, TypeOK
<1>1. UNCHANGED <<processes, clock, deadlines, pausing, timeout_start, poll, main>>
  BY DEF KillReaps, KillEnds
<1>2. ProcessTypes' /\ PollTypes'
  BY <1>1 DEF ProcessTypes, PollTypes, processes, clock, poll
<1>3. CASE KillReaps
  <2>1. /\ UNCHANGED <<kill_lock, outcome>> /\ killPc' \in {"reapAgain", "scan"}
        /\ killPc \in {"reap", "reapAgain"} /\ killLimit' = KillGrace
        /\ killReaped' \in BOOLEAN
    BY <1>3 DEF KillReaps
  <2>2. DeadlineTypes' /\ PauseTypes' /\ KillTypes'
    BY <1>1, <2>1 DEF DeadlineTypes, PauseTypes, KillTypes, KillState, deadlines, outcome,
                      pausing, main
  <2>3. LockHeld' /\ StoppedIsPaused' /\ Ladder'
    BY <1>1, <2>1 DEF LockHeld, StoppedIsPaused, Ladder, processes, deadlines, pausing, poll, main
  <2> QED
    BY <1>1, <1>2, <2>1, <2>2, <2>3
       DEF DoneMeansGone, KillTellsTruth, GroupExists, processes, outcome
<1>4. CASE KillEnds
  <2>1. /\ kill_lock' = "free" /\ killPc = "scan" /\ killPc' = "done" /\ done' = TRUE
        /\ killLimit' = 0 /\ killReaped' = (killReaped /\ ~GroupExists)
        /\ shutdown_incomplete' = (shutdown_incomplete \/ ~killReaped')
    BY <1>4 DEF KillEnds
  <2>2. killReaped' \in BOOLEAN /\ shutdown_incomplete' \in BOOLEAN
    BY <2>1
  <2>3. DeadlineTypes' /\ PauseTypes' /\ KillTypes'
    BY <1>1, <2>1, <2>2 DEF DeadlineTypes, PauseTypes, KillTypes, KillState, deadlines, pausing,
                            main
  <2>4. LockHeld' /\ StoppedIsPaused'
    BY <1>1, <2>1 DEF LockHeld, StoppedIsPaused, processes, pausing, main
  <2>5. Ladder'
    BY <1>1, <2>1 DEF Ladder, processes, deadlines, poll
  <2>6. DoneMeansGone' /\ KillTellsTruth'
    BY <1>1, <2>1 DEF DoneMeansGone, KillTellsTruth, GroupExists, processes
  <2> QED
    BY <1>2, <2>3, <2>4, <2>5, <2>6
<1> QED
  BY <1>3, <1>4
-----------------------------------------------------------------------------
LEMMA NextKeeps == IInv /\ [Next]_vars => IInv'
<1> SUFFICES ASSUME IInv, [Next]_vars PROVE IInv'
  OBVIOUS
<1>1. CASE UNCHANGED vars
  <2>1. PollFrame /\ UNCHANGED <<killed, deadlines, outcome, timeout_start, poll>>
    BY <1>1 DEF vars, PollFrame, processes
  <2>2. PollTypes' /\ (pollPc' \in {"reap", "reapAgain", "scan"} => killed)
    BY <2>1 DEF IInv, TypeOK, PollTypes, Ladder, poll
  <2> QED
    BY <2>1, <2>2, NothingSent DEF IInv, TypeOK, DeadlineTypes
<1> QED
  BY <1>1, TickKeeps, EnvironmentKeeps, PollKeeps, PauseKeeps, ResumeKeeps, KillBeginKeeps,
     KillSignalsKeep, KillWaitsKeep DEF Next, Killer, Finished

\* The inductive invariant holds for every grace time, timeout and number of
\* pauses.
THEOREM RunnerInvariant == Spec => []IInv
BY InitIInv, NextKeeps, PTL DEF Spec

\* Every field of the runner keeps its type.
THEOREM RunnerTypeCorrect == Spec => []TypeOK
<1>1. IInv => TypeOK
  BY DEF IInv
<1> QED
  BY <1>1, RunnerInvariant, PTL

\* A runner that is done without saying otherwise has no process left.
THEOREM DoneIsGone == Spec => []DoneMeansGone
<1>1. IInv => DoneMeansGone
  BY DEF IInv
<1> QED
  BY <1>1, RunnerInvariant, PTL

\* kill() returns True only when nothing is left.
THEOREM KillIsTruthful == Spec => []KillTellsTruth
<1>1. IInv => KillTellsTruth
  BY DEF IInv
<1> QED
  BY <1>1, RunnerInvariant, PTL

\* kill() never waits for a stopped group to react to SIGTERM.
THEOREM KillWakes == Spec => []KillWakesGroup
<1>1. IInv => KillWakesGroup
  BY DEF IInv, StoppedIsPaused, KillWakesGroup
<1> QED
  BY <1>1, RunnerInvariant, PTL

\* Whoever sends SIGKILL, the poll or kill(), the group had the grace time of
\* SIGTERM, unless the poll raised an exception.
THEOREM KilledAfterGrace == Spec => GraceBeforeSigkill
<1>1. ASSUME IInv, [Next]_vars, killed', ~killed
      PROVE  pollPc = "error" \/ told = TermGrace
  <2> USE DEF IInv
  <2>1. CASE KillGraceEnds
    BY <1>1, <2>1 DEF KillGraceEnds, Ladder, TypeOK, DeadlineTypes, KillTypes, Time
  <2>2. CASE SendSigkill /\ TermDeadlinePassed
    BY <1>1, <2>2 DEF TermDeadlinePassed, Ladder, TypeOK, DeadlineTypes, KillTypes, Time
  <2>3. CASE PollError
    BY <1>1, <2>3 DEF PollError, HandleError, processes
  <2>4. KillGraceEnds \/ (SendSigkill /\ TermDeadlinePassed) \/ PollError \/ UNCHANGED killed
    BY <1>1
       DEF Next, vars, Poll, StartPoll, ShellExited, Escalate, ReadClock, CheckPaused, ReadStart,
           ReadFlag, ReadSince, Decide, Pause, PauseCheck, PauseStep, Resume, ResumeStarts,
           Abort, KillStarts, Killer, KillUnpauses, KillSigterm, KillReaps, KillEnds,
           Environment, StartsBackground, WritesLog, ProcessEnds, Tick, Finished, processes
  <2> QED
    BY <1>1, <2>1, <2>2, <2>3, <2>4
<1>2. IInv /\ [Next]_vars => [killed' /\ ~killed => pollPc = "error" \/ told = TermGrace]_vars
  BY <1>1
<1> QED
  BY <1>2, RunnerInvariant, PTL DEF Spec, GraceBeforeSigkill
-----------------------------------------------------------------------------
(* The runner implements RunnerContract. *)

\* No process comes back, and no signal is taken back
LEMMA NothingUndone ==
  ASSUME IInv, [Next]_vars
  PROVE  /\ live = {} => live' = {}
         /\ "shell" \notin live => "shell" \notin live'
         /\ told # None => told' # None
         /\ killed => killed'
<1>1. CASE Tick
  <2>1. CASE told \in Nat
    BY <1>1, <2>1, MinOfTwo DEF Tick, processes
  <2> QED
    BY <1>1, <2>1 DEF Tick, processes, IInv, TypeOK, DeadlineTypes, Time
<1>2. CASE Environment
  BY <1>2 DEF Environment, ProcessEnds, StartsBackground, WritesLog, deadlines
<1>3. CASE PollError
  BY <1>3 DEF PollError, HandleError, processes, deadlines
<1>4. CASE ShellExited \/ CheckPaused \/ Decide
  BY <1>4 DEF ShellExited, CheckPaused, Decide, Escalate, SendSigkill, PollSigterm, processes,
              deadlines
<1>5. CASE KillSigterm \/ KillGraceEnds
  <2>1. CASE KillSigterm
    BY <2>1 DEF KillSigterm, processes
  <2>2. CASE KillGraceEnds
    BY <2>2 DEF KillGraceEnds
  <2> QED
    BY <1>5, <2>1, <2>2
<1>6. \/ Tick \/ Environment \/ PollError \/ ShellExited \/ CheckPaused \/ Decide
      \/ KillSigterm \/ KillGraceEnds \/ UNCHANGED <<live, killed, told>>
  BY DEF Next, vars, Poll, StartPoll, ReadClock, ReadStart, ReadFlag, ReadSince, Pause,
         PauseCheck, PauseStep, Resume, ResumeStarts, Abort, KillStarts, Killer, KillUnpauses,
         KillReaps, KillEnds, Finished, processes, deadlines
<1> QED
  BY <1>1, <1>2, <1>3, <1>4, <1>5, <1>6

\* The verdict changes when a thread says that the runner is done, and it does
\* not say so of a group that nobody tried to end
LEMMA VerdictChanges ==
  ASSUME IInv, [Next]_vars
  PROVE  \/ VerdictState' = VerdictState
         \/ /\ done' /\ UNCHANGED <<live, stopped, killed, told>>
            /\ GroupState # "running"
<1> USE DEF IInv, TypeOK
<1>1. CASE KillEnds
  <2>1. told # None
    BY <1>1 DEF KillEnds, Ladder
  <2> QED
    BY <1>1, <2>1 DEF KillEnds, GroupState, processes, deadlines
<1>2. CASE KillReaps
  BY <1>2 DEF KillReaps, VerdictState, outcome
<1>3. CASE Escalate /\ UNCHANGED killer
  <2>1. CASE UNCHANGED outcome
    BY <1>3, <2>1 DEF VerdictState, outcome, killer
  <2>2. CASE OwnershipWait /\ kill_sent /\ UNCHANGED <<processes, deadlines>>
    BY <2>2 DEF OwnershipWait, Ladder, GroupState, processes, deadlines, VerdictState, outcome,
                killer
  <2> QED
    BY <1>3, <2>1, <2>2 DEF Escalate
<1>4. CASE ShellExited
  <2>1. CASE ~GroupExists /\ done' = TRUE /\ UNCHANGED <<processes, deadlines>>
    BY <2>1 DEF GroupState, processes, deadlines
  <2>2. CASE Escalate
    BY <1>3, <1>4, <2>2 DEF ShellExited
  <2>3. CASE UNCHANGED <<outcome, killer>>
    BY <2>3 DEF VerdictState, outcome, killer
  <2> QED
    BY <1>4, <2>1, <2>2, <2>3 DEF ShellExited
<1>5. CASE CheckPaused
  <2>1. Escalate \/ UNCHANGED outcome
    BY <1>5 DEF CheckPaused
  <2> QED
    BY <1>3, <1>5, <2>1 DEF CheckPaused, VerdictState, outcome, killer
<1>6. CASE PollError
  <2>1. CASE pollPc = "scan"
    BY <1>6, <2>1 DEF PollError, HandleError, Ladder, GroupState, processes, deadlines
  <2>2. CASE pollPc # "scan"
    BY <1>6, <2>2 DEF PollError, HandleError, VerdictState, outcome, killer
  <2> QED
    BY <2>1, <2>2
<1>7. CASE KillStarts \/ KillUnpauses \/ KillSigterm \/ KillGraceEnds
  <2>1. UNCHANGED outcome /\ killPc # "done" /\ killPc' # "done"
    BY <1>7 DEF KillStarts, KillUnpauses, Unpause, KillSigterm, KillGraceEnds
  <2> QED
    BY <2>1 DEF VerdictState, outcome
<1>8. CASE Tick
  BY <1>8 DEF Tick, VerdictState, outcome
<1>9. \/ UNCHANGED <<outcome, killer>>
      \/ Tick \/ KillEnds \/ KillReaps \/ ShellExited \/ CheckPaused \/ PollError
      \/ KillStarts \/ KillUnpauses \/ KillSigterm \/ KillGraceEnds
  BY DEF Next, vars, Poll, StartPoll, ReadClock, ReadStart, ReadFlag, ReadSince, Decide, Pause,
         PauseCheck, PauseStep, Resume, ResumeStarts, Abort, Killer, Finished,
         Environment, StartsBackground, WritesLog, ProcessEnds
<1>10. CASE UNCHANGED <<outcome, killer>>
  BY <1>10 DEF VerdictState, outcome, killer
<1> QED
  BY <1>1, <1>2, <1>4, <1>5, <1>6, <1>7, <1>8, <1>9, <1>10

LEMMA ContractStep ==
  ASSUME IInv, [Next]_vars
  PROVE  [Contract!Next]_(Contract!contractVars)
<1>1. IInv'
  BY NextKeeps
<1>2. CASE VerdictState' = VerdictState
  <2>1. /\ GroupState = "exited" => GroupState' = "exited"
        /\ GroupState = "closing" => GroupState' # "running"
    BY NothingUndone DEF GroupState, GroupExists
  <2>2. /\ GroupState \in {"running", "stopped", "closing", "exited"}
        /\ GroupState' \in {"running", "stopped", "closing", "exited"}
    BY DEF GroupState
  <2> QED
    BY <1>2, <2>1, <2>2
       DEF Contract!Next, Contract!contractVars, Contract!Stop, Contract!Continue,
           Contract!Close, Contract!Exit
<1>3. CASE /\ done' /\ UNCHANGED <<live, stopped, killed, told>>
           /\ GroupState # "running"
  <2>1. GroupState' = GroupState
    BY <1>3 DEF GroupState, GroupExists
  <2>2. VerdictState' = "gone" => GroupState' = "exited"
    BY <1>1, <1>3 DEF IInv, DoneMeansGone, KillTellsTruth, VerdictState, GroupState
  <2>3. VerdictState' \in {"gone", "left"}
    BY <1>3 DEF VerdictState
  <2> QED
    BY <1>3, <2>1, <2>2, <2>3
       DEF Contract!Next, Contract!contractVars, Contract!ReportGone, Contract!GiveUp
<1> QED
  BY <1>2, <1>3, VerdictChanges

\* The runner implements RunnerContract: whatever the threads do, a group that
\* is said to be gone has exited, a closing group is never running again, and
\* no running group is given up.
THEOREM RunnerImplements == Spec => ImplementsContract
<1>1. Init => Contract!Init
  BY DEF Init, Contract!Init, GroupState, VerdictState, GroupExists
<1>2. IInv /\ [Next]_vars => [Contract!Next]_(Contract!contractVars)
  BY ContractStep
<1> QED
  BY <1>1, <1>2, RunnerInvariant, PTL DEF Spec, ImplementsContract, Contract!Spec
-----------------------------------------------------------------------------
(* The time that is charged. *)

\* The larger of two numbers
LEMMA MaxOfTwo ==
  ASSUME NEW a \in Nat, NEW b \in Nat
  PROVE  Max({a, b}) = IF a >= b THEN a ELSE b
BY DEF Max

LEMMA OverlapOf ==
  ASSUME NEW a \in Nat, NEW b \in Nat, NEW start \in Nat, NEW end \in Nat
  PROVE  Overlap(<<a, b>>, start, end) =
           LET from == IF start >= a THEN start ELSE a
               to == IF end <= b THEN end ELSE b
           IN IF to > from THEN to - from ELSE 0
BY MaxOfTwo, MinOfTwo DEF Overlap

LEMMA OverlapType ==
  ASSUME NEW a \in Nat, NEW b \in Nat, NEW start \in Nat, NEW end \in Nat
  PROVE  Overlap(<<a, b>>, start, end) \in Nat
BY OverlapOf

\* An interval that is over covers nothing of what comes later
LEMMA OverlapLater ==
  ASSUME NEW a \in Nat, NEW b \in Nat, NEW start \in Nat, NEW end \in Nat, NEW later \in Nat,
         b <= end, end <= later
  PROVE  Overlap(<<a, b>>, start, later) = Overlap(<<a, b>>, start, end)
<1>1. Max({start, a}) = IF start >= a THEN start ELSE a
  BY MaxOfTwo
<1>2. Min({end, b}) = b /\ Min({later, b}) = b
  BY MinOfTwo
<1> QED
  BY <1>1, <1>2 DEF Overlap

\* How far an interval goes beyond the end does not matter
LEMMA OverlapUpTo ==
  ASSUME NEW a \in Nat, NEW b \in Nat, NEW start \in Nat, NEW end \in Nat, end <= b
  PROVE  Overlap(<<a, b>>, start, end) = Overlap(<<a, end>>, start, end)
<1>1. Max({start, a}) = IF start >= a THEN start ELSE a
  BY MaxOfTwo
<1>2. Min({end, b}) = end /\ Min({end, end}) = end
  BY MinOfTwo
<1> QED
  BY <1>1, <1>2 DEF Overlap

\* An interval that goes on covers one tick more when time passes
LEMMA OverlapTick ==
  ASSUME NEW a \in Nat, NEW start \in Nat, NEW end \in Nat, a <= end, start <= end
  PROVE  Overlap(<<a, end + 1>>, start, end + 1) = Overlap(<<a, end>>, start, end) + 1
<1>1. /\ Max({start, a}) = IF start >= a THEN start ELSE a
      /\ Max({start, a}) \in Nat /\ Max({start, a}) <= end
  BY MaxOfTwo
<1>2. Min({end, end}) = end /\ Min({end + 1, end + 1}) = end + 1
  BY MinOfTwo
<1> QED
  BY <1>1, <1>2 DEF Overlap

LEMMA CoverType ==
  ASSUME NEW from \in Time, NEW to \in Nat, NEW start \in Nat, NEW end \in Nat
  PROVE  Cover(<<from, to>>, start, end) \in Nat
<1>1. CASE from = None
  BY <1>1 DEF Cover
<1>2. CASE from \in Nat
  BY <1>2, OverlapType DEF Cover
<1> QED
  BY <1>1, <1>2 DEF Time

\* What the intervals of a list cover are natural numbers
LEMMA IntervalOf ==
  ASSUME NEW L \in Intervals, NEW i \in 1..Len(L)
  PROVE  \E from \in Time, to \in Nat : L[i] = <<from, to>>
<1>1. L[i] \in Time \X Nat
  BY DEF Intervals
<1> QED
  BY <1>1

LEMMA CoversType ==
  ASSUME NEW L \in Intervals, NEW start \in Nat, NEW end \in Nat
  PROVE  /\ DOMAIN L = 1..Len(L) /\ Len(L) \in Nat
         /\ DOMAIN Covers(L, start, end) = 1..Len(L)
         /\ \A i \in 1..Len(L) : /\ Covers(L, start, end)[i] = Cover(L[i], start, end)
                                 /\ Covers(L, start, end)[i] \in Nat
<1>1. DOMAIN L = 1..Len(L) /\ Len(L) \in Nat
  BY DEF Intervals
<1>2. ASSUME NEW i \in 1..Len(L) PROVE Cover(L[i], start, end) \in Nat
  <2>1. PICK from \in Time, to \in Nat : L[i] = <<from, to>>
    BY IntervalOf
  <2> QED
    BY <2>1, CoverType
<1> QED
  BY <1>1, <1>2 DEF Covers

LEMMA PausedIsSum ==
  ASSUME NEW L \in Intervals, NEW start \in Nat, NEW end \in Nat
  PROVE  /\ Paused(L, start, end) = SumFunctionOnSet(Covers(L, start, end), 1..Len(L))
         /\ Paused(L, start, end) \in Nat
<1> DEFINE f == Covers(L, start, end)
<1>1. Paused(L, start, end) = SumFunctionOnSet(f, DOMAIN f)
  BY Zenon DEF Paused, FoldSeq, FoldFunction, SumFunctionOnSet, FoldFunctionOnSet,
     MapThenFoldSet
<1>2. DOMAIN f = 1..Len(L)
  BY CoversType
<1>3. IsFiniteSet(1..Len(L)) /\ \A i \in 1..Len(L) : f[i] \in Nat
  BY CoversType, FS_Interval
<1> HIDE DEF f
<1>4. SumFunctionOnSet(f, 1..Len(L)) \in Nat
  BY <1>3, SumNatural
<1> QED
  BY <1>1, <1>2, <1>4, Zenon DEF f

\* One more interval covers what it covers
LEMMA PausedAppend ==
  ASSUME NEW L \in Intervals, NEW from \in Time, NEW to \in Nat, NEW start \in Nat, NEW end \in Nat
  PROVE  Paused(Append(L, <<from, to>>), start, end) =
           Cover(<<from, to>>, start, end) + Paused(L, start, end)
<1> DEFINE M == Append(L, <<from, to>>)
           n == Len(L)
           f == Covers(L, start, end)
           g == Covers(M, start, end)
<1>1. <<from, to>> \in Time \X Nat
  OBVIOUS
<1>2. M \in Intervals /\ Len(M) = n + 1 /\ n \in Nat
  BY <1>1 DEF Intervals
<1>3. M[n + 1] = <<from, to>>
  BY <1>1 DEF Intervals
<1>4. \A i \in 1..n : M[i] = L[i]
  BY <1>1 DEF Intervals
<1> HIDE DEF M
<1>5. \A i \in 1..n : f[i] \in Nat /\ f[i] = Cover(L[i], start, end)
  BY CoversType
<1>6. \A i \in 1..(n + 1) : g[i] \in Nat /\ g[i] = Cover(M[i], start, end)
  BY <1>2, CoversType
<1> HIDE DEF f, g, n
<1>7. ASSUME NEW i \in 1..n PROVE f[i] \in Int /\ g[i] = f[i]
  <2>1. i \in 1..(n + 1)
    BY <1>2
  <2> QED
    BY <2>1, <1>4, <1>5, <1>6
<1>8. g[n + 1] \in Int /\ g[n + 1] = Cover(<<from, to>>, start, end)
  <2>1. n + 1 \in 1..(n + 1)
    BY <1>2
  <2> QED
    BY <2>1, <1>3, <1>6
<1>9. SumFunctionOnSet(g, 1..(n + 1)) = g[n + 1] + SumFunctionOnSet(f, 1..n)
  BY <1>2, <1>7, <1>8, SumAppend
<1>10. Paused(M, start, end) = SumFunctionOnSet(g, 1..Len(M))
  BY <1>2, PausedIsSum DEF g
<1>11. Paused(L, start, end) = SumFunctionOnSet(f, 1..n)
  BY PausedIsSum DEF f, n
<1>12. Paused(M, start, end) = Cover(<<from, to>>, start, end) + Paused(L, start, end)
  BY <1>2, <1>8, <1>9, <1>10, <1>11
<1> QED
  BY <1>12 DEF M

\* When all of its intervals are over, a list covers nothing of what comes later
LEMMA PausedLater ==
  ASSUME NEW L \in Intervals, NEW start \in Nat, NEW end \in Nat, NEW later \in Nat,
         end <= later, \A i \in DOMAIN L : L[i][2] <= end
  PROVE  Paused(L, start, later) = Paused(L, start, end)
<1> DEFINE f == Covers(L, start, end)
           g == Covers(L, start, later)
<1>2. ASSUME NEW i \in 1..Len(L) PROVE g[i] = f[i] /\ f[i] \in Int
  <2>1. PICK from \in Time, to \in Nat : L[i] = <<from, to>>
    BY IntervalOf
  <2>2. to <= end
    BY <2>1, CoversType
  <2>3. /\ f[i] \in Nat /\ f[i] = Cover(<<from, to>>, start, end)
        /\ g[i] = Cover(<<from, to>>, start, later)
    <3>1. f[i] \in Nat /\ f[i] = Cover(L[i], start, end)
      BY CoversType
    <3>2. g[i] = Cover(L[i], start, later)
      BY CoversType
    <3> QED
      BY <2>1, <3>1, <3>2, Zenon
  <2> HIDE DEF f, g
  <2>4. CASE from = None
    BY <2>3, <2>4 DEF Cover
  <2>5. CASE from \in Nat
    <3>1. Overlap(<<from, to>>, start, later) = Overlap(<<from, to>>, start, end)
      BY <2>2, <2>5, OverlapLater
    <3> QED
      BY <2>3, <3>1 DEF Cover
  <2> QED
    BY <2>4, <2>5 DEF Time
<1>3. IsFiniteSet(1..Len(L))
  BY CoversType, FS_Interval
<1> HIDE DEF f, g
<1>4. SumFunctionOnSet(g, 1..Len(L)) = SumFunctionOnSet(f, 1..Len(L))
  BY <1>2, <1>3, SumSame
<1> QED
  BY <1>4, PausedIsSum DEF f, g

\* Types of what is excused
LEMMA PauseKnown ==
  ASSUME TypeOK
  PROVE  /\ paused_at \in Time /\ pause_intervals \in Intervals /\ now \in Nat /\ ran \in Nat
         /\ pollNow \in Nat /\ pollIntervals \in Intervals /\ timeout_start \in Time
         /\ PauseGoesOn => paused_at \in Nat
BY DEF TypeOK, PauseTypes, PollTypes, ProcessTypes, DeadlineTypes, PauseGoesOn, Time

LEMMA PausingType ==
  TypeOK => \A start \in Nat, end \in Nat : Pausing(start, end) \in Nat
<1> SUFFICES ASSUME TypeOK, NEW start \in Nat, NEW end \in Nat PROVE Pausing(start, end) \in Nat
  OBVIOUS
<1>1. CASE PauseGoesOn
  BY <1>1, PauseKnown, OverlapType DEF Pausing
<1>2. CASE ~PauseGoesOn
  BY <1>2 DEF Pausing
<1> QED
  BY <1>1, <1>2

LEMMA ExcusedType ==
  TypeOK => \A start \in Nat, end \in Nat :
              /\ Paused(pause_intervals, start, end) \in Nat
              /\ Excused(start, end) \in Nat
<1> SUFFICES ASSUME TypeOK, NEW start \in Nat, NEW end \in Nat
             PROVE  /\ Paused(pause_intervals, start, end) \in Nat
                    /\ Excused(start, end) \in Nat
  OBVIOUS
<1>1. Paused(pause_intervals, start, end) \in Nat
  BY PauseKnown, PausedIsSum
<1>2. Pausing(start, end) \in Nat
  BY PausingType
<1> QED
  BY <1>1, <1>2 DEF Excused

\* ... also after a step
LEMMA ExcusedNext ==
  TypeOK' => \A start \in Nat, end \in Nat :
               Excused(start, end)' \in Nat /\ Pausing(start, end)' \in Nat
<1>1. (TypeOK => \A start \in Nat, end \in Nat :
                   Excused(start, end) \in Nat /\ Pausing(start, end) \in Nat)'
  <2>1. TypeOK => \A start \in Nat, end \in Nat :
                   Excused(start, end) \in Nat /\ Pausing(start, end) \in Nat
    BY ExcusedType, PausingType
  <2> QED
    BY <2>1, PTL
<1> QED
  BY <1>1

\* A step that excuses no less than before, at no moment of the past
ExcusesNoLess ==
  /\ ran' >= ran
  /\ \A end \in 0..now : \A start \in 0..end :
       /\ Excused(start, end) <= Excused(start, end)'
       /\ Paused(pause_intervals, start, end) <= Paused(pause_intervals', start, end)

\* ... leaves what was charged rightly
LEMMA ChargesStay ==
  ASSUME TypeOK, TypeOK', ExcusesNoLess, NEW end \in 0..now
  PROVE  /\ ChargedNow(end) => ChargedNow(end)'
         /\ Charged(pause_intervals, end) => Charged(pause_intervals, end)'
         /\ \A L \in Intervals : Charged(L, end) => Charged(L, end)'
<1>1. /\ ran \in Nat /\ ran' \in Nat /\ now \in Nat /\ end \in Nat /\ 0..end \subseteq Nat
      /\ pause_intervals \in Intervals /\ pause_intervals' \in Intervals /\ ran <= ran'
  BY DEF TypeOK, ProcessTypes, PauseTypes, ExcusesNoLess
<1>2. ASSUME ChargedNow(end) PROVE ChargedNow(end)'
  <2> SUFFICES ASSUME NEW start \in 0..end PROVE end - start <= ran' + Excused(start, end)'
    BY DEF ChargedNow
  <2>1. start \in Nat /\ end \in Nat
    BY <1>1
  <2>2. Excused(start, end) \in Nat /\ Excused(start, end)' \in Nat
    BY <2>1, ExcusedType, ExcusedNext
  <2>3. end - start <= ran + Excused(start, end)
    BY <1>2 DEF ChargedNow
  <2>4. Excused(start, end) <= Excused(start, end)'
    BY DEF ExcusesNoLess
  <2> QED
    BY <1>1, <2>1, <2>2, <2>3, <2>4
<1>3. ASSUME Charged(pause_intervals, end) PROVE Charged(pause_intervals, end)'
  <2> SUFFICES ASSUME NEW start \in 0..end
               PROVE  end - start <= ran' + Paused(pause_intervals', start, end)
    BY DEF Charged
  <2>1. /\ Paused(pause_intervals, start, end) \in Nat
        /\ Paused(pause_intervals', start, end) \in Nat
    BY <1>1, PausedIsSum
  <2>2. end - start <= ran + Paused(pause_intervals, start, end)
    BY <1>3 DEF Charged
  <2>3. Paused(pause_intervals, start, end) <= Paused(pause_intervals', start, end)
    BY DEF ExcusesNoLess
  <2> QED
    BY <1>1, <2>1, <2>2, <2>3
<1>4. ASSUME NEW L \in Intervals, Charged(L, end) PROVE Charged(L, end)'
  <2> SUFFICES ASSUME NEW start \in 0..end
               PROVE  end - start <= ran' + Paused(L, start, end)
    BY DEF Charged
  <2>1. Paused(L, start, end) \in Nat
    BY <1>1, PausedIsSum
  <2>2. end - start <= ran + Paused(L, start, end)
    BY <1>4 DEF Charged
  <2> QED
    BY <1>1, <2>1, <2>2
<1> QED
  BY <1>2, <1>3, <1>4

\* The list and the beginning of the pause are what they were: the pause that
\* goes on excuses what it did, or begins to.
LEMMA SameListExcuses ==
  ASSUME TypeOK, TypeOK', ran' = ran \/ ran' = ran + 1, pause_intervals' = pause_intervals,
         PauseGoesOn => PauseGoesOn' /\ paused_at' = paused_at
  PROVE  ExcusesNoLess
<1>1. /\ ran \in Nat /\ now \in Nat
      /\ pause_intervals \in Intervals /\ pause_intervals' \in Intervals
  BY DEF TypeOK, ProcessTypes, PauseTypes
<1>2. ASSUME NEW end \in 0..now, NEW start \in 0..end
      PROVE  /\ Excused(start, end) <= Excused(start, end)'
             /\ Paused(pause_intervals, start, end) <= Paused(pause_intervals', start, end)
  <2>1. start \in Nat /\ end \in Nat
    BY <1>1
  <2>2. Paused(pause_intervals, start, end) \in Nat
    BY <1>1, <2>1, PausedIsSum
  <2>3. Pausing(start, end) \in Nat /\ Pausing(start, end)' \in Nat
    BY <2>1, PausingType, ExcusedNext
  <2>4. Pausing(start, end) <= Pausing(start, end)'
    <3>1. CASE PauseGoesOn
      <4>1. Pausing(start, end)' = Pausing(start, end)
        BY <3>1 DEF Pausing
      <4> QED
        BY <2>3, <4>1
    <3>2. CASE ~PauseGoesOn
      BY <2>3, <3>2 DEF Pausing
    <3> QED
      BY <3>1, <3>2
  <2> QED
    BY <2>2, <2>3, <2>4 DEF Excused
<1> QED
  BY <1>1, <1>2 DEF ExcusesNoLess

\* The pause is put on the list
LEMMA AppendExcuses ==
  ASSUME TypeOK, TypeOK', ran' = ran,
         pause_intervals' = Append(pause_intervals, <<paused_at, now>>)
  PROVE  ExcusesNoLess
<1>1. /\ ran \in Nat /\ now \in Nat /\ paused_at \in Time
      /\ pause_intervals \in Intervals /\ pause_intervals' \in Intervals
  BY DEF TypeOK, ProcessTypes, PauseTypes
<1>2. ASSUME NEW end \in 0..now, NEW start \in 0..end
      PROVE  /\ Excused(start, end) <= Excused(start, end)'
             /\ Paused(pause_intervals, start, end) <= Paused(pause_intervals', start, end)
  <2> DEFINE more == Cover(<<paused_at, now>>, start, end)
  <2>1. start \in Nat /\ end \in Nat /\ end <= now
    BY <1>1
  <2>2. Paused(pause_intervals, start, end) \in Nat
    BY <1>1, <2>1, PausedIsSum
  <2>3. Paused(pause_intervals', start, end) = more + Paused(pause_intervals, start, end)
    BY <1>1, <2>1, PausedAppend
  <2>4. Pausing(start, end) \in Nat /\ Pausing(start, end)' \in Nat
    BY <2>1, PausingType, ExcusedNext
  <2>5. more \in Nat
    BY <1>1, <2>1, CoverType
  <2>6. Pausing(start, end) <= more
    <3>1. CASE PauseGoesOn
      <4>1. paused_at \in Nat /\ paused_at # None
        BY <3>1, PauseKnown DEF PauseGoesOn
      <4>2. Pausing(start, end) = more
        BY <1>1, <2>1, <3>1, <4>1, OverlapUpTo DEF Pausing, Cover
      <4> QED
        BY <2>5, <4>2
    <3>2. CASE ~PauseGoesOn
      BY <2>5, <3>2 DEF Pausing
    <3> QED
      BY <3>1, <3>2
  <2>7. Excused(start, end)' = Paused(pause_intervals', start, end) + Pausing(start, end)'
    BY DEF Excused
  <2>8. Excused(start, end) = Paused(pause_intervals, start, end) + Pausing(start, end)
    BY DEF Excused
  <2> HIDE DEF more
  <2> QED
    BY <2>2, <2>3, <2>4, <2>5, <2>6, <2>7, <2>8
<1> QED
  BY <1>1, <1>2 DEF ExcusesNoLess
-----------------------------------------------------------------------------
(* Who changes what is excused. *)

\* What a poll has read stays right while the other threads go on
LEMMA PollReadStays ==
  ASSUME TypeOK, TypeOK', PollRead, ExcusesNoLess, now <= now',
         UNCHANGED <<pollPc, pollNow, pollIntervals, timeout_start>>
  PROVE  PollRead'
<1>1. pollNow \in Nat /\ now \in Nat /\ now' \in Nat /\ pollIntervals \in Intervals
  BY DEF TypeOK, PollTypes, ProcessTypes
<1>2. CASE pollNow \in 0..now
  <2>1. /\ ChargedNow(pollNow) => ChargedNow(pollNow)'
        /\ Charged(pause_intervals, pollNow) => Charged(pause_intervals, pollNow)'
        /\ Charged(pollIntervals, pollNow) => Charged(pollIntervals, pollNow)'
    <3> DEFINE end == pollNow  L == pollIntervals
    <3>1. end \in 0..now /\ L \in Intervals /\ end = pollNow /\ L = pollIntervals
      BY <1>1, <1>2
    <3>2. pollNow' = end /\ pollIntervals' = L
      OBVIOUS
    <3> HIDE DEF end, L
    <3> QED
      BY <3>1, <3>2, ChargesStay DEF ChargedNow, Charged
  <2> QED
    BY <1>1, <2>1 DEF PollRead
<1>3. CASE pollNow \notin 0..now
  BY <1>1, <1>3 DEF PollRead
<1> QED
  BY <1>2, <1>3

\* A step that neither begins nor ends a pause
NoPauseStep ==
  /\ UNCHANGED <<now, ran, paused, paused_at, pause_intervals, mainPc>> /\ (stopped' => stopped)
  /\ killPc' = killPc \/ (killPc \notin LockedState /\ killPc' \notin LockedState)

LEMMA NoPauseKeeps ==
  ASSUME TypeOK, TypeOK', TimeCharged, NoPauseStep
  PROVE  ExcusesNoLess /\ PauseOrder' /\ ChargedNow(now)'
<1>1. PauseGoesOn => PauseGoesOn' /\ paused_at' = paused_at
  BY DEF NoPauseStep, PauseGoesOn, LockedState
<1>2. ExcusesNoLess
  BY <1>1, SameListExcuses DEF NoPauseStep
<1>3. PauseOrder'
  BY DEF TimeCharged, PauseOrder, NoPauseStep, LockedState
<1>4. ChargedNow(now)'
  <2> DEFINE end == now
  <2>1. end \in 0..now /\ now' = end /\ end = now
    BY DEF TypeOK, ProcessTypes, NoPauseStep
  <2> HIDE DEF end
  <2>2. ChargedNow(end)
    BY <2>1 DEF TimeCharged
  <2> QED
    BY <1>2, <2>1, <2>2, ChargesStay DEF ChargedNow
<1> QED
  BY <1>2, <1>3, <1>4

\* A step that leaves the poll alone
LEMMA CallersCharge ==
  ASSUME TypeOK, TypeOK', TimeCharged, ExcusesNoLess, PauseOrder', now' = now,
         UNCHANGED <<pollPc, pollNow, pollIntervals, timeout_start, timed_out>>
  PROVE  TimeCharged'
<1>1. ChargedNow(now)'
  <2> DEFINE end == now
  <2>1. end \in 0..now /\ now' = end /\ end = now
    BY DEF TypeOK, ProcessTypes
  <2> HIDE DEF end
  <2>2. ChargedNow(end)
    BY <2>1 DEF TimeCharged
  <2> QED
    BY <2>1, <2>2, ChargesStay DEF ChargedNow
<1>2. PollRead'
  <2>1. now <= now'
    BY DEF TypeOK, ProcessTypes
  <2> QED
    BY <2>1, PollReadStays DEF TimeCharged
<1>3. NoEarlyTimeout'
  BY RunnerAssumption DEF TypeOK, ProcessTypes, TimeCharged, NoEarlyTimeout, ExcusesNoLess
<1> QED
  BY <1>1, <1>2, <1>3 DEF TimeCharged

\* The processes, and the waits of the kill thread
LEMMA OthersCharge ==
  ASSUME IInv, IInv', TimeCharged,
         Environment \/ KillStarts \/ KillSigterm \/ KillGraceEnds \/ KillReaps \/ KillEnds
           \/ UNCHANGED vars
  PROVE  TimeCharged'
<1>1. CASE KillStarts /\ killPc' = "sigcont"
  <2>1. /\ UNCHANGED <<now, ran, paused, paused_at, pause_intervals, mainPc, stopped>>
        /\ UNCHANGED <<pollPc, pollNow, pollIntervals, timeout_start, timed_out>>
        /\ killPc = "idle"
    BY <1>1 DEF KillStarts, processes, clock, deadlines, pausing, poll, main
  <2>2. PauseGoesOn => PauseGoesOn' /\ paused_at' = paused_at
    BY <1>1, <2>1 DEF PauseGoesOn
  <2>3. ExcusesNoLess
    BY <2>1, <2>2, SameListExcuses DEF IInv
  <2>4. PauseOrder'
    BY <1>1, <2>1 DEF TimeCharged, PauseOrder
  <2> QED
    BY <2>1, <2>3, <2>4, CallersCharge DEF IInv
<1>2. CASE ~(KillStarts /\ killPc' = "sigcont")
  <2>1. NoPauseStep
    <3>1. CASE Environment
      <4>1. /\ UNCHANGED <<clock, pausing, main, killer>> /\ (stopped' => stopped)
        <5>1. ASSUME NEW p \in Process, ProcessEnds(p)
              PROVE  UNCHANGED <<clock, pausing, main, killer>> /\ (stopped' => stopped)
          BY <5>1 DEF ProcessEnds
        <5> QED
          BY <3>1, <5>1 DEF Environment, StartsBackground, WritesLog
      <4> QED
        BY <4>1 DEF NoPauseStep, clock, pausing, main, killer
    <3>2. CASE KillStarts
      BY <1>2, <3>2 DEF KillStarts, NoPauseStep, LockedState, processes, clock, pausing, main
    <3>3. CASE KillSigterm \/ KillGraceEnds \/ KillReaps \/ KillEnds
      BY <3>3 DEF KillSigterm, KillGraceEnds, KillReaps, KillEnds, NoPauseStep, LockedState,
                  processes, clock, pausing, main
    <3>4. CASE UNCHANGED vars
      BY <3>4 DEF vars, NoPauseStep, processes, clock, pausing, main, killer
    <3> QED
      BY <3>1, <3>2, <3>3, <3>4
  <2>2. UNCHANGED <<pollPc, pollNow, pollIntervals, timeout_start, timed_out, now>>
    BY DEF Environment, StartsBackground, WritesLog, ProcessEnds, KillStarts, KillSigterm,
           KillGraceEnds, KillReaps, KillEnds, vars, poll, deadlines, clock
  <2> QED
    BY <2>1, <2>2, NoPauseKeeps, CallersCharge DEF IInv
<1> QED
  BY <1>1, <1>2

\* The statements that end a pause, whichever thread runs them
LEMMA UnpauseCharges ==
  ASSUME IInv, IInv', TimeCharged, NEW pc, NEW next, Unpause(pc, next), UNCHANGED <<now, ran>>,
         \/ /\ pc = mainPc /\ next = mainPc' /\ killPc' = killPc
            /\ killPc \in {"idle", "done"}
         \/ /\ pc = killPc /\ next = killPc' /\ mainPc' = mainPc
            /\ mainPc \in {"idle", "aborted"}
  PROVE  ExcusesNoLess /\ PauseOrder'
<1>1. TypeOK /\ TypeOK' /\ PauseOrder
  BY DEF IInv, TimeCharged
<1>2. /\ now \in Nat /\ paused_at \in Time
      /\ pause_intervals \in Intervals /\ pause_intervals' \in Intervals
  BY <1>1 DEF TypeOK, ProcessTypes, PauseTypes
<1>3. CASE pc = "sigcont"
  <2>1. ~stopped' /\ UNCHANGED <<paused, paused_at, pause_intervals>> /\ next = "append"
    BY <1>3 DEF Unpause, pausing
  <2>2. ExcusesNoLess
    BY <1>1, <1>3, <2>1, SameListExcuses DEF PauseGoesOn
  <2>3. PauseOrder'
    BY <1>1, <1>3, <2>1 DEF PauseOrder
  <2> QED
    BY <2>2, <2>3
<1>4. CASE pc = "append"
  <2>1. /\ UNCHANGED <<stopped, paused, paused_at>> /\ next = "clearPaused"
        /\ pause_intervals' = Append(pause_intervals, <<paused_at, now>>)
    BY <1>4 DEF Unpause
  <2>2. ExcusesNoLess
    BY <1>1, <2>1, AppendExcuses
  <2>3. ~stopped
    BY <1>4 DEF IInv, StoppedIsPaused
  <2>4. \A i \in DOMAIN pause_intervals' : pause_intervals'[i][2] <= now
    <3>1. <<paused_at, now>> \in Time \X Nat
      BY <1>2
    <3>2. ASSUME NEW i \in DOMAIN pause_intervals' PROVE pause_intervals'[i][2] <= now
      <4>1. CASE i \in DOMAIN pause_intervals
        <5>1. pause_intervals'[i] = pause_intervals[i]
          BY <1>2, <2>1, <3>1, <4>1 DEF Intervals
        <5> QED
          BY <1>1, <4>1, <5>1 DEF PauseOrder
      <4>2. CASE i \notin DOMAIN pause_intervals
        <5>1. pause_intervals'[i] = <<paused_at, now>>
          BY <1>2, <2>1, <3>1, <3>2, <4>2 DEF Intervals
        <5> QED
          BY <1>2, <5>1
      <4> QED
        BY <4>1, <4>2
    <3> QED
      BY <3>2
  <2>5. PauseOrder'
    BY <1>1, <1>4, <2>1, <2>3, <2>4 DEF PauseOrder
  <2> QED
    BY <2>2, <2>5
<1>5. CASE pc = "clearPaused"
  <2>1. /\ UNCHANGED <<stopped, paused_at, pause_intervals>> /\ next = "clearPausedAt"
        /\ paused' = FALSE
    BY <1>5 DEF Unpause
  <2>2. ExcusesNoLess
    BY <1>1, <1>5, <2>1, SameListExcuses DEF PauseGoesOn
  <2>3. ~stopped
    BY <1>5 DEF IInv, StoppedIsPaused
  <2>4. PauseOrder'
    BY <1>1, <1>5, <2>1, <2>3 DEF PauseOrder
  <2> QED
    BY <2>2, <2>4
<1>6. CASE pc = "clearPausedAt"
  <2>1. /\ UNCHANGED <<stopped, paused, pause_intervals>> /\ next \in {"idle", "sigterm"}
        /\ paused_at' = None
    BY <1>6 DEF Unpause
  <2>2. ~paused /\ ~stopped
    BY <1>1, <1>6 DEF PauseOrder, IInv, StoppedIsPaused
  <2>3. ExcusesNoLess
    BY <1>1, <2>1, <2>2, SameListExcuses DEF PauseGoesOn
  <2>4. PauseOrder'
    BY <1>1, <1>6, <2>1, <2>2 DEF PauseOrder
  <2> QED
    BY <2>3, <2>4
<1> QED
  BY <1>3, <1>4, <1>5, <1>6 DEF Unpause

\* The main thread
LEMMA MainCharges ==
  ASSUME IInv, IInv', TimeCharged, Pause \/ Resume \/ Abort
  PROVE  TimeCharged'
<1> USE DEF TimeCharged
<1>1. /\ UNCHANGED <<pollPc, pollNow, pollIntervals, timeout_start, timed_out, now, ran, killPc>>
      /\ TypeOK /\ TypeOK'
  BY DEF Pause, PauseCheck, PauseStep, Resume, ResumeStarts, Abort, poll, deadlines, clock,
         killer, IInv
<1> SUFFICES ExcusesNoLess /\ PauseOrder'
  BY <1>1, CallersCharge
<1>2. now \in Nat
  BY <1>1 DEF TypeOK, ProcessTypes
<1>3. CASE PauseCheck \/ ResumeStarts
  <2>1. /\ UNCHANGED <<stopped, paused, paused_at, pause_intervals>> /\ kill_lock = "free"
        /\ mainPc = "idle" /\ mainPc' \in {"setPaused", "sigcont"}
        /\ mainPc' = "setPaused" => ~paused
    BY <1>3 DEF PauseCheck, ResumeStarts, Takes, processes, pausing
  <2>2. killPc \in {"idle", "done"}
    BY <2>1 DEF IInv, LockHeld
  <2>3. ExcusesNoLess
    BY <1>1, <2>1, SameListExcuses DEF PauseGoesOn
  <2>4. PauseOrder'
    BY <1>1, <2>1, <2>2 DEF PauseOrder
  <2> QED
    BY <2>3, <2>4
<1>4. CASE PauseStep("setPaused", "setPausedAt") /\ paused' = TRUE
           /\ UNCHANGED <<paused_at, stopped>>
  <2>1. mainPc = "setPaused" /\ mainPc' = "setPausedAt" /\ UNCHANGED pause_intervals
    BY <1>4 DEF PauseStep
  <2>2. paused_at = None /\ paused_at' = None /\ killPc \in {"idle", "done"}
    BY <1>4, <2>1 DEF PauseOrder, IInv, LockHeld, LockedState
  <2>3. ExcusesNoLess
    BY <1>1, <2>1, <2>2, SameListExcuses DEF PauseGoesOn
  <2>4. PauseOrder'
    BY <1>1, <1>4, <2>1, <2>2 DEF PauseOrder
  <2> QED
    BY <2>3, <2>4
<1>5. CASE PauseStep("setPausedAt", "sigstop") /\ paused_at' = now
           /\ UNCHANGED <<paused, stopped>>
  <2>1. mainPc = "setPausedAt" /\ mainPc' = "sigstop" /\ UNCHANGED pause_intervals
    BY <1>5 DEF PauseStep
  <2>2. paused_at = None
    BY <2>1 DEF PauseOrder
  <2>3. ExcusesNoLess
    BY <1>1, <2>1, <2>2, SameListExcuses DEF PauseGoesOn
  <2>4. now' # None /\ now' <= now'
    BY <1>1, <1>2
  <2>5. PauseOrder'
    BY <1>1, <1>5, <2>1, <2>4 DEF PauseOrder
  <2> QED
    BY <2>3, <2>5
<1>6. CASE PauseStep("sigstop", "idle") /\ stopped' = (GroupExists /\ ~killed)
           /\ UNCHANGED <<paused, paused_at>>
  <2>1. mainPc = "sigstop" /\ mainPc' = "idle" /\ UNCHANGED pause_intervals
    BY <1>6 DEF PauseStep
  <2>2. paused_at # None /\ paused /\ killPc \in {"idle", "done"}
    BY <2>1 DEF PauseOrder, IInv, StoppedIsPaused, LockHeld, LockedState
  <2>3. ExcusesNoLess
    BY <1>1, <1>6, <2>1, SameListExcuses DEF PauseGoesOn
  <2>4. PauseOrder'
    BY <1>1, <1>6, <2>1, <2>2 DEF PauseOrder
  <2> QED
    BY <2>3, <2>4
<1>7. CASE Unpause(mainPc, mainPc') /\ mainPc' # "sigterm"
  <2>1. mainPc \in LockedState /\ killPc \in {"idle", "done"}
    BY <1>7 DEF Unpause, IInv, LockHeld, LockedState
  <2> QED
    BY <1>1, <1>7, <2>1, UnpauseCharges
<1>8. CASE Abort
  <2>1. /\ UNCHANGED <<stopped, paused, paused_at, pause_intervals>> /\ mainPc' = "aborted"
    BY <1>8 DEF Abort, processes, pausing
  <2>2. ExcusesNoLess
    BY <1>1, <2>1, SameListExcuses DEF PauseGoesOn
  <2>3. PauseOrder'
    BY <1>1, <2>1 DEF PauseOrder
  <2> QED
    BY <2>2, <2>3
<1> QED
  BY <1>3, <1>4, <1>5, <1>6, <1>7, <1>8 DEF Pause, Resume

\* The kill thread ends a pause
LEMMA KillUnpausesCharges ==
  ASSUME IInv, IInv', TimeCharged, KillUnpauses
  PROVE  TimeCharged'
<1>1. /\ UNCHANGED <<pollPc, pollNow, pollIntervals, timeout_start, timed_out, now, ran, mainPc>>
      /\ TypeOK /\ TypeOK' /\ Unpause(killPc, killPc')
  BY DEF KillUnpauses, poll, deadlines, clock, main, IInv
<1>2. mainPc \in {"idle", "aborted"}
  BY <1>1 DEF Unpause, IInv, LockHeld, LockedState, TypeOK, PauseTypes, MainState
<1>3. ExcusesNoLess /\ PauseOrder'
  BY <1>1, <1>2, UnpauseCharges
<1> QED
  BY <1>1, <1>3, CallersCharge

\* A tick is charged to the group, or excused by the pause that goes on
LEMMA TickCharges ==
  ASSUME IInv, IInv', TimeCharged, Tick
  PROVE  TimeCharged'
<1>1. /\ UNCHANGED <<pollPc, pollNow, pollIntervals, timeout_start, timed_out>>
      /\ UNCHANGED <<stopped, paused, paused_at, pause_intervals, mainPc, killPc>>
      /\ TypeOK /\ TypeOK' /\ PauseOrder /\ ChargedNow(now)
  BY DEF Tick, processes, pausing, main, IInv, TimeCharged
<1>2. now \in Nat /\ ran \in Nat /\ pause_intervals \in Intervals /\ paused_at \in Time
  BY <1>1 DEF TypeOK, ProcessTypes, PauseTypes
<1>3. \/ now' = now /\ ran' = ran
      \/ now' = now + 1 /\ ran' = IF stopped THEN ran ELSE ran + 1
  BY DEF Tick
<1>4. ExcusesNoLess
  BY <1>1, <1>2, <1>3, SameListExcuses DEF PauseGoesOn
<1>5. PauseOrder'
  <2>1. now <= now'
    BY <1>2, <1>3
  <2>2. paused_at' # None => paused_at' <= now'
    BY <1>1, <1>2, <1>3, <2>1 DEF PauseOrder, Time
  <2>3. ASSUME NEW i \in DOMAIN pause_intervals PROVE pause_intervals[i][2] <= now'
    <3>1. i \in 1..Len(pause_intervals)
      BY <1>2 DEF Intervals
    <3>2. PICK from \in Time, to \in Nat : pause_intervals[i] = <<from, to>>
      BY <1>2, <3>1, IntervalOf
    <3>3. to <= now
      BY <1>1, <3>2 DEF PauseOrder
    <3> QED
      BY <1>2, <1>3, <3>2, <3>3
  <2> QED
    BY <1>1, <2>2, <2>3 DEF PauseOrder
<1>6. ChargedNow(now)'
  <2>1. CASE now' = now /\ ran' = ran
    <3> DEFINE end == now
    <3>1. end \in 0..now /\ now' = end /\ end = now
      BY <1>2, <2>1
    <3> HIDE DEF end
    <3>2. ChargedNow(end)
      BY <1>1, <3>1
    <3> QED
      BY <1>1, <1>4, <3>1, <3>2, ChargesStay DEF ChargedNow
  <2>2. CASE now' = now + 1 /\ ran' = IF stopped THEN ran ELSE ran + 1
    <3> SUFFICES ASSUME NEW start \in 0..now'
                 PROVE  now' - start <= ran' + Excused(start, now)'
      BY DEF ChargedNow
    <3>1. start \in Nat /\ now' \in Nat /\ now <= now'
      BY <1>2, <2>2
    <3>2. Excused(start, now)' \in Nat
      <4>1. Paused(pause_intervals', start, now') \in Nat
        BY <1>1, <1>2, <3>1, PausedIsSum
      <4>2. Pausing(start, now)' \in Nat
        <5>1. CASE PauseGoesOn'
          <6>1. paused_at' \in Nat
            BY <1>1, <1>2, <5>1 DEF PauseGoesOn, Time
          <6>2. Overlap(<<paused_at', now'>>, start, now') \in Nat
            BY <3>1, <6>1, OverlapType
          <6> QED
            BY <5>1, <6>2 DEF Pausing
        <5>2. CASE ~PauseGoesOn'
          BY <5>2 DEF Pausing
        <5> QED
          BY <5>1, <5>2
      <4> QED
        BY <4>1, <4>2 DEF Excused
    <3>3. CASE start = now'
      BY <1>2, <2>2, <3>1, <3>2, <3>3
    <3>4. CASE start \in 0..now
      <4>1. now - start <= ran + Excused(start, now)
        BY <1>1, <3>4 DEF ChargedNow
      <4>2. Excused(start, now) \in Nat /\ Paused(pause_intervals, start, now) \in Nat
        BY <1>1, <1>2, <3>1, ExcusedType
      <4>3. Paused(pause_intervals', start, now') = Paused(pause_intervals, start, now)
        BY <1>1, <1>2, <3>1, PausedLater DEF PauseOrder
      <4>4. CASE PauseGoesOn
        <5>1. paused_at \in Nat /\ paused_at <= now /\ start <= now
          BY <1>1, <1>2, <3>4, <4>4 DEF PauseGoesOn, PauseOrder, Time
        <5>2. Pausing(start, now) = Overlap(<<paused_at, now>>, start, now)
          BY <4>4 DEF Pausing
        <5>3. Pausing(start, now)' = Overlap(<<paused_at, now + 1>>, start, now + 1)
          BY <1>1, <2>2, <4>4 DEF Pausing, PauseGoesOn
        <5>4. Overlap(<<paused_at, now>>, start, now) \in Nat
          BY <1>2, <3>1, <5>1, OverlapType
        <5>5. Pausing(start, now)' = Pausing(start, now) + 1
          BY <1>2, <3>1, <5>1, <5>2, <5>3, OverlapTick
        <5>6. Excused(start, now)' = Excused(start, now) + 1
          BY <4>2, <4>3, <5>2, <5>4, <5>5 DEF Excused
        <5> QED
          BY <1>2, <2>2, <3>1, <4>1, <4>2, <5>6
      <4>5. CASE ~PauseGoesOn
        <5>1. ~stopped
          BY <1>1, <4>5 DEF PauseOrder, PauseGoesOn, IInv, StoppedIsPaused
        <5>2. Pausing(start, now) = 0 /\ Pausing(start, now)' = 0
          BY <1>1, <4>5 DEF Pausing, PauseGoesOn
        <5>3. Excused(start, now)' = Excused(start, now)
          BY <4>2, <4>3, <5>2 DEF Excused
        <5> QED
          BY <1>2, <2>2, <3>1, <4>1, <4>2, <5>1, <5>3
      <4> QED
        BY <4>4, <4>5
    <3> QED
      BY <1>2, <2>2, <3>3, <3>4
  <2> QED
    BY <1>3, <2>1, <2>2
<1>7. PollRead'
  <2>1. now <= now'
    BY <1>2, <1>3
  <2> QED
    BY <1>1, <1>4, <2>1, PollReadStays DEF TimeCharged
<1>8. NoEarlyTimeout'
  BY <1>1, <1>2, <1>3, RunnerAssumption DEF TimeCharged, NoEarlyTimeout
<1> QED
  BY <1>5, <1>6, <1>7, <1>8 DEF TimeCharged
-----------------------------------------------------------------------------
(* The poll charges what it has read. *)

LEMMA PollMoves ==
  ASSUME IInv, IInv', TimeCharged, Poll
  PROVE  /\ NoPauseStep /\ UNCHANGED <<clock, pausing>> /\ TypeOK /\ TypeOK'
         /\ ran \in Nat /\ ran' = ran /\ now \in Nat /\ now' = now
         /\ PauseOrder' /\ ChargedNow(now)'
<1>1. UNCHANGED <<clock, pausing, main, killer>> /\ stopped' = stopped
  BY DEF Poll, StartPoll, ShellExited, ReadClock, CheckPaused, Escalate, SendSigkill, ReadStart,
         ReadFlag, ReadSince, Decide, PollError, HandleError, processes
<1>2. NoPauseStep
  BY <1>1 DEF NoPauseStep, clock, pausing, main, killer
<1> QED
  BY <1>1, <1>2, NoPauseKeeps DEF IInv, TypeOK, ProcessTypes, clock

\* The poll forgets what it has read
LEMMA PollForgets ==
  ASSUME IInv, IInv', TimeCharged, Poll, UNCHANGED timed_out,
         pollPc' \notin {"check", "start", "flag", "since", "decide"}
  PROVE  TimeCharged'
<1>1. PollRead'
  BY DEF PollRead
<1>2. NoEarlyTimeout'
  BY PollMoves DEF TimeCharged, NoEarlyTimeout
<1> QED
  BY <1>1, <1>2, PollMoves DEF TimeCharged

\* The statements of a poll that read the clock and the pauses
LEMMA ReadsCharge ==
  ASSUME IInv, IInv', TimeCharged,
         ReadClock \/ CheckPaused \/ ReadStart \/ ReadFlag \/ ReadSince
  PROVE  TimeCharged'
<1>1. Poll
  BY DEF Poll
<1>2. /\ NoPauseStep /\ UNCHANGED <<clock, pausing>> /\ TypeOK /\ ran' = ran /\ now' = now
      /\ now \in Nat /\ ran \in Nat /\ PauseOrder' /\ ChargedNow(now)'
  BY <1>1, PollMoves
<1>3. UNCHANGED timed_out
  BY DEF ReadClock, CheckPaused, Escalate, SendSigkill, ReadStart, ReadFlag, ReadSince, deadlines
<1>4. NoEarlyTimeout'
  BY <1>2, <1>3 DEF TimeCharged, NoEarlyTimeout
<1> SUFFICES ASSUME pollPc' \in {"check", "start", "flag", "since", "decide"} PROVE PollRead'
  BY <1>1, <1>2, <1>3, <1>4, PollForgets DEF TimeCharged
<1>5. pollNow \in Nat /\ pollIntervals \in Intervals /\ pause_intervals \in Intervals
      /\ timeout_start \in Time /\ paused_at \in Time
  BY <1>2 DEF TypeOK, PollTypes, PauseTypes, DeadlineTypes
<1>6. CASE ReadClock
  <2>1. pollPc' = "check" /\ pollNow' = now
    BY <1>6 DEF ReadClock
  <2>2. ChargedNow(pollNow)'
    BY <1>2, <2>1 DEF ChargedNow, Excused, Pausing
  <2> QED
    BY <1>2, <2>1, <2>2 DEF PollRead
<1>7. CASE CheckPaused
  <2>1. /\ pollPc = "check" /\ pollPc' = "start" /\ pollNow' = pollNow /\ ~paused
        /\ pause_intervals' = pause_intervals
    BY <1>7 DEF CheckPaused, Escalate, PollReturns, PollGoesTo, pausing
  <2>2. ChargedNow(pollNow) /\ pollNow <= now
    BY <2>1 DEF TimeCharged, PollRead
  <2>3. ASSUME NEW start \in 0..pollNow
        PROVE  pollNow - start <= ran + Paused(pause_intervals, start, pollNow)
    <3>1. Excused(start, pollNow) = Paused(pause_intervals, start, pollNow) + 0
      BY <2>1 DEF Excused, Pausing, PauseGoesOn
    <3>2. start \in Nat
      BY <1>5
    <3>3. Paused(pause_intervals, start, pollNow) \in Nat
      BY <1>5, <3>2, PausedIsSum
    <3>4. pollNow - start <= ran + Excused(start, pollNow)
      BY <2>2 DEF ChargedNow
    <3> QED
      BY <3>1, <3>3, <3>4
  <2>4. Charged(pause_intervals, pollNow)'
    BY <1>2, <2>1, <2>3 DEF Charged
  <2> QED
    BY <1>2, <2>1, <2>2, <2>4 DEF PollRead
<1>8. CASE ReadStart
  <2>1. /\ pollPc = "start" /\ pollPc' = "flag" /\ pollNow' = pollNow /\ timeout_start' # None
        /\ pollIntervals' = pause_intervals
    BY <1>8 DEF ReadStart, PollReturns
  <2>2. Charged(pause_intervals, pollNow) /\ pollNow <= now
    BY <2>1 DEF TimeCharged, PollRead
  <2>3. Charged(pollIntervals, pollNow)'
    BY <1>2, <2>1, <2>2 DEF Charged
  <2> QED
    BY <1>2, <2>1, <2>2, <2>3 DEF PollRead
<1>9. CASE ReadFlag
  <2>1. /\ pollPc = "flag" /\ pollPc' \in {"since", "decide"}
        /\ UNCHANGED <<pollNow, pollIntervals, timeout_start>>
    BY <1>9 DEF ReadFlag, PollGoesTo
  <2>2. Charged(pollIntervals, pollNow) /\ pollNow <= now /\ timeout_start # None
    BY <2>1 DEF TimeCharged, PollRead
  <2>3. Charged(pollIntervals, pollNow)'
    BY <1>2, <2>1, <2>2 DEF Charged
  <2> QED
    BY <1>2, <2>1, <2>2, <2>3 DEF PollRead
<1>10. CASE ReadSince
  <2>1. /\ pollPc = "since" /\ pollPc' = "decide" /\ UNCHANGED <<pollNow, timeout_start>>
        /\ pollIntervals' = Append(pollIntervals, <<paused_at, pollNow>>)
    BY <1>10 DEF ReadSince
  <2>2. Charged(pollIntervals, pollNow) /\ pollNow <= now /\ timeout_start # None
    BY <2>1 DEF TimeCharged, PollRead
  <2>3. ASSUME NEW start \in 0..pollNow
        PROVE  pollNow - start <= ran + Paused(pollIntervals', start, pollNow)
    <3>1. start \in Nat
      BY <1>5
    <3>2. /\ Paused(pollIntervals, start, pollNow) \in Nat
          /\ Cover(<<paused_at, pollNow>>, start, pollNow) \in Nat
      BY <1>5, <3>1, PausedIsSum, CoverType
    <3>3. Paused(pollIntervals', start, pollNow) =
            Cover(<<paused_at, pollNow>>, start, pollNow) + Paused(pollIntervals, start, pollNow)
      BY <1>5, <2>1, <3>1, PausedAppend
    <3>4. pollNow - start <= ran + Paused(pollIntervals, start, pollNow)
      BY <2>2 DEF Charged
    <3> QED
      BY <1>2, <1>5, <3>1, <3>2, <3>3, <3>4
  <2>4. Charged(pollIntervals, pollNow)'
    BY <1>2, <2>1, <2>3 DEF Charged
  <2> QED
    BY <1>2, <2>1, <2>2, <2>4 DEF PollRead
<1> QED
  BY <1>6, <1>7, <1>8, <1>9, <1>10

\* The verdict: what _paused_duration_since computes is all the time that the
\* list excuses
LEMMA DecideCharges ==
  ASSUME IInv, IInv', TimeCharged, Decide
  PROVE  TimeCharged'
<1>1. Poll /\ pollPc = "decide"
  BY DEF Poll, Decide
<1>2. /\ TypeOK /\ ran' = ran /\ ran \in Nat /\ PauseOrder' /\ ChargedNow(now)'
  BY <1>1, PollMoves
<1>3. pollPc' \in {"idle", "error"}
  BY DEF Decide, PollReturns, PollGoesTo
<1>4. CASE UNCHANGED timed_out
  BY <1>1, <1>3, <1>4, PollForgets
<1>5. CASE timed_out' # timed_out
  <2> DEFINE f == [i \in DOMAIN pollIntervals |->
                     Overlap(pollIntervals[i], timeout_start, pollNow)]
             duration == PausedDuration(timeout_start, pollNow)
  <2>1. /\ \A i \in DOMAIN pollIntervals : pollIntervals[i][1] # None
        /\ pollNow - (timeout_start + duration) > Timeout
    BY <1>5 DEF Decide, deadlines
  <2>2. /\ timeout_start \in Nat /\ pollNow \in Nat /\ pollIntervals \in Intervals
        /\ Charged(pollIntervals, pollNow)
    BY <1>1, <1>2 DEF TypeOK, PollTypes, DeadlineTypes, Time, TimeCharged, PollRead
  <2>3. f = Covers(pollIntervals, timeout_start, pollNow)
    BY <2>1 DEF Covers, Cover
  <2>4. duration = Paused(pollIntervals, timeout_start, pollNow)
    <3>1. duration = SumFunctionOnSet(f, DOMAIN f)
      BY Zenon DEF PausedDuration, FoldSeq, FoldFunction, SumFunctionOnSet, FoldFunctionOnSet,
         MapThenFoldSet
    <3> DEFINE g == Covers(pollIntervals, timeout_start, pollNow)
    <3>2. Paused(pollIntervals, timeout_start, pollNow) = SumFunctionOnSet(g, DOMAIN g)
      BY Zenon DEF Paused, FoldSeq, FoldFunction, SumFunctionOnSet, FoldFunctionOnSet,
         MapThenFoldSet
    <3>3. f = g
      BY <2>3
    <3> HIDE DEF f, g, duration
    <3> QED
      BY <3>1, <3>2, <3>3
  <2>5. duration \in Nat
    BY <2>2, <2>4, PausedIsSum
  <2> HIDE DEF duration, f
  <2>6. timeout_start \in 0..pollNow
    BY <2>1, <2>2, <2>5, RunnerAssumption
  <2>7. pollNow - timeout_start <= ran + duration
    BY <2>2, <2>4, <2>6 DEF Charged
  <2>8. ran > Timeout
    BY <1>2, <2>1, <2>2, <2>5, <2>7, RunnerAssumption
  <2>9. NoEarlyTimeout' /\ PollRead'
    BY <1>2, <1>3, <2>8 DEF NoEarlyTimeout, PollRead
  <2> QED
    BY <1>2, <2>9 DEF TimeCharged
<1> QED
  BY <1>4, <1>5

LEMMA PollCharges ==
  ASSUME IInv, IInv', TimeCharged, Poll
  PROVE  TimeCharged'
<1>1. CASE ShellExited \/ StartPoll \/ PollError
  <2>1. UNCHANGED timed_out
    BY <1>1 DEF ShellExited, StartPoll, PollError, Escalate, SendSigkill, deadlines
  <2>2. pollPc' \notin {"check", "start", "flag", "since", "decide"}
    BY <1>1 DEF ShellExited, StartPoll, PollError, HandleError, Escalate, PollReturns, PollGoesTo
  <2> QED
    BY <2>1, <2>2, PollForgets
<1> QED
  BY <1>1, ReadsCharge, DecideCharges DEF Poll

LEMMA TimeStaysCharged == IInv /\ IInv' /\ TimeCharged /\ [Next]_vars => TimeCharged'
BY OthersCharge, MainCharges, KillUnpausesCharges, TickCharges, PollCharges
   DEF Next, Killer, Finished

LEMMA InitCharged == Init => TimeCharged
<1> SUFFICES ASSUME Init PROVE TimeCharged
  OBVIOUS
<1>1. now = 0 /\ ran = 0 /\ pause_intervals = <<>> /\ TypeOK
  BY InitIInv DEF Init, IInv
<1>2. ChargedNow(now)
  <2> SUFFICES ASSUME NEW start \in 0..0 PROVE 0 - start <= 0 + Excused(start, 0)
    BY <1>1 DEF ChargedNow
  <2>1. start = 0
    OBVIOUS
  <2>2. Excused(0, 0) \in Nat
    BY <1>1, ExcusedType
  <2> QED
    BY <2>1, <2>2
<1> QED
  BY <1>1, <1>2 DEF Init, TimeCharged, PauseOrder, PollRead, NoEarlyTimeout

\* Whatever the unlocked polls read of the pauses, in whatever order the user
\* pauses, resumes and kills, no runner times out before its group ran, not
\* stopped, for longer than the timeout.
THEOREM TimedOutAfterTimeout == Spec => []NoEarlyTimeout
<1>1. TimeCharged => NoEarlyTimeout
  BY DEF TimeCharged
<1> QED
  BY <1>1, InitCharged, TimeStaysCharged, RunnerInvariant, PTL DEF Spec
=============================================================================
