------------------------------ MODULE JobRunner ------------------------------
(***************************************************************************)
(* One runner: class SubprocessJobRunner of lib/job_lib.py, from the start *)
(* of its process on.  Three threads use it:                               *)
(*   - the scheduler polls it with check_for_done, which takes no lock;    *)
(*   - the main thread pauses and resumes it, holding _kill_lock;          *)
(*   - a kill thread ends it, holding _kill_lock.                          *)
(* The launch calls pause, resume and kill too, from the scheduler thread; *)
(* the lock makes that the same as calls of the other two.                 *)
(*                                                                         *)
(* Time is counted in ticks.  now counts from where the timeout can start, *)
(* and a deadline is the number of ticks that are left.  Signals go to the *)
(* process group and to the registered groups of side processes; all of    *)
(* these but the shell are "background" here.                              *)
(***************************************************************************)
EXTENDS Integers, Sequences, FiniteSetsExt, SequencesExt

CONSTANTS
  Timeout,          \* job.timeout, positive
  TermGrace,        \* TERM_GRACE_SECONDS
  KillGrace,        \* KILL_GRACE_SECONDS
  OwnershipGrace,   \* OWNERSHIP_GRACE_SECONDS
  UsesStartFile,    \* the job has a timeout_start_path
  MaxPauses,        \* bound: how many times the user pauses
  MaxPausedTime,    \* bound: ticks the group is stopped in all
  None

ASSUME RunnerAssumption ==
  /\ Timeout \in Nat \ {0}
  /\ TermGrace \in Nat /\ KillGrace \in Nat /\ OwnershipGrace \in Nat
  /\ UsesStartFile \in BOOLEAN
  /\ MaxPauses \in Nat /\ MaxPausedTime \in Nat
  /\ None \notin Int

VARIABLES
  live,                 \* processes alive: the shell, processes it started
  stopped, killed,      \* SIGSTOP holds the group; SIGKILL was sent to it
  log_mtime,            \* of the file at timeout_start_path, if there is one
  now, ran,             \* ticks since then, or since the start; those not stopped
  told,                 \* ticks since the group was first told to end
  done, shutdown_incomplete, timed_out, orphaned, kill_sent,
  timeout_start, term_deadline, kill_deadline,
  paused, paused_at, pause_intervals,
  kill_lock,            \* who holds it
  pollPc, pollNow, pollIntervals, pollLimit, pollReaped,
  mainPc, pauses,
  killPc, killLimit, killReaped

processes == <<live, stopped, killed, log_mtime>>
clock == <<now, ran>>
deadlines == <<timed_out, orphaned, kill_sent, term_deadline, kill_deadline, told>>
outcome == <<done, shutdown_incomplete>>
pausing == <<paused, paused_at, pause_intervals>>
poll == <<pollPc, pollNow, pollIntervals, pollLimit, pollReaped>>
main == <<mainPc, pauses>>
killer == <<killPc, killLimit, killReaped>>
vars == <<processes, clock, deadlines, outcome, pausing, timeout_start, kill_lock, poll, main,
          killer>>

Process == {"shell", "background"}
Time == Nat \cup {None}
Intervals == Seq(Time \X Nat)

PollState == {"idle", "exited", "guard", "check", "start", "flag", "since", "decide",
              "error", "reap", "reapAgain", "scan"}
\* Statements that pause(), resume() and kill() run while they hold the lock
LockedState == {"setPaused", "setPausedAt", "sigstop",
                "sigcont", "append", "clearPaused", "clearPausedAt"}
MainState == LockedState \cup {"idle", "aborted"}
KillState == LockedState \cup {"idle", "sigterm", "grace", "reap", "reapAgain", "scan", "done"}

ProcessTypes ==
  /\ live \subseteq Process /\ stopped \in BOOLEAN /\ killed \in BOOLEAN
  /\ log_mtime \in Time /\ now \in Nat /\ ran \in Nat
DeadlineTypes ==
  /\ done \in BOOLEAN /\ shutdown_incomplete \in BOOLEAN
  /\ timed_out \in BOOLEAN /\ orphaned \in BOOLEAN /\ kill_sent \in BOOLEAN
  /\ timeout_start \in Time /\ told \in Time
  /\ term_deadline \in Time /\ kill_deadline \in Time
PauseTypes ==
  /\ paused \in BOOLEAN /\ paused_at \in Time /\ pause_intervals \in Intervals
  /\ kill_lock \in {"free", "main", "killer"}
  /\ mainPc \in MainState /\ pauses \in 0..MaxPauses
PollTypes ==
  /\ pollPc \in PollState /\ pollNow \in Nat /\ pollIntervals \in Intervals
  /\ pollLimit \in Nat /\ pollReaped \in BOOLEAN
KillTypes == killPc \in KillState /\ killLimit \in Nat /\ killReaped \in BOOLEAN

TypeOK == ProcessTypes /\ DeadlineTypes /\ PauseTypes /\ PollTypes /\ KillTypes

\* The process was just started
Init ==
  /\ live = {"shell"} /\ stopped = FALSE /\ killed = FALSE
  /\ now = 0 /\ ran = 0 /\ told = None
  /\ log_mtime = None
  /\ timeout_start = IF UsesStartFile THEN None ELSE 0
  /\ done = FALSE /\ shutdown_incomplete = FALSE
  /\ timed_out = FALSE /\ orphaned = FALSE /\ kill_sent = FALSE
  /\ term_deadline = None /\ kill_deadline = None
  /\ paused = FALSE /\ paused_at = None /\ pause_intervals = <<>>
  /\ kill_lock = "free"
  /\ pollPc = "idle" /\ pollNow = 0 /\ pollIntervals = <<>>
  /\ pollLimit = 0 /\ pollReaped = FALSE
  /\ mainPc = "idle" /\ pauses = 0
  /\ killPc = "idle" /\ killLimit = 0 /\ killReaped = FALSE
-----------------------------------------------------------------------------
(* The processes and the clock. *)

\* _managed_process_groups_exist
GroupExists == live # {}

\* A process that runs, or was killed, ends.  Nothing obliges it to: it may
\* ignore SIGTERM and hang in the kernel through SIGKILL.
ProcessEnds(p) ==
  /\ p \in live /\ (~stopped \/ killed)
  /\ live' = live \ {p} /\ stopped' = (stopped /\ live' # {})
  /\ UNCHANGED <<killed, log_mtime, clock, deadlines, outcome, pausing, timeout_start,
                 kill_lock, poll, main, killer>>

StartsBackground ==
  /\ "shell" \in live /\ ~stopped /\ ~killed
  /\ live' = live \cup {"background"}
  /\ UNCHANGED <<stopped, killed, log_mtime, clock, deadlines, outcome, pausing,
                 timeout_start, kill_lock, poll, main, killer>>

\* The simulation writes its log; after the timeout has started it is not
\* looked at any more
WritesLog ==
  /\ UsesStartFile /\ timeout_start = None /\ GroupExists /\ ~stopped /\ ~killed
  /\ log_mtime' = now
  /\ UNCHANGED <<live, stopped, killed, clock, deadlines, outcome, pausing, timeout_start,
                 kill_lock, poll, main, killer>>

\* The timeout may have to be counted
Clocked == (~UsesStartFile \/ log_mtime # None) /\ ~timed_out

\* Past this point it makes no difference how late it is; until the timeout has
\* started, a bound
LatestTimeout ==
  IF timeout_start = None THEN MaxPausedTime ELSE timeout_start + Timeout + MaxPausedTime + 1

OneLess(left) == IF left \in {None, 0} THEN left ELSE left - 1

\* A poll takes no time, unless the user pauses the job in the middle of it
MidPoll == pollPc \in {"exited", "check", "start", "flag", "since", "decide"}

\* pause and resume take no time either
Tick ==
  /\ mainPc \notin LockedState /\ killPc \notin LockedState \cup {"sigterm"}
  /\ MidPoll => paused
  /\ stopped /\ Clocked => now - ran < MaxPausedTime
  /\ now' = IF Clocked /\ now < LatestTimeout THEN now + 1 ELSE now
  /\ ran' = IF Clocked /\ now < LatestTimeout /\ ~stopped THEN ran + 1 ELSE ran
  /\ told' = IF told = None THEN None ELSE Min({told + 1, TermGrace})
  /\ term_deadline' = OneLess(term_deadline) /\ kill_deadline' = OneLess(kill_deadline)
  /\ pollLimit' = OneLess(pollLimit) /\ killLimit' = OneLess(killLimit)
  /\ <<clock, told, term_deadline, kill_deadline, pollLimit, killLimit>>' #
       <<clock, told, term_deadline, kill_deadline, pollLimit, killLimit>>
  /\ UNCHANGED <<processes, timed_out, orphaned, kill_sent, outcome, pausing, timeout_start,
                 kill_lock, pollPc, pollNow, pollIntervals, pollReaped, main, killPc,
                 killReaped>>
-----------------------------------------------------------------------------
(* The scheduler thread: check_for_done.  A step reads or writes shared     *)
(* fields once, so that the other threads come between any two of them.     *)

\* Unless the runner is done: self._p.poll()
StartPoll ==
  /\ pollPc = "idle" /\ ~done
  /\ pollPc' = IF "shell" \in live THEN "guard" ELSE "exited"
  /\ UNCHANGED <<processes, clock, deadlines, outcome, pausing, timeout_start, kill_lock,
                 pollNow, pollIntervals, pollLimit, pollReaped, main, killer>>

\* Local variables are forgotten
PollReturns ==
  /\ pollPc' = "idle" /\ pollNow' = 0 /\ pollIntervals' = <<>>
  /\ pollLimit' = 0 /\ pollReaped' = FALSE
PollGoesTo(pc) ==
  pollPc' = pc /\ UNCHANGED <<pollNow, pollIntervals, pollLimit, pollReaped>>

\* SIGTERM to the group
PollSigterm ==
  /\ term_deadline' = TermGrace
  /\ told' = IF told = None THEN 0 ELSE told
  /\ UNCHANGED <<kill_sent, kill_deadline>>

\* Faulty: the deadline lies before the signal
SendSigkillBackwards ==
  /\ killed' = TRUE /\ kill_sent' = TRUE
  /\ kill_deadline' = -KillGrace
  /\ UNCHANGED <<live, stopped, log_mtime, timed_out, orphaned, term_deadline, told>>

\* _send_sigkill; kill_deadline counts down to the end of the ownership wait
SendSigkill ==
  /\ killed' = TRUE /\ kill_sent' = TRUE
  /\ kill_deadline' = KillGrace + OwnershipGrace
  /\ UNCHANGED <<live, stopped, log_mtime, timed_out, orphaned, term_deadline, told>>

\* Faulty: SIGKILL follows SIGTERM at the next poll
TermDeadlineIgnored == term_deadline # None

TermDeadlinePassed == term_deadline = 0

\* Faulty: the runner waits until the group is gone
OwnershipNeverExpires == UNCHANGED outcome

\* _ownership_wait_expired, which is reached after the grace time of SIGKILL
OwnershipWait ==
  IF kill_deadline > 0 THEN UNCHANGED outcome
  ELSE shutdown_incomplete' = TRUE /\ done' = TRUE

\* SIGKILL, or waiting for its effect, after SIGTERM.  kill() sets kill_sent
\* without a deadline, and comparing with None raises TypeError.
Escalate ==
  \/ ~kill_sent /\ TermDeadlinePassed /\ SendSigkill /\ PollReturns /\ UNCHANGED outcome
  \/ /\ kill_sent /\ kill_deadline = None
     /\ PollGoesTo("error") /\ UNCHANGED <<outcome, processes, deadlines>>
  \/ /\ kill_sent /\ kill_deadline # None
     /\ IF kill_deadline > OwnershipGrace THEN UNCHANGED outcome ELSE OwnershipWait
     /\ PollReturns /\ UNCHANGED <<processes, deadlines>>

\* Faulty: only the shell counts
ShellExitedIgnoringGroup ==
  /\ pollPc = "exited"
  /\ done' = TRUE /\ PollReturns
  /\ UNCHANGED <<shutdown_incomplete, processes, deadlines>>
  /\ UNCHANGED <<clock, pausing, timeout_start, kill_lock, main, killer>>

\* The shell has exited: the group is gone, or is left behind by its shell
ShellExited ==
  /\ pollPc = "exited"
  /\ \/ /\ ~GroupExists
        /\ done' = TRUE /\ PollReturns
        /\ UNCHANGED <<shutdown_incomplete, processes, deadlines>>
     \/ /\ GroupExists /\ ~timed_out /\ ~orphaned
        /\ orphaned' = TRUE /\ PollSigterm /\ PollReturns
        /\ UNCHANGED <<timed_out, processes, outcome>>
     \/ GroupExists /\ (timed_out \/ orphaned) /\ Escalate
     \/ /\ GroupExists /\ (timed_out \/ orphaned) /\ ~kill_sent /\ ~TermDeadlinePassed
        /\ PollGoesTo("guard") /\ UNCHANGED <<outcome, processes, deadlines>>
  /\ UNCHANGED <<clock, pausing, timeout_start, kill_lock, main, killer>>

\* now = datetime.datetime.now()
ReadClock ==
  /\ pollPc = "guard" /\ pollPc' = "check" /\ pollNow' = now
  /\ UNCHANGED <<processes, clock, deadlines, outcome, pausing, timeout_start, kill_lock,
                 pollIntervals, pollLimit, pollReaped, main, killer>>

\* Nothing times out while paused; after a timeout the deadlines count
CheckPaused ==
  /\ pollPc = "check"
  /\ \/ paused /\ PollReturns /\ UNCHANGED <<outcome, processes, deadlines>>
     \/ ~paused /\ timed_out /\ Escalate
     \/ /\ ~paused /\ timed_out /\ ~kill_sent /\ ~TermDeadlinePassed
        /\ PollReturns /\ UNCHANGED <<outcome, processes, deadlines>>
     \/ /\ ~paused /\ ~timed_out
        /\ PollGoesTo("start") /\ UNCHANGED <<outcome, processes, deadlines>>
  /\ UNCHANGED <<clock, pausing, timeout_start, kill_lock, main, killer>>

\* The timeout counts from the modification time of the log, as the first
\* poll that finds the log saw it; then _paused_duration_since copies the list
ReadStart ==
  /\ pollPc = "start"
  /\ timeout_start' = IF timeout_start = None THEN log_mtime ELSE timeout_start
  /\ IF timeout_start' = None
     THEN PollReturns
     ELSE pollPc' = "flag" /\ pollIntervals' = pause_intervals
          /\ UNCHANGED <<pollNow, pollLimit, pollReaped>>
  /\ UNCHANGED <<processes, clock, deadlines, outcome, pausing, kill_lock, main, killer>>

\* self._paused and self._paused_at is not None
ReadFlag ==
  /\ pollPc = "flag"
  /\ PollGoesTo(IF paused /\ paused_at # None THEN "since" ELSE "decide")
  /\ UNCHANGED <<processes, clock, deadlines, outcome, pausing, timeout_start, kill_lock, main,
                 killer>>

\* intervals.append((self._paused_at, now)), which reads the field again
ReadSince ==
  /\ pollPc = "since" /\ pollPc' = "decide"
  /\ pollIntervals' = Append(pollIntervals, <<paused_at, pollNow>>)
  /\ UNCHANGED <<processes, clock, deadlines, outcome, pausing, timeout_start, kill_lock,
                 pollNow, pollLimit, pollReaped, main, killer>>

\* What of an interval lies between the start of the timeout and this poll
Overlap(interval, start, end) ==
  LET from == Max({start, interval[1]})
      to == Min({end, interval[2]})
  IN IF to > from THEN to - from ELSE 0

\* Faulty: paused time counts
PausedDurationZero(start, end) == 0

\* _paused_duration_since
PausedDuration(start, end) ==
  FoldSeq(+, 0, [i \in DOMAIN pollIntervals |-> Overlap(pollIntervals[i], start, end)])

Decide ==
  /\ pollPc = "decide"
  /\ \/ /\ \E i \in DOMAIN pollIntervals : pollIntervals[i][1] = None
        /\ PollGoesTo("error") /\ UNCHANGED deadlines
     \/ /\ \A i \in DOMAIN pollIntervals : pollIntervals[i][1] # None
        /\ IF pollNow - (timeout_start + PausedDuration(timeout_start, pollNow)) > Timeout
           THEN timed_out' = TRUE /\ PollSigterm /\ UNCHANGED orphaned
           ELSE UNCHANGED deadlines
        /\ PollReturns
  /\ UNCHANGED <<processes, clock, outcome, pausing, timeout_start, kill_lock, main, killer>>

\* The handler of check_for_done: SIGKILL, then wait for the shell, twice if
\* need be, and for the group
HandleError ==
  \/ /\ pollPc = "error" /\ pollPc' = "reap"
     /\ killed' = TRUE /\ pollLimit' = KillGrace
     /\ pollNow' = 0 /\ pollIntervals' = <<>>
     /\ UNCHANGED <<live, stopped, log_mtime, pollReaped, outcome>>
  \/ /\ pollPc \in {"reap", "reapAgain"}
     /\ "shell" \notin live \/ pollLimit = 0
     /\ pollPc' = IF "shell" \in live /\ pollPc = "reap" THEN "reapAgain" ELSE "scan"
     /\ pollReaped' = ("shell" \notin live)
     /\ pollLimit' = KillGrace
     /\ UNCHANGED <<pollNow, pollIntervals, processes, outcome>>
  \/ /\ pollPc = "scan" /\ PollReturns
     /\ ~GroupExists \/ pollLimit = 0
     /\ shutdown_incomplete' = (~pollReaped \/ GroupExists) /\ done' = TRUE
     /\ UNCHANGED processes

PollError ==
  /\ HandleError
  /\ UNCHANGED <<clock, deadlines, pausing, timeout_start, kill_lock, main,
                 killer>>
-----------------------------------------------------------------------------
(* The main thread: pause and resume, each holding _kill_lock.              *)

Takes(thread) == kill_lock = "free" /\ kill_lock' = thread

\* One statement of pause() on the way from pc to next
PauseStep(pc, next) ==
  /\ mainPc = pc /\ mainPc' = next
  /\ kill_lock' = IF next = "idle" THEN "free" ELSE kill_lock
  /\ UNCHANGED <<live, killed, log_mtime, clock, deadlines, outcome, timeout_start, poll,
                 pauses, killer, pause_intervals>>

\* A pause that finds nothing to do changes nothing
PauseCheck ==
  /\ mainPc = "idle" /\ Takes("main") /\ pauses < MaxPauses /\ pauses' = pauses + 1
  /\ ~done /\ ~timed_out /\ "shell" \in live /\ ~paused
  /\ mainPc' = "setPaused"
  /\ UNCHANGED <<processes, clock, deadlines, outcome, pausing, timeout_start, poll, killer>>

Pause ==
  \/ PauseCheck
  \/ /\ PauseStep("setPaused", "setPausedAt")
     /\ paused' = TRUE /\ UNCHANGED <<paused_at, stopped>>
  \/ /\ PauseStep("setPausedAt", "sigstop")
     /\ paused_at' = now /\ UNCHANGED <<paused, stopped>>
  \/ /\ PauseStep("sigstop", "idle")
     /\ stopped' = (GroupExists /\ ~killed) /\ UNCHANGED <<paused, paused_at>>

ResumeStarts ==
  /\ mainPc = "idle" /\ Takes("main") /\ paused /\ mainPc' = "sigcont"
  /\ UNCHANGED <<processes, clock, deadlines, outcome, pausing, timeout_start, poll, pauses,
                 killer>>

\* The statements that end a pause, in resume() and in kill()
Unpause(pc, next) ==
  \/ /\ pc = "sigcont" /\ next = "append"
     /\ stopped' = FALSE /\ UNCHANGED pausing
  \/ /\ pc = "append" /\ next = "clearPaused"
     /\ pause_intervals' = Append(pause_intervals, <<paused_at, now>>)
     /\ UNCHANGED <<stopped, paused, paused_at>>
  \/ /\ pc = "clearPaused" /\ next = "clearPausedAt"
     /\ paused' = FALSE /\ UNCHANGED <<stopped, paused_at, pause_intervals>>
  \/ /\ pc = "clearPausedAt" /\ next \in {"idle", "sigterm"}
     /\ paused_at' = None /\ UNCHANGED <<stopped, paused, pause_intervals>>

Resume ==
  \/ ResumeStarts
  \/ /\ Unpause(mainPc, mainPc') /\ mainPc' # "sigterm"
     /\ kill_lock' = IF mainPc' = "idle" THEN "free" ELSE kill_lock
     /\ UNCHANGED <<live, killed, log_mtime, clock, deadlines, outcome, timeout_start, poll,
                    pauses, killer>>

\* Ctrl-C inside pause() or resume(): the lock is released, and kill() follows
Abort ==
  /\ mainPc \in LockedState /\ mainPc' = "aborted" /\ kill_lock' = "free"
  /\ UNCHANGED <<processes, clock, deadlines, outcome, pausing, timeout_start, poll, pauses,
                 killer>>
-----------------------------------------------------------------------------
(* The kill thread. *)

\* Faulty: a stopped group is sent SIGTERM
KillStartsStopped ==
  /\ mainPc \in {"idle", "aborted"} /\ killPc = "idle" /\ Takes("killer")
  /\ killPc' = "sigterm"
  /\ UNCHANGED <<processes, clock, deadlines, outcome, pausing, timeout_start, poll, main,
                 killLimit, killReaped>>

KillStarts ==
  /\ mainPc \in {"idle", "aborted"} /\ killPc = "idle" /\ Takes("killer")
  /\ killPc' = IF paused THEN "sigcont" ELSE "sigterm"
  /\ UNCHANGED <<processes, clock, deadlines, outcome, pausing, timeout_start, poll, main,
                 killLimit, killReaped>>

KillUnpauses ==
  /\ Unpause(killPc, killPc') /\ killPc' # "idle"
  /\ UNCHANGED <<live, killed, log_mtime, clock, deadlines, outcome, timeout_start, kill_lock,
                 poll, main, killLimit, killReaped>>

KillSigterm ==
  /\ killPc = "sigterm" /\ killPc' = "grace"
  /\ killLimit' = TermGrace
  /\ told' = IF told = None THEN 0 ELSE told
  /\ UNCHANGED <<processes, clock, timed_out, orphaned, kill_sent, term_deadline,
                 kill_deadline, outcome, pausing, timeout_start, kill_lock, poll, main,
                 killReaped>>

\* Waits for the shell and the group; SIGKILL when they outlast the grace time
KillGraceEnds ==
  /\ killPc = "grace" /\ (~GroupExists \/ killLimit = 0)
  /\ killPc' = "reap" /\ killLimit' = KillGrace
  /\ killed' = (killed \/ GroupExists) /\ kill_sent' = (kill_sent \/ GroupExists)
  /\ UNCHANGED <<live, stopped, log_mtime, clock, timed_out, orphaned, term_deadline,
                 kill_deadline, told, outcome, pausing, timeout_start, kill_lock, poll, main,
                 killReaped>>

\* self._p.wait, and once more after killing the shell itself
KillReaps ==
  /\ killPc \in {"reap", "reapAgain"}
  /\ "shell" \notin live \/ killLimit = 0
  /\ killPc' = IF "shell" \in live /\ killPc = "reap" THEN "reapAgain" ELSE "scan"
  /\ killReaped' = ("shell" \notin live)
  /\ killLimit' = KillGrace
  /\ UNCHANGED <<processes, clock, deadlines, outcome, pausing, timeout_start, kill_lock, poll,
                 main>>

\* Faulty: the group is not looked at again
KillEndsTrustingShell ==
  /\ killPc = "scan" /\ killPc' = "done" /\ kill_lock' = "free"
  /\ shutdown_incomplete' = (shutdown_incomplete \/ ~killReaped)
  /\ done' = TRUE /\ killLimit' = 0
  /\ UNCHANGED <<killReaped, processes, clock, deadlines, pausing, timeout_start, poll, main>>

\* killReaped becomes what kill() returns
KillEnds ==
  /\ killPc = "scan" /\ (~GroupExists \/ killLimit = 0)
  /\ killPc' = "done" /\ kill_lock' = "free"
  /\ killReaped' = (killReaped /\ ~GroupExists)
  /\ shutdown_incomplete' = (shutdown_incomplete \/ ~killReaped')
  /\ done' = TRUE /\ killLimit' = 0
  /\ UNCHANGED <<processes, clock, deadlines, pausing, timeout_start, poll, main>>

\* Nothing is left to do for any thread
Finished ==
  /\ done /\ pollPc = "idle" /\ mainPc \notin LockedState /\ killPc \in {"idle", "done"}
  /\ UNCHANGED vars
-----------------------------------------------------------------------------
Poll ==
  \/ StartPoll \/ ShellExited \/ ReadClock \/ CheckPaused
  \/ ReadStart \/ ReadFlag \/ ReadSince \/ Decide \/ PollError

Killer == KillUnpauses \/ KillSigterm \/ KillGraceEnds \/ KillReaps \/ KillEnds

Environment == StartsBackground \/ WritesLog \/ \E p \in Process : ProcessEnds(p)

Next == Poll \/ Pause \/ Resume \/ Abort \/ KillStarts \/ Killer \/ Environment \/ Tick \/ Finished

Spec == Init /\ [][Next]_vars

\* The threads run, and time passes between the polls; the user resumes what
\* was paused, or ends it.  No process has to end.
FairSpec ==
  /\ Spec /\ WF_vars(Poll) /\ SF_vars(Tick) /\ WF_vars(Killer)
  /\ WF_vars(Pause /\ mainPc # "idle") /\ WF_vars(Resume)
  /\ WF_vars(KillStarts /\ mainPc = "aborted")
-----------------------------------------------------------------------------
(* Properties. *)

\* A runner that is done has no process left, unless it says so: the manager
\* releases the job's directory lock on this.
DoneMeansGone == done /\ ~shutdown_incomplete => ~GroupExists

\* kill() returns True only when nothing is left; the kill thread then calls
\* the job's cancel hook.
KillTellsTruth == killPc = "done" /\ killReaped => ~GroupExists /\ done

\* Time spent paused, and before the simulation began, is not charged to the
\* timeout: the docstring of pause(), whatever the unlocked poll reads.
NoEarlyTimeout == timed_out => ran > Timeout

\* While kill() waits for SIGTERM to work the group is not stopped.
KillWakesGroup == killPc \in {"grace", "reap", "reapAgain", "scan"} => ~stopped

\* SIGKILL follows SIGTERM by the grace time at least, except for a poll that
\* raised an exception.
GraceBeforeSigkill ==
  [][killed' /\ ~killed => pollPc = "error" \/ told = TermGrace]_vars

\* A group that nobody tried to end, that did not time out and whose shell is
\* alive is not killed by the poll.  Not so: see README.md.
OnlyKilledForCause == killed => timed_out \/ orphaned \/ killPc # "idle"

\* The runner is done in the end, though no process has to react to signals,
\* provided that the file its timeout starts with is written.
EventuallyDone == (UsesStartFile => <>(log_mtime # None)) => <>done

(* The inductive invariant of the safety properties. *)

\* Who is in a locked section holds the lock
LockHeld ==
  /\ mainPc \in LockedState => kill_lock = "main"
  /\ killPc \notin {"idle", "done"} => kill_lock = "killer"

\* A stopped group is one that is paused, whatever statement a thread is at
StoppedIsPaused ==
  /\ stopped => paused
  /\ mainPc \in {"setPausedAt", "sigstop"} => paused
  /\ mainPc \in {"append", "clearPaused", "clearPausedAt"} => ~stopped
  /\ killPc \notin {"idle", "sigcont", "done"} => ~stopped

\* The ladder of signals: each deadline was set when its signal was sent
Ladder ==
  /\ told # None => told <= TermGrace
  /\ term_deadline # None => told # None /\ told + term_deadline >= TermGrace
  /\ killPc = "grace" => told # None /\ told + killLimit >= TermGrace
  /\ killPc \in {"reap", "reapAgain", "scan", "done"} => told # None
  /\ kill_sent \/ pollPc \in {"reap", "reapAgain", "scan"} => killed

\* The inductive invariant: also that every stopped group can be found again by
\* its flag, and that no signal was sent before the one that precedes it.
IInv ==
  TypeOK /\ DoneMeansGone /\ KillTellsTruth /\ LockHeld /\ StoppedIsPaused /\ Ladder

(* The inductive invariant of NoEarlyTimeout. *)

\* How much of start..end an interval is known to cover.  One that kill() added
\* after Ctrl-C hit pause() has no beginning, and counts nothing.
Cover(interval, start, end) == IF interval[1] = None THEN 0 ELSE Overlap(interval, start, end)
Covers(intervals, start, end) ==
  [i \in DOMAIN intervals |-> Cover(intervals[i], start, end)]
Paused(intervals, start, end) == FoldSeq(+, 0, Covers(intervals, start, end))

\* A pause that is known by its beginning, until it is on the list
PauseGoesOn ==
  paused /\ paused_at # None /\ mainPc # "clearPaused" /\ killPc # "clearPaused"
Pausing(start, end) == IF PauseGoesOn THEN Overlap(<<paused_at, end>>, start, end) ELSE 0
Excused(start, end) == Paused(pause_intervals, start, end) + Pausing(start, end)

\* From any start on, the ticks that were not in a pause were ticks of the group
Charged(intervals, end) ==
  \A start \in 0..end : end - start <= ran + Paused(intervals, start, end)
ChargedNow(end) ==
  \A start \in 0..end : end - start <= ran + Excused(start, end)

\* A pause begins before its group is stopped, and ends after it
PauseOrder ==
  /\ paused_at # None => paused_at <= now
  /\ \A i \in DOMAIN pause_intervals : pause_intervals[i][2] <= now
  /\ stopped => paused_at # None /\ mainPc # "clearPaused" /\ killPc # "clearPaused"
  /\ mainPc \in {"setPaused", "setPausedAt"} => paused_at = None
  /\ mainPc = "sigstop" => paused_at # None
  /\ mainPc = "clearPausedAt" \/ killPc = "clearPausedAt" => ~paused
  /\ ~paused /\ mainPc = "idle" => paused_at = None \/ killPc = "clearPausedAt"

\* What a poll has read of the clock and of the pauses fits together
PollRead ==
  /\ pollPc \in {"check", "start", "flag", "since", "decide"} => pollNow <= now
  /\ pollPc = "check" => ChargedNow(pollNow)
  /\ pollPc = "start" => Charged(pause_intervals, pollNow)
  /\ pollPc \in {"flag", "since", "decide"} =>
       timeout_start # None /\ Charged(pollIntervals, pollNow)

\* No moment is charged twice: as long as the pauses are taken off, the group
\* ran for what is left.
TimeCharged == PauseOrder /\ ChargedNow(now) /\ PollRead /\ NoEarlyTimeout

(* The runner as RunnerContract sees it. *)
GroupState ==
  IF ~GroupExists THEN "exited"
  ELSE IF stopped THEN "stopped"
  ELSE IF "shell" \notin live \/ told # None \/ killed THEN "closing"
  ELSE "running"

VerdictState ==
  IF ~done THEN "none"
  ELSE IF ~shutdown_incomplete \/ (killPc = "done" /\ killReaped) THEN "gone"
  ELSE "left"

Contract == INSTANCE RunnerContract WITH group <- GroupState, verdict <- VerdictState

\* The runner implements RunnerContract.
ImplementsContract == Contract!Spec
=============================================================================
