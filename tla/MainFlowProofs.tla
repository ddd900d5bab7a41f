--------------------------- MODULE MainFlowProofs ---------------------------
(***************************************************************************)
(* Proofs about MainFlow, for every set of tests and any number of Ctrl-C  *)
(***************************************************************************)
EXTENDS MainFlow, FiniteSetTheorems, TLAPS

(***************************************************************************)
(* The inductive invariant                                                 *)
(***************************************************************************)

Before == {"setup", "prepare"}
Running == {"jobs", "menu", "kill"}
After == {"jobs_done", "workflow", "summary", "report", "cleanup", "check", "finally", "persist",
          "leave"}
KilledPhases == {"kill_cleanup", "interrupted", "interrupted_save"}

\* No job waits or runs
Settled ==
  /\ compile \notin {"queued", "live"}
  /\ \A t \in Test : job[t] \notin {"queued", "live"}

\* No job was interrupted by Ctrl-C, and the one that could not be reaped has its entry
Undisturbed ==
  /\ compile # "skipped"
  /\ \A t \in Test : job[t] # "interrupted" /\ (job[t] = "unreaped" => rec[t] # NoEntry)

\* The jobs that were interrupted, or not reaped, have their entries
Recorded == \A t \in Test : job[t] \in {"interrupted", "unreaped"} => rec[t] # NoEntry

\* A job and its entry
Agree ==
  \A t \in Test :
    /\ job[t] \in {"queued", "live", "skipped", "bypassed"} => rec[t] = NoEntry
    /\ job[t] = "passed" => rec[t] = Entry("PASSED", TRUE)
    /\ job[t] = "failed" => rec[t].status = "FAILED"
    /\ job[t] = "interrupted" => rec[t] \in {NoEntry, Entry("INTERRUPTED", TRUE)}
    /\ job[t] = "unreaped" =>
         rec[t] \in {NoEntry, Entry("INTERRUPTED", TRUE), Entry("FAILED", FALSE)}

\* The compile job and its tests
Gate ==
  /\ compile \in {"queued", "live"} => \A t \in Test : job[t] = "queued"
  /\ compile \in {"failed", "unreaped", "skipped"} =>
       \A t \in Test : job[t] \in {"skipped", "bypassed"}
  /\ \A t \in Test : job[t] = "bypassed" => norun

\* What went wrong in a job is an issue, and what could not be reaped is known
Known ==
  /\ compile \in {"failed", "skipped", "unreaped"} => issues
  /\ \A t \in Test : job[t] \in {"failed", "skipped", "interrupted", "unreaped"} => issues
  /\ compile = "unreaped" => unreaped
  /\ \A t \in Test : job[t] = "unreaped" => unreaped

\* How far the jobs are in each phase
Flow ==
  /\ phase \in Before => compile = "queued"
  /\ phase \in Before \cup Running \cup After \cup {"late_cleanup"} => Undisturbed
  /\ phase \in After \cup KilledPhases \cup {"late_cleanup"} => Settled
  /\ phase = "interrupted_save" /\ run # None => Recorded

\* The cleanup of the shared runtime, and what is said of the end of the regression
Ended ==
  /\ cleanups = IF attempted THEN 1 ELSE 0
  /\ attempted => ~unreaped /\ Settled
  /\ phase \in Before \cup Running \cup {"jobs_done", "workflow", "summary", "report", "cleanup"} =>
       ~attempted /\ ~complete /\ ~raised
  /\ phase \in {"summary", "report", "cleanup", "check"} => (unreaped => failed)
  /\ phase = "kill_cleanup" => ~attempted /\ ~complete
  /\ complete => Settled /\ (unreaped => failed) /\ (~unreaped => attempted)
  /\ phase = "check" => complete /\ ~raised
  /\ phase \in {"finally", "persist", "leave"} => (raised <=> issues \/ ~complete)

\* Nothing was wrong with the run
Clean == complete /\ ~failed /\ ~issues

\* What the history has of the run
SavedTells ==
  saved # None =>
    /\ ~norun /\ Settled /\ Recorded
    /\ saved = Finalized(TRUE) \/ (saved = Finalized(FALSE) /\ Clean /\ exit # 1)

\* What exit status 0 tells
ZeroTells ==
  exit = 0 =>
    /\ Clean /\ Settled /\ Undisturbed
    /\ ~norun => saved = Finalized(FALSE)

\* The record of the run, what was saved of it, and the exit status
Record ==
  /\ phase = "setup" => run = None
  /\ phase \notin {"setup", "persist", "leave", "exited"} => run = IF norun THEN None ELSE Open
  /\ phase \in {"persist", "leave"} =>
       run = IF norun THEN None ELSE Finalized(failed \/ ~complete \/ issues)
  /\ phase \notin {"leave", "exited"} => saved = None
  /\ phase = "leave" => saved = IF ShouldSave THEN run ELSE None
  /\ phase # "exited" => exit = None
  /\ phase = "exited" => exit # None
  /\ SavedTells /\ ZeroTells

IInv == TypeOK /\ Agree /\ Gate /\ Known /\ Flow /\ Ended /\ Record

(***************************************************************************)
(* The record of the run                                                   *)
(***************************************************************************)

\* What finalize_run counts and says of a run is a result of its kind
LEMMA FinalizedIsResult ==
  ASSUME TypeOK, Agree, NEW b \in BOOLEAN
  PROVE  Finalized(b) \in Results
<1>1. \A s : Cardinality(With(s)) \in Nat
  BY MainFlowAssumption, FS_Subset, FS_CardinalityType DEF With
<1>2. Skipped \in Nat
  <2>1. IsFiniteSet(Entries) /\ Cardinality(Entries) <= Cardinality(Test)
    BY MainFlowAssumption, FS_Subset DEF Entries
  <2>. QED  BY <2>1, MainFlowAssumption, FS_CardinalityType DEF Skipped
<1>3. RunStatus(b) \in {"FAILED", "INTERRUPTED", "PASSED", "PARTIAL", "COMPILE_FAILED",
                        "NO_SIM_RUN"}
  <2>1. With("FAILED") = {} /\ With("INTERRUPTED") = {} => Entries = With("PASSED")
    <3>1. ASSUME NEW t \in Test, rec[t] # NoEntry
          PROVE  rec[t].status \in {"PASSED", "FAILED", "INTERRUPTED"}
      BY <3>1 DEF TypeOK, Agree, NoEntry, Entry
    <3>2. NoEntry.status = "none"  BY DEF NoEntry
    <3>. QED  BY <3>1, <3>2 DEF With, Entries
  <2>2. CASE b \/ With("FAILED") # {}  BY <2>2 DEF RunStatus
  <2>3. CASE ~b /\ With("FAILED") = {} /\ With("INTERRUPTED") # {}  BY <2>3 DEF RunStatus
  <2>4. CASE ~b /\ With("FAILED") = {} /\ With("INTERRUPTED") = {} /\ With("PASSED") = Test
    BY <2>1, <2>4, MainFlowAssumption DEF RunStatus
  <2>5. CASE ~b /\ With("FAILED") = {} /\ With("INTERRUPTED") = {} /\ With("PASSED") # Test
    <3>1. CASE Entries # {}  BY <2>1, <2>5, <3>1 DEF RunStatus
    <3>2. CASE Entries = {}  BY <2>1, <2>5, <3>2 DEF RunStatus
    <3>. QED  BY <3>1, <3>2
  <2>. QED  BY <2>2, <2>3, <2>4, <2>5
<1>. QED  BY <1>1, <1>2, <1>3 DEF Finalized, Summary, Results

\* It depends on the entries and on the compile job only
LEMMA FinalizedStays ==
  ASSUME UNCHANGED <<rec, compile>>, NEW b
  PROVE  Finalized(b)' = Finalized(b) /\ Entries' = Entries
BY DEF Finalized, RunStatus, Summary, Skipped, With, Entries


(***************************************************************************)
(* Each action keeps the invariant                                         *)
(***************************************************************************)

LEMMA SetupStep ==
  ASSUME IInv, Setup
  PROVE  IInv'
<1>1. TypeOK'
  BY DEF IInv, TypeOK, Phases, jobs, Setup, ending
<1>2. Agree'
  BY DEF IInv, Agree, NoEntry, Entry, Setup, jobs, ending
<1>3. Gate'
  BY DEF IInv, Gate, Setup, jobs, ending
<1>4. Known'
  BY DEF IInv, Known, Setup, jobs, ending
<1>5. Flow'
  BY DEF IInv, Flow, Before, Running, jobs, After, Undisturbed, NoEntry, KilledPhases,
         Settled, Recorded, Setup, ending
<1>6. Ended'
  BY DEF IInv, Ended, Settled, Before, Running, jobs, Setup, ending
<1>7. Record'
  BY MainFlowAssumption DEF IInv, Record, Flow, SavedTells, Settled, Recorded, NoEntry, Clean,
         ZeroTells, Undisturbed, Before, Running, jobs, After, KilledPhases, Setup, ending
<1>. QED  BY <1>1, <1>2, <1>3, <1>4, <1>5, <1>6, <1>7 DEF IInv

LEMMA PrepareStep ==
  ASSUME IInv, Prepare
  PROVE  IInv'
<1>1. TypeOK'
  BY DEF IInv, TypeOK, Phases, jobs, Prepare, ending
<1>2. Agree'
  BY DEF IInv, Agree, NoEntry, Entry, Prepare, jobs, ending
<1>3. Gate'
  BY DEF IInv, Gate, Prepare, jobs, ending
<1>4. Known'
  BY DEF IInv, Known, Prepare, jobs, ending
<1>5. Flow'
  BY DEF IInv, Flow, Before, Running, jobs, After, Undisturbed, NoEntry, KilledPhases,
         Settled, Recorded, Prepare, ending
<1>6. Ended'
  BY DEF IInv, Ended, Settled, Before, Running, jobs, Prepare, ending
<1>7. Record'
  BY MainFlowAssumption DEF IInv, Record, Flow, SavedTells, Settled, Recorded, NoEntry, Clean,
         ZeroTells, Undisturbed, Before, Running, jobs, After, KilledPhases, Prepare, ending
<1>. QED  BY <1>1, <1>2, <1>3, <1>4, <1>5, <1>6, <1>7 DEF IInv

LEMMA CompileStartsStep ==
  ASSUME IInv, CompileStarts
  PROVE  IInv'
<1>1. TypeOK'
  BY DEF IInv, TypeOK, Phases, jobs, CompileStarts, SchedulerRuns, ending
<1>2. Agree'
  BY DEF IInv, Agree, NoEntry, Entry, CompileStarts, SchedulerRuns, jobs, ending
<1>3. Gate'
  BY DEF IInv, Gate, CompileStarts, SchedulerRuns, jobs, ending
<1>4. Known'
  BY DEF IInv, Known, CompileStarts, SchedulerRuns, jobs, ending
<1>5. Flow'
  BY DEF IInv, Flow, Before, Running, jobs, After, Undisturbed, NoEntry, KilledPhases,
         Settled, Recorded, CompileStarts, SchedulerRuns, ending
<1>6. Ended'
  BY DEF IInv, Ended, Settled, Before, Running, jobs, CompileStarts, SchedulerRuns, ending
<1>7. Record'
  BY DEF IInv, Record, SavedTells, Settled, Recorded, NoEntry, Clean, ZeroTells, Undisturbed,
         CompileStarts, SchedulerRuns, jobs, ending
<1>. QED  BY <1>1, <1>2, <1>3, <1>4, <1>5, <1>6, <1>7 DEF IInv

LEMMA CompileEndsStep ==
  ASSUME IInv, CompileEnds
  PROVE  IInv'
<1>1. TypeOK'
  <2>1. compile' \in {"passed", "failed"} /\ issues' \in BOOLEAN
    BY DEF IInv, TypeOK, CompileEnds
  <2>2. job' \in {job, [t \in Test |-> "bypassed"], [t \in Test |-> "skipped"]}
    BY DEF CompileEnds
  <2>. QED  BY <2>1, <2>2 DEF IInv, TypeOK, CompileEnds, ending
<1>2. Agree'
  BY DEF IInv, Agree, Gate, NoEntry, Entry, CompileEnds, SchedulerRuns, jobs, ending
<1>3. Gate'
  BY DEF IInv, Gate, CompileEnds, SchedulerRuns, jobs, ending
<1>4. Known'
  <2>1. PICK ok \in BOOLEAN :
          /\ compile' = IF ok THEN "passed" ELSE "failed"
          /\ issues' \in {issues \/ ~ok, TRUE}
          /\ job' = IF norun THEN [t \in Test |-> "bypassed"]
                    ELSE IF ok THEN job ELSE [t \in Test |-> "skipped"]
    BY DEF CompileEnds
  <2>2. CASE ok
    <3>1. \A t \in Test : job'[t] \in {"bypassed", "queued"}
      BY <2>1, <2>2 DEF IInv, Gate, CompileEnds
    <3>. QED  BY <2>1, <2>2, <3>1 DEF Known
  <2>3. CASE ~ok
    <3>1. issues' = TRUE  BY <2>1, <2>3
    <3>2. \A t \in Test : job'[t] \in {"bypassed", "skipped"}  BY <2>1, <2>3
    <3>. QED  BY <2>1, <2>3, <3>1, <3>2 DEF Known
  <2>. QED  BY <2>2, <2>3
<1>5. Flow'
  BY DEF IInv, Flow, Before, Running, jobs, After, Undisturbed, NoEntry, KilledPhases,
         Settled, Recorded, CompileEnds, SchedulerRuns, ending
<1>6. Ended'
  BY DEF IInv, Ended, Settled, Before, Running, jobs, CompileEnds, SchedulerRuns, ending
<1>7. Record'
  BY DEF IInv, Record, SavedTells, Settled, Recorded, NoEntry, Clean, ZeroTells, Undisturbed,
         CompileEnds, SchedulerRuns, jobs, ending
<1>. QED  BY <1>1, <1>2, <1>3, <1>4, <1>5, <1>6, <1>7 DEF IInv

LEMMA CompileUnreapedStep ==
  ASSUME IInv, CompileUnreaped
  PROVE  IInv'
<1>1. TypeOK'
  BY DEF IInv, TypeOK, Phases, jobs, CompileUnreaped, SchedulerRuns, ending
<1>2. Agree'
  BY DEF IInv, Agree, Gate, NoEntry, Entry, CompileUnreaped, SchedulerRuns, jobs, ending
<1>3. Gate'
  BY DEF IInv, Gate, CompileUnreaped, SchedulerRuns, jobs, ending
<1>4. Known'
  BY DEF IInv, Known, CompileUnreaped, SchedulerRuns, jobs, ending
<1>5. Flow'
  BY DEF IInv, Flow, Before, Running, jobs, After, Undisturbed, NoEntry, KilledPhases,
         Settled, Recorded, CompileUnreaped, SchedulerRuns, ending
<1>6. Ended'
  BY DEF IInv, Ended, Settled, Before, Running, jobs, CompileUnreaped, SchedulerRuns, ending
<1>7. Record'
  BY DEF IInv, Record, SavedTells, Settled, Recorded, NoEntry, Clean, ZeroTells, Undisturbed,
         CompileUnreaped, SchedulerRuns, jobs, ending
<1>. QED  BY <1>1, <1>2, <1>3, <1>4, <1>5, <1>6, <1>7 DEF IInv

LEMMA TestStartsStep ==
  ASSUME IInv, NEW t \in Test, TestStarts(t)
  PROVE  IInv'
<1>1. TypeOK'
  BY DEF IInv, TypeOK, Phases, jobs, TestStarts, SchedulerRuns, ending
<1>2. Agree'
  BY DEF IInv, Agree, NoEntry, Entry, TestStarts, SchedulerRuns, jobs, ending
<1>3. Gate'
  BY DEF IInv, Gate, TestStarts, SchedulerRuns, jobs, ending
<1>4. Known'
  BY DEF IInv, Known, TestStarts, SchedulerRuns, jobs, ending
<1>5. Flow'
  BY DEF IInv, Flow, Before, Running, jobs, After, Undisturbed, NoEntry, KilledPhases,
         Settled, Recorded, TestStarts, SchedulerRuns, ending
<1>6. Ended'
  BY DEF IInv, Ended, Settled, Before, Running, jobs, TestStarts, SchedulerRuns, ending
<1>7. Record'
  BY DEF IInv, Record, SavedTells, Settled, Recorded, NoEntry, Clean, ZeroTells, Undisturbed,
         TestStarts, SchedulerRuns, jobs, ending
<1>. QED  BY <1>1, <1>2, <1>3, <1>4, <1>5, <1>6, <1>7 DEF IInv

LEMMA SimulationStartsStep ==
  ASSUME IInv, NEW t \in Test, SimulationStarts(t)
  PROVE  IInv'
<1>1. TypeOK'
  BY DEF IInv, TypeOK, Phases, jobs, SimulationStarts, SchedulerRuns, ending
<1>2. Agree'
  BY DEF IInv, Agree, NoEntry, Entry, SimulationStarts, SchedulerRuns, jobs, ending
<1>3. Gate'
  BY DEF IInv, Gate, SimulationStarts, SchedulerRuns, jobs, ending
<1>4. Known'
  BY DEF IInv, Known, SimulationStarts, SchedulerRuns, jobs, ending
<1>5. Flow'
  BY DEF IInv, Flow, Before, Running, jobs, After, Undisturbed, NoEntry, KilledPhases,
         Settled, Recorded, SimulationStarts, SchedulerRuns, ending
<1>6. Ended'
  BY DEF IInv, Ended, Settled, Before, Running, jobs, SimulationStarts, SchedulerRuns, ending
<1>7. Record'
  BY DEF IInv, Record, SavedTells, Settled, Recorded, NoEntry, Clean, ZeroTells, Undisturbed,
         SimulationStarts, SchedulerRuns, jobs, ending
<1>. QED  BY <1>1, <1>2, <1>3, <1>4, <1>5, <1>6, <1>7 DEF IInv

LEMMA TestPassesStep ==
  ASSUME IInv, NEW t \in Test, TestPasses(t)
  PROVE  IInv'
<1>1. TypeOK'
  BY DEF IInv, TypeOK, Phases, jobs, TestPasses, SchedulerRuns, Entry, ending
<1>2. Agree'
  BY DEF IInv, Agree, TypeOK, NoEntry, Entry, Phases, jobs, TestPasses, SchedulerRuns, ending
<1>3. Gate'
  BY DEF IInv, Gate, TestPasses, SchedulerRuns, jobs, Entry, ending
<1>4. Known'
  BY DEF IInv, Known, TestPasses, SchedulerRuns, jobs, Entry, ending
<1>5. Flow'
  BY DEF IInv, Flow, Before, Running, jobs, After, Undisturbed, NoEntry, KilledPhases,
         Settled, Recorded, TestPasses, SchedulerRuns, Entry, ending
<1>6. Ended'
  BY DEF IInv, Ended, Settled, Before, Running, jobs, TestPasses, SchedulerRuns, Entry, ending
<1>7. Record'
  BY DEF IInv, Record, SavedTells, Settled, Recorded, NoEntry, Clean, ZeroTells, Undisturbed,
         TestPasses, SchedulerRuns, jobs, Entry, ending
<1>. QED  BY <1>1, <1>2, <1>3, <1>4, <1>5, <1>6, <1>7 DEF IInv

LEMMA TestFailsStep ==
  ASSUME IInv, NEW t \in Test, TestFails(t)
  PROVE  IInv'
<1>1. TypeOK'
  <2>1. rec' \in [Test -> [status : {"none", "PASSED", "FAILED", "INTERRUPTED"}, started : BOOLEAN]]
    <3>1. PICK started \in BOOLEAN : rec' = [rec EXCEPT ![t] = Entry("FAILED", started)]
      BY DEF TestFails
    <3>. QED  BY <3>1 DEF IInv, TypeOK, Entry
  <2>2. job' \in [Test -> {"queued", "live", "passed", "failed", "skipped", "bypassed",
                          "interrupted", "unreaped"}]
    BY DEF IInv, TypeOK, TestFails, AfterFailure
  <2>. QED  BY <2>1, <2>2 DEF IInv, TypeOK, TestFails, ending
<1>2. Agree'
  BY DEF IInv, Agree, TypeOK, NoEntry, Entry, Phases, jobs, TestFails, SchedulerRuns,
         AfterFailure, ending
<1>3. Gate'
  BY DEF IInv, Gate, TestFails, SchedulerRuns, jobs, Entry, AfterFailure, ending
<1>4. Known'
  BY DEF IInv, Known, TestFails, SchedulerRuns, jobs, Entry, AfterFailure, ending
<1>5. Flow'
  BY DEF IInv, Flow, Before, Running, jobs, After, Undisturbed, NoEntry, KilledPhases,
         Settled, Recorded, TestFails, SchedulerRuns, Entry, AfterFailure, ending
<1>6. Ended'
  BY DEF IInv, Ended, Settled, Before, Running, jobs, TestFails, SchedulerRuns, Entry,
         AfterFailure, ending
<1>7. Record'
  BY DEF IInv, Record, SavedTells, Settled, Recorded, NoEntry, Clean, ZeroTells, Undisturbed,
         TestFails, SchedulerRuns, jobs, Entry, AfterFailure, ending
<1>. QED  BY <1>1, <1>2, <1>3, <1>4, <1>5, <1>6, <1>7 DEF IInv

LEMMA TestUnreapedStep ==
  ASSUME IInv, NEW t \in Test, TestUnreaped(t)
  PROVE  IInv'
<1>1. TypeOK'
  BY DEF IInv, TypeOK, Phases, jobs, TestUnreaped, SchedulerRuns, Entry, AfterFailure, ending
<1>2. Agree'
  BY DEF IInv, Agree, NoEntry, Entry, TestUnreaped, SchedulerRuns, jobs, AfterFailure, ending
<1>3. Gate'
  BY DEF IInv, Gate, TestUnreaped, SchedulerRuns, jobs, Entry, AfterFailure, ending
<1>4. Known'
  BY DEF IInv, Known, TestUnreaped, SchedulerRuns, jobs, Entry, AfterFailure, ending
<1>5. Flow'
  BY DEF IInv, Flow, TypeOK, Before, Running, jobs, After, Undisturbed, NoEntry, KilledPhases,
         Settled, Recorded, Phases, TestUnreaped, SchedulerRuns, Entry, AfterFailure, ending
<1>6. Ended'
  BY DEF IInv, Ended, Settled, Before, Running, jobs, TestUnreaped, SchedulerRuns, Entry,
         AfterFailure, ending
<1>7. Record'
  BY DEF IInv, Record, SavedTells, Settled, Recorded, NoEntry, Clean, ZeroTells, Undisturbed,
         TestUnreaped, SchedulerRuns, jobs, Entry, AfterFailure, ending
<1>. QED  BY <1>1, <1>2, <1>3, <1>4, <1>5, <1>6, <1>7 DEF IInv

LEMMA JobsDoneStep ==
  ASSUME IInv, JobsDone
  PROVE  IInv'
<1>1. TypeOK'
  BY DEF IInv, TypeOK, Phases, jobs, JobsDone, Drained, ending
<1>2. Agree'
  BY DEF IInv, Agree, NoEntry, Entry, JobsDone, jobs, Drained, ending
<1>3. Gate'
  BY DEF IInv, Gate, JobsDone, jobs, Drained, ending
<1>4. Known'
  BY DEF IInv, Known, JobsDone, jobs, Drained, ending
<1>5. Flow'
  BY DEF IInv, Flow, Before, Running, jobs, After, Undisturbed, NoEntry, KilledPhases,
         Settled, Recorded, JobsDone, Drained, ending
<1>6. Ended'
  BY DEF IInv, Ended, Settled, Before, Running, jobs, JobsDone, Drained, ending
<1>7. Record'
  BY DEF IInv, Record, Ended, SavedTells, Settled, Recorded, NoEntry, Clean, ZeroTells,
         Undisturbed, Before, Running, jobs, JobsDone, Drained, ending
<1>. QED  BY <1>1, <1>2, <1>3, <1>4, <1>5, <1>6, <1>7 DEF IInv

LEMMA InterruptStep ==
  ASSUME IInv, Interrupt
  PROVE  IInv'
<1>1. TypeOK'
  BY MainFlowAssumption DEF IInv, TypeOK, Phases, jobs, Interrupt, Ignoring, ending
<1>2. Agree'
  BY DEF IInv, Agree, NoEntry, Entry, Interrupt, Ignoring, jobs, ending
<1>3. Gate'
  BY DEF IInv, Gate, Interrupt, Ignoring, jobs, ending
<1>4. Known'
  BY DEF IInv, Known, Interrupt, Ignoring, jobs, ending
<1>5. Flow'
  BY DEF IInv, Flow, Before, Running, jobs, After, Undisturbed, NoEntry, KilledPhases,
         Settled, Recorded, Interrupt, Ignoring, ending
<1>6. Ended'
  BY DEF IInv, Ended, Settled, Before, Running, jobs, Interrupt, Ignoring, ending
<1>7. Record'
  <2>1. \/ /\ phase' \in {"menu", "kill", "late_cleanup"} /\ exit' = exit
           /\ phase \in {"jobs", "prepare", "menu", "workflow", "summary", "report", "cleanup",
                         "check"}
        \/ phase' = "exited" /\ exit' = 130 /\ phase # "exited"
    BY DEF Interrupt, Ignoring
  <2>2. \A b \in BOOLEAN : Finalized(b)' = Finalized(b)
    BY FinalizedStays DEF Interrupt, jobs
  <2>3. Settled' = Settled /\ Recorded' = Recorded /\ Clean' = Clean
    BY DEF Settled, Recorded, Clean, Interrupt, jobs, ending
  <2>4. (exit' # 0 /\ exit' # 1) \/ exit' = exit  BY <2>1
  <2>. QED  BY <2>1, <2>2, <2>3, <2>4, MainFlowAssumption
            DEF IInv, Record, SavedTells, ZeroTells, Interrupt
<1>. QED  BY <1>1, <1>2, <1>3, <1>4, <1>5, <1>6, <1>7 DEF IInv

LEMMA MenuStep ==
  ASSUME IInv, Menu
  PROVE  IInv'
<1>1. TypeOK'
  BY DEF IInv, TypeOK, Phases, jobs, Menu, ending
<1>2. Agree'
  BY DEF IInv, Agree, NoEntry, Entry, Menu, jobs, ending
<1>3. Gate'
  BY DEF IInv, Gate, Menu, jobs, ending
<1>4. Known'
  BY DEF IInv, Known, Menu, jobs, ending
<1>5. Flow'
  BY DEF IInv, Flow, Before, Running, jobs, After, Undisturbed, NoEntry, KilledPhases,
         Settled, Recorded, Menu, ending
<1>6. Ended'
  BY DEF IInv, Ended, Settled, Before, Running, jobs, Menu, ending
<1>7. Record'
  BY DEF IInv, Record, Ended, SavedTells, Settled, Recorded, NoEntry, Clean, ZeroTells,
         Undisturbed, Before, Running, jobs, Menu, ending
<1>. QED  BY <1>1, <1>2, <1>3, <1>4, <1>5, <1>6, <1>7 DEF IInv

LEMMA KillJobsStep ==
  ASSUME IInv, KillJobs
  PROVE  IInv'
<1>1. TypeOK'
  BY DEF IInv, TypeOK, Phases, jobs, KillJobs, Stubborn, Live, ending
<1>2. Agree'
  BY DEF IInv, Agree, NoEntry, Entry, KillJobs, Stubborn, Live, ending
<1>3. Gate'
  BY DEF IInv, Gate, KillJobs, Stubborn, Live, ending
<1>4. Known'
  BY MainFlowAssumption DEF IInv, Known, TypeOK, Phases, jobs, KillJobs, Stubborn, Live, ending
<1>5. Flow'
  BY DEF IInv, Flow, Before, Running, jobs, After, Undisturbed, NoEntry, KilledPhases,
         Settled, Recorded, KillJobs, Stubborn, Live, ending
<1>6. Ended'
  BY DEF IInv, Ended, Settled, Before, Running, jobs, KillJobs, Stubborn, Live, ending
<1>7. Record'
  BY DEF IInv, Record, Ended, SavedTells, Settled, Recorded, NoEntry, Clean, ZeroTells,
         Undisturbed, Before, Running, jobs, KillJobs, Stubborn, Live, ending
<1>. QED  BY <1>1, <1>2, <1>3, <1>4, <1>5, <1>6, <1>7 DEF IInv

LEMMA InterruptedCleanupStep ==
  ASSUME IInv, InterruptedCleanup
  PROVE  IInv'
<1>1. TypeOK'
  <2>1. attempted' \in BOOLEAN  BY DEF IInv, TypeOK, InterruptedCleanup, Cleanup
  <2>. QED  BY <2>1 DEF IInv, TypeOK, InterruptedCleanup, Phases, jobs
<1>2. Agree'
  BY DEF IInv, Agree, NoEntry, Entry, InterruptedCleanup, Cleanup, jobs
<1>3. Gate'
  BY DEF IInv, Gate, InterruptedCleanup, Cleanup, jobs
<1>4. Known'
  BY DEF IInv, Known, InterruptedCleanup, Cleanup, jobs
<1>5. Flow'
  BY DEF IInv, Flow, Before, Running, jobs, After, Undisturbed, NoEntry, KilledPhases,
         Settled, Recorded, InterruptedCleanup, Cleanup
<1>6. Ended'
  BY DEF IInv, Ended, Flow, Settled, Before, Running, jobs, After, Undisturbed, NoEntry,
         KilledPhases, Recorded, InterruptedCleanup, Cleanup
<1>7. Record'
  BY MainFlowAssumption DEF IInv, Record, SavedTells, Settled, Recorded, NoEntry, Clean,
         ZeroTells, Undisturbed, InterruptedCleanup, Cleanup, jobs
<1>. QED  BY <1>1, <1>2, <1>3, <1>4, <1>5, <1>6, <1>7 DEF IInv

LEMMA RecordInterruptedStep ==
  ASSUME IInv, RecordInterrupted
  PROVE  IInv'
<1>1. TypeOK'
  BY DEF IInv, TypeOK, Phases, jobs, RecordInterrupted, NoEntry, Entry, ending
<1>2. Agree'
  BY DEF IInv, Agree, NoEntry, Entry, RecordInterrupted, ending
<1>3. Gate'
  BY DEF IInv, Gate, RecordInterrupted, NoEntry, Entry, ending
<1>4. Known'
  BY DEF IInv, Known, RecordInterrupted, NoEntry, Entry, ending
<1>5. Flow'
  BY DEF IInv, Flow, Before, Running, jobs, After, Undisturbed, NoEntry, KilledPhases,
         Settled, Recorded, RecordInterrupted, Entry, ending
<1>6. Ended'
  BY DEF IInv, Ended, Settled, Before, Running, jobs, RecordInterrupted, NoEntry, Entry, ending
<1>7. Record'
  BY MainFlowAssumption DEF IInv, Record, SavedTells, Settled, Recorded, NoEntry, Clean,
         ZeroTells, Undisturbed, RecordInterrupted, Entry, ending
<1>. QED  BY <1>1, <1>2, <1>3, <1>4, <1>5, <1>6, <1>7 DEF IInv

LEMMA SaveInterruptedStep ==
  ASSUME IInv, SaveInterrupted
  PROVE  IInv'
<1>1. TypeOK'
  <2>1. Finalized(TRUE) \in Results  BY FinalizedIsResult DEF IInv
  <2>2. run' = None \/ run' \in Results  BY <2>1 DEF SaveInterrupted
  <2>3. saved' = None \/ saved' \in Results
    <3>1. ShouldSave => run' = Finalized(TRUE)  BY DEF SaveInterrupted, ShouldSave
    <3>. QED  BY <2>1, <3>1 DEF SaveInterrupted, Stubborn
  <2>4. exit' = 130 /\ phase' = "exited"  BY DEF SaveInterrupted
  <2>5. UNCHANGED <<norun, report, jobs, issues, ending, interrupts>>  BY DEF SaveInterrupted
  <2>. QED  BY <2>2, <2>3, <2>4, <2>5 DEF IInv, TypeOK, Phases, jobs, ending
<1>2. Agree'
  BY DEF IInv, Agree, NoEntry, Entry, SaveInterrupted, Stubborn, jobs, ending
<1>3. Gate'
  BY DEF IInv, Gate, SaveInterrupted, Stubborn, jobs, ending
<1>4. Known'
  BY DEF IInv, Known, SaveInterrupted, Stubborn, jobs, ending
<1>5. Flow'
  BY DEF IInv, Flow, Before, Running, jobs, After, Undisturbed, NoEntry, KilledPhases,
         Settled, Recorded, SaveInterrupted, Stubborn, ending
<1>6. Ended'
  BY DEF IInv, Ended, Settled, Before, Running, jobs, SaveInterrupted, Stubborn, ending
<1>7. Record'
  <2>1. run # None => ~norun /\ Settled /\ Recorded
    BY DEF IInv, Record, Flow, SaveInterrupted, KilledPhases
  <2>2. Finalized(TRUE)' = Finalized(TRUE)
    BY FinalizedStays DEF SaveInterrupted, jobs
  <2>3. Settled' = Settled /\ Recorded' = Recorded
    BY DEF Settled, Recorded, SaveInterrupted, jobs
  <2>4. saved' # None => run # None /\ saved' = Finalized(TRUE)
    BY DEF SaveInterrupted, ShouldSave, Stubborn
  <2>5. phase' = "exited" /\ exit' = 130 /\ norun' = norun  BY DEF SaveInterrupted
  <2>6. exit' # None /\ exit' # 0  BY <2>5, MainFlowAssumption
  <2>7. saved' # None =>
          ~norun' /\ Settled' /\ Recorded' /\ saved' = Finalized(TRUE)'
    BY <2>1, <2>2, <2>3, <2>4, <2>5
  <2>. QED  BY <2>5, <2>6, <2>7 DEF Record, SavedTells, ZeroTells
<1>. QED  BY <1>1, <1>2, <1>3, <1>4, <1>5, <1>6, <1>7 DEF IInv

LEMMA BeginStep ==
  ASSUME IInv, Begin
  PROVE  IInv'
<1>1. TypeOK'
  BY DEF IInv, TypeOK, Phases, jobs, Begin, ending
<1>2. Agree'
  BY DEF IInv, Agree, NoEntry, Entry, Begin, jobs, ending
<1>3. Gate'
  BY DEF IInv, Gate, Begin, jobs, ending
<1>4. Known'
  BY DEF IInv, Known, Begin, jobs, ending
<1>5. Flow'
  BY DEF IInv, Flow, Before, Running, jobs, After, Undisturbed, NoEntry, KilledPhases,
         Settled, Recorded, Begin, ending
<1>6. Ended'
  BY DEF IInv, Ended, Settled, Before, Running, jobs, Begin, ending
<1>7. Record'
  BY DEF IInv, Record, Ended, SavedTells, Settled, Recorded, NoEntry, Clean, ZeroTells,
         Undisturbed, Before, Running, jobs, Begin, ending
<1>. QED  BY <1>1, <1>2, <1>3, <1>4, <1>5, <1>6, <1>7 DEF IInv

LEMMA RaisesStep ==
  ASSUME IInv, Raises
  PROVE  IInv'
<1>1. TypeOK'
  BY DEF IInv, TypeOK, Phases, jobs, Raises
<1>2. Agree'
  BY DEF IInv, Agree, NoEntry, Entry, Raises, jobs
<1>3. Gate'
  BY DEF IInv, Gate, Raises, jobs
<1>4. Known'
  BY DEF IInv, Known, Raises, jobs
<1>5. Flow'
  BY DEF IInv, Flow, Before, Running, jobs, After, Undisturbed, NoEntry, KilledPhases,
         Settled, Recorded, Raises
<1>6. Ended'
  <2>1. phase \in {"workflow", "summary", "report", "cleanup"} /\ phase' = "finally" /\ raised'
    BY DEF Raises
  <2>2. ~attempted /\ cleanups = 0 /\ ~complete
    BY <2>1 DEF IInv, Ended
  <2>3. Settled /\ Settled' = Settled
    BY <2>1 DEF IInv, Flow, After, Settled, Raises, jobs
  <2>4. UNCHANGED <<unreaped, complete, failed>>  BY DEF Raises, jobs
  <2>5. cleanups' = IF attempted' THEN 1 ELSE 0
    <3>1. CASE phase = "cleanup" /\ ~unreaped
      <4>1. cleanups' = cleanups + 1 /\ attempted'  BY <2>2, <3>1 DEF Raises
      <4>. QED  BY <2>2, <4>1
    <3>2. CASE ~(phase = "cleanup" /\ ~unreaped)
      <4>1. cleanups' = cleanups /\ ~attempted'  BY <2>2, <3>2 DEF Raises
      <4>. QED  BY <2>2, <4>1
    <3>. QED  BY <3>1, <3>2
  <2>6. attempted' => ~unreaped  BY <2>2 DEF Raises
  <2>. QED  BY <2>1, <2>2, <2>3, <2>4, <2>5, <2>6 DEF Ended, Before, Running
<1>7. Record'
  BY DEF IInv, Record, Ended, SavedTells, Settled, Recorded, NoEntry, Clean, ZeroTells,
         Undisturbed, Before, Running, jobs, Raises
<1>. QED  BY <1>1, <1>2, <1>3, <1>4, <1>5, <1>6, <1>7 DEF IInv

LEMMA WorkflowStep ==
  ASSUME IInv, Workflow
  PROVE  IInv'
<1>1. TypeOK'
  BY DEF IInv, TypeOK, Ended, Phases, jobs, Settled, Before, Running, Workflow
<1>2. Agree'
  BY DEF IInv, Agree, NoEntry, Entry, Workflow, jobs
<1>3. Gate'
  BY DEF IInv, Gate, Workflow, jobs
<1>4. Known'
  BY DEF IInv, Known, Workflow, jobs
<1>5. Flow'
  BY DEF IInv, Flow, Before, Running, jobs, After, Undisturbed, NoEntry, KilledPhases,
         Settled, Recorded, Workflow
<1>6. Ended'
  BY DEF IInv, Ended, Settled, Before, Running, jobs, Workflow
<1>7. Record'
  BY DEF IInv, Record, Ended, SavedTells, Settled, Recorded, NoEntry, Clean, ZeroTells,
         Undisturbed, Before, Running, jobs, Workflow
<1>. QED  BY <1>1, <1>2, <1>3, <1>4, <1>5, <1>6, <1>7 DEF IInv

LEMMA PrintSummaryStep ==
  ASSUME IInv, PrintSummary
  PROVE  IInv'
<1>1. TypeOK'
  BY DEF IInv, TypeOK, Phases, jobs, PrintSummary, ending
<1>2. Agree'
  BY DEF IInv, Agree, NoEntry, Entry, PrintSummary, jobs, ending
<1>3. Gate'
  BY DEF IInv, Gate, PrintSummary, jobs, ending
<1>4. Known'
  BY DEF IInv, Known, PrintSummary, jobs, ending
<1>5. Flow'
  BY DEF IInv, Flow, Before, Running, jobs, After, Undisturbed, NoEntry, KilledPhases,
         Settled, Recorded, PrintSummary, ending
<1>6. Ended'
  BY DEF IInv, Ended, Settled, Before, Running, jobs, PrintSummary, ending
<1>7. Record'
  BY DEF IInv, Record, Ended, SavedTells, Settled, Recorded, NoEntry, Clean, ZeroTells,
         Undisturbed, Before, Running, jobs, PrintSummary, ending
<1>. QED  BY <1>1, <1>2, <1>3, <1>4, <1>5, <1>6, <1>7 DEF IInv

LEMMA ReportStep ==
  ASSUME IInv, Report
  PROVE  IInv'
<1>1. TypeOK'
  <2>1. failed' \in BOOLEAN  BY DEF IInv, TypeOK, Report
  <2>2. phase' = "cleanup"  BY DEF Report
  <2>3. UNCHANGED <<norun, report, jobs, issues, attempted, complete, raised, run, saved, exit,
                    interrupts>>
    BY DEF Report
  <2>. QED  BY <2>1, <2>2, <2>3 DEF IInv, TypeOK, Phases, jobs
<1>2. Agree'
  BY DEF IInv, Agree, NoEntry, Entry, Report, jobs
<1>3. Gate'
  BY DEF IInv, Gate, Report, jobs
<1>4. Known'
  BY DEF IInv, Known, Report, jobs
<1>5. Flow'
  BY DEF IInv, Flow, Before, Running, jobs, After, Undisturbed, NoEntry, KilledPhases,
         Settled, Recorded, Report
<1>6. Ended'
  BY DEF IInv, Ended, Settled, Before, Running, jobs, Report
<1>7. Record'
  BY DEF IInv, Record, Ended, SavedTells, Settled, Recorded, NoEntry, Clean, ZeroTells,
         Undisturbed, Before, Running, jobs, Report
<1>. QED  BY <1>1, <1>2, <1>3, <1>4, <1>5, <1>6, <1>7 DEF IInv

LEMMA RuntimeCleanupStep ==
  ASSUME IInv, RuntimeCleanup
  PROVE  IInv'
<1>1. TypeOK'
  BY DEF IInv, TypeOK, Flow, Ended, Phases, jobs, Before, Running, After, Undisturbed,
         NoEntry, KilledPhases, Settled, Recorded, RuntimeCleanup, Cleanup
<1>2. Agree'
  BY DEF IInv, Agree, NoEntry, Entry, RuntimeCleanup, Cleanup, jobs
<1>3. Gate'
  BY DEF IInv, Gate, RuntimeCleanup, Cleanup, jobs
<1>4. Known'
  BY DEF IInv, Known, RuntimeCleanup, Cleanup, jobs
<1>5. Flow'
  BY DEF IInv, Flow, Before, Running, jobs, After, Undisturbed, NoEntry, KilledPhases,
         Settled, Recorded, RuntimeCleanup, Cleanup
<1>6. Ended'
  BY DEF IInv, Ended, Flow, Settled, Before, Running, jobs, After, Undisturbed, NoEntry,
         KilledPhases, Recorded, RuntimeCleanup, Cleanup
<1>7. Record'
  BY DEF IInv, Record, Ended, SavedTells, Settled, Recorded, NoEntry, Clean, ZeroTells,
         Undisturbed, Before, Running, jobs, RuntimeCleanup, Cleanup
<1>. QED  BY <1>1, <1>2, <1>3, <1>4, <1>5, <1>6, <1>7 DEF IInv

LEMMA CheckStep ==
  ASSUME IInv, Check
  PROVE  IInv'
<1>1. TypeOK'
  BY DEF IInv, TypeOK, Phases, jobs, Check
<1>2. Agree'
  BY DEF IInv, Agree, NoEntry, Entry, Check, jobs
<1>3. Gate'
  BY DEF IInv, Gate, Check, jobs
<1>4. Known'
  BY DEF IInv, Known, Check, jobs
<1>5. Flow'
  BY DEF IInv, Flow, Before, Running, jobs, After, Undisturbed, NoEntry, KilledPhases,
         Settled, Recorded, Check
<1>6. Ended'
  BY DEF IInv, Ended, Settled, Before, Running, jobs, Check
<1>7. Record'
  BY MainFlowAssumption DEF IInv, Record, SavedTells, Settled, Recorded, NoEntry, Clean,
         ZeroTells, Undisturbed, Check, jobs
<1>. QED  BY <1>1, <1>2, <1>3, <1>4, <1>5, <1>6, <1>7 DEF IInv

LEMMA FinalizeStep ==
  ASSUME IInv, Finalize
  PROVE  IInv'
<1>1. TypeOK'
  <2>1. Finalized(failed \/ ~complete \/ issues) \in Results
    BY FinalizedIsResult DEF IInv, TypeOK
  <2>2. run' = None \/ run' \in Results  BY <2>1 DEF Finalize
  <2>. QED  BY <2>2 DEF IInv, TypeOK, Finalize, Phases, jobs, ending
<1>2. Agree'
  BY DEF IInv, Agree, NoEntry, Entry, Finalize, jobs, ending
<1>3. Gate'
  BY DEF IInv, Gate, Finalize, jobs, ending
<1>4. Known'
  BY DEF IInv, Known, Finalize, jobs, ending
<1>5. Flow'
  BY DEF IInv, Flow, Before, Running, jobs, After, Undisturbed, NoEntry, KilledPhases,
         Settled, Recorded, Finalize, ending
<1>6. Ended'
  BY DEF IInv, Ended, Settled, Before, Running, jobs, Finalize, ending
<1>7. Record'
  <2>1. Finalized(failed \/ ~complete \/ issues)' = Finalized(failed \/ ~complete \/ issues)
    <3>1. UNCHANGED <<failed, complete, issues>>  BY DEF Finalize, ending
    <3>. QED  BY <3>1, FinalizedStays DEF Finalize, jobs
  <2>2. run' = IF norun THEN None ELSE Finalized(failed \/ ~complete \/ issues)
    <3>1. run = IF norun THEN None ELSE Open  BY DEF IInv, Record, Finalize
    <3>. QED  BY <3>1, MainFlowAssumption DEF IInv, TypeOK, Finalize
  <2>. QED  BY <2>1, <2>2, MainFlowAssumption DEF IInv, Record, SavedTells, ZeroTells, Finalize
<1>. QED  BY <1>1, <1>2, <1>3, <1>4, <1>5, <1>6, <1>7 DEF IInv

LEMMA PersistStep ==
  ASSUME IInv, Persist
  PROVE  IInv'
<1>1. TypeOK'
  <2>1. saved' = None \/ saved' \in Results
    <3>1. run # None => run \in Results
      <4>1. run # None => run = Finalized(failed \/ ~complete \/ issues)
        BY DEF IInv, Record, Persist
      <4>2. (failed \/ ~complete \/ issues) \in BOOLEAN  BY DEF IInv, TypeOK
      <4>. QED  BY <4>1, <4>2, FinalizedIsResult DEF IInv
    <3>2. saved' \in {run, None, saved}  BY DEF Persist
    <3>. QED  BY <3>1, <3>2 DEF IInv, TypeOK
  <2>. QED  BY <2>1 DEF IInv, TypeOK, Persist, Phases, jobs, ending
<1>2. Agree'
  BY DEF IInv, Agree, NoEntry, Entry, Persist, jobs, ending
<1>3. Gate'
  BY DEF IInv, Gate, Persist, jobs, ending
<1>4. Known'
  BY DEF IInv, Known, Persist, jobs, ending
<1>5. Flow'
  BY DEF IInv, Flow, Before, Running, jobs, After, Undisturbed, NoEntry, KilledPhases,
         Settled, Recorded, Persist, ending
<1>6. Ended'
  BY DEF IInv, Ended, Settled, Before, Running, jobs, Persist, ending
<1>7. Record'
  <2> DEFINE wrong == failed \/ ~complete \/ issues
  <2>1. run = IF norun THEN None ELSE Finalized(wrong)
    BY DEF IInv, Record, Persist
  <2>2. Finalized(TRUE)' = Finalized(TRUE) /\ Finalized(FALSE)' = Finalized(FALSE)
    BY FinalizedStays DEF Persist, jobs
  <2>3. ShouldSave' = ShouldSave
    BY FinalizedStays DEF ShouldSave, Persist, jobs
  <2>4. Settled /\ Undisturbed  BY DEF IInv, Flow, Persist, After
  <2>5. Settled' /\ Recorded'
    BY <2>4 DEF Settled, Recorded, Undisturbed, Persist, jobs
  <2>6. Clean' <=> ~wrong  BY DEF Clean, Persist, ending
  <2>7. ShouldSave => ~norun  BY <2>1 DEF ShouldSave
  <2>8. Finalized(wrong) \in {Finalized(TRUE), Finalized(FALSE)}
        /\ (wrong => Finalized(wrong) = Finalized(TRUE))
        /\ (~wrong => Finalized(wrong) = Finalized(FALSE))
    BY DEF IInv, TypeOK
  <2>9. exit = None /\ saved = None  BY DEF IInv, Record, Persist
  <2>10. run' = run /\ norun' = norun  BY DEF Persist
  <2>11. CASE phase' = "leave"
    <3>1. saved' = (IF ShouldSave THEN run ELSE None) /\ exit' = None
      BY <2>9, <2>11 DEF Persist
    <3>2. saved' # None => ShouldSave /\ saved' = Finalized(wrong)
      BY <2>1, <2>7, <3>1
    <3>3. saved' # None =>
            /\ ~norun' /\ Settled' /\ Recorded'
            /\ saved' = Finalized(TRUE)' \/ (saved' = Finalized(FALSE)' /\ Clean' /\ exit' # 1)
      BY <2>2, <2>5, <2>6, <2>7, <2>8, <2>10, <3>1, <3>2, MainFlowAssumption
    <3>4. saved' = IF ShouldSave' THEN run' ELSE None  BY <2>3, <2>10, <3>1
    <3>5. Finalized(wrong)' = Finalized(wrong)
      <4>1. UNCHANGED <<failed, complete, issues>>  BY DEF Persist, ending
      <4>. QED  BY <4>1, FinalizedStays DEF Persist, jobs
    <3>6. run' = IF norun' THEN None ELSE Finalized(wrong)'  BY <2>1, <2>10, <3>5
    <3>7. exit' # 0  BY <3>1, MainFlowAssumption
    <3>. QED  BY <2>11, <3>1, <3>3, <3>4, <3>6, <3>7 DEF Record, SavedTells, ZeroTells
  <2>12. CASE phase' = "exited"
    <3>1. saved' = None /\ exit' = 1  BY <2>9, <2>12 DEF Persist
    <3>. QED  BY <2>12, <3>1, MainFlowAssumption DEF Record, SavedTells, ZeroTells
  <2>. QED  BY <2>11, <2>12 DEF Persist
<1>. QED  BY <1>1, <1>2, <1>3, <1>4, <1>5, <1>6, <1>7 DEF IInv

LEMMA ExitStep ==
  ASSUME IInv, Exit
  PROVE  IInv'
<1>1. TypeOK'
  BY DEF IInv, TypeOK, Phases, jobs, Exit, ending
<1>2. Agree'
  BY DEF IInv, Agree, NoEntry, Entry, Exit, jobs, ending
<1>3. Gate'
  BY DEF IInv, Gate, Exit, jobs, ending
<1>4. Known'
  BY DEF IInv, Known, Exit, jobs, ending
<1>5. Flow'
  BY DEF IInv, Flow, Before, Running, jobs, After, Undisturbed, NoEntry, KilledPhases,
         Settled, Recorded, Exit, ending
<1>6. Ended'
  BY DEF IInv, Ended, Settled, Before, Running, jobs, Exit, ending
<1>7. Record'
  <2>1. exit' \in {0, 1} /\ phase' = "exited"  BY DEF Exit
  <2>2. exit' = 0 <=> ~raised /\ ~failed /\ Failures = {}
    BY DEF Exit
  <2>3. \A b \in BOOLEAN : Finalized(b)' = Finalized(b)
    BY FinalizedStays DEF Exit, jobs
  <2>4. UNCHANGED <<norun, saved>> /\ Settled' = Settled /\ Recorded' = Recorded
        /\ Undisturbed' = Undisturbed /\ Clean' = Clean
    BY DEF Settled, Recorded, Undisturbed, Clean, Exit, jobs, ending
  <2>5. Settled /\ Undisturbed  BY DEF IInv, Flow, Exit, After
  <2>6. exit' = 0 => Clean  BY <2>2 DEF IInv, TypeOK, Ended, Clean, Exit
  <2>7. saved # None =>
          /\ ~norun /\ Recorded /\ (saved = Finalized(TRUE) \/ (saved = Finalized(FALSE) /\ Clean))
    BY DEF IInv, Record, SavedTells
  <2>8. Clean => ~raised /\ ~failed  BY DEF IInv, TypeOK, Ended, Clean, Exit
  <2>9. Clean => Failures = {}
    BY DEF IInv, TypeOK, Known, Clean, Failures
  <2>10. exit' = 0 /\ ~norun => saved = Finalized(FALSE)
    <3>1. SUFFICES ASSUME exit' = 0, ~norun  PROVE saved = Finalized(FALSE)
      OBVIOUS
    <3>2. run = Finalized(failed \/ ~complete \/ issues)  BY <3>1 DEF IInv, Record, Exit
    <3>3. (failed \/ ~complete \/ issues) = FALSE  BY <2>6, <3>1 DEF Clean, IInv, TypeOK
    <3>4. ShouldSave
      <4>1. PICK t \in Test : TRUE  BY MainFlowAssumption
      <4>2. \A u \in Test : job[u] = "passed"
        <5>1. compile = "passed"
          BY <2>5, <2>6, <3>1 DEF IInv, TypeOK, Known, Clean, Settled
        <5>. QED
          BY <2>5, <2>6, <3>1 DEF IInv, TypeOK, Known, Gate, Clean, Settled
      <4>3. rec[t] = Entry("PASSED", TRUE)  BY <4>2 DEF IInv, Agree
      <4>4. rec[t] # NoEntry /\ rec[t].started  BY <4>3 DEF Entry, NoEntry
      <4>5. Finalized(failed \/ ~complete \/ issues) \in Results
        BY <3>3, FinalizedIsResult DEF IInv
      <4>6. run # None  BY <3>2, <4>5, MainFlowAssumption
      <4>. QED  BY <4>4, <4>6 DEF ShouldSave, Entries
    <3>. QED  BY <3>2, <3>3, <3>4 DEF IInv, Record, Exit
  <2>11. saved' # None =>
          /\ ~norun' /\ Settled' /\ Recorded'
          /\ saved' = Finalized(TRUE)' \/ (saved' = Finalized(FALSE)' /\ Clean' /\ exit' # 1)
    <3>1. Clean => exit' # 1  BY <2>1, <2>2, <2>8, <2>9
    <3>. QED  BY <2>3, <2>4, <2>5, <2>7, <3>1
  <2>12. exit' = 0 =>
          /\ Clean' /\ Settled' /\ Undisturbed'
          /\ ~norun' => saved' = Finalized(FALSE)'
    BY <2>3, <2>4, <2>5, <2>6, <2>10
  <2>13. exit' # None  BY <2>1, MainFlowAssumption
  <2>. QED  BY <2>1, <2>11, <2>12, <2>13 DEF Record, SavedTells, ZeroTells
<1>. QED  BY <1>1, <1>2, <1>3, <1>4, <1>5, <1>6, <1>7 DEF IInv

(***************************************************************************)
(* Its consequences                                                        *)
(***************************************************************************)

\* When no job waits or runs, and each interrupted one has its entry, the entries tell the jobs
LEMMA EntriesTellJobs ==
  ASSUME TypeOK, Agree, Recorded, Settled
  PROVE  /\ With("PASSED") = {t \in Test : job[t] \in {"passed"}}
         /\ With("FAILED") \cup With("INTERRUPTED") =
              {t \in Test : job[t] \in {"failed", "unreaped", "interrupted"}}
         /\ With("FAILED") \cap With("INTERRUPTED") = {}
         /\ Test \ Entries = {t \in Test : job[t] \in {"skipped", "bypassed"}}
<1>1. ASSUME NEW t \in Test
      PROVE  /\ rec[t].status = "PASSED" <=> job[t] = "passed"
             /\ rec[t].status \in {"FAILED", "INTERRUPTED"} <=>
                  job[t] \in {"failed", "unreaped", "interrupted"}
             /\ rec[t] = NoEntry <=> job[t] \in {"skipped", "bypassed"}
  <2>1. job[t] \in {"passed", "failed", "skipped", "bypassed", "interrupted", "unreaped"}
    BY <1>1 DEF TypeOK, Settled
  <2>2. NoEntry.status = "none"  BY DEF NoEntry
  <2>3. CASE job[t] = "passed"
    <3>1. rec[t].status = "PASSED"  BY <1>1, <2>3 DEF Agree, Entry
    <3>. QED  BY <2>2, <2>3, <3>1
  <2>4. CASE job[t] \in {"skipped", "bypassed"}
    <3>1. rec[t] = NoEntry  BY <1>1, <2>4 DEF Agree
    <3>. QED  BY <2>2, <2>4, <3>1
  <2>5. CASE job[t] \in {"failed", "unreaped", "interrupted"}
    <3>1. rec[t].status \in {"FAILED", "INTERRUPTED"}
      BY <1>1, <2>5 DEF Agree, Recorded, Entry
    <3>. QED  BY <2>2, <2>5, <3>1
  <2>. QED  BY <2>1, <2>3, <2>4, <2>5
<1>. QED  BY <1>1 DEF With, Entries

\* The counts of what finalize_run says are those of the jobs
LEMMA SummaryCounts ==
  ASSUME TypeOK, Agree, Recorded, Settled, Gate, ~norun, NEW b \in BOOLEAN
  PROVE  /\ Finalized(b).summary.passed = CountOf({"passed"})
         /\ Finalized(b).summary.failed + Finalized(b).summary.interrupted =
              CountOf({"failed", "unreaped", "interrupted"})
         /\ Finalized(b).summary.skipped = CountOf({"skipped"})
<1>1. Finalized(b).summary = Summary  BY DEF Finalized
<1>2. Summary.passed = CountOf({"passed"})
  BY EntriesTellJobs DEF Summary, CountOf
<1>3. Summary.failed + Summary.interrupted = CountOf({"failed", "unreaped", "interrupted"})
  <2>1. IsFiniteSet(With("FAILED")) /\ IsFiniteSet(With("INTERRUPTED"))
    BY MainFlowAssumption, FS_Subset DEF With
  <2>2. Cardinality(With("FAILED") \cup With("INTERRUPTED")) =
          Cardinality(With("FAILED")) + Cardinality(With("INTERRUPTED"))
          - Cardinality(With("FAILED") \cap With("INTERRUPTED"))
    BY <2>1, FS_Union
  <2>3. Cardinality(With("FAILED") \cap With("INTERRUPTED")) = 0
    BY EntriesTellJobs, FS_EmptySet
  <2>4. Cardinality(With("FAILED")) \in Nat /\ Cardinality(With("INTERRUPTED")) \in Nat
    BY <2>1, FS_CardinalityType
  <2>5. Cardinality(With("FAILED")) + Cardinality(With("INTERRUPTED")) =
          Cardinality(With("FAILED") \cup With("INTERRUPTED"))
    BY <2>2, <2>3, <2>4
  <2>6. With("FAILED") \cup With("INTERRUPTED") =
          {t \in Test : job[t] \in {"failed", "unreaped", "interrupted"}}
    BY EntriesTellJobs
  <2>. QED  BY <2>5, <2>6 DEF Summary, CountOf
<1>4. Summary.skipped = CountOf({"skipped"})
  <2>1. Entries \subseteq Test  BY DEF Entries
  <2>2. Cardinality(Test \ Entries) = Cardinality(Test) - Cardinality(Test \cap Entries)
    BY MainFlowAssumption, FS_Difference
  <2>3. Test \cap Entries = Entries  BY <2>1
  <2>4. Test \ Entries = {t \in Test : job[t] \in {"skipped"}}
    <3>1. Test \ Entries = {t \in Test : job[t] \in {"skipped", "bypassed"}}
      BY EntriesTellJobs
    <3>. QED  BY <3>1 DEF Gate
  <2>. QED  BY <2>2, <2>3, <2>4 DEF Summary, Skipped, CountOf
<1>. QED  BY <1>1, <1>2, <1>3, <1>4

\* With nothing wrong, the bench compiled and no test failed, was left out or interrupted
LEMMA CleanMeansPassed ==
  ASSUME TypeOK, Gate, Known, Clean, Settled
  PROVE  /\ compile = "passed"
         /\ ~norun => AllPassed
<1>1. compile = "passed"  BY DEF TypeOK, Known, Clean, Settled
<1>2. ASSUME ~norun, NEW t \in Test  PROVE job[t] = "passed"
  BY <1>2 DEF TypeOK, Gate, Known, Clean, Settled
<1>. QED  BY <1>1, <1>2 DEF AllPassed

\* The history says PASSED of such a run, and of no other
LEMMA PassedStatus ==
  ASSUME TypeOK, Agree, Recorded, Settled, NEW b \in BOOLEAN
  PROVE  Finalized(b).status = "PASSED" <=> ~b /\ \A t \in Test : job[t] = "passed"
<1>1. Finalized(b).status = RunStatus(b)  BY DEF Finalized
<1>2. With("PASSED") = Test <=> \A t \in Test : job[t] = "passed"
  BY EntriesTellJobs
<1>3. With("PASSED") = Test => With("FAILED") = {} /\ With("INTERRUPTED") = {}
  BY DEF With
<1>4. CASE b \/ With("FAILED") # {}  BY <1>1, <1>2, <1>3, <1>4 DEF RunStatus
<1>5. CASE ~b /\ With("FAILED") = {} /\ With("INTERRUPTED") # {}
  BY <1>1, <1>2, <1>3, <1>5 DEF RunStatus
<1>6. CASE ~b /\ With("FAILED") = {} /\ With("INTERRUPTED") = {} /\ With("PASSED") = Test
  <2>1. ~(Entries = With("PASSED") /\ Entries # Test)  BY <1>6
  <2>2. Entries # {}  BY <1>6, MainFlowAssumption DEF With, Entries, NoEntry
  <2>. QED  BY <1>1, <1>2, <1>6, <2>1, <2>2 DEF RunStatus
<1>7. CASE ~b /\ With("FAILED") = {} /\ With("INTERRUPTED") = {} /\ With("PASSED") # Test
  <2>1. Entries = With("PASSED")
    <3>1. ASSUME NEW t \in Test, rec[t] # NoEntry
          PROVE  rec[t].status \in {"PASSED", "FAILED", "INTERRUPTED"}
      BY <3>1 DEF TypeOK, Agree, NoEntry, Entry
    <3>2. NoEntry.status = "none"  BY DEF NoEntry
    <3>. QED  BY <1>7, <3>1, <3>2 DEF With, Entries
  <2>2. RunStatus(b) # "PASSED"
    <3>1. CASE Entries # {}  BY <1>7, <2>1, <3>1 DEF RunStatus
    <3>2. CASE Entries = {}  BY <1>7, <2>1, <3>2, MainFlowAssumption DEF RunStatus
    <3>. QED  BY <3>1, <3>2
  <2>. QED  BY <1>1, <1>2, <1>7, <2>2
<1>. QED  BY <1>4, <1>5, <1>6, <1>7

\* Exit status 0 tells that all went well
LEMMA ExitZeroFollows == IInv => ExitZeroMeansAllPassed
<1>1. SUFFICES ASSUME IInv, exit = 0  PROVE ExitZeroMeansAllPassed
  BY DEF ExitZeroMeansAllPassed
<1>2. Clean /\ Settled  BY <1>1 DEF IInv, Record, ZeroTells
<1>3. compile = "passed" /\ (~norun => AllPassed)
  BY <1>1, <1>2, CleanMeansPassed DEF IInv
<1>4. ~failed /\ complete  BY <1>2 DEF Clean
<1>5. ~unreaped /\ attempted /\ cleanups = 1  BY <1>1, <1>4 DEF IInv, Ended
<1>. QED  BY <1>3, <1>4, <1>5 DEF ExitZeroMeansAllPassed

\* The history and the exit status do not contradict each other
LEMMA HistoryFollows == IInv => HistoryAgreesWithExit
<1>1. SUFFICES ASSUME IInv  PROVE HistoryAgreesWithExit
  OBVIOUS
<1>2. ASSUME saved # None, saved.status = "PASSED"  PROVE AllPassed /\ exit # 1
  <2>1. /\ ~norun /\ Settled /\ Recorded
        /\ saved = Finalized(TRUE) \/ (saved = Finalized(FALSE) /\ Clean /\ exit # 1)
    BY <1>1, <1>2 DEF IInv, Record, SavedTells
  <2>2. saved # Finalized(TRUE)
    BY <1>1, <1>2, <2>1, PassedStatus DEF IInv
  <2>3. Clean /\ exit # 1  BY <2>1, <2>2
  <2>. QED  BY <1>1, <2>1, <2>3, CleanMeansPassed DEF IInv
<1>3. ASSUME exit = 0, ~norun  PROVE saved # None /\ saved.status = "PASSED"
  <2>1. Clean /\ Settled /\ Undisturbed /\ saved = Finalized(FALSE)
    BY <1>1, <1>3 DEF IInv, Record, ZeroTells
  <2>2. Recorded  BY <2>1 DEF Recorded, Undisturbed
  <2>3. AllPassed  BY <1>1, <1>3, <2>1, CleanMeansPassed DEF IInv
  <2>4. Finalized(FALSE).status = "PASSED"
    BY <1>1, <2>1, <2>2, <2>3, PassedStatus DEF IInv, AllPassed
  <2>5. Finalized(FALSE) # None
    BY <1>1, FinalizedIsResult, MainFlowAssumption DEF IInv
  <2>. QED  BY <2>1, <2>4, <2>5
<1>. QED  BY <1>2, <1>3 DEF HistoryAgreesWithExit

\* The counts of a saved run are those of its jobs
LEMMA SummaryFollows == IInv => SummaryMatchesJobs
<1>1. SUFFICES ASSUME IInv, saved # None  PROVE SummaryMatchesJobs
  BY DEF SummaryMatchesJobs
<1>2. ~norun /\ Settled /\ Recorded /\ (saved = Finalized(TRUE) \/ saved = Finalized(FALSE))
  BY <1>1 DEF IInv, Record, SavedTells
<1>. QED  BY <1>1, <1>2, SummaryCounts DEF IInv, SummaryMatchesJobs

\* No process is left when the shared runtime is cleaned
LEMMA CleanupFollows == IInv => CleanupOnceAndSafe
<1>1. SUFFICES ASSUME IInv  PROVE CleanupOnceAndSafe
  OBVIOUS
<1>2. cleanups \in {0, 1} /\ (cleanups = 1 => attempted)  BY <1>1 DEF IInv, TypeOK, Ended
<1>3. attempted => Settled /\ ~unreaped  BY <1>1 DEF IInv, Ended
<1>4. ~unreaped => compile # "unreaped" /\ \A t \in Test : job[t] # "unreaped"
  BY <1>1 DEF IInv, Known
<1>. QED  BY <1>2, <1>3, <1>4 DEF CleanupOnceAndSafe, Settled

LEMMA InvInit == Init => IInv
<1>1. SUFFICES ASSUME Init  PROVE IInv
  OBVIOUS
<1>2. TypeOK
  <2>1. rec \in [Test -> [status : {"none", "PASSED", "FAILED", "INTERRUPTED"}, started : BOOLEAN]]
    BY <1>1 DEF Init, NoEntry
  <2>2. interrupts \in 0..MaxInterrupts  BY <1>1, MainFlowAssumption DEF Init
  <2>3. phase = "setup" /\ exit = None /\ run = None /\ saved = None  BY <1>1 DEF Init
  <2>4. job \in [Test -> {"queued"}] /\ compile = "queued" /\ sim \subseteq Test
    BY <1>1 DEF Init
  <2>5. /\ norun \in BOOLEAN /\ report \in BOOLEAN /\ issues = FALSE /\ unreaped = FALSE
        /\ attempted = FALSE /\ failed = FALSE /\ complete = FALSE /\ raised = FALSE
    BY <1>1 DEF Init
  <2>. QED  BY <2>1, <2>2, <2>3, <2>4, <2>5 DEF TypeOK, Phases
<1>3. Agree /\ Gate /\ Known /\ Flow
  BY <1>1 DEF Init, Agree, Gate, Known, Flow, Before, Running, After, KilledPhases, Undisturbed
<1>4. Ended /\ Record
  BY <1>1, MainFlowAssumption DEF Init, Ended, Record, SavedTells, ZeroTells
<1>. QED  BY <1>2, <1>3, <1>4 DEF IInv

LEMMA InvNext == IInv /\ [Next]_vars => IInv'
<1>1. SUFFICES ASSUME IInv, [Next]_vars  PROVE IInv'
  OBVIOUS
<1>2. CASE Jobs
  BY <1>1, <1>2, CompileStartsStep, CompileEndsStep, CompileUnreapedStep, TestStartsStep,
     SimulationStartsStep, TestPassesStep, TestFailsStep, TestUnreapedStep DEF Jobs
<1>3. CASE Main
  BY <1>1, <1>3, SetupStep, PrepareStep, JobsDoneStep, MenuStep, KillJobsStep,
     InterruptedCleanupStep,
     RecordInterruptedStep, SaveInterruptedStep, BeginStep, RaisesStep, WorkflowStep,
     PrintSummaryStep, ReportStep, RuntimeCleanupStep, CheckStep, FinalizeStep,
     PersistStep, ExitStep DEF Main
<1>4. CASE Interrupt  BY <1>1, <1>4, InterruptStep
<1>5. CASE UNCHANGED vars
  <2>1. Finalized(TRUE)' = Finalized(TRUE) /\ Finalized(FALSE)' = Finalized(FALSE)
        /\ Finalized(failed \/ ~complete \/ issues)' = Finalized(failed \/ ~complete \/ issues)
        /\ ShouldSave' = ShouldSave
    BY <1>5, FinalizedStays DEF vars, jobs, ending, ShouldSave
  <2>2. TypeOK'  BY <1>1, <1>5 DEF IInv, TypeOK, vars, jobs, ending
  <2>3. Agree' /\ Gate' /\ Known'
    BY <1>1, <1>5 DEF IInv, Agree, Gate, Known, vars, jobs, ending
  <2>4. Settled' = Settled /\ Undisturbed' = Undisturbed /\ Recorded' = Recorded /\ Clean' = Clean
    BY <1>5 DEF Settled, Undisturbed, Recorded, Clean, vars, jobs, ending
  <2>5. Flow' /\ Ended'  BY <1>1, <1>5, <2>4 DEF IInv, Flow, Ended, vars, jobs, ending
  <2>6. Record'
    BY <1>1, <1>5, <2>1, <2>4 DEF IInv, Record, SavedTells, ZeroTells, vars, jobs, ending
  <2>. QED  BY <2>2, <2>3, <2>5, <2>6 DEF IInv
<1>. QED  BY <1>1, <1>2, <1>3, <1>4, <1>5 DEF Next

LEMMA Invariant == Spec => []IInv
<1>. QED  BY InvInit, InvNext, PTL DEF Spec

\* The state of one invocation is of its kinds (TypeOK), for any number of tests
THEOREM TypeCorrect == Spec => []TypeOK
<1>1. IInv => TypeOK  BY DEF IInv
<1>. QED  BY Invariant, <1>1, PTL

\* Exit status 0, the history, the counts of the summary and the cleanup of the shared runtime
\* agree with what became of the compile job and of each test, whatever was interrupted, failed,
\* raised or could not be reaped (main, _SharedRuntimeCleanup, finalize_run, save_run)
THEOREM InvocationCorrect == Spec => []MainFlowInv
<1>1. IInv => MainFlowInv
  BY ExitZeroFollows, HistoryFollows, SummaryFollows, CleanupFollows DEF IInv, MainFlowInv
<1>. QED  BY Invariant, <1>1, PTL
=============================================================================
