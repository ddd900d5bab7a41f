------------------------------ MODULE RunRecord ------------------------------
(***************************************************************************)
(* What simmer keeps of its runs (lib/simmer_results.py): the record of a  *)
(* run grows with its jobs, is summed up at the end, is reduced when it is *)
(* stored, and is selected again by `simmer --history` and its filters.    *)
(* How the store is shared by processes is ResultsStore's matter.          *)
(***************************************************************************)
EXTENDS Sorting, SequencesExt

CONSTANTS
  Test,      \* the tests that may be planned
  Bench,     \* the benches
  BenchOf,   \* the bench of each test
  Interval,  \* when jobs may run: pairs of a start and a stop
  MaxRuns,   \* bound: runs in the store
  TimedRuns, \* bound: those whose jobs have times
  Absent

ASSUME RunRecordAssumption ==
  /\ IsFiniteSet(Test) /\ Test # {} /\ IsFiniteSet(Bench)
  /\ BenchOf \in [Test -> Bench] /\ MaxRuns \in Nat \ {0} /\ TimedRuns \in Nat
  /\ Interval \subseteq Nat \X Nat /\ \A i \in Interval : i[1] <= i[2]
  /\ Absent \notin [hit : BOOLEAN, failed : BOOLEAN, interval : {<<>>} \cup Interval] \cup Nat

VARIABLES
  phase,    \* of the invocation: its record is open, finalized, or there is none
  planned,  \* its planned tests
  compile,  \* run["compile"]: the record of each bench: Absent, or its status, cache hit, interval
  tests,    \* run["tests"], in order
  again,    \* history: a test was recorded a second time
  timing,   \* run["timing"]
  summary,  \* run["summary"]
  ending,   \* run["status"]
  unclean,  \* history: finalize_run was told that the invocation did not end well
  history,  \* the runs in the store
  truth     \* history: what each of them was

run == <<planned, compile, tests, again>>
outcome == <<timing, summary, ending, unclean>>
recordVars == <<phase, run, outcome, history, truth>>

NoTiming == [compile |-> Absent, simulate |-> Absent, reused |-> FALSE]
NoSummary == [passed |-> 0, failed |-> 0, interrupted |-> 0, skipped |-> 0]

RecordInit ==
  /\ phase = "idle" /\ planned = {} /\ compile = [b \in Bench |-> Absent] /\ tests = <<>>
  /\ again = FALSE /\ timing = NoTiming /\ summary = NoSummary
  /\ ending = "RUNNING" /\ unclean = FALSE /\ history = <<>> /\ truth = <<>>

----------------------------------------------------------------------------
(* The record of a run *)

CreateRun ==
  /\ phase = "idle" /\ Len(history) < MaxRuns
  /\ planned' \in (SUBSET Test) \ {{}} /\ phase' = "open"
  /\ UNCHANGED <<compile, tests, again, outcome, history, truth>>

Times == {<<>>} \cup IF Len(history) < TimedRuns THEN Interval ELSE {}

\* A job without a start time, or whose clock went back, has no interval
RecordCompileJob(b) ==
  /\ phase = "open" /\ compile[b] = Absent /\ \E t \in planned : BenchOf[t] = b
  /\ \E hit \in BOOLEAN, interval \in Times :
       \E failed \in IF hit THEN {FALSE} ELSE BOOLEAN :
         compile' = [compile EXCEPT ![b] = [hit |-> hit, failed |-> failed, interval |-> interval]]
  /\ UNCHANGED <<phase, planned, tests, again, outcome, history, truth>>

IndexOf(t) == SelectInSeq(tests, LAMBDA x : x.test = t)

\* Faulty: every record is appended
PutAppend(record) == Append(tests, record)

\* A second record of a test replaces the first
Put(record) ==
  IF IndexOf(record.test) = 0 THEN Append(tests, record)
  ELSE [tests EXCEPT ![IndexOf(record.test)] = record]

\* When a test is done, and once more when it is found interrupted
RecordTestJob(t) ==
  /\ phase = "open" /\ t \in planned /\ compile[BenchOf[t]] # Absent
  /\ IndexOf(t) # 0 => ~again
  /\ again' = (again \/ IndexOf(t) # 0)
  /\ \E status \in {"PASSED", "FAILED", "INTERRUPTED"}, interval \in Times :
       \E started \in IF status = "FAILED" THEN BOOLEAN ELSE {TRUE} :
         tests' = Put([test |-> t, status |-> status, started |-> started, interval |-> interval])
  /\ UNCHANGED <<phase, planned, compile, outcome, history, truth>>

----------------------------------------------------------------------------
(* finalize_run *)

\* Faulty: the later of two overlapping intervals gives the end
JoinLast(acc, i) ==
  IF i[1] <= acc.stop THEN [acc EXCEPT !.stop = i[2]]
  ELSE [sum |-> acc.sum + (acc.stop - acc.start), start |-> i[1], stop |-> i[2]]

\* One more interval, in the order of their starts: it prolongs the current stretch or ends it
Join(acc, i) ==
  IF i[1] <= acc.stop THEN [acc EXCEPT !.stop = IF @ >= i[2] THEN @ ELSE i[2]]
  ELSE [sum |-> acc.sum + (acc.stop - acc.start), start |-> i[1], stop |-> i[2]]

\* One after the other, in their order
Walk(s) ==
  LET walk[k \in 1..Len(s)] ==
        IF k = 1 THEN [sum |-> 0, start |-> s[1][1], stop |-> s[1][2]] ELSE Join(walk[k - 1], s[k])
  IN walk

\* _consume_elapsed_time
Elapsed(intervals) ==
  IF intervals = {} THEN Absent
  ELSE LET last == Walk(Pairs(intervals))[Cardinality(intervals)]
       IN last.sum + (last.stop - last.start)

Recorded == ToSet(tests)
Compiled == {b \in Bench : compile[b] # Absent}
CompileIntervals == {compile[b].interval : b \in Compiled} \ {<<>>}

TestIntervals == {r.interval : r \in {r \in Recorded : r.started}} \ {<<>>}

Count(status) == Cardinality({r \in Recorded : r.status = status})

\* Faulty: subtracted the wrong way round
SkippedReversed == Len(tests) - Cardinality(planned)

Skipped == IF Cardinality(planned) >= Len(tests) THEN Cardinality(planned) - Len(tests) ELSE 0

\* Faulty: planned tests without a record are forgotten
EndingUnskipped(backend_failed, launch_failed) ==
  IF backend_failed \/ Count("FAILED") > 0 THEN "FAILED"
  ELSE IF Count("INTERRUPTED") > 0 THEN "INTERRUPTED" ELSE "PASSED"

\* How the run is told to have ended. Without a test record, of which should_save_run makes nothing,
\* it is the compile or the launch of a job that failed
Ending(backend_failed, launch_failed) ==
  IF backend_failed \/ Count("FAILED") > 0 THEN "FAILED"
  ELSE IF Recorded # {}
       THEN IF Count("INTERRUPTED") > 0 THEN "INTERRUPTED" ELSE IF Skipped > 0 THEN "PARTIAL" ELSE "PASSED"
       ELSE IF \E b \in Compiled : compile[b].failed THEN "COMPILE_FAILED"
            ELSE IF launch_failed THEN "FAILED" ELSE "NO_SIM_RUN"

\* backend_failed: after Ctrl-C, a step of the invocation after the jobs that failed, or any warning
FinalizeRun ==
  /\ phase = "open" /\ phase' = "finalized"
  /\ timing' = [compile |-> Elapsed(CompileIntervals), simulate |-> Elapsed(TestIntervals),
                reused |-> Compiled # {} /\ \A b \in Compiled : compile[b].hit]
  /\ summary' = [passed |-> Count("PASSED"), failed |-> Count("FAILED"),
                 interrupted |-> Count("INTERRUPTED"), skipped |-> Skipped]
  /\ \E backend_failed, launch_failed \in BOOLEAN :
       ending' = Ending(backend_failed, launch_failed) /\ unclean' = backend_failed
  /\ UNCHANGED <<run, history, truth>>

----------------------------------------------------------------------------
(* save_run *)

First(status) == SelectInSeq(tests, LAMBDA r : r.status = status)

\* Faulty: the first record stands for the others
RepresentativeFirst == tests[1]

\* A test that failed stands for the others, or one that was interrupted
Representative ==
  IF First("FAILED") # 0 THEN tests[First("FAILED")]
  ELSE IF First("INTERRUPTED") # 0 THEN tests[First("INTERRUPTED")]
  ELSE tests[1]

StoredTest == IF Cardinality(planned) > 1 /\ Len(tests) > 1 THEN Representative ELSE tests[1]

\* Faulty: the benches are those of the tests that are kept
StoredBenchesKept == {BenchOf[StoredTest.test]}

\* _collect_benches: finalize_run calls it while all records are there
StoredBenches == Compiled \cup {BenchOf[r.test] : r \in Recorded}

Stored ==
  [benches |-> StoredBenches, failed |-> summary.failed, status |-> ending,
   multi |-> Cardinality(planned) > 1, shown |-> StoredTest.test]

\* Only runs that started a simulation are kept
SaveRun ==
  /\ phase = "finalized" /\ phase' = "idle"
  /\ IF \E r \in Recorded : r.started
     THEN /\ history' = Append(history, Stored)
          /\ truth' = Append(truth,
               [benches |-> {BenchOf[t] : t \in planned} \cap Compiled,
                failed |-> {r.test : r \in {r \in Recorded : r.status = "FAILED"}},
                unclean |-> unclean])
     ELSE UNCHANGED <<history, truth>>
  /\ planned' = {} /\ compile' = [b \in Bench |-> Absent] /\ tests' = <<>> /\ again' = FALSE
  /\ timing' = NoTiming /\ summary' = NoSummary /\ ending' = "RUNNING" /\ unclean' = FALSE

RecordNext ==
  \/ CreateRun \/ FinalizeRun \/ SaveRun
  \/ \E b \in Bench : RecordCompileJob(b)
  \/ \E t \in Test : RecordTestJob(t)

RecordSpec == RecordInit /\ [][RecordNext]_recordVars

----------------------------------------------------------------------------
(* format_history *)

\* Faulty: only runs with a failed test
IsFailedHistoryRunByCount(r) == r.failed > 0

IsFailedHistoryRun(r) == r.status \in {"FAILED", "COMPILE_FAILED"} \/ r.failed > 0

\* _filter_history_runs, by the options --history-bench (or Absent) and --history-fail
FilterHistoryRuns(bench, failed_only) ==
  LET kept == {k \in 1..Len(history) : /\ bench # Absent => bench \in history[k].benches
                                       /\ failed_only => IsFailedHistoryRun(history[k])}
  IN AtPlaces(history, kept)

\* runs[-count:]: what is printed, the newest last
Shown(count, bench, failed_only) ==
  LET runs == FilterHistoryRuns(bench, failed_only)
      n == IF count <= Len(runs) THEN count ELSE Len(runs)
  IN SubSeq(runs, Len(runs) - n + 1, Len(runs))

----------------------------------------------------------------------------
(* Properties *)

RecordTypeOK ==
  /\ phase \in {"idle", "open", "finalized"} /\ planned \subseteq Test
  /\ \A r \in Recorded : r.test \in planned /\ r.interval \in {<<>>} \cup Interval
  /\ timing.compile \in Nat \cup {Absent} /\ timing.simulate \in Nat \cup {Absent}
  /\ \A counter \in DOMAIN summary : summary[counter] \in Nat
  /\ Len(history) = Len(truth)

\* The moments that lie in an interval: [t, t + 1) for the moment t
Covered(intervals) == UNION {i[1]..(i[2] - 1) : i \in intervals}

\* The times of a finished run are those in which a job of it was active, each counted once; tests
\* that never started their simulator count nowhere (_finalize_timing)
ElapsedIsUnion ==
  phase = "finalized" =>
    /\ CompileIntervals # {} => timing.compile = Cardinality(Covered(CompileIntervals))
    /\ LET started == {r.interval : r \in {x \in Recorded : x.started}} \ {<<>>}
       IN  started # {} => timing.simulate = Cardinality(Covered(started))

\* Each planned test is counted in one way, also when it was recorded twice (record_test_job)
SummaryCountsEachOnce ==
  phase = "finalized" =>
    summary.passed + summary.failed + summary.interrupted + summary.skipped = Cardinality(planned)

\* A run is told to have passed exactly when every planned test passed and the invocation ended well
PassedIsAllPassed ==
  phase = "finalized" => (ending = "PASSED" <=> ~unclean /\ summary.passed = Cardinality(planned))

\* What finalize_run makes of the records
RunRecordInv == RecordTypeOK /\ ElapsedIsUnion /\ SummaryCountsEachOnce /\ PassedIsAllPassed

\* Although a run is stored with one of its tests, a filter by bench finds every run the bench took
\* part in, and a filter for failures every run with a failed test or an invocation that did not end
\* well, and no other, counted from the newest
FiltersTellTruth ==
  \A bench \in Bench \cup {Absent}, failed_only \in BOOLEAN, count \in 1..MaxRuns :
    LET right == {k \in 1..Len(truth) : /\ bench # Absent => bench \in truth[k].benches
                                        /\ failed_only => truth[k].failed # {} \/ truth[k].unclean}
        newest == {k \in right : Cardinality({j \in right : j >= k}) <= count}
        shown == Shown(count, bench, failed_only)
    IN /\ Len(shown) = Cardinality(newest)
       /\ \A k \in newest : shown[Cardinality({j \in newest : j <= k})] = history[k]

\* The logs that are shown of a run with failed tests are those of a failed test (save_run)
FailureIsShown ==
  \A k \in 1..Len(history) :
    truth[k].failed # {} /\ history[k].multi => history[k].shown \in truth[k].failed

\* What is told of stored runs is true of the runs
HistoryTellsTruth == FiltersTellTruth /\ FailureIsShown
=============================================================================
