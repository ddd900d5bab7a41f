# TLA+ models of simmer

simmer (`bin/simmer.py`) builds Verilog test benches with Bazel, compiles them
with a simulator (VCS or Xcelium) and runs regressions of simulations. It is a
single Python process with a few threads, many child process groups, and files
it shares with other simmer processes. These modules model its concurrent and
stateful core; paths below are relative to the repository's root, without the
leading `src/`.

## The system

### Components

| Component | State | Operations | Interacts through |
|---|---|---|---|
| Job status (`lib/job_lib.py`, `JobStatus`) | one value per job | `update` | every assignment of `Job.jobstatus` |
| Job scheduler (`JobManager`) | queues `_todo`, `_ready`, `_launching`, `_active`, `_finalizing`, `_done`, `_skipped`; flags; one condition | `_run_jobs`, `add_job`, `wait`, `stop`, `pause`, `resume`, `kill` | condition variable; hooks of jobs; runners |
| Job graph (`Job`) | dependencies, children, priority | `add_dependency`, `increase_priority` | read by the scheduler |
| Subprocess runner (`SubprocessJobRunner`) | process group, sidecar groups, pause intervals, deadlines | `check_for_done`, `pause`, `resume`, `kill` | signals; polled by the scheduler, paused by main, killed by kill threads |
| Bazel jobs (`BazelTBJob`, `BazelTestCfgJob`) | profile files | `pre_run`, `post_run` | jobs of the scheduler |
| Compile job and cache (`VCompJob`, `lib/compile_cache.py`) | compile directory, its lock, `.compile_fingerprint.json` | acquire/release, validate, invalidate, write | `flock` between processes; test jobs read the compile result |
| Simulation job (`TestJob`, `lib/sim_artifacts.py`, `lib/seed_plan.py`) | run directory and lock, iteration | claim, `pre_run`, `post_run`, `clone` | adds its successor to the scheduler |
| Convenience links (`replace_symlink`) | symlinks and their locks | replace, remove | other processes |
| Interrupt workflow and `main` (`bin/simmer.py`) | none of its own | wait loop, menu, final reports | drives the scheduler |
| Results history (`lib/simmer_results.py`) | history file, lock, legacy file | record, finalize, save, load, migrate | other processes |
| Active-run state (`lib/simmer_state.py`) | one state file per process | publish, watch, close, prune | watcher thread; other processes |
| Test discovery (`lib/regression.py`) | discovery cache generations, manifest | discover, publish, migrate | Bazel; other processes |
| Backends (`lib/simulators/`) | shared runtime directories and their locks | prepare, clean up, finalize, options | called by the jobs and by `main`; other processes |
| VSO dynamic plans (`vcs_jobs.py`, `vso.py`) | plan files | ask, next test | `post_run` adds jobs |
| CPU allocation, runtime options | none | pure functions | limits of the scheduler |
| Reports, logging, parsers, `check_test.py` | none | text in, text out | read results |
| Bazel rules (`verilog/private/`) | none | analysis-time functions | Bazel |

### What is hard here

- Three kinds of threads touch the scheduler: its own thread, the main thread
  (which adds jobs, waits, and reacts to Ctrl-C), and one thread per active job
  inside `kill()`. Hooks (`pre_run`, `post_run`, `cancel`, ...) and runners are
  called outside the lock, so any of them can meet a shutdown or a pause half
  way. Both waits on the condition have no timeout.
- A process group can outlive its shell, ignore SIGTERM, or survive SIGKILL.
  Directories must stay locked as long as something may still write to them.
- Other simmer processes share the compile directories, the history, the
  discovery cache and the links; each file protocol has its own lock, crash
  windows and migration.

### What makes each part correct

- Scheduler: jobs start only after successful dependencies, within the limits;
  no job is lost or settled twice; a shutdown that reports success left nothing
  behind; the regression ends.
- Runner: done means gone unless reported otherwise; SIGKILL only after a grace
  period; paused time is not charged to the timeout.
- Graph: a dependency always comes before its children.
- Compile cache: a directory is reused only when its content comes from the
  recorded inputs; concurrent compiles of a directory exclude each other.
- Files shared by processes: no update lost, no reader sees half a file, a
  crash leaves nothing that is later trusted.
- Directories: one job at a time prepares, runs and judges in a directory;
  shared files are cleaned only when nobody uses them; a link leads to
  something.
- The end of a run: exit status, history, summary and cleanup agree with what
  the jobs did, also after errors and Ctrl-C.
- Verdicts: both ways to read a log come to the same result.

## Plan

The order is by what would hurt most when wrong. Done, in this order:

1. **JobStatus, JobManager, JobLifecycle** with JobManagerInv, JobManagerProofs.
2. **JobRunner, RunnerContract, JobRunnerProofs**: one process group and its
   polling, main and kill threads; the abstract runner it implements has the
   process states JobManager uses.
3. **JobQueues, JobPass, JobQueuesProofs**: derives the assumption on
   priorities that JobManager makes, and its view of the lists as sets.
   **SetLemmas**: folds, sums and orders of finite sets, for these proofs.
4. **CompileDir**: the compile directory between processes.
5. **RunDirectory**: run directories and convenience links.
6. **ResultsStore, RunRecord**: the history file, and what is kept in it.
7. **MainFlow, MainFlowProofs**: one invocation to its exit status.
8. **CheckTest**: the verdict on a log. **TestRunProofs** proves this one,
   RunDirectory and RunRecord: what becomes of the tests of a run.
9. **ActiveRun**: the records of `simmer --status`.
10. **DiscoveryCache**: the cached test discovery. **SharedFilesProofs** proves this
    one and ResultsStore, the two files that processes share.
11. **RuntimeLocks**: the directories backends share; **SharedDirectoriesProofs**
    proves this one, CompileDir and ActiveRun.

Left, in this order:

- `RunDirectory` composed with `CompileDir`: a simulation uses both;
- an abstract history (a set of saved runs) that `ResultsStore` implements;
- the plan files of VSO, the CPU allocation and the argument chunking as pure
  operators.

## Modules

| Module | What it is |
|---|---|
| `JobStatus` | `JobStatus.update`: legal transitions and their result |
| `JobManager` | the scheduler, the main thread and the kill threads |
| `JobLifecycle` | what the scheduler promises, without queues, threads or locks |
| `JobManagerInv`, `JobManagerProofs` | its inductive invariant in seven layers, and the theorems |
| `JobPass` | what a walk over the queues skips and unblocks, as sets; used by `JobManager` |
| `JobQueues`, `JobQueuesProofs` | the job graph, its priorities, and the lists as lists; a dependency has the smaller priority, walks over the lists do what `JobPass` says |
| `SetLemmas` | lemmas on folds, sums and orders of finite sets, used by four of the proof modules |
| `JobRunner`, `JobRunnerProofs` | `SubprocessJobRunner` from the start of its process on; its invariant and the refinement |
| `RunnerContract` | what a runner promises about its process group |
| `CompileDir` | one compile directory, its lock and fingerprint, and the processes that want it |
| `RuntimeLocks` | the directories a backend shares between processes: locks, use, cleanup |
| `SharedDirectoriesProofs` | the invariants and theorems of `CompileDir`, `RuntimeLocks` and `ActiveRun` |
| `RunDirectory` | the run directories of one test and seed, `.last_sim` and `.last_fail` |
| `ResultsStore` | `.simmer/results.json` between savers, readers and an older simmer |
| `RunRecord` | the record of a run, its summary and times, its stored form, the filters of the history |
| `MainFlow`, `MainFlowProofs` | `main()` from the options to the exit status |
| `ActiveRun` | `.simmer/runs`: registration, watch thread, `simmer --status` |
| `DiscoveryCache` | cached test discovery: generations, migration, publication |
| `SharedFilesProofs` | the invariants and theorems of `ResultsStore` and `DiscoveryCache` |
| `CheckTest` | `check_test.py`: both ways to read a log |
| `Sorting` | finite sets in order, as sequences; used by `RunRecord`, `ResultsStore` and `CheckTest` |
| `TestRunProofs` | the invariants and theorems of `CheckTest`, `RunRecord` and `RunDirectory` |
| `MC...` | constants (job graphs, options, lines) and symmetries for TLC |

How they fit together: `JobManager` has `JobStatus` and `JobPass` inside,
implements `JobLifecycle`, and uses the process states of `RunnerContract`,
which `JobRunner` implements; `JobQueuesProofs` proves what `JobManager` assumes
of its priorities, and that its steps on sets are what the code does to lists. The hooks of `JobManager` are, for a compile job, the actions
of `CompileDir` and for a test those of `RunDirectory`; a hook that fails there
is `LaunchFailed`, `PostRun` with a failure or a `lost` process here. `MainFlow`
takes from `JobManager` that `wait()` returns when everything is settled
(`WaitMeansDrained`) and that a complete kill leaves nothing behind
(`CompleteKillIsQuiet`), and hands `RunRecord` the results and `ResultsStore`
the run. `RuntimeLocks` encloses all of them.

### JobManager and the code

State. Each queue of the manager is a variable holding a set; the lists are in
priority order, and `Priority` is what `add_dependency` computed. `status` is
`Job.jobstatus`; `cancel_requested` is the set of jobs whose cancel event is
set; `proc` is the runner's process group; `owned` the jobs that hold their
compile or run directory lock; `ended` records which final hooks were called.
`schedPc` and `cur` are the scheduler thread and the job it works on; `mainPc`
and `pending` the main thread and the runners it has still to pause or resume;
`killers` the live threads of `kill()`.

Actions. A step is one critical section of the manager's condition, or one
hook or runner call made outside it:

| Action | Code |
|---|---|
| `RunJobs` | top of `_run_jobs`: `_move_todo_to_ready_locked`, `_take_ready_job_locked`, or the untimed wait |
| `EnterPreRun`, `StartRunner`, `LaunchCancelled`, `LaunchRaises`, `LaunchFailed` | `_launch_job` up to the runner and its exits |
| `RegisterRunner`, `PauseNewRunner`, `ReadPaused`, `ResumeNewRunner`, `KillNewRunner` | the rest of `_launch_job`: registration, the pause check after it, and the kill of a runner that missed the snapshot of `kill()` |
| `PollFindsDone`, `PollSendsTerm`, `PollGivesUp`, `PollFindsNone` | the poll loop over the active jobs |
| `BeginFinalizing`, `PostRun`, `PostRunAdds`, `CompleteJob` | `_complete_job` and the hooks it calls |
| `RecordIncomplete` | `_record_incomplete_shutdown` |
| `MainAddsJob`, `Wait`, `Stop`, `StopJoins` | `main` with `add_job`, `wait`, `stop` |
| `Interrupt`, `ChooseContinue`, `ChooseStop`, `Pause`, `Resume`, `PauseRunner`, `ResumeRunner`, `RunnersVisited` | Ctrl-C and the menu |
| `Kill`, `KillRunner`, `JoinKillers`, `KillReturns` | `kill()`, one `KillRunner` per thread |
| `ProcessExits` | the environment: a process group ends |

A pass over `_todo` is one step: its result is the set of unblocked jobs and
the set `S` with `SkippedByPass`, which is what a walk in priority order
computes. Skipping the children of a failed job is the set `K` with
`SkippedBelow`, the closure the recursion of `_move_children_to_skipped_locked`
reaches.

Abstractions and what they assume:

- The lock is released by the final hooks and this does not fail: an exception
  of `cancel()` in a shutdown is only logged by the code and is not modelled.
- `incomplete_shutdown`'s status change happens in the step of the critical
  section that precedes it.
- Main marks jobs for bypass before it adds them.
- Ctrl-C is ignored during `kill()`, as `_IgnoreAdditionalInterrupts` does.
- The number of Ctrl-C presses is bounded by `MaxInterrupts`.
- Timeouts, log output and the idle print are choices or left out: a poll may
  find any active job done, timed out or given up, as its process group allows.

### JobQueues and the code

JobManager works on sets with a fixed `Priority`; this module is about what it
leaves out. `dependencies[j][d]` counts how often `d` is in `j._dependencies`
(its children lists are the inverse), `priority` is `Job.priority`, `todo` and
`ready` are the lists.

| Actions | Code |
|---|---|
| `AddDependency`, `IncreasePriority` | `add_dependency` and the recursion of `increase_priority`, a step for each call |
| `AddJob` | `add_job`, with `bisect.insort_right` |
| `RunJobs` | the top of `_run_jobs`: `_move_todo_to_ready_locked` as a fold of `Visit`, the body of its loop, and `_take_ready_job_locked` for any job of `_ready` or none |
| `LaunchFailed` | the end of `_launch_job` with the recursion of `_move_children_to_skipped_locked` |
| `CompleteJob` | `_complete_job`: that recursion if the job failed, then another pass |

The status that `post_run` sets is part of `CompleteJob`; no pass can fall in
between, since the same thread does both. Bypassed jobs, the quit count and
kill, which empty the lists, are JobManager's.

`MayDepend` is how the callers use `add_dependency`: `main`, the simulators and
the constructors of the jobs build an acyclic graph before the first `add_job`;
a test that repeats itself creates its clone in `post_run`, without the lock,
while the scheduler goes on, and the clone depends on the compile job, which
has succeeded. `calls` are the calls of `increase_priority` on the stack of
that thread; their order within one `add_dependency` is left open. One
`add_dependency` runs at a time: clones created at the same moment by two hooks
change only priorities of jobs that have left the lists. Priorities are
unbounded integers, as in Python.

### JobRunner and the code

State. `live` are the processes of the group and of the registered side groups:
the shell, and everything else as `"background"`. `stopped` and `killed` say
what SIGSTOP and SIGKILL did to them. `done`, `shutdown_incomplete`,
`timed_out`, `orphaned`, `kill_sent`, `paused`, `paused_at`, `pause_intervals`,
`timeout_start`, `term_deadline` and `kill_deadline` are the fields of the
runner, `kill_lock` is `_kill_lock`. `pollPc`, `mainPc` and `killPc` are the
statements the three threads are at, with their local variables.

| Actions | Code |
|---|---|
| `StartPoll`, `ShellExited`, `ReadClock`, `CheckPaused`, `ReadStart`, `ReadFlag`, `ReadSince`, `Decide` | `_check_for_done` and `_paused_duration_since`, a step for each access to a field another thread writes |
| `PollError` | the exception handler of `check_for_done` |
| `Pause`, `Resume`, `Abort` | `pause`, `resume`, and a Ctrl-C inside them |
| `KillStarts`, `KillUnpauses`, `KillSigterm`, `KillGraceEnds`, `KillReaps`, `KillEnds` | `kill`, with each of its waits |
| `ProcessEnds`, `StartsBackground`, `WritesLog`, `Tick` | the processes and the clock |

Time is discrete. A deadline is a countdown, which ends where `now >=
deadline` begins to hold; `kill_deadline` counts down the grace time of SIGKILL
and then the ownership wait, whose deadline the code derives from it. `now`
counts from the modification time of the log, or the start, since only
differences to it matter; `ran` counts the same ticks without those the group
was stopped, and is there for the properties only.

Abstractions and what they assume:

- A poll and the statements of `pause`, `resume` and the beginning of `kill`
  take no time, except that a poll may last as long as a pause begun in it.
- The signals of one call to the group and to the side groups are one step.
- The launch also calls `pause`, `resume` and `kill` for a new runner, from the
  scheduler thread. It polls nothing meanwhile and the lock serialises it with
  the other two threads, so these calls are like theirs.
- The side groups are all found: the reading of `/proc` and of the
  registration file is one look at `live`.
- Process identifiers are not reused.
- The timeout is positive; without one the poll decides nothing.

`RunnerContract` has the states of `proc` in JobManager: running, stopped,
closing, exited, and the verdict of the runner (gone, or left behind, which
JobManager calls lost).

### CompileDir and the code

State. One compile directory: `lock` is the holder of `<job_dir>.compile.lock`;
`exe` and `fingerprint` what the directory holds, the build (the options and the
sources the compiler read, or `Broken`) and `.compile_fingerprint.json`.
`sources` are the files of the project, `digest` what Bazel last wrote of them.
Per process: `pc` the statement of `VCompJob` it is at, `expected` its
`compile_fingerprint`, `reuse`, `passed` its fields, `compiler` the process it
started. `ran`, `steady`, `exact` and `damaged` are there for the properties.

| Actions | Code |
|---|---|
| `BazelBuild` | `BazelTBJob`, bypassed by `--no-bazel` and `--no-compile` |
| `AcquireCompileLock`, `CancelLaunch` | `_acquire_compile_lock`, `raise_if_cancelled`, `cancel` |
| `RemoveJobDir`, `ComputeFingerprint`, `DecideReuse`, `DecideCompile`, `LaunchFailed` | `VCompJob.pre_run` in its order: `--recompile`, the fingerprint, what it decides |
| `StartCompile`, `CompilerReads`, `CompilerExits` | the compiler, or the echo of a reused build |
| `PostRun`, `WriteFingerprint`, `ReleaseCompileLock` | `VCompJob.post_run` |
| `Incomplete`, `Die` | `incomplete_shutdown`; the death of a process, with its compiler or without |
| `Start`, `Edit`, `SimulationsEnd` | users and the simulations |

A fingerprint is a record of options and digest; two different inputs have
different fingerprints. The compiler reads all sources at one moment. Processes
share the digest, which lies in Bazel's output tree. `damaged` says that a
process died in the middle of `rmtree` or left a compiler behind; both leave
the directory in the hands of nobody, the code does not claim to survive it, and
the properties exempt it.

### RunDirectory and the code

State. `holder` are the `.run.lock` files, `exists` and `wrote` the directories
and which run wrote the log and the waves in them, `link` and `linkLock` the
convenience links; `index` is `collision_index`; `status` the `jobstatus`, `sim`
the simulation, `coverage` the test's coverage database.

| Actions | Code |
|---|---|
| `Claim`, `Prepare` | `_claim_run_directory` and the rest of `TestJob.pre_run` |
| `LockLink`, `ReplaceSymlink`, `Compare`, `RemoveSymlink` | `replace_symlink`, `remove_symlink_if_target` |
| `StartSimulation`, `Writes`, `Ends` | the simulation |
| `Judge`, `Tidy`, `ReleaseRunDirectory` | `TestJob.post_run` |
| `LaunchFailed`, `PostRunFailed`, `CancelLaunch`, `Cancel`, `IncompleteShutdown` | the other final hooks |
| `Die` | the process is gone; simulations may live on (`orphaned`) |

All jobs are of one test, seed and iteration: only they compete for names.
`Init` may hold the directory of an earlier run with its files and a link to it.
`_claim_run_directory` tries a lock and moves on, one try per step. A third
directory of one process is not reached with two jobs.

### RuntimeLocks and the code

State. `needs` the benches of a process, `shares` whether its backend shares
their directories (Xcelium's XRUN, VCS with coverage), `held` its
`_shared_runtime_locks`, `compiling` the bench whose compile lock it has, `running`
the benches with simulations it started, also when it is gone. `interrupted` are the
processes with a Ctrl-C, `lost` those that ended without ending their simulations,
and `lacking` remembers the locks a process waited for when its Ctrl-C came.

| Actions | Code |
|---|---|
| `AcquireRuntimeLock`, `Prepared` | `prepare_regression_runtime`: the locks in the order of the paths |
| `CompileStarts` ... `SimulationEnds`, `JobsDone` | the jobs of `JobManager`, a bench at a time |
| `Clean`, `ReleaseRuntimeLock`, `Done` | `cleanup_shared_runtime_artifacts` of the backends |
| `Interrupt` | Ctrl-C at any moment: all jobs are ended, then the cleanup of all benches, also of those whose locks the process still waited for; in the cleanup it ends the process |
| `Crash` | a kill from outside: the locks, of the kind `flock`, are dropped by the system, the simulations, in sessions of their own (`start_new_session`, `lib/job_lib.py:325`), go on |
| `EndUnreaped` | process groups that cannot be ended: the cleanup is skipped (`MainFlow`), the locks go with the process, some simulations go on |
| `OrphanEnds` | such a simulation ends, if ever |

XRUN takes two locks for a bench, of its directory and of its coverage
(`lib/simulators/xcelium.py:354`), side by side in the order of the paths; they are
one lock here.

### ResultsStore and the code

State. `store` and `legacyStore` are `.simmer/results.json` and the
`.simmer_results.json` of earlier releases, `storeLock` the lock of the first,
`at` and `mem` where a process is and what it has read, `inode`, `opened` and `holds` the lock file of the second, which is unlinked
after the migration and may be created again by a process that still looks for
it. `saves`, `due` and `lost` are histories for the properties.

| Actions | Code |
|---|---|
| `Finalize` | `finalize_run` sets `finished_at` |
| `QueryStore`, `QueryLegacy` | `load_store` before its lock |
| `LockStore`, `Load`, `LockLegacy`, `ReadLegacy`, `WriteMerged`, `RemoveMigrated`, `UnlinkLock` | `_store_lock`, `_migrate_legacy_store_locked` |
| `ReadStore`, `SetAside`, `WriteStore` | `_read_store`, `_quarantine_store`, `save_run` |
| `OldOpens`, `OldReads`, `OldWrites` | an older simmer, as the migration expects it |
| `Die`, `Damage` | deaths; a file damaged from outside |

A run is its name: what a record holds is the matter of `RunRecord`. Files are
replaced as a whole (`os.replace`). `Merge` is `_merge_stores`: each run once, by
the time it finished (`InTime`); `Appended` is what `save_run` writes.

### RunRecord and the code

State. `planned`, `compile`, `tests`, `timing`, `summary` are the fields of
`simmer_results_run`, `ending` its `status`, which `finalize_run` sets; `history` the
stored runs, each with its status, `truth` what each was before it was reduced, with
`unclean` for a run that ended other than with all its tests run. `Ending` is the
choice of the status, also from what the backend's final steps report;
`IsFailedHistoryRun` is a failed test or a status `FAILED` or `COMPILE_FAILED`. `RecordCompileJob`, `RecordTestJob`, `FinalizeRun` and `SaveRun` are
`record_compile_job`, `record_test_job`, `finalize_run` and `save_run`;
`Elapsed` is `_consume_elapsed_time`, `Representative` the choice in `save_run`,
`Walk` its loop, `FilterHistoryRuns` and `Shown` the selection in `format_history`. Jobs record
compiles before tests and at most one test twice (when a kill meets a result).

### MainFlow and the code

State. `phase` is where `main` is, from `setup` to `exited`; `compile` and `job`
are the outcomes the scheduler gives, `rec` the entries of the run's tests,
`run` and `saved` the record and what the history has, `failed`, `complete`,
`attempted`, `unreaped` the flags of `main` of these or similar names, `exit`
the status (130 stands for a `KeyboardInterrupt` nobody handles, too).

| Actions | Code |
|---|---|
| `Setup`, `Prepare` | up to and with `prepare_regression_runtime` |
| `CompileStarts` ... `TestUnreaped`, `JobsDone` | the jobs, through the results of `JobManager` |
| `Interrupt`, `Menu`, `KillJobs`, `InterruptedCleanup`, `RecordInterrupted`, `SaveInterrupted` | the first handler of `KeyboardInterrupt`, `kill`, `finalize_interrupted_run` |
| `Begin`, `Workflow`, `PrintSummary`, `Report`, `RuntimeCleanup`, `Check`, `Raises` | the block after the jobs, and an exception in any part of it |
| `Finalize`, `Persist`, `Exit` | its `finally`, and the end of `main` |

One bench; a dynamic test plan (VSO) is left out. Ctrl-C comes between phases;
inside a phase it is like before it or after it.

### ActiveRun and the code

State. `state`, `enabled`, `recLock` and `stop` are the fields of `ActiveRun`,
`file` its record under `.simmer/runs`, `watcher` and `snap` the watch thread,
`work` what the scheduler does; `alive`, `reused` and `lsf` are processes,
process ids and LSF jobs; `query` is a call of `simmer --status` with its local
variables.

| Actions | Code |
|---|---|
| `Construct`, `Discovered`, `StartWatching`, `JobsEnd`, `StopWatching`, `Finalize`, `PostProcess`, `Close`, `Exit`, `Killed` | main: the constructor, `update`, `start_watching`, `stop_watching`, `close` |
| `OwnerWrites`, `WatcherWrites` | `_publish` under the lock |
| `CheckStop`, `Snapshot`, `WatcherUpdates` | `watch` |
| `Scan`, `LoadStateFile`, `Loaded`, `JudgeLocal`, `QueryLsfStates`, `RemoveRemote`, `PrintStatus`, `Again` | `load_active_runs`, `print_status` |
| `Work`, `ReusePid`, `LsfDone` | the scheduler and the system |

What a record says is its status. The watch thread may take longer than the two
seconds `stop_watching` waits for it (`late` are the runs that went on without it), the
removal in `close` may fail silently (`unremoved`), and the answer of `bjobs` may leave
out live jobs, as it does when it fails after a part of its output or lists an array
under another id; `query.missed` are the jobs it left out. The properties name these
three where they matter; see "Departures".

### DiscoveryCache and the code

State. `inputs` are the files discovery depends on, with their versions;
`cache` the scoped generation files, each with its manifest and the inputs its
metadata came from (`meta`), `legacy` and `pieces` the generation in the files
of earlier releases; `lock` is `.discovery.lock` held exclusively. Per process:
`read`, `current` and `before` the manifests, `attempt` the retries.

| Actions | Code |
|---|---|
| `Begin`, `ReadManifestFile`, `ManifestRead` | `_should_use_cached_discovery`, the manifest file by file |
| `ReadShared`, `ReadExclusive`, `Migrated` | the cached generation under the shared, then the exclusive lock; `_migrate_legacy_discovery_cache_locked` |
| `Miss`, `Query`, `Build`, `Compare` | `test_discovery_all` and its retries |
| `Publish`, `Published` | `_publish_discovery_cache` |
| `Edit`, `Crash` | the user; a killed process |

What is done under the lock by one process is one step where no other can see
the middle of it; the removal of the legacy files, which a kill can interrupt,
is one step per file, with two files for the four there are. A Bazel command
sees one state of the project. With `Reverting` an edit may bring an earlier
version back; see the checks.

### CheckTest and the code

A log is a sequence of lines, a line what the checker can tell of it. `ScanStatic`
is the search over the whole text, `FallBack`, `UpdateSignatures` and `ReadLine`
the reading line by line with `TEST_CHECK_` directives, `JudgeLog` the verdict.
`Expected` is the reference: it looks at each line with the signatures the
directives before it leave active.

### Faulty variants

Definitions marked "Faulty" are what the definition below them would be with a
plausible bug: a dropped guard, a missing queue, an early wake-up. Nothing uses
them; each was put in the place of its neighbour once to see that the
properties notice.

## Checks

Run `tlc -config <file> <module>`.

| Config, module | Instance | What it shows |
|---|---|---|
| `bench.cfg`, `MCJobManager` | six jobs of a VSO run (a bypassed compile, the job that asks VSO, configs, three tests: two added by that job's `post_run`, one by a test's), two at a time, quit after two errors, two Ctrl-C | the inductive invariant and the safety properties of the scheduler, `ImplementsLifecycle`, `Termination` |
| `runner.cfg`, `JobRunner` | all durations one tick, one pause | the invariant, no early timeout, kill wakes the group, grace before SIGKILL, `ImplementsContract`, `EventuallyDone` |
| `queues.cfg`, `MCJobQueues` | four jobs, five dependencies | priorities of every graph, sorted lists, walks over the lists do what `JobPass` says of sets |
| `compile_dir.cfg`, `MCCompileDir` | two processes, three starts, four command lines, one edit, one fault | one user, fingerprints stand for builds, a pass has its own build, reusers keep it, everyone gets the directory |
| `run_dir.cfg`, `MCRunDirectory` | two jobs in two processes, one fault, an earlier run's directory | one run per directory, links resolve, a pass is of its own log and waves, others untouched, `JobsSettle` |
| `results.cfg`, `ResultsStore` | two savers, a reader, an older simmer, one past run, two runs kept, one fault | no saved run lost or doubled, queries see all, everybody ends |
| `record.cfg`, `MCRunRecord` | two tests of two benches, two runs that end well or not, four intervals | times are unions, counts add up, a passed run has all its tests passed, filters and shown logs tell the truth |
| `main_flow.cfg`, `MCMainFlow` | three tests, two Ctrl-C, every failure | exit status, history, summary and cleanup agree |
| `check_test.cfg`, `MCCheckTest` | logs of four lines of thirteen kinds, limits one and two | the verdict and report of both paths are the reference's |
| `active_run.cfg`, `MCActiveRun` | one run of four kinds, a watch thread that may outlive its join, two queries with partial answers of `bjobs`, one fault | what `--status` shows and removes, `RecordCatchesUp` |
| `discovery.cfg`, `MCDiscoveryCache` | two processes, two scopes, two files edited once each, one retry, one crash, legacy files | generations are coherent and current, migration loses nothing |
| `locks.cfg`, `RuntimeLocks` | two processes, three benches, one Ctrl-C at any moment, one kill or end beside simulations that go on | exclusive use, cleanup apart from use, every run ends |

### Bounds, and why they are enough

- `bench`: compile, configs and tests are three levels, so skipping through a
  level occurs; the Bazel build and `VsoInitJob` would be two more jobs at the head
  of the chain, like the bypassed compile and the job that asks VSO. A `post_run`
  that adds two jobs while main waits, a job added by an added one, and one added
  after the quit count is reached all happen. One
  Ctrl-C reaches the menu or a kill from anywhere; a second a kill during pause
  or resume. Without symmetry, because of the liveness property.
- `runner`: a poll falls before, at and after each deadline. One pause is enough
  to charge paused time wrongly, to pause in the middle of a poll and to kill a
  stopped group. The clocks stop where no comparison can change any more
  (`LatestTimeout`, `OneLess`).
- `queues`: a chain of four, a diamond, a dependency declared twice, clones of
  jobs that waited for others. Priorities count from -1 instead of -3600, since
  only differences matter.
- `compile_dir`: a build, a second process that reuses or replaces it while the
  first simulates, and a third start after a death in between.
- `run_dir`: two jobs are enough to collide; the same directory is then used
  again, as that of the earlier run is.
- `results`: with two runs kept, the third save drops one; one fault may be a
  death, a damaged file, a failed write or a failed removal at any step; the
  clock lets runs finish in the same second or not.
- `record`: intervals that are apart, touch, overlap and contain each other; one
  run with times is enough, as times are not stored per run.
- `main_flow`: passed, failed and skipped tests at once; the second Ctrl-C meets
  every handler of the first.
- `check_test`: a directive, a line under it, a directive that undoes it and a
  line under that.
- `active_run`: runs do not share records, so that one is enough; a second query
  meets what the first removed.
- `discovery`: two files make a manifest that is read across an edit; two
  processes of the same or of two scopes race to publish and to migrate; one
  retry is used up.
- `locks`: two processes and three benches allow every order of locks; a third
  bench is free of both.

Deadlock is checked for `bench`, `runner` and `queues`; in the others the
processes simply end, and waiting for ever is excluded by the liveness property
where there is one.

### Fairness

Every `FairSpec` assumes that threads and processes that can go on do, which is
the operating system's business, and nothing of users but what is said here.

- `JobManager`: scheduler and main thread, the threads of `kill()`, and that a
  process group that is neither stopped nor lost ends, by itself or by its
  timeout. The user answers a menu; nothing obliges him to press Ctrl-C.
- `JobRunner`: polls, kill thread, time (strongly, since a poll in progress
  disables `Tick`), and that the user ends a pause. Processes may ignore every
  signal.
- `CompileDir`: the steps of a process, its compiler, its simulations. The lock
  is polled every 0.1 s, not queued for: strong fairness says that a process does
  not miss it each time it is free.
- `RunDirectory`: hooks and simulations; the same strong fairness for the link
  locks. Run directory locks need none, they are only tried.
- `ResultsStore`: a process that has begun goes on; each takes the lock once, so
  that weak fairness is enough. Nobody has to begin.
- `ActiveRun`: the watch thread, and the writes of main that it waits for.
- `RuntimeLocks`: the steps of each process.

`MainFlow`, `DiscoveryCache`, `RunRecord` and `CheckTest` have safety properties
only. Discovery retries a bounded number of times; that it ends depends on Bazel.

## Proofs

`tlapm JobManagerProofs.tla` checks every theorem about the scheduler, for all job sets, graphs,
limits, quit counts and numbers of Ctrl-C that satisfy the assumptions of
`JobManager`: jobs form a finite set, a dependency has a smaller priority, the
limits are positive.

No property is inductive by itself. `IInv` is built in layers, and each layer
is preserved by steps between states of the layers before it:

1. `Placement`: types, disjoint queues, and which queue the job in the
   scheduler's hands is in. Everything that moves a job needs it.
2. `MainOrder`: while main is in its serving phases the scheduler is active;
   after `wait()` everything is settled. Gives `WaitMeansDrained`.
3. `Gate`: who has a process, success only through `_complete_job`, and
   dependencies of ready or started jobs are done. A job's status may only
   leave success if a completed job were failed again, which `Placement`
   excludes. Gives `DependenciesSucceeded` and `SkippedNeverStarted`.
4. `Hooks`: kill threads are never at a job the scheduler launches or
   finalizes; who holds a lock and for whom no final hook was called. Gives
   `LockCoversProcess` and `OneFinalHook`.
5. `Limits`: processes outside the slots exist only when nothing is launched
   any more. Gives `ProcessesExclusive` and `NoStartAfterQuit`.
6. `Shutdown`: as long as every kill succeeded and nothing was left over, each
   process and each lock belongs to somebody who still handles that job: a thread,
   the scheduler, or the queue of active jobs. `kill()` says "complete" only after
   those are gone. Gives `CompleteKillIsQuiet`.
7. `Phases`: what a job's status, queue and hooks have to do with one another, so
   that the phase `JobLifecycle` sees can only change as it allows. Gives
   `ImplementsLifecycle`, step by step.

| Theorem | Property |
|---|---|
| `TypeCorrect` | `TypeOK` (no status update is illegal) |
| `OneQueueEach` | `QueuesPartition` |
| `WaitDrains` | `WaitMeansDrained` |
| `StartedAfterDependencies` | `DependenciesSucceeded` |
| `SkippedStaysUnstarted` | `SkippedNeverStarted` |
| `ProcessInsideLock` | `LockCoversProcess` |
| `HooksExcludeEachOther` | `OneFinalHook` |
| `ProcessesFit` | `ProcessesExclusive` |
| `QuitIsFinal` | `NoStartAfterQuit` |
| `CompleteShutdown` | `CompleteKillIsQuiet` |
| `LifecycleImplemented` | `ImplementsLifecycle` (refinement) |
| `InductiveInvariant` | `IInv` |

`tlapm JobQueuesProofs.tla` proves what `JobManager` takes from `JobQueues`. The
assumption on priorities is a theorem (`DependenciesRunFirst`), for every set of jobs and every order in which
`MayDepend` lets the graph grow. `DependencyFirst` holds between two calls of
`add_dependency` only; while its recursion is under way the invariant is
`EdgesFall`: the priority a dependency will have, once the calls that are
pending for it are made, is below that of the job that depends on it by at
least the initial priority. A call that lowers the job lowers the dependency at
least as often, because it makes one more call for each edge. The weights are
negative numbers (`Bounded`), which this argument needs. That a priority is the sum over the
jobs that wait is an invariant of the same kind (`PendingCounts`): priority, plus
what the pending calls will add, is the sum at any moment, by two lemmas on sums in
which one summand changes or all change by multiples of one value.

The lists need a second invariant, `ListInv`, which TLC checked on the run `queues`
before. Jobs in the lists are there once and have not run (`InOnePlace`); who is past
the first list and not skipped had successful dependencies (`DependenciesDone`);
and once there are jobs in the lists, pending calls concern only jobs that have
passed (`CallsDone`), so that a clone that raises priorities later changes none of
the priorities the lists are sorted by. With it:

- a walk is a fold, and is related to its list position by position (`WalkIs`).
  After `k` jobs every job seen is decided for good (`Decided`: kept, ready or
  skipped), since a job in the list comes after its dependencies in the list. The
  result then is what `JobPass` says (`PassIsSets`);
- the recursion over the children of a failed job is compared with `Below`, the least
  set closed under children. The loop of one call removes each child that is still
  there and, by induction, what is below that child in the rest; what was removed so
  far is at every moment closed and part of `Below` (`PruneChild`), so the order in
  which children are met makes no difference (`LeftIs`). This does not need that the
  graph has no cycles. `Below` is the set `SkippedBelow` asks for.

| Theorem | Property |
|---|---|
| `DependenciesRunFirst` | `DependencyFirst` |
| `QueuesCorrect` | `QueuesInv` |
| `WalkIsSetPass` | `PassIsSetPass` |
| `CompletionIsSets` | `CompletionIsSetStep` |

The induction theorems of the library take a predicate as a parameter, which the
installed provers cannot instantiate, so inductions are done by the least
counterexample: among subsets of a finite set with some property one has no smaller
one (`MinimalSubset` of `SetLemmas`, from the theorem that strict inclusion is
well-founded), and a set of natural numbers has a least element (`LeastOf`). That
a recursive function exists, so that the `CHOOSE` that defines it has what it says,
is `FoldExists`: of the functions that are right except for some arguments one with
the fewest exceptions could be corrected.

`tlapm JobRunnerProofs.tla` proves the same for a runner, for all timeouts,
grace times and numbers of pauses. Its invariant `IInv` adds three things to
what it shows: whoever is in a locked section holds the lock (`LockHeld`); a
stopped group is paused, and continues before its flag is cleared, whichever
statement Ctrl-C interrupts (`StoppedIsPaused`); and every deadline that runs
was set when its signal was sent, so that what is left of it and the time since
SIGTERM add up to the grace time (`Ladder`). A poll does one of four things to
what other threads see (nothing, SIGTERM, SIGKILL, done), and the proof has a
lemma for each. The refinement needs only that no process or signal is undone,
and that a verdict comes from a thread that has sent a signal or has seen the
group gone.

`NoEarlyTimeout` needs another invariant, `TimeCharged` (checked by TLC on the run
`runner` before it was proved). A pause begins before its group is stopped and ends
after it continues (`PauseOrder`), so from any start on, the ticks that lie in no pause
are ticks the group ran (`ChargedNow`). A poll reads the clock, the list of pauses, the
flag and the beginning of the current pause at different moments, while the user pauses
and resumes; `PollRead` says for each of its statements that what it has read so far
still accounts for every tick the group was stopped before the poll read the clock. The
sums over intervals are folds, see `SetLemmas`.

| Theorem | Property |
|---|---|
| `RunnerTypeCorrect` | `TypeOK` |
| `RunnerInvariant` | `IInv` |
| `DoneIsGone` | `DoneMeansGone` |
| `KillIsTruthful` | `KillTellsTruth` |
| `KillWakes` | `KillWakesGroup` |
| `KilledAfterGrace` | `GraceBeforeSigkill` |
| `TimedOutAfterTimeout` | `NoEarlyTimeout` |
| `RunnerImplements` | `ImplementsContract` (refinement) |

`tlapm SharedDirectoriesProofs.tla` proves three components, `RuntimeLocks`,
`CompileDir` and `ActiveRun`, whose names differ so that it extends all. Of
`RuntimeLocks` it proves, for any number of processes and benches, that simulations
of two processes never share a directory (`SimulationsApart`), through Ctrl-C at any
moment and kills: locks are exclusive, whoever runs jobs has the locks of
all its benches (`JobsHaveLocks`), nobody but a lost process simulates outside of the
jobs, and what is simulated is among the benches. `CleanupApart` adds that until
cleaning is done the locks are complete but for those the process waited for when
Ctrl-C came (`CleanHasLocks`), and nothing is cleaned before (`CleanLater`). Neither
theorem has a hypothesis; the exemptions are in the properties, of processes that are
gone beside their simulations (`lost`) and of directories in `lacking`. Without any
one of them TLC finds the property violated; see "Departures".

| Theorem | Property |
|---|---|
| `LocksTypeCorrect` | `LocksTypeOK` |
| `SimulationsApart` | `UseIsExclusive` |
| `CleanupApart` | `CleanupNotInUse` |

The same module proves the compile directory, for any number of
processes, command lines, starts, edits and faults. `OneUser` alone is not enough:
the invariant says what a process knows between its steps (`Knows`), that a living
process's compiler has its options and the lock (`CompilerRight`), that from the
decision to compile to the new fingerprint there is none, and that a build to be
reused keeps the fingerprint expected (`Invalidated`), that what was compiled or
reused is there until the lock is released (`OwnBuild`), and that without an edit
since the digest it is made of the digest's sources (`SteadyRead`).
`NobodyCompilesUnderSimulations` needs a second invariant for the case without
edits and faults: when all want the same options, whoever holds the lock finds
either nothing or the wanted build, so nobody decides to compile once there is a
fingerprint.

| Theorem | Property |
|---|---|
| `DirectoryCorrect` | `CompileDirInv` |
| `OwnBuildSimulated` | `PassedHasOwnBuild` |
| `NobodyCompilesUnderSimulations` | `SimulationsKeepBuild` |

And it proves the records of active runs, for any number of runs, queries and
faults; TLC found the three invariants true on `active_run.cfg` first. They need
different hypotheses. `EndedInv` needs none: whoever was over when the query began
stays over, so that a run can be shown only for a reason `_local_state_is_active` or
LSF cannot see through. `ReaderInv` needs that all runs belong to the user who asks
(`OwnRunsOnly`): a live run whose record was there is always in one of the sets of
the query until it is shown (`Traced`), and is never among those to be removed,
because LSF holds each live job that the answer of `bjobs` has not missed.
`RecordsInv` needs none: it says which of main and the watch thread may write in each
phase, so that nothing is written after `close()`, nor over a final status, unless the
thread is `late`. For a reader all the steps of a run are of one
form (`RunStep`: records go only with `close()`, processes only end), which is proved
once. `OwnRunsOnly` is needed, as are the exemptions in the properties, see
"Departures"; the kinds of `active_run` satisfy it.

| Theorem | Property |
|---|---|
| `RunsTypeCorrect` | `RunsTypeOK` |
| `EndedRunsHidden` | `EndedRunsNotShown` |
| `LiveRunsPrinted` | `LiveRunsShown` |
| `StatusCorrect` | `ActiveRunInv` |
| `LiveRecordsStay` | `RecordsStay` |

`tlapm TestRunProofs.tla` proves the verdict on a log, the record of a run and the
run directories. Of
`CheckTest` it proves, for logs of any length, any signatures, directives and limit,
that no log passes that should not (`VerdictSafe`), and on the hypothesis `NoSpans`
the whole of `CheckTestInv` (`VerdictTrue`): that hypothesis is about lines that are
the two halves of a signature, for which it is false, see "Departures". TLC checked the
invariant first. While a log is read, the active signatures are those of the directives
so far, and the lines reported are the wrong ones among the lines read (`SoFar`); a log
searched as a whole has no directive, so the first signatures count everywhere
(`Whole`). Both reports are sequences that ascend, and of those there is one for each
set of lines (`NumbersLists`), so that an early stop at the limit has reported a
beginning of it (`FirstNumbersBegin`). A finish signature on a line that is wrong does
not count, but then the verdict is not a pass either way.

| Theorem | Property |
|---|---|
| `VerdictSafe` | `ScanTypeOK`, `DynamicVerdict`, `SeedsReported` of `CheckTestInv`, and `PassIsDeserved` |
| `VerdictTrue` | `CheckTestInv` |

Of `RunRecord` it proves, for any tests, benches, intervals and length of the history,
what the runs check. An induction along the intervals, in the order of their starts, shows
that the current stretch and the sum before it are the moments covered so far
(`WalkRight`); a stretch is prolonged or ended without a moment counted twice or lost
(`Prolonged`, `Ended`). The inductive invariant, TLC-checked before, says that a test has
one record and is planned (`Entries`), so that passed, failed, interrupted and skipped
tests are as many as planned; that the summary is of these records (`SummedUp`); and that
what was stored of each run has its benches, failures, status and a test that stands for
it (`Kept`). A run has the status `PASSED` only if every planned test has passed and its
end was clean (`PassedIsAllPassed`), and the filter for failures shows the runs with a
failed test or an unclean end. That a filter shows the newest runs in order is a lemma on the last elements
of an ascending sequence (`LastOnes`).

`Sorting` defines the order of a set by `CHOOSE`, as the provers do not know `SortSeq`.
That there is such a sequence is proved (`OrderedSetIsSequence`): an element's place is
the number of elements not behind it.

| Theorem | Property |
|---|---|
| `RecordCorrect` | `RunRecordInv` |
| `HistoryTrue` | `HistoryTellsTruth` |

The same module proves the run directories for any number of jobs,
processes, faults and kills. Besides the holders of directories and links
(`Holding`, `LinkHolding`) the invariant says why a job never runs out of numbers:
each number it passed over is held by another job (`Collisions`), so that there are
fewer than jobs. A simulation runs for a job that waits for it, or outlived its
process, and then the directory is marked (`Living`). From its preparation to its
verdict the directory is there, and the artifacts the verdict looks at are missing or
the job's own (`Prepared`), whatever earlier runs left behind.

| Theorem | Property |
|---|---|
| `TypeCorrect` | `TypeOK` |
| `DirectoriesCorrect` | `RunDirectoryInv` |
| `PassesOnOwnArtifacts` | `PassedHasOwnArtifacts` |
| `NothingOfOthersRemoved` | `OthersUntouched` |

`tlapm SharedFilesProofs.tla` proves `HistoryInv` for any number of savers, readers,
past runs, faults and seconds. Its inductive invariant, `StoreIInv`, was checked by
TLC with the constants of `results.cfg` before it was proved. Its parts:

- `Places`, `Locks`: which process can be where; who is between the lock of the store
  and its release has it, and two processes never have the same legacy lock file.
- `Inodes`: who migrates has the legacy lock file that there is, so an older simmer
  that has or waits for another one does so when there is no legacy file.
- `Lists`: what is in a file or was read from one are runs that were saved, each once,
  and of any two the later one is `Newer` than the other (saved later, or finished no
  earlier). `Newer` is no order, but this is enough: of a list of which the last
  `MaxRuns` are kept, each run that goes has that many newer ones (`KeptOrGone`).
- `Carried`: who is about to write a file has read all that is in it; who is about to
  remove the legacy file knows its runs in the store. `StayListed` and `Shown` are then
  what `HistoryInv` says of the files and of the queries.

A run that made room stays excused, as saves only add newer ones (`GrownLists`). That a
merge sorts is a lemma on orders of finite sets (`SortedSorts` of `SetLemmas`).

The hypothesis is `OneOld`: at most one older simmer. It is needed. With two, TLC finds
a saved run lost: the migration unlinks the legacy lock file after it gave the lock back
(`lib/simmer_results.py:402`), one older simmer still waits for the unlinked file, the
other one creates a new one, and both write the legacy file. Their code is not in this
repository, so this is a limit of the model, not one of its checks. `StoredOnce` has no
hypothesis: however many there are, the store has each run once.

| Theorem | Property |
|---|---|
| `HistoryKept` | `HistoryInv` |
| `StoredOnce` | `StoreTypeOK`, `RunsOnce` |

It also proves `DiscoveryInv` for any number of processes,
scopes, files, retries and edits, on the hypothesis `~Reverting`: no edit brings an
earlier version of a file back. It is false without, see "Limits". Versions then only
grow, and the argument is an ordering: each input Bazel sees is at least as new as
the first manifest and at most as new as the second (`Between`), so what is published,
after both manifests were equal, is of exactly those inputs. `Since` says the same of
what a process may go on with, `Dated` that a generation in the cache is, for each
process, of inputs there were since it began or of older ones, and `LegacyKept` that the legacy files are
removed only once their scope has a generation of its own.

| Theorem | Property |
|---|---|
| `DiscoveryCorrect` | `DiscoveryInv` |

`tlapm MainFlowProofs.tla` proves `MainFlowInv` for any set of tests and any number
of Ctrl-C. The invariant follows what `main()` knows of its jobs: the entry a job
has in the record fits what became of it (`Agree`), tests wait for the compile job
(`Gate`), what failed is an issue and what could not be reaped is noted (`Known`),
how far the jobs are in each phase (`Flow`), what was cleaned and when (`Ended`), and
what of the run was saved (`Record`). Exit status 0 leaves no issue, so no job that
ended badly, so every test passed. That the summary counts what became of the jobs
is a lemma about cardinalities: failed and interrupted entries are disjoint, and
skipped are the tests without an entry.

| Theorem | Property |
|---|---|
| `TypeCorrect` | `TypeOK` |
| `InvocationCorrect` | `MainFlowInv` |

Only model-checked:

- liveness, which is beyond the prover: `Termination`, `EventuallyDone`,
  `EveryoneGetsTheDirectory`, `JobsSettle`, `Finishes`, `RecordCatchesUp`,
  `EveryRunEnds`.

Every invariant and every action property that a run checks is stated by a theorem, on
the hypotheses named above.

## Departures

Properties the code does not keep, each stated in the module, with what TLC shows
when it is added to the run named. None of them is among the checks. Lines are of
the files as modelled.

- `PausedMeansStopped`, an invariant for `bench.cfg`. `_launch_job`
  (`lib/job_lib.py:931`) reads `_paused` under the lock and resumes its runner
  after releasing it. A resume and a second pause in between leave that process
  group running while the pause menu is open: "Pause active process groups and
  prevent queued jobs from launching." (`lib/job_lib.py:1078`). With
  `MaxInterrupts = 1` it holds.
- `OnlyKilledForCause`, an invariant for `runner.cfg`. `_paused_duration_since`
  tests `_paused_at` (`lib/job_lib.py:492`) and reads it again (line 493) without
  the lock. If the user pauses after the poll passed its test of `_paused` and
  resumes between the two reads, the interval starts at `None`, a `TypeError` is
  raised, and the handler of `check_for_done` kills a group that was only paused
  and resumed: "A paused regression can then be resumed or stopped."
  (`README.md:104`).
- `NoCompileRejectsStale`, a property for `compile_dir.cfg`. `--no-compile`
  compares the digest that Bazel last wrote (`bin/simmer.py:484`) and bypasses
  the Bazel job that would write it anew, so an edit after that build goes
  unnoticed: "`--no-compile` validates a fingerprint of tracked/untracked source
  state" (`docs/simmer_vcs_xcelium.md:155`).
- `FailedLeaveNoCoverage`, an invariant for `run_dir.cfg`. An exception in
  `post_run` (`bin/simmer.py:1111`) fails the test after its simulation wrote
  coverage, and `post_run_failed` does not remove it: "Failed-test databases are
  removed before merge, so the dashboard represents successful tests from the
  current regression" (`docs/simmer_vcs_xcelium.md:741`).
- `QueriesSeeAll`, an invariant for `results.cfg`. `load_store` asks for the
  store and then for the legacy file before it takes the lock
  (`lib/simmer_results.py:414`); a migration between the two answers leaves it
  with an empty history though runs are stored: "Completed and interrupted
  simulations remain visible through `simmer --history`" (`README.md:404`).
- `OldestFirst`, an invariant for `results.cfg`. Runs are appended in the order
  of their saves (`lib/simmer_results.py:443`), and a run that finished first may
  be saved last: "The selected records are printed from oldest to newest so the
  latest result is closest to the terminal prompt."
  (`docs/simmer_vcs_xcelium.md:879`).
- `StartedRunsAreRecorded`, an invariant for `main_flow.cfg`. Whether a simulation
  started is derived from its duration (`lib/simmer_results.py:236`), which a
  failing verdict clears and a SIGKILL prevents; a run whose only simulation ended
  so is not saved: "Normal simulation invocations are recorded in
  `.simmer/results.json` after at least one simulation starts."
  (`docs/simmer_vcs_xcelium.md:838`).
- `InterruptedRunsAreRecorded`, an invariant for `main_flow.cfg`. A Ctrl-C after
  the last job and before the block whose `finally` (`bin/simmer.py:1635`) saves
  the run ends simmer without a record, though tests have passed: "Completed and
  interrupted simulations remain visible through `simmer --history`"
  (`README.md:404`).
- `StaticVerdict`, part of `CheckTestInv`, when `AllLines` of `MCCheckTest` also
  has lines with `part` `"head"` and `"tail"`. The search over the whole text
  (`bin/check_test.py:179`) finds a signature that spans two lines, reading line by
  line does not: "so both paths have identical matching semantics"
  (`bin/check_test.py:167`). Without such lines both agree (`VerdictTrue`).
- `RemovedAtExit`, part of `ActiveRunInv`, without the exemption of `late`. `close()`
  waits two seconds for the watch thread (`lib/simmer_state.py:249`); a slower one
  publishes the record again after it was removed: "removes the file at exit"
  (`docs/simmer_vcs_xcelium.md:833`). Without that of `unremoved`, a removal that fails
  is the other case (`lib/simmer_state.py:258`).
- `LiveRunsShown`, part of `ActiveRunInv`, and `RecordsStay`, without the exemption of
  `missed`. A job the output of `bjobs` does not list counts as ended, also when
  `bjobs` failed after a part of its output or lists the job under another id
  (`lib/simmer_state.py:333`), and the record of the live run is removed: "removes
  records for jobs that have completed" (`docs/simmer_vcs_xcelium.md:834`). It is
  written again when the status of the run changes, and only then, so
  `RecordCatchesUp` holds only with its exemption of a removed record (`Nil`).
- `LiveRunsShown`, part of `ActiveRunInv`, with a kind whose `foreign` is `TRUE`.
  `kill(pid, 0)` fails for a process of another user (`lib/simmer_state.py:119`),
  whose run is then taken for gone: "print every active simmer run for the current
  project" (`README.md:107`).
- `CleanupNotInUse`, in `locks.cfg`, without the exemption of `lacking`. A Ctrl-C
  while a process waits for its second lock lets it clean all of its directories, also
  those another process uses (`lib/simulators/xcelium.py:709`): "Called once after
  the regression finishes so cleanup does not race with active simulations."
  (`lib/simulators/base.py:217`).
- `CleanupNotInUse` and `UseIsExclusive` without the exemption of `lost`. The locks of
  a process that was killed, or that could not end its process groups, are free while
  its simulations go on (`lib/job_lib.py:325`, `lib/compile_cache.py:27`);
  the next process simulates and cleans up beside them, against the same sentence.

Limits of what is checked, besides the bounds: a compile directory whose user died
within `--recompile`'s removal, or left a compiler behind, is exempt (`damaged`); so
are run directories with a simulation that outlived its process (`orphaned`), and in
the shared directories the simulations of `lost` processes.
`results.cfg` has one older simmer, see `HistoryKept`. An
edit that is undone between the two manifests of one discovery goes unnoticed, as
the manifest has the digests of the files: with `Reverting = TRUE` TLC finds a
generation made of other inputs than its manifest lists, so `discovery.cfg` has it
`FALSE`. That discovery ends is not checked.

## Not modelled

- Command line, CPU allocation, runtime options: pure functions of their
  arguments, without state; what matters of them are constants (`ActiveJobLimit`,
  `Option`, `norun`, `report`).
- Regression report, logging, profiles and utilities: text in, text out, after the
  results are final. That writing a report may fail is a step of `MainFlow`.
- Lint parsers and the file list filter: sequential text filters without state
  that another part relies on.
- The backends' command lines and option tables: strings. What is modelled of the
  backends are the directories they share (`RuntimeLocks`) and which artifacts make
  a build reusable (`CompileDir`).
- A simulation log that is missing, and `--file-size-limit`
  (`bin/check_test.py:224`): both end `check_test` before a line is read. `CheckTest`
  begins after them.
- VSO plan files: written and read by one process, in sequence. The jobs they add
  are those `post_run` adds in `JobManager`.
- Matching of test globs and tags in discovery: sequential filters of what
  `DiscoveryCache` publishes.
- Bazel rules: evaluated by Bazel at analysis time, without state of their own.
- Examples, vendor files and tests: not part of the program; the tests were read
  as documentation.
