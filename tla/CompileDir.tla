----------------------------- MODULE CompileDir -----------------------------
(***************************************************************************)
(* One compile directory and the simmer processes that want it: the        *)
(* VCompJob of each (bin/simmer.py), the lock and the fingerprint of       *)
(* lib/compile_cache.py, the backend's artifact checks.                    *)
(*                                                                         *)
(* Bazel writes the digest of the sources beside its other outputs.  A     *)
(* build is what the compiler made of the sources it read; the fingerprint *)
(* is what simmer says of it: the options and the digest, both taken       *)
(* before the compiler runs.  A process may die anywhere; the kernel then  *)
(* frees its lock, and the compiler it started may live on.                *)
(***************************************************************************)
EXTENDS Naturals, FiniteSets

CONSTANTS
  Proc,        \* simmer processes
  Option,      \* the command lines they may be started with
  Content,     \* what the sources may contain
  MaxStarts,   \* bound: invocations in all
  MaxEdits,    \* bound: edits of the sources
  MaxFaults,   \* bound: processes that die, fingerprints that cannot be written
  None

Mode == {"compile", "auto", "no_compile"}

Build == [cfg : {o.cfg : o \in Option}, src : Content]
Broken == [cfg |-> "broken", src |-> None]
Running == [cfg |-> "running", src |-> None]

ASSUME CompileDirAssumption ==
  /\ Option \subseteq [mode : Mode, recompile : BOOLEAN, no_bazel : BOOLEAN, cfg : STRING]
  /\ MaxStarts \in Nat /\ MaxEdits \in Nat /\ MaxFaults \in Nat
  /\ None \notin Proc \cup Content \cup Build \cup {Broken, Running}

NoOption == [mode |-> "compile", recompile |-> FALSE, no_bazel |-> FALSE, cfg |-> "none"]

VARIABLES
  asked,                \* what the users of the project start simmer with
  sources, digest,      \* the sources; the digest Bazel last wrote of them
  lock,                 \* who holds <job_dir>.compile.lock
  exe, fingerprint,     \* in the directory: the build, the fingerprint file
  pc, opt,              \* of each process: where it is, its options
  expected,             \* compile_fingerprint, computed by pre_run
  reuse,                \* pre_run decided against compiling
  compiler,             \* the compiler it started: None, Running or the build it read
  passed,               \* the jobstatus post_run comes to
  ran,                  \* the build its simulations were started with
  steady, exact,        \* no edit since the digest: for the compile of a process; for the fingerprint
  damaged,              \* a process died and left the directory half removed or its compiler running
  starts, edits, faults

disk == <<exe, fingerprint>>
counters == <<starts, edits, faults>>
vars == <<asked, sources, digest, lock, disk, pc, opt, expected, reuse, compiler, passed, ran, steady,
          exact, damaged, counters>>

\* Nobody is told to compile, and nobody wants other options
Reusing(cfg) == {o \in Option : o.mode # "compile" /\ ~o.recompile /\ o.cfg = cfg}

Init ==
  /\ asked \in {Option} \cup {Reusing(o.cfg) : o \in Option}
  /\ sources \in Content /\ digest = sources
  /\ lock = None /\ exe = None /\ fingerprint = None
  /\ pc = [p \in Proc |-> "idle"] /\ opt = [p \in Proc |-> NoOption]
  /\ expected = [p \in Proc |-> None] /\ reuse = [p \in Proc |-> FALSE]
  /\ compiler = [p \in Proc |-> None] /\ passed = [p \in Proc |-> FALSE]
  /\ ran = [p \in Proc |-> None]
  /\ steady = [p \in Proc |-> FALSE] /\ exact = FALSE /\ damaged = FALSE
  /\ starts = 0 /\ edits = 0 /\ faults = 0

Goto(p, l) == pc' = [pc EXCEPT ![p] = l]

(***************************************************************************)
(* The user                                                                *)
(***************************************************************************)
Start(p) ==
  /\ pc[p] = "idle" /\ compiler[p] = None /\ starts < MaxStarts
  /\ \E o \in asked : opt' = [opt EXCEPT ![p] = o]
  /\ Goto(p, "bazel") /\ starts' = starts + 1
  /\ expected' = [expected EXCEPT ![p] = None] /\ reuse' = [reuse EXCEPT ![p] = FALSE]
  /\ passed' = [passed EXCEPT ![p] = FALSE] /\ ran' = [ran EXCEPT ![p] = None]
  /\ steady' = [steady EXCEPT ![p] = FALSE]
  /\ UNCHANGED <<asked, sources, digest, lock, disk, compiler, exact, damaged, edits, faults>>

Edit ==
  /\ edits < MaxEdits /\ edits' = edits + 1
  /\ sources' \in Content \ {sources}
  /\ steady' = [p \in Proc |-> FALSE]
  /\ UNCHANGED <<asked, digest, lock, disk, pc, opt, expected, reuse, compiler, passed, ran, exact,
                 damaged, starts, faults>>

\* BazelTBJob: --no-compile bypasses it like --no-bazel
BazelBuild(p) ==
  /\ pc[p] = "bazel" /\ Goto(p, "waiting")
  /\ digest' = IF opt[p].no_bazel \/ opt[p].mode = "no_compile" THEN digest ELSE sources
  /\ UNCHANGED <<asked, sources, lock, disk, opt, expected, reuse, compiler, passed, ran, steady, exact,
                 damaged, counters>>

(***************************************************************************)
(* pre_run                                                                 *)
(***************************************************************************)
\* Faulty: the lock is only a hint
LockFreeAlways == TRUE

LockFree == lock = None

AcquireCompileLock(p) ==
  /\ pc[p] = "waiting" /\ LockFree
  /\ lock' = p /\ Goto(p, IF opt[p].recompile THEN "recompile" ELSE "locked")
  /\ UNCHANGED <<asked, sources, digest, disk, opt, expected, reuse, compiler, passed, ran, steady, exact,
                 damaged, counters>>

\* raise_if_cancelled while it waits or after; cancel releases what it has
CancelLaunch(p) ==
  /\ pc[p] \in {"waiting", "recompile", "locked", "ready"} /\ Goto(p, "idle")
  /\ lock' = IF lock = p THEN None ELSE lock
  /\ UNCHANGED <<asked, sources, digest, disk, opt, expected, reuse, compiler, passed, ran, steady, exact,
                 damaged, counters>>

\* shutil.rmtree(job_dir) removes one file after the other
RemoveJobDir(p) ==
  \/ /\ pc[p] = "recompile" /\ Goto(p, "removing")
     /\ exe' = IF exe = None THEN None ELSE Broken
     /\ fingerprint' \in {fingerprint, None}
     /\ UNCHANGED <<asked, sources, digest, lock, opt, expected, reuse, compiler, passed, ran, steady,
                    exact, damaged, counters>>
  \/ /\ pc[p] = "removing" /\ Goto(p, "locked")
     /\ exe' = None /\ fingerprint' = None
     /\ UNCHANGED <<asked, sources, digest, lock, opt, expected, reuse, compiler, passed, ran, steady,
                    exact, damaged, counters>>

ComputeFingerprint(p) ==
  /\ pc[p] = "locked" /\ Goto(p, "fingerprinted")
  /\ expected' = [expected EXCEPT ![p] = [cfg |-> opt[p].cfg, src |-> digest]]
  /\ steady' = [steady EXCEPT ![p] = digest = sources]
  /\ UNCHANGED <<asked, sources, digest, lock, disk, opt, reuse, compiler, passed, ran, exact, damaged,
                 counters>>

\* validate_reusable_compile_artifacts: the executable is there; of a broken
\* build it may be
ArtifactsPresent == {exe # None} \cup IF exe = Broken THEN {FALSE} ELSE {}

\* Faulty: the artifacts alone decide
ReusableByArtifacts(p) == IF fingerprint = None THEN {FALSE} ELSE ArtifactsPresent

\* can_reuse_compile, validate_compile_fingerprint
Reusable(p) == IF fingerprint = expected[p] THEN ArtifactsPresent ELSE {FALSE}

\* Faulty: the old fingerprint stays until the new one is written
InvalidateNothing(p) == fingerprint

\* Faulty: the file is emptied, not removed
InvalidateTruncates(p) == Broken

\* invalidate_compile_fingerprint before the compiler touches the directory
Invalidate(p) == None

\* Faulty: every process invalidates the fingerprint
DecideReuseInvalidates(p) ==
  /\ pc[p] = "fingerprinted" /\ opt[p].mode # "compile"
  /\ TRUE \in Reusable(p)
  /\ Goto(p, "ready") /\ reuse' = [reuse EXCEPT ![p] = TRUE] /\ fingerprint' = Invalidate(p)
  /\ UNCHANGED <<asked, sources, digest, lock, exe, opt, expected, compiler, passed, ran, steady, exact,
                 damaged, counters>>

DecideReuse(p) ==
  /\ pc[p] = "fingerprinted" /\ opt[p].mode # "compile"
  /\ TRUE \in Reusable(p)
  /\ Goto(p, "ready") /\ reuse' = [reuse EXCEPT ![p] = TRUE]
  /\ UNCHANGED <<asked, sources, digest, lock, disk, opt, expected, compiler, passed, ran, steady, exact,
                 damaged, counters>>

DecideCompile(p) ==
  /\ pc[p] = "fingerprinted" /\ opt[p].mode # "no_compile"
  /\ opt[p].mode = "auto" => FALSE \in Reusable(p)
  /\ Goto(p, "ready") /\ fingerprint' = Invalidate(p)
  /\ UNCHANGED <<asked, sources, digest, lock, exe, opt, expected, reuse, compiler, passed, ran, steady,
                 exact, damaged, counters>>

\* Faulty: the lock is kept
LaunchFailedKeepsLock(p) ==
  /\ pc[p] = "fingerprinted" /\ opt[p].mode = "no_compile" /\ FALSE \in Reusable(p)
  /\ Goto(p, "idle")
  /\ UNCHANGED <<asked, sources, digest, lock, disk, opt, expected, reuse, compiler, passed, ran, steady,
                 exact, damaged, counters>>

\* launch_failed: --no-compile found nothing it may reuse
LaunchFailed(p) ==
  /\ pc[p] = "fingerprinted" /\ opt[p].mode = "no_compile" /\ FALSE \in Reusable(p)
  /\ Goto(p, "idle") /\ lock' = None
  /\ UNCHANGED <<asked, sources, digest, disk, opt, expected, reuse, compiler, passed, ran, steady, exact,
                 damaged, counters>>

(***************************************************************************)
(* The compiler, or the echo that stands in for it                         *)
(***************************************************************************)
StartCompile(p) ==
  /\ pc[p] = "ready"
  /\ \/ /\ reuse[p] /\ Goto(p, "ended") /\ passed' = [passed EXCEPT ![p] = TRUE]
        /\ UNCHANGED <<disk, compiler>>
     \/ /\ ~reuse[p] /\ Goto(p, "running") /\ exe' = Broken
        /\ compiler' = [compiler EXCEPT ![p] = Running]
        /\ UNCHANGED <<fingerprint, passed>>
  /\ UNCHANGED <<asked, sources, digest, lock, opt, expected, reuse, ran, steady, exact, damaged,
                 counters>>

CompilerReads(p) ==
  /\ compiler[p] = Running
  /\ compiler' = [compiler EXCEPT ![p] = [cfg |-> opt[p].cfg, src |-> sources]]
  /\ UNCHANGED <<asked, sources, digest, lock, disk, pc, opt, expected, reuse, passed, ran, steady, exact,
                 damaged, counters>>

\* It ends, well or not; that of a dead process too
CompilerExits(p) ==
  /\ compiler[p] # None /\ compiler' = [compiler EXCEPT ![p] = None]
  /\ \E ok \in {TRUE, FALSE} :
       /\ ok => compiler[p] # Running
       /\ exe' = IF ok THEN compiler[p] ELSE Broken
       /\ IF pc[p] = "running"
          THEN Goto(p, "ended") /\ passed' = [passed EXCEPT ![p] = ok]
          ELSE UNCHANGED <<pc, passed>>
  /\ UNCHANGED <<asked, sources, digest, lock, fingerprint, opt, expected, reuse, ran, steady, exact,
                 damaged, counters>>

(***************************************************************************)
(* post_run                                                                *)
(***************************************************************************)
\* Faulty: a compile that failed is recorded too
MayRecordAlways(p, waived) == ~reuse[p]

MayRecord(p, waived) == passed[p] /\ waived /\ ~reuse[p]

\* An unwaived warning or a waiver file that cannot be read fails the compile
PostRun(p) ==
  /\ pc[p] = "ended"
  /\ \E waived \in BOOLEAN :
       /\ passed' = [passed EXCEPT ![p] = @ /\ waived]
       /\ Goto(p, IF MayRecord(p, waived) THEN "recording" ELSE "releasing")
  /\ UNCHANGED <<asked, sources, digest, lock, disk, opt, expected, reuse, compiler, ran, steady, exact,
                 damaged, counters>>

\* record_compile_artifacts raises when the executable is missing
Records(p) == exe # None

\* The write replaces the file; when it fails that is only a warning
WriteFingerprint(p) ==
  /\ pc[p] = "recording" /\ Goto(p, "releasing")
  /\ \/ /\ Records(p) /\ fingerprint' = expected[p] /\ exact' = steady[p] /\ UNCHANGED passed
        /\ UNCHANGED faults
     \/ /\ Records(p) /\ faults < MaxFaults /\ faults' = faults + 1
        /\ UNCHANGED <<fingerprint, exact, passed>>
     \/ /\ ~Records(p) /\ passed' = [passed EXCEPT ![p] = FALSE]
        /\ UNCHANGED <<fingerprint, exact, faults>>
  /\ UNCHANGED <<asked, sources, digest, lock, exe, opt, expected, reuse, compiler, ran, steady, damaged,
                 starts, edits>>

ReleaseCompileLock(p) ==
  /\ pc[p] = "releasing" /\ lock' = None
  /\ Goto(p, IF passed[p] THEN "simulating" ELSE "idle")
  /\ ran' = [ran EXCEPT ![p] = IF passed[p] THEN exe ELSE None]
  /\ UNCHANGED <<asked, sources, digest, disk, opt, expected, reuse, compiler, passed, steady, exact,
                 damaged, counters>>

\* incomplete_shutdown keeps the lock until the process ends; its compiler
\* lives on
Incomplete(p) ==
  /\ pc[p] = "running" /\ faults < MaxFaults
  /\ faults' = faults + 1 /\ Goto(p, "incomplete")
  /\ UNCHANGED <<asked, sources, digest, lock, disk, opt, expected, reuse, compiler, passed, ran, steady,
                 exact, damaged, starts, edits>>

SimulationsEnd(p) ==
  /\ pc[p] = "simulating" /\ Goto(p, "idle")
  /\ UNCHANGED <<asked, sources, digest, lock, disk, opt, expected, reuse, compiler, passed, ran, steady,
                 exact, damaged, counters>>

\* The process is gone: killed, or at its end after an incomplete shutdown.
\* The compiler dies with it or not.
Die(p) ==
  /\ pc[p] # "idle"
  /\ IF pc[p] = "incomplete" THEN UNCHANGED faults
     ELSE faults < MaxFaults /\ faults' = faults + 1
  /\ Goto(p, "idle") /\ lock' = IF lock = p THEN None ELSE lock
  /\ \E survives \in {compiler[p], None} :
       /\ compiler' = [compiler EXCEPT ![p] = survives]
       /\ damaged' = (damaged \/ survives # None \/ pc[p] = "removing")
  /\ UNCHANGED <<asked, sources, digest, disk, opt, expected, reuse, passed, ran, steady, exact, starts,
                 edits>>

Step(p) ==
  \/ BazelBuild(p) \/ AcquireCompileLock(p) \/ RemoveJobDir(p) \/ ComputeFingerprint(p)
  \/ DecideReuse(p) \/ DecideCompile(p) \/ LaunchFailed(p) \/ StartCompile(p) \/ PostRun(p)
  \/ WriteFingerprint(p) \/ ReleaseCompileLock(p)
Compiler(p) == CompilerReads(p) \/ CompilerExits(p)
Leaves(p) == SimulationsEnd(p) \/ (pc[p] = "incomplete" /\ Die(p))

Next ==
  \/ Edit
  \/ \E p \in Proc :
       Start(p) \/ Step(p) \/ Compiler(p) \/ SimulationsEnd(p) \/ CancelLaunch(p)
         \/ Incomplete(p) \/ Die(p)

Spec == Init /\ [][Next]_vars

\* The lock is tried again every 0.1 s, not queued for
FairSpec ==
  /\ Spec
  /\ \A p \in Proc : WF_vars(Step(p)) /\ SF_vars(AcquireCompileLock(p)) /\ WF_vars(Compiler(p))
                     /\ WF_vars(Leaves(p))
-----------------------------------------------------------------------------
(***************************************************************************)
(* Properties                                                              *)
(***************************************************************************)
TypeOK ==
  /\ asked \subseteq Option /\ sources \in Content /\ digest \in Content /\ lock \in Proc \cup {None}
  /\ exe \in Build \cup {None, Broken} /\ fingerprint \in Build \cup {None}
  /\ pc \in [Proc -> {"idle", "bazel", "waiting", "recompile", "removing", "locked",
                      "fingerprinted", "ready", "running", "ended", "recording", "releasing",
                      "simulating", "incomplete"}]
  /\ opt \in [Proc -> Option \cup {NoOption}] /\ expected \in [Proc -> Build \cup {None}]
  /\ reuse \in [Proc -> BOOLEAN] /\ passed \in [Proc -> BOOLEAN]
  /\ compiler \in [Proc -> Build \cup {None, Running}]
  /\ ran \in [Proc -> Build \cup {None, Broken}]
  /\ steady \in [Proc -> BOOLEAN] /\ exact \in BOOLEAN /\ damaged \in BOOLEAN
  /\ starts \in 0..MaxStarts /\ edits \in 0..MaxEdits /\ faults \in 0..MaxFaults

\* The directory has one user from the removal of its contents to the
\* recorded fingerprint, and no compiler of a living process runs outside
OneUser ==
  \A p \in Proc :
    pc[p] \in {"recompile", "removing", "locked", "fingerprinted", "ready", "running", "ended",
               "recording", "releasing", "incomplete"} => lock = p

\* A fingerprint in the directory stands for a build that was finished with
\* those options: a crash, a cancellation, a failed compile or a failed write
\* between removing the old fingerprint and writing the new one never leaves
\* one for half a build.  It stands for exactly these sources if they did not
\* change between Bazel's digest and the end of that compile.  This holds as
\* long as no process died while it removed the directory or left its
\* compiler behind.
FingerprintMeansBuild ==
  fingerprint # None /\ ~damaged /\ (\A p \in Proc : pc[p] # "removing")
    => exe \in Build /\ exe.cfg = fingerprint.cfg /\ (exact => exe = fingerprint)

\* The directory, its lock and its fingerprint, through every end of a compile
CompileDirInv == TypeOK /\ OneUser /\ FingerprintMeansBuild

\* A process goes on to its simulations only with a finished build of its
\* own options, compiled by it or reused
PassedHasOwnBuild ==
  \A p \in Proc : pc[p] = "releasing" /\ passed[p] /\ ~damaged
                    => exe \in Build /\ exe.cfg = opt[p].cfg

\* The lock is released before the simulations, which use the directory.
\* Processes that may all reuse a build, of the same options and sources, do
\* not compile under the simulations of one another.  Of others nothing
\* keeps the directory.
SimulationsKeepBuild ==
  asked # Option /\ edits = 0 /\ faults = 0 =>
    \A p \in Proc : pc[p] = "simulating" => exe = ran[p]

\* --no-compile fails unless the build was made of the current sources: what
\* the documentation says it validates.  The code does not: see README.md
NoCompileRejectsStale ==
  [][ \A p \in Proc :
        DecideReuse(p) /\ opt[p].mode = "no_compile" /\ ~damaged => exe.src = sources ]_vars

\* Everyone who waits for the directory gets it or is cancelled
EveryoneGetsTheDirectory == \A p \in Proc : pc[p] = "waiting" ~> pc[p] # "waiting"
=============================================================================
