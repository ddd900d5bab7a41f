----------------------- MODULE SharedDirectoriesProofs -----------------------
(***************************************************************************)
(* Proofs about the directories that simmer processes share.               *)
(*                                                                         *)
(* CompileDir, for any number of processes, options and faults: the        *)
(* directory has one user, its fingerprint stands for a finished build,    *)
(* and a compile that passes leaves its own build there.                   *)
(*                                                                         *)
(* RuntimeLocks, for any number of processes and benches: simulations      *)
(* never share a directory, and cleanup touches no directory in use, but   *)
(* for what a process that is gone has left running and for the locks a    *)
(* process lacked when Ctrl-C came.                                        *)
(*                                                                         *)
(* ActiveRun, for any number of runs, queries and faults: simmer --status  *)
(* prints the live runs and none that it can tell is over, removes no      *)
(* record of a live run, and an exit leaves no record; with the exceptions *)
(* that late threads, failed removals and short answers of bjobs make.     *)
(***************************************************************************)
EXTENDS CompileDir, RuntimeLocks, ActiveRun, TLAPS

USE CompileDirAssumption

\* What a process knows: its options, what it has computed and decided
Knows ==
  \A p \in Proc :
    /\ ((pc[p] # "idle" \/ compiler[p] # None) => opt[p] \in Option)
    /\ (pc[p] \in {"bazel", "waiting", "recompile", "removing", "locked", "fingerprinted", "running",
                   "incomplete", "recording"} => ~reuse[p])
    /\ (pc[p] \in {"fingerprinted", "ready", "running", "ended", "recording", "releasing",
                   "incomplete"}
          => expected[p] \in Build /\ expected[p].cfg = opt[p].cfg)

\* A compiler is given the options of its process, and runs only while that has the lock
CompilerRight ==
  \A p \in Proc :
    /\ (compiler[p] \notin {None, Running} => compiler[p] \in Build /\ compiler[p].cfg = opt[p].cfg)
    /\ (~damaged /\ compiler[p] # None => pc[p] \in {"running", "incomplete"})

\* From the decision to compile to the new fingerprint there is none; a build that is to be reused
\* has the one expected
Compiling(p) ==
  pc[p] \in {"running", "incomplete", "recording"} \/ (pc[p] \in {"ready", "ended"} /\ ~reuse[p])

Invalidated ==
  \A p \in Proc :
    /\ (Compiling(p) => fingerprint = None)
    /\ (pc[p] \in {"ready", "ended"} /\ reuse[p] => fingerprint = expected[p])

\* What was compiled or reused is there until the lock is released
HasBuild(p) == pc[p] = "recording" \/ (pc[p] \in {"ended", "releasing"} /\ passed[p])

OwnBuild ==
  \A p \in Proc : ~damaged /\ HasBuild(p) => exe \in Build /\ exe.cfg = opt[p].cfg

\* Without an edit since the digest, the build is the one the fingerprint says
SteadyRead ==
  \A p \in Proc : steady[p] =>
    /\ (pc[p] \in {"fingerprinted", "ready", "running", "ended", "recording"}
          => sources = expected[p].src)
    /\ (pc[p] = "running" /\ compiler[p] \notin {None, Running} => compiler[p] = expected[p])
    /\ (~damaged /\ ~reuse[p] /\ pc[p] # "releasing" /\ HasBuild(p) => exe = expected[p])

IInv ==
  /\ TypeOK /\ OneUser /\ FingerprintMeansBuild /\ Knows /\ CompilerRight /\ Invalidated
  /\ OwnBuild /\ SteadyRead

-----------------------------------------------------------------------------

LEMMA BuildOf ==
  ASSUME NEW o \in Option, NEW c \in Content
  PROVE  [cfg |-> o.cfg, src |-> c] \in Build
BY DEF Build

LEMMA BuildIs ==
  ASSUME NEW b \in Build
  PROVE  b = [cfg |-> b.cfg, src |-> b.src]
BY DEF Build

LEMMA InitIInv == Init => IInv
<1> SUFFICES ASSUME Init PROVE IInv
  OBVIOUS
<1>1. TypeOK
  <2>1. asked \subseteq Option
    BY DEF Init, Reusing
  <2>2. pc \in [Proc -> {"idle"}] /\ opt \in [Proc -> {NoOption}] /\ expected \in [Proc -> {None}]
        /\ compiler \in [Proc -> {None}] /\ ran \in [Proc -> {None}]
    BY DEF Init
  <2>3. reuse \in [Proc -> BOOLEAN] /\ passed \in [Proc -> BOOLEAN] /\ steady \in [Proc -> BOOLEAN]
    BY DEF Init
  <2>4. starts \in 0..MaxStarts /\ edits \in 0..MaxEdits /\ faults \in 0..MaxFaults
    BY DEF Init
  <2> QED
    BY <2>1, <2>2, <2>3, <2>4 DEF Init, TypeOK
<1>2. OneUser /\ FingerprintMeansBuild /\ Knows /\ CompilerRight /\ Invalidated /\ OwnBuild
  BY DEF Init, OneUser, FingerprintMeansBuild, Knows, CompilerRight, Invalidated, Compiling,
         OwnBuild,
     HasBuild
<1>3. SteadyRead
  BY DEF Init, SteadyRead
<1> QED
  BY <1>1, <1>2, <1>3 DEF IInv

\* A reuse is decided for a build with the options asked for
LEMMA ReuseFindsBuild ==
  ASSUME IInv, NEW p \in Proc, DecideReuse(p)
  PROVE  /\ fingerprint = expected[p]
         /\ ~damaged => exe \in Build /\ exe.cfg = opt[p].cfg
<1>1. fingerprint = expected[p]
  BY DEF DecideReuse, Reusable
<1>2. expected[p] \in Build /\ expected[p].cfg = opt[p].cfg
  BY DEF DecideReuse, IInv, Knows
<1>3. \A q \in Proc : pc[q] # "removing"
  BY DEF DecideReuse, IInv, OneUser
<1> QED
  BY <1>1, <1>2, <1>3 DEF IInv, FingerprintMeansBuild

LEMMA StepKeepsIInv ==
  ASSUME IInv, [Next]_vars
  PROVE  IInv'
<1> USE DEF IInv, Goto, disk, counters
<1>1. ASSUME NEW p \in Proc, Start(p)
      PROVE  IInv'
  <2>1. TypeOK'
    BY <1>1 DEF Start, TypeOK
  <2>2. Knows'
    BY <1>1 DEF Start, TypeOK, Knows
  <2>3. OneUser' /\ FingerprintMeansBuild' /\ CompilerRight' /\ Invalidated' /\ OwnBuild' /\
     SteadyRead'
    BY <1>1 DEF Start, OneUser, FingerprintMeansBuild, CompilerRight, Invalidated, Compiling,
       OwnBuild, HasBuild, SteadyRead
  <2> QED
    BY <2>1, <2>2, <2>3
<1>2. ASSUME NEW p \in Proc, BazelBuild(p)
      PROVE  IInv'
  <2>1. TypeOK'
    BY <1>2 DEF BazelBuild, TypeOK
  <2>2. OneUser' /\ FingerprintMeansBuild' /\ Knows' /\ CompilerRight' /\ Invalidated' /\ OwnBuild'
     /\ SteadyRead'
    BY <1>2 DEF BazelBuild, OneUser, FingerprintMeansBuild, Knows, CompilerRight, Invalidated,
       Compiling, OwnBuild, HasBuild, SteadyRead
  <2> QED
    BY <2>1, <2>2
<1>3. ASSUME NEW p \in Proc, AcquireCompileLock(p)
      PROVE  IInv'
  <2>1. TypeOK'
    BY <1>3 DEF AcquireCompileLock, TypeOK
  <2>2. OneUser'
    BY <1>3 DEF AcquireCompileLock, OneUser, LockFree
  <2>3. FingerprintMeansBuild' /\ Knows' /\ CompilerRight' /\ Invalidated' /\ OwnBuild' /\
     SteadyRead'
    BY <1>3 DEF AcquireCompileLock, FingerprintMeansBuild, Knows, CompilerRight, Invalidated,
       Compiling, OwnBuild, HasBuild, SteadyRead
  <2> QED
    BY <2>1, <2>2, <2>3
<1>4. ASSUME NEW p \in Proc, CancelLaunch(p)
      PROVE  IInv'
  <2>1. TypeOK'
    BY <1>4 DEF CancelLaunch, TypeOK
  <2>2. OneUser'
    BY <1>4 DEF CancelLaunch, TypeOK, OneUser
  <2>3. FingerprintMeansBuild' /\ Knows' /\ CompilerRight' /\ Invalidated' /\ OwnBuild' /\
     SteadyRead'
    BY <1>4 DEF CancelLaunch, FingerprintMeansBuild, Knows, CompilerRight, Invalidated,
           Compiling,
       OwnBuild, HasBuild, SteadyRead
  <2> QED
    BY <2>1, <2>2, <2>3
<1>5. ASSUME NEW p \in Proc, RemoveJobDir(p)
      PROVE  IInv'
  <2>1. TypeOK'
    BY <1>5 DEF RemoveJobDir, TypeOK
  <2>2. OneUser'
    BY <1>5 DEF RemoveJobDir, TypeOK, OneUser
  <2>3. FingerprintMeansBuild'
    BY <1>5 DEF RemoveJobDir, TypeOK, FingerprintMeansBuild
  <2>4. Knows'
    BY <1>5 DEF RemoveJobDir, TypeOK, Knows
  <2>5. CompilerRight'
    BY <1>5 DEF RemoveJobDir, TypeOK, CompilerRight
  <2>6. Invalidated'
    BY <1>5 DEF RemoveJobDir, TypeOK, Invalidated, Compiling, OneUser
  <2>7. OwnBuild'
    BY <1>5 DEF RemoveJobDir, TypeOK, OwnBuild, HasBuild, OneUser
  <2>8. SteadyRead'
    BY <1>5 DEF RemoveJobDir, TypeOK, SteadyRead, HasBuild, OneUser
  <2> QED
    BY <2>1, <2>2, <2>3, <2>4, <2>5, <2>6, <2>7, <2>8
<1>6. ASSUME NEW p \in Proc, ComputeFingerprint(p)
      PROVE  IInv'
  <2>1. opt[p] \in Option
    BY <1>6 DEF ComputeFingerprint, Knows
  <2>2. [cfg |-> opt[p].cfg, src |-> digest] \in Build
    BY <2>1, BuildOf DEF TypeOK
  <2>3. TypeOK'
    BY <1>6, <2>2 DEF ComputeFingerprint, TypeOK
  <2>4. Knows'
    BY <1>6, <2>1, <2>2 DEF ComputeFingerprint, TypeOK, Knows
  <2>5. SteadyRead'
    BY <1>6 DEF ComputeFingerprint, TypeOK, SteadyRead, HasBuild
  <2>6. OneUser' /\ FingerprintMeansBuild' /\ CompilerRight' /\ Invalidated' /\ OwnBuild'
    BY <1>6 DEF ComputeFingerprint, OneUser, FingerprintMeansBuild, CompilerRight, Invalidated,
       Compiling, OwnBuild, HasBuild
  <2> QED
    BY <2>3, <2>4, <2>5, <2>6
<1>7. ASSUME NEW p \in Proc, DecideReuse(p)
      PROVE  IInv'
  <2>1. fingerprint = expected[p]
    BY <1>7, ReuseFindsBuild
  <2>2. TypeOK'
    BY <1>7 DEF DecideReuse, TypeOK
  <2>3. Knows'
    BY <1>7 DEF DecideReuse, TypeOK, Knows
  <2>4. Invalidated'
    BY <1>7, <2>1 DEF DecideReuse, TypeOK, Invalidated, Compiling
  <2>5. OneUser' /\ FingerprintMeansBuild' /\ CompilerRight' /\ OwnBuild' /\ SteadyRead'
    BY <1>7 DEF DecideReuse, OneUser, FingerprintMeansBuild, CompilerRight, OwnBuild, HasBuild,
       SteadyRead
  <2> QED
    BY <2>2, <2>3, <2>4, <2>5
<1>8. ASSUME NEW p \in Proc, DecideCompile(p)
      PROVE  IInv'
  <2>1. TypeOK'
    BY <1>8 DEF DecideCompile, TypeOK, Invalidate
  <2>2. FingerprintMeansBuild'
    BY <1>8 DEF DecideCompile, FingerprintMeansBuild, Invalidate
  <2>3. Invalidated'
    BY <1>8 DEF DecideCompile, Invalidated, OneUser, Knows, Invalidate
  <2>4. OneUser' /\ Knows' /\ CompilerRight' /\ OwnBuild' /\ SteadyRead'
    BY <1>8 DEF DecideCompile, OneUser, Knows, CompilerRight, OwnBuild, HasBuild, SteadyRead
  <2> QED
    BY <2>1, <2>2, <2>3, <2>4
<1>9. ASSUME NEW p \in Proc, LaunchFailed(p)
      PROVE  IInv'
  <2>1. TypeOK'
    BY <1>9 DEF LaunchFailed, TypeOK
  <2>2. OneUser'
    BY <1>9 DEF LaunchFailed, TypeOK, OneUser
  <2>3. FingerprintMeansBuild' /\ Knows' /\ CompilerRight' /\ Invalidated' /\ OwnBuild' /\
     SteadyRead'
    BY <1>9 DEF LaunchFailed, FingerprintMeansBuild, Knows, CompilerRight, Invalidated,
           Compiling,
       OwnBuild, HasBuild, SteadyRead
  <2> QED
    BY <2>1, <2>2, <2>3
<1>10. ASSUME NEW p \in Proc, StartCompile(p)
      PROVE  IInv'
  <2>1. TypeOK'
    BY <1>10 DEF StartCompile, TypeOK
  <2>2. OneUser'
    BY <1>10 DEF StartCompile, TypeOK, OneUser
  <2>3. FingerprintMeansBuild'
    BY <1>10 DEF StartCompile, TypeOK, FingerprintMeansBuild, Invalidated, Compiling
  <2>4. Knows'
    BY <1>10 DEF StartCompile, TypeOK, Knows
  <2>5. CompilerRight'
    BY <1>10 DEF StartCompile, TypeOK, CompilerRight
  <2>6. Invalidated'
    BY <1>10 DEF StartCompile, TypeOK, Invalidated, Compiling
  <2>7. OwnBuild'
    BY <1>10 DEF StartCompile, TypeOK, OwnBuild, HasBuild, OneUser, FingerprintMeansBuild,
       Invalidated, Knows
  <2>8. SteadyRead'
    BY <1>10 DEF StartCompile, TypeOK, SteadyRead, HasBuild, OneUser
  <2> QED
    BY <2>1, <2>2, <2>3, <2>4, <2>5, <2>6, <2>7, <2>8
<1>11. ASSUME NEW p \in Proc, CompilerReads(p)
      PROVE  IInv'
  <2>1. opt[p] \in Option
    BY <1>11 DEF CompilerReads, Knows
  <2>2. [cfg |-> opt[p].cfg, src |-> sources] \in Build
    BY <2>1, BuildOf DEF TypeOK
  <2>3. TypeOK'
    BY <1>11, <2>2 DEF CompilerReads, TypeOK
  <2>4. Knows'
    BY <1>11, <2>1 DEF CompilerReads, Knows
  <2>5. CompilerRight'
    BY <1>11, <2>2 DEF CompilerReads, CompilerRight
  <2>6. SteadyRead'
    BY <1>11, <2>2, BuildIs DEF CompilerReads, SteadyRead, HasBuild, Knows
  <2>7. OneUser' /\ FingerprintMeansBuild' /\ Invalidated' /\ OwnBuild'
    BY <1>11 DEF CompilerReads, OneUser, FingerprintMeansBuild, Invalidated, Compiling,
           OwnBuild,
       HasBuild
  <2> QED
    BY <2>3, <2>4, <2>5, <2>6, <2>7
<1>12. ASSUME NEW p \in Proc, CompilerExits(p)
      PROVE  IInv'
  <2>1. compiler[p] # Running => compiler[p] \in Build
    BY <1>12 DEF CompilerExits, CompilerRight
  <2>2. TypeOK'
    BY <1>12, <2>1 DEF CompilerExits, TypeOK
  <2>3. OneUser'
    BY <1>12 DEF CompilerExits, TypeOK, OneUser
  <2>4. FingerprintMeansBuild'
    BY <1>12 DEF CompilerExits, FingerprintMeansBuild, Invalidated, Compiling, CompilerRight
  <2>5. Knows'
    BY <1>12 DEF CompilerExits, TypeOK, Knows
  <2>6. CompilerRight'
    BY <1>12 DEF CompilerExits, TypeOK, CompilerRight
  <2>7. Invalidated'
    BY <1>12 DEF CompilerExits, TypeOK, Invalidated, Compiling, Knows
  <2>8. OwnBuild'
    BY <1>12 DEF CompilerExits, TypeOK, OwnBuild, HasBuild, OneUser, CompilerRight
  <2>9. SteadyRead'
    BY <1>12 DEF CompilerExits, TypeOK, SteadyRead, HasBuild, OneUser, CompilerRight
  <2> QED
    BY <2>2, <2>3, <2>4, <2>5, <2>6, <2>7, <2>8, <2>9
<1>13. ASSUME NEW p \in Proc, PostRun(p)
      PROVE  IInv'
  <2>1. TypeOK'
    BY <1>13 DEF PostRun, TypeOK
  <2>2. Knows'
    BY <1>13 DEF PostRun, Knows, MayRecord
  <2>3. Invalidated'
    BY <1>13 DEF PostRun, Invalidated, Compiling, MayRecord
  <2>4. OwnBuild'
    BY <1>13 DEF PostRun, TypeOK, OwnBuild, HasBuild, MayRecord
  <2>5. SteadyRead'
    BY <1>13 DEF PostRun, TypeOK, SteadyRead, HasBuild, MayRecord
  <2>6. OneUser' /\ FingerprintMeansBuild' /\ CompilerRight'
    BY <1>13 DEF PostRun, OneUser, FingerprintMeansBuild, CompilerRight
  <2> QED
    BY <2>1, <2>2, <2>3, <2>4, <2>5, <2>6
<1>14. ASSUME NEW p \in Proc, WriteFingerprint(p)
      PROVE  IInv'
  <2>1. fingerprint' \in Build \cup {None} /\ exact' \in BOOLEAN
    BY <1>14 DEF WriteFingerprint, TypeOK
  <2>2. passed' \in [Proc -> BOOLEAN]
    BY <1>14 DEF WriteFingerprint, TypeOK
  <2>3. faults' \in 0..MaxFaults
    BY <1>14 DEF WriteFingerprint, TypeOK
  <2>4. TypeOK'
    BY <1>14, <2>1, <2>2, <2>3 DEF WriteFingerprint, TypeOK
  <2>5. FingerprintMeansBuild'
    BY <1>14 DEF WriteFingerprint, FingerprintMeansBuild, OwnBuild, HasBuild, Knows, SteadyRead
  <2>6. Invalidated'
    BY <1>14 DEF WriteFingerprint, TypeOK, Invalidated, Compiling, OneUser
  <2>7. OwnBuild'
    BY <1>14 DEF WriteFingerprint, TypeOK, OwnBuild, HasBuild
  <2>8. SteadyRead'
    BY <1>14 DEF WriteFingerprint, TypeOK, SteadyRead, HasBuild
  <2>9. OneUser' /\ Knows' /\ CompilerRight'
    BY <1>14 DEF WriteFingerprint, OneUser, Knows, CompilerRight
  <2> QED
    BY <2>2, <2>3, <2>4, <2>5, <2>6, <2>7, <2>8, <2>9
<1>15. ASSUME NEW p \in Proc, ReleaseCompileLock(p)
      PROVE  IInv'
  <2>1. TypeOK'
    BY <1>15 DEF ReleaseCompileLock, TypeOK
  <2>2. OneUser'
    BY <1>15 DEF ReleaseCompileLock, TypeOK, OneUser
  <2>3. FingerprintMeansBuild' /\ Knows' /\ CompilerRight' /\ Invalidated' /\ OwnBuild' /\
     SteadyRead'
    BY <1>15 DEF ReleaseCompileLock, FingerprintMeansBuild, Knows, CompilerRight, Invalidated,
       Compiling, OwnBuild, HasBuild, SteadyRead
  <2> QED
    BY <2>1, <2>2, <2>3
<1>16. ASSUME NEW p \in Proc, Incomplete(p)
      PROVE  IInv'
  <2>1. TypeOK'
    BY <1>16 DEF Incomplete, TypeOK
  <2>2. OneUser' /\ FingerprintMeansBuild' /\ Knows' /\ CompilerRight' /\ Invalidated' /\ OwnBuild'
     /\ SteadyRead'
    BY <1>16 DEF Incomplete, OneUser, FingerprintMeansBuild, Knows, CompilerRight, Invalidated,
       Compiling, OwnBuild, HasBuild, SteadyRead
  <2> QED
    BY <2>1, <2>2
<1>17. ASSUME NEW p \in Proc, SimulationsEnd(p)
      PROVE  IInv'
  <2>1. TypeOK'
    BY <1>17 DEF SimulationsEnd, TypeOK
  <2>2. OneUser' /\ FingerprintMeansBuild' /\ Knows' /\ CompilerRight' /\ Invalidated' /\ OwnBuild'
     /\ SteadyRead'
    BY <1>17 DEF SimulationsEnd, OneUser, FingerprintMeansBuild, Knows, CompilerRight,
           Invalidated,
       Compiling, OwnBuild, HasBuild, SteadyRead
  <2> QED
    BY <2>1, <2>2
<1>18. ASSUME NEW p \in Proc, Die(p)
      PROVE  IInv'
  <2>1. TypeOK'
    BY <1>18 DEF Die, TypeOK
  <2>2. OneUser'
    BY <1>18 DEF Die, TypeOK, OneUser
  <2>3. FingerprintMeansBuild'
    BY <1>18 DEF Die, TypeOK, FingerprintMeansBuild
  <2>4. CompilerRight'
    BY <1>18 DEF Die, TypeOK, CompilerRight
  <2>5. OwnBuild'
    BY <1>18 DEF Die, TypeOK, OwnBuild, HasBuild
  <2>6. SteadyRead'
    BY <1>18 DEF Die, TypeOK, SteadyRead, HasBuild
  <2>7. Knows' /\ Invalidated'
    BY <1>18 DEF Die, Knows, Invalidated, Compiling
  <2> QED
    BY <2>1, <2>2, <2>3, <2>4, <2>5, <2>6, <2>7
<1>19. CASE Edit
  <2>1. TypeOK'
    BY <1>19 DEF Edit, TypeOK
  <2>2. OneUser' /\ FingerprintMeansBuild' /\ Knows' /\ CompilerRight' /\ Invalidated' /\ OwnBuild'
     /\ SteadyRead'
    BY <1>19 DEF Edit, OneUser, FingerprintMeansBuild, Knows, CompilerRight, Invalidated,
           Compiling,
       OwnBuild, HasBuild, SteadyRead
  <2> QED
    BY <2>1, <2>2
<1>20. CASE UNCHANGED vars
  BY <1>20 DEF vars, TypeOK, OneUser, FingerprintMeansBuild, Knows, CompilerRight, Invalidated,
     Compiling, OwnBuild, HasBuild, SteadyRead
<1> QED
  BY <1>1, <1>2, <1>3, <1>4, <1>5, <1>6, <1>7, <1>8, <1>9, <1>10, <1>11, <1>12, <1>13, <1>14,
     <1>15,
     <1>16, <1>17, <1>18, <1>19, <1>20 DEF Next, Step, Compiler

\* In every behaviour, the directory has one user from the removal of its contents to the recorded
\* fingerprint, and the fingerprint in it stands for a finished build of those options
THEOREM DirectoryCorrect == Spec => []CompileDirInv
<1>1. Init => IInv
  BY InitIInv
<1>2. IInv /\ [Next]_vars => IInv'
  BY StepKeepsIInv
<1>3. IInv => CompileDirInv
  BY DEF IInv, CompileDirInv
<1> QED
  BY <1>1, <1>2, <1>3, PTL DEF Spec

\* In every behaviour, a process that goes on to its simulations has a finished build of its options
THEOREM OwnBuildSimulated == Spec => []PassedHasOwnBuild
<1>1. Init => IInv
  BY InitIInv
<1>2. IInv /\ [Next]_vars => IInv'
  BY StepKeepsIInv
<1>3. IInv => PassedHasOwnBuild
  BY DEF IInv, OwnBuild, HasBuild, PassedHasOwnBuild
<1> QED
  BY <1>1, <1>2, <1>3, PTL DEF Spec

-----------------------------------------------------------------------------
(* Processes that may reuse the build of one another: no edits, no faults. *)

Quiet == asked # Option /\ edits = 0 /\ faults = 0

\* They all want one build
OneWish ==
  /\ digest = sources /\ ~damaged
  /\ \A o1, o2 \in asked : o1.cfg = o2.cfg
  /\ \A o \in asked : o \in Option /\ o.mode # "compile" /\ ~o.recompile
  /\ \A p \in Proc : pc[p] # "idle" => opt[p] \in asked

\* Nobody removes it or computes a fingerprint of other sources
NoneInTheWay ==
  \A p \in Proc :
    /\ pc[p] \notin {"recompile", "removing", "incomplete"}
    /\ (pc[p] \in {"fingerprinted", "ready", "running", "ended", "recording"}
          => steady[p] /\ expected[p].src = sources)

\* Once recorded it is the build they want, and it is what they simulate with
RecordedIsWanted ==
  /\ (fingerprint # None =>
        exe = fingerprint /\ fingerprint.src = sources /\ \A o \in asked : o.cfg = fingerprint.cfg)
  /\ \A p \in Proc :
       /\ (pc[p] = "simulating" \/ (pc[p] = "releasing" /\ passed[p]) => fingerprint # None)
       /\ (pc[p] = "simulating" => ran[p] = exe)

QInv == Quiet => OneWish /\ NoneInTheWay /\ RecordedIsWanted

LEMMA BrokenIsNoBuild == Broken \notin Build
BY DEF Build, Broken

LEMMA InitQInv == Init => QInv
BY DEF Init, Reusing, QInv, Quiet, OneWish, NoneInTheWay, RecordedIsWanted

\* Where the wanted build is recorded nobody decides to compile
LEMMA NobodyCompiles ==
  ASSUME IInv, QInv, Quiet, NEW p \in Proc, DecideCompile(p)
  PROVE  fingerprint = None
<1>1. opt[p] \in asked /\ opt[p].mode = "auto"
  <2>1. opt[p] \in asked /\ opt[p].mode # "compile" /\ opt[p].mode # "no_compile" /\ opt[p] \in Option
    BY DEF DecideCompile, QInv, OneWish
  <2> QED
    BY <2>1 DEF Mode
<1>2. FALSE \in Reusable(p)
  BY <1>1 DEF DecideCompile
<1> SUFFICES ASSUME fingerprint # None PROVE FALSE
  OBVIOUS
<1>3. fingerprint \in Build /\ exe = fingerprint /\ fingerprint.src = sources
      /\ fingerprint.cfg = opt[p].cfg
  BY <1>1 DEF IInv, TypeOK, QInv, RecordedIsWanted
<1>4. expected[p] \in Build /\ expected[p].cfg = opt[p].cfg /\ expected[p].src = sources
  BY DEF DecideCompile, IInv, Knows, QInv, NoneInTheWay
<1>5. fingerprint = expected[p]
  BY <1>3, <1>4, BuildIs
<1>6. exe # None /\ exe # Broken
  BY <1>3, BrokenIsNoBuild
<1> QED
  BY <1>2, <1>5, <1>6 DEF Reusable, ArtifactsPresent

LEMMA StepKeepsQInv ==
  ASSUME IInv, QInv, [Next]_vars
  PROVE  QInv'
<1> SUFFICES ASSUME Quiet' PROVE OneWish' /\ NoneInTheWay' /\ RecordedIsWanted'
  BY DEF QInv
<1> USE DEF IInv, Goto, disk, counters
<1>1. ASSUME NEW p \in Proc, Start(p)
      PROVE  OneWish' /\ NoneInTheWay' /\ RecordedIsWanted'
  <2>1. Quiet /\ OneWish /\ NoneInTheWay /\ RecordedIsWanted
    BY <1>1 DEF Start, Quiet, QInv
  <2>2. OneWish'
    BY <1>1, <2>1 DEF Start, TypeOK, OneWish
  <2>3. NoneInTheWay'
    BY <1>1, <2>1 DEF Start, NoneInTheWay
  <2>4. RecordedIsWanted'
    BY <1>1, <2>1 DEF Start, RecordedIsWanted
  <2> QED
    BY <2>2, <2>3, <2>4
<1>2. ASSUME NEW p \in Proc, BazelBuild(p)
      PROVE  OneWish' /\ NoneInTheWay' /\ RecordedIsWanted'
  <2>1. Quiet /\ OneWish /\ NoneInTheWay /\ RecordedIsWanted
    BY <1>2 DEF BazelBuild, Quiet, QInv
  <2>2. OneWish'
    BY <1>2, <2>1 DEF BazelBuild, OneWish
  <2>3. NoneInTheWay'
    BY <1>2, <2>1 DEF BazelBuild, NoneInTheWay
  <2>4. RecordedIsWanted'
    BY <1>2, <2>1 DEF BazelBuild, RecordedIsWanted
  <2> QED
    BY <2>2, <2>3, <2>4
<1>3. ASSUME NEW p \in Proc, AcquireCompileLock(p)
      PROVE  OneWish' /\ NoneInTheWay' /\ RecordedIsWanted'
  <2>1. Quiet /\ OneWish /\ NoneInTheWay /\ RecordedIsWanted
    BY <1>3 DEF AcquireCompileLock, Quiet, QInv
  <2>2. OneWish'
    BY <1>3, <2>1 DEF AcquireCompileLock, OneWish
  <2>3. NoneInTheWay'
    BY <1>3, <2>1 DEF AcquireCompileLock, NoneInTheWay, OneWish
  <2>4. RecordedIsWanted'
    BY <1>3, <2>1 DEF AcquireCompileLock, RecordedIsWanted
  <2> QED
    BY <2>2, <2>3, <2>4
<1>4. ASSUME NEW p \in Proc, CancelLaunch(p)
      PROVE  OneWish' /\ NoneInTheWay' /\ RecordedIsWanted'
  <2>1. Quiet /\ OneWish /\ NoneInTheWay /\ RecordedIsWanted
    BY <1>4 DEF CancelLaunch, Quiet, QInv
  <2>2. OneWish'
    BY <1>4, <2>1 DEF CancelLaunch, OneWish
  <2>3. NoneInTheWay'
    BY <1>4, <2>1 DEF CancelLaunch, NoneInTheWay
  <2>4. RecordedIsWanted'
    BY <1>4, <2>1 DEF CancelLaunch, RecordedIsWanted
  <2> QED
    BY <2>2, <2>3, <2>4
<1>5. ASSUME NEW p \in Proc, RemoveJobDir(p)
      PROVE  OneWish' /\ NoneInTheWay' /\ RecordedIsWanted'
  <2>1. Quiet /\ OneWish /\ NoneInTheWay /\ RecordedIsWanted
    BY <1>5 DEF RemoveJobDir, Quiet, QInv
  <2> QED
    BY <1>5, <2>1 DEF RemoveJobDir, NoneInTheWay
<1>6. ASSUME NEW p \in Proc, ComputeFingerprint(p)
      PROVE  OneWish' /\ NoneInTheWay' /\ RecordedIsWanted'
  <2>1. Quiet /\ OneWish /\ NoneInTheWay /\ RecordedIsWanted
    BY <1>6 DEF ComputeFingerprint, Quiet, QInv
  <2>2. OneWish'
    BY <1>6, <2>1 DEF ComputeFingerprint, OneWish
  <2>3. NoneInTheWay'
    BY <1>6, <2>1 DEF ComputeFingerprint, TypeOK, NoneInTheWay, OneWish
  <2>4. RecordedIsWanted'
    BY <1>6, <2>1 DEF ComputeFingerprint, RecordedIsWanted
  <2> QED
    BY <2>2, <2>3, <2>4
<1>7. ASSUME NEW p \in Proc, DecideReuse(p)
      PROVE  OneWish' /\ NoneInTheWay' /\ RecordedIsWanted'
  <2>1. Quiet /\ OneWish /\ NoneInTheWay /\ RecordedIsWanted
    BY <1>7 DEF DecideReuse, Quiet, QInv
  <2>2. OneWish'
    BY <1>7, <2>1 DEF DecideReuse, OneWish
  <2>3. NoneInTheWay'
    BY <1>7, <2>1 DEF DecideReuse, NoneInTheWay
  <2>4. RecordedIsWanted'
    BY <1>7, <2>1 DEF DecideReuse, RecordedIsWanted
  <2> QED
    BY <2>2, <2>3, <2>4
<1>8. ASSUME NEW p \in Proc, DecideCompile(p)
      PROVE  OneWish' /\ NoneInTheWay' /\ RecordedIsWanted'
  <2>1. Quiet /\ OneWish /\ NoneInTheWay /\ RecordedIsWanted
    BY <1>8 DEF DecideCompile, Quiet, QInv
  <2>2. fingerprint = None
    BY <1>8, <2>1, NobodyCompiles
  <2>3. OneWish'
    BY <1>8, <2>1 DEF DecideCompile, OneWish
  <2>4. NoneInTheWay'
    BY <1>8, <2>1 DEF DecideCompile, NoneInTheWay
  <2>5. RecordedIsWanted'
    BY <1>8, <2>1, <2>2 DEF DecideCompile, RecordedIsWanted, Invalidate
  <2> QED
    BY <2>3, <2>4, <2>5
<1>9. ASSUME NEW p \in Proc, LaunchFailed(p)
      PROVE  OneWish' /\ NoneInTheWay' /\ RecordedIsWanted'
  <2>1. Quiet /\ OneWish /\ NoneInTheWay /\ RecordedIsWanted
    BY <1>9 DEF LaunchFailed, Quiet, QInv
  <2>2. OneWish'
    BY <1>9, <2>1 DEF LaunchFailed, OneWish
  <2>3. NoneInTheWay'
    BY <1>9, <2>1 DEF LaunchFailed, NoneInTheWay
  <2>4. RecordedIsWanted'
    BY <1>9, <2>1 DEF LaunchFailed, RecordedIsWanted
  <2> QED
    BY <2>2, <2>3, <2>4
<1>10. ASSUME NEW p \in Proc, StartCompile(p)
      PROVE  OneWish' /\ NoneInTheWay' /\ RecordedIsWanted'
  <2>1. Quiet /\ OneWish /\ NoneInTheWay /\ RecordedIsWanted
    BY <1>10 DEF StartCompile, Quiet, QInv
  <2>2. ~reuse[p] => fingerprint = None
    BY <1>10 DEF StartCompile, Invalidated, Compiling
  <2>3. OneWish'
    BY <1>10, <2>1 DEF StartCompile, TypeOK, OneWish
  <2>4. NoneInTheWay'
    BY <1>10, <2>1 DEF StartCompile, TypeOK, NoneInTheWay
  <2>5. RecordedIsWanted'
    BY <1>10, <2>1, <2>2 DEF StartCompile, TypeOK, RecordedIsWanted
  <2> QED
    BY <2>3, <2>4, <2>5
<1>11. ASSUME NEW p \in Proc, CompilerReads(p)
      PROVE  OneWish' /\ NoneInTheWay' /\ RecordedIsWanted'
  <2>1. Quiet /\ OneWish /\ NoneInTheWay /\ RecordedIsWanted
    BY <1>11 DEF CompilerReads, Quiet, QInv
  <2>2. OneWish'
    BY <1>11, <2>1 DEF CompilerReads, OneWish
  <2>3. NoneInTheWay'
    BY <1>11, <2>1 DEF CompilerReads, NoneInTheWay
  <2>4. RecordedIsWanted'
    BY <1>11, <2>1 DEF CompilerReads, RecordedIsWanted
  <2> QED
    BY <2>2, <2>3, <2>4
<1>12. ASSUME NEW p \in Proc, CompilerExits(p)
      PROVE  OneWish' /\ NoneInTheWay' /\ RecordedIsWanted'
  <2>1. Quiet /\ OneWish /\ NoneInTheWay /\ RecordedIsWanted
    BY <1>12 DEF CompilerExits, Quiet, QInv
  <2>2. pc[p] = "running" /\ fingerprint = None
    BY <1>12, <2>1 DEF CompilerExits, CompilerRight, OneWish, NoneInTheWay, Invalidated,
           Compiling
  <2>3. OneWish'
    BY <1>12, <2>1 DEF CompilerExits, TypeOK, OneWish
  <2>4. NoneInTheWay'
    BY <1>12, <2>1 DEF CompilerExits, TypeOK, NoneInTheWay
  <2>5. RecordedIsWanted'
    BY <1>12, <2>1, <2>2 DEF CompilerExits, TypeOK, RecordedIsWanted
  <2> QED
    BY <2>3, <2>4, <2>5
<1>13. ASSUME NEW p \in Proc, PostRun(p)
      PROVE  OneWish' /\ NoneInTheWay' /\ RecordedIsWanted'
  <2>1. Quiet /\ OneWish /\ NoneInTheWay /\ RecordedIsWanted
    BY <1>13 DEF PostRun, Quiet, QInv
  <2>2. reuse[p] => fingerprint # None
    BY <1>13 DEF PostRun, Invalidated, Knows
  <2>3. OneWish'
    BY <1>13, <2>1 DEF PostRun, OneWish
  <2>4. NoneInTheWay'
    BY <1>13, <2>1 DEF PostRun, NoneInTheWay
  <2>5. RecordedIsWanted'
    BY <1>13, <2>1, <2>2 DEF PostRun, TypeOK, RecordedIsWanted, MayRecord
  <2> QED
    BY <2>3, <2>4, <2>5
<1>14. ASSUME NEW p \in Proc, WriteFingerprint(p)
      PROVE  OneWish' /\ NoneInTheWay' /\ RecordedIsWanted'
  <2>1. Quiet /\ OneWish /\ NoneInTheWay /\ RecordedIsWanted
    BY <1>14 DEF WriteFingerprint, Quiet, QInv, TypeOK
  <2>2. expected[p] \in Build /\ expected[p].cfg = opt[p].cfg /\ expected[p].src = sources
    BY <1>14, <2>1 DEF WriteFingerprint, Knows, NoneInTheWay
  <2>3. exe = expected[p] /\ fingerprint = None
    BY <1>14, <2>1 DEF WriteFingerprint, SteadyRead, HasBuild, Knows, NoneInTheWay, OneWish,
           Invalidated,
       Compiling
  <2>4. opt[p] \in asked
    BY <1>14, <2>1 DEF WriteFingerprint, OneWish
  <2>5. faults' = faults
    BY <1>14, <2>1 DEF WriteFingerprint, Quiet
  <2>6. fingerprint' = expected[p] \/ passed'[p] = FALSE
    BY <1>14, <2>5 DEF WriteFingerprint, TypeOK
  <2>7. OneWish'
    BY <1>14, <2>1 DEF WriteFingerprint, OneWish
  <2>8. NoneInTheWay'
    BY <1>14, <2>1 DEF WriteFingerprint, NoneInTheWay
  <2>9. RecordedIsWanted'
    BY <1>14, <2>1, <2>2, <2>3, <2>4, <2>6 DEF WriteFingerprint, TypeOK, RecordedIsWanted,
       OneWish
  <2> QED
    BY <2>7, <2>8, <2>9
<1>15. ASSUME NEW p \in Proc, ReleaseCompileLock(p)
      PROVE  OneWish' /\ NoneInTheWay' /\ RecordedIsWanted'
  <2>1. Quiet /\ OneWish /\ NoneInTheWay /\ RecordedIsWanted
    BY <1>15 DEF ReleaseCompileLock, Quiet, QInv
  <2>2. OneWish'
    BY <1>15, <2>1 DEF ReleaseCompileLock, OneWish
  <2>3. NoneInTheWay'
    BY <1>15, <2>1 DEF ReleaseCompileLock, NoneInTheWay
  <2>4. RecordedIsWanted'
    BY <1>15, <2>1 DEF ReleaseCompileLock, TypeOK, RecordedIsWanted
  <2> QED
    BY <2>2, <2>3, <2>4
<1>16. ASSUME NEW p \in Proc, Incomplete(p)
      PROVE  OneWish' /\ NoneInTheWay' /\ RecordedIsWanted'
  <2>1. Quiet /\ OneWish /\ NoneInTheWay /\ RecordedIsWanted
    BY <1>16 DEF Incomplete, Quiet, QInv, TypeOK
  <2> QED
    BY <1>16, <2>1 DEF Incomplete, Quiet
<1>17. ASSUME NEW p \in Proc, SimulationsEnd(p)
      PROVE  OneWish' /\ NoneInTheWay' /\ RecordedIsWanted'
  <2>1. Quiet /\ OneWish /\ NoneInTheWay /\ RecordedIsWanted
    BY <1>17 DEF SimulationsEnd, Quiet, QInv
  <2>2. OneWish'
    BY <1>17, <2>1 DEF SimulationsEnd, OneWish
  <2>3. NoneInTheWay'
    BY <1>17, <2>1 DEF SimulationsEnd, NoneInTheWay
  <2>4. RecordedIsWanted'
    BY <1>17, <2>1 DEF SimulationsEnd, RecordedIsWanted
  <2> QED
    BY <2>2, <2>3, <2>4
<1>18. ASSUME NEW p \in Proc, Die(p)
      PROVE  OneWish' /\ NoneInTheWay' /\ RecordedIsWanted'
  <2>1. Quiet /\ OneWish /\ NoneInTheWay /\ RecordedIsWanted
    BY <1>18 DEF Die, Quiet, QInv, TypeOK
  <2> QED
    BY <1>18, <2>1 DEF Die, Quiet, NoneInTheWay
<1>19. CASE Edit
  BY <1>19 DEF Edit, Quiet, TypeOK
<1>20. CASE UNCHANGED vars
  BY <1>20 DEF vars, QInv, Quiet, OneWish, NoneInTheWay, RecordedIsWanted
<1> QED
  BY <1>1, <1>2, <1>3, <1>4, <1>5, <1>6, <1>7, <1>8, <1>9, <1>10, <1>11, <1>12, <1>13, <1>14,
     <1>15,
     <1>16, <1>17, <1>18, <1>19, <1>20 DEF Next, Step, Compiler

\* In every behaviour, processes that may all reuse the build do not compile under the simulations of
\* one another
THEOREM NobodyCompilesUnderSimulations == Spec => []SimulationsKeepBuild
<1>1. Init => IInv /\ QInv
  BY InitIInv, InitQInv
<1>2. (IInv /\ QInv) /\ [Next]_vars => (IInv /\ QInv)'
  BY StepKeepsIInv, StepKeepsQInv
<1>3. QInv => SimulationsKeepBuild
  BY DEF QInv, Quiet, RecordedIsWanted, SimulationsKeepBuild
<1> QED
  BY <1>1, <1>2, <1>3, PTL DEF Spec

-----------------------------------------------------------------------------
(* The locks that processes hold for a whole run. *)

HIDE CompileDirAssumption

\* flock: no runtime lock is held twice
LocksExclusive ==
  \A p, q \in Process : p # q => held[p] \cap held[q] = {}

\* A process that runs jobs has the locks of all its benches
JobsHaveLocks ==
  \A p \in Process : stage[p] = "jobs" /\ shares[p] => held[p] = needs[p]

\* Outside of the jobs nothing is simulated, except by processes that are gone
SimulateInJobs ==
  /\ \A p \in Process \ lost : running[p] # {} => stage[p] = "jobs"
  /\ \A p \in lost : stage[p] = "done"

\* A process compiles only its own benches, and a bench whose simulations are over has none
OwnWork ==
  \A p \in Process : /\ (compiling[p] # NoBench => compiling[p] \in needs[p])
                     /\ running[p] \cap simulated[p] = {}

LocksInv == LocksTypeOK /\ LocksExclusive /\ JobsHaveLocks /\ SimulateInJobs /\ OwnWork

\* The locks of a process that has not finished cleaning are still complete, but for those it
\* waited for when Ctrl-C came
CleanHasLocks ==
  \A p \in Process :
    stage[p] = "clean" /\ shares[p] /\ cleaned[p] # needs[p] => held[p] = needs[p] \ lacking[p]

\* Nothing is cleaned before its time, and until Ctrl-C nothing counts as lacking
CleanLater ==
  \A p \in Process : /\ stage[p] \in {"prepare", "jobs"} => cleaned[p] = {}
                     /\ p \notin interrupted => lacking[p] = {}
                     /\ stage[p] \in {"prepare", "jobs"} => p \notin interrupted

-----------------------------------------------------------------------------

LEMMA InitLocksInv == LocksInit => LocksInv
BY DEF LocksInit, LocksInv, LocksTypeOK, LocksExclusive, JobsHaveLocks, SimulateInJobs,
       OwnWork

\* The locks a process has are among those it needs, and simulated benches too
LEMMA UseFromLocksInv == LocksInv => UseIsExclusive
<1> SUFFICES ASSUME LocksInv, NEW p \in Process \ lost, NEW q \in Process \ lost, p # q,
                    shares[p], shares[q], running[p] \cap running[q] # {}
             PROVE  FALSE
  BY DEF UseIsExclusive
<1>1. stage[p] = "jobs" /\ stage[q] = "jobs"
  BY DEF LocksInv, SimulateInJobs
<1>2. held[p] = needs[p] /\ held[q] = needs[q]
  BY <1>1 DEF LocksInv, JobsHaveLocks
<1>3. running[p] \subseteq needs[p] /\ running[q] \subseteq needs[q]
  BY DEF LocksInv, LocksTypeOK
<1>4. held[p] \cap held[q] = {}
  BY DEF LocksInv, LocksExclusive
<1> QED
  BY <1>2, <1>3, <1>4

LEMMA StepKeepsLocksInv ==
  ASSUME LocksInv, [LocksNext]_locksVars
  PROVE  LocksInv'
<1> USE DEF LocksInv
<1>1. CASE UNCHANGED locksVars
  BY <1>1 DEF locksVars, own, fate, LocksTypeOK, LocksExclusive, JobsHaveLocks,
         SimulateInJobs, OwnWork
<1>2. ASSUME NEW p \in Process, NEW b \in Bench, AcquireRuntimeLock(p, b)
      PROVE  LocksInv'
  <2>1. b \in needs[p] /\ \A q \in Process : b \notin held[q]
    BY <1>2 DEF AcquireRuntimeLock, NextLock, Free
  <2>2. LocksTypeOK'
    BY <1>2, <2>1 DEF AcquireRuntimeLock, LocksTypeOK, own, fate
  <2>3. LocksExclusive'
    BY <1>2, <2>1 DEF AcquireRuntimeLock, LocksTypeOK, LocksExclusive, own, fate
  <2>4. JobsHaveLocks' /\ SimulateInJobs' /\ OwnWork'
    BY <1>2 DEF AcquireRuntimeLock, LocksTypeOK, JobsHaveLocks, SimulateInJobs,
           OwnWork, own, fate
  <2> QED
    BY <2>2, <2>3, <2>4
<1>3. ASSUME NEW p \in Process, Prepared(p)
      PROVE  LocksInv'
  BY <1>3 DEF Prepared, HasLocks, own, fate, LocksTypeOK, LocksExclusive,
         JobsHaveLocks, SimulateInJobs, OwnWork
<1>4. ASSUME NEW p \in Process, NEW b \in Bench, CompileStarts(p, b)
      PROVE  LocksInv'
  BY <1>4 DEF CompileStarts, own, fate, LocksTypeOK, LocksExclusive, JobsHaveLocks,
         SimulateInJobs, OwnWork
<1>5. ASSUME NEW p \in Process, CompileEnds(p)
      PROVE  LocksInv'
  <2>1. compiling[p] \in Bench
    BY <1>5 DEF CompileEnds, LocksTypeOK
  <2> QED
    BY <1>5, <2>1 DEF CompileEnds, own, fate, LocksTypeOK, LocksExclusive,
           JobsHaveLocks, SimulateInJobs, OwnWork
<1>6. ASSUME NEW p \in Process, NEW b \in Bench, SimulationStarts(p, b)
      PROVE  LocksInv'
  BY <1>6 DEF SimulationStarts, own, fate, LocksTypeOK, LocksExclusive, JobsHaveLocks,
         SimulateInJobs, OwnWork
<1>7. ASSUME NEW p \in Process, NEW b \in Bench, SimulationEnds(p, b)
      PROVE  LocksInv'
  BY <1>7 DEF SimulationEnds, own, fate, LocksTypeOK, LocksExclusive, JobsHaveLocks,
         SimulateInJobs, OwnWork
<1>8. ASSUME NEW p \in Process, JobsDone(p)
      PROVE  LocksInv'
  <2>1. running[p] = {}
    BY <1>8 DEF JobsDone, LocksTypeOK, OwnWork
  <2> QED
    BY <1>8, <2>1 DEF JobsDone, own, fate, LocksTypeOK, LocksExclusive, JobsHaveLocks,
           SimulateInJobs, OwnWork
<1>9. ASSUME NEW p \in Process, NEW b \in Bench, Clean(p, b)
      PROVE  LocksInv'
  BY <1>9 DEF Clean, own, fate, LocksTypeOK, LocksExclusive, JobsHaveLocks,
         SimulateInJobs, OwnWork
<1>10. ASSUME NEW p \in Process, NEW b \in Bench, ReleaseRuntimeLock(p, b)
       PROVE  LocksInv'
  BY <1>10 DEF ReleaseRuntimeLock, own, fate, LocksTypeOK, LocksExclusive,
         JobsHaveLocks, SimulateInJobs, OwnWork
<1>11. ASSUME NEW p \in Process, Done(p)
       PROVE  LocksInv'
  BY <1>11 DEF Done, own, fate, LocksTypeOK, LocksExclusive, JobsHaveLocks,
         SimulateInJobs, OwnWork
<1>12. ASSUME NEW p \in Process, Interrupt(p)
       PROVE  LocksInv'
  BY <1>12 DEF Interrupt, own, LocksTypeOK, LocksExclusive, JobsHaveLocks,
         SimulateInJobs, OwnWork
<1>13. ASSUME NEW p \in Process, NEW S \in SUBSET running[p], Lose(p, S)
       PROVE  LocksInv'
  BY <1>13 DEF Lose, own, LocksTypeOK, LocksExclusive, JobsHaveLocks,
         SimulateInJobs, OwnWork
<1>14. ASSUME NEW p \in Process, NEW b \in Bench, OrphanEnds(p, b)
       PROVE  LocksInv'
  BY <1>14 DEF OrphanEnds, own, fate, LocksTypeOK, LocksExclusive, JobsHaveLocks,
         SimulateInJobs, OwnWork
<1> QED
  BY <1>1, <1>2, <1>3, <1>4, <1>5, <1>6, <1>7, <1>8, <1>9, <1>10, <1>11, <1>12, <1>13, <1>14
     DEF LocksNext, LocksStep, Crash, EndUnreaped

\* In every behaviour, each variable keeps its type
THEOREM LocksTypeCorrect == LocksSpec => []LocksTypeOK
<1>1. LocksInit => LocksInv
  BY InitLocksInv
<1>2. LocksInv /\ [LocksNext]_locksVars => LocksInv'
  BY StepKeepsLocksInv
<1>3. LocksInv => LocksTypeOK
  BY DEF LocksInv
<1> QED
  BY <1>1, <1>2, <1>3, PTL DEF LocksSpec

\* In every behaviour, two processes never simulate in a directory their backend shares, through
\* any Ctrl-C and kills, unless one is gone and its simulations live on
THEOREM SimulationsApart == LocksSpec => []UseIsExclusive
<1>1. LocksInit => LocksInv
  BY InitLocksInv
<1>2. LocksInv /\ [LocksNext]_locksVars => LocksInv'
  BY StepKeepsLocksInv
<1> QED
  BY <1>1, <1>2, UseFromLocksInv, PTL DEF LocksSpec

-----------------------------------------------------------------------------
(* Cleanup, with Ctrl-C at any moment. *)

CleanupInv == LocksInv /\ CleanHasLocks /\ CleanLater

LEMMA InitCleanupInv == LocksInit => CleanupInv
<1>1. LocksInit => CleanHasLocks /\ CleanLater
  BY DEF LocksInit, CleanHasLocks, CleanLater
<1> QED
  BY <1>1, InitLocksInv DEF CleanupInv

LEMMA StepKeepsCleanupInv ==
  ASSUME CleanupInv, [LocksNext]_locksVars
  PROVE  CleanupInv'
<1> USE DEF CleanupInv
<1>0. LocksInv'
  BY StepKeepsLocksInv
<1> SUFFICES CleanHasLocks' /\ CleanLater'
  BY <1>0
<1> USE DEF LocksInv, LocksTypeOK, CleanHasLocks, CleanLater, JobsHaveLocks
<1>1. CASE UNCHANGED locksVars
  BY <1>1 DEF locksVars, own, fate
<1>2. ASSUME NEW p \in Process, NEW b \in Bench, AcquireRuntimeLock(p, b)
      PROVE  CleanHasLocks' /\ CleanLater'
  BY <1>2 DEF AcquireRuntimeLock, own, fate
<1>3. ASSUME NEW p \in Process, Prepared(p)
      PROVE  CleanHasLocks' /\ CleanLater'
  BY <1>3 DEF Prepared, own, fate
<1>4. ASSUME NEW p \in Process, NEW b \in Bench, CompileStarts(p, b)
      PROVE  CleanHasLocks' /\ CleanLater'
  BY <1>4 DEF CompileStarts, own, fate
<1>5. ASSUME NEW p \in Process, CompileEnds(p)
      PROVE  CleanHasLocks' /\ CleanLater'
  BY <1>5 DEF CompileEnds, own, fate
<1>6. ASSUME NEW p \in Process, NEW b \in Bench, SimulationStarts(p, b)
      PROVE  CleanHasLocks' /\ CleanLater'
  BY <1>6 DEF SimulationStarts, own, fate
<1>7. ASSUME NEW p \in Process, NEW b \in Bench, SimulationEnds(p, b)
      PROVE  CleanHasLocks' /\ CleanLater'
  BY <1>7 DEF SimulationEnds, own, fate
<1>8. ASSUME NEW p \in Process, JobsDone(p)
      PROVE  CleanHasLocks' /\ CleanLater'
  BY <1>8 DEF JobsDone, own, fate
<1>9. ASSUME NEW p \in Process, NEW b \in Bench, Clean(p, b)
      PROVE  CleanHasLocks' /\ CleanLater'
  BY <1>9 DEF Clean, own, fate
<1>10. ASSUME NEW p \in Process, NEW b \in Bench, ReleaseRuntimeLock(p, b)
       PROVE  CleanHasLocks' /\ CleanLater'
  BY <1>10 DEF ReleaseRuntimeLock, own, fate
<1>11. ASSUME NEW p \in Process, Done(p)
       PROVE  CleanHasLocks' /\ CleanLater'
  BY <1>11 DEF Done, own, fate
<1>12. ASSUME NEW p \in Process, Interrupt(p)
       PROVE  CleanHasLocks' /\ CleanLater'
  BY <1>12 DEF Interrupt, own
<1>13. ASSUME NEW p \in Process, NEW S \in SUBSET running[p], Lose(p, S)
       PROVE  CleanHasLocks' /\ CleanLater'
  BY <1>13 DEF Lose, own
<1>14. ASSUME NEW p \in Process, NEW b \in Bench, OrphanEnds(p, b)
       PROVE  CleanHasLocks' /\ CleanLater'
  BY <1>14 DEF OrphanEnds, own, fate
<1> QED
  BY <1>1, <1>2, <1>3, <1>4, <1>5, <1>6, <1>7, <1>8, <1>9, <1>10, <1>11, <1>12, <1>13, <1>14
     DEF LocksNext, LocksStep, Crash, EndUnreaped

\* A step that cleans a directory has its lock, unless it was lacking when Ctrl-C came, and so
\* nobody else that is there simulates in it
LEMMA CleanStep ==
  ASSUME CleanupInv, NEW p \in Process, NEW q \in Process \ lost, NEW b \in Bench, p # q, shares[q],
         Clean(p, b), b \notin lacking[p]
  PROVE  b \notin running[q]
<1>1. b \in held[p]
  BY DEF Clean, CleanupInv, CleanHasLocks
<1>2. b \notin held[q]
  BY <1>1 DEF CleanupInv, LocksInv, LocksExclusive
<1> SUFFICES ASSUME b \in running[q] PROVE FALSE
  OBVIOUS
<1>3. stage[q] = "jobs" /\ held[q] = needs[q]
  BY DEF CleanupInv, LocksInv, SimulateInJobs, JobsHaveLocks
<1>4. running[q] \subseteq needs[q]
  BY DEF CleanupInv, LocksInv, LocksTypeOK
<1> QED
  BY <1>2, <1>3, <1>4

LEMMA NextCleansUnused ==
  ASSUME CleanupInv, [LocksNext]_locksVars, NEW p \in Process, NEW q \in Process \ lost, p # q,
         shares[q]
  PROVE  (cleaned'[p] \ cleaned[p]) \cap running[q] \subseteq lacking[p]
<1>1. CASE \E b \in Bench : Clean(p, b)
  <2>1. PICK b \in Bench : Clean(p, b)
    BY <1>1
  <2>2. cleaned'[p] \ cleaned[p] \subseteq {b}
    BY <2>1 DEF Clean, CleanupInv, LocksInv, LocksTypeOK
  <2>3. b \notin lacking[p] => b \notin running[q]
    BY <2>1, CleanStep
  <2> QED
    BY <2>2, <2>3
<1>2. CASE ~\E b \in Bench : Clean(p, b)
  <2>1. cleaned'[p] = cleaned[p]
    BY <1>2 DEF LocksNext, EndUnreaped, Lose, OrphanEnds, LocksStep, locksVars, own, Clean,
       CleanupInv, LocksInv, LocksTypeOK, AcquireRuntimeLock, Prepared, CompileStarts, CompileEnds,
       SimulationStarts, SimulationEnds, JobsDone, ReleaseRuntimeLock, Done, Interrupt, Crash
  <2> QED
    BY <2>1
<1> QED
  BY <1>1, <1>2

\* In every behaviour, cleanup removes files only in directories where no other process that is
\* still there simulates, but for those whose locks the process lacked when Ctrl-C came
THEOREM CleanupApart == LocksSpec => CleanupNotInUse
<1>1. LocksInit => CleanupInv
  BY InitCleanupInv
<1>2. CleanupInv /\ [LocksNext]_locksVars => CleanupInv'
  BY StepKeepsCleanupInv
<1>3. CleanupInv /\ [LocksNext]_locksVars =>
        [\A p \in Process, q \in Process \ lost :
           p # q /\ shares[q] => (cleaned'[p] \ cleaned[p]) \cap running[q] \subseteq lacking[p]]_locksVars
  BY NextCleansUnused
<1> QED
  BY <1>1, <1>2, <1>3, PTL DEF LocksSpec, CleanupNotInUse

-----------------------------------------------------------------------------
(* ActiveRun *)

\* What is about to be written as the status of a run is a status
StatusReady ==
  \A r \in Run :
    /\ watcher[r] = "update" => snap[r] \in Working
    /\ phase[r] = "final" => final[r] \in Ending

RunsTyped == RunsTypeOK /\ StatusReady

\* Where a run is in its life, and who may write its record then: main while it waits for nothing
\* else, the watch thread before it is joined, and a late one as long as it likes.  Otherwise a
\* final status is the last one
RecordsInv ==
  \A r \in Run :
    /\ r \notin alive <=> phase[r] \in {"exited", "killed"}
    /\ recLock[r] = "owner" => phase[r] \in {"discover", "planned", "post"}
    /\ recLock[r] = "watcher" => watcher[r] = "write"
    /\ watcher[r] \in {"check", "snapshot", "update", "write"}
         => phase[r] \in {"jobs", "join"} \/ r \in late
    /\ r \in late => phase[r] \in {"final", "post", "close", "closed", "exited", "killed"}
    /\ state[r] \in Ending => phase[r] \in {"post", "close", "closed", "exited", "killed"}
    /\ file[r] \in Ending => state[r] = file[r] \/ r \in late
    /\ phase[r] \in {"closed", "exited"} => file[r] = Nil \/ r \in late \cup unremoved

\* A live run whose record was there when the query began is in one of its sets until it is shown
Traced(r) ==
  /\ file[r] # Nil
  /\ query.at = "load" => r \in query.todo \cup query.found
  /\ query.at = "local" => r \in query.todo \cup query.remote \cup query.shown
  /\ query.at \in {"remote", "printed"} => r \in query.shown

\* LSF holds every live job, so that of the live runs only those that bjobs has not listed are among
\* those whose record is to be removed
ReaderInv ==
  /\ \A r \in alive : kind[r].job => r \in lsf
  /\ \A r \in (query.ready \cap alive) \ query.missed : phase[r] # "closed" => Traced(r)
  /\ \A r \in query.remote : ~kind[r].local /\ kind[r].job
  /\ query.at \in {"load", "local"} => query.missed = {}
  /\ query.at = "remote" => query.todo \cap alive \subseteq query.missed

\* What can be told of a run that was over when the query began
EndedInv ==
  /\ \A r \in query.ended : r \notin alive /\ (kind[r].local \/ r \notin lsf)
  /\ \A r \in query.remote : ~kind[r].local /\ kind[r].job
  /\ \A r \in query.ended \cap query.shown :
       IF kind[r].local THEN ~kind[r].timed /\ r \in reused ELSE ~kind[r].job

-----------------------------------------------------------------------------

LEMMA RunsTypedAtFirst == RunsInit => RunsTyped
<1> SUFFICES ASSUME RunsInit PROVE RunsTyped
  OBVIOUS
<1> USE ActiveRunAssumption
<1>1. query \in Queries
  BY DEF RunsInit, NoQuery, Queries
<1>2. /\ kind \in [Run -> Kinds] /\ alive \subseteq Run /\ reused \subseteq Run \ alive
      /\ lsf \subseteq Run
  BY DEF RunsInit
<1> QED
  BY <1>1, <1>2 DEF RunsInit, RunsTyped, StatusReady, RunsTypeOK, Working, Ending, Status

LEMMA FaultCounted ==
  ASSUME NEW q \in Queries, q.faults < MaxFailures
  PROVE  [q EXCEPT !.faults = @ + 1] \in Queries
<1>1. q.faults + 1 \in 0..MaxFailures
  BY ActiveRunAssumption DEF Queries
<1> QED
  BY <1>1 DEF Queries

\* update() and _publish leave the record of the types it has
LEMMA UpdateTyped ==
  ASSUME RunsTypeOK, NEW r \in Run, NEW who \in {"owner", "watcher"}, NEW status \in Status,
         Update(r, who, status)
  PROVE  /\ state' \in [Run -> Status] /\ recLock' \in [Run -> {"owner", "watcher", Nil}]
         /\ UNCHANGED <<file, enabled>>
BY DEF RunsTypeOK, Update

LEMMA PublishTyped ==
  ASSUME RunsTypeOK, NEW r \in Run, NEW who \in {"owner", "watcher"}, Publish(r, who)
  PROVE  /\ file' \in [Run -> Status \cup {Nil}] /\ enabled' \in [Run -> BOOLEAN]
         /\ recLock' \in [Run -> {"owner", "watcher", Nil}] /\ UNCHANGED state
         /\ query' \in Queries
<1> USE ActiveRunAssumption
<1>1. recLock' \in [Run -> {"owner", "watcher", Nil}] /\ UNCHANGED state
  BY DEF RunsTypeOK, Publish
<1>2. CASE file' = (IF enabled[r] THEN [file EXCEPT ![r] = state[r]] ELSE file)
           /\ UNCHANGED <<enabled, query>>
  BY <1>1, <1>2 DEF RunsTypeOK
<1>3. CASE /\ query.faults < MaxFailures /\ enabled' = [enabled EXCEPT ![r] = FALSE]
           /\ query' = [query EXCEPT !.faults = @ + 1] /\ UNCHANGED file
  BY <1>1, <1>3, FaultCounted DEF RunsTypeOK
<1> QED
  BY <1>2, <1>3 DEF Publish

\* os.remove of a record
LEMMA RemoveTyped ==
  ASSUME RunsTypeOK, NEW r \in Run, NEW q \in Queries, q.faults = query.faults, Remove(r, q)
  PROVE  file' \in [Run -> Status \cup {Nil}] /\ query' \in Queries
<1>1. CASE file' = [file EXCEPT ![r] = Nil] /\ query' = q
  BY <1>1 DEF RunsTypeOK
<1>2. CASE query.faults < MaxFailures /\ query' = [q EXCEPT !.faults = @ + 1] /\ UNCHANGED file
  BY <1>2, FaultCounted DEF RunsTypeOK
<1> QED
  BY <1>1, <1>2 DEF Remove

LEMMA StatusStaysReady ==
  ASSUME RunsTyped, [RunsNext]_runVars
  PROVE  StatusReady'
<1> USE ActiveRunAssumption DEF RunsTyped, RunsTypeOK, StatusReady, world, mainVars, past, rec, watch
<1>1. ASSUME NEW r \in Run, Owner(r)
      PROVE  StatusReady'
  <2>1. CASE Construct(r) \/ Discovered(r) \/ Finalize(r) \/ PostProcess(r) \/ Close(r)
    BY <2>1 DEF Construct, Discovered, Finalize, PostProcess, Close
  <2>2. CASE OwnerWrites(r)
    BY <2>2 DEF OwnerWrites
  <2>3. CASE StartWatching(r)
    BY <2>3 DEF StartWatching
  <2>4. CASE JobsEnd(r)
    BY <2>4 DEF JobsEnd
  <2>5. CASE StopWatching(r)
    BY <2>5 DEF StopWatching
  <2>6. CASE Exit(r) \/ Killed(r)
    BY <2>6 DEF Exit, Killed, Gone
  <2> QED
    BY <1>1, <2>1, <2>2, <2>3, <2>4, <2>5, <2>6 DEF Owner
<1>2. ASSUME NEW r \in Run, Watcher(r)
      PROVE  StatusReady'
  <2>1. CASE CheckStop(r)
    BY <2>1 DEF CheckStop
  <2>2. CASE Snapshot(r)
    BY <2>2 DEF Snapshot
  <2>3. CASE WatcherUpdates(r)
    BY <2>3 DEF WatcherUpdates
  <2>4. CASE WatcherWrites(r)
    BY <2>4 DEF WatcherWrites
  <2> QED
    BY <1>2, <2>1, <2>2, <2>3, <2>4 DEF Watcher
<1>3. ASSUME NEW r \in Run, Work(r) \/ ReusePid(r) \/ LsfDone(r)
      PROVE  StatusReady'
  BY <1>3 DEF Work, ReusePid, LsfDone
<1>4. ASSUME ShowStatus
      PROVE  StatusReady'
  BY <1>4 DEF ShowStatus, Scan, Loaded, QueryLsfStates, PrintStatus, Again, LoadStateFile,
     JudgeLocal, RemoveRemote
<1>5. CASE UNCHANGED runVars
  BY <1>5 DEF runVars
<1> QED
  BY <1>1, <1>2, <1>3, <1>4, <1>5 DEF RunsNext

LEMMA OwnerKeepsTypes ==
  ASSUME RunsTyped, NEW r \in Run, Owner(r)
  PROVE  RunsTypeOK'
<1> USE ActiveRunAssumption DEF RunsTyped, world, mainVars, past, rec, watch
<1>1. CASE Construct(r)
  BY <1>1 DEF RunsTypeOK, Construct
<1>2. CASE OwnerWrites(r)
  BY <1>2, PublishTyped DEF RunsTypeOK, OwnerWrites
<1>3. CASE Discovered(r)
  <2>1. CASE Update(r, "owner", "COMPILING") /\ phase' = [phase EXCEPT ![r] = "planned"]
    <3>1. "COMPILING" \in Status
      BY DEF Status, Working
    <3> QED
      BY <1>3, <2>1, <3>1, UpdateTyped DEF RunsTypeOK, Discovered
  <2>2. CASE phase' = [phase EXCEPT ![r] = "close"] /\ UNCHANGED rec
    BY <1>3, <2>2 DEF RunsTypeOK, Discovered
  <2> QED
    BY <1>3, <2>1, <2>2 DEF Discovered
<1>4. CASE StartWatching(r)
  <2>1. /\ phase' = [phase EXCEPT ![r] = "jobs"] \/ phase' = [phase EXCEPT ![r] = "close"]
        /\ watcher' = [watcher EXCEPT ![r] = "check"] \/ UNCHANGED watcher
        /\ UNCHANGED <<world, final, stop, past, work, rec, snap, query>>
    BY <1>4 DEF StartWatching
  <2> QED
    BY <2>1 DEF RunsTypeOK
<1>5. CASE JobsEnd(r)
  BY <1>5 DEF RunsTypeOK, JobsEnd
<1>6. CASE StopWatching(r)
  BY <1>6 DEF RunsTypeOK, StopWatching
<1>7. CASE Finalize(r)
  <2>1. final[r] \in Status /\ Update(r, "owner", final[r])
    BY <1>7 DEF StatusReady, Status, Finalize
  <2> QED
    BY <1>7, <2>1, UpdateTyped DEF RunsTypeOK, Finalize
<1>8. CASE PostProcess(r)
  BY <1>8 DEF RunsTypeOK, PostProcess
<1>9. CASE Close(r)
  <2>1. query' \in Queries
    BY <1>9, FaultCounted DEF RunsTypeOK, Close
  <2>2. file' \in [Run -> Status \cup {Nil}] /\ unremoved' \subseteq Run
    BY <1>9 DEF RunsTypeOK, Close
  <2> QED
    BY <1>9, <2>1, <2>2 DEF RunsTypeOK, Close
<1>10. CASE Exit(r)
  BY <1>10 DEF RunsTypeOK, Exit, Gone
<1>11. CASE Killed(r)
  BY <1>11 DEF RunsTypeOK, Killed, Gone
<1> QED
  BY <1>1, <1>2, <1>3, <1>4, <1>5, <1>6, <1>7, <1>8, <1>9, <1>10, <1>11 DEF Owner

LEMMA WatcherKeepsTypes ==
  ASSUME RunsTyped, NEW r \in Run, Watcher(r)
  PROVE  RunsTypeOK'
<1> USE ActiveRunAssumption DEF RunsTyped, world, mainVars, past, rec, watch
<1>1. CASE CheckStop(r)
  BY <1>1 DEF RunsTypeOK, CheckStop
<1>2. CASE Snapshot(r)
  <2>1. query' \in Queries
    BY <1>2, FaultCounted DEF RunsTypeOK, Snapshot
  <2>2. \/ watcher' = [watcher EXCEPT ![r] = "update"] /\ snap' = [snap EXCEPT ![r] = work[r]]
        \/ watcher' = [watcher EXCEPT ![r] = "check"] /\ UNCHANGED snap
    BY <1>2 DEF Snapshot
  <2>3. UNCHANGED <<world, mainVars, work, rec>>
    BY <1>2 DEF Snapshot
  <2>4. /\ watcher' \in [Run -> {"none", "check", "snapshot", "update", "write", "done"}]
        /\ snap' \in [Run -> Working \cup {Nil}]
    BY <2>2 DEF RunsTypeOK
  <2>5. UNCHANGED <<kind, alive, reused, lsf, phase, final, stop, late, unremoved, work>>
        /\ UNCHANGED <<state, file, enabled, recLock>>
    BY <2>3
  <2> QED
    BY <2>1, <2>4, <2>5 DEF RunsTypeOK
<1>3. CASE WatcherUpdates(r)
  <2>1. snap[r] \in Status /\ Update(r, "watcher", snap[r])
    BY <1>3 DEF StatusReady, Status, WatcherUpdates
  <2> QED
    BY <1>3, <2>1, UpdateTyped DEF RunsTypeOK, WatcherUpdates
<1>4. CASE WatcherWrites(r)
  <2>1. CASE Publish(r, "watcher") /\ UNCHANGED watcher
    BY <1>4, <2>1, PublishTyped DEF RunsTypeOK, WatcherWrites
  <2>2. CASE watcher' = [watcher EXCEPT ![r] = "check"] /\ UNCHANGED <<rec, query>>
    BY <1>4, <2>2 DEF RunsTypeOK, WatcherWrites
  <2> QED
    BY <1>4, <2>1, <2>2 DEF WatcherWrites
<1> QED
  BY <1>1, <1>2, <1>3, <1>4 DEF Watcher

LEMMA QueryKeepsTypes ==
  ASSUME RunsTyped, ShowStatus
  PROVE  RunsTypeOK'
<1> USE ActiveRunAssumption DEF RunsTyped
<1>1. CASE Scan
  <2>1. query.calls + 1 \in 0..MaxQueries
    BY <1>1 DEF Scan, RunsTypeOK, Queries
  <2>2. query' \in Queries
    BY <1>1, <2>1 DEF Scan, RunsTypeOK, Queries
  <2> QED
    BY <1>1, <2>2 DEF RunsTypeOK, Scan, world, mainVars, past, rec, watch
<1>2. CASE Loaded
  <2>1. query' \in Queries
    BY <1>2 DEF Loaded, RunsTypeOK, Queries
  <2> QED
    BY <1>2, <2>1 DEF RunsTypeOK, Loaded, world, mainVars, past, rec, watch
<1>3. CASE QueryLsfStates
  <2>1. ASSUME query' = [query EXCEPT !.at = "remote", !.todo = query.remote \ lsf,
                                      !.shown = @ \cup (query.remote \cap lsf)]
        PROVE  query' \in Queries
    BY <2>1 DEF RunsTypeOK, Queries
  <2>2. ASSUME query.faults < MaxFailures,
               query' = [query EXCEPT !.at = "remote", !.faults = @ + 1,
                           !.shown = @ \cup query.remote, !.ended = @ \ query.remote]
        PROVE  query' \in Queries
    <3>1. query.faults + 1 \in 0..MaxFailures
      BY <2>2 DEF RunsTypeOK, Queries
    <3> QED
      BY <2>2, <3>1 DEF RunsTypeOK, Queries
  <2>3. ASSUME query.faults < MaxFailures, NEW listed \in SUBSET query.remote,
               query' = [query EXCEPT !.at = "remote", !.faults = @ + 1,
                           !.missed = (query.remote \cap lsf) \ listed,
                           !.todo = query.remote \ (listed \cap lsf),
                           !.shown = @ \cup (listed \cap lsf)]
        PROVE  query' \in Queries
    <3>1. query.faults + 1 \in 0..MaxFailures
      BY <2>3 DEF RunsTypeOK, Queries
    <3> QED
      BY <2>3, <3>1 DEF RunsTypeOK, Queries
  <2>4. query' \in Queries
    BY <1>3, <2>1, <2>2, <2>3 DEF QueryLsfStates, RunsTypeOK, Queries
  <2> QED
    BY <1>3, <2>4 DEF RunsTypeOK, QueryLsfStates, world, mainVars, past, rec, watch
<1>4. CASE PrintStatus
  <2>1. query' \in Queries
    BY <1>4 DEF PrintStatus, RunsTypeOK, Queries
  <2> QED
    BY <1>4, <2>1 DEF RunsTypeOK, PrintStatus, world, mainVars, past, rec, watch
<1>5. CASE Again
  <2>1. query' \in Queries
    BY <1>5 DEF Again, NoQuery, RunsTypeOK, Queries
  <2> QED
    BY <1>5, <2>1 DEF RunsTypeOK, Again, world, mainVars, past, rec, watch
<1>6. ASSUME NEW r \in Run, LoadStateFile(r)
      PROVE  RunsTypeOK'
  <2>1. query' \in Queries
    BY <1>6 DEF LoadStateFile, RunsTypeOK, Queries
  <2> QED
    BY <1>6, <2>1 DEF RunsTypeOK, LoadStateFile, world, mainVars, past, rec, watch
<1>7. ASSUME NEW r \in Run, JudgeLocal(r)
      PROVE  RunsTypeOK'
  <2> DEFINE rest == [query EXCEPT !.todo = @ \ {r}]
  <2>1. rest \in Queries /\ rest.faults = query.faults
    BY DEF RunsTypeOK, Queries
  <2>2. CASE Remove(r, rest)
    <3>1. file' \in [Run -> Status \cup {Nil}] /\ query' \in Queries
      BY <2>1, <2>2, RemoveTyped
    <3> QED
      BY <1>7, <3>1 DEF RunsTypeOK, JudgeLocal, world, mainVars, past, watch
  <2>3. CASE /\ UNCHANGED file
             /\ query' \in {[rest EXCEPT !.shown = @ \cup {r}], [rest EXCEPT !.remote = @ \cup {r}]}
    <3> HIDE DEF rest
    <3>1. query' \in Queries
      BY <2>1, <2>3 DEF Queries
    <3> QED
      BY <1>7, <2>3, <3>1 DEF RunsTypeOK, JudgeLocal, world, mainVars, past, watch
  <2> QED
    BY <1>7, <2>2, <2>3 DEF JudgeLocal
<1>8. ASSUME NEW r \in Run, RemoveRemote(r)
      PROVE  RunsTypeOK'
  <2> DEFINE rest == [query EXCEPT !.todo = @ \ {r}]
  <2>1. rest \in Queries /\ rest.faults = query.faults
    BY DEF RunsTypeOK, Queries
  <2>2. Remove(r, rest)
    BY <1>8 DEF RemoveRemote
  <2>3. file' \in [Run -> Status \cup {Nil}] /\ query' \in Queries
    BY <2>1, <2>2, RemoveTyped
  <2> QED
    BY <1>8, <2>3 DEF RunsTypeOK, RemoveRemote, world, mainVars, past, watch
<1> QED
  BY <1>1, <1>2, <1>3, <1>4, <1>5, <1>6, <1>7, <1>8 DEF ShowStatus

LEMMA RunsStayTyped ==
  ASSUME RunsTyped, [RunsNext]_runVars
  PROVE  RunsTyped'
<1>1. ASSUME NEW r \in Run, Work(r) \/ ReusePid(r) \/ LsfDone(r)
      PROVE  RunsTypeOK'
  <2> USE DEF RunsTyped, world, mainVars, past, rec, watch
  <2>1. CASE Work(r)
    BY <2>1 DEF RunsTypeOK, Work
  <2>2. CASE ReusePid(r)
    BY <2>2 DEF RunsTypeOK, ReusePid
  <2>3. CASE LsfDone(r)
    BY <2>3 DEF RunsTypeOK, LsfDone
  <2> QED
    BY <1>1, <2>1, <2>2, <2>3
<1>2. CASE UNCHANGED runVars
  <2>1. UNCHANGED <<kind, alive, reused, lsf, phase, final, stop, late, unremoved, work>>
    BY <1>2 DEF runVars, world, mainVars, past
  <2>2. UNCHANGED <<state, file, enabled, recLock, watcher, snap, query>>
    BY <1>2 DEF runVars, rec, watch
  <2> QED
    BY <2>1, <2>2 DEF RunsTyped, RunsTypeOK, StatusReady
<1> QED
  BY <1>1, <1>2, StatusStaysReady, OwnerKeepsTypes, WatcherKeepsTypes, QueryKeepsTypes
     DEF RunsNext, RunsTyped

-----------------------------------------------------------------------------
(* What the steps of a run mean to a reader *)

\* What a query has found out, whatever it has met with
QuerySame ==
  /\ query'.at = query.at /\ query'.todo = query.todo /\ query'.found = query.found
  /\ query'.remote = query.remote /\ query'.missed = query.missed
  /\ query'.shown = query.shown /\ query'.ended = query.ended /\ query'.ready = query.ready

LEMMA FaultChangesNothing ==
  ASSUME RunsTypeOK, query' = [query EXCEPT !.faults = @ + 1]
  PROVE  QuerySame
BY DEF RunsTypeOK, Queries, QuerySame

\* A step of main or of a watch thread: only main ends a process, and only close() removes a record,
\* and what is written is the state
RunStep ==
  /\ UNCHANGED <<kind, reused, lsf>> /\ alive' \subseteq alive /\ QuerySame
  /\ \A r \in Run : file'[r] = Nil => file[r] = Nil \/ (phase[r] = "close" /\ phase'[r] = "closed")
  /\ \A r \in Run : file'[r] \in {file[r], state[r], Nil}
  /\ \A r \in Run : phase[r] = "closed" => phase'[r] = "closed" \/ r \notin alive'

LEMMA PublishWrites ==
  ASSUME RunsTyped, NEW r \in Run, NEW who, Publish(r, who)
  PROVE  /\ QuerySame
         /\ \A s \in Run : file'[s] \in {file[s], state[s]} /\ (file'[s] = Nil => file[s] = Nil)
         /\ UNCHANGED state /\ recLock[r] = who /\ recLock' = [recLock EXCEPT ![r] = Nil]
         /\ \/ UNCHANGED file
            \/ file' = [file EXCEPT ![r] = state[r]]
<1> USE DEF RunsTyped
<1>1. QuerySame
  BY FaultChangesNothing DEF Publish, QuerySame
<1>2. state[r] # Nil
  BY ActiveRunAssumption DEF RunsTypeOK
<1>3. UNCHANGED file \/ file' = [file EXCEPT ![r] = state[r]]
  BY DEF Publish
<1> QED
  BY <1>1, <1>2, <1>3 DEF Publish, RunsTypeOK

LEMMA OwnerSteps ==
  ASSUME RunsTyped, NEW r \in Run, Owner(r)
  PROVE  RunStep
<1> USE DEF RunsTyped, RunsTypeOK, world, mainVars, past, rec, watch
<1>1. CASE Construct(r)
  BY <1>1 DEF Construct, RunStep, QuerySame
<1>2. CASE OwnerWrites(r)
  BY <1>2, PublishWrites DEF OwnerWrites, RunStep
<1>3. CASE Discovered(r)
  BY <1>3 DEF Discovered, Update, RunStep, QuerySame
<1>4. CASE StartWatching(r)
  BY <1>4 DEF StartWatching, RunStep, QuerySame
<1>5. CASE JobsEnd(r)
  BY <1>5 DEF JobsEnd, RunStep, QuerySame
<1>6. CASE StopWatching(r)
  BY <1>6 DEF StopWatching, RunStep, QuerySame
<1>7. CASE Finalize(r)
  BY <1>7 DEF Finalize, Update, RunStep, QuerySame
<1>8. CASE PostProcess(r)
  BY <1>8 DEF PostProcess, RunStep, QuerySame
<1>9. CASE Close(r)
  <2>1. QuerySame
    BY <1>9, FaultChangesNothing DEF Close, QuerySame
  <2>2. UNCHANGED file \/ file' = [file EXCEPT ![r] = Nil]
    BY <1>9 DEF Close
  <2>3. /\ UNCHANGED <<kind, reused, lsf, alive>> /\ phase[r] = "close"
        /\ phase' = [phase EXCEPT ![r] = "closed"]
    BY <1>9 DEF Close
  <2> QED
    BY <2>1, <2>2, <2>3 DEF RunStep
<1>10. CASE Exit(r)
  BY <1>10 DEF Exit, Gone, RunStep, QuerySame
<1>11. CASE Killed(r)
  BY <1>11 DEF Killed, Gone, RunStep, QuerySame
<1> QED
  BY <1>1, <1>2, <1>3, <1>4, <1>5, <1>6, <1>7, <1>8, <1>9, <1>10, <1>11 DEF Owner

LEMMA WatcherSteps ==
  ASSUME RunsTyped, NEW r \in Run, Watcher(r) \/ Work(r)
  PROVE  RunStep
<1> USE DEF RunsTyped, world, mainVars, past, rec, watch
<1>1. CASE CheckStop(r) \/ Work(r)
  BY <1>1 DEF CheckStop, Work, RunStep, QuerySame
<1>2. CASE Snapshot(r)
  <2>1. QuerySame
    BY <1>2, FaultChangesNothing DEF Snapshot, QuerySame
  <2> QED
    BY <1>2, <2>1 DEF Snapshot, RunStep
<1>3. CASE WatcherUpdates(r)
  BY <1>3 DEF WatcherUpdates, Update, RunStep, QuerySame
<1>4. CASE WatcherWrites(r)
  <2>1. CASE Publish(r, "watcher")
    <3>1. /\ QuerySame
          /\ \A s \in Run : file'[s] \in {file[s], state[s]} /\ (file'[s] = Nil => file[s] = Nil)
      BY <2>1, PublishWrites
    <3>2. UNCHANGED <<kind, reused, lsf>> /\ alive' = alive /\ phase' = phase
      BY <1>4 DEF WatcherWrites
    <3> QED
      BY <3>1, <3>2 DEF RunStep
  <2>2. CASE UNCHANGED <<rec, query>>
    BY <1>4, <2>2 DEF WatcherWrites, RunStep, QuerySame
  <2> QED
    BY <1>4, <2>1, <2>2 DEF WatcherWrites
<1> QED
  BY <1>1, <1>2, <1>3, <1>4 DEF Watcher

-----------------------------------------------------------------------------
(* Runs that were over are not printed *)

LEMMA RemoveChanges ==
  ASSUME NEW r \in Run, NEW q \in Queries, Remove(r, q)
  PROVE  /\ query'.at = q.at /\ query'.todo = q.todo /\ query'.found = q.found
         /\ query'.remote = q.remote /\ query'.missed = q.missed /\ query'.shown = q.shown
         /\ query'.ended = q.ended /\ query'.ready = q.ready
BY DEF Remove, Queries

LEMMA JudgeLocalChanges ==
  ASSUME RunsTyped, NEW r \in Run, JudgeLocal(r)
  PROVE  /\ query.at = "local" /\ query'.at = "local" /\ query'.todo = query.todo \ {r}
         /\ query'.ended = query.ended /\ query'.ready = query.ready
         /\ query'.missed = query.missed
         /\ \/ /\ kind[r].local /\ LocalStateIsActive(r) /\ UNCHANGED file
               /\ query'.shown = query.shown \cup {r} /\ query'.remote = query.remote
            \/ /\ kind[r].local /\ ~LocalStateIsActive(r)
               /\ UNCHANGED file \/ file' = [file EXCEPT ![r] = Nil]
               /\ query'.shown = query.shown /\ query'.remote = query.remote
            \/ /\ ~kind[r].local /\ kind[r].job /\ UNCHANGED file
               /\ query'.shown = query.shown /\ query'.remote = query.remote \cup {r}
            \/ /\ ~kind[r].local /\ ~kind[r].job /\ UNCHANGED file
               /\ query'.shown = query.shown \cup {r} /\ query'.remote = query.remote
<1> DEFINE rest == [query EXCEPT !.todo = @ \ {r}]
<1>1. /\ rest \in Queries /\ rest.at = query.at /\ rest.todo = query.todo \ {r}
      /\ rest.found = query.found /\ rest.remote = query.remote /\ rest.shown = query.shown
      /\ rest.ended = query.ended /\ rest.ready = query.ready /\ rest.missed = query.missed
  BY DEF RunsTyped, RunsTypeOK, Queries
<1>2. /\ query.at = "local"
      /\ \/ /\ kind[r].local /\ LocalStateIsActive(r) /\ UNCHANGED file
            /\ query' = [rest EXCEPT !.shown = @ \cup {r}]
         \/ kind[r].local /\ ~LocalStateIsActive(r) /\ Remove(r, rest)
         \/ /\ ~kind[r].local /\ kind[r].job /\ UNCHANGED file
            /\ query' = [rest EXCEPT !.remote = @ \cup {r}]
         \/ /\ ~kind[r].local /\ ~kind[r].job /\ UNCHANGED file
            /\ query' = [rest EXCEPT !.shown = @ \cup {r}]
  BY DEF JudgeLocal
<1> HIDE DEF rest
<1>3. CASE /\ \/ kind[r].local /\ LocalStateIsActive(r)
              \/ ~kind[r].local /\ ~kind[r].job
           /\ UNCHANGED file /\ query' = [rest EXCEPT !.shown = @ \cup {r}]
  <2>1. /\ query'.at = rest.at /\ query'.todo = rest.todo /\ query'.ended = rest.ended
        /\ query'.missed = rest.missed
        /\ query'.ready = rest.ready /\ query'.remote = rest.remote
        /\ query'.shown = rest.shown \cup {r}
    BY <1>1, <1>3 DEF Queries
  <2> QED
    BY <1>1, <1>2, <1>3, <2>1
<1>4. CASE kind[r].local /\ ~LocalStateIsActive(r) /\ Remove(r, rest)
  <2>1. /\ query'.at = rest.at /\ query'.todo = rest.todo /\ query'.ended = rest.ended
        /\ query'.missed = rest.missed
        /\ query'.ready = rest.ready /\ query'.remote = rest.remote /\ query'.shown = rest.shown
    BY <1>1, <1>4, RemoveChanges
  <2>2. UNCHANGED file \/ file' = [file EXCEPT ![r] = Nil]
    BY <1>4 DEF Remove
  <2> QED
    BY <1>1, <1>2, <1>4, <2>1, <2>2
<1>5. CASE /\ ~kind[r].local /\ kind[r].job /\ UNCHANGED file
           /\ query' = [rest EXCEPT !.remote = @ \cup {r}]
  <2>1. /\ query'.at = rest.at /\ query'.todo = rest.todo /\ query'.ended = rest.ended
        /\ query'.missed = rest.missed
        /\ query'.ready = rest.ready /\ query'.remote = rest.remote \cup {r}
        /\ query'.shown = rest.shown
    BY <1>1, <1>5 DEF Queries
  <2> QED
    BY <1>1, <1>2, <1>5, <2>1
<1> QED
  BY <1>2, <1>3, <1>4, <1>5

LEMMA RemoveRemoteChanges ==
  ASSUME RunsTyped, NEW r \in Run, RemoveRemote(r)
  PROVE  /\ query.at = "remote" /\ query'.at = "remote" /\ query'.todo = query.todo \ {r}
         /\ query'.ended = query.ended /\ query'.ready = query.ready
         /\ query'.missed = query.missed
         /\ query'.shown = query.shown /\ query'.remote = query.remote
         /\ UNCHANGED file \/ file' = [file EXCEPT ![r] = Nil]
<1> DEFINE rest == [query EXCEPT !.todo = @ \ {r}]
<1>1. /\ rest \in Queries /\ rest.at = query.at /\ rest.todo = query.todo \ {r}
      /\ rest.found = query.found /\ rest.remote = query.remote /\ rest.shown = query.shown
      /\ rest.ended = query.ended /\ rest.ready = query.ready /\ rest.missed = query.missed
  BY DEF RunsTyped, RunsTypeOK, Queries
<1>2. query.at = "remote" /\ Remove(r, rest)
  BY DEF RemoveRemote
<1>3. UNCHANGED file \/ file' = [file EXCEPT ![r] = Nil]
  BY <1>2 DEF Remove
<1> HIDE DEF rest
<1>4. /\ query'.at = rest.at /\ query'.todo = rest.todo /\ query'.ended = rest.ended
        /\ query'.missed = rest.missed
      /\ query'.ready = rest.ready /\ query'.remote = rest.remote /\ query'.shown = rest.shown
  BY <1>1, <1>2, RemoveChanges
<1> QED
  BY <1>1, <1>2, <1>3, <1>4

LEMMA QueryLsfStatesChanges ==
  ASSUME RunsTyped, QueryLsfStates
  PROVE  /\ query.at = "local" /\ query.todo = {} /\ query'.at = "remote" /\ UNCHANGED file
         /\ query'.remote = query.remote /\ query'.ready = query.ready
         /\ \/ /\ query'.todo = query.remote \ lsf /\ query'.ended = query.ended
               /\ query'.shown = query.shown \cup (query.remote \cap lsf)
               /\ query'.missed = query.missed
            \/ /\ query'.todo = {} /\ query'.ended = query.ended \ query.remote
               /\ query'.shown = query.shown \cup query.remote
               /\ query'.missed = query.missed
            \/ \E listed \in SUBSET query.remote :
                 /\ query'.todo = query.remote \ (listed \cap lsf) /\ query'.ended = query.ended
                 /\ query'.missed = (query.remote \cap lsf) \ listed
                 /\ query'.shown = query.shown \cup (listed \cap lsf)
<1> USE DEF RunsTyped, RunsTypeOK, Queries
<1>1. query.at = "local" /\ query.todo = {} /\ UNCHANGED file
  BY DEF QueryLsfStates, rec
<1>2. CASE query' = [query EXCEPT !.at = "remote", !.todo = query.remote \ lsf,
                                  !.shown = @ \cup (query.remote \cap lsf)]
  BY <1>1, <1>2
<1>3. CASE query' = [query EXCEPT !.at = "remote", !.faults = @ + 1,
                         !.shown = @ \cup query.remote, !.ended = @ \ query.remote]
  BY <1>1, <1>3
<1>4. CASE \E listed \in SUBSET query.remote :
             query' = [query EXCEPT !.at = "remote", !.faults = @ + 1,
                         !.missed = (query.remote \cap lsf) \ listed,
                         !.todo = query.remote \ (listed \cap lsf),
                         !.shown = @ \cup (listed \cap lsf)]
  <2> PICK listed \in SUBSET query.remote :
             query' = [query EXCEPT !.at = "remote", !.faults = @ + 1,
                         !.missed = (query.remote \cap lsf) \ listed,
                         !.todo = query.remote \ (listed \cap lsf),
                         !.shown = @ \cup (listed \cap lsf)]
    BY <1>4
  <2> QED
    BY <1>1
<1>5. \/ query' = [query EXCEPT !.at = "remote", !.todo = query.remote \ lsf,
                                !.shown = @ \cup (query.remote \cap lsf)]
      \/ query' = [query EXCEPT !.at = "remote", !.faults = @ + 1,
                       !.shown = @ \cup query.remote, !.ended = @ \ query.remote]
      \/ \E listed \in SUBSET query.remote :
           query' = [query EXCEPT !.at = "remote", !.faults = @ + 1,
                       !.missed = (query.remote \cap lsf) \ listed,
                       !.todo = query.remote \ (listed \cap lsf),
                       !.shown = @ \cup (listed \cap lsf)]
  BY DEF QueryLsfStates
<1> QED
  BY <1>2, <1>3, <1>4, <1>5

LEMMA LoadStateFileChanges ==
  ASSUME RunsTyped, NEW r \in Run, LoadStateFile(r)
  PROVE  /\ query.at = "load" /\ query'.at = "load" /\ query'.todo = query.todo \ {r}
         /\ query'.found = IF file[r] # Nil THEN query.found \cup {r} ELSE query.found
         /\ query'.ended = query.ended /\ query'.ready = query.ready
         /\ query'.missed = query.missed
         /\ query'.shown = query.shown /\ query'.remote = query.remote
BY DEF LoadStateFile, RunsTyped, RunsTypeOK, Queries

LEMMA EndedStay ==
  ASSUME RunsTyped, EndedInv, [RunsNext]_runVars
  PROVE  EndedInv'
<1> USE DEF RunsTyped, world, mainVars, past, rec, watch
<1>1. ASSUME NEW r \in Run, Owner(r) \/ Watcher(r) \/ Work(r)
      PROVE  EndedInv'
  <2>1. RunStep
    BY <1>1, OwnerSteps, WatcherSteps
  <2> QED
    BY <2>1 DEF RunStep, QuerySame, EndedInv, RunsTypeOK
<1>2. ASSUME NEW r \in Run, ReusePid(r) \/ LsfDone(r)
      PROVE  EndedInv'
  BY <1>2 DEF ReusePid, LsfDone, EndedInv
<1>3. CASE Scan
  <2>1. /\ query'.remote = {} /\ query'.shown = {}
        /\ query'.ended = {r \in Run \ alive : kind[r].local \/ r \notin lsf}
    BY <1>3 DEF Scan, RunsTypeOK, Queries
  <2>2. UNCHANGED <<kind, alive, reused, lsf>>
    BY <1>3 DEF Scan
  <2> QED
    BY <2>1, <2>2 DEF EndedInv
<1>4. CASE Loaded \/ PrintStatus
  <2>1. query'.remote = query.remote /\ query'.shown = query.shown /\ query'.ended = query.ended
    BY <1>4 DEF Loaded, PrintStatus, RunsTypeOK, Queries
  <2>2. UNCHANGED <<kind, alive, reused, lsf>>
    BY <1>4 DEF Loaded, PrintStatus
  <2> QED
    BY <2>1, <2>2 DEF EndedInv
<1>5. CASE QueryLsfStates
  <2>1. UNCHANGED <<kind, alive, reused, lsf>> /\ query'.remote = query.remote
    BY <1>5, QueryLsfStatesChanges DEF QueryLsfStates
  <2>2. CASE query'.ended = query.ended /\ query'.shown = query.shown \cup (query.remote \cap lsf)
    BY <2>1, <2>2 DEF EndedInv
  <2>3. CASE /\ query'.ended = query.ended \ query.remote
             /\ query'.shown = query.shown \cup query.remote
    BY <2>1, <2>3 DEF EndedInv
  <2>4. CASE /\ query'.ended = query.ended
             /\ \E listed \in SUBSET query.remote :
                  query'.shown = query.shown \cup (listed \cap lsf)
    BY <2>1, <2>4 DEF EndedInv
  <2> QED
    BY <1>5, <2>2, <2>3, <2>4, QueryLsfStatesChanges
<1>6. CASE Again
  <2>1. query'.remote = {} /\ query'.shown = {} /\ query'.ended = {}
    BY <1>6 DEF Again, NoQuery
  <2> QED
    BY <2>1 DEF EndedInv
<1>7. ASSUME NEW r \in Run, LoadStateFile(r)
      PROVE  EndedInv'
  <2>1. query'.remote = query.remote /\ query'.shown = query.shown /\ query'.ended = query.ended
    BY <1>7, LoadStateFileChanges
  <2>2. UNCHANGED <<kind, alive, reused, lsf>>
    BY <1>7 DEF LoadStateFile
  <2> QED
    BY <2>1, <2>2 DEF EndedInv
<1>8. ASSUME NEW r \in Run, JudgeLocal(r)
      PROVE  EndedInv'
  <2>1. UNCHANGED <<kind, alive, reused, lsf>> /\ query'.ended = query.ended
    BY <1>8, JudgeLocalChanges DEF JudgeLocal
  <2>2. CASE /\ kind[r].local /\ LocalStateIsActive(r)
             /\ query'.shown = query.shown \cup {r} /\ query'.remote = query.remote
    <3>1. r \notin alive => r \in reused /\ ~kind[r].timed
      BY <2>2 DEF LocalStateIsActive, ProcessExists
    <3> QED
      BY <2>1, <2>2, <3>1 DEF EndedInv
  <2>3. CASE query'.shown = query.shown /\ query'.remote = query.remote
    BY <2>1, <2>3 DEF EndedInv
  <2>4. CASE /\ ~kind[r].local /\ kind[r].job
             /\ query'.shown = query.shown /\ query'.remote = query.remote \cup {r}
    BY <2>1, <2>4 DEF EndedInv
  <2>5. CASE /\ ~kind[r].local /\ ~kind[r].job
             /\ query'.shown = query.shown \cup {r} /\ query'.remote = query.remote
    BY <2>1, <2>5 DEF EndedInv
  <2> QED
    BY <1>8, <2>2, <2>3, <2>4, <2>5, JudgeLocalChanges
<1>9. ASSUME NEW r \in Run, RemoveRemote(r)
      PROVE  EndedInv'
  <2>1. query'.remote = query.remote /\ query'.shown = query.shown /\ query'.ended = query.ended
    BY <1>9, RemoveRemoteChanges
  <2>2. UNCHANGED <<kind, alive, reused, lsf>>
    BY <1>9 DEF RemoveRemote
  <2> QED
    BY <2>1, <2>2 DEF EndedInv
<1>10. CASE UNCHANGED runVars
  BY <1>10 DEF runVars, EndedInv
<1> QED
  BY <1>1, <1>2, <1>3, <1>4, <1>5, <1>6, <1>7, <1>8, <1>9, <1>10 DEF RunsNext, ShowStatus

-----------------------------------------------------------------------------
(* Live runs are printed and keep their records *)

\* All runs belong to the user who asks
OwnRunsOnly == \A k \in Kinds : ~k.foreign

LEMMA LiveIsActive ==
  ASSUME OwnRunsOnly, RunsTyped, NEW r \in alive
  PROVE  LocalStateIsActive(r)
<1>1. r \in Run /\ kind[r] \in Kinds
  BY DEF RunsTyped, RunsTypeOK
<1> QED
  BY <1>1 DEF OwnRunsOnly, LocalStateIsActive, ProcessExists

\* A reader removes no record of a live run that bjobs lists
LEMMA ReadersSpareLiveRuns ==
  ASSUME OwnRunsOnly, RunsTyped, ReaderInv, ShowStatus
  PROVE  /\ UNCHANGED <<kind, alive, lsf, phase>>
         /\ \A r \in alive \ query.missed : file'[r] = file[r]
<1> USE DEF RunsTyped
<1>1. CASE Scan \/ Loaded \/ QueryLsfStates \/ PrintStatus \/ Again
  BY <1>1 DEF Scan, Loaded, QueryLsfStates, PrintStatus, Again, world, mainVars, rec
<1>2. ASSUME NEW r \in Run, LoadStateFile(r)
      PROVE  UNCHANGED <<kind, alive, lsf, phase, file>>
  BY <1>2 DEF LoadStateFile, world, mainVars, rec
<1>3. ASSUME NEW r \in Run, JudgeLocal(r)
      PROVE  /\ UNCHANGED <<kind, alive, lsf, phase>>
             /\ \A s \in alive \ query.missed : file'[s] = file[s]
  <2>1. UNCHANGED <<kind, alive, lsf, phase>>
    BY <1>3 DEF JudgeLocal, world, mainVars
  <2>2. UNCHANGED file \/ (r \notin alive /\ file' = [file EXCEPT ![r] = Nil])
    BY <1>3, JudgeLocalChanges, LiveIsActive
  <2> QED
    BY <2>1, <2>2 DEF RunsTypeOK
<1>4. ASSUME NEW r \in Run, RemoveRemote(r)
      PROVE  /\ UNCHANGED <<kind, alive, lsf, phase>>
             /\ \A s \in alive \ query.missed : file'[s] = file[s]
  <2>1. UNCHANGED <<kind, alive, lsf, phase>>
    BY <1>4 DEF RemoveRemote, world, mainVars
  <2>2. r \notin alive \ query.missed
    BY <1>4 DEF RemoveRemote, ReaderInv
  <2>3. UNCHANGED file \/ file' = [file EXCEPT ![r] = Nil]
    BY <1>4, RemoveRemoteChanges
  <2> QED
    BY <2>1, <2>2, <2>3 DEF RunsTypeOK
<1> QED
  BY <1>1, <1>2, <1>3, <1>4 DEF ShowStatus

LEMMA QueryKeepsReaderInv ==
  ASSUME OwnRunsOnly, RunsTyped, ReaderInv, ShowStatus
  PROVE  ReaderInv'
<1> USE DEF RunsTyped
<1>1. /\ UNCHANGED <<kind, alive, lsf, phase>>
      /\ \A r \in alive \ query.missed : file'[r] = file[r]
  BY ReadersSpareLiveRuns
<1>2. CASE Scan
  <2>1. /\ query'.at = "load" /\ query'.todo = {r \in Run : file[r] # Nil}
        /\ query'.ready = {r \in alive : file[r] # Nil} /\ query'.remote = {}
        /\ query'.missed = {} /\ UNCHANGED file
    BY <1>2 DEF Scan, RunsTypeOK, Queries, rec
  <2> QED
    BY <1>1, <2>1 DEF ReaderInv, Traced, RunsTypeOK
<1>3. CASE Loaded
  <2>1. /\ query.at = "load" /\ query.todo = {} /\ query'.at = "local" /\ query'.todo = query.found
        /\ query'.ready = query.ready /\ query'.remote = query.remote
        /\ query'.missed = query.missed
    BY <1>3 DEF Loaded, RunsTypeOK, Queries
  <2> QED
    BY <1>1, <2>1 DEF ReaderInv, Traced
<1>4. CASE QueryLsfStates
  <2>1. /\ query.at = "local" /\ query.todo = {} /\ query'.at = "remote"
        /\ query'.ready = query.ready /\ query'.remote = query.remote
    BY <1>4, QueryLsfStatesChanges
  <2>2. query.missed = {} /\ \A r \in query.remote \cap alive : r \in lsf
    BY <2>1 DEF ReaderInv
  <2>3. CASE /\ query'.missed = query.missed
             /\ \/ /\ query'.todo = query.remote \ lsf
                   /\ query'.shown = query.shown \cup (query.remote \cap lsf)
                \/ query'.todo = {} /\ query'.shown = query.shown \cup query.remote
    BY <1>1, <2>1, <2>2, <2>3 DEF ReaderInv, Traced
  <2>4. CASE \E listed \in SUBSET query.remote :
               /\ query'.todo = query.remote \ (listed \cap lsf)
               /\ query'.missed = (query.remote \cap lsf) \ listed
               /\ query'.shown = query.shown \cup (listed \cap lsf)
    BY <1>1, <2>1, <2>2, <2>4 DEF ReaderInv, Traced
  <2> QED
    BY <1>4, <2>3, <2>4, QueryLsfStatesChanges
<1>5. CASE PrintStatus
  <2>1. /\ query.at = "remote" /\ query'.at = "printed"
        /\ query'.shown = query.shown /\ query'.ready = query.ready /\ query'.remote = query.remote
        /\ query'.missed = query.missed
    BY <1>5 DEF PrintStatus, RunsTypeOK, Queries
  <2> QED
    BY <1>1, <2>1 DEF ReaderInv, Traced
<1>6. CASE Again
  <2>1. query'.at = "idle" /\ query'.ready = {} /\ query'.remote = {}
    BY <1>6 DEF Again, NoQuery
  <2> QED
    BY <1>1, <2>1 DEF ReaderInv
<1>7. ASSUME NEW r \in Run, LoadStateFile(r)
      PROVE  ReaderInv'
  <2>1. UNCHANGED file
    BY <1>7 DEF LoadStateFile, rec
  <2>2. /\ query.at = "load" /\ query'.at = "load" /\ query'.todo = query.todo \ {r}
        /\ query'.ready = query.ready /\ query'.missed = query.missed
        /\ query'.remote = query.remote
    BY <1>7, LoadStateFileChanges
  <2>3. query'.found = IF file[r] # Nil THEN query.found \cup {r} ELSE query.found
    BY <1>7, LoadStateFileChanges
  <2> QED
    BY <1>1, <2>1, <2>2, <2>3 DEF ReaderInv, Traced
<1>8. ASSUME NEW r \in Run, JudgeLocal(r)
      PROVE  ReaderInv'
  <2>1. /\ query.at = "local" /\ query'.at = "local" /\ query'.todo = query.todo \ {r}
        /\ query'.ready = query.ready /\ query'.missed = query.missed
    BY <1>8, JudgeLocalChanges
  <2>2. \/ query'.shown = query.shown \cup {r} /\ query'.remote = query.remote
        \/ r \notin alive /\ query'.shown = query.shown /\ query'.remote = query.remote
        \/ /\ ~kind[r].local /\ kind[r].job
           /\ query'.shown = query.shown /\ query'.remote = query.remote \cup {r}
    BY <1>8, JudgeLocalChanges, LiveIsActive
  <2> QED
    BY <1>1, <2>1, <2>2 DEF ReaderInv, Traced
<1>9. ASSUME NEW r \in Run, RemoveRemote(r)
      PROVE  ReaderInv'
  BY <1>1, <1>9, RemoveRemoteChanges DEF ReaderInv, Traced
<1> QED
  BY <1>2, <1>3, <1>4, <1>5, <1>6, <1>7, <1>8, <1>9 DEF ShowStatus

LEMMA ReaderStays ==
  ASSUME OwnRunsOnly, RunsTyped, ReaderInv, [RunsNext]_runVars
  PROVE  ReaderInv'
<1>1. ASSUME NEW r \in Run, Owner(r) \/ Watcher(r) \/ Work(r)
      PROVE  ReaderInv'
  <2>1. RunStep
    BY <1>1, OwnerSteps, WatcherSteps
  <2> QED
    BY <2>1 DEF RunStep, QuerySame, ReaderInv, Traced, RunsTyped, RunsTypeOK
<1>2. ASSUME NEW r \in Run, ReusePid(r) \/ LsfDone(r)
      PROVE  ReaderInv'
  <2>1. /\ UNCHANGED <<kind, alive, phase, file, query>>
        /\ \A s \in alive : s \in lsf => s \in lsf'
    BY <1>2 DEF ReusePid, LsfDone, mainVars, rec
  <2> QED
    BY <2>1 DEF ReaderInv, Traced
<1>3. CASE UNCHANGED runVars
  BY <1>3 DEF runVars, world, mainVars, rec, ReaderInv, Traced
<1> QED
  BY <1>1, <1>2, <1>3, QueryKeepsReaderInv DEF RunsNext

-----------------------------------------------------------------------------
(* The life of a record *)

\* Only a reader's removal, or nothing at all, happens to the records meanwhile
LEMMA OthersKeepRecords ==
  ASSUME RunsTyped, RecordsInv,
         UNCHANGED <<alive, phase, late, unremoved, state, recLock, watcher>>,
         \A r \in Run : file'[r] \in {file[r], Nil}
  PROVE  RecordsInv'
<1>1. Nil \notin Ending
  BY ActiveRunAssumption DEF Status
<1> QED
  BY <1>1 DEF RecordsInv

LEMMA OwnerKeepsRecords ==
  ASSUME RunsTyped, RecordsInv, NEW r \in Run, Owner(r)
  PROVE  RecordsInv'
<1> USE DEF RunsTyped, RunsTypeOK, RecordsInv, mainVars, past, rec, watch, world
<1>0. Nil \notin {"owner", "watcher"} /\ Nil \notin Ending /\ "COMPILING" \notin Ending
  BY ActiveRunAssumption DEF Status, Ending
<1>1. CASE Construct(r)
  BY <1>0, <1>1 DEF Construct
<1>2. CASE OwnerWrites(r)
  <2>1. Publish(r, "owner") /\ UNCHANGED <<alive, phase, late, unremoved, watcher>>
    BY <1>2 DEF OwnerWrites
  <2>2. /\ UNCHANGED state /\ recLock[r] = "owner" /\ recLock' = [recLock EXCEPT ![r] = Nil]
        /\ UNCHANGED file \/ file' = [file EXCEPT ![r] = state[r]]
    BY <2>1, PublishWrites
  <2> QED
    BY <1>0, <2>1, <2>2
<1>3. CASE Discovered(r)
  BY <1>0, <1>3 DEF Discovered, Update
<1>4. CASE StartWatching(r)
  <2>1. /\ r \in alive /\ phase[r] = "planned" /\ recLock[r] # "owner"
        /\ UNCHANGED <<alive, late, unremoved, state, file, recLock>>
    BY <1>4 DEF StartWatching
  <2>2. \/ /\ phase' = [phase EXCEPT ![r] = "jobs"]
           /\ watcher' = [watcher EXCEPT ![r] = "check"] /\ watcher[r] # "write"
        \/ phase' = [phase EXCEPT ![r] = "close"] /\ UNCHANGED watcher
    BY <1>4 DEF StartWatching
  <2> QED
    BY <1>0, <2>1, <2>2
<1>5. CASE JobsEnd(r)
  BY <1>0, <1>5 DEF JobsEnd
<1>6. CASE StopWatching(r)
  BY <1>0, <1>6 DEF StopWatching, Joined
<1>7. CASE Finalize(r)
  BY <1>0, <1>7 DEF Finalize, Update
<1>8. CASE PostProcess(r)
  BY <1>0, <1>8 DEF PostProcess
<1>9. CASE Close(r)
  BY <1>0, <1>9 DEF Close
<1>10. CASE Exit(r)
  BY <1>0, <1>10 DEF Exit, Gone
<1>11. CASE Killed(r)
  BY <1>0, <1>11 DEF Killed, Gone
<1> QED
  BY <1>1, <1>2, <1>3, <1>4, <1>5, <1>6, <1>7, <1>8, <1>9, <1>10, <1>11 DEF Owner

LEMMA WatcherKeepsRecords ==
  ASSUME RunsTyped, RecordsInv, NEW r \in Run, Watcher(r)
  PROVE  RecordsInv'
<1> USE DEF RunsTyped, RunsTypeOK, RecordsInv, mainVars, past, rec, watch, world
<1>0. Nil \notin {"owner", "watcher"} /\ Nil \notin Ending /\ Working \cap Ending = {}
  BY ActiveRunAssumption DEF Status, Ending, Working
<1>1. CASE CheckStop(r)
  BY <1>0, <1>1 DEF CheckStop
<1>2. CASE Snapshot(r)
  BY <1>0, <1>2 DEF Snapshot
<1>3. CASE WatcherUpdates(r)
  BY <1>0, <1>3 DEF WatcherUpdates, Update, StatusReady
<1>4. CASE WatcherWrites(r)
  <2>1. CASE Publish(r, "watcher") /\ UNCHANGED watcher
    <3>1. /\ UNCHANGED state /\ recLock[r] = "watcher" /\ recLock' = [recLock EXCEPT ![r] = Nil]
          /\ UNCHANGED file \/ file' = [file EXCEPT ![r] = state[r]]
      BY <2>1, PublishWrites
    <3> QED
      BY <1>0, <1>4, <2>1, <3>1 DEF WatcherWrites
  <2>2. CASE /\ recLock[r] # "watcher" /\ watcher' = [watcher EXCEPT ![r] = "check"]
             /\ UNCHANGED <<rec, query>>
    BY <1>0, <1>4, <2>2 DEF WatcherWrites
  <2> QED
    BY <1>4, <2>1, <2>2 DEF WatcherWrites
<1> QED
  BY <1>1, <1>2, <1>3, <1>4 DEF Watcher

LEMMA ReadersOnlyRemove ==
  ASSUME RunsTyped, ShowStatus
  PROVE  \A r \in Run : file'[r] \in {file[r], Nil}
<1>1. UNCHANGED file \/ \E r \in Run : JudgeLocal(r) \/ RemoveRemote(r)
  BY DEF ShowStatus, Scan, Loaded, QueryLsfStates, PrintStatus, Again, LoadStateFile, rec
<1> QED
  BY <1>1, JudgeLocalChanges, RemoveRemoteChanges DEF RunsTyped, RunsTypeOK

LEMMA RecordsStayRight ==
  ASSUME RunsTyped, RecordsInv, [RunsNext]_runVars
  PROVE  RecordsInv'
<1>1. ASSUME NEW r \in Run, Work(r) \/ ReusePid(r) \/ LsfDone(r)
      PROVE  RecordsInv'
  BY <1>1, OthersKeepRecords DEF Work, ReusePid, LsfDone, world, mainVars, past, rec, watch
<1>2. ASSUME ShowStatus
      PROVE  RecordsInv'
  <2>1. UNCHANGED <<alive, phase, late, unremoved, state, recLock, watcher>>
    BY <1>2 DEF ShowStatus, Scan, Loaded, QueryLsfStates, PrintStatus, Again, LoadStateFile,
       JudgeLocal, RemoveRemote, world, mainVars, past, rec, watch
  <2> QED
    BY <1>2, <2>1, ReadersOnlyRemove, OthersKeepRecords
<1>3. CASE UNCHANGED runVars
  BY <1>3, OthersKeepRecords DEF runVars, world, mainVars, past, rec, watch
<1> QED
  BY <1>1, <1>2, <1>3, OwnerKeepsRecords, WatcherKeepsRecords DEF RunsNext

-----------------------------------------------------------------------------
(* The theorems *)

LEMMA RunsInvAtFirst == RunsInit => RecordsInv /\ ReaderInv /\ EndedInv
<1> SUFFICES ASSUME RunsInit PROVE RecordsInv /\ ReaderInv /\ EndedInv
  OBVIOUS
<1>1. /\ query.at = "idle" /\ query.ready = {} /\ query.remote = {} /\ query.ended = {}
      /\ query.shown = {} /\ query.missed = {}
  BY DEF RunsInit, NoQuery
<1>2. ReaderInv /\ EndedInv
  BY <1>1 DEF RunsInit, ReaderInv, EndedInv
<1>3. \A r \in Run : /\ r \in alive /\ phase[r] = "start" /\ recLock[r] = Nil /\ watcher[r] = "none"
                     /\ state[r] = "DISCOVERING" /\ file[r] = Nil /\ r \notin late
  BY DEF RunsInit
<1>4. Nil \notin {"owner", "watcher"} /\ Nil \notin Ending /\ "DISCOVERING" \notin Ending
  BY ActiveRunAssumption DEF Status, Ending
<1> QED
  BY <1>2, <1>3, <1>4 DEF RecordsInv

\* Whatever runs and readers do, the record of a run holds nothing or one of its statuses, its lock
\* has one owner, and what main or the watch thread is about to write is a status (ActiveRun,
\* load_active_runs)
THEOREM RunsTypeCorrect == RunsSpec => []RunsTyped
<1>1. RunsInit => RunsTyped
  BY RunsTypedAtFirst
<1>2. RunsTyped /\ [RunsNext]_runVars => RunsTyped'
  BY RunsStayTyped
<1> QED
  BY <1>1, <1>2, PTL DEF RunsSpec

\* simmer --status does not print a run that was over when it began if the host and the start time,
\* or LSF, can tell; for runs of any kind and owner, and however slow their threads are
\* (_local_state_is_active, _query_lsf_states)
THEOREM EndedRunsHidden == RunsSpec => []EndedRunsNotShown
<1>1. RunsInit => EndedInv
  BY RunsInvAtFirst
<1>2. RunsTyped /\ EndedInv /\ [RunsNext]_runVars => EndedInv'
  BY EndedStay
<1>3. EndedInv => EndedRunsNotShown
  BY DEF EndedInv, EndedRunsNotShown
<1> QED
  BY <1>1, <1>2, <1>3, RunsTypeCorrect, PTL DEF RunsSpec

LEMMA ReaderCorrect ==
  ASSUME OwnRunsOnly
  PROVE  RunsSpec => []ReaderInv
<1>1. RunsInit => ReaderInv
  BY RunsInvAtFirst
<1>2. RunsTyped /\ ReaderInv /\ [RunsNext]_runVars => ReaderInv'
  BY ReaderStays
<1> QED
  BY <1>1, <1>2, RunsTypeCorrect, PTL DEF RunsSpec

LEMMA RecordsCorrect == RunsSpec => []RecordsInv
<1>1. RunsInit => RecordsInv
  BY RunsInvAtFirst
<1>2. RunsTyped /\ RecordsInv /\ [RunsNext]_runVars => RecordsInv'
  BY RecordsStayRight
<1> QED
  BY <1>1, <1>2, RunsTypeCorrect, PTL DEF RunsSpec

\* A user who asks for his own runs is shown every one that runs from before the query to its end
\* and that bjobs, where it is asked, lists; whatever else the runs do meanwhile (load_active_runs)
THEOREM LiveRunsPrinted ==
  ASSUME OwnRunsOnly
  PROVE  RunsSpec => []LiveRunsShown
<1>1. ReaderInv => LiveRunsShown
  BY DEF ReaderInv, Traced, LiveRunsShown
<1> QED
  BY <1>1, ReaderCorrect, PTL

\* Of one user's runs: live ones that bjobs lists are printed, ended ones are not where that can be
\* told, and a run that exits leaves no record, unless its watch thread outlived the two seconds of
\* the join or the removal failed (ActiveRun.close, load_active_runs)
THEOREM StatusCorrect ==
  ASSUME OwnRunsOnly
  PROVE  RunsSpec => []ActiveRunInv
<1>1. RunsTyped /\ RecordsInv => RunsTypeOK /\ RemovedAtExit
  BY DEF RunsTyped, RecordsInv, RemovedAtExit
<1> QED
  BY <1>1, RunsTypeCorrect, EndedRunsHidden, LiveRunsPrinted, RecordsCorrect, PTL
     DEF ActiveRunInv

\* Under the same assumption only close() removes the record of a live run that bjobs lists, and only
\* a watch thread that outlived its join replaces a final status (load_active_runs, ActiveRun.update)
THEOREM LiveRecordsStay ==
  ASSUME OwnRunsOnly
  PROVE  RunsSpec => RecordsStay
<1> DEFINE Stays ==
      /\ \A r \in alive \ query.missed : file[r] # Nil /\ file'[r] = Nil => phase[r] = "close"
      /\ \A r \in Run \ late : file[r] \in Ending /\ file'[r] # file[r] => file'[r] = Nil
<1>1. RunsTyped /\ ReaderInv /\ RecordsInv /\ [RunsNext]_runVars => [Stays]_runVars
  <2> SUFFICES ASSUME RunsTyped, ReaderInv, RecordsInv, RunsNext
               PROVE  Stays
    OBVIOUS
  <2>1. CASE \E r \in Run : Owner(r) \/ Watcher(r) \/ Work(r)
    <3>1. RunStep
      BY <2>1, OwnerSteps, WatcherSteps
    <3>2. \A r \in Run \ late : file[r] \in Ending => state[r] = file[r]
      BY DEF RecordsInv
    <3> QED
      BY <3>1, <3>2 DEF RunStep, RunsTyped, RunsTypeOK
  <2>2. CASE ShowStatus
    BY <2>2, ReadersSpareLiveRuns, ReadersOnlyRemove
  <2>3. CASE \E r \in Run : ReusePid(r) \/ LsfDone(r)
    BY <2>3 DEF ReusePid, LsfDone, rec
  <2> QED
    BY <2>1, <2>2, <2>3 DEF RunsNext
<1> QED
  BY <1>1, RunsTypeCorrect, ReaderCorrect, RecordsCorrect, PTL DEF RunsSpec, RecordsStay
=============================================================================
