---------------------------- MODULE RuntimeLocks ----------------------------
(***************************************************************************)
(* The directories simmer processes of one project share while they run    *)
(* (VCompJob in bin/simmer.py, prepare_regression_runtime and              *)
(* cleanup_shared_runtime_artifacts of the backends): a process takes the  *)
(* lock of each for the whole run, then the lock of a compile directory    *)
(* while it compiles there, and cleans up before it gives them back.       *)
(*                                                                         *)
(* No name here is one of CompileDir, so that both can be extended.        *)
(***************************************************************************)
EXTENDS Naturals, FiniteSets

CONSTANTS
  Process,        \* simmer processes
  Benches,        \* the benches are numbered 1..Benches, by the path of their directories
  MaxInterrupts,  \* bound: processes with a Ctrl-C
  MaxCrashes,     \* bound: processes that are killed, or end beside simulations they cannot end
  NoBench

ASSUME RuntimeLocksAssumption ==
  /\ Process # {} /\ IsFiniteSet(Process) /\ Benches \in Nat \ {0}
  /\ MaxInterrupts \in Nat /\ MaxCrashes \in Nat

Bench == 1..Benches

VARIABLES
  stage,      \* where each process is
  needs,      \* its benches
  shares,     \* does its backend share their directories: XRUN, or VCS with --cm?
  held,       \* the runtime locks it has: _shared_runtime_locks (those of the backend's
              \* directory and of the coverage of a bench, taken side by side, are one)
  compiling,  \* the bench whose compile lock it has, or NoBench
  compiled,   \* the benches it has compiled
  running,    \* the benches with simulations it started, also if it is gone
  simulated,  \* the benches whose simulations are over
  cleaned,    \* the benches whose directory it has cleaned
  interrupted, \* the processes with a Ctrl-C: any further one is ignored
  lost,       \* the processes that ended without ending their simulations
  lacking     \* history variable: the locks a process waited for when Ctrl-C came

own == <<needs, shares>>
fate == <<interrupted, lost, lacking>>
locksVars == <<stage, own, held, compiling, compiled, running, simulated, cleaned, fate>>

LocksInit ==
  /\ needs \in [Process -> (SUBSET Bench) \ {{}}] /\ shares \in [Process -> BOOLEAN]
  /\ stage = [p \in Process |-> "prepare"] /\ held = [p \in Process |-> {}]
  /\ compiling = [p \in Process |-> NoBench] /\ compiled = [p \in Process |-> {}]
  /\ running = [p \in Process |-> {}] /\ simulated = [p \in Process |-> {}]
  /\ cleaned = [p \in Process |-> {}]
  /\ interrupted = {} /\ lost = {} /\ lacking = [p \in Process |-> {}]

Free(b) == \A q \in Process : b \notin held[q]
CompileFree(b) == \A q \in Process : compiling[q] # b

----------------------------------------------------------------------------

\* Faulty: in the order of the command line
NextLockAny(p, b) == b \in needs[p] \ held[p]

\* The locks are taken in the order of the paths
NextLock(p, b) == b \in needs[p] \ held[p] /\ \A c \in needs[p] \ held[p] : b <= c

\* acquire_shared_runtime_lock: polled until it is free
AcquireRuntimeLock(p, b) ==
  /\ stage[p] = "prepare" /\ shares[p] /\ NextLock(p, b) /\ Free(b)
  /\ held' = [held EXCEPT ![p] = @ \cup {b}]
  /\ UNCHANGED <<stage, own, compiling, compiled, running, simulated, cleaned, fate>>

\* Faulty: a process starts with the first lock it gets
HasLocksSome(p) == shares[p] => held[p] # {}

HasLocks(p) == shares[p] => held[p] = needs[p]

\* prepare_regression_runtime is done
Prepared(p) ==
  /\ stage[p] = "prepare" /\ HasLocks(p)
  /\ stage' = [stage EXCEPT ![p] = "jobs"]
  /\ UNCHANGED <<own, held, compiling, compiled, running, simulated, cleaned, fate>>

\* A compile is exclusive in its process, and in its directory
CompileStarts(p, b) ==
  /\ stage[p] = "jobs" /\ b \in needs[p] \ compiled[p] /\ compiling[p] = NoBench /\ running[p] = {}
  /\ CompileFree(b)
  /\ compiling' = [compiling EXCEPT ![p] = b]
  /\ UNCHANGED <<stage, own, held, compiled, running, simulated, cleaned, fate>>

CompileEnds(p) ==
  /\ stage[p] = "jobs" /\ compiling[p] # NoBench
  /\ compiled' = [compiled EXCEPT ![p] = @ \cup {compiling[p]}]
  /\ compiling' = [compiling EXCEPT ![p] = NoBench]
  /\ UNCHANGED <<stage, own, held, running, simulated, cleaned, fate>>

\* Once per bench stands for all its tests
SimulationStarts(p, b) ==
  /\ stage[p] = "jobs" /\ b \in compiled[p] \ (running[p] \cup simulated[p]) /\ compiling[p] = NoBench
  /\ \A c \in needs[p] : c \in compiled[p]
  /\ running' = [running EXCEPT ![p] = @ \cup {b}]
  /\ UNCHANGED <<stage, own, held, compiling, compiled, simulated, cleaned, fate>>

SimulationEnds(p, b) ==
  /\ stage[p] = "jobs" /\ b \in running[p]
  /\ running' = [running EXCEPT ![p] = @ \ {b}]
  /\ simulated' = [simulated EXCEPT ![p] = @ \cup {b}]
  /\ UNCHANGED <<stage, own, held, compiling, compiled, cleaned, fate>>

JobsDone(p) ==
  /\ stage[p] = "jobs" /\ simulated[p] = needs[p]
  /\ stage' = [stage EXCEPT ![p] = "clean"]
  /\ UNCHANGED <<own, held, compiling, compiled, running, simulated, cleaned, fate>>

\* Faulty: the locks are given back first
CleanAfterRelease(p, b) ==
  /\ stage[p] = "clean" /\ shares[p] /\ b \in needs[p] \ cleaned[p]
  /\ cleaned' = [cleaned EXCEPT ![p] = @ \cup {b}]
  /\ held' = [held EXCEPT ![p] = {}]
  /\ UNCHANGED <<stage, own, compiling, compiled, running, simulated, fate>>

\* _cleanup_shared_runtime_files: scratch files in the directories of all benches, known from
\* the moment preparation began
Clean(p, b) ==
  /\ stage[p] = "clean" /\ shares[p] /\ b \in needs[p] \ cleaned[p]
  /\ cleaned' = [cleaned EXCEPT ![p] = @ \cup {b}]
  /\ UNCHANGED <<stage, own, held, compiling, compiled, running, simulated, fate>>

ReleaseRuntimeLock(p, b) ==
  /\ stage[p] = "clean" /\ cleaned[p] = needs[p] /\ b \in held[p]
  /\ held' = [held EXCEPT ![p] = @ \ {b}]
  /\ UNCHANGED <<stage, own, compiling, compiled, running, simulated, cleaned, fate>>

Done(p) ==
  /\ stage[p] = "clean" /\ held[p] = {} /\ (shares[p] => cleaned[p] = needs[p])
  /\ stage' = [stage EXCEPT ![p] = "done"]
  /\ UNCHANGED <<own, held, compiling, compiled, running, simulated, cleaned, fate>>

\* Ctrl-C: all jobs are ended and then everything is cleaned up, also directories whose locks the
\* process was still waiting for; in the cleanup it ends the process, and the system drops its locks
Interrupt(p) ==
  /\ stage[p] # "done" /\ p \notin interrupted /\ Cardinality(interrupted) < MaxInterrupts
  /\ interrupted' = interrupted \cup {p}
  /\ running' = [running EXCEPT ![p] = {}] /\ compiling' = [compiling EXCEPT ![p] = NoBench]
  /\ \/ stage[p] = "prepare" /\ lacking' = [lacking EXCEPT ![p] = needs[p] \ held[p]]
     \/ stage[p] # "prepare" /\ UNCHANGED lacking
  /\ \/ stage[p] \in {"prepare", "jobs"} /\ stage' = [stage EXCEPT ![p] = "clean"] /\ UNCHANGED held
     \/ /\ stage[p] = "clean" /\ stage' = [stage EXCEPT ![p] = "done"]
        /\ held' = [held EXCEPT ![p] = {}]
  /\ UNCHANGED <<own, compiled, simulated, cleaned, lost>>

\* The process is gone, and with it its locks, but not the simulations in S: these are in sessions
\* of their own and do not inherit the locks
Lose(p, S) ==
  /\ stage[p] # "done" /\ Cardinality(lost) < MaxCrashes /\ lost' = lost \cup {p}
  /\ stage' = [stage EXCEPT ![p] = "done"] /\ held' = [held EXCEPT ![p] = {}]
  /\ running' = [running EXCEPT ![p] = S] /\ compiling' = [compiling EXCEPT ![p] = NoBench]
  /\ UNCHANGED <<own, compiled, simulated, cleaned, interrupted, lacking>>

\* A kill: all of them go on
Crash(p) == Lose(p, running[p])

\* Process groups that cannot be ended, at the end of the jobs or after Ctrl-C: cleanup is skipped
EndUnreaped(p) == \E S \in (SUBSET running[p]) \ {{}} : Lose(p, S)

\* A simulation nobody waits for ends, if ever
OrphanEnds(p, b) ==
  /\ p \in lost /\ b \in running[p]
  /\ running' = [running EXCEPT ![p] = @ \ {b}]
  /\ UNCHANGED <<stage, own, held, compiling, compiled, simulated, cleaned, fate>>

LocksStep(p) ==
  \/ Prepared(p) \/ CompileEnds(p) \/ JobsDone(p) \/ Done(p)
  \/ \E b \in Bench : \/ AcquireRuntimeLock(p, b) \/ CompileStarts(p, b)
                      \/ SimulationStarts(p, b)
                      \/ SimulationEnds(p, b) \/ Clean(p, b) \/ ReleaseRuntimeLock(p, b)

LocksNext ==
  \E p \in Process : \/ LocksStep(p) \/ Interrupt(p) \/ Crash(p) \/ EndUnreaped(p)
                     \/ \E b \in Bench : OrphanEnds(p, b)

LocksSpec == LocksInit /\ [][LocksNext]_locksVars

\* Processes and their jobs go on; a lock is polled, and each process takes it once
LocksFairSpec == LocksSpec /\ \A p \in Process : WF_locksVars(LocksStep(p))

----------------------------------------------------------------------------
(* Properties *)

LocksTypeOK ==
  /\ stage \in [Process -> {"prepare", "jobs", "clean", "done"}]
  /\ needs \in [Process -> SUBSET Bench] /\ shares \in [Process -> BOOLEAN]
  /\ held \in [Process -> SUBSET Bench] /\ compiling \in [Process -> Bench \cup {NoBench}]
  /\ compiled \in [Process -> SUBSET Bench] /\ running \in [Process -> SUBSET Bench]
  /\ simulated \in [Process -> SUBSET Bench] /\ cleaned \in [Process -> SUBSET Bench]
  /\ interrupted \subseteq Process /\ lost \subseteq Process /\ lacking \in [Process -> SUBSET Bench]
  /\ \A p \in Process : /\ held[p] \subseteq needs[p] /\ compiled[p] \subseteq needs[p]
                        /\ running[p] \cup simulated[p] \subseteq compiled[p] /\ cleaned[p] \subseteq needs[p]

\* Two processes never simulate in a directory that the backend shares, except where one is gone
\* and its simulations live on (prepare_regression_runtime)
UseIsExclusive ==
  \A p, q \in Process \ lost :
    p # q /\ shares[p] /\ shares[q] => running[p] \cap running[q] = {}

\* Cleanup removes files only where no other process simulates, except for those that are gone,
\* and for directories whose lock the cleaning process waited for when Ctrl-C came
\* (cleanup_shared_runtime_artifacts)
CleanupNotInUse ==
  [][\A p \in Process, q \in Process \ lost :
       p # q /\ shares[q] => (cleaned'[p] \ cleaned[p]) \cap running[q] \subseteq lacking[p]]_locksVars

\* Every process gets through: two of them never wait for each other's locks, whatever benches
\* they share and whether the backend shares directories, also after Ctrl-C and kills
EveryRunEnds == \A p \in Process : <>(stage[p] = "done")
=============================================================================
