---------------------------- MODULE RunDirectory ----------------------------
(***************************************************************************)
(* The run directories of one test with one seed, and the convenience      *)
(* links .last_sim and .last_fail, shared by the jobs of several simmer    *)
(* processes: TestJob.pre_run, its final hooks, and the symlink helpers of *)
(* bin/simmer.py.                                                          *)
(*                                                                         *)
(* The first job to come gets the base directory, the others get one with  *)
(* the pid of their process and a number in its name.  Directories are     *)
(* used again by later runs and hold what an earlier one left.             *)
(***************************************************************************)
EXTENDS Naturals, FiniteSets

CONSTANTS
  Run,         \* the test jobs, all of the same test, seed and iteration
  Process,     \* simmer processes
  ProcessOf,   \* of each job
  Option,      \* what processes may be started with
  MaxFaults,   \* bound: processes that die, file operations that raise
  None

\* <base>, <base>__run_p<pid>, <base>__run_p<pid>_<n>
Base == <<None, 0>>
Directory == {Base} \cup Process \X (1..Cardinality(Run))

ASSUME RunDirectoryAssumption ==
  /\ ProcessOf \in [Run -> Process]
  /\ Option \subseteq [tidy : BOOLEAN, waves : BOOLEAN]
  /\ MaxFaults \in Nat /\ None \notin Run \cup Process \cup Directory
  /\ IsFiniteSet(Run)

Link == {".last_sim", ".last_fail"}
Artifact == {"log", "waves"}
Earlier == "earlier"  \* a run of long ago

VARIABLES
  option,          \* of each process
  holder,          \* who holds <directory>.run.lock
  exists, wrote,   \* directories: is there one, and which run wrote what is in it
  link, linkLock,  \* the links and their locks
  pc, index,       \* of each job: where it is, its collision_index
  sim,             \* its simulation: "none", "alive", "passed", "failed"
  status,          \* jobstatus as post_run sees and records it
  coverage,        \* it has a coverage database
  orphaned,        \* directories where a simulation outlived its process
  crashed, faults

files == <<exists, wrote>>
links == <<link, linkLock>>
vars == <<option, holder, files, links, pc, index, sim, status, coverage, orphaned, crashed, faults>>

DirectoryName(r, i) == IF i = 0 THEN Base ELSE <<ProcessOf[r], i>>
Dir(r) == DirectoryName(r, index[r])
Opt(r) == option[ProcessOf[r]]
Needed(r) == IF Opt(r).waves THEN Artifact ELSE {"log"}

\* There may be the directory of a run of long ago, and the link to it
Init ==
  /\ option \in [Process -> Option]
  /\ holder = [d \in Directory |-> None]
  /\ \E old \in SUBSET {Base} :
       /\ exists = [d \in Directory |-> d \in old]
       /\ wrote = [d \in Directory |-> [a \in Artifact |-> IF d \in old THEN Earlier ELSE None]]
       /\ link = [l \in Link |-> IF Base \in old /\ l = ".last_sim" THEN Base ELSE None]
  /\ linkLock = [l \in Link |-> None]
  /\ pc = [r \in Run |-> "new"] /\ index = [r \in Run |-> 0]
  /\ sim = [r \in Run |-> "none"] /\ status = [r \in Run |-> "none"]
  /\ coverage = [r \in Run |-> FALSE] /\ orphaned = {} /\ crashed = FALSE /\ faults = 0

Goto(r, l) == pc' = [pc EXCEPT ![r] = l]
At(r, from, to) == pc[r] = from /\ Goto(r, to)

(***************************************************************************)
(* pre_run                                                                 *)
(***************************************************************************)
Launch(r) ==
  /\ At(r, "new", "claim")
  /\ UNCHANGED <<option, holder, files, links, index, sim, status, coverage, orphaned, crashed, faults>>

\* _claim_run_directory: the lock is only tried, never waited for
Claim(r) ==
  /\ pc[r] = "claim"
  /\ \/ /\ holder[Dir(r)] = None
        /\ holder' = [holder EXCEPT ![Dir(r)] = r] /\ Goto(r, "prepare") /\ UNCHANGED index
     \/ /\ holder[Dir(r)] # None
        /\ index' = [index EXCEPT ![r] = @ + 1] /\ UNCHANGED <<holder, pc>>
  /\ UNCHANGED <<option, files, links, sim, status, coverage, orphaned, crashed, faults>>

\* Faulty: what an earlier run left stays there
RemoveStaleNothing(r) == wrote[Dir(r)]

\* The log of an earlier run, and its waves when this one captures waves
RemoveStale(r) == [a \in Artifact |-> IF a \in Needed(r) THEN None ELSE wrote[Dir(r)][a]]

Prepare(r) ==
  /\ At(r, "prepare", IF Opt(r).tidy THEN "ready" ELSE "want_sim")
  /\ exists' = [exists EXCEPT ![Dir(r)] = TRUE]
  /\ wrote' = [wrote EXCEPT ![Dir(r)] = RemoveStale(r)]
  /\ UNCHANGED <<option, holder, links, index, sim, status, coverage, orphaned, crashed, faults>>

LinkOf(r) == IF pc[r] \in {"want_fail", "have_fail"} THEN ".last_fail" ELSE ".last_sim"

\* Faulty: remove_symlink_if_target without the lock
LockLinkForReplace(r) ==
  /\ \/ pc[r] \in {"want_sim", "want_fail"} /\ linkLock[LinkOf(r)] = None
     \/ pc[r] = "want_remove"
  /\ Goto(r, CASE pc[r] = "want_sim" -> "have_sim" [] pc[r] = "want_fail" -> "have_fail"
               [] pc[r] = "want_remove" -> "compare")
  /\ linkLock' = IF pc[r] = "want_remove" THEN linkLock ELSE [linkLock EXCEPT ![LinkOf(r)] = r]
  /\ UNCHANGED <<option, holder, files, link, index, sim, status, coverage, orphaned, crashed, faults>>

LockLink(r) ==
  /\ pc[r] \in {"want_sim", "want_fail", "want_remove"} /\ linkLock[LinkOf(r)] = None
  /\ Goto(r, CASE pc[r] = "want_sim" -> "have_sim" [] pc[r] = "want_fail" -> "have_fail"
               [] pc[r] = "want_remove" -> "compare")
  /\ linkLock' = [linkLock EXCEPT ![LinkOf(r)] = r]
  /\ UNCHANGED <<option, holder, files, link, index, sim, status, coverage, orphaned, crashed, faults>>

Unlocked(r) == [l \in Link |-> IF linkLock[l] = r THEN None ELSE linkLock[l]]

\* os.replace puts the new link in the place of the old one
ReplaceSymlink(r) ==
  /\ pc[r] \in {"have_sim", "have_fail"} /\ Goto(r, IF pc[r] = "have_sim" THEN "ready" ELSE "judge")
  /\ link' = [link EXCEPT ![LinkOf(r)] = Dir(r)] /\ linkLock' = Unlocked(r)
  /\ UNCHANGED <<option, holder, files, index, sim, status, coverage, orphaned, crashed, faults>>

Release(r) == holder' = [d \in Directory |-> IF holder[d] = r THEN None ELSE holder[d]]

Launching == {"prepare", "want_sim", "have_sim", "ready"}

\* JobCancelledError and cancel(), also from a lock that was not free
CancelLaunch(r) ==
  /\ pc[r] \in Launching /\ Goto(r, "done") /\ Release(r) /\ linkLock' = Unlocked(r)
  /\ UNCHANGED <<option, files, link, index, sim, status, coverage, orphaned, crashed, faults>>

\* Any other exception: a test config for another simulator, a full disk
LaunchFailed(r) ==
  /\ pc[r] \in Launching /\ faults < MaxFaults /\ faults' = faults + 1
  /\ Goto(r, "done") /\ Release(r) /\ linkLock' = Unlocked(r)
  /\ status' = [status EXCEPT ![r] = "FAILED"]
  /\ UNCHANGED <<option, files, link, index, sim, coverage, orphaned, crashed>>

(***************************************************************************)
(* The simulation                                                          *)
(***************************************************************************)
StartSimulation(r) ==
  /\ At(r, "ready", "running") /\ sim' = [sim EXCEPT ![r] = "alive"]
  /\ UNCHANGED <<option, holder, files, links, index, status, coverage, orphaned, crashed, faults>>

Writes(r) ==
  /\ sim[r] = "alive" /\ exists[Dir(r)]
  /\ \E a \in Needed(r) :
       /\ wrote[Dir(r)][a] # r /\ wrote' = [wrote EXCEPT ![Dir(r)][a] = r]
       /\ coverage' = [coverage EXCEPT ![r] = a = "log" \/ @]
  /\ UNCHANGED <<option, holder, exists, links, pc, index, sim, status, orphaned, crashed, faults>>

\* Its script ends with 0 or not, whatever was written
Ends(r) ==
  /\ sim[r] = "alive"
  /\ \E rc \in {"passed", "failed"} : sim' = [sim EXCEPT ![r] = rc]
  /\ IF pc[r] = "running" THEN Goto(r, IF sim'[r] = "passed" THEN "judge" ELSE "want_fail")
                          ELSE UNCHANGED pc
  /\ UNCHANGED <<option, holder, files, links, index, status, coverage, orphaned, crashed, faults>>

\* kill() ended it: cancel()
Cancel(r) ==
  /\ At(r, "running", "done") /\ sim' = [sim EXCEPT ![r] = "failed"] /\ Release(r)
  /\ UNCHANGED <<option, files, links, index, status, coverage, orphaned, crashed, faults>>

\* Faulty: the directory is given back though the simulation lives
IncompleteShutdownReleases(r) ==
  /\ At(r, "running", "incomplete") /\ faults < MaxFaults /\ faults' = faults + 1
  /\ status' = [status EXCEPT ![r] = "FAILED"] /\ Release(r)
  /\ UNCHANGED <<option, files, links, index, sim, coverage, orphaned, crashed>>

\* ... or could not: the lock stays until the process ends
IncompleteShutdown(r) ==
  /\ At(r, "running", "incomplete") /\ faults < MaxFaults /\ faults' = faults + 1
  /\ status' = [status EXCEPT ![r] = "FAILED"]
  /\ UNCHANGED <<option, holder, files, links, index, sim, coverage, orphaned, crashed>>

(***************************************************************************)
(* post_run                                                                *)
(***************************************************************************)
\* The exit code, the log and the waves
Verdict(r) ==
  IF sim[r] = "passed" /\ \A a \in Needed(r) : wrote[Dir(r)][a] # None THEN "PASSED" ELSE "FAILED"

\* Faulty: the directory is left before it is removed
JudgeReleases(r) ==
  /\ pc[r] = "judge" /\ Release(r)
  /\ status' = [status EXCEPT ![r] = Verdict(r)]
  /\ coverage' = [coverage EXCEPT ![r] = @ /\ Verdict(r) = "PASSED"]
  /\ Goto(r, IF Opt(r).tidy /\ Verdict(r) = "PASSED" THEN "tidy" ELSE "release")
  /\ UNCHANGED <<option, files, links, index, sim, orphaned, crashed, faults>>

\* cleanup_test_coverage of a test that failed, record_test_job
Judge(r) ==
  /\ pc[r] = "judge"
  /\ status' = [status EXCEPT ![r] = Verdict(r)]
  /\ coverage' = [coverage EXCEPT ![r] = @ /\ Verdict(r) = "PASSED"]
  /\ Goto(r, IF Opt(r).tidy /\ Verdict(r) = "PASSED" THEN "tidy" ELSE "release")
  /\ UNCHANGED <<option, holder, files, links, index, sim, orphaned, crashed, faults>>

\* rmtree with ignore_errors
Tidy(r) ==
  /\ At(r, "tidy", "want_remove")
  /\ \E gone \in BOOLEAN :
       /\ exists' = [exists EXCEPT ![Dir(r)] = ~gone]
       /\ wrote' = [wrote EXCEPT ![Dir(r)] = IF gone THEN [a \in Artifact |-> None] ELSE @]
  /\ UNCHANGED <<option, holder, links, index, sim, status, coverage, orphaned, crashed, faults>>

\* Faulty: only the run that made the link removes it
OwnsLinkIfMadeIt(r) == link[".last_sim"] = Dir(r) /\ ~Opt(r).tidy

\* os.readlink and the comparison
OwnsLink(r) == link[".last_sim"] = Dir(r)

Compare(r) ==
  /\ At(r, "compare", IF OwnsLink(r) THEN "remove" ELSE "release")
  /\ linkLock' = IF OwnsLink(r) THEN linkLock ELSE Unlocked(r)
  /\ UNCHANGED <<option, holder, files, link, index, sim, status, coverage, orphaned, crashed, faults>>

RemoveSymlink(r) ==
  /\ At(r, "remove", "release")
  /\ link' = [link EXCEPT ![".last_sim"] = None] /\ linkLock' = Unlocked(r)
  /\ UNCHANGED <<option, holder, files, index, sim, status, coverage, orphaned, crashed, faults>>

ReleaseRunDirectory(r) ==
  /\ At(r, "release", "done") /\ Release(r)
  /\ UNCHANGED <<option, files, links, index, sim, status, coverage, orphaned, crashed, faults>>

\* Faulty: the lock stays with the job
PostRunFailedKeepsLock(r) ==
  /\ pc[r] \in {"want_fail", "have_fail", "judge", "compare", "remove"}
  /\ faults < MaxFaults /\ faults' = faults + 1
  /\ Goto(r, "done") /\ UNCHANGED linkLock
  /\ status' = [status EXCEPT ![r] = "FAILED"]
  /\ UNCHANGED <<option, holder, files, link, index, sim, coverage, orphaned, crashed>>

\* An exception in post_run: the test failed, its lock is released
PostRunFailed(r) ==
  /\ pc[r] \in {"want_fail", "have_fail", "judge", "compare", "remove"}
  /\ faults < MaxFaults /\ faults' = faults + 1
  /\ Goto(r, "done") /\ Release(r) /\ linkLock' = Unlocked(r)
  /\ status' = [status EXCEPT ![r] = "FAILED"]
  /\ UNCHANGED <<option, files, link, index, sim, coverage, orphaned, crashed>>

\* A process is gone, killed or at its end after an incomplete shutdown; the
\* kernel frees its locks, its simulations live on
Die(p) ==
  LET mine == {r \in Run : ProcessOf[r] = p}
      waiting == {r \in mine : pc[r] # "incomplete" /\ pc[r] # "done"}
  IN /\ \E r \in mine : pc[r] \notin {"new", "done", "gone"}
     /\ IF waiting = {} THEN UNCHANGED <<faults, crashed>>
        ELSE faults < MaxFaults /\ faults' = faults + 1 /\ crashed' = TRUE
     /\ pc' = [r \in Run |-> IF r \in mine /\ pc[r] # "done" THEN "gone" ELSE pc[r]]
     /\ holder' = [d \in Directory |-> IF holder[d] \in mine THEN None ELSE holder[d]]
     /\ linkLock' = [l \in Link |-> IF linkLock[l] \in mine THEN None ELSE linkLock[l]]
     /\ orphaned' = orphaned \cup {Dir(r) : r \in {q \in mine : sim[q] = "alive"}}
     /\ UNCHANGED <<option, files, link, index, sim, status, coverage>>

Hooks(r) ==
  \/ Claim(r) \/ Prepare(r) \/ LockLink(r) \/ ReplaceSymlink(r) \/ StartSimulation(r) \/ Judge(r)
  \/ Tidy(r) \/ Compare(r) \/ RemoveSymlink(r) \/ ReleaseRunDirectory(r)

Next ==
  \/ \E r \in Run :
       Launch(r) \/ Hooks(r) \/ CancelLaunch(r) \/ LaunchFailed(r) \/ Writes(r) \/ Ends(r)
         \/ Cancel(r) \/ IncompleteShutdown(r) \/ PostRunFailed(r)
  \/ \E p \in Process : Die(p)

Spec == Init /\ [][Next]_vars

\* Simulations end; link locks are polled
FairSpec ==
  /\ Spec
  /\ \A r \in Run : WF_vars(Hooks(r)) /\ SF_vars(LockLink(r)) /\ WF_vars(Ends(r))
-----------------------------------------------------------------------------
(***************************************************************************)
(* Properties                                                              *)
(***************************************************************************)
TypeOK ==
  /\ option \in [Process -> Option] /\ holder \in [Directory -> Run \cup {None}]
  /\ exists \in [Directory -> BOOLEAN] /\ wrote \in [Directory -> [Artifact -> Run \cup {Earlier, None}]]
  /\ link \in [Link -> Directory \cup {None}] /\ linkLock \in [Link -> Run \cup {None}]
  /\ pc \in [Run -> Launching \cup {"new", "claim", "running", "want_fail", "have_fail", "judge",
                                    "tidy", "want_remove", "compare", "remove", "release",
                                    "done", "incomplete", "gone"}]
  /\ index \in [Run -> 0..Cardinality(Run)]
  /\ sim \in [Run -> {"none", "alive", "passed", "failed"}]
  /\ status \in [Run -> {"none", "PASSED", "FAILED"}] /\ coverage \in [Run -> BOOLEAN]
  /\ orphaned \subseteq Directory /\ crashed \in BOOLEAN /\ faults \in 0..MaxFaults

\* No two jobs work in one directory, and no simulation runs in one that
\* another job prepares, reads or removes, unless its process is gone
OneRunPerDirectory ==
  \A r, s \in Run :
    /\ r # s /\ Dir(r) = Dir(s) /\ Dir(r) \notin orphaned
    /\ pc[r] \notin {"new", "claim", "done", "gone"}
    => sim[s] # "alive" /\ pc[s] \in {"new", "claim", "done", "gone"}

\* A test passes on a log, and waves if it captures them, of its own
\* simulation, though it may run in a directory an earlier run left
PassedHasOwnArtifacts ==
  \A r \in Run :
    pc[r] \in {"tidy", "release"} /\ status[r] = "PASSED" /\ Dir(r) \notin orphaned /\ exists[Dir(r)]
      => \A a \in Needed(r) : wrote[Dir(r)][a] = r

\* .last_sim leads to a directory, except while the job that removed it is
\* about to remove the link as well: no job removes the directory of
\* another, and none forgets a link an earlier run made
LastSimResolves ==
  link[".last_sim"] # None /\ ~crashed /\ faults = 0 /\ ~exists[link[".last_sim"]]
    => \E r \in Run : pc[r] \in {"want_remove", "compare", "remove"} /\ Dir(r) = link[".last_sim"]

\* Directories and links, whoever claims, removes and replaces them
RunDirectoryInv == TypeOK /\ OneRunPerDirectory /\ LastSimResolves

\* A link is only removed by a job whose own directory it leads to, never
\* one that another process put there a moment ago.  What a failed run wrote
\* stays until a later run of the same test claims the directory: --tidy
\* removes passed runs only
OthersUntouched ==
  [][ /\ \A l \in Link : link[l] # None /\ link'[l] = None
           => \E r \in Run : pc[r] = "remove" /\ link[l] = Dir(r)
      /\ \A r \in Run : status[r] = "FAILED" /\ wrote[Dir(r)]["log"] = r /\ wrote'[Dir(r)]["log"] # r
           => \E s \in Run : s # r /\ (holder[Dir(r)] = s \/ Dir(r) \in orphaned) ]_vars

\* "Failed-test databases are removed before merge", says the documentation.
\* The code does not keep it: see README.md
FailedLeaveNoCoverage == \A r \in Run : pc[r] = "done" /\ status[r] = "FAILED" => ~coverage[r]

\* A job that was launched gets a directory and comes to an end, and frees
\* the directory unless its simulation cannot be ended
JobsSettle ==
  \A r \in Run : pc[r] = "claim" ~> \/ pc[r] \in {"incomplete", "gone"}
                                    \/ pc[r] = "done" /\ \A d \in Directory : holder[d] # r
=============================================================================
