---------------------------- MODULE JobLifecycle ----------------------------
(***************************************************************************)
(* What the job manager promises about the jobs of one simmer invocation,  *)
(* without queues, threads or locks.  A job waits as "pending", runs, and  *)
(* ends in exactly one way.  JobManager implements this specification.     *)
(***************************************************************************)
EXTENDS Naturals, FiniteSets

CONSTANTS Job, Deps, Exclusive, ActiveJobLimit

VARIABLES
  phase,   \* phase[j], see Phase
  halted   \* the quit count was reached or the user stopped the regression

lifecycleVars == <<phase, halted>>

\* "stopped": killed on request; "lost": its processes could not be reaped
Phase == {"pending", "running", "passed", "failed", "skipped", "stopped", "lost"}

Init == phase = [j \in Job |-> "pending"] /\ halted = FALSE

\* Jobs whose processes may be alive
Occupying == {j \in Job : phase[j] \in {"running", "lost"}}

\* Room for j: an exclusive job runs alone, the others up to the limit
Fits(j) ==
  IF j \in Exclusive THEN Occupying = {}
  ELSE Occupying \cap Exclusive = {} /\ Cardinality(Occupying) < ActiveJobLimit

Start(j) ==
  /\ phase[j] = "pending" /\ Fits(j)
  /\ \A d \in Deps[j] : phase[d] = "passed"
  /\ phase' = [phase EXCEPT ![j] = "running"] /\ UNCHANGED halted

\* Jobs are skipped because of a dependency that did not pass, or at the end
Excused(S) ==
  \/ halted'
  \/ \A j \in S : \E d \in Deps[j] : phase'[d] \in {"failed", "skipped", "lost"}

Skip(S) ==
  /\ \A j \in S : phase[j] = "pending"
  /\ phase' = [j \in Job |-> IF j \in S THEN "skipped" ELSE phase[j]]
  /\ halted' \in {halted, TRUE}
  /\ Excused(S)

\* j ends with result r, and the jobs S are skipped in the same step.  A job
\* that fails to launch ends without having run.
End(j, r, S) ==
  /\ phase[j] = "running" \/ (phase[j] = "pending" /\ r = "failed")
  /\ \A k \in S : phase[k] = "pending" /\ k # j
  /\ phase' = [k \in Job |-> IF k = j THEN r ELSE IF k \in S THEN "skipped" ELSE phase[k]]
  /\ halted' \in {halted, TRUE}
  /\ Excused(S)

Stop(j) ==
  /\ phase[j] \in {"running", "lost"} /\ halted
  /\ phase' = [phase EXCEPT ![j] = "stopped"] /\ UNCHANGED halted

Next ==
  \/ \E S \in SUBSET Job : Skip(S)
  \/ \E j \in Job :
       \/ Start(j) \/ Stop(j)
       \/ \E r \in {"passed", "failed", "lost"}, S \in SUBSET Job : End(j, r, S)

Spec == Init /\ [][Next]_lifecycleVars
=============================================================================
