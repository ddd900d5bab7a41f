------------------------------ MODULE JobPass ------------------------------
(***************************************************************************)
(* What the scheduler of lib/job_lib.py skips and unblocks, as sets: the   *)
(* result of walking its lists in priority order.  Priority is what        *)
(* add_dependency computes: smaller for a dependency than for the jobs     *)
(* that depend on it.                                                      *)
(***************************************************************************)
EXTENDS Integers, JobStatus

CONSTANTS
  Job,            \* every job of the invocation
  Deps,           \* Deps[j]: the jobs j depends on
  Priority        \* Priority[j]: smaller runs first

\* The statuses st after the jobs S were skipped
MarkSkipped(st, S) ==
  [j \in Job |-> IF j \in S /\ ~Completed(st[j]) THEN Update(st[j], "SKIPPED") ELSE st[j]]

\* Faulty: a dependency only has to be completed
UnblockedByCompletion(t, st) == {j \in t : \A d \in Deps[j] : Completed(st[d])}

\* Jobs of t that one pass of _move_todo_to_ready_locked makes ready
Unblocked(t, st) == {j \in t : \A d \in Deps[j] : Successful(st[d])}

\* S is what that pass skips: it walks t in priority order, so a job sees
\* the dependencies that the same pass has skipped before it
SkippedByPass(S, t, st) ==
  S = {j \in t :
         /\ \A d \in Deps[j] : Completed(st[d]) \/ (d \in S /\ Priority[d] < Priority[j])
         /\ \E d \in Deps[j] : ~Successful(st[d])}

\* Faulty: everything that waits is skipped
SkippedBelowAnything(K, t, j) == K = t

\* K is what _move_children_to_skipped_locked removes from t: the children
\* of j that are still there, their children, and so on
SkippedBelow(K, t, j) == K = {c \in t : Deps[c] \cap ({j} \cup K) # {}}
=============================================================================
