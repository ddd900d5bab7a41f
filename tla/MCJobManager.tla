---------------------------- MODULE MCJobManager ----------------------------
(***************************************************************************)
(* A job graph of bin/simmer.py for TLC.  Priorities are what              *)
(* add_dependency computes, shifted to natural numbers.                    *)
(***************************************************************************)
EXTENDS JobManagerInv

CONSTANTS vcomp, ask, cfg, t1, t2, t3

\* A bench of VCS with --vso and --no-compile.  The Bazel build before the compile and VsoInitJob
\* before VsoAskJob, two more jobs of their kind, are left out.  The ask job and the test configs
\* wait for the compile alone, the simulations for all three
PlanDeps == [j \in Job |-> CASE j = vcomp -> {}
                             [] j \in {ask, cfg} -> {vcomp}
                             [] OTHER -> {vcomp, ask, cfg}]
PlanPriority == [j \in Job |-> CASE j = vcomp -> 0 [] j \in {ask, cfg} -> 1 [] OTHER -> 2]

\* The ask job adds the tests it selects, and a test adds its next iteration
PlanSpawn == [j \in Job |-> CASE j = ask -> {t1, t2} [] j = t1 -> {t3} [] OTHER -> {}]
=============================================================================
