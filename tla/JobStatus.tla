------------------------------ MODULE JobStatus ------------------------------
(***************************************************************************)
(* The status of a job and its legal transitions: class JobStatus of       *)
(* lib/job_lib.py.  A job's status is only ever assigned through Update;   *)
(* where the code raises ValueError the result here is Illegal, a value    *)
(* that is no status, so that an illegal assignment shows up in the type   *)
(* invariant of whoever made it.                                           *)
(***************************************************************************)

Status == {"NOT_STARTED", "TO_BE_BYPASSED", "PASSED", "FAILED", "SKIPPED", "BYPASSED"}

Illegal == "ILLEGAL"

\* value >= PASSED: the job will not change state by running any more
Completed(s) == s \in {"PASSED", "FAILED", "SKIPPED", "BYPASSED"}

Successful(s) == s \in {"PASSED", "BYPASSED"}

\* A faulty variant (see README, "Faulty variants"): a job marked for bypass
\* cannot be skipped
LegalWithoutSkipOfBypass(old, new) ==
  /\ new # "NOT_STARTED"
  /\ \/ old = new
     \/ old = "NOT_STARTED"
     \/ old = "TO_BE_BYPASSED" /\ new \in {"PASSED", "FAILED"}
     \/ old \in {"PASSED", "SKIPPED", "BYPASSED"} /\ new = "FAILED"

Legal(old, new) ==
  /\ new # "NOT_STARTED"
  /\ \/ old = new
     \/ old = "NOT_STARTED"
     \/ old = "TO_BE_BYPASSED" /\ new \in {"PASSED", "FAILED", "SKIPPED"}
     \/ old \in {"PASSED", "SKIPPED", "BYPASSED"} /\ new = "FAILED"

Update(old, new) ==
  IF ~Legal(old, new) THEN Illegal
  ELSE IF old = "TO_BE_BYPASSED" /\ new = "PASSED" THEN "BYPASSED"
  ELSE new
=============================================================================
