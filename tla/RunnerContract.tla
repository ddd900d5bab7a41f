--------------------------- MODULE RunnerContract ---------------------------
(***************************************************************************)
(* What a job runner promises about its process group, without signals,    *)
(* deadlines or locks.  These are the states JobManager gives a process;   *)
(* JobRunner implements this specification.                                *)
(***************************************************************************)

VARIABLES
  group,     \* the process group, see Group
  verdict    \* "none" until the runner is done, then whether the group is gone

contractVars == <<group, verdict>>

Group == {"running", "stopped", "closing", "exited"}
Verdict == {"none", "gone", "left"}

Init == group = "running" /\ verdict = "none"

\* A group may be told to end while it is being stopped, or before it continues
Stop == group \in {"running", "closing"} /\ group' = "stopped" /\ UNCHANGED verdict
Continue == group = "stopped" /\ group' \in {"running", "closing"} /\ UNCHANGED verdict

\* The runner ends it, or its shell leaves background processes behind
Close == group \in {"running", "stopped"} /\ group' = "closing" /\ UNCHANGED verdict

Exit == group # "exited" /\ group' = "exited" /\ UNCHANGED verdict

\* "gone" is only ever said of a group that has exited; "left" may be said of
\* one that has, by a thread that waited too short, or lost the shell
ReportGone == group = "exited" /\ verdict' = "gone" /\ UNCHANGED group
GiveUp == group # "running" /\ verdict' = "left" /\ UNCHANGED group

Next == Stop \/ Continue \/ Close \/ Exit \/ ReportGone \/ GiveUp

Spec == Init /\ [][Next]_contractVars
=============================================================================
