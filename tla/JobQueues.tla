----------------------------- MODULE JobQueues -----------------------------
(***************************************************************************)
(* The job graph and the lists of the scheduler, in lib/job_lib.py:        *)
(* Job.add_dependency computes priorities, JobManager keeps its queues     *)
(* sorted by them and walks them once for each pass.  JobManager.tla takes *)
(* from here that a dependency has the smaller priority, and that what a   *)
(* walk does to the lists is what JobPass says of sets.                    *)
(***************************************************************************)
EXTENDS Integers, Sequences, FiniteSetsExt, SequencesExt, JobStatus

CONSTANTS
  Job,
  BasePriority,      \* the priority of a job nothing depends on, -3600
  MaxDependencies    \* bound: how often add_dependency is called

ASSUME PriorityAssumption ==
  IsFiniteSet(Job) /\ BasePriority \in Int /\ BasePriority < 0

VARIABLES
  dependencies,   \* dependencies[j][d]: how often j._dependencies has d
  priority,
  calls, value,   \* calls[j]: calls of j.increase_priority(value) still to be made
  added,          \* jobs passed to add_job
  todo, ready,    \* the lists
  status

graph == <<dependencies, priority, calls, value>>
queues == <<added, todo, ready, status>>
vars == <<graph, queues>>

TypeOK ==
  /\ dependencies \in [Job -> [Job -> Nat]]
  /\ priority \in [Job -> Int] /\ calls \in [Job -> Nat] /\ value \in Int
  /\ added \subseteq Job /\ todo \in Seq(Job) /\ ready \in Seq(Job)
  /\ status \in [Job -> Status]

Init ==
  /\ dependencies = [j \in Job |-> [d \in Job |-> 0]]
  /\ priority = [j \in Job |-> BasePriority]
  /\ calls = [j \in Job |-> 0] /\ value = BasePriority
  /\ added = {} /\ todo = <<>> /\ ready = <<>>
  /\ status = [j \in Job |-> "NOT_STARTED"]

Deps == [j \in Job |-> {d \in Job : dependencies[j][d] > 0}]

\* What a walk over the queues does, in terms of sets
Sets == INSTANCE JobPass WITH Priority <- priority
-----------------------------------------------------------------------------
(* The graph. *)

\* No call of add_dependency is under way
Settled == \A j \in Job : calls[j] = 0

\* j, its dependencies, theirs, and so on
Needs(j) ==
  LET up[S \in SUBSET Job] ==
        LET T == S \cup UNION {Deps[k] : k \in S} IN IF T = S THEN S ELSE up[T]
  IN up[{j}]

\* Faulty: a job added later may depend on one that is still waiting
MayDependOnWaiting(j, d) ==
  /\ MapThenSumSet(LAMBDA p : dependencies[p[1]][p[2]], Job \X Job) < MaxDependencies
  /\ j # d /\ j \notin Needs(d)
  /\ j \notin added

\* What all callers do: main builds the graph before it adds jobs, without
\* cycles; a test cloned later depends on the compile job that its test had
MayDepend(j, d) ==
  /\ MapThenSumSet(LAMBDA p : dependencies[p[1]][p[2]], Job \X Job) < MaxDependencies
  /\ j # d /\ j \notin Needs(d)
  /\ j \notin added /\ (added = {} \/ Successful(status[d]))

\* Faulty: the weight of the job itself, without that of its children
AddDependencyUnweighted(j, d) ==
  /\ Settled /\ MayDepend(j, d)
  /\ dependencies' = [dependencies EXCEPT ![j][d] = @ + 1]
  /\ calls' = [calls EXCEPT ![d] = 1] /\ value' = BasePriority
  /\ UNCHANGED <<priority, queues>>

AddDependency(j, d) ==
  /\ Settled /\ MayDepend(j, d)
  /\ dependencies' = [dependencies EXCEPT ![j][d] = @ + 1]
  /\ calls' = [calls EXCEPT ![d] = 1] /\ value' = priority[j]
  /\ UNCHANGED <<priority, queues>>

\* Faulty: the dependencies are not visited
IncreasePriorityOnce(j) ==
  /\ calls[j] > 0
  /\ priority' = [priority EXCEPT ![j] = @ + value]
  /\ calls' = [calls EXCEPT ![j] = @ - 1]
  /\ UNCHANGED <<dependencies, value, queues>>

\* One call, which makes one more for each dependency
IncreasePriority(j) ==
  /\ calls[j] > 0
  /\ priority' = [priority EXCEPT ![j] = @ + value]
  /\ calls' = [d \in Job |-> calls[d] + dependencies[j][d] - (IF d = j THEN 1 ELSE 0)]
  /\ UNCHANGED <<dependencies, value, queues>>
-----------------------------------------------------------------------------
(* The lists. *)

\* Faulty: the job is appended
InsortLast(list, j) == Append(list, j)

\* bisect.insort_right, on a sorted list
Insort(list, j) ==
  InsertAt(list, 1 + Quantify(DOMAIN list, LAMBDA i : priority[list[i]] <= priority[j]), j)

\* add_job, by main, or by a post_run for a clone
AddJob(j) ==
  /\ Settled /\ j \notin added
  /\ added' = added \cup {j} /\ todo' = Insort(todo, j)
  /\ UNCHANGED <<graph, ready, status>>

\* Faulty: the statuses are those from before the pass
VisitLate(pass, j) ==
  IF \E d \in Deps[j] : ~Completed(status[d]) THEN [pass EXCEPT !.todo = Append(@, j)]
  ELSE IF \A d \in Deps[j] : Successful(status[d]) THEN [pass EXCEPT !.ready = Insort(@, j)]
  ELSE [pass EXCEPT !.status[j] = Update(@, "SKIPPED")]

\* The loop body of _move_todo_to_ready_locked
Visit(pass, j) ==
  IF \E d \in Deps[j] : ~Completed(pass.status[d]) THEN [pass EXCEPT !.todo = Append(@, j)]
  ELSE IF \A d \in Deps[j] : Successful(pass.status[d]) THEN [pass EXCEPT !.ready = Insort(@, j)]
  ELSE [pass EXCEPT !.status[j] = Update(@, "SKIPPED")]

\* _move_todo_to_ready_locked: one walk over the jobs that wait
MoveTodoToReady(waiting, st) ==
  FoldLeft(Visit, [todo |-> <<>>, ready |-> ready, status |-> st], waiting)

\* Top of the loop of _run_jobs.  _take_ready_job_locked takes the first job
\* that can be launched, if any: here any job, or none
RunJobs ==
  /\ LET pass == MoveTodoToReady(todo, status)
     IN /\ todo' = pass.todo /\ status' = pass.status
        /\ \/ ready' = pass.ready
           \/ \E i \in DOMAIN pass.ready : ready' = RemoveAt(pass.ready, i)
  /\ UNCHANGED <<graph, added>>

\* Faulty: only the children, not theirs
LeftByChildren(waiting, j) == {c \in waiting : j \notin Deps[c]}

\* What _move_children_to_skipped_locked leaves of the jobs in todo
Left(waiting, j) ==
  LET left[rest \in SUBSET waiting] ==
        [p \in Job |-> FoldSet(LAMBDA c, r : IF c \in r THEN left[r \ {c}][c] ELSE r, rest,
                               {c \in Job : p \in Deps[c]})]
  IN left[waiting][j]

\* Faulty: the outcome of a job is recorded again
LaunchedBefore == added \ ToSet(todo \o ready)

\* The jobs that were taken and have no outcome yet
Launched == {j \in added \ ToSet(todo \o ready) : ~Completed(status[j])}

Outcome(j, s) == [status EXCEPT ![j] = Update(@, s)]

\* The list without all jobs that are not in S
Keep(list, S) == FoldLeft(LAMBDA kept, c : IF c \in S THEN Append(kept, c) ELSE kept, <<>>, list)

\* _move_children_to_skipped_locked, after j failed
SkipChildren(j) ==
  LET left == Left(ToSet(todo), j)
  IN [todo |-> Keep(todo, left),
      status |-> [c \in Job |-> IF c \in ToSet(todo) \ left THEN Update(status[c], "SKIPPED")
                                ELSE Outcome(j, "FAILED")[c]]]

\* A launch fails: the jobs below j are skipped
LaunchFailed(j) ==
  /\ j \in Launched
  /\ todo' = SkipChildren(j).todo /\ status' = SkipChildren(j).status
  /\ UNCHANGED <<graph, added, ready>>

\* _complete_job: the same if the job failed, and a pass over what is left
CompleteJob(j) ==
  /\ j \in Launched
  /\ \E kept \in {[todo |-> todo, status |-> Outcome(j, "PASSED")], SkipChildren(j)} :
       LET pass == MoveTodoToReady(kept.todo, kept.status)
       IN todo' = pass.todo /\ ready' = pass.ready /\ status' = pass.status
  /\ UNCHANGED <<graph, added>>

Next ==
  \/ \E j, d \in Job : AddDependency(j, d)
  \/ \E j \in Job : IncreasePriority(j) \/ AddJob(j) \/ LaunchFailed(j) \/ CompleteJob(j)
  \/ RunJobs

Spec == Init /\ [][Next]_vars
-----------------------------------------------------------------------------
\* The assumption of JobManager: every dependency runs before the jobs that
\* depend on it, however the priorities of shared dependencies add up.
DependencyFirst ==
  Settled => \A j \in Job : \A d \in Deps[j] : priority[d] < priority[j]

\* What the jobs that depend on d add to its priority
WeightsOn(d) == [j \in Job |-> dependencies[j][d] * priority[j]]

\* add_dependency keeps a job's priority the sum of the priorities of the jobs
\* that wait for it, each dependency counted, in whatever order the graph grew.
PriorityCountsJobs ==
  Settled => \A d \in Job :
    priority[d] = BasePriority + SumFunctionOnSet(WeightsOn(d), Job)

\* The lists that insort_right inserts into are sorted, although a clone that
\* is created later raises priorities after the jobs were inserted.
QueuesSorted ==
  \A list \in {todo, ready} : IsSorted(list, LAMBDA j, k : priority[j] <= priority[k])

\* The numbers and lists the scheduler relies on, whatever is added to the graph and when
QueuesInv == TypeOK /\ PriorityCountsJobs /\ QueuesSorted

\* The new queues are what a pass makes of the sets t and st, without T
IsSetPass(t, st, T) ==
  LET R == Sets!Unblocked(t, st)
      S == {j \in Job : status'[j] # st[j]}
  IN /\ Sets!SkippedByPass(S, t, st)
     /\ status' = Sets!MarkSkipped(st, S)
     /\ ToSet(todo') = t \ (S \cup R) /\ ToSet(ready') = (ToSet(ready) \cup R) \ T

\* The scheduler's walk over todo is the pass over sets that JobManager has, and
\* one walk is enough: no job whose dependencies are all completed stays in
\* todo, where the scheduler would see it only at its next wake-up.
PassIsSetPass ==
  [][RunJobs =>
       /\ \E T \in SUBSET Job : Cardinality(T) <= 1 /\ IsSetPass(ToSet(todo), status, T)
       /\ \A j \in ToSet(todo') : \E d \in Deps[j] : ~Completed(status'[d])]_vars

\* So is what _complete_job does: the recursion removes the set K below a
\* failed job, and the pass that follows sees the jobs that are left.
CompletionIsSetStep ==
  [][\A j \in Job : CompleteJob(j) =>
       IF status'[j] = "PASSED"
       THEN IsSetPass(ToSet(todo), Outcome(j, "PASSED"), {})
       ELSE \E K \in SUBSET ToSet(todo) :
              /\ Sets!SkippedBelow(K, ToSet(todo), j)
              /\ IsSetPass(ToSet(todo) \ K, Sets!MarkSkipped(Outcome(j, "FAILED"), K), {})]_vars
=============================================================================
