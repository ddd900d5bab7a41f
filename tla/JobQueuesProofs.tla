-------------------------- MODULE JobQueuesProofs --------------------------
(***************************************************************************)
(* Proofs about JobQueues, for every set of jobs, every graph that         *)
(* add_dependency builds and every order of the scheduler's steps: a       *)
(* dependency has a smaller priority than the jobs that depend on it, the  *)
(* lists stay sorted, and the walks over them do what JobPass says.        *)
(***************************************************************************)
EXTENDS JobQueues, SequenceTheorems, SetLemmas

GraphTypes ==
  /\ dependencies \in [Job -> [Job -> Nat]]
  /\ priority \in [Job -> Int]
  /\ calls \in [Job -> Nat] /\ value \in Int

\* Priorities only fall, and no job depends on itself
Bounded ==
  /\ value <= BasePriority
  /\ \A j \in Job : priority[j] <= BasePriority /\ dependencies[j][j] = 0

\* The priority that d will have after the calls under way is far enough
\* below the one that j has now
EdgesFall ==
  \A j, d \in Job : dependencies[j][d] > 0 =>
    priority[d] + value * calls[d] <= priority[j] + BasePriority

GraphInv == GraphTypes /\ Bounded /\ EdgesFall

LEMMA CallSum ==
  ASSUME NEW v \in Int, v <= BasePriority, NEW n \in Nat, NEW m \in Nat
  PROVE  /\ v * n \in Int
         /\ v * (n + m) = v * n + v * m
         /\ v * m <= 0
         /\ m > 0 => v * m <= v
<1>1. v < 0
  BY PriorityAssumption
<1>2. v * n \in Int /\ v * (n + m) = v * n + v * m
  OBVIOUS
<1>3. v * m <= 0 /\ (m > 0 => v * m <= v)
  BY <1>1
<1> QED
  BY <1>2, <1>3

LEMMA OneCall ==
  ASSUME NEW v \in Int, NEW n \in Nat
  PROVE  v * n \in Int /\ v * (n + 1) = v * n + v
OBVIOUS

THEOREM GraphInvStart == Init => GraphInv
<1> SUFFICES ASSUME Init PROVE GraphInv
  OBVIOUS
<1> USE PriorityAssumption DEF Init
<1>1. GraphTypes
  BY DEF GraphTypes
<1>2. Bounded
  BY DEF Bounded
<1>3. EdgesFall
  BY DEF EdgesFall
<1> QED
  BY <1>1, <1>2, <1>3 DEF GraphInv

\* add_dependency appends one edge and starts the calls along the others
LEMMA AddDependencyKeeps ==
  ASSUME GraphInv, NEW j \in Job, NEW d \in Job, AddDependency(j, d)
  PROVE  GraphInv'
<1> USE PriorityAssumption DEF GraphInv
<1>1. /\ j # d /\ \A k \in Job : calls[k] = 0
      /\ dependencies' = [dependencies EXCEPT ![j][d] = @ + 1]
      /\ calls' = [calls EXCEPT ![d] = 1] /\ value' = priority[j] /\ priority' = priority
  BY DEF AddDependency, MayDepend, Settled
<1>2. GraphTypes'
  BY <1>1 DEF GraphTypes
<1>3. Bounded'
  BY <1>1 DEF Bounded, GraphTypes
<1>4. ASSUME NEW c \in Job, NEW a \in Job, dependencies'[c][a] > 0
      PROVE  priority'[a] + value' * calls'[a] <= priority'[c] + BasePriority
  <2>1. priority[a] <= BasePriority /\ priority[c] <= BasePriority /\ priority[j] <= BasePriority
    BY DEF Bounded
  <2>2. CASE a = d
    <3>1. calls'[a] = 1 /\ value' * calls'[a] = priority[j]
      BY <1>1, <2>2 DEF GraphTypes
    <3>2. CASE c = j
      BY <1>1, <2>1, <3>1, <3>2 DEF GraphTypes
    <3>3. CASE c # j
      <4>1. dependencies[c][a] > 0
        BY <1>1, <1>4, <3>3 DEF GraphTypes
      <4>2. calls[a] = 0 /\ value * calls[a] = 0
        BY <1>1 DEF GraphTypes
      <4>3. priority[a] <= priority[c] + BasePriority
        BY <4>1, <4>2 DEF EdgesFall, GraphTypes
      <4> QED
        BY <1>1, <2>1, <3>1, <4>3 DEF GraphTypes
    <3> QED
      BY <3>2, <3>3
  <2>3. CASE a # d
    <3>1. dependencies[c][a] > 0
      BY <1>1, <1>4, <2>3 DEF GraphTypes
    <3>2. /\ calls[a] = 0 /\ value * calls[a] = 0
          /\ calls'[a] = 0 /\ value' * calls'[a] = 0
      BY <1>1, <2>3 DEF GraphTypes
    <3>3. priority[a] <= priority[c] + BasePriority
      BY <3>1, <3>2 DEF EdgesFall, GraphTypes
    <3> QED
      BY <1>1, <3>2, <3>3 DEF GraphTypes
  <2> QED
    BY <2>2, <2>3
<1> QED
  BY <1>2, <1>3, <1>4 DEF EdgesFall

\* One call of increase_priority lowers x and passes the call on to what x
\* depends on, as often as x depends on it
LEMMA IncreasePriorityKeeps ==
  ASSUME GraphInv, NEW x \in Job, IncreasePriority(x)
  PROVE  GraphInv'
<1> USE PriorityAssumption DEF GraphInv
<1>1. /\ calls[x] > 0 /\ dependencies[x][x] = 0
      /\ dependencies' = dependencies /\ value' = value
      /\ priority' = [priority EXCEPT ![x] = @ + value]
      /\ \A k \in Job : k # x => calls'[k] = calls[k] + dependencies[x][k]
      /\ calls'[x] = calls[x] - 1
  BY DEF IncreasePriority, Bounded, GraphTypes
<1>2. calls' \in [Job -> Nat]
  <2> DEFINE CallsOf(k) == calls[k] + dependencies[x][k] - (IF k = x THEN 1 ELSE 0)
  <2>1. calls' = [k \in Job |-> CallsOf(k)]
    BY DEF IncreasePriority
  <2>2. \A k \in Job : CallsOf(k) \in Nat
    BY <1>1 DEF GraphTypes
  <2> HIDE DEF CallsOf
  <2> QED
    BY <2>1, <2>2
<1>3. GraphTypes'
  <2>1. dependencies' \in [Job -> [Job -> Nat]] /\ value' \in Int
    BY <1>1 DEF GraphTypes
  <2>2. priority' \in [Job -> Int]
    BY <1>1 DEF GraphTypes
  <2> QED
    BY <1>2, <2>1, <2>2 DEF GraphTypes
<1>4. Bounded'
  BY <1>1 DEF Bounded, GraphTypes
<1>5. ASSUME NEW c \in Job, NEW a \in Job, dependencies'[c][a] > 0
      PROVE  priority'[a] + value' * calls'[a] <= priority'[c] + BasePriority
  <2>1. /\ priority[a] \in Int /\ priority[c] \in Int /\ priority[x] \in Int
        /\ value \in Int /\ value <= BasePriority /\ value < 0
        /\ calls[a] \in Nat /\ dependencies[x][a] \in Nat
    BY DEF GraphTypes, Bounded
  <2>2. priority[a] + value * calls[a] <= priority[c] + BasePriority
    BY <1>1, <1>5 DEF EdgesFall
  <2>3. value * calls[a] \in Int
    BY <2>1
  <2>4. CASE a = x
    <3>1. priority'[a] = priority[a] + value /\ priority'[c] = priority[c]
      BY <1>1, <1>5, <2>4 DEF GraphTypes
    <3>2. calls'[a] \in Nat /\ calls[a] = calls'[a] + 1
      BY <1>1, <2>1, <2>4
    <3>3. value * calls'[a] \in Int /\ value * (calls'[a] + 1) = value * calls'[a] + value
      BY <2>1, <3>2, OneCall
    <3>4. value * calls[a] = value * calls'[a] + value
      BY <3>2, <3>3
    <3> QED
      BY <1>1, <2>1, <2>2, <3>1, <3>3, <3>4
  <2>5. CASE a # x
    <3>1. priority'[a] = priority[a] /\ calls'[a] = calls[a] + dependencies[x][a]
      BY <1>1, <2>5 DEF GraphTypes
    <3>2. /\ value * calls'[a] = value * calls[a] + value * dependencies[x][a]
          /\ value * dependencies[x][a] \in Int
          /\ value * dependencies[x][a] <= 0
          /\ dependencies[x][a] > 0 => value * dependencies[x][a] <= value
      BY <2>1, <3>1, CallSum
    <3>3. CASE c = x
      <4>1. dependencies[x][a] > 0 /\ priority'[c] = priority[c] + value
        BY <1>1, <1>5, <3>3 DEF GraphTypes
      <4> QED
        BY <1>1, <2>1, <2>2, <2>3, <3>1, <3>2, <4>1
    <3>4. CASE c # x
      <4>1. priority'[c] = priority[c]
        BY <1>1, <3>4 DEF GraphTypes
      <4> QED
        BY <1>1, <2>1, <2>2, <2>3, <3>1, <3>2, <4>1
    <3> QED
      BY <3>3, <3>4
  <2> QED
    BY <2>4, <2>5
<1> QED
  BY <1>3, <1>4, <1>5 DEF EdgesFall

\* The lists of the scheduler do not matter for the graph
THEOREM GraphInvStep == GraphInv /\ [Next]_vars => GraphInv'
<1> SUFFICES ASSUME GraphInv, [Next]_vars PROVE GraphInv'
  OBVIOUS
<1>1. CASE UNCHANGED graph
  BY <1>1 DEF graph, GraphInv, GraphTypes, Bounded, EdgesFall
<1>2. CASE \E j, d \in Job : AddDependency(j, d)
  BY <1>2, AddDependencyKeeps
<1>3. CASE \E j \in Job : IncreasePriority(j)
  BY <1>3, IncreasePriorityKeeps
<1>4. CASE \E j \in Job : AddJob(j) \/ LaunchFailed(j) \/ CompleteJob(j)
  BY <1>1, <1>4 DEF AddJob, LaunchFailed, CompleteJob
<1>5. CASE RunJobs
  BY <1>1, <1>5 DEF RunJobs
<1>6. CASE UNCHANGED vars
  BY <1>1, <1>6 DEF vars
<1> QED
  BY <1>2, <1>3, <1>4, <1>5, <1>6 DEF Next

\* No sequence of add_dependency calls, from any callers that keep to
\* MayDepend, gives a dependency a priority that is not below that of the job
\* that depends on it: what JobManager assumes of Deps and Priority.
THEOREM DependenciesRunFirst == Spec => []DependencyFirst
<1>1. GraphInv => DependencyFirst
  <2> SUFFICES ASSUME GraphInv, Settled, NEW j \in Job, NEW d \in Deps[j]
               PROVE  priority[d] < priority[j]
    BY DEF DependencyFirst
  <2>1. d \in Job /\ dependencies[j][d] > 0
    BY DEF Deps
  <2>2. calls[d] = 0 /\ value * calls[d] = 0
    BY <2>1 DEF Settled, GraphInv, GraphTypes
  <2>3. priority[d] + value * calls[d] <= priority[j] + BasePriority
    BY <2>1 DEF GraphInv, EdgesFall
  <2> QED
    BY <2>1, <2>2, <2>3, PriorityAssumption DEF GraphInv, GraphTypes
<1> QED
  BY GraphInvStart, GraphInvStep, <1>1, PTL DEF Spec
-----------------------------------------------------------------------------
(* What the priorities count. *)

\* A sum in which one summand changes
LEMMA SumChange ==
  ASSUME NEW S, IsFiniteSet(S), NEW f \in [S -> Int], NEW g \in [S -> Int], NEW x \in S,
         \A y \in S : y # x => g[y] = f[y]
  PROVE  SumFunctionOnSet(g, S) = SumFunctionOnSet(f, S) + g[x] - f[x]
<1>1. IsFiniteSet(S \ {x})
  BY FS_Subset
<1>2. SumFunctionOnSet(g, S) = g[x] + SumFunctionOnSet(g, S \ {x})
  BY SumRemove
<1>3. SumFunctionOnSet(f, S) = f[x] + SumFunctionOnSet(f, S \ {x})
  BY SumRemove
<1>4. SumFunctionOnSet(g, S \ {x}) = SumFunctionOnSet(f, S \ {x})
  BY <1>1, SumSame
<1>5. SumFunctionOnSet(f, S \ {x}) \in Int
  BY <1>1, SumType
<1> QED
  BY <1>2, <1>3, <1>4, <1>5

\* The priority that d will have after the calls under way
PendingCounts ==
  \A d \in Job :
    priority[d] + value * calls[d] = BasePriority + SumFunctionOnSet(WeightsOn(d), Job)

LEMMA WeightType ==
  GraphInv => \A d \in Job :
                /\ WeightsOn(d) \in [Job -> Int]
                /\ \A j \in Job : WeightsOn(d)[j] = dependencies[j][d] * priority[j]
<1> SUFFICES ASSUME GraphInv, NEW d \in Job
             PROVE  /\ WeightsOn(d) \in [Job -> Int]
                    /\ \A j \in Job : WeightsOn(d)[j] = dependencies[j][d] * priority[j]
  OBVIOUS
<1>1. \A j \in Job : dependencies[j][d] * priority[j] \in Int
  BY DEF GraphInv, GraphTypes
<1> QED
  BY <1>1 DEF WeightsOn

LEMMA WeightTypeNext ==
  (GraphInv => \A d \in Job :
                 /\ WeightsOn(d) \in [Job -> Int]
                 /\ \A j \in Job : WeightsOn(d)[j] = dependencies[j][d] * priority[j])'
BY WeightType, PTL

LEMMA WeightSum ==
  ASSUME GraphInv, NEW d \in Job
  PROVE  SumFunctionOnSet(WeightsOn(d), Job) \in Int
BY WeightType, SumType, PriorityAssumption

\* Nothing depends on anything, and so nothing is added
LEMMA InitCounts == Init => PendingCounts
<1> SUFFICES ASSUME Init, NEW d \in Job
             PROVE  priority[d] + value * calls[d] = BasePriority + SumFunctionOnSet(WeightsOn(d), Job)
  BY DEF PendingCounts
<1>1. GraphInv
  BY GraphInvStart
<1>2. \A j \in Job : WeightsOn(d)[j] = 0
  BY <1>1, WeightType, PriorityAssumption DEF Init
<1> DEFINE zero == [j \in Job |-> 0]
           Wrong == {T \in SUBSET Job : SumFunctionOnSet(zero, T) # 0}
<1>3. Wrong = {}
  <2> SUFFICES ASSUME Wrong # {} PROVE FALSE
    OBVIOUS
  <2> HIDE DEF zero
  <2>1. PICK T \in Wrong : \A U \in Wrong : U \subseteq T => U = T
    <3>1. Wrong \subseteq SUBSET Job
      OBVIOUS
    <3> HIDE DEF Wrong
    <3> QED
      BY <3>1, MinimalSubset, PriorityAssumption
  <2>2. IsFiniteSet(T) /\ T \subseteq Job /\ \A j \in Job : zero[j] = 0
    BY FS_Subset, PriorityAssumption DEF zero
  <2>3. T # {}
    BY <2>2, SumType
  <2>4. PICK x \in T : TRUE
    BY <2>3
  <2>5. SumFunctionOnSet(zero, T) = zero[x] + SumFunctionOnSet(zero, T \ {x})
    BY <2>2, SumRemove
  <2>6. SumFunctionOnSet(zero, T \ {x}) = 0
    <3>1. T \ {x} \in SUBSET Job /\ T \ {x} \subseteq T /\ T \ {x} # T
      BY <2>2
    <3> QED
      BY <2>1, <3>1
  <2> QED
    BY <2>1, <2>2, <2>5, <2>6
<1>4. SumFunctionOnSet(WeightsOn(d), Job) = SumFunctionOnSet(zero, Job)
  BY <1>2, SumSame, PriorityAssumption
<1>5. SumFunctionOnSet(zero, Job) = 0
  BY <1>3
<1> QED
  BY <1>4, <1>5, PriorityAssumption DEF Init

LEMMA AddDependencyCounts ==
  ASSUME GraphInv, PendingCounts, NEW j \in Job, NEW d \in Job, AddDependency(j, d)
  PROVE  PendingCounts'
<1>1. GraphInv'
  BY AddDependencyKeeps
<1>2. /\ \A k \in Job : calls[k] = 0
      /\ dependencies' = [dependencies EXCEPT ![j][d] = @ + 1]
      /\ calls' = [calls EXCEPT ![d] = 1] /\ value' = priority[j] /\ priority' = priority
  BY DEF AddDependency, Settled
<1>3. /\ \A a \in Job : priority[a] \in Int
      /\ value \in Int /\ dependencies[j][d] \in Nat
  BY DEF GraphInv, GraphTypes
<1>4. SUFFICES ASSUME NEW a \in Job
               PROVE  priority'[a] + value' * calls'[a]
                      = BasePriority + SumFunctionOnSet(WeightsOn(a)', Job)
  BY DEF PendingCounts
<1> DEFINE f == WeightsOn(a)  g == WeightsOn(a)'
<1>5. f \in [Job -> Int] /\ \A k \in Job : f[k] = dependencies[k][a] * priority[k]
  BY WeightType
<1>6. g \in [Job -> Int] /\ \A k \in Job : g[k] = dependencies'[k][a] * priority'[k]
  BY <1>1, WeightTypeNext
<1>7. priority[a] = BasePriority + SumFunctionOnSet(f, Job)
  <2>1. priority[a] + value * calls[a] = BasePriority + SumFunctionOnSet(f, Job)
    BY DEF PendingCounts
  <2> QED
    BY <2>1, <1>2, <1>3
<1>8. SumFunctionOnSet(f, Job) \in Int
  BY WeightSum
<1> SUFFICES priority'[a] + value' * calls'[a] = BasePriority + SumFunctionOnSet(g, Job)
  OBVIOUS
<1> HIDE DEF f, g
<1>9. CASE a = d
  <2>1. \A k \in Job : k # j => dependencies'[k][a] = dependencies[k][a]
    BY <1>2 DEF GraphInv, GraphTypes
  <2>2. dependencies'[j][a] = dependencies[j][a] + 1
    BY <1>2, <1>9 DEF GraphInv, GraphTypes
  <2>3. g[j] = f[j] + priority[j]
    <3>1. g[j] = (dependencies[j][a] + 1) * priority[j] /\ f[j] = dependencies[j][a] * priority[j]
      BY <1>2, <1>5, <1>6, <2>2
    <3>2. \A n \in Nat, p \in Int : (n + 1) * p = n * p + p
      OBVIOUS
    <3> QED
      BY <1>3, <1>9, <3>1, <3>2
  <2>4. \A k \in Job : k # j => g[k] = f[k]
    BY <1>2, <1>5, <1>6, <2>1
  <2>5. SumFunctionOnSet(g, Job) = SumFunctionOnSet(f, Job) + g[j] - f[j]
    BY <1>5, <1>6, <2>4, SumChange, PriorityAssumption
  <2>6. value' * calls'[a] = priority[j] /\ priority'[a] = priority[a] /\ f[j] \in Int
    BY <1>2, <1>3, <1>5, <1>9 DEF GraphInv, GraphTypes
  <2> QED
    BY <1>3, <1>7, <1>8, <2>3, <2>5, <2>6, PriorityAssumption
<1>10. CASE a # d
  <2>1. \A k \in Job : dependencies'[k][a] = dependencies[k][a]
    BY <1>2, <1>10 DEF GraphInv, GraphTypes
  <2>2. \A k \in Job : g[k] = f[k]
    BY <1>2, <1>5, <1>6, <2>1
  <2>3. SumFunctionOnSet(g, Job) = SumFunctionOnSet(f, Job)
    BY <1>5, <2>2, SumSame, PriorityAssumption
  <2>4. value' * calls'[a] = 0 /\ priority'[a] = priority[a]
    BY <1>2, <1>3, <1>10 DEF GraphInv, GraphTypes
  <2> QED
    BY <1>3, <1>7, <1>8, <2>3, <2>4, PriorityAssumption
<1> QED
  BY <1>9, <1>10

LEMMA IncreasePriorityCounts ==
  ASSUME GraphInv, PendingCounts, NEW x \in Job, IncreasePriority(x)
  PROVE  PendingCounts'
<1>1. GraphInv'
  BY IncreasePriorityKeeps
<1>2. /\ calls[x] > 0 /\ dependencies[x][x] = 0
      /\ dependencies' = dependencies /\ value' = value
      /\ priority' = [priority EXCEPT ![x] = @ + value]
      /\ \A k \in Job : k # x => calls'[k] = calls[k] + dependencies[x][k]
      /\ calls'[x] = calls[x] - 1
  BY DEF IncreasePriority, GraphInv, Bounded, GraphTypes
<1>4. SUFFICES ASSUME NEW a \in Job
               PROVE  priority'[a] + value' * calls'[a]
                      = BasePriority + SumFunctionOnSet(WeightsOn(a)', Job)
  BY DEF PendingCounts
<1> DEFINE f == WeightsOn(a)  g == WeightsOn(a)'
<1>3. /\ priority[a] \in Int /\ priority[x] \in Int
      /\ value \in Int /\ dependencies[x][a] \in Nat /\ calls[a] \in Nat
      /\ priority'[x] = priority[x] + value
      /\ \A k \in Job : k # x => priority'[k] = priority[k]
  BY <1>2 DEF GraphInv, GraphTypes
<1>5. f \in [Job -> Int] /\ \A k \in Job : f[k] = dependencies[k][a] * priority[k]
  BY WeightType
<1>6. g \in [Job -> Int] /\ \A k \in Job : g[k] = dependencies'[k][a] * priority'[k]
  BY <1>1, WeightTypeNext
<1>7. priority[a] + value * calls[a] = BasePriority + SumFunctionOnSet(f, Job)
  BY DEF PendingCounts
<1>8. SumFunctionOnSet(f, Job) \in Int
  BY WeightSum
<1> SUFFICES priority'[a] + value' * calls'[a] = BasePriority + SumFunctionOnSet(g, Job)
  OBVIOUS
<1> HIDE DEF f, g
<1>9. \A k \in Job : k # x => g[k] = f[k]
  BY <1>2, <1>3, <1>5, <1>6
<1>10. SumFunctionOnSet(g, Job) = SumFunctionOnSet(f, Job) + g[x] - f[x]
  BY <1>5, <1>6, <1>9, SumChange, PriorityAssumption
<1>11. g[x] = f[x] + value * dependencies[x][a] /\ f[x] \in Int /\ value * dependencies[x][a] \in Int
  <2>1. g[x] = dependencies[x][a] * (priority[x] + value) /\ f[x] = dependencies[x][a] * priority[x]
    BY <1>2, <1>3, <1>5, <1>6
  <2>2. \A n \in Nat, v, p \in Int : n * (p + v) = n * p + v * n /\ v * n \in Int /\ n * p \in Int
    OBVIOUS
  <2> QED
    BY <1>3, <2>1, <2>2
<1>12. CASE a = x
  <2>1. value * calls[a] = value * calls'[a] + value /\ value * calls'[a] \in Int
    <3>1. calls'[a] \in Nat /\ calls[a] = calls'[a] + 1
      BY <1>2, <1>3, <1>12
    <3>2. value * (calls'[a] + 1) = value * calls'[a] + value /\ value * calls'[a] \in Int
      BY <1>3, <3>1, OneCall
    <3> QED
      BY <3>1, <3>2
  <2>2. value * dependencies[x][a] = 0
    BY <1>2, <1>3, <1>12
  <2>3. priority'[a] = priority[a] + value
    BY <1>3, <1>12
  <2>4. SumFunctionOnSet(g, Job) = SumFunctionOnSet(f, Job)
    BY <1>8, <1>10, <1>11, <2>2
  <2>5. priority'[a] + value' * calls'[a] = priority[a] + value * calls[a]
    BY <1>2, <1>3, <2>1, <2>3
  <2> QED
    BY <1>7, <2>4, <2>5
<1>13. CASE a # x
  <2>1. /\ value * calls'[a] = value * calls[a] + value * dependencies[x][a]
        /\ value * calls[a] \in Int
    <3>1. value <= BasePriority
      BY DEF GraphInv, Bounded
    <3> QED
      BY <1>2, <1>3, <1>13, <3>1, CallSum
  <2>2. priority'[a] = priority[a]
    BY <1>3, <1>13
  <2> DEFINE u == value * calls[a]  w == value * dependencies[x][a]
             sf == SumFunctionOnSet(f, Job)  sg == SumFunctionOnSet(g, Job)
  <2>3. /\ u \in Int /\ w \in Int /\ sf \in Int /\ sg = sf + g[x] - f[x]
        /\ g[x] = f[x] + w /\ f[x] \in Int /\ priority[a] + u = BasePriority + sf
        /\ value * calls'[a] = u + w
    BY <1>7, <1>8, <1>10, <1>11, <2>1
  <2> HIDE DEF u, w, sf, sg
  <2>4. priority'[a] + value' * calls'[a] = BasePriority + sg
    <3>1. value' * calls'[a] = u + w
      BY <1>2, <2>3, Zenon
    <3> QED
      BY <1>3, <2>2, <2>3, <3>1, PriorityAssumption
  <2> QED
    BY <2>4 DEF sg
<1> QED
  BY <1>12, <1>13

-----------------------------------------------------------------------------
(* The lists. *)

\* In a set of natural numbers there is a least one
LEMMA LeastOf ==
  ASSUME NEW B, B \subseteq Nat, B # {}
  PROVE  \E m \in B : \A k \in B : m <= k
<1>1. PICK n \in B : TRUE
  OBVIOUS
<1> DEFINE A == {0..m : m \in {k \in B : k <= n}}
<1>2. A \subseteq SUBSET (0..n) /\ A # {} /\ IsFiniteSet(0..n)
  <2>1. IsFiniteSet(0..n)
    BY FS_Interval
  <2>2. 0..n \in A
    OBVIOUS
  <2> QED
    BY <2>1, <2>2
<1>3. PICK T \in A : \A U \in A : U \subseteq T => U = T
  <2> DEFINE N == 0..n
  <2>1. A \subseteq SUBSET N /\ A # {} /\ IsFiniteSet(N)
    BY <1>2
  <2> HIDE DEF A, N
  <2> QED
    BY <2>1, MinimalSubset
<1>4. PICK m \in B : m <= n /\ T = 0..m
  OBVIOUS
<1>5. ASSUME NEW k \in B PROVE m <= k
  <2> SUFFICES ASSUME k < m PROVE FALSE
    OBVIOUS
  <2>1. 0..k \in A /\ 0..k \subseteq T
    BY <1>4
  <2>2. 0..k = 0..m
    BY <1>3, <1>4, <2>1
  <2>3. m \in 0..m /\ m \notin 0..k
    OBVIOUS
  <2> QED
    BY <2>2, <2>3
<1> QED
  BY <1>5

\* Induction up to n
LEMMA CountUp ==
  ASSUME NEW n \in Nat, NEW B, 0 \in B, \A k \in 1..n : k - 1 \in B => k \in B
  PROVE  \A k \in 0..n : k \in B
<1> DEFINE Wrong == {k \in 0..n : k \notin B}
<1> SUFFICES ASSUME Wrong # {} PROVE FALSE
  OBVIOUS
<1>1. PICK m \in Wrong : \A k \in Wrong : m <= k
  <2>1. Wrong \subseteq Nat
    OBVIOUS
  <2> HIDE DEF Wrong
  <2> QED
    BY <2>1, LeastOf
<1>2. m \in 1..n /\ m - 1 \in 0..n /\ m - 1 \notin Wrong
  BY <1>1
<1> QED
  BY <1>1, <1>2

LEMMA MaxOf ==
  ASSUME NEW n \in Nat, NEW T \in SUBSET (1..n), T # {}
  PROVE  Max(T) \in T /\ \A y \in T : y <= Max(T)
<1> DEFINE B == {m \in 1..n : \A y \in T : y <= m}
<1>1. n \in B
  <2>1. PICK y \in T : TRUE
    OBVIOUS
  <2> QED
    BY <2>1
<1>2. PICK m \in B : \A k \in B : m <= k
  <2>1. B \subseteq Nat /\ B # {}
    BY <1>1
  <2> HIDE DEF B
  <2> QED
    BY <2>1, LeastOf
<1>3. m \in T
  <2> SUFFICES ASSUME m \notin T PROVE FALSE
    OBVIOUS
  <2>1. PICK y \in T : TRUE
    OBVIOUS
  <2>2. y < m /\ \A z \in T : z <= m - 1
    BY <1>2, <2>1
  <2>3. m - 1 \in B
    BY <2>1, <2>2
  <2> QED
    BY <1>2, <2>3
<1> QED
  BY <1>2, <1>3 DEF Max

LEMMA Prefix ==
  ASSUME NEW n \in Nat, NEW k \in 1..n
  PROVE  /\ 1..k \in SUBSET (1..n) /\ 1..k # {}
         /\ Max(1..k) = k /\ (1..k) \ {k} = 1..(k - 1)
<1>1. 1..k \in SUBSET (1..n) /\ k \in 1..k
  OBVIOUS
<1>2. Max(1..k) \in 1..k /\ k <= Max(1..k)
  BY <1>1, MaxOf
<1> QED
  BY <1>1, <1>2

\* A walk over n positions
IsWalk(it, n, base, step) ==
  \A T \in SUBSET (1..n) : it[T] = IF T = {} THEN base ELSE step[Max(T)][it[T \ {Max(T)}]]

LEMMA WalkExists ==
  ASSUME NEW V, NEW base \in V, NEW n \in Nat, NEW step \in [1..n -> [V -> V]]
  PROVE  \E it \in [SUBSET (1..n) -> V] : IsWalk(it, n, base, step)
<1> DEFINE pick == [T \in SUBSET (1..n) |-> Max(T)]
<1>1. Foldable(1..n, V, base, pick, step)
  <2>1. IsFiniteSet(1..n)
    BY FS_Interval
  <2>2. \A T \in SUBSET (1..n) : pick[T] = Max(T)
    OBVIOUS
  <2> HIDE DEF pick
  <2>3. \A T \in SUBSET (1..n) : T # {} => pick[T] \in T
    BY <2>2, MaxOf
  <2> QED
    BY <2>1, <2>3 DEF Foldable
<1>2. PICK it \in [SUBSET (1..n) -> V] : IsFold(it, 1..n, base, pick, step)
  <2> HIDE DEF pick
  <2> QED
    BY <1>1, FoldExists
<1>3. ASSUME NEW T \in SUBSET (1..n)
      PROVE  it[T] = IF T = {} THEN base ELSE step[Max(T)][it[T \ {Max(T)}]]
  <2>1. it[T] = IF T = {} THEN base ELSE step[pick[T]][it[T \ {pick[T]}]]
    <3> HIDE DEF pick
    <3> QED
      BY <1>2 DEF IsFold
  <2>2. pick[T] = Max(T)
    OBVIOUS
  <2> HIDE DEF pick
  <2> QED
    BY <2>1, <2>2
<1> QED
  BY <1>3 DEF IsWalk

Sorted(list) == \A i, k \in 1..Len(list) : i < k => priority[list[i]] <= priority[list[k]]
Distinct(list) == \A i, k \in 1..Len(list) : list[i] = list[k] => i = k

\* The places in list before which j must not come
Before(list, j) == {i \in 1..Len(list) : priority[list[i]] <= priority[j]}

\* insort_right makes room for j after as many elements as must be before it
LEMMA InsortAt ==
  ASSUME NEW list \in Seq(Job), NEW j \in Job
  PROVE  LET m == Cardinality(Before(list, j))
             new == Insort(list, j)
         IN /\ m \in 0..Len(list)
            /\ new \in Seq(Job) /\ Len(new) = Len(list) + 1
            /\ \A i \in 1..(Len(list) + 1) :
                 new[i] = IF i <= m THEN list[i] ELSE IF i = m + 1 THEN j ELSE list[i - 1]
<1> DEFINE m == Cardinality(Before(list, j))  n == Len(list)
           head == SubSeq(list, 1, m)  tail == SubSeq(list, 1 + m, n)
<1>1. n \in Nat /\ DOMAIN list = 1..n /\ \A i \in 1..n : list[i] \in Job
  OBVIOUS
<1>2. m \in 0..n
  <2>1. Before(list, j) \subseteq 1..n
    BY DEF Before
  <2> HIDE DEF n
  <2>2. IsFiniteSet(1..n) /\ Cardinality(1..n) = n
    BY <1>1, FS_Interval
  <2> QED
    BY <1>1, <2>1, <2>2, FS_Subset, FS_CardinalityType
<1>3. Insort(list, j) = SubSeq(list, 1, (1 + m) - 1) \o <<j>> \o tail
  BY <1>1 DEF Insort, InsertAt, Quantify, Before
<1> HIDE DEF m, n
<1>4. (1 + m) - 1 = m
  BY <1>2
<1>5. Insort(list, j) = (head \o <<j>>) \o tail
  BY <1>3, <1>4
<1>6. head \in Seq(Job) /\ Len(head) = m /\ \A i \in 1..m : head[i] = list[i]
  BY <1>1, <1>2, SubSeqProperties
<1>7. tail \in Seq(Job) /\ Len(tail) = n - m /\ \A i \in 1..(n - m) : tail[i] = list[m + i]
  BY <1>1, <1>2, SubSeqProperties
<1> HIDE DEF head, tail
<1> DEFINE front == head \o <<j>>
<1>8. /\ front \in Seq(Job) /\ Len(front) = m + 1 /\ front[m + 1] = j
      /\ \A i \in 1..m : front[i] = list[i]
  <2>1. front = Append(head, j)
    BY <1>6, AppendIsConcat
  <2> QED
    BY <1>2, <1>6, <2>1, AppendProperties
<1> HIDE DEF front
<1>9. /\ front \o tail \in Seq(Job) /\ Len(front \o tail) = Len(front) + Len(tail)
      /\ \A i \in 1..(Len(front) + Len(tail)) :
           (front \o tail)[i] = IF i <= Len(front) THEN front[i] ELSE tail[i - Len(front)]
  BY <1>7, <1>8, ConcatProperties
<1>10. Insort(list, j) = front \o tail
  BY <1>5 DEF front
<1>11. Len(front) + Len(tail) = n + 1
  BY <1>1, <1>2, <1>7, <1>8
<1>12. ASSUME NEW i \in 1..(n + 1)
       PROVE  Insort(list, j)[i] =
                IF i <= m THEN list[i] ELSE IF i = m + 1 THEN j ELSE list[i - 1]
  <2>1. (front \o tail)[i] = IF i <= m + 1 THEN front[i] ELSE tail[i - (m + 1)]
    BY <1>8, <1>9, <1>11
  <2>2. i > m + 1 => i - (m + 1) \in 1..(n - m) /\ m + (i - (m + 1)) = i - 1
    BY <1>1, <1>2
  <2>3. i > m + 1 => tail[i - (m + 1)] = list[i - 1]
    BY <1>7, <2>2
  <2> QED
    BY <1>1, <1>2, <1>8, <1>10, <2>1, <2>3
<1> QED
  BY <1>2, <1>9, <1>10, <1>11, <1>12 DEF m, n

LEMMA ToSetOf ==
  ASSUME NEW list \in Seq(Job)
  PROVE  /\ Len(list) \in Nat /\ DOMAIN list = 1..Len(list)
         /\ \A i \in 1..Len(list) : list[i] \in Job /\ list[i] \in ToSet(list)
         /\ \A j \in ToSet(list) : \E i \in 1..Len(list) : list[i] = j
         /\ ToSet(list) \subseteq Job
BY DEF ToSet

\* In a sorted list these places are the first ones
LEMMA BeforeIsPrefix ==
  ASSUME priority \in [Job -> Int], NEW list \in Seq(Job), Sorted(list), NEW j \in Job
  PROVE  Before(list, j) = 1..Cardinality(Before(list, j))
<1> DEFINE n == Len(list)
           After == {i \in 1..(n + 1) : i \notin Before(list, j)}
<1>1. n \in Nat /\ \A i \in 1..n : list[i] \in Job /\ priority[list[i]] \in Int
  OBVIOUS
<1>2. n + 1 \in After
  BY <1>1 DEF Before
<1>3. PICK l \in After : \A k \in After : l <= k
  <2>1. After \subseteq Nat /\ After # {}
    BY <1>1, <1>2
  <2> HIDE DEF After
  <2> QED
    BY <2>1, LeastOf
<1>4. l \in 1..(n + 1) /\ l \notin Before(list, j)
  OBVIOUS
<1>5. Before(list, j) = 1..(l - 1)
  <2>1. ASSUME NEW i \in 1..(l - 1) PROVE i \in Before(list, j)
    <3>1. i \in 1..(n + 1) /\ ~(l <= i)
      BY <1>1, <1>4
    <3> QED
      BY <1>3, <3>1
  <2>2. ASSUME NEW i \in Before(list, j) PROVE i \in 1..(l - 1)
    <3>1. i \in 1..n /\ priority[list[i]] <= priority[j]
      BY DEF Before
    <3>2. i # l
      BY <1>4
    <3>3. ASSUME l < i PROVE FALSE
      <4>1. l \in 1..n /\ priority[list[l]] <= priority[list[i]]
        BY <1>1, <1>4, <3>1, <3>3 DEF Sorted
      <4>2. priority[list[l]] <= priority[j]
        BY <1>1, <3>1, <4>1
      <4> QED
        BY <1>4, <4>1, <4>2 DEF Before
    <3> QED
      BY <1>1, <1>4, <3>1, <3>2, <3>3
  <2> QED
    BY <2>1, <2>2
<1>6. Cardinality(1..(l - 1)) = l - 1
  BY <1>1, <1>4, FS_Interval
<1> QED
  BY <1>5, <1>6

LEMMA InsortSorted ==
  ASSUME priority \in [Job -> Int], NEW list \in Seq(Job), Sorted(list), NEW j \in Job
  PROVE  Sorted(Insort(list, j))
<1> DEFINE n == Len(list)  m == Cardinality(Before(list, j))  new == Insort(list, j)
<1>1. n \in Nat /\ \A i \in 1..n : list[i] \in Job /\ priority[list[i]] \in Int
  OBVIOUS
<1>2. /\ m \in 0..n /\ Len(new) = n + 1
      /\ \A i \in 1..(n + 1) : new[i] = IF i <= m THEN list[i] ELSE IF i = m + 1 THEN j ELSE list[i - 1]
  BY InsortAt
<1>3. Before(list, j) = 1..m
  BY BeforeIsPrefix
<1>4. /\ \A i \in 1..m : priority[list[i]] <= priority[j]
      /\ \A i \in (m + 1)..n : priority[j] <= priority[list[i]]
  <2>1. ASSUME NEW i \in 1..m PROVE priority[list[i]] <= priority[j]
    BY <1>3 DEF Before
  <2>2. ASSUME NEW i \in (m + 1)..n PROVE priority[j] <= priority[list[i]]
    <3>1. i \in 1..n /\ i \notin Before(list, j)
      BY <1>1, <1>2, <1>3
    <3> QED
      BY <1>1, <3>1 DEF Before
  <2> QED
    BY <2>1, <2>2
<1> HIDE DEF m, n, new
<1> SUFFICES ASSUME NEW i \in 1..(n + 1), NEW k \in 1..(n + 1), i < k
             PROVE  priority[new[i]] <= priority[new[k]]
  BY <1>2 DEF Sorted, new
<1>5. \A a, b \in 1..n : a < b => priority[list[a]] <= priority[list[b]]
  BY DEF Sorted, n
<1> DEFINE At(x) == IF x <= m THEN x ELSE x - 1
<1>6. \A x \in 1..(n + 1) : x # m + 1 => At(x) \in 1..n /\ new[x] = list[At(x)]
  BY <1>1, <1>2
<1>7. new[m + 1] = j
  BY <1>1, <1>2
<1>8. CASE i = m + 1
  <2>1. At(k) \in (m + 1)..n /\ new[k] = list[At(k)]
    BY <1>1, <1>2, <1>6, <1>8
  <2> HIDE DEF At
  <2> QED
    BY <1>4, <1>7, <1>8, <2>1
<1>9. CASE k = m + 1
  <2>1. At(i) \in 1..m /\ new[i] = list[At(i)]
    BY <1>1, <1>2, <1>6, <1>9
  <2> HIDE DEF At
  <2> QED
    BY <1>4, <1>7, <1>9, <2>1
<1>10. CASE i # m + 1 /\ k # m + 1
  <2>1. At(i) \in 1..n /\ At(k) \in 1..n /\ new[i] = list[At(i)] /\ new[k] = list[At(k)]
    BY <1>6, <1>10
  <2>2. At(i) < At(k)
    BY <1>1, <1>2, <1>10
  <2> HIDE DEF At
  <2> QED
    BY <1>5, <2>1, <2>2
<1> QED
  BY <1>8, <1>9, <1>10

LEMMA InsortElements ==
  ASSUME NEW list \in Seq(Job), NEW j \in Job
  PROVE  /\ Insort(list, j) \in Seq(Job)
         /\ ToSet(Insort(list, j)) = ToSet(list) \cup {j}
         /\ Distinct(list) /\ j \notin ToSet(list) => Distinct(Insort(list, j))
<1> DEFINE n == Len(list)  m == Cardinality(Before(list, j))  new == Insort(list, j)
<1>1. n \in Nat /\ \A i \in 1..n : list[i] \in ToSet(list)
  BY ToSetOf
<1>2. /\ m \in 0..n /\ Len(new) = n + 1 /\ new \in Seq(Job)
      /\ \A i \in 1..(n + 1) : new[i] = IF i <= m THEN list[i] ELSE IF i = m + 1 THEN j ELSE list[i - 1]
  BY InsortAt
<1> HIDE DEF m, new
<1>3. ToSet(new) \subseteq ToSet(list) \cup {j}
  <2> SUFFICES ASSUME NEW i \in 1..(n + 1) PROVE new[i] \in ToSet(list) \cup {j}
    BY <1>2, ToSetOf
  <2> HIDE DEF n
  <2> QED
    BY <1>1, <1>2
<1>4. j \in ToSet(new)
  <2>1. m + 1 \in 1..Len(new) /\ new[m + 1] = j
    BY <1>1, <1>2
  <2> QED
    BY <1>2, <2>1, ToSetOf
<1>5. ASSUME NEW k \in 1..n PROVE list[k] \in ToSet(new)
  <2>1. CASE k <= m
    <3>1. new[k] = list[k] /\ k \in 1..Len(new)
      BY <1>1, <1>2, <2>1
    <3> QED
      BY <1>2, <3>1, ToSetOf
  <2>2. CASE k > m
    <3>1. new[k + 1] = list[k] /\ k + 1 \in 1..Len(new)
      BY <1>1, <1>2, <2>2
    <3> QED
      BY <1>2, <3>1, ToSetOf
  <2> QED
    BY <1>1, <1>2, <2>1, <2>2
<1>6. ToSet(list) \subseteq ToSet(new)
  BY <1>5, ToSetOf
<1>7. ASSUME Distinct(list), j \notin ToSet(list), NEW i \in 1..(n + 1), NEW k \in 1..(n + 1),
             new[i] = new[k]
      PROVE  i = k
  <2>1. \A a, b \in 1..n : list[a] = list[b] => a = b
    BY <1>7 DEF Distinct
  <2>2. \A a \in 1..n : list[a] # j
    BY <1>1, <1>7
  <2> HIDE DEF n
  <2> DEFINE At(x) == IF x <= m THEN x ELSE x - 1
  <2>3. \A x \in 1..(n + 1) : x # m + 1 => At(x) \in 1..n /\ new[x] = list[At(x)]
    BY <1>1, <1>2
  <2>4. new[m + 1] = j /\ m + 1 \in 1..(n + 1)
    BY <1>1, <1>2
  <2>5. CASE i = m + 1 \/ k = m + 1
    BY <1>7, <2>2, <2>3, <2>4, <2>5
  <2>6. CASE i # m + 1 /\ k # m + 1
    <3>1. At(i) = At(k)
      BY <1>7, <2>1, <2>3, <2>6
    <3> QED
      BY <1>1, <1>2, <2>6, <3>1
  <2> QED
    BY <2>5, <2>6
<1>8. Distinct(list) /\ j \notin ToSet(list) => Distinct(new)
  BY <1>2, <1>7 DEF Distinct
<1> QED
  BY <1>2, <1>3, <1>4, <1>6, <1>8 DEF new

LEMMA RemoveAtIs ==
  ASSUME NEW list \in Seq(Job), NEW i \in 1..Len(list)
  PROVE  LET new == RemoveAt(list, i)
         IN /\ new \in Seq(Job) /\ Len(new) = Len(list) - 1
            /\ \A k \in 1..(Len(list) - 1) : new[k] = IF k < i THEN list[k] ELSE list[k + 1]
<1> DEFINE n == Len(list)  head == SubSeq(list, 1, i - 1)  tail == SubSeq(list, i + 1, n)
<1>1. n \in Nat /\ i \in 1..n /\ \A k \in 1..n : list[k] \in Job
  OBVIOUS
<1> HIDE DEF n
<1>2. head \in Seq(Job) /\ Len(head) = i - 1 /\ \A k \in 1..(i - 1) : head[k] = list[k]
  BY <1>1, SubSeqProperties
<1>3. tail \in Seq(Job) /\ Len(tail) = n - i /\ \A k \in 1..(n - i) : tail[k] = list[i + k]
  BY <1>1, SubSeqProperties
<1>4. RemoveAt(list, i) = head \o tail
  BY DEF RemoveAt, n
<1> HIDE DEF head, tail
<1>5. /\ head \o tail \in Seq(Job) /\ Len(head \o tail) = Len(head) + Len(tail)
      /\ \A k \in 1..(Len(head) + Len(tail)) :
           (head \o tail)[k] = IF k <= Len(head) THEN head[k] ELSE tail[k - Len(head)]
  BY <1>2, <1>3, ConcatProperties
<1>6. Len(head) + Len(tail) = n - 1
  BY <1>1, <1>2, <1>3
<1>7. ASSUME NEW k \in 1..(n - 1)
      PROVE  RemoveAt(list, i)[k] = IF k < i THEN list[k] ELSE list[k + 1]
  <2>1. (head \o tail)[k] = IF k <= i - 1 THEN head[k] ELSE tail[k - (i - 1)]
    BY <1>2, <1>5, <1>6
  <2>2. k >= i => k - (i - 1) \in 1..(n - i) /\ i + (k - (i - 1)) = k + 1
    BY <1>1
  <2>3. k >= i => tail[k - (i - 1)] = list[k + 1]
    BY <1>3, <2>2
  <2> QED
    BY <1>1, <1>2, <1>4, <2>1, <2>3
<1> QED
  BY <1>4, <1>5, <1>6, <1>7 DEF n

LEMMA RemoveAtElements ==
  ASSUME NEW list \in Seq(Job), NEW i \in 1..Len(list)
  PROVE  /\ RemoveAt(list, i) \in Seq(Job)
         /\ ToSet(RemoveAt(list, i)) \subseteq ToSet(list)
         /\ ToSet(list) \subseteq ToSet(RemoveAt(list, i)) \cup {list[i]}
         /\ Sorted(list) => Sorted(RemoveAt(list, i))
<1> DEFINE n == Len(list)  new == RemoveAt(list, i)
<1>1. n \in Nat /\ i \in 1..n /\ \A k \in 1..n : list[k] \in ToSet(list)
  BY ToSetOf
<1>2. /\ new \in Seq(Job) /\ Len(new) = n - 1
      /\ \A k \in 1..(n - 1) : new[k] = IF k < i THEN list[k] ELSE list[k + 1]
  BY RemoveAtIs
<1> HIDE DEF new
<1>3. ToSet(new) \subseteq ToSet(list)
  <2> SUFFICES ASSUME NEW k \in 1..(n - 1) PROVE new[k] \in ToSet(list)
    BY <1>2, ToSetOf
  <2>1. k \in 1..n /\ k + 1 \in 1..n
    BY <1>1
  <2> HIDE DEF n
  <2> QED
    BY <1>1, <1>2, <2>1
<1>4. ASSUME NEW k \in 1..n, k # i PROVE list[k] \in ToSet(new)
  <2>1. CASE k < i
    <3>1. new[k] = list[k] /\ k \in 1..Len(new)
      BY <1>1, <1>2, <2>1
    <3> QED
      BY <1>2, <3>1, ToSetOf
  <2>2. CASE k > i
    <3>1. new[k - 1] = list[k] /\ k - 1 \in 1..Len(new)
      BY <1>1, <1>2, <2>2
    <3> QED
      BY <1>2, <3>1, ToSetOf
  <2> QED
    BY <1>1, <1>4, <2>1, <2>2
<1>5. ToSet(list) \subseteq ToSet(new) \cup {list[i]}
  BY <1>4, ToSetOf
<1>6. ASSUME Sorted(list), NEW a \in 1..(n - 1), NEW b \in 1..(n - 1), a < b
      PROVE  priority[new[a]] <= priority[new[b]]
  <2>1. \A x, y \in 1..n : x < y => priority[list[x]] <= priority[list[y]]
    BY <1>6 DEF Sorted
  <2> HIDE DEF n
  <2> DEFINE At(x) == IF x < i THEN x ELSE x + 1
  <2>2. \A x \in 1..(n - 1) : At(x) \in 1..n /\ new[x] = list[At(x)]
    BY <1>1, <1>2
  <2>3. At(a) < At(b)
    BY <1>1, <1>6
  <2> HIDE DEF At
  <2> QED
    BY <2>1, <2>2, <2>3
<1>7. Sorted(list) => Sorted(new)
  BY <1>2, <1>6 DEF Sorted
<1> QED
  BY <1>2, <1>3, <1>5, <1>7 DEF new

LEMMA AppendElements ==
  ASSUME NEW list \in Seq(Job), NEW j \in Job
  PROVE  /\ Append(list, j) \in Seq(Job)
         /\ ToSet(Append(list, j)) = ToSet(list) \cup {j}
         /\ Distinct(list) /\ j \notin ToSet(list) => Distinct(Append(list, j))
         /\ Sorted(list) /\ (\A k \in ToSet(list) : priority[k] <= priority[j])
              => Sorted(Append(list, j))
<1> DEFINE n == Len(list)  new == Append(list, j)
<1>1. n \in Nat /\ \A i \in 1..n : list[i] \in ToSet(list)
  BY ToSetOf
<1>2. /\ new \in Seq(Job) /\ Len(new) = n + 1 /\ new[n + 1] = j
      /\ \A i \in 1..n : new[i] = list[i]
  BY AppendProperties
<1> HIDE DEF new
<1>3. ToSet(new) = ToSet(list) \cup {j}
  <2>1. \A i \in 1..(n + 1) : i \in 1..n \/ i = n + 1
    BY <1>1
  <2>2. 1..n \subseteq 1..(n + 1) /\ n + 1 \in 1..(n + 1)
    BY <1>1
  <2> QED
    BY <1>1, <1>2, <2>1, <2>2, ToSetOf
<1>4. Distinct(list) /\ j \notin ToSet(list) => Distinct(new)
  BY <1>1, <1>2 DEF Distinct
<1>5. Sorted(list) /\ (\A k \in ToSet(list) : priority[k] <= priority[j]) => Sorted(new)
  BY <1>1, <1>2 DEF Sorted
<1> QED
  BY <1>2, <1>3, <1>4, <1>5 DEF new

-----------------------------------------------------------------------------
(* The walk. *)

Passes == [todo : Seq(Job), ready : Seq(Job), status : [Job -> Status \cup {Illegal}]]

Blocked(st, j) == \E d \in Deps[j] : ~Completed(st[d])
Unblocks(st, j) == \A d \in Deps[j] : Successful(st[d])

LEMMA VisitIs ==
  ASSUME NEW pass \in Passes, NEW j \in Job
  PROVE  LET new == Visit(pass, j) IN
         /\ new \in Passes
         /\ \/ /\ Blocked(pass.status, j)
               /\ new.todo = Append(pass.todo, j)
               /\ new.ready = pass.ready /\ new.status = pass.status
            \/ /\ ~Blocked(pass.status, j) /\ Unblocks(pass.status, j)
               /\ new.ready = Insort(pass.ready, j)
               /\ new.todo = pass.todo /\ new.status = pass.status
            \/ /\ ~Blocked(pass.status, j) /\ ~Unblocks(pass.status, j)
               /\ new.status = [pass.status EXCEPT ![j] = Update(@, "SKIPPED")]
               /\ new.todo = pass.todo /\ new.ready = pass.ready
<1>1. /\ pass.todo \in Seq(Job) /\ pass.ready \in Seq(Job)
      /\ pass.status \in [Job -> Status \cup {Illegal}]
  BY DEF Passes
<1>2. Append(pass.todo, j) \in Seq(Job) /\ Insort(pass.ready, j) \in Seq(Job)
  BY <1>1, AppendElements, InsortElements
<1>3. [pass.status EXCEPT ![j] = Update(@, "SKIPPED")] \in [Job -> Status \cup {Illegal}]
  BY <1>1 DEF Update, Status, Illegal
<1>4. CASE Blocked(pass.status, j)
  <2>1. Visit(pass, j) = [pass EXCEPT !.todo = Append(@, j)]
    BY <1>4 DEF Visit, Blocked
  <2> QED
    BY <1>1, <1>2, <1>4, <2>1 DEF Passes
<1>5. CASE ~Blocked(pass.status, j) /\ Unblocks(pass.status, j)
  <2>1. Visit(pass, j) = [pass EXCEPT !.ready = Insort(@, j)]
    BY <1>5 DEF Visit, Blocked, Unblocks
  <2> QED
    BY <1>1, <1>2, <1>5, <2>1 DEF Passes
<1>6. CASE ~Blocked(pass.status, j) /\ ~Unblocks(pass.status, j)
  <2>1. Visit(pass, j) = [pass EXCEPT !.status[j] = Update(@, "SKIPPED")]
    BY <1>6 DEF Visit, Blocked, Unblocks
  <2> QED
    BY <1>1, <1>3, <1>6, <2>1 DEF Passes
<1> QED
  BY <1>4, <1>5, <1>6

Walk(g, waiting, st) ==
  /\ g \in [0..Len(waiting) -> Passes]
  /\ g[0] = [todo |-> <<>>, ready |-> ready, status |-> st]
  /\ \A k \in 1..Len(waiting) : g[k] = Visit(g[k - 1], waiting[k])

\* The fold over the list is a walk from its first job to its last
LEMMA WalkIs ==
  ASSUME NEW waiting \in Seq(Job), NEW st \in [Job -> Status \cup {Illegal}],
         ready \in Seq(Job)
  PROVE  \E g : Walk(g, waiting, st) /\ MoveTodoToReady(waiting, st) = g[Len(waiting)]
<1> DEFINE n == Len(waiting)
           base == [todo |-> <<>>, ready |-> ready, status |-> st]
           step == [i \in 1..n |-> [v \in Passes |-> Visit(v, waiting[i])]]
           Eq(it) == it = [T \in SUBSET (1..n) |->
                             IF T = {} THEN base
                             ELSE LET x == Max(T) IN Visit(it[T \ {x}], waiting[x])]
           it == CHOOSE it : Eq(it)
<1>1. n \in Nat /\ DOMAIN waiting = 1..n /\ \A i \in 1..n : waiting[i] \in Job
  BY ToSetOf
<1>2. base \in Passes
  BY DEF Passes
<1>3. \A i \in 1..n : \A v \in Passes : Visit(v, waiting[i]) \in Passes
  BY <1>1, VisitIs
<1>4. PICK h \in [SUBSET (1..n) -> Passes] : IsWalk(h, n, base, step)
  <2>1. step \in [1..n -> [Passes -> Passes]]
    BY <1>3
  <2> HIDE DEF step, base, n
  <2> QED
    BY <1>1, <1>2, <2>1, WalkExists
<1>5. Eq(h)
  <2>1. ASSUME NEW T \in SUBSET (1..n), T # {}
        PROVE  h[T] = Visit(h[T \ {Max(T)}], waiting[Max(T)])
    <3>1. Max(T) \in 1..n /\ T \ {Max(T)} \in SUBSET (1..n)
      BY <1>1, <2>1, MaxOf
    <3>2. h[T] = step[Max(T)][h[T \ {Max(T)}]] /\ h[T \ {Max(T)}] \in Passes
      BY <1>4, <2>1, <3>1 DEF IsWalk
    <3> QED
      BY <3>1, <3>2
  <2>2. h[{}] = base
    BY <1>4 DEF IsWalk
  <2> HIDE DEF step, base, n
  <2> QED
    BY <1>4, <2>1, <2>2
<1>6. Eq(it)
  <2> HIDE DEF Eq
  <2> QED
    BY <1>5
<1>7. MoveTodoToReady(waiting, st) = it[1..n]
  <2>1. FoldLeft(Visit, base, waiting)
        = (CHOOSE iter : iter = [T \in SUBSET (DOMAIN waiting) |->
                             IF T = {} THEN base
                             ELSE LET x == Max(T) IN Visit(iter[T \ {x}], waiting[x])])[DOMAIN waiting]
    BY Zenon DEF FoldLeft, MapThenFoldSet
  <2> QED
    BY <1>1, <2>1 DEF MoveTodoToReady
<1> HIDE DEF it
<1> DEFINE g == [k \in 0..n |-> it[1..k]]
           Good == {k \in 0..n : g[k] \in Passes}
<1>8. g[0] = base
  <2>1. 1..0 = {} /\ {} \in SUBSET (1..n) /\ 0 \in 0..n
    BY <1>1
  <2>2. it[{}] = base
    BY <1>6
  <2> HIDE DEF base, n
  <2> QED
    BY <2>1, <2>2
<1>9. ASSUME NEW k \in 1..n PROVE g[k] = Visit(g[k - 1], waiting[k])
  <2>1. /\ 1..k \in SUBSET (1..n) /\ 1..k # {}
        /\ Max(1..k) = k /\ (1..k) \ {k} = 1..(k - 1)
    BY <1>1, Prefix
  <2>2. it[1..k] = Visit(it[(1..k) \ {Max(1..k)}], waiting[Max(1..k)])
    <3> DEFINE T == 1..k
    <3>1. T \in SUBSET (1..n) /\ T # {}
      BY <2>1
    <3> HIDE DEF T
    <3>2. it[T] = Visit(it[T \ {Max(T)}], waiting[Max(T)])
      BY <1>6, <3>1
    <3> QED
      BY <3>2 DEF T
  <2>3. k \in 0..n /\ k - 1 \in 0..n
    BY <1>1
  <2>4. g[k] = it[1..k] /\ g[k - 1] = it[1..(k - 1)]
    BY <2>3
  <2> QED
    BY <2>1, <2>2, <2>4
<1> HIDE DEF g
<1>10. \A k \in 0..n : k \in Good
  <2>1. 0 \in Good
    BY <1>1, <1>2, <1>8
  <2>2. ASSUME NEW k \in 1..n, k - 1 \in Good PROVE k \in Good
    BY <1>3, <1>9, <2>2
  <2> HIDE DEF Good
  <2> QED
    BY <1>1, <2>1, <2>2, CountUp
<1>11. g \in [0..n -> Passes]
  <2>1. g = [k \in 0..n |-> g[k]]
    BY DEF g
  <2> QED
    BY <1>10, <2>1
<1>12. MoveTodoToReady(waiting, st) = g[n]
  <2>1. n \in 0..n
    BY <1>1
  <2> QED
    BY <1>7, <2>1 DEF g
<1> QED
  BY <1>8, <1>9, <1>11, <1>12 DEF Walk

\* What the scheduler walks over: nobody in the list has run, and a dependency
\* that is also in the list comes first
Walkable(waiting, st) ==
  /\ waiting \in Seq(Job) /\ Sorted(waiting) /\ Distinct(waiting)
  /\ ready \in Seq(Job) /\ Sorted(ready)
  /\ priority \in [Job -> Int] /\ st \in [Job -> Status]
  /\ \A j \in ToSet(waiting) :
       st[j] = "NOT_STARTED" /\ \A d \in Deps[j] \cap ToSet(waiting) : priority[d] < priority[j]

\* What a pass has made of a job, and will not change any more
Decided(p, j) ==
  \/ /\ Blocked(p.status, j) /\ p.status[j] = "NOT_STARTED"
     /\ j \in ToSet(p.todo) /\ j \notin ToSet(p.ready) \ ToSet(ready)
  \/ /\ ~Blocked(p.status, j) /\ Unblocks(p.status, j) /\ p.status[j] = "NOT_STARTED"
     /\ j \notin ToSet(p.todo) /\ j \in ToSet(p.ready)
  \/ /\ ~Blocked(p.status, j) /\ ~Unblocks(p.status, j) /\ p.status[j] = "SKIPPED"
     /\ j \notin ToSet(p.todo) /\ j \notin ToSet(p.ready) \ ToSet(ready)

Seen(waiting, k) == {waiting[i] : i \in 1..k}

Walked(p, waiting, st, k) ==
  /\ p \in Passes
  /\ Sorted(p.todo) /\ Distinct(p.todo) /\ Sorted(p.ready)
  /\ ToSet(p.todo) \subseteq Seen(waiting, k)
  /\ ToSet(ready) \subseteq ToSet(p.ready)
  /\ ToSet(p.ready) \subseteq ToSet(ready) \cup Seen(waiting, k)
  /\ \A j \in Job \ Seen(waiting, k) : p.status[j] = st[j]
  /\ \A j \in Seen(waiting, k) : Decided(p, j)

LEMMA DepsAreJobs == \A j \in Job : Deps[j] \subseteq Job
BY DEF Deps

LEMMA WalkStep ==
  ASSUME NEW waiting, NEW st, Walkable(waiting, st), NEW g, Walk(g, waiting, st),
         NEW k \in 1..Len(waiting), Walked(g[k - 1], waiting, st, k - 1)
  PROVE  Walked(g[k], waiting, st, k)
<1> DEFINE n == Len(waiting)  j == waiting[k]  p == g[k - 1]  q == g[k]
           seen == Seen(waiting, k - 1)
<1>1. /\ waiting \in Seq(Job) /\ n \in Nat /\ \A i \in 1..n : waiting[i] \in Job
      /\ j \in Job /\ k \in 1..n
      /\ ToSet(waiting) = {waiting[i] : i \in 1..n}
  BY ToSetOf DEF Walkable, ToSet
<1>2. Seen(waiting, k) = seen \cup {j} /\ seen \subseteq ToSet(waiting) /\ j \in ToSet(waiting)
  <2>1. 1..k = (1..(k - 1)) \cup {k} /\ 1..(k - 1) \subseteq 1..n
    BY <1>1
  <2> QED
    BY <1>1, <2>1 DEF Seen
<1>3. j \notin seen
  <2>1. \A i \in 1..(k - 1) : i \in 1..n /\ i # k
    BY <1>1
  <2> QED
    BY <1>1, <2>1 DEF Seen, Distinct, Walkable
<1>4. \A i \in seen \cup {j} : priority[i] <= priority[j] /\ i \in Job
  <2>1. \A i \in 1..(k - 1) : i \in 1..n /\ i < k
    BY <1>1
  <2>2. priority[j] \in Int
    BY <1>1 DEF Walkable
  <2> QED
    BY <1>1, <2>1, <2>2 DEF Seen, Sorted, Walkable
<1>5. /\ p \in Passes /\ p.todo \in Seq(Job) /\ p.ready \in Seq(Job)
      /\ p.status \in [Job -> Status \cup {Illegal}]
  BY DEF Walked, Passes
<1>6. q = Visit(p, j)
  BY <1>1 DEF Walk
<1>7. p.status[j] = "NOT_STARTED"
  BY <1>1, <1>2, <1>3 DEF Walked, Walkable
<1> HIDE DEF n, j, p, q, seen
<1>8. /\ q \in Passes
      /\ \/ /\ Blocked(p.status, j)
            /\ q.todo = Append(p.todo, j) /\ q.ready = p.ready /\ q.status = p.status
         \/ /\ ~Blocked(p.status, j) /\ Unblocks(p.status, j)
            /\ q.ready = Insort(p.ready, j) /\ q.todo = p.todo /\ q.status = p.status
         \/ /\ ~Blocked(p.status, j) /\ ~Unblocks(p.status, j)
            /\ q.status = [p.status EXCEPT ![j] = "SKIPPED"]
            /\ q.todo = p.todo /\ q.ready = p.ready
  <2>1. Update(p.status[j], "SKIPPED") = "SKIPPED"
    BY <1>7 DEF Update, Legal
  <2> QED
    BY <1>1, <1>5, <1>6, <2>1, VisitIs
<1>9. /\ Sorted(p.todo) /\ Distinct(p.todo) /\ Sorted(p.ready)
      /\ ToSet(p.todo) \subseteq seen
      /\ ToSet(ready) \subseteq ToSet(p.ready) /\ ToSet(p.ready) \subseteq ToSet(ready) \cup seen
      /\ \A i \in Job \ seen : p.status[i] = st[i]
      /\ \A i \in seen : Decided(p, i)
  BY DEF Walked, p, seen
<1>10. \A i \in seen \cup {j} : j \notin Deps[i]
  <2> SUFFICES ASSUME NEW i \in seen \cup {j}, j \in Deps[i] PROVE FALSE
    OBVIOUS
  <2>1. i \in ToSet(waiting) /\ priority[i] <= priority[j] /\ priority[i] \in Int /\ priority[j] \in Int
    BY <1>1, <1>2, <1>4 DEF Walkable
  <2>2. priority[j] < priority[i]
    BY <1>2, <2>1 DEF Walkable
  <2> QED
    BY <2>1, <2>2
<1>11. \A i \in Job \ {j} : q.status[i] = p.status[i]
  BY <1>5, <1>8
<1>12. \A i \in seen \cup {j} :
         Blocked(q.status, i) = Blocked(p.status, i) /\ Unblocks(q.status, i) = Unblocks(p.status, i)
  <2> SUFFICES ASSUME NEW i \in seen \cup {j}
               PROVE  /\ Blocked(q.status, i) = Blocked(p.status, i)
                      /\ Unblocks(q.status, i) = Unblocks(p.status, i)
    OBVIOUS
  <2>1. \A d \in Deps[i] : q.status[d] = p.status[d]
    BY <1>4, <1>10, <1>11, DepsAreJobs
  <2> QED
    BY <2>1 DEF Blocked, Unblocks
<1>0. /\ ToSet(Append(p.todo, j)) = ToSet(p.todo) \cup {j}
      /\ ToSet(Insort(p.ready, j)) = ToSet(p.ready) \cup {j}
  BY <1>1, <1>5, AppendElements, InsortElements
<1>13. ToSet(q.todo) \subseteq ToSet(p.todo) \cup {j} /\ ToSet(p.todo) \subseteq ToSet(q.todo)
       /\ ToSet(q.ready) \subseteq ToSet(p.ready) \cup {j} /\ ToSet(p.ready) \subseteq ToSet(q.ready)
  BY <1>0, <1>8
<1>14. Sorted(q.todo) /\ Distinct(q.todo) /\ Sorted(q.ready)
  <2>1. priority \in [Job -> Int]
    BY DEF Walkable
  <2>2. \A i \in ToSet(p.todo) : priority[i] <= priority[j] /\ i # j
    BY <1>3, <1>4, <1>9
  <2> QED
    BY <1>1, <1>5, <1>8, <1>9, <2>1, <2>2, AppendElements, InsortSorted
<1>15. ASSUME NEW i \in seen PROVE Decided(q, i)
  <2>1. i # j /\ i \in Job
    BY <1>3, <1>4
  <2>2. /\ i \in ToSet(q.todo) <=> i \in ToSet(p.todo)
        /\ i \in ToSet(q.ready) <=> i \in ToSet(p.ready)
        /\ q.status[i] = p.status[i]
    BY <1>11, <1>13, <2>1
  <2> QED
    BY <1>9, <1>12, <2>2 DEF Decided
<1>16. Decided(q, j)
  <2>1. j \notin ToSet(p.todo) /\ j \notin ToSet(p.ready) \ ToSet(ready)
    BY <1>3, <1>9
  <2>2. CASE Blocked(p.status, j)
    <3>1. q.status[j] = "NOT_STARTED" /\ q.ready = p.ready /\ j \in ToSet(q.todo)
      BY <1>0, <1>7, <1>8, <2>2
    <3> QED
      BY <1>12, <2>1, <2>2, <3>1 DEF Decided
  <2>3. CASE ~Blocked(p.status, j) /\ Unblocks(p.status, j)
    <3>1. q.status[j] = "NOT_STARTED" /\ q.todo = p.todo /\ j \in ToSet(q.ready)
      BY <1>0, <1>7, <1>8, <2>3
    <3> QED
      BY <1>12, <2>1, <2>3, <3>1 DEF Decided
  <2>4. CASE ~Blocked(p.status, j) /\ ~Unblocks(p.status, j)
    <3>1. q.status[j] = "SKIPPED" /\ q.todo = p.todo /\ q.ready = p.ready
      BY <1>1, <1>5, <1>8, <2>4
    <3> QED
      BY <1>12, <2>1, <2>4, <3>1 DEF Decided
  <2> QED
    BY <2>2, <2>3, <2>4
<1>17. /\ ToSet(q.todo) \subseteq seen \cup {j}
       /\ ToSet(ready) \subseteq ToSet(q.ready)
       /\ ToSet(q.ready) \subseteq ToSet(ready) \cup (seen \cup {j})
       /\ \A i \in Job \ (seen \cup {j}) : q.status[i] = st[i]
       /\ \A i \in seen \cup {j} : Decided(q, i)
  BY <1>9, <1>11, <1>13, <1>15, <1>16
<1>18. Walked(q, waiting, st, k)
  BY <1>2, <1>8, <1>14, <1>17 DEF Walked
<1> QED
  BY <1>18 DEF q

\* The result of a pass
LEMMA WalkResult ==
  ASSUME NEW waiting, NEW st, Walkable(waiting, st)
  PROVE  LET p == MoveTodoToReady(waiting, st)
             t == ToSet(waiting)
             R == {j \in t : ~Blocked(p.status, j) /\ Unblocks(p.status, j)}
             S == {j \in t : ~Blocked(p.status, j) /\ ~Unblocks(p.status, j)}
         IN /\ p \in Passes /\ Sorted(p.todo) /\ Distinct(p.todo) /\ Sorted(p.ready)
            /\ ToSet(p.todo) = {j \in t : Blocked(p.status, j)}
            /\ ToSet(p.ready) = ToSet(ready) \cup R
            /\ p.status \in [Job -> Status]
            /\ \A j \in Job : p.status[j] = IF j \in S THEN "SKIPPED" ELSE st[j]
<1> DEFINE n == Len(waiting)
<1>1. /\ waiting \in Seq(Job) /\ ready \in Seq(Job) /\ n \in Nat
      /\ st \in [Job -> Status \cup {Illegal}] /\ st \in [Job -> Status]
      /\ ToSet(waiting) = {waiting[i] : i \in 1..n} /\ ToSet(waiting) \subseteq Job
  BY ToSetOf DEF Walkable, ToSet
<1>2. PICK g : Walk(g, waiting, st) /\ MoveTodoToReady(waiting, st) = g[n]
  BY <1>1, WalkIs
<1> DEFINE Good == {k \in 0..n : Walked(g[k], waiting, st, k)}
<1>3. 0 \in Good
  <2>1. Seen(waiting, 0) = {}
    BY DEF Seen
  <2>2. /\ g[0] \in Passes /\ g[0].todo = <<>> /\ g[0].ready = ready /\ g[0].status = st
    BY <1>1, <1>2 DEF Walk
  <2>3. ToSet(<<>>) = {} /\ Sorted(<<>>) /\ Distinct(<<>>)
    BY DEF ToSet, Sorted, Distinct
  <2> QED
    BY <1>1, <2>1, <2>2, <2>3 DEF Walked, Walkable
<1>4. ASSUME NEW k \in 1..n, k - 1 \in Good PROVE k \in Good
  BY <1>1, <1>2, <1>4, WalkStep
<1>5. Walked(g[n], waiting, st, n)
  <2>1. \A k \in 0..n : k \in Good
    <3> HIDE DEF Good, n
    <3> QED
      BY <1>1, <1>3, <1>4, CountUp
  <2> QED
    BY <1>1, <2>1
<1> DEFINE p == MoveTodoToReady(waiting, st)  t == ToSet(waiting)
           R == {j \in t : ~Blocked(p.status, j) /\ Unblocks(p.status, j)}
           S == {j \in t : ~Blocked(p.status, j) /\ ~Unblocks(p.status, j)}
<1>6. Seen(waiting, n) = t
  BY <1>1 DEF Seen
<1>7. /\ p \in Passes /\ Sorted(p.todo) /\ Distinct(p.todo) /\ Sorted(p.ready)
      /\ ToSet(p.todo) \subseteq t
      /\ ToSet(ready) \subseteq ToSet(p.ready) /\ ToSet(p.ready) \subseteq ToSet(ready) \cup t
      /\ \A j \in Job \ t : p.status[j] = st[j]
      /\ \A j \in t : Decided(p, j)
  BY <1>2, <1>5, <1>6 DEF Walked
<1> HIDE DEF n, p
<1>8. ToSet(p.todo) = {j \in t : Blocked(p.status, j)}
  BY <1>7 DEF Decided
<1>9. ToSet(p.ready) = ToSet(ready) \cup R
  BY <1>7 DEF Decided
<1>10. \A j \in Job : p.status[j] = IF j \in S THEN "SKIPPED" ELSE st[j]
  <2>1. \A j \in t : st[j] = "NOT_STARTED"
    BY DEF Walkable
  <2> QED
    BY <1>7, <2>1 DEF Decided
<1>11. p.status \in [Job -> Status]
  <2>1. p.status \in [Job -> Status \cup {Illegal}]
    BY <1>7 DEF Passes
  <2>2. \A j \in Job : p.status[j] \in Status
    BY <1>1, <1>10 DEF Status
  <2> QED
    BY <2>1, <2>2
<1> QED
  BY <1>7, <1>8, <1>9, <1>10, <1>11 DEF p

\* What is kept of a list, in its order
LEMMA KeepIs ==
  ASSUME NEW list \in Seq(Job), NEW S
  PROVE  /\ Keep(list, S) \in Seq(Job)
         /\ ToSet(Keep(list, S)) = ToSet(list) \cap S
         /\ Sorted(list) => Sorted(Keep(list, S))
         /\ Distinct(list) => Distinct(Keep(list, S))
<1> DEFINE n == Len(list)
           Kept(v, c) == IF c \in S THEN Append(v, c) ELSE v
           step == [i \in 1..n |-> [v \in Seq(Job) |-> Kept(v, list[i])]]
           Eq(it) == it = [T \in SUBSET (1..n) |->
                             IF T = {} THEN <<>>
                             ELSE LET x == Max(T) IN Kept(it[T \ {x}], list[x])]
           it == CHOOSE it : Eq(it)
<1>1. n \in Nat /\ DOMAIN list = 1..n /\ \A i \in 1..n : list[i] \in Job
  BY ToSetOf
<1>2. <<>> \in Seq(Job)
  OBVIOUS
<1>3. \A i \in 1..n : \A v \in Seq(Job) : Kept(v, list[i]) \in Seq(Job)
  BY <1>1
<1>4. PICK h \in [SUBSET (1..n) -> Seq(Job)] : IsWalk(h, n, <<>>, step)
  <2>1. step \in [1..n -> [Seq(Job) -> Seq(Job)]]
    BY <1>3
  <2> HIDE DEF step, n
  <2> QED
    BY <1>1, <1>2, <2>1, WalkExists
<1> HIDE DEF Kept
<1>5. Eq(h)
  <2>1. ASSUME NEW T \in SUBSET (1..n), T # {}
        PROVE  h[T] = Kept(h[T \ {Max(T)}], list[Max(T)])
    <3>1. Max(T) \in 1..n /\ T \ {Max(T)} \in SUBSET (1..n)
      BY <1>1, <2>1, MaxOf
    <3>2. h[T] = step[Max(T)][h[T \ {Max(T)}]] /\ h[T \ {Max(T)}] \in Seq(Job)
      BY <1>4, <2>1, <3>1 DEF IsWalk
    <3> QED
      BY <3>1, <3>2
  <2>2. h[{}] = <<>>
    BY <1>4 DEF IsWalk
  <2> HIDE DEF step, n
  <2> QED
    BY <1>4, <2>1, <2>2
<1>6. Eq(it)
  <2> HIDE DEF Eq
  <2> QED
    BY <1>5
<1>7. Keep(list, S) = it[1..n]
  <2>1. Keep(list, S)
        = (CHOOSE iter : iter = [T \in SUBSET (DOMAIN list) |->
                             IF T = {} THEN <<>>
                             ELSE LET x == Max(T) IN Kept(iter[T \ {x}], list[x])])[DOMAIN list]
    BY Zenon DEF Keep, Kept, FoldLeft, MapThenFoldSet
  <2> QED
    BY <1>1, <2>1
<1> HIDE DEF it
<1>8. it[{}] = <<>>
  BY <1>6
<1>9. ASSUME NEW k \in 1..n PROVE it[1..k] = Kept(it[1..(k - 1)], list[k])
  <2> DEFINE T == 1..k
  <2>1. T \in SUBSET (1..n) /\ T # {} /\ Max(T) = k /\ T \ {k} = 1..(k - 1)
    BY <1>1, Prefix
  <2> HIDE DEF T
  <2>2. it[T] = Kept(it[T \ {Max(T)}], list[Max(T)])
    BY <1>6, <2>1
  <2> QED
    BY <2>1, <2>2 DEF T
<1> DEFINE Is(v, k) == /\ v \in Seq(Job)
                       /\ ToSet(v) = Seen(list, k) \cap S
                       /\ Sorted(list) => Sorted(v)
                       /\ Distinct(list) => Distinct(v)
           Good == {k \in 0..n : Is(it[1..k], k)}
<1>10. 0 \in Good
  <2>1. 1..0 = {} /\ Seen(list, 0) = {} /\ 0 \in 0..n
    BY <1>1 DEF Seen
  <2>2. ToSet(<<>>) = {} /\ Sorted(<<>>) /\ Distinct(<<>>)
    BY DEF ToSet, Sorted, Distinct
  <2>3. Is(<<>>, 0)
    BY <1>2, <2>1, <2>2
  <2> HIDE DEF Is, n
  <2> QED
    BY <1>8, <2>1, <2>3
<1>11. ASSUME NEW k \in 1..n, k - 1 \in Good PROVE k \in Good
  <2> DEFINE v == it[1..(k - 1)]  j == list[k]
  <2>1. Is(v, k - 1) /\ j \in Job /\ k \in 0..n
    BY <1>1, <1>11
  <2>2. Seen(list, k) = Seen(list, k - 1) \cup {j}
    <3>1. 1..k = (1..(k - 1)) \cup {k}
      BY <1>1
    <3> QED
      BY <3>1 DEF Seen
  <2>3. Distinct(list) => j \notin Seen(list, k - 1)
    <3>1. \A i \in 1..(k - 1) : i \in 1..n /\ i # k
      BY <1>1
    <3> QED
      BY <1>1, <3>1 DEF Seen, Distinct
  <2>4. Sorted(list) => \A i \in Seen(list, k - 1) : priority[i] <= priority[j]
    <3>1. \A i \in 1..(k - 1) : i \in 1..n /\ i < k
      BY <1>1
    <3> QED
      BY <1>1, <3>1 DEF Seen, Sorted
  <2>5. it[1..k] = IF j \in S THEN Append(v, j) ELSE v
    BY <1>9 DEF Kept
  <2> HIDE DEF v, j, n
  <2>6. CASE j \in S
    <3>1. Is(Append(v, j), k)
      BY <2>1, <2>2, <2>3, <2>4, <2>6, AppendElements
    <3> HIDE DEF Is
    <3> QED
      BY <2>1, <2>5, <2>6, <3>1
  <2>7. CASE j \notin S
    <3>1. Is(v, k)
      BY <2>1, <2>2, <2>7
    <3> HIDE DEF Is
    <3> QED
      BY <2>1, <2>5, <2>7, <3>1
  <2> QED
    BY <2>6, <2>7
<1>12. \A k \in 0..n : k \in Good
  <2> HIDE DEF Good, n
  <2> QED
    BY <1>1, <1>10, <1>11, CountUp
<1>13. Is(it[1..n], n)
  <2>1. n \in Good
    BY <1>1, <1>12
  <2> HIDE DEF Is, n
  <2> QED
    BY <2>1
<1>14. Seen(list, n) = ToSet(list)
  BY <1>1 DEF Seen, ToSet
<1> QED
  BY <1>7, <1>13, <1>14

-----------------------------------------------------------------------------
(* The inductive invariant of QueuesInv. *)

QueueTypes ==
  /\ added \subseteq Job /\ todo \in Seq(Job) /\ ready \in Seq(Job)
  /\ status \in [Job -> {"NOT_STARTED", "PASSED", "FAILED", "SKIPPED"}]

\* Who waits or is ready was added, is in one place, and has not run
InOnePlace ==
  /\ Distinct(todo)
  /\ ToSet(todo) \cup ToSet(ready) \subseteq added
  /\ ToSet(todo) \cap ToSet(ready) = {}
  /\ \A j \in Job : j \notin added \/ j \in ToSet(todo) \cup ToSet(ready) => status[j] = "NOT_STARTED"

\* Whoever is past the first list had dependencies that were successful
DependenciesDone ==
  \A j \in added \ ToSet(todo) : status[j] # "SKIPPED" => Unblocks(status, j)

\* Once there are lists, priorities only change of jobs that have run
CallsDone ==
  added # {} => \A d \in Job : calls[d] > 0 => Successful(status[d])

ListInv ==
  QueueTypes /\ Sorted(todo) /\ Sorted(ready) /\ InOnePlace /\ DependenciesDone /\ CallsDone

IInv == GraphInv /\ PendingCounts /\ ListInv

LEMMA DepsIs == \A j \in Job : \A d : d \in Deps[j] <=> d \in Job /\ dependencies[j][d] > 0
BY DEF Deps

LEMMA InitLists == Init => ListInv
<1> SUFFICES ASSUME Init PROVE ListInv
  OBVIOUS
<1>1. ToSet(<<>>) = {} /\ Sorted(<<>>) /\ Distinct(<<>>)
  BY DEF ToSet, Sorted, Distinct
<1> QED
  BY <1>1 DEF Init, ListInv, QueueTypes, InOnePlace, DependenciesDone, CallsDone

\* The job that gets a dependency is not in the lists yet
LEMMA AddDependencyLists ==
  ASSUME GraphInv, ListInv, NEW j \in Job, NEW d \in Job, AddDependency(j, d)
  PROVE  ListInv'
<1>1. /\ j \notin added /\ (added = {} \/ Successful(status[d]))
      /\ \A k \in Job : calls[k] = 0
      /\ dependencies' = [dependencies EXCEPT ![j][d] = @ + 1]
      /\ calls' = [calls EXCEPT ![d] = 1] /\ priority' = priority /\ UNCHANGED queues
  BY DEF AddDependency, MayDepend, Settled
<1>2. QueueTypes' /\ Sorted(todo)' /\ Sorted(ready)' /\ InOnePlace'
  BY <1>1 DEF ListInv, QueueTypes, Sorted, InOnePlace, Distinct, queues
<1>3. CallsDone'
  BY <1>1 DEF CallsDone, queues, GraphInv, GraphTypes
<1>4. \A k \in added : dependencies'[k] = dependencies[k]
  BY <1>1 DEF ListInv, QueueTypes, GraphInv, GraphTypes
<1>5. \A k \in added : Deps'[k] = Deps[k]
  BY <1>4 DEF Deps, ListInv, QueueTypes
<1>6. DependenciesDone'
  BY <1>1, <1>5 DEF ListInv, DependenciesDone, Unblocks, queues
<1> QED
  BY <1>2, <1>3, <1>6 DEF ListInv

\* No job in the lists gets another priority
LEMMA IncreasePriorityLists ==
  ASSUME GraphInv, ListInv, NEW x \in Job, IncreasePriority(x)
  PROVE  ListInv'
<1>1. /\ calls[x] > 0 /\ dependencies' = dependencies /\ UNCHANGED queues
      /\ priority' = [priority EXCEPT ![x] = @ + value]
      /\ \A k \in Job : k # x => calls'[k] = calls[k] + dependencies[x][k]
      /\ calls'[x] = calls[x] - 1
      /\ \A k \in Job : calls[k] \in Nat /\ dependencies[x][k] \in Nat
  <2>1. dependencies[x][x] = 0
    BY DEF GraphInv, Bounded
  <2> QED
    BY <2>1 DEF IncreasePriority, GraphInv, GraphTypes
<1>2. added # {} => Successful(status[x])
  BY <1>1 DEF ListInv, CallsDone
<1>3. x \notin ToSet(todo) \cup ToSet(ready)
  BY <1>2 DEF ListInv, InOnePlace, Successful
<1>4. \A list \in {todo, ready} : Sorted(list)'
  <2> SUFFICES ASSUME NEW list \in {todo, ready}, NEW i \in 1..Len(list), NEW k \in 1..Len(list), i < k
               PROVE  priority'[list[i]] <= priority'[list[k]]
    BY <1>1 DEF Sorted, queues
  <2>1. list \in Seq(Job) /\ Sorted(list) /\ x \notin ToSet(list)
    BY <1>3 DEF ListInv, QueueTypes
  <2>2. list[i] \in Job \ {x} /\ list[k] \in Job \ {x}
    BY <2>1, ToSetOf
  <2>3. priority'[list[i]] = priority[list[i]] /\ priority'[list[k]] = priority[list[k]]
    BY <1>1, <2>2 DEF GraphInv, GraphTypes
  <2> QED
    BY <2>1, <2>3 DEF Sorted
<1>5. QueueTypes' /\ InOnePlace' /\ Sorted(todo)' /\ Sorted(ready)'
  <2>1. todo' = todo /\ ready' = ready
    BY <1>1 DEF queues
  <2> QED
    BY <1>1, <1>4, <2>1 DEF ListInv, QueueTypes, InOnePlace, Distinct, queues, Sorted
<1>6. DependenciesDone'
  <2>1. Deps' = Deps
    BY <1>1 DEF Deps
  <2> QED
    BY <1>1, <2>1 DEF ListInv, DependenciesDone, Unblocks, queues
<1>7. CallsDone'
  <2> SUFFICES ASSUME added # {}, NEW k \in Job, calls'[k] > 0 PROVE Successful(status[k])
    BY <1>1 DEF CallsDone, queues
  <2>1. CASE calls[k] > 0
    BY <2>1 DEF ListInv, CallsDone
  <2>2. CASE calls[k] = 0
    <3>1. k # x /\ dependencies[x][k] > 0
      BY <1>1, <2>2
    <3>2. x \in added \ ToSet(todo) /\ status[x] # "SKIPPED"
      BY <1>2, <1>3 DEF ListInv, InOnePlace, Successful
    <3>3. Unblocks(status, x)
      BY <3>2 DEF ListInv, DependenciesDone
    <3> QED
      BY <3>1, <3>3, DepsIs DEF Unblocks
  <2> QED
    BY <1>1, <2>1, <2>2
<1> QED
  BY <1>5, <1>6, <1>7 DEF ListInv

LEMMA AddJobLists ==
  ASSUME GraphInv, ListInv, NEW j \in Job, AddJob(j)
  PROVE  ListInv'
<1>1. /\ \A k \in Job : calls[k] = 0
      /\ j \notin added /\ added' = added \cup {j} /\ todo' = Insort(todo, j)
      /\ UNCHANGED <<dependencies, priority, calls, value, ready, status>>
  BY DEF AddJob, Settled, graph
<1>2. /\ todo \in Seq(Job) /\ Sorted(todo) /\ Distinct(todo) /\ j \notin ToSet(todo)
      /\ j \notin ToSet(ready) /\ priority \in [Job -> Int] /\ status[j] = "NOT_STARTED"
  BY <1>1 DEF ListInv, QueueTypes, InOnePlace, GraphInv, GraphTypes
<1>3. /\ Insort(todo, j) \in Seq(Job) /\ Sorted(Insort(todo, j)) /\ Distinct(Insort(todo, j))
      /\ ToSet(Insort(todo, j)) = ToSet(todo) \cup {j}
  BY <1>2, InsortSorted, InsortElements
<1> DEFINE new == Insort(todo, j)
<1> HIDE DEF new
<1>4. todo' = new /\ new \in Seq(Job) /\ Sorted(new) /\ Distinct(new) /\ ToSet(new) = ToSet(todo) \cup {j}
  BY <1>1, <1>3 DEF new
<1>5. QueueTypes' /\ Sorted(todo)' /\ Sorted(ready)'
  BY <1>1, <1>4 DEF ListInv, QueueTypes, Sorted
<1>6. InOnePlace'
  BY <1>1, <1>2, <1>4 DEF ListInv, InOnePlace, Distinct
<1>7. DependenciesDone'
  <2>1. Deps' = Deps /\ added' \ ToSet(new) = added \ ToSet(todo)
    BY <1>1, <1>4 DEF Deps
  <2> QED
    BY <1>1, <1>4, <2>1 DEF ListInv, DependenciesDone, Unblocks
<1>8. CallsDone'
  BY <1>1 DEF CallsDone
<1> QED
  BY <1>5, <1>6, <1>7, <1>8 DEF ListInv

\* No dependency of a waiting job that waits too comes after it, even while
\* the priorities of jobs that have run are still changing
LEMMA WalkableNow ==
  ASSUME GraphInv, ListInv, NEW waiting \in Seq(Job), Sorted(waiting), Distinct(waiting),
         ToSet(waiting) \subseteq ToSet(todo), NEW st \in [Job -> Status],
         \A j \in ToSet(waiting) : st[j] = "NOT_STARTED"
  PROVE  Walkable(waiting, st)
<1>1. ASSUME NEW j \in ToSet(waiting), NEW d \in Deps[j], d \in ToSet(waiting)
      PROVE  priority[d] < priority[j]
  <2>1. /\ j \in Job /\ d \in Job /\ dependencies[j][d] > 0
        /\ d \in added /\ status[d] = "NOT_STARTED"
    BY <1>1, ToSetOf, DepsIs DEF ListInv, InOnePlace
  <2>2. calls[d] = 0
    <3>1. ~(calls[d] > 0)
      BY <2>1 DEF ListInv, CallsDone, Successful
    <3> QED
      BY <2>1, <3>1 DEF GraphInv, GraphTypes
  <2>3. priority[d] + value * calls[d] <= priority[j] + BasePriority /\ value * calls[d] = 0
    BY <2>1, <2>2 DEF GraphInv, EdgesFall, GraphTypes
  <2>4. priority[d] \in Int /\ priority[j] \in Int
    BY <2>1 DEF GraphInv, GraphTypes
  <2> QED
    BY <2>3, <2>4, PriorityAssumption
<1> QED
  BY <1>1 DEF Walkable, ListInv, QueueTypes, GraphInv, GraphTypes

\* What is true before a pass: the jobs to walk over are left from the first
\* list, and st are the statuses so far
Passable(waiting, st) ==
  /\ waiting \in Seq(Job) /\ Sorted(waiting) /\ Distinct(waiting)
  /\ ToSet(waiting) \subseteq ToSet(todo)
  /\ st \in [Job -> {"NOT_STARTED", "PASSED", "FAILED", "SKIPPED"}]
  /\ \A j \in Job : j \notin added \/ j \in ToSet(waiting) \cup ToSet(ready) => st[j] = "NOT_STARTED"
  /\ \A j \in added \ ToSet(waiting) : st[j] # "SKIPPED" => Unblocks(st, j)
  /\ \A d \in Job : Successful(status[d]) => Successful(st[d])

LEMMA PassableWalk ==
  ASSUME GraphInv, ListInv, NEW waiting, NEW st, Passable(waiting, st)
  PROVE  Walkable(waiting, st)
<1>1. st \in [Job -> Status]
  BY DEF Passable, Status
<1>2. \A j \in ToSet(waiting) : st[j] = "NOT_STARTED"
  BY ToSetOf DEF Passable
<1> QED
  BY <1>1, <1>2, WalkableNow DEF Passable

\* A pass, after which one ready job may be taken
LEMMA PassLists ==
  ASSUME GraphInv, ListInv, NEW waiting, NEW st, Passable(waiting, st),
         UNCHANGED <<graph, added>>,
         todo' = MoveTodoToReady(waiting, st).todo,
         status' = MoveTodoToReady(waiting, st).status,
         ready' \in Seq(Job), Sorted(ready'),
         ToSet(ready') \subseteq ToSet(MoveTodoToReady(waiting, st).ready)
  PROVE  ListInv'
<1> DEFINE p == MoveTodoToReady(waiting, st)
           t == ToSet(waiting)
           R == {j \in t : ~Blocked(p.status, j) /\ Unblocks(p.status, j)}
           S == {j \in t : ~Blocked(p.status, j) /\ ~Unblocks(p.status, j)}
<1>1. /\ p \in Passes /\ Sorted(p.todo) /\ Distinct(p.todo)
      /\ ToSet(p.todo) = {j \in t : Blocked(p.status, j)}
      /\ ToSet(p.ready) = ToSet(ready) \cup R
      /\ \A j \in Job : p.status[j] = IF j \in S THEN "SKIPPED" ELSE st[j]
      /\ p.status \in [Job -> Status]
  BY PassableWalk, WalkResult
<1>2. todo' = p.todo /\ status' = p.status /\ ToSet(ready') \subseteq ToSet(p.ready)
  OBVIOUS
<1> HIDE DEF p
<1>3. /\ dependencies' = dependencies /\ priority' = priority /\ calls' = calls /\ added' = added
  BY DEF graph
<1>4. /\ t \subseteq ToSet(todo) /\ t \subseteq added /\ t \subseteq Job /\ t \cap ToSet(ready) = {}
      /\ \A j \in t : st[j] = "NOT_STARTED"
      /\ \A j \in Job : st[j] \in {"NOT_STARTED", "PASSED", "FAILED", "SKIPPED"}
      /\ \A j \in Job : j \notin added \/ j \in ToSet(ready) => st[j] = "NOT_STARTED"
      /\ added \subseteq Job
  BY ToSetOf DEF Passable, ListInv, InOnePlace, QueueTypes
<1>5. QueueTypes'
  <2>1. p.todo \in Seq(Job)
    BY <1>1 DEF Passes
  <2>2. \A j \in Job : p.status[j] \in {"NOT_STARTED", "PASSED", "FAILED", "SKIPPED"}
    BY <1>1, <1>4
  <2>3. p.status \in [Job -> {"NOT_STARTED", "PASSED", "FAILED", "SKIPPED"}]
    BY <1>1, <2>2
  <2> QED
    BY <1>2, <1>3, <1>4, <2>1, <2>3 DEF QueueTypes
<1>6. Sorted(todo)' /\ Sorted(ready)'
  BY <1>1, <1>2, <1>3 DEF Sorted
<1>7. Distinct(todo)'
  BY <1>1, <1>2 DEF Distinct
<1>8. ToSet(todo)' = ToSet(p.todo) /\ ToSet(ready)' = ToSet(ready')
  BY <1>2
<1>9. InOnePlace'
  <2>1. ToSet(todo)' \cup ToSet(ready)' \subseteq added
    BY <1>1, <1>2, <1>4, <1>8 DEF ListInv, InOnePlace
  <2>2. ToSet(todo)' \cap ToSet(ready)' = {}
    BY <1>1, <1>2, <1>4, <1>8
  <2>3. ASSUME NEW j \in Job, j \notin added \/ j \in ToSet(todo)' \cup ToSet(ready)'
        PROVE  status'[j] = "NOT_STARTED"
    BY <1>1, <1>2, <1>4, <1>8, <2>3
  <2> QED
    BY <1>3, <1>7, <2>1, <2>2, <2>3 DEF InOnePlace
<1>10. DependenciesDone'
  <2> SUFFICES ASSUME NEW j \in added, j \notin ToSet(p.todo), p.status[j] # "SKIPPED"
               PROVE  Unblocks(p.status, j)
    BY <1>2, <1>3, <1>8 DEF DependenciesDone, Unblocks, Deps
  <2>1. CASE j \in t
    <3>1. ~Blocked(p.status, j) /\ j \notin S
      BY <1>1, <1>4, <2>1
    <3> QED
      BY <2>1, <3>1
  <2>2. CASE j \notin t
    <3>1. Unblocks(st, j)
      BY <1>1, <1>4, <2>2 DEF Passable
    <3>2. \A d \in Deps[j] : d \in Job /\ d \notin S
      BY <1>4, <3>1, DepsAreJobs DEF Unblocks, Successful
    <3> QED
      BY <1>1, <3>1, <3>2 DEF Unblocks
  <2> QED
    BY <2>1, <2>2
<1>11. CallsDone'
  <2> SUFFICES ASSUME added # {}, NEW d \in Job, calls[d] > 0 PROVE Successful(p.status[d])
    BY <1>2, <1>3 DEF CallsDone
  <2>1. Successful(st[d])
    BY DEF ListInv, CallsDone, Passable
  <2> QED
    BY <1>1, <1>4, <2>1 DEF Successful
<1> QED
  BY <1>5, <1>6, <1>9, <1>10, <1>11 DEF ListInv

\* Before the walk of the scheduler
LEMMA RunJobsPassable ==
  ListInv => Passable(todo, status)
BY DEF Passable, ListInv, QueueTypes, InOnePlace, DependenciesDone

LEMMA RunJobsLists ==
  ASSUME GraphInv, ListInv, RunJobs
  PROVE  ListInv'
<1> DEFINE p == MoveTodoToReady(todo, status)
<1>1. /\ todo' = p.todo /\ status' = p.status
      /\ ready' = p.ready \/ \E i \in DOMAIN p.ready : ready' = RemoveAt(p.ready, i)
      /\ UNCHANGED <<graph, added>>
  BY DEF RunJobs
<1>2. Passable(todo, status)
  BY RunJobsPassable
<1>3. p \in Passes /\ Sorted(p.ready)
  BY <1>2, PassableWalk, WalkResult
<1> HIDE DEF p
<1>4. p.ready \in Seq(Job)
  BY <1>3 DEF Passes
<1>5. ready' \in Seq(Job) /\ Sorted(ready') /\ ToSet(ready') \subseteq ToSet(p.ready)
  <2>1. CASE ready' = p.ready
    BY <1>3, <1>4, <2>1
  <2>2. ASSUME NEW i \in DOMAIN p.ready, ready' = RemoveAt(p.ready, i)
        PROVE  ready' \in Seq(Job) /\ Sorted(ready') /\ ToSet(ready') \subseteq ToSet(p.ready)
    BY <1>3, <1>4, <2>2, RemoveAtElements
  <2> QED
    BY <1>1, <2>1, <2>2
<1> QED
  BY <1>1, <1>2, <1>5, PassLists DEF p

\* A job that was taken has had its dependencies
LEMMA LaunchedIs ==
  ListInv => \A j \in Launched :
    /\ j \in Job /\ j \in added /\ j \notin ToSet(todo) \cup ToSet(ready)
    /\ status[j] = "NOT_STARTED" /\ Unblocks(status, j)
    /\ Outcome(j, "PASSED") = [status EXCEPT ![j] = "PASSED"]
    /\ Outcome(j, "FAILED") = [status EXCEPT ![j] = "FAILED"]
<1> SUFFICES ASSUME ListInv, NEW j \in Launched
             PROVE  /\ j \in Job /\ j \in added /\ j \notin ToSet(todo) \cup ToSet(ready)
                    /\ status[j] = "NOT_STARTED" /\ Unblocks(status, j)
                    /\ Outcome(j, "PASSED") = [status EXCEPT ![j] = "PASSED"]
                    /\ Outcome(j, "FAILED") = [status EXCEPT ![j] = "FAILED"]
  OBVIOUS
<1>1. todo \in Seq(Job) /\ ready \in Seq(Job)
  BY DEF ListInv, QueueTypes
<1>2. ToSet(todo \o ready) = ToSet(todo) \cup ToSet(ready)
  <2>1. ToSet(todo) = Range(todo) /\ ToSet(ready) = Range(ready) /\ ToSet(todo \o ready) = Range(todo \o ready)
    BY DEF ToSet, Range
  <2> QED
    BY <1>1, <2>1, RangeConcatenation
<1>3. j \in added /\ j \notin ToSet(todo) \cup ToSet(ready) /\ ~Completed(status[j])
  BY <1>2 DEF Launched
<1>4. j \in Job /\ status[j] = "NOT_STARTED"
  BY <1>3 DEF ListInv, QueueTypes, Completed
<1>5. Unblocks(status, j)
  BY <1>3, <1>4 DEF ListInv, DependenciesDone
<1>6. Update(status[j], "PASSED") = "PASSED" /\ Update(status[j], "FAILED") = "FAILED"
  BY <1>4 DEF Update, Legal
<1> QED
  BY <1>3, <1>4, <1>5, <1>6 DEF Outcome

\* The lists after a failure, whatever the recursion leaves
LEMMA SkipChildrenIs ==
  ASSUME ListInv, NEW j \in Launched
  PROVE  LET K == ToSet(todo) \ Left(ToSet(todo), j)
             kept == SkipChildren(j)
         IN /\ kept.todo \in Seq(Job) /\ Sorted(kept.todo) /\ Distinct(kept.todo)
            /\ ToSet(kept.todo) = ToSet(todo) \ K
            /\ kept.status \in [Job -> {"NOT_STARTED", "PASSED", "FAILED", "SKIPPED"}]
            /\ \A c \in Job : kept.status[c] = IF c \in K THEN "SKIPPED"
                                               ELSE IF c = j THEN "FAILED" ELSE status[c]
<1> DEFINE left == Left(ToSet(todo), j)  K == ToSet(todo) \ left
           new == [c \in Job |-> IF c \in K THEN Update(status[c], "SKIPPED")
                                 ELSE Outcome(j, "FAILED")[c]]
<1>1. todo \in Seq(Job) /\ Sorted(todo) /\ Distinct(todo) /\ ToSet(todo) \subseteq Job
  BY ToSetOf DEF ListInv, QueueTypes, InOnePlace
<1>2. SkipChildren(j).todo = Keep(todo, left) /\ SkipChildren(j).status = new
  BY DEF SkipChildren
<1> HIDE DEF left
<1>3. /\ Keep(todo, left) \in Seq(Job) /\ Sorted(Keep(todo, left)) /\ Distinct(Keep(todo, left))
      /\ ToSet(Keep(todo, left)) = ToSet(todo) \cap left
  BY <1>1, KeepIs
<1>4. \A c \in K : status[c] = "NOT_STARTED" /\ Update(status[c], "SKIPPED") = "SKIPPED"
  BY <1>1 DEF ListInv, InOnePlace, Update, Legal
<1>5. \A c \in Job : Outcome(j, "FAILED")[c] = IF c = j THEN "FAILED" ELSE status[c]
  BY LaunchedIs DEF ListInv, QueueTypes
<1> HIDE DEF K
<1>6. \A c \in Job : new[c] = IF c \in K THEN "SKIPPED"
                              ELSE IF c = j THEN "FAILED" ELSE status[c]
  BY <1>4, <1>5
<1>7. new \in [Job -> {"NOT_STARTED", "PASSED", "FAILED", "SKIPPED"}]
  <2>1. \A c \in Job : new[c] \in {"NOT_STARTED", "PASSED", "FAILED", "SKIPPED"}
    BY <1>6 DEF ListInv, QueueTypes
  <2> QED
    BY <2>1
<1>8. ToSet(Keep(todo, left)) = ToSet(todo) \ K
  BY <1>3 DEF K
<1> HIDE DEF new
<1> QED
  BY <1>2, <1>3, <1>6, <1>7, <1>8 DEF K, left

LEMMA SkippedPassable ==
  ASSUME ListInv, NEW j \in Launched
  PROVE  Passable(SkipChildren(j).todo, SkipChildren(j).status)
<1> DEFINE K == ToSet(todo) \ Left(ToSet(todo), j)  w == SkipChildren(j).todo  st == SkipChildren(j).status
<1>1. /\ w \in Seq(Job) /\ Sorted(w) /\ Distinct(w) /\ ToSet(w) = ToSet(todo) \ K
      /\ st \in [Job -> {"NOT_STARTED", "PASSED", "FAILED", "SKIPPED"}]
      /\ \A c \in Job : st[c] = IF c \in K THEN "SKIPPED" ELSE IF c = j THEN "FAILED" ELSE status[c]
  BY SkipChildrenIs
<1>2. K \subseteq ToSet(todo)
  OBVIOUS
<1> HIDE DEF K, w, st
<1>3. /\ j \in added /\ j \notin ToSet(todo) \cup ToSet(ready)
      /\ status[j] = "NOT_STARTED" /\ Unblocks(status, j)
  BY LaunchedIs
<1>4. /\ ToSet(todo) \cap ToSet(ready) = {} /\ ToSet(todo) \subseteq added /\ added \subseteq Job
      /\ \A c \in Job : c \notin added \/ c \in ToSet(todo) \cup ToSet(ready) => status[c] = "NOT_STARTED"
  BY DEF ListInv, InOnePlace, QueueTypes
<1>5. \A c \in Job : c \notin added \/ c \in ToSet(w) \cup ToSet(ready) => st[c] = "NOT_STARTED"
  BY <1>1, <1>2, <1>3, <1>4
<1>6. \A d \in Job : Successful(status[d]) => Successful(st[d])
  BY <1>1, <1>2, <1>3, <1>4 DEF Successful
<1>7. ASSUME NEW c \in added, c \notin ToSet(w), st[c] # "SKIPPED" PROVE Unblocks(st, c)
  <2>1. c \notin ToSet(todo) /\ c \in Job
    BY <1>1, <1>4, <1>7
  <2>2. Unblocks(status, c)
    BY <1>1, <1>2, <1>3, <1>7, <2>1 DEF ListInv, DependenciesDone
  <2> QED
    BY <1>6, <2>1, <2>2, DepsAreJobs DEF Unblocks
<1> QED
  BY <1>1, <1>5, <1>6, <1>7 DEF Passable, w, st

LEMMA PassedPassable ==
  ASSUME ListInv, NEW j \in Launched
  PROVE  Passable(todo, Outcome(j, "PASSED"))
<1> DEFINE st == Outcome(j, "PASSED")
<1>1. /\ j \in Job /\ j \in added /\ j \notin ToSet(todo) \cup ToSet(ready)
      /\ status[j] = "NOT_STARTED" /\ Unblocks(status, j)
      /\ st = [status EXCEPT ![j] = "PASSED"]
  BY LaunchedIs
<1>2. /\ st \in [Job -> {"NOT_STARTED", "PASSED", "FAILED", "SKIPPED"}]
      /\ st[j] = "PASSED" /\ \A c \in Job \ {j} : st[c] = status[c]
  BY <1>1 DEF ListInv, QueueTypes
<1> HIDE DEF st
<1>3. \A d \in Job : Successful(status[d]) => Successful(st[d])
  BY <1>2 DEF Successful
<1>4. \A c \in added \ ToSet(todo) : st[c] # "SKIPPED" => Unblocks(st, c)
  <2> SUFFICES ASSUME NEW c \in added, c \notin ToSet(todo), st[c] # "SKIPPED" PROVE Unblocks(st, c)
    OBVIOUS
  <2>1. c \in Job /\ Unblocks(status, c)
    BY <1>1, <1>2 DEF ListInv, DependenciesDone, QueueTypes
  <2> QED
    BY <1>3, <2>1, DepsAreJobs DEF Unblocks
<1>5. \A c \in Job : c \notin added \/ c \in ToSet(todo) \cup ToSet(ready) => st[c] = "NOT_STARTED"
  BY <1>1, <1>2 DEF ListInv, InOnePlace
<1> QED
  BY <1>2, <1>3, <1>4, <1>5 DEF Passable, st, ListInv, QueueTypes, InOnePlace

LEMMA CompleteJobLists ==
  ASSUME GraphInv, ListInv, NEW j \in Job, CompleteJob(j)
  PROVE  ListInv'
<1>1. j \in Launched /\ UNCHANGED <<graph, added>>
  BY DEF CompleteJob
<1>2. ASSUME NEW w, NEW st, Passable(w, st),
             todo' = MoveTodoToReady(w, st).todo, ready' = MoveTodoToReady(w, st).ready,
             status' = MoveTodoToReady(w, st).status
      PROVE  ListInv'
  <2> DEFINE p == MoveTodoToReady(w, st)
  <2>1. p \in Passes /\ Sorted(p.ready)
    BY <1>2, PassableWalk, WalkResult
  <2>2. ready' = p.ready
    BY <1>2
  <2> HIDE DEF p
  <2>3. ready' \in Seq(Job) /\ Sorted(ready') /\ ToSet(ready') \subseteq ToSet(p.ready)
    BY <2>1, <2>2 DEF Passes
  <2> QED
    BY <1>1, <1>2, <2>3, PassLists DEF p
<1>3. \/ /\ todo' = MoveTodoToReady(todo, Outcome(j, "PASSED")).todo
         /\ ready' = MoveTodoToReady(todo, Outcome(j, "PASSED")).ready
         /\ status' = MoveTodoToReady(todo, Outcome(j, "PASSED")).status
      \/ /\ todo' = MoveTodoToReady(SkipChildren(j).todo, SkipChildren(j).status).todo
         /\ ready' = MoveTodoToReady(SkipChildren(j).todo, SkipChildren(j).status).ready
         /\ status' = MoveTodoToReady(SkipChildren(j).todo, SkipChildren(j).status).status
  BY DEF CompleteJob
<1> QED
  BY <1>1, <1>2, <1>3, SkippedPassable, PassedPassable

LEMMA LaunchFailedLists ==
  ASSUME GraphInv, ListInv, NEW j \in Job, LaunchFailed(j)
  PROVE  ListInv'
<1> DEFINE w == SkipChildren(j).todo  st == SkipChildren(j).status
<1>1. /\ j \in Launched /\ todo' = w /\ status' = st /\ UNCHANGED <<graph, added, ready>>
  BY DEF LaunchFailed
<1>2. Passable(w, st)
  BY <1>1, SkippedPassable
<1> HIDE DEF w, st
<1>3. dependencies' = dependencies /\ priority' = priority /\ calls' = calls
  BY <1>1 DEF graph
<1>4. QueueTypes' /\ Sorted(todo)' /\ Sorted(ready)'
  BY <1>1, <1>2, <1>3 DEF Passable, ListInv, QueueTypes, Sorted
<1>5. InOnePlace'
  BY <1>1, <1>2 DEF Passable, ListInv, InOnePlace, Distinct
<1>6. DependenciesDone'
  <2>1. Deps' = Deps
    BY <1>3 DEF Deps
  <2> QED
    BY <1>1, <1>2, <2>1 DEF Passable, DependenciesDone, Unblocks
<1>7. CallsDone'
  BY <1>1, <1>2, <1>3 DEF Passable, ListInv, CallsDone
<1> QED
  BY <1>4, <1>5, <1>6, <1>7 DEF ListInv

LEMMA InitIInv == Init => IInv
BY GraphInvStart, InitCounts, InitLists DEF IInv

LEMMA StepKeepsIInv == IInv /\ [Next]_vars => IInv'
<1> SUFFICES ASSUME IInv, [Next]_vars PROVE IInv'
  OBVIOUS
<1> USE DEF IInv
<1>1. GraphInv'
  BY GraphInvStep
<1>2. CASE UNCHANGED graph /\ ListInv'
  <2>1. PendingCounts'
    BY <1>2 DEF PendingCounts, WeightsOn, graph
  <2> QED
    BY <1>1, <1>2, <2>1
<1>3. CASE \E j, d \in Job : AddDependency(j, d)
  BY <1>1, <1>3, AddDependencyCounts, AddDependencyLists
<1>4. CASE \E j \in Job : IncreasePriority(j)
  BY <1>1, <1>4, IncreasePriorityCounts, IncreasePriorityLists
<1>5. CASE \E j \in Job : AddJob(j)
  BY <1>2, <1>5, AddJobLists DEF AddJob
<1>6. CASE \E j \in Job : LaunchFailed(j)
  BY <1>2, <1>6, LaunchFailedLists DEF LaunchFailed
<1>7. CASE \E j \in Job : CompleteJob(j)
  BY <1>2, <1>7, CompleteJobLists DEF CompleteJob
<1>8. CASE RunJobs
  BY <1>2, <1>8, RunJobsLists DEF RunJobs
<1>9. CASE UNCHANGED vars
  <2>1. UNCHANGED graph /\ UNCHANGED queues
    BY <1>9 DEF vars
  <2>2. ListInv'
    BY <2>1 DEF ListInv, QueueTypes, InOnePlace, DependenciesDone, CallsDone, Unblocks, Deps,
           Sorted,
                Distinct, graph, queues
  <2> QED
    BY <1>2, <2>1, <2>2
<1> QED
  BY <1>3, <1>4, <1>5, <1>6, <1>7, <1>8, <1>9 DEF Next

-----------------------------------------------------------------------------
(* The theorems. *)

\* Whatever is added to the graph, and however the lists are walked, a priority
\* counts the jobs that wait for it and insort_right finds its list sorted.
THEOREM QueuesCorrect == Spec => []QueuesInv
<1>1. IInv => QueuesInv
  <2> SUFFICES ASSUME IInv PROVE QueuesInv
    OBVIOUS
  <2>1. TypeOK
    BY DEF TypeOK, IInv, GraphInv, GraphTypes, ListInv, QueueTypes, Status
  <2>2. ASSUME Settled, NEW d \in Job
        PROVE  priority[d] = BasePriority + SumFunctionOnSet(WeightsOn(d), Job)
    <3>1. priority[d] \in Int /\ value * calls[d] = 0
      BY <2>1, <2>2 DEF TypeOK, Settled
    <3>2. priority[d] + value * calls[d] = BasePriority + SumFunctionOnSet(WeightsOn(d), Job)
      BY DEF IInv, PendingCounts
    <3> QED
      BY <3>1, <3>2
  <2>3. QueuesSorted
    BY DEF QueuesSorted, IsSorted, IInv, ListInv, Sorted
  <2> QED
    BY <2>1, <2>2, <2>3 DEF QueuesInv, PriorityCountsJobs
<1> QED
  BY InitIInv, StepKeepsIInv, <1>1, PTL DEF Spec

\* The result of a pass, as JobPass says
SetPass(p, t, st) ==
  LET R == Sets!Unblocked(t, st)
      S == {j \in Job : p.status[j] # st[j]}
  IN /\ p \in Passes
     /\ Sets!SkippedByPass(S, t, st) /\ p.status = Sets!MarkSkipped(st, S)
     /\ ToSet(p.todo) = t \ (S \cup R) /\ ToSet(p.ready) = ToSet(ready) \cup R
     /\ \A j \in ToSet(p.todo) : Blocked(p.status, j)

\* A pass over a list is the pass of JobPass over its elements
LEMMA PassIsSets ==
  ASSUME GraphInv, ListInv, NEW waiting, NEW st, Passable(waiting, st)
  PROVE  SetPass(MoveTodoToReady(waiting, st), ToSet(waiting), st)
<1> DEFINE p == MoveTodoToReady(waiting, st)
           t == ToSet(waiting)
           R == {j \in t : ~Blocked(p.status, j) /\ Unblocks(p.status, j)}
           S == {j \in t : ~Blocked(p.status, j) /\ ~Unblocks(p.status, j)}
<1>1. Walkable(waiting, st)
  BY PassableWalk
<1>2. /\ p \in Passes
      /\ ToSet(p.todo) = {j \in t : Blocked(p.status, j)}
      /\ ToSet(p.ready) = ToSet(ready) \cup R
      /\ \A j \in Job : p.status[j] = IF j \in S THEN "SKIPPED" ELSE st[j]
      /\ p.status \in [Job -> Status]
  BY <1>1, WalkResult
<1> HIDE DEF p
<1>3. /\ t \subseteq Job /\ st \in [Job -> Status]
      /\ \A j \in t : st[j] = "NOT_STARTED" /\ \A d \in Deps[j] \cap t : priority[d] < priority[j]
  BY <1>1, ToSetOf DEF Walkable
<1>4. S = {j \in Job : p.status[j] # st[j]}
  BY <1>2, <1>3
<1>5. \A d \in Job : /\ Completed(p.status[d]) <=> Completed(st[d]) \/ d \in S
                     /\ Successful(p.status[d]) <=> Successful(st[d])
  BY <1>2, <1>3 DEF Completed, Successful
<1>6. \A j \in t : /\ Blocked(p.status, j) <=> \E d \in Deps[j] : ~(Completed(st[d]) \/ d \in S)
                   /\ Unblocks(p.status, j) <=> \A d \in Deps[j] : Successful(st[d])
                   /\ Unblocks(p.status, j) => ~Blocked(p.status, j)
  <2> SUFFICES ASSUME NEW j \in t
               PROVE  /\ Blocked(p.status, j) <=> \E d \in Deps[j] : ~(Completed(st[d]) \/ d \in S)
                      /\ Unblocks(p.status, j) <=> \A d \in Deps[j] : Successful(st[d])
                      /\ Unblocks(p.status, j) => ~Blocked(p.status, j)
    OBVIOUS
  <2>1. \A d \in Deps[j] : d \in Job
    BY <1>3, DepsAreJobs
  <2> HIDE DEF S
  <2>2. Blocked(p.status, j) <=> \E d \in Deps[j] : ~(Completed(st[d]) \/ d \in S)
    BY <1>5, <2>1 DEF Blocked
  <2>3. Unblocks(p.status, j) <=> \A d \in Deps[j] : Successful(st[d])
    BY <1>5, <2>1 DEF Unblocks
  <2>4. Unblocks(p.status, j) => ~Blocked(p.status, j)
    BY DEF Blocked, Unblocks, Completed, Successful
  <2> QED
    BY <2>2, <2>3, <2>4
<1>7. R = Sets!Unblocked(t, st)
  BY <1>6 DEF Sets!Unblocked, Sets!Successful, Successful
<1>8. Sets!SkippedByPass(S, t, st)
  <2>1. ASSUME NEW j \in t
        PROVE  j \in S <=> /\ \A d \in Deps[j] : \/ Completed(st[d])
                                                 \/ d \in S /\ priority[d] < priority[j]
                           /\ \E d \in Deps[j] : ~Successful(st[d])
    <3>1. j \in S <=> ~Blocked(p.status, j) /\ ~Unblocks(p.status, j)
      OBVIOUS
    <3>2. \A d \in Deps[j] : d \in S => priority[d] < priority[j]
      BY <1>3
    <3> HIDE DEF S
    <3> QED
      BY <1>6, <3>1, <3>2
  <2>2. S \subseteq t
    OBVIOUS
  <2> HIDE DEF S, t
  <2> QED
    BY <2>1, <2>2 DEF Sets!SkippedByPass, Sets!Completed, Completed, Sets!Successful, Successful
<1>9. p.status = Sets!MarkSkipped(st, S)
  <2>1. \A j \in S : ~Completed(st[j]) /\ Update(st[j], "SKIPPED") = "SKIPPED"
    BY <1>3 DEF Completed, Update, Legal
  <2>2. \A j \in Job : p.status[j] = IF j \in S /\ ~Completed(st[j]) THEN Update(st[j], "SKIPPED") ELSE st[j]
    BY <1>2, <2>1
  <2> HIDE DEF S
  <2> QED
    BY <1>2, <2>2 DEF Sets!MarkSkipped, Sets!Completed, Completed, Sets!Update, Update,
           Sets!Legal, Legal,
                      Sets!Illegal, Illegal
<1>10. ToSet(p.todo) = t \ (S \cup R)
  BY <1>2
<1>11. \A j \in ToSet(p.todo) : Blocked(p.status, j)
  BY <1>2
<1> HIDE DEF S, R, t
<1>12. SetPass(p, t, st)
  BY <1>2, <1>4, <1>7, <1>8, <1>9, <1>10, <1>11 DEF SetPass
<1> QED
  BY <1>12 DEF p, t

\* If the new lists are those of a pass, without T, they are what JobPass says
LEMMA NewListsAreSets ==
  ASSUME GraphInv, ListInv, NEW waiting, NEW st, Passable(waiting, st), NEW T,
         todo' = MoveTodoToReady(waiting, st).todo,
         status' = MoveTodoToReady(waiting, st).status,
         ToSet(ready') = ToSet(MoveTodoToReady(waiting, st).ready) \ T
  PROVE  IsSetPass(ToSet(waiting), st, T)
<1> DEFINE p == MoveTodoToReady(waiting, st)
           S == {j \in Job : p.status[j] # st[j]}
           t == ToSet(waiting)
           R == Sets!Unblocked(t, st)
<1>1. SetPass(p, t, st)
  BY PassIsSets
<1>2. status' = p.status /\ ToSet(todo') = ToSet(p.todo) /\ ToSet(ready') = ToSet(p.ready) \ T
  OBVIOUS
<1> HIDE DEF p, t
<1>3. /\ Sets!SkippedByPass(S, t, st) /\ p.status = Sets!MarkSkipped(st, S)
      /\ ToSet(p.todo) = t \ (S \cup R) /\ ToSet(p.ready) = ToSet(ready) \cup R
  BY <1>1, Zenon DEF SetPass
<1>4. S = {j \in Job : status'[j] # st[j]}
  BY <1>2
<1> HIDE DEF S, R
<1>5. /\ Sets!SkippedByPass(S, t, st) /\ status' = Sets!MarkSkipped(st, S)
      /\ ToSet(todo') = t \ (S \cup R) /\ ToSet(ready') = (ToSet(ready) \cup R) \ T
  BY <1>3, <1>2
<1>6. IsSetPass(t, st, T)
  BY <1>4, <1>5 DEF IsSetPass, R
<1> QED
  BY <1>6 DEF t

\* Every walk of the scheduler does to the lists what JobManager says of sets, in
\* one pass, however long the chains of skipped jobs are: dependencies come first.
THEOREM WalkIsSetPass == Spec => PassIsSetPass
<1>1. ASSUME IInv, RunJobs
      PROVE  /\ \E T \in SUBSET Job : Cardinality(T) <= 1 /\ IsSetPass(ToSet(todo), status, T)
             /\ \A j \in ToSet(todo') : \E d \in Deps[j] : ~Completed(status'[d])
  <2> DEFINE p == MoveTodoToReady(todo, status)
  <2>1. /\ todo' = p.todo /\ status' = p.status
        /\ ready' = p.ready \/ \E i \in DOMAIN p.ready : ready' = RemoveAt(p.ready, i)
    BY <1>1 DEF RunJobs
  <2>2. GraphInv /\ ListInv /\ Passable(todo, status)
    BY <1>1, RunJobsPassable DEF IInv
  <2>3. p.ready \in Seq(Job) /\ \A j \in ToSet(p.todo) : Blocked(p.status, j)
    BY <2>2, PassIsSets DEF SetPass, Passes
  <2>4. \E T \in SUBSET Job : Cardinality(T) <= 1 /\ ToSet(ready') = ToSet(p.ready) \ T
    <3> HIDE DEF p
    <3>1. CASE ready' = p.ready
      <4>1. {} \in SUBSET Job /\ Cardinality({}) <= 1
        BY FS_EmptySet
      <4>2. ToSet(ready') = ToSet(p.ready) \ {}
        BY <3>1
      <4> QED
        BY <4>1, <4>2
    <3>2. ASSUME NEW i \in DOMAIN p.ready, ready' = RemoveAt(p.ready, i)
          PROVE  \E T \in SUBSET Job : Cardinality(T) <= 1 /\ ToSet(ready') = ToSet(p.ready) \ T
      <4> DEFINE T == ToSet(p.ready) \ ToSet(ready')
      <4>1. i \in 1..Len(p.ready)
        BY <2>3, <3>2
      <4>2. ToSet(ready') \subseteq ToSet(p.ready) /\ T \subseteq {p.ready[i]}
        BY <2>3, <3>2, <4>1, RemoveAtElements
      <4>3. T = {} \/ T = {p.ready[i]}
        BY <4>2
      <4>4. Cardinality(T) <= 1
        <5>1. Cardinality({}) = 0 /\ Cardinality({p.ready[i]}) = 1
          BY FS_EmptySet, FS_Singleton, Zenon
        <5> HIDE DEF T
        <5> QED
          BY <4>3, <5>1
      <4>5. ToSet(ready') = ToSet(p.ready) \ T /\ T \in SUBSET Job
        BY <2>3, <4>2, ToSetOf
      <4> QED
        BY <4>4, <4>5
    <3> QED
      BY <2>1, <3>1, <3>2
  <2>5. \E T \in SUBSET Job : Cardinality(T) <= 1 /\ IsSetPass(ToSet(todo), status, T)
    <3>1. PICK T \in SUBSET Job : Cardinality(T) <= 1 /\ ToSet(ready') = ToSet(p.ready) \ T
      BY <2>4
    <3>2. IsSetPass(ToSet(todo), status, T)
      BY <2>1, <2>2, <3>1, NewListsAreSets
    <3> QED
      BY <3>1, <3>2
  <2>6. \A j \in ToSet(todo') : \E d \in Deps[j] : ~Completed(status'[d])
    BY <2>1, <2>3 DEF Blocked
  <2> QED
    BY <2>5, <2>6
<1>2. IInv /\ [Next]_vars
      => [RunJobs =>
            /\ \E T \in SUBSET Job : Cardinality(T) <= 1 /\ IsSetPass(ToSet(todo), status, T)
            /\ \A j \in ToSet(todo') : \E d \in Deps[j] : ~Completed(status'[d])]_vars
  BY <1>1
<1> QED
  BY InitIInv, StepKeepsIInv, <1>2, PTL DEF Spec, PassIsSetPass

-----------------------------------------------------------------------------
(* The recursion of _move_children_to_skipped_locked. *)

\* In B are the children of p in T, and the children of whatever is in B
Closed(B, T, p) == \A c \in T : Deps[c] \cap ({p} \cup B) # {} => c \in B

\* The jobs of T below p, at any depth: the least such set
Below(T, p) == {c \in T : \A B \in SUBSET T : Closed(B, T, p) => c \in B}

LEMMA BelowIsClosed == \A T, p : Below(T, p) \in SUBSET T /\ Closed(Below(T, p), T, p)
<1> SUFFICES ASSUME NEW T, NEW p, NEW c \in T, Deps[c] \cap ({p} \cup Below(T, p)) # {},
                    NEW B \in SUBSET T, Closed(B, T, p)
             PROVE  c \in B
  BY DEF Below, Closed
<1>1. Below(T, p) \subseteq B
  BY DEF Below
<1> QED
  BY <1>1 DEF Closed

LEMMA BelowIsLeast ==
  ASSUME NEW T, NEW p, NEW B \in SUBSET T, Closed(B, T, p)
  PROVE  Below(T, p) \subseteq B
BY DEF Below

\* It is the set that JobManager takes from the jobs that wait
LEMMA BelowIsSkipped == \A T, p : Sets!SkippedBelow(Below(T, p), T, p)
<1> SUFFICES ASSUME NEW T, NEW p PROVE Sets!SkippedBelow(Below(T, p), T, p)
  OBVIOUS
<1> DEFINE K == Below(T, p)  L == {c \in T : Deps[c] \cap ({p} \cup K) # {}}
<1>1. L \subseteq K
  BY BelowIsClosed DEF Closed
<1>2. Closed(L, T, p)
  BY <1>1 DEF Closed
<1>3. K \subseteq L
  BY <1>2, BelowIsLeast
<1> QED
  BY <1>1, <1>3 DEF Sets!SkippedBelow

Children(p) == {c \in Job : p \in Deps[c]}

\* What is left of T after the children s of p: they are gone, with everything
\* below them and nothing that is not below p
Pruned(r, s, T, p) ==
  /\ r \subseteq T /\ s \cap r = {} /\ T \ r \subseteq Below(T, p)
  /\ \A c \in T : Deps[c] \cap (T \ r) # {} => c \in T \ r

\* One child, if it is still there
LEMMA PruneChild ==
  ASSUME NEW T, NEW p, NEW r, NEW s, Pruned(r, s, T, p), NEW c \in r, p \in Deps[c]
  PROVE  Pruned((r \ {c}) \ Below(r \ {c}, c), s \cup {c}, T, p)
<1> DEFINE U == r \ {c}  E == Below(U, c)  D == T \ r
<1>1. /\ r \subseteq T /\ s \cap r = {} /\ D \subseteq Below(T, p)
      /\ \A x \in T : Deps[x] \cap D # {} => x \in D
  BY DEF Pruned
<1>2. E \subseteq U /\ Closed(E, U, c)
  BY BelowIsClosed
<1>3. T \ (U \ E) = D \cup {c} \cup E
  <2> HIDE DEF E
  <2> QED
    BY <1>1, <1>2
<1>4. ASSUME NEW B \in SUBSET T, Closed(B, T, p) PROVE {c} \cup E \subseteq B
  <2>1. c \in B
    BY <1>1, <1>4 DEF Closed
  <2>2. Closed(B \cap U, U, c)
    BY <1>1, <1>4, <2>1 DEF Closed
  <2>3. E \subseteq B \cap U
    BY <2>2, BelowIsLeast
  <2> QED
    BY <2>1, <2>3
<1>5. {c} \cup E \subseteq Below(T, p)
  BY <1>1, <1>2, <1>4 DEF Below
<1>6. ASSUME NEW x \in T, Deps[x] \cap (D \cup {c} \cup E) # {} PROVE x \in D \cup {c} \cup E
  BY <1>1, <1>2, <1>6 DEF Closed
<1> HIDE DEF U, E, D
<1>7. Pruned(U \ E, s \cup {c}, T, p)
  <2>1. U \ E \subseteq T /\ (s \cup {c}) \cap (U \ E) = {}
    BY <1>1 DEF U
  <2> QED
    BY <1>1, <1>3, <1>5, <1>6, <2>1 DEF Pruned
<1> QED
  BY <1>7 DEF U, E

\* After all of them, everything below p is gone
LEMMA PrunedAll ==
  ASSUME NEW T \in SUBSET Job, NEW p, NEW r, Pruned(r, Children(p), T, p)
  PROVE  r = T \ Below(T, p)
<1>1. Closed(T \ r, T, p)
  BY DEF Closed, Pruned, Children
<1>2. Below(T, p) \subseteq T \ r
  BY <1>1, BelowIsLeast
<1> QED
  BY <1>2 DEF Pruned

\* The loop of one call over the children of p, with left for the calls below
Loop(left, T, p) == FoldSet(LAMBDA c, r : IF c \in r THEN left[r \ {c}][c] ELSE r, T, {c \in Job : p \in Deps[c]})

\* If the calls below leave what they should, this one does
LEMMA LoopIs ==
  ASSUME IsFiniteSet(Job), NEW T \in SUBSET Job, NEW p \in Job, NEW left,
         \A U \in SUBSET T : U # T => \A c \in Job : left[U][c] = U \ Below(U, c)
  PROVE  Loop(left, T, p) = T \ Below(T, p)
<1> DEFINE C == Children(p)
           Child(c, r) == IF c \in r THEN left[r \ {c}][c] ELSE r
           step == [c \in C |-> [r \in SUBSET T |-> Child(c, r)]]
           pick == [s \in SUBSET C |-> CHOOSE c \in s : TRUE]
           Eq(it) == it = [s \in SUBSET C |->
                             IF s = {} THEN T
                             ELSE LET c == CHOOSE c \in s : TRUE IN Child(c, it[s \ {c}])]
           it == CHOOSE it : Eq(it)
<1>1. C \subseteq Job /\ IsFiniteSet(C)
  <2>1. C \subseteq Job
    BY DEF Children
  <2> QED
    BY <2>1, FS_Subset
<1>2. ASSUME NEW c \in C, NEW r \in SUBSET T
      PROVE  Child(c, r) = IF c \in r THEN (r \ {c}) \ Below(r \ {c}, c) ELSE r
  <2>1. c \in r => r \ {c} \in SUBSET T /\ r \ {c} # T
    OBVIOUS
  <2> QED
    BY <1>1, <2>1
<1> HIDE DEF C, Child
<1>3. step \in [C -> [SUBSET T -> SUBSET T]]
  <2>1. ASSUME NEW c \in C, NEW r \in SUBSET T PROVE Child(c, r) \in SUBSET T
    <3>1. (r \ {c}) \ Below(r \ {c}, c) \in SUBSET T
      OBVIOUS
    <3> QED
      BY <1>2, <3>1
  <2> QED
    BY <2>1
<1>4. PICK h \in [SUBSET C -> SUBSET T] : IsFold(h, C, T, pick, step)
  <2>1. \A s \in SUBSET C : s # {} => pick[s] \in s
    OBVIOUS
  <2> HIDE DEF step, pick
  <2>2. Foldable(C, SUBSET T, T, pick, step)
    BY <1>1, <1>3, <2>1 DEF Foldable
  <2> QED
    BY <2>2, FoldExists
<1>5. Eq(h)
  <2>1. ASSUME NEW s \in SUBSET C, s # {}
        PROVE  h[s] = Child(CHOOSE c \in s : TRUE, h[s \ {CHOOSE c \in s : TRUE}])
    <3> DEFINE c == CHOOSE c \in s : TRUE
    <3>1. c \in C /\ s \ {c} \in SUBSET C /\ pick[s] = c
      BY <2>1
    <3> HIDE DEF c
    <3>2. h[s] = step[c][h[s \ {c}]] /\ h[s \ {c}] \in SUBSET T
      BY <1>4, <2>1, <3>1 DEF IsFold
    <3>3. h[s] = Child(c, h[s \ {c}])
      BY <3>1, <3>2
    <3> QED
      BY <3>3 DEF c
  <2>2. h[{}] = T
    BY <1>4 DEF IsFold
  <2> HIDE DEF step, pick
  <2> QED
    BY <1>4, <2>1, <2>2
<1>6. Eq(it)
  <2> HIDE DEF Eq
  <2> QED
    BY <1>5
<1>7. Loop(left, T, p) = it[C]
  BY Zenon DEF Loop, FoldSet, MapThenFoldSet, Child, C, Children
<1> HIDE DEF it
<1>8. it[{}] = T
  BY <1>6
<1>9. ASSUME NEW s \in SUBSET C, s # {}
      PROVE  \E c \in s : s \ {c} \in SUBSET C /\ it[s] = Child(c, it[s \ {c}])
  <2> DEFINE c == CHOOSE c \in s : TRUE
  <2>1. c \in s /\ s \ {c} \in SUBSET C
    BY <1>9
  <2>2. it[s] = Child(c, it[s \ {c}])
    BY <1>6, <1>9
  <2> QED
    BY <2>1, <2>2
<1> DEFINE Bad == {s \in SUBSET C : ~Pruned(it[s], s, T, p)}
<1>10. Bad = {}
  <2> SUFFICES ASSUME Bad # {} PROVE FALSE
    OBVIOUS
  <2>1. PICK s \in Bad : \A u \in Bad : u \subseteq s => u = s
    <3>1. Bad \subseteq SUBSET C
      OBVIOUS
    <3> HIDE DEF Bad
    <3> QED
      BY <1>1, <3>1, MinimalSubset
  <2>2. s # {}
    BY <1>8 DEF Pruned
  <2>3. PICK c \in s : s \ {c} \in SUBSET C /\ it[s] = Child(c, it[s \ {c}])
    BY <1>9, <2>2
  <2> DEFINE u == s \ {c}  r == it[u]
  <2>4. Pruned(r, u, T, p)
    BY <2>1, <2>3
  <2>5. r \in SUBSET T /\ c \in C /\ u \cup {c} = s
    <3>1. r \in SUBSET T
      BY <2>4 DEF Pruned
    <3>2. c \in C /\ u \cup {c} = s
      BY <2>3
    <3> QED
      BY <3>1, <3>2
  <2> HIDE DEF u, r
  <2>6. it[s] = IF c \in r THEN (r \ {c}) \ Below(r \ {c}, c) ELSE r
    BY <1>2, <2>3, <2>5 DEF u, r
  <2>7. Pruned(it[s], s, T, p)
    <3>1. CASE c \in r
      <4>1. p \in Deps[c]
        BY <2>5 DEF C, Children
      <4>2. Pruned((r \ {c}) \ Below(r \ {c}, c), u \cup {c}, T, p)
        BY <2>4, <3>1, <4>1, PruneChild
      <4> QED
        BY <2>5, <2>6, <3>1, <4>2
    <3>2. CASE c \notin r
      BY <2>4, <2>5, <2>6, <3>2 DEF Pruned
    <3> QED
      BY <3>1, <3>2
  <2> QED
    BY <2>1, <2>7
<1>11. Pruned(it[C], C, T, p)
  BY <1>10
<1> QED
  BY <1>7, <1>11, PrunedAll DEF C

\* Every call leaves all but the jobs below its own
LEMMA LeftIs ==
  ASSUME NEW W \in SUBSET Job, NEW j \in Job
  PROVE  Left(W, j) = W \ Below(W, j)
<1> DEFINE Eq(f) == f = [T \in SUBSET W |-> [p \in Job |-> Loop(f, T, p)]]
           f == CHOOSE f : Eq(f)
           g == [T \in SUBSET W |-> [p \in Job |-> T \ Below(T, p)]]
<1>1. IsFiniteSet(Job)
  BY PriorityAssumption
<1>2. Eq(g)
  <2>1. ASSUME NEW T \in SUBSET W, NEW p \in Job PROVE Loop(g, T, p) = T \ Below(T, p)
    <3>1. T \in SUBSET Job
      OBVIOUS
    <3>2. \A U \in SUBSET T : U # T => \A c \in Job : g[U][c] = U \ Below(U, c)
      OBVIOUS
    <3> HIDE DEF g
    <3> QED
      BY <1>1, <3>1, <3>2, LoopIs
  <2> QED
    BY <2>1
<1>3. Eq(f)
  <2> HIDE DEF Eq, g
  <2> QED
    BY <1>2
<1>4. Left(W, j) = f[W][j]
  BY Zenon DEF Left, Loop
<1> HIDE DEF f
<1>5. \A T \in SUBSET W : \A p \in Job : f[T][p] = Loop(f, T, p)
  BY <1>3
<1> DEFINE Bad == {T \in SUBSET W : \E p \in Job : f[T][p] # T \ Below(T, p)}
<1>6. Bad = {}
  <2> SUFFICES ASSUME Bad # {} PROVE FALSE
    OBVIOUS
  <2>1. PICK T \in Bad : \A U \in Bad : U \subseteq T => U = T
    <3>1. Bad \subseteq SUBSET W /\ IsFiniteSet(W)
      BY <1>1, FS_Subset
    <3> HIDE DEF Bad
    <3> QED
      BY <3>1, MinimalSubset
  <2>2. \A U \in SUBSET T : U # T => \A c \in Job : f[U][c] = U \ Below(U, c)
    BY <2>1
  <2>3. T \in SUBSET Job /\ T \in SUBSET W
    BY <2>1
  <2>4. \A p \in Job : Loop(f, T, p) = T \ Below(T, p)
    BY <1>1, <2>2, <2>3, LoopIs
  <2> QED
    BY <1>5, <2>1, <2>4
<1> QED
  BY <1>4, <1>6

\* What a failure of j leaves is what JobPass says of the set below j
LEMMA SkipChildrenIsSets ==
  ASSUME ListInv, NEW j \in Launched
  PROVE  LET t == ToSet(todo)  K == Below(t, j)  kept == SkipChildren(j)
         IN /\ Sets!SkippedBelow(K, t, j)
            /\ ToSet(kept.todo) = t \ K
            /\ kept.status = Sets!MarkSkipped(Outcome(j, "FAILED"), K)
            /\ kept.status[j] = "FAILED"
<1> DEFINE t == ToSet(todo)  K == Below(t, j)  kept == SkipChildren(j)  st == Outcome(j, "FAILED")
<1>1. /\ j \in Job /\ j \notin t /\ status[j] = "NOT_STARTED" /\ st = [status EXCEPT ![j] = "FAILED"]
      /\ t \in SUBSET Job /\ status \in [Job -> Status]
      /\ \A c \in t : status[c] = "NOT_STARTED"
  BY LaunchedIs, ToSetOf DEF ListInv, QueueTypes, InOnePlace, Status
<1>2. K \subseteq t
  BY BelowIsClosed
<1>3. t \ Left(t, j) = K
  <2>1. Left(t, j) = t \ K
    BY <1>1, LeftIs
  <2> HIDE DEF K
  <2> QED
    BY <1>2, <2>1
<1>4. /\ ToSet(kept.todo) = t \ (t \ Left(t, j))
      /\ kept.status \in [Job -> {"NOT_STARTED", "PASSED", "FAILED", "SKIPPED"}]
      /\ \A c \in Job : kept.status[c] = IF c \in t \ Left(t, j) THEN "SKIPPED"
                                         ELSE IF c = j THEN "FAILED" ELSE status[c]
  BY SkipChildrenIs
<1> HIDE DEF t, K, kept, st
<1>5. \A c \in Job : st[c] = IF c = j THEN "FAILED" ELSE status[c]
  BY <1>1
<1>6. \A c \in K : ~Completed(st[c]) /\ Update(st[c], "SKIPPED") = "SKIPPED"
  <2> SUFFICES ASSUME NEW c \in K PROVE st[c] = "NOT_STARTED"
    BY DEF Completed, Update, Legal
  <2> QED
    BY <1>1, <1>2, <1>5
<1>7. kept.status = Sets!MarkSkipped(st, K)
  <2>1. \A c \in Job : kept.status[c] = IF c \in K /\ ~Completed(st[c]) THEN Update(st[c], "SKIPPED") ELSE st[c]
    BY <1>3, <1>4, <1>5, <1>6
  <2> QED
    BY <1>4, <2>1 DEF Sets!MarkSkipped, Sets!Completed, Completed, Sets!Update, Update,
           Sets!Legal, Legal,
                      Sets!Illegal, Illegal
<1>8. kept.status[j] = "FAILED"
  BY <1>1, <1>2, <1>3, <1>4
<1>9. Sets!SkippedBelow(K, t, j)
  BY BelowIsSkipped DEF K
<1> QED
  BY <1>3, <1>4, <1>7, <1>8, <1>9 DEF t, K, kept, st

\* What is recorded when a job completes is what JobManager says of sets: the
\* recursion over the children skips exactly the jobs below a failed one, in
\* whatever order it meets them, and the pass that follows misses nobody.
THEOREM CompletionIsSets == Spec => CompletionIsSetStep
<1> DEFINE Passed(j) == IsSetPass(ToSet(todo), Outcome(j, "PASSED"), {})
           Failed(j) == \E K \in SUBSET ToSet(todo) :
                          /\ Sets!SkippedBelow(K, ToSet(todo), j)
                          /\ IsSetPass(ToSet(todo) \ K, Sets!MarkSkipped(Outcome(j, "FAILED"), K), {})
<1>1. ASSUME IInv, NEW j \in Job, CompleteJob(j)
      PROVE  IF status'[j] = "PASSED" THEN Passed(j) ELSE Failed(j)
  <2>1. /\ j \in Launched
        /\ \/ /\ todo' = MoveTodoToReady(todo, Outcome(j, "PASSED")).todo
              /\ ready' = MoveTodoToReady(todo, Outcome(j, "PASSED")).ready
              /\ status' = MoveTodoToReady(todo, Outcome(j, "PASSED")).status
           \/ /\ todo' = MoveTodoToReady(SkipChildren(j).todo, SkipChildren(j).status).todo
              /\ ready' = MoveTodoToReady(SkipChildren(j).todo, SkipChildren(j).status).ready
              /\ status' = MoveTodoToReady(SkipChildren(j).todo, SkipChildren(j).status).status
    BY <1>1 DEF CompleteJob
  <2>2. GraphInv /\ ListInv
    BY <1>1 DEF IInv
  \* The outcome of j stays what it is
  <2>3. ASSUME NEW w, NEW st, Passable(w, st), Completed(st[j]), status' = MoveTodoToReady(w, st).status
        PROVE  status'[j] = st[j]
    <3> DEFINE p == MoveTodoToReady(w, st)
    <3>1. SetPass(p, ToSet(w), st) /\ status' = p.status
      BY <2>2, <2>3, PassIsSets
    <3> HIDE DEF p
    <3>2. PICK S : p.status = Sets!MarkSkipped(st, S)
      BY <3>1 DEF SetPass
    <3> QED
      BY <2>3, <3>1, <3>2 DEF Sets!MarkSkipped, Sets!Completed, Completed
  <2>4. CASE /\ todo' = MoveTodoToReady(todo, Outcome(j, "PASSED")).todo
             /\ ready' = MoveTodoToReady(todo, Outcome(j, "PASSED")).ready
             /\ status' = MoveTodoToReady(todo, Outcome(j, "PASSED")).status
    <3> DEFINE st == Outcome(j, "PASSED")
    <3>1. Passable(todo, st)
      BY <2>1, <2>2, PassedPassable
    <3>2. st[j] = "PASSED"
      BY <2>1, <2>2, LaunchedIs DEF ListInv, QueueTypes
    <3>3. ToSet(ready') = ToSet(MoveTodoToReady(todo, st).ready) \ {}
      BY <2>4
    <3>4. todo' = MoveTodoToReady(todo, st).todo /\ status' = MoveTodoToReady(todo, st).status
      BY <2>4
    <3> HIDE DEF st
    <3>5. status'[j] = "PASSED"
      BY <2>3, <3>1, <3>2, <3>4 DEF Completed
    <3>6. IsSetPass(ToSet(todo), st, {})
      BY <2>2, <3>1, <3>3, <3>4, NewListsAreSets
    <3> QED
      BY <3>5, <3>6 DEF st
  <2>5. CASE /\ todo' = MoveTodoToReady(SkipChildren(j).todo, SkipChildren(j).status).todo
             /\ ready' = MoveTodoToReady(SkipChildren(j).todo, SkipChildren(j).status).ready
             /\ status' = MoveTodoToReady(SkipChildren(j).todo, SkipChildren(j).status).status
    <3> DEFINE w == SkipChildren(j).todo  st == SkipChildren(j).status
               K == Below(ToSet(todo), j)
    <3>1. Passable(w, st)
      BY <2>1, <2>2, SkippedPassable
    <3>2. /\ Sets!SkippedBelow(K, ToSet(todo), j) /\ ToSet(w) = ToSet(todo) \ K
          /\ st = Sets!MarkSkipped(Outcome(j, "FAILED"), K) /\ st[j] = "FAILED"
      BY <2>1, <2>2, SkipChildrenIsSets
    <3>3. K \in SUBSET ToSet(todo)
      BY BelowIsClosed
    <3>4. ToSet(ready') = ToSet(MoveTodoToReady(w, st).ready) \ {}
      BY <2>5
    <3>5. todo' = MoveTodoToReady(w, st).todo /\ status' = MoveTodoToReady(w, st).status
      BY <2>5
    <3> HIDE DEF w, st, K
    <3>6. status'[j] = "FAILED"
      BY <2>3, <3>1, <3>2, <3>5 DEF Completed
    <3>7. IsSetPass(ToSet(w), st, {})
      BY <2>2, <3>1, <3>4, <3>5, NewListsAreSets
    <3>8. IsSetPass(ToSet(todo) \ K, Sets!MarkSkipped(Outcome(j, "FAILED"), K), {})
      BY <3>2, <3>7
    <3>9. Failed(j)
      BY <3>2, <3>3, <3>8
    <3> QED
      BY <3>6, <3>9
  <2> QED
    BY <2>1, <2>4, <2>5
<1>2. IInv /\ [Next]_vars
      => [\A j \in Job : CompleteJob(j) => IF status'[j] = "PASSED" THEN Passed(j) ELSE Failed(j)]_vars
  BY <1>1
<1> QED
  BY InitIInv, StepKeepsIInv, <1>2, PTL DEF Spec, CompletionIsSetStep

=============================================================================
