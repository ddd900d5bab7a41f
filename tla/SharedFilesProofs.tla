--------------------------- MODULE SharedFilesProofs ---------------------------
(***************************************************************************)
(* Proofs about the two files that processes of simmer share.              *)
(*                                                                         *)
(* ResultsStore, for any number of savers, readers, past runs, faults and  *)
(* seconds: no saved run disappears from the history when there is at most *)
(* one older simmer, and each is in it once in any case.                   *)
(*                                                                         *)
(* DiscoveryCache, for any number of processes, scopes, files, retries and *)
(* edits, when no edit brings an earlier version of a file back:           *)
(* generations are collected from one state of the inputs, processes go on *)
(* with what is current, and the legacy generation is not lost.            *)
(***************************************************************************)
EXTENDS DiscoveryCache, ResultsStore, SetLemmas

-----------------------------------------------------------------------------
(* The lists of runs in the history files *)

\* Where a run stands among the saves s
Place(s, r) == CHOOSE i \in DOMAIN s : s[i] = r

\* Newer, for the saves s and the times f
NewerIn(s, f, r) == {q \in Range(s) \ {r} : Place(s, q) > Place(s, r) \/ f[q] >= f[r]}

\* Excused, for these and the runs l that are lost
Gone(s, f, l, r) == r \in l \/ Cardinality(NewerIn(s, f, r)) >= MaxRuns

\* A list that can be in a file: runs that were saved, each once, the newer ones later
Listed(runs, s, f) ==
  /\ runs \in Seq(Run) /\ IsInjective(runs) /\ Range(runs) \subseteq Range(s)
  /\ \A i, j \in DOMAIN runs : i < j => runs[j] \in NewerIn(s, f, runs[i])

\* When runs finish
Times == [Run -> 0..MaxClock]

\* The range of a list is finite, and of its length when no element is there twice
LEMMA ListRange ==
  ASSUME NEW S, NEW s \in Seq(S)
  PROVE  /\ Range(s) \subseteq S /\ IsFiniteSet(Range(s))
         /\ Range(s) = {s[i] : i \in 1..Len(s)}
         /\ IsInjective(s) => Cardinality(Range(s)) = Len(s)
<1>1. /\ Len(s) \in Nat /\ DOMAIN s = 1..Len(s) /\ (\A i \in 1..Len(s) : s[i] \in S)
      /\ s = [i \in 1..Len(s) |-> s[i]]
  OBVIOUS
<1>2. IsFiniteSet(1..Len(s)) /\ Cardinality(1..Len(s)) = Len(s)
  <2>1. Len(s) \in Int /\ 1 \in Int /\ (1 > Len(s) => Len(s) = 0)
    BY <1>1
  <2> QED
    BY <2>1, FS_Interval
<1>3. Range(s) = {s[i] : i \in 1..Len(s)}
  BY <1>1 DEF Range
<1>4. s \in [1..Len(s) -> Range(s)] /\ Range(s) \subseteq S
  BY <1>1, <1>3
<1>5. s \in Surjection(1..Len(s), Range(s))
  BY <1>3, <1>4 DEF Surjection
<1>6. IsFiniteSet(Range(s))
  BY <1>2, <1>5, FS_Surjection
<1>7. IsInjective(s) => s \in Injection(1..Len(s), Range(s))
  BY <1>1, <1>4 DEF Injection, IsInjective
<1> QED
  BY <1>2, <1>3, <1>4, <1>5, <1>6, <1>7, FS_Surjection

\* What is kept of a list is its end
LEMMA KeepsTheEnd ==
  ASSUME NEW runs \in Seq(Run)
  PROVE  /\ Keep(runs) \in Seq(Run) /\ Len(Keep(runs)) <= MaxRuns
         /\ \E d \in Nat : /\ Len(runs) = Len(Keep(runs)) + d
                           /\ \A i \in 1..Len(Keep(runs)) : Keep(runs)[i] = runs[i + d]
                           /\ d > 0 => Len(Keep(runs)) = MaxRuns
<1>1. CASE Len(runs) <= MaxRuns
  <2>1. Keep(runs) = runs
    BY <1>1, ResultsStoreAssumption DEF Keep
  <2> DEFINE d == 0
  <2>2. /\ d \in Nat /\ ~(d > 0) /\ Len(runs) = Len(runs) + d
        /\ \A i \in 1..Len(runs) : i + d = i
    OBVIOUS
  <2> HIDE DEF d
  <2>3. \A i \in 1..Len(runs) : runs[i] = runs[i + d]
    BY <2>2
  <2> QED
    BY <1>1, <2>1, <2>2, <2>3
<1>2. CASE Len(runs) > MaxRuns
  <2> DEFINE d == Len(runs) - MaxRuns  k == Keep(runs)
  <2>1. d \in Nat /\ d > 0 /\ Len(runs) = MaxRuns + d /\ d + 1 >= 1
    BY <1>2, ResultsStoreAssumption
  <2>2. k = SubSeq(runs, d + 1, Len(runs))
    BY <1>2 DEF Keep, Newest
  <2>3. k \in Seq(Run) /\ Len(k) = MaxRuns /\ \A i \in 1..MaxRuns : k[i] = runs[i + d]
    <3>1. MaxRuns \in Nat /\ Len(runs) \in Nat /\ d \in Nat /\ Len(runs) = MaxRuns + d
      BY <2>1, ResultsStoreAssumption
    <3> HIDE DEF d, k
    <3> DEFINE m == d + 1  l == Len(runs)
    <3>2. m \in Int /\ l \in Int /\ 1 <= m /\ l - m + 1 = MaxRuns /\ l = Len(runs)
      BY <3>1
    <3>3. k = SubSeq(runs, m, l)
      BY <2>2
    <3>4. \A i \in m..l : i \in 1..Len(runs) /\ runs[i] \in Run
      BY <3>2
    <3>5. \A i \in 1..MaxRuns : i + m - 1 = i + d /\ i + m - 1 \in m..l
      BY <3>1
    <3> HIDE DEF m, l
    <3>6. k = [i \in 1..(l - m + 1) |-> runs[i + m - 1]]
      BY <3>1, <3>2, <3>3, <3>4
    <3>7. k = [i \in 1..MaxRuns |-> runs[i + d]]
      BY <3>2, <3>5, <3>6
    <3> QED
      BY <3>1, <3>4, <3>5, <3>7
  <2> HIDE DEF d, k
  <2> QED
    BY <2>1, <2>3 DEF k
<1>3. Len(runs) \in Nat /\ MaxRuns \in Nat
  BY ResultsStoreAssumption
<1>4. Len(runs) <= MaxRuns \/ Len(runs) > MaxRuns
  BY <1>3
<1> QED
  BY <1>1, <1>2, <1>4

\* Of a list that can be in a file what is kept can be in one too, and a run that is not kept
\* has made room for as many newer ones as a file keeps
LEMMA KeptOrGone ==
  ASSUME NEW s \in Seq(Run), NEW f, NEW runs, Listed(runs, s, f)
  PROVE  /\ Listed(Keep(runs), s, f) /\ Len(Keep(runs)) <= MaxRuns
         /\ Range(Keep(runs)) \subseteq Range(runs)
         /\ \A r \in Range(runs) : r \in Range(Keep(runs)) \/ \A l : Gone(s, f, l, r)
         /\ runs # <<>> => Keep(runs) # <<>> /\ Last(Keep(runs)) = Last(runs)
<1> DEFINE k == Keep(runs)  n == Len(k)
<1>1. /\ runs \in Seq(Run) /\ IsInjective(runs) /\ Range(runs) \subseteq Range(s)
      /\ \A i, j \in 1..Len(runs) : i < j => runs[j] \in NewerIn(s, f, runs[i])
      /\ DOMAIN runs = 1..Len(runs) /\ Len(runs) \in Nat
  BY DEF Listed
<1>2. PICK d \in Nat : /\ Len(runs) = n + d
                       /\ \A i \in 1..n : k[i] = runs[i + d]
                       /\ d > 0 => n = MaxRuns
  BY <1>1, KeepsTheEnd
<1>3. k \in Seq(Run) /\ n <= MaxRuns /\ DOMAIN k = 1..n /\ n \in Nat
  BY <1>1, KeepsTheEnd
<1> HIDE DEF k, n
<1>4. Range(runs) = {runs[i] : i \in 1..Len(runs)} /\ Range(k) = {k[i] : i \in 1..n}
  BY <1>1, <1>3, ListRange DEF n
<1>5. \A i \in 1..n : i + d \in 1..Len(runs)
  BY <1>2, <1>3
<1>6. IsInjective(k)
  <2> SUFFICES ASSUME NEW i \in 1..n, NEW j \in 1..n, k[i] = k[j] PROVE i = j
    BY <1>3 DEF IsInjective
  <2>1. runs[i + d] = runs[j + d] /\ i + d \in DOMAIN runs /\ j + d \in DOMAIN runs
    BY <1>1, <1>2, <1>5
  <2>2. i + d = j + d
    BY <1>1, <2>1 DEF IsInjective
  <2> QED
    BY <1>3, <2>2
<1>7. Range(k) \subseteq Range(runs)
  BY <1>2, <1>4, <1>5
<1>8. \A i, j \in 1..n : i < j => k[j] \in NewerIn(s, f, k[i])
  BY <1>1, <1>2, <1>3, <1>5
<1>9. ASSUME NEW r \in Range(runs), r \notin Range(k)
      PROVE  Cardinality(NewerIn(s, f, r)) >= MaxRuns
  <2>1. PICK i \in 1..Len(runs) : runs[i] = r
    BY <1>4
  <2>2. i <= d
    <3> SUFFICES ASSUME i > d PROVE FALSE
      BY <2>1
    <3>1. i - d \in 1..n /\ (i - d) + d = i
      BY <1>2, <1>3
    <3> QED
      BY <1>2, <1>4, <1>9, <2>1, <3>1
  <2>3. n = MaxRuns
    BY <1>2, <2>1, <2>2
  <2>4. Range(k) \subseteq NewerIn(s, f, r)
    BY <1>1, <1>2, <1>3, <1>4, <1>5, <2>1, <2>2
  <2>5. NewerIn(s, f, r) \subseteq Range(s)
    BY DEF NewerIn
  <2>6. IsFiniteSet(NewerIn(s, f, r))
    BY <2>5, ListRange, FS_Subset
  <2>7. Cardinality(Range(k)) = MaxRuns
    BY <1>3, <1>6, <2>3, ListRange DEF n
  <2>8. Cardinality(Range(k)) <= Cardinality(NewerIn(s, f, r))
    BY <2>4, <2>6, FS_Subset
  <2> QED
    BY <2>6, <2>7, <2>8, FS_CardinalityType
<1>10. runs # <<>> => k # <<>> /\ Last(k) = Last(runs)
  <2> SUFFICES ASSUME runs # <<>> PROVE k # <<>> /\ Last(k) = Last(runs)
    OBVIOUS
  <2>1. Len(runs) > 0
    BY <1>1
  <2>2. n > 0
    BY <1>2, <1>3, <2>1, ResultsStoreAssumption
  <2>3. k[n] = runs[Len(runs)]
    BY <1>2, <1>3, <2>2
  <2> QED
    BY <1>2, <2>2, <2>3 DEF Last, n
<1> QED
  BY <1>1, <1>3, <1>6, <1>7, <1>8, <1>9, <1>10 DEF Listed, Gone, k, n

\* Runs at some places, in the order of their times
LEMMA InTimeLists ==
  ASSUME finishedAt \in Times, NEW runs \in Seq(Run), NEW K \in SUBSET (1..Len(runs)),
         \A i, j \in K : runs[i] = runs[j] => i = j
  PROVE  /\ InTime(runs, K) \in Seq(Run) /\ IsInjective(InTime(runs, K))
         /\ Range(InTime(runs, K)) = {runs[k] : k \in K}
         /\ \A i, j \in 1..Len(InTime(runs, K)) :
              i < j => finishedAt[InTime(runs, K)[i]] <= finishedAt[InTime(runs, K)[j]]
<1> DEFINE R == {p \in K \X K : Sooner(runs, p[1], p[2])}
           e == SortedBy(K, R)  c == Cardinality(K)  t == InTime(runs, K)
<1>1. IsFiniteSet(K) /\ c \in Nat /\ K \subseteq Int
  <2>1. Len(runs) \in Nat
    OBVIOUS
  <2> QED
    BY <2>1, FiniteNumbers
<1>2. \A i \in K : runs[i] \in Run /\ finishedAt[runs[i]] \in Int
  BY ResultsStoreAssumption DEF Times
<1>3. \A i, j \in K : <<i, j>> \in R <=> Sooner(runs, i, j)
  OBVIOUS
<1>4. t = [n \in 1..c |-> runs[e[n]]]
  BY DEF InTime
<1> HIDE DEF R, t
<1>5. Orders(R, K)
  <2>1. ASSUME NEW x \in K PROVE ~Sooner(runs, x, x)
    <3>1. x \in Int /\ finishedAt[runs[x]] \in Int
      BY <1>1, <1>2
    <3> QED
      BY <3>1 DEF Sooner
  <2>2. \A x, y \in K : x # y => Sooner(runs, x, y) \/ Sooner(runs, y, x)
    BY <1>1, <1>2 DEF Sooner
  <2>3. \A x, y, z \in K : Sooner(runs, x, y) /\ Sooner(runs, y, z) => Sooner(runs, x, z)
    BY <1>1, <1>2 DEF Sooner
  <2> QED
    BY <1>3, <2>1, <2>2, <2>3 DEF Orders
<1>6. Sorts(e, R, K)
  BY <1>1, <1>5, SortedSorts
<1>7. e \in Seq(K) /\ Len(e) = c /\ ToSet(e) = K
  BY <1>1, <1>5, <1>6, SortedHasAll
<1> HIDE DEF e, c
<1>8. \A i \in 1..c : e[i] \in K
  BY <1>1, <1>7
<1>9. \A i, j \in 1..c : i < j => Sooner(runs, e[i], e[j])
  BY <1>3, <1>6, <1>8 DEF Sorts, c
<1>10. \A i \in 1..c : runs[e[i]] \in Run
  BY <1>2, <1>8
<1>11. t \in Seq(Run) /\ Len(t) = c /\ DOMAIN t = 1..c
  BY <1>1, <1>4, <1>10
<1>12. \A i \in 1..c : t[i] = runs[e[i]]
  BY <1>4
<1>13. \A i, j \in 1..c : i < j => finishedAt[t[i]] <= finishedAt[t[j]]
  <2> SUFFICES ASSUME NEW i \in 1..c, NEW j \in 1..c, i < j
               PROVE  finishedAt[t[i]] <= finishedAt[t[j]]
    OBVIOUS
  <2> DEFINE x == finishedAt[runs[e[i]]]  y == finishedAt[runs[e[j]]]
  <2>1. x \in Int /\ y \in Int
    BY <1>2, <1>8
  <2>2. x < y \/ x = y
    BY <1>9 DEF Sooner
  <2>3. finishedAt[t[i]] = x /\ finishedAt[t[j]] = y
    BY <1>12
  <2> HIDE DEF x, y
  <2> QED
    BY <2>1, <2>2, <2>3
<1>14. IsInjective(t)
  <2>1. ASSUME NEW i \in 1..c, NEW j \in 1..c, t[i] = t[j], i # j PROVE FALSE
    <3>1. runs[e[i]] = runs[e[j]] /\ e[i] \in K /\ e[j] \in K
      BY <1>8, <1>12, <2>1
    <3>2. e[i] = e[j]
      BY <3>1, Zenon
    <3>3. ~Sooner(runs, e[i], e[i])
      BY <1>3, <1>5, <3>1 DEF Orders
    <3>4. i < j \/ j < i
      BY <1>1, <2>1
    <3> QED
      BY <1>9, <3>2, <3>3, <3>4
  <2> QED
    BY <1>11, <2>1, Zenon DEF IsInjective
<1>15. Range(t) = {runs[k] : k \in K}
  <2>1. \A k \in K : \E i \in 1..c : e[i] = k
    BY <1>1, <1>7 DEF ToSet
  <2>2. Range(t) = {t[i] : i \in 1..c}
    BY <1>11, Zenon DEF Range
  <2>3. ASSUME NEW i \in 1..c PROVE t[i] \in {runs[k] : k \in K}
    BY <1>8, <1>12, Zenon
  <2>4. ASSUME NEW k \in K PROVE runs[k] \in {t[i] : i \in 1..c}
    <3>1. PICK i \in 1..c : e[i] = k
      BY <2>1
    <3> QED
      BY <3>1, <1>12, Zenon
  <2>5. {t[i] : i \in 1..c} \subseteq {runs[k] : k \in K}
    BY <2>3, Zenon
  <2>6. {runs[k] : k \in K} \subseteq {t[i] : i \in 1..c}
    BY <2>4, Zenon
  <2> QED
    BY <2>2, <2>5, <2>6, Zenon
<1> QED
  BY <1>11, <1>13, <1>14, <1>15 DEF t

\* Merging two lists loses no run but those that made room
LEMMA MergeLists ==
  ASSUME saves \in Seq(Run), finishedAt \in Times,
         NEW old, Listed(old, saves, finishedAt),
         NEW recent, Listed(recent, saves, finishedAt)
  PROVE  /\ Listed(Merge(old, recent), saves, finishedAt) /\ Len(Merge(old, recent)) <= MaxRuns
         /\ \A r \in Range(old) \cup Range(recent) :
              r \in Range(Merge(old, recent)) \/ \A l : Gone(saves, finishedAt, l, r)
         /\ old # <<>> => Merge(old, recent) # <<>>
<1> DEFINE runs == old \o recent
           K == {i \in 1..Len(runs) : \A j \in 1..(i - 1) : runs[j] # runs[i]}
           t == InTime(runs, K)
<1>1. old \in Seq(Run) /\ recent \in Seq(Run) /\ saves \in Seq(Run)
      /\ Range(old) \subseteq Range(saves) /\ Range(recent) \subseteq Range(saves)
  BY DEF Listed
<1>2. /\ runs \in Seq(Run) /\ DOMAIN runs = 1..Len(runs) /\ Len(runs) = Len(old) + Len(recent)
      /\ \A i \in 1..Len(old) : runs[i] = old[i]
      /\ \A i \in 1..Len(recent) : runs[Len(old) + i] = recent[i]
      /\ \A i \in 1..Len(runs) : i <= Len(old) \/ i - Len(old) \in 1..Len(recent)
  BY <1>1
<1>3. Merge(old, recent) = Keep(t)
  BY <1>2 DEF Merge
<1>4. Len(runs) \in Nat /\ Len(old) \in Nat /\ Len(recent) \in Nat
  BY <1>1, <1>2
<1>5. /\ Range(old) = {old[i] : i \in 1..Len(old)}
      /\ Range(recent) = {recent[i] : i \in 1..Len(recent)}
  BY <1>1, ListRange
<1> HIDE DEF runs
<1>6. K \in SUBSET (1..Len(runs))
  OBVIOUS
<1>7. ASSUME NEW i \in K, NEW j \in K, runs[i] = runs[j] PROVE i = j
  <2>1. i \in Int /\ j \in Int /\ i >= 1 /\ j >= 1
    BY <1>4, <1>6
  <2>2. ~(i < j) /\ ~(j < i)
    BY <1>7, <2>1
  <2> QED
    BY <2>1, <2>2
\* Every run is there at the first of its places
<1>8. ASSUME NEW i \in 1..Len(runs) PROVE \E k \in K : runs[k] = runs[i]
  <2> DEFINE Same == {j \in 1..Len(runs) : runs[j] = runs[i]}
  <2>1. Same \in SUBSET (1..Len(runs)) /\ Same # {}
    OBVIOUS
  <2>2. PICK k \in Same : \A j \in Same : k <= j
    <3> HIDE DEF Same
    <3> QED
      BY <1>4, <2>1, LeastNumber
  <2>3. ASSUME NEW j \in 1..(k - 1) PROVE runs[j] # runs[k]
    <3>1. j \in 1..Len(runs) /\ ~(k <= j)
      BY <1>4
    <3> QED
      BY <2>2, <3>1
  <2> QED
    BY <2>3
<1> HIDE DEF K
<1>9. /\ t \in Seq(Run) /\ IsInjective(t) /\ Range(t) = {runs[k] : k \in K}
      /\ \A i, j \in 1..Len(t) : i < j => finishedAt[t[i]] <= finishedAt[t[j]]
  BY <1>2, <1>6, <1>7, InTimeLists
<1> HIDE DEF t
<1>10. Range(old) \cup Range(recent) \subseteq Range(t)
  <2>1. ASSUME NEW i \in 1..Len(old) PROVE old[i] \in Range(t)
    <3>1. i \in 1..Len(runs) /\ runs[i] = old[i]
      BY <1>2, <1>4
    <3> QED
      BY <1>8, <1>9, <3>1
  <2>2. ASSUME NEW i \in 1..Len(recent) PROVE recent[i] \in Range(t)
    <3>1. Len(old) + i \in 1..Len(runs) /\ runs[Len(old) + i] = recent[i]
      BY <1>2, <1>4
    <3> QED
      BY <1>8, <1>9, <3>1
  <2> QED
    BY <1>5, <2>1, <2>2
<1>11. Range(t) \subseteq Range(saves)
  <2> SUFFICES ASSUME NEW k \in K PROVE runs[k] \in Range(saves)
    BY <1>9
  <2>1. k \in 1..Len(runs) /\ k \in Int
    BY <1>4, <1>6
  <2>2. CASE k <= Len(old)
    <3>1. k \in 1..Len(old)
      BY <1>4, <2>1, <2>2
    <3> QED
      BY <1>1, <1>2, <1>5, <3>1
  <2>3. CASE k - Len(old) \in 1..Len(recent)
    <3>1. Len(old) + (k - Len(old)) = k
      BY <1>4, <2>1
    <3>2. runs[k] = recent[k - Len(old)]
      BY <1>2, <2>3, <3>1
    <3> QED
      BY <1>1, <1>5, <2>3, <3>2
  <2> QED
    BY <1>2, <2>1, <2>2, <2>3
<1>12. ASSUME NEW i \in 1..Len(t), NEW j \in 1..Len(t), i < j
       PROVE  t[j] \in NewerIn(saves, finishedAt, t[i])
  <2>1. DOMAIN t = 1..Len(t) /\ t[i] \in Run /\ t[j] \in Run
    BY <1>9
  <2>2. t[i] # t[j]
    <3>1. i # j
      BY <1>12
    <3> QED
      BY <1>9, <2>1, <3>1 DEF IsInjective
  <2>3. t[j] \in Range(saves)
    <3>1. t[j] \in Range(t)
      BY <2>1 DEF Range
    <3> QED
      BY <1>11, <3>1
  <2>4. finishedAt[t[i]] <= finishedAt[t[j]]
    BY <1>9, <1>12
  <2>5. finishedAt[t[j]] >= finishedAt[t[i]]
    BY <2>1, <2>4, ResultsStoreAssumption DEF Times
  <2> QED
    BY <2>2, <2>3, <2>5 DEF NewerIn
<1>13. Listed(t, saves, finishedAt)
  <2>1. DOMAIN t = 1..Len(t)
    BY <1>9
  <2> QED
    BY <1>9, <1>11, <1>12, <2>1 DEF Listed
<1>14. old # <<>> => t # <<>>
  <2> SUFFICES ASSUME old # <<>> PROVE t # <<>>
    OBVIOUS
  <2>1. 1 \in 1..Len(old)
    BY <1>1
  <2>2. old[1] \in Range(t)
    BY <1>5, <1>10, <2>1
  <2> QED
    BY <2>2 DEF Range
<1> QED
  BY <1>1, <1>3, <1>10, <1>13, <1>14, KeptOrGone

-----------------------------------------------------------------------------
(* More saves *)

\* Nothing that is said of the saves s with the times f is lost with t and g
Grows(s, f, t, g) ==
  \A r \in Range(s) : r \in Range(t) /\ Place(t, r) = Place(s, r) /\ g[r] = f[r]

\* What has made room, and what can be in a file, stays so when runs are saved and finish
LEMMA GrownLists ==
  ASSUME NEW s, NEW f, NEW t \in Seq(Run), NEW g, Grows(s, f, t, g)
  PROVE  /\ \A r \in Range(s) : \A l, m : l \subseteq m /\ Gone(s, f, l, r) => Gone(t, g, m, r)
         /\ \A x : Listed(x, s, f) => Listed(x, t, g)
<1>1. ASSUME NEW r \in Range(s) PROVE NewerIn(s, f, r) \subseteq NewerIn(t, g, r)
  BY DEF Grows, NewerIn
<1>2. ASSUME NEW r PROVE IsFiniteSet(NewerIn(t, g, r))
  <2>1. NewerIn(t, g, r) \in SUBSET Range(t)
    BY DEF NewerIn
  <2> QED
    BY <2>1, ListRange, FS_Subset
<1>3. ASSUME NEW r \in Range(s), Cardinality(NewerIn(s, f, r)) >= MaxRuns
      PROVE  Cardinality(NewerIn(t, g, r)) >= MaxRuns
  <2>1. /\ Cardinality(NewerIn(s, f, r)) <= Cardinality(NewerIn(t, g, r))
        /\ IsFiniteSet(NewerIn(s, f, r))
    BY <1>1, <1>2, FS_Subset
  <2>2. Cardinality(NewerIn(s, f, r)) \in Nat /\ Cardinality(NewerIn(t, g, r)) \in Nat
    BY <1>2, <2>1, FS_CardinalityType
  <2> QED
    BY <1>3, <2>1, <2>2, ResultsStoreAssumption
<1>4. ASSUME NEW x, Listed(x, s, f) PROVE Listed(x, t, g)
  <2>1. Range(x) \subseteq Range(t)
    BY <1>4 DEF Listed, Grows
  <2>2. ASSUME NEW i \in DOMAIN x, NEW j \in DOMAIN x, i < j PROVE x[j] \in NewerIn(t, g, x[i])
    <3>1. x[i] \in Range(s)
      BY <1>4 DEF Listed, Range
    <3>2. x[j] \in NewerIn(s, f, x[i])
      BY <1>4, <2>2 DEF Listed
    <3> QED
      BY <1>1, <3>1, <3>2
  <2> QED
    BY <1>4, <2>1, <2>2 DEF Listed
<1> QED
  BY <1>3, <1>4 DEF Gone

\* One that is saved comes last
LEMMA SaveGrows ==
  ASSUME NEW s \in Seq(Run), IsInjective(s), NEW f, NEW p \in Run, p \notin Range(s)
  PROVE  LET t == Append(s, p) IN
         /\ t \in Seq(Run) /\ IsInjective(t) /\ Range(t) = Range(s) \cup {p}
         /\ Grows(s, f, t, f)
         /\ \A r \in Range(s) : p \in NewerIn(t, f, r)
<1> DEFINE t == Append(s, p)  n == Len(s)
<1>1. /\ n \in Nat /\ t \in Seq(Run) /\ Len(t) = n + 1 /\ t[n + 1] = p
      /\ DOMAIN t = 1..(n + 1) /\ DOMAIN s = 1..n
      /\ \A i \in 1..n : t[i] = s[i]
  OBVIOUS
<1>2. Range(s) = {s[i] : i \in 1..n} /\ Range(t) = {t[i] : i \in 1..(n + 1)}
  BY <1>1 DEF Range
<1> HIDE DEF t, n
<1>3. \A i \in 1..(n + 1) : i \in 1..n \/ i = n + 1
  BY <1>1
<1>4. \A i \in 1..n : i \in 1..(n + 1)
  BY <1>1
<1>5. n + 1 \in 1..(n + 1) /\ n + 1 \notin 1..n
  BY <1>1
<1>6. Range(t) = Range(s) \cup {p}
  BY <1>1, <1>2, <1>3, <1>4, <1>5
<1>7. IsInjective(t)
  <2> SUFFICES ASSUME NEW i \in 1..(n + 1), NEW j \in 1..(n + 1), t[i] = t[j] PROVE i = j
    BY <1>1 DEF IsInjective
  <2>1. \A k \in 1..n : t[k] # p
    BY <1>1, <1>2
  <2> QED
    BY <1>1, <1>3, <2>1 DEF IsInjective
<1>8. ASSUME NEW i \in 1..n PROVE Place(s, s[i]) = i /\ Place(t, s[i]) = i
  <2>1. \A k \in 1..n : s[k] = s[i] => k = i
    BY <1>1 DEF IsInjective
  <2>2. \A k \in 1..(n + 1) : t[k] = s[i] => k = i
    BY <1>1, <1>4, <1>7 DEF IsInjective
  <2>3. i \in 1..n /\ i \in 1..(n + 1) /\ t[i] = s[i]
    BY <1>1, <1>4
  <2> QED
    BY <1>1, <2>1, <2>2, <2>3 DEF Place
<1>9. Place(t, p) = n + 1
  <2>1. \A k \in 1..(n + 1) : t[k] = p => k = n + 1
    BY <1>1, <1>5, <1>7 DEF IsInjective
  <2> QED
    BY <1>1, <1>5, <2>1 DEF Place
<1>10. Grows(s, f, t, f)
  BY <1>2, <1>6, <1>8 DEF Grows
<1>11. ASSUME NEW r \in Range(s) PROVE p \in NewerIn(t, f, r)
  <2>1. PICK i \in 1..n : r = s[i]
    BY <1>2
  <2>2. Place(t, r) = i /\ n + 1 > i
    BY <1>1, <1>8, <2>1
  <2> QED
    BY <1>6, <1>9, <2>2 DEF NewerIn
<1> QED
  BY <1>1, <1>6, <1>7, <1>10, <1>11 DEF t

\* Appending the run of a process to a list loses no run but those that made room
LEMMA AppendedLists ==
  ASSUME saves \in Seq(Run), IsInjective(saves), NEW p \in Proc, p \in Run, p \notin Range(saves),
         Listed(mem[p], saves, finishedAt)
  PROVE  LET s == Append(saves, p) IN
         /\ Listed(Appended(p), s, finishedAt) /\ Len(Appended(p)) <= MaxRuns
         /\ \A r \in Range(mem[p]) : r \in Range(Appended(p)) \/ \A l : Gone(s, finishedAt, l, r)
         /\ p \in Range(Appended(p)) /\ Appended(p) # <<>>
<1> DEFINE s == Append(saves, p)  m == mem[p]  K == {i \in DOMAIN m : m[i] # p}
           a == AtPlaces(m, K)  b == Append(a, p)  c == Cardinality(K)
<1>1. /\ m \in Seq(Run) /\ IsInjective(m) /\ Range(m) \subseteq Range(saves)
      /\ \A i, j \in DOMAIN m : i < j => m[j] \in NewerIn(saves, finishedAt, m[i])
      /\ DOMAIN m = 1..Len(m) /\ Len(m) \in Nat
  BY DEF Listed
<1>2. Range(m) = {m[i] : i \in 1..Len(m)}
  BY <1>1, ListRange
<1>3. K = 1..Len(m)
  BY <1>1, <1>2
<1>4. Appended(p) = Keep(b)
  BY DEF Appended
<1> HIDE DEF m, K, a
<1>5. /\ a \in Seq(Run) /\ Len(a) = c /\ c \in Nat
      /\ \A n \in 1..c : Numbers(K)[n] \in K /\ a[n] = m[Numbers(K)[n]]
      /\ \A i, j \in 1..c : i < j => Numbers(K)[i] < Numbers(K)[j]
      /\ ToSet(a) = {m[k] : k \in K}
  <2>1. K \in SUBSET (1..Len(m))
    BY <1>3
  <2> QED
    BY <1>1, <2>1, PlacesListed DEF a
<1> HIDE DEF c
<1>6. Range(a) = Range(m) /\ DOMAIN a = 1..c
  <2>1. ToSet(a) = Range(a)
    BY Zenon DEF ToSet, Range
  <2>2. Range(m) = {m[k] : k \in K}
    BY <1>2, <1>3, Zenon
  <2>3. DOMAIN a = 1..c
    BY <1>5
  <2> QED
    BY <1>5, <2>1, <2>2, <2>3
<1>7. Listed(a, saves, finishedAt)
  <2>1. ASSUME NEW i \in 1..c, NEW j \in 1..c, i < j
        PROVE  a[i] # a[j] /\ a[j] \in NewerIn(saves, finishedAt, a[i])
    <3> DEFINE x == Numbers(K)[i]  y == Numbers(K)[j]
    <3>1. x \in DOMAIN m /\ y \in DOMAIN m /\ a[i] = m[x] /\ a[j] = m[y] /\ x < y
      BY <1>1, <1>3, <1>5, <2>1
    <3>2. x # y
      BY <1>1, <3>1
    <3> HIDE DEF x, y
    <3> QED
      BY <1>1, <3>1, <3>2 DEF IsInjective
  <2>2. IsInjective(a)
    <3> SUFFICES ASSUME NEW i \in 1..c, NEW j \in 1..c, a[i] = a[j], i # j PROVE FALSE
      BY <1>6 DEF IsInjective
    <3>1. i < j \/ j < i
      BY <1>5
    <3> QED
      BY <2>1, <3>1
  <2> QED
    BY <1>1, <1>5, <1>6, <2>1, <2>2 DEF Listed
<1>8. /\ s \in Seq(Run) /\ IsInjective(s) /\ Range(s) = Range(saves) \cup {p}
      /\ Grows(saves, finishedAt, s, finishedAt)
      /\ \A r \in Range(saves) : p \in NewerIn(s, finishedAt, r)
  BY SaveGrows
<1> HIDE DEF s
<1>9. Listed(a, s, finishedAt)
  BY <1>7, <1>8, GrownLists
<1>10. /\ b \in Seq(Run) /\ Range(b) = Range(a) \cup {p} /\ IsInjective(b)
       /\ DOMAIN b = 1..(c + 1) /\ b[c + 1] = p /\ \A i \in 1..c : b[i] = a[i]
  <2>1. IsInjective(a) /\ p \notin Range(a)
    BY <1>1, <1>6, <1>7 DEF Listed
  <2>2. b \in Seq(Run) /\ Range(b) = Range(a) \cup {p} /\ IsInjective(b)
    BY <1>5, <2>1, SaveGrows
  <2> QED
    BY <1>5, <2>2
<1> HIDE DEF b
<1>11. Listed(b, s, finishedAt)
  <2>1. ASSUME NEW i \in 1..(c + 1), NEW j \in 1..(c + 1), i < j
        PROVE  b[j] \in NewerIn(s, finishedAt, b[i])
    <3>1. i \in 1..c /\ (j \in 1..c \/ j = c + 1)
      BY <1>5, <2>1
    <3>2. a[i] \in Range(saves)
      BY <1>1, <1>6, <3>1 DEF Range
    <3>3. j \in 1..c => a[j] \in NewerIn(s, finishedAt, a[i])
      BY <1>6, <1>9, <2>1, <3>1 DEF Listed
    <3> QED
      BY <1>8, <1>10, <3>1, <3>2, <3>3
  <2> QED
    BY <1>1, <1>6, <1>8, <1>10, <2>1 DEF Listed
<1>12. b # <<>> /\ Last(b) = p
  <2>1. Len(b) = c + 1
    BY <1>5 DEF b
  <2> QED
    BY <1>5, <1>10, <2>1 DEF Last
<1>13. /\ Listed(Keep(b), s, finishedAt) /\ Len(Keep(b)) <= MaxRuns
       /\ \A r \in Range(b) : r \in Range(Keep(b)) \/ \A l : Gone(s, finishedAt, l, r)
       /\ Keep(b) # <<>> /\ Last(Keep(b)) = p
  BY <1>8, <1>11, <1>12, KeptOrGone
<1>14. p \in Range(Keep(b))
  <2>1. Keep(b) \in Seq(Run)
    BY <1>13 DEF Listed
  <2>2. Len(Keep(b)) \in DOMAIN Keep(b)
    BY <1>13, <2>1
  <2> QED
    BY <1>13, <2>2 DEF Last, Range
<1> QED
  BY <1>4, <1>6, <1>10, <1>13, <1>14 DEF s, m

-----------------------------------------------------------------------------
(* The inductive invariant *)

\* There is at most one older simmer
OneOld == \A p, q \in Old : p = q

\* Where a process has the lock of the store, where it has a legacy lock, and where an older
\* simmer may still come to write the legacy file
Locked == {"load", "legacy_lock", "migrate", "merge", "remove", "unlink", "read", "write"}
Migrating == {"migrate", "merge", "remove"}
Holding == Migrating \cup {"old_write"}
Early == {"idle", "old_open", "old_lock", "old_write"}

\* Who can be where; a run is saved at the end
Places ==
  \A p \in Proc :
    /\ at[p] \in Locked \cup {"lock", "query_legacy"} => p \notin Old
    /\ at[p] \in {"old_open", "old_lock", "old_write"} => p \in Old
    /\ at[p] = "write" => p \in Saver
    /\ at[p] = "query_legacy" => p \in Reader
    /\ at[p] # "done" => p \notin Range(saves)

\* One process has the lock of the store, and one each legacy lock
Locks ==
  \A p \in Proc :
    /\ at[p] \in Locked => storeLock = p
    /\ holds[p] <=> at[p] \in Holding
    /\ \A q \in Proc : holds[p] /\ holds[q] /\ opened[p] = opened[q] => p = q

\* Who migrates has the legacy lock that there is.  The older simmer can have another one once
\* there is no legacy file; its lock is removed when it will write none any more.
Inodes ==
  \A p \in Proc :
    /\ at[p] \in Migrating \cup {"legacy_lock"} => opened[p] = inode /\ legacyStore # Absent
    /\ at[p] \in {"old_lock", "old_write"} /\ opened[p] # inode => legacyStore = Absent
    /\ at[p] = "unlink" => legacyStore = Absent \/ \A q \in Old : at[q] \notin Early

\* What is in the files and in memory was saved
Lists ==
  /\ IsInjective(saves) /\ Len(store.runs) <= MaxRuns
  /\ store.state # "ok" => store.runs = <<>>
  /\ legacyStore.state = "ok" <=> legacyStore.runs # <<>>
  /\ Listed(store.runs, saves, finishedAt) /\ Listed(legacyStore.runs, saves, finishedAt)
  /\ \A p \in Proc : Listed(mem[p], saves, finishedAt) /\ (at[p] = "merge" => mem[p] # <<>>)
  /\ \A p \in Reader : due[p] \subseteq Range(saves)

\* A run is in the store or has made room
InStore(r) == r \in Range(store.runs) \/ Gone(saves, finishedAt, lost, r)

\* A run that was saved is in one of the files, or has made room
StayListed == \A r \in Range(saves) : InStore(r) \/ r \in Range(legacyStore.runs)

\* Who has read a file has what is in it; what was merged, or is due, is in the store
Carried ==
  \A p \in Proc :
    /\ at[p] = "write" => Range(store.runs) \subseteq Range(mem[p])
    /\ at[p] \in {"merge", "old_write"} => Range(legacyStore.runs) \subseteq Range(mem[p])
    /\ at[p] = "remove" => \A r \in Range(legacyStore.runs) : InStore(r)
    /\ at[p] \in {"unlink", "read"} /\ p \in Reader => \A r \in due[p] : InStore(r)

\* A query that is done has shown what was due
Shown ==
  \A p \in Reader : at[p] = "done" =>
    \A r \in due[p] : r \in Range(mem[p]) \/ Gone(saves, finishedAt, lost, r)

\* The inductive invariant
StoreIInv == StoreTypeOK /\ Places /\ Locks /\ Inodes /\ Lists /\ Carried /\ StayListed /\ Shown

-----------------------------------------------------------------------------
(* Types *)

\* What is written is a file
LEMMA FileTypes ==
  /\ Absent \in StoreFiles /\ Invalid \in StoreFiles
  /\ \A runs \in Seq(Run) : runs # <<>> => File(runs) \in StoreFiles
<1>1. <<>> \in Seq(Run)
  OBVIOUS
<1>2. Absent \in StoreFiles /\ Invalid \in StoreFiles
  BY <1>1 DEF Absent, Invalid, StoreFiles
<1>3. ASSUME NEW runs \in Seq(Run), runs # <<>> PROVE File(runs) \in StoreFiles
  <2>1. Last(runs) \in Run
    BY <1>3 DEF Last
  <2> QED
    BY <2>1 DEF File, StoreFiles
<1> QED
  BY <1>2, <1>3

\* What a migration writes
LEMMA MergeWritten ==
  ASSUME StoreTypeOK, Lists, NEW p \in Proc, at[p] = "merge"
  PROVE  LET runs == Merge(mem[p], store.runs) IN
         /\ runs \in Seq(Run) /\ runs # <<>> /\ Len(runs) <= MaxRuns
         /\ Listed(runs, saves, finishedAt)
         /\ \A r \in Range(mem[p]) \cup Range(store.runs) :
              r \in Range(runs) \/ Gone(saves, finishedAt, lost, r)
<1> DEFINE runs == Merge(mem[p], store.runs)
<1>1. saves \in Seq(Run) /\ finishedAt \in Times
  BY DEF StoreTypeOK, Times
<1>2. /\ Listed(store.runs, saves, finishedAt) /\ Listed(mem[p], saves, finishedAt)
      /\ mem[p] # <<>>
  BY DEF Lists
<1>3. /\ Listed(runs, saves, finishedAt) /\ Len(runs) <= MaxRuns /\ runs # <<>>
      /\ \A r \in Range(mem[p]) \cup Range(store.runs) :
           r \in Range(runs) \/ \A l : Gone(saves, finishedAt, l, r)
  BY <1>1, <1>2, MergeLists
<1> HIDE DEF runs
<1>4. runs \in Seq(Run)
  BY <1>3 DEF Listed
<1> QED
  BY <1>3, <1>4 DEF runs

\* What a save writes
LEMMA SaveWritten ==
  ASSUME StoreTypeOK, Places, Lists, NEW p \in Proc, p \in Run, at[p] # "done",
         NEW s, s = Append(saves, p)
  PROVE  /\ Appended(p) \in Seq(Run) /\ Appended(p) # <<>> /\ Len(Appended(p)) <= MaxRuns
         /\ Listed(Appended(p), s, finishedAt) /\ p \in Range(Appended(p))
         /\ \A r \in Range(mem[p]) : r \in Range(Appended(p)) \/ Gone(s, finishedAt, lost, r)
<1>1. /\ saves \in Seq(Run) /\ IsInjective(saves) /\ p \notin Range(saves)
      /\ Listed(mem[p], saves, finishedAt)
  BY DEF StoreTypeOK, Lists, Places
<1>2. /\ Listed(Appended(p), s, finishedAt) /\ Len(Appended(p)) <= MaxRuns
      /\ \A r \in Range(mem[p]) : r \in Range(Appended(p)) \/ \A l : Gone(s, finishedAt, l, r)
      /\ p \in Range(Appended(p)) /\ Appended(p) # <<>>
  BY <1>1, AppendedLists
<1> QED
  BY <1>2 DEF Listed

\* Where a process comes to
LEMMA Moves ==
  ASSUME StoreTypeOK, NEW p \in Proc, NEW place \in Where, MoveTo(p, place)
  PROVE  /\ at' \in [Proc -> Where] /\ at'[p] = place
         /\ \A q \in Proc : q # p => at'[q] = at[q]
BY DEF StoreTypeOK, MoveTo

\* Every step keeps the files, the locks and the places of their kinds
LEMMA StoreTypes ==
  ASSUME StoreTypeOK, Places, Lists, StoreNext
  PROVE  StoreTypeOK'
<1>1. ASSUME NEW p \in Proc, Finalize(p) PROVE StoreTypeOK'
  BY <1>1, FileTypes, ResultsStoreAssumption DEF Finalize, MoveTo, StoreTypeOK, Where, Proc, Run
<1>2. ASSUME NEW p \in Proc, QueryStore(p) PROVE StoreTypeOK'
  <2>1. due' \in [Reader -> SUBSET Run]
    BY <1>2, ListRange DEF QueryStore, StoreTypeOK
  <2>2. at' \in [Proc -> Where]
    BY <1>2, Moves DEF QueryStore, Where
  <2> QED
    BY <1>2, <2>1, <2>2 DEF QueryStore, StoreTypeOK
<1>3. ASSUME NEW p \in Proc, QueryLegacy(p) PROVE StoreTypeOK'
  BY <1>3, FileTypes, ResultsStoreAssumption
     DEF QueryLegacy, MoveTo, StoreTypeOK, Where, Proc, Run
<1>4. ASSUME NEW p \in Proc, LockStore(p) PROVE StoreTypeOK'
  BY <1>4, FileTypes, ResultsStoreAssumption
     DEF LockStore, MoveTo, StoreTypeOK, Where, Proc, Run
<1>5. ASSUME NEW p \in Proc, Load(p) PROVE StoreTypeOK'
  <2>1. opened' \in [Proc -> 0..inode]
    <3>1. inode \in 0..inode /\ opened \in [Proc -> 0..inode]
      BY DEF StoreTypeOK
    <3>2. opened' = opened \/ opened' = [opened EXCEPT ![p] = inode]
      BY <1>5 DEF Load
    <3> QED
      BY <3>1, <3>2
  <2>2. at' \in [Proc -> Where]
    BY <1>5, Moves DEF Load, Where
  <2> QED
    BY <1>5, <2>1, <2>2 DEF Load, StoreTypeOK
<1>6. ASSUME NEW p \in Proc, LockLegacy(p) PROVE StoreTypeOK'
  BY <1>6, FileTypes, ResultsStoreAssumption
     DEF LockLegacy, MoveTo, StoreTypeOK, Where, Proc, Run
<1>7. ASSUME NEW p \in Proc, ReadLegacy(p) PROVE StoreTypeOK'
  <2>1. mem' \in [Proc -> Seq(Run)]
    BY <1>7 DEF ReadLegacy, StoreTypeOK, StoreFiles
  <2>2. legacyStore' \in StoreFiles /\ holds' \in [Proc -> BOOLEAN]
    BY <1>7, FileTypes DEF ReadLegacy, Unlock, StoreTypeOK
  <2>3. at' \in [Proc -> Where]
    BY <1>7, Moves DEF ReadLegacy, Where
  <2> QED
    BY <1>7, <2>1, <2>2, <2>3 DEF ReadLegacy, StoreTypeOK, Unlock
<1>8. ASSUME NEW p \in Proc, WriteMerged(p) PROVE StoreTypeOK'
  <2>1. store' \in StoreFiles /\ holds' \in [Proc -> BOOLEAN] /\ storeLock' \in Proc \cup {Nil}
    BY <1>8, FileTypes, MergeWritten DEF WriteMerged, SetAside, Unlock, StoreTypeOK
  <2>2. at' \in [Proc -> Where]
    BY <1>8, Moves DEF WriteMerged, SetAside, Where
  <2> QED
    BY <1>8, <2>1, <2>2 DEF WriteMerged, StoreTypeOK, Unlock, SetAside
<1>9. ASSUME NEW p \in Proc, RemoveMigrated(p) PROVE StoreTypeOK'
  <2>1. legacyStore' \in StoreFiles /\ holds' \in [Proc -> BOOLEAN] /\ faults' \in 0..MaxFaults
    BY <1>9, FileTypes, ResultsStoreAssumption DEF RemoveMigrated, Unlock, StoreTypeOK
  <2>2. at' \in [Proc -> Where]
    BY <1>9, Moves DEF RemoveMigrated, Where
  <2> QED
    BY <1>9, <2>1, <2>2 DEF RemoveMigrated, StoreTypeOK, Unlock
<1>10. ASSUME NEW p \in Proc, UnlinkLock(p) PROVE StoreTypeOK'
  BY <1>10, FileTypes, ResultsStoreAssumption
     DEF UnlinkLock, MoveTo, StoreTypeOK, Where, Proc, Run
<1>11. ASSUME NEW p \in Proc, ReadStore(p) PROVE StoreTypeOK'
  <2>1. store.runs \in Seq(Run)
    BY DEF StoreTypeOK, StoreFiles
  <2>2. mem' = mem \/ mem' = [mem EXCEPT ![p] = store.runs]
    BY <1>11 DEF ReadStore
  <2>3. mem' \in [Proc -> Seq(Run)]
    BY <2>1, <2>2 DEF StoreTypeOK
  <2>4. store' \in StoreFiles /\ storeLock' \in Proc \cup {Nil}
    BY <1>11, FileTypes DEF ReadStore, SetAside, StoreTypeOK
  <2>5. at' \in [Proc -> Where]
    BY <1>11, Moves DEF ReadStore, SetAside, Where
  <2> QED
    BY <1>11, <2>3, <2>4, <2>5 DEF ReadStore, StoreTypeOK
<1>12. ASSUME NEW p \in Proc, WriteStore(p) PROVE StoreTypeOK'
  <2>1. p \in Run /\ at[p] # "done"
    BY <1>12 DEF WriteStore, Places, Run
  <2>2. Appended(p) \in Seq(Run) /\ Appended(p) # <<>>
    BY <1>12, <2>1, SaveWritten
  <2>3. store' \in StoreFiles /\ saves' \in Seq(Run)
    <3>1. File(Appended(p)) \in StoreFiles /\ Append(saves, p) \in Seq(Run)
      BY <2>1, <2>2, FileTypes DEF StoreTypeOK
    <3>2. \/ store' = File(Appended(p)) /\ saves' = Append(saves, p)
          \/ store' = store /\ saves' = saves
      BY <1>12 DEF WriteStore
    <3> QED
      BY <3>1, <3>2 DEF StoreTypeOK
  <2>4. faults' \in 0..MaxFaults
    BY <1>12, ResultsStoreAssumption DEF WriteStore, StoreTypeOK
  <2>5. at' \in [Proc -> Where]
    BY <1>12, Moves DEF WriteStore, Where
  <2> QED
    BY <1>12, <2>1, <2>2, <2>3, <2>4, <2>5 DEF WriteStore, StoreTypeOK
<1>13. ASSUME NEW p \in Proc, OldOpens(p) PROVE StoreTypeOK'
  BY <1>13, FileTypes, ResultsStoreAssumption
     DEF OldOpens, MoveTo, StoreTypeOK, Where, Proc, Run
<1>14. ASSUME NEW p \in Proc, OldReads(p) PROVE StoreTypeOK'
  <2>1. mem' \in [Proc -> Seq(Run)]
    BY <1>14 DEF OldReads, StoreTypeOK, StoreFiles
  <2>2. at' \in [Proc -> Where]
    BY <1>14, Moves DEF OldReads, Where
  <2> QED
    BY <1>14, <2>1, <2>2 DEF OldReads, StoreTypeOK
<1>15. ASSUME NEW p \in Proc, OldWrites(p) PROVE StoreTypeOK'
  <2>1. p \in Run /\ at[p] # "done"
    BY <1>15 DEF OldWrites, Places, Run
  <2>2. Appended(p) \in Seq(Run) /\ Appended(p) # <<>>
    BY <1>15, <2>1, SaveWritten
  <2>3. legacyStore' \in StoreFiles /\ saves' \in Seq(Run)
    BY <1>15, <2>1, <2>2, FileTypes DEF OldWrites, StoreTypeOK
  <2>4. at' \in [Proc -> Where]
    BY <1>15, Moves DEF OldWrites, Where
  <2> QED
    BY <1>15, <2>1, <2>2, <2>3, <2>4 DEF OldWrites, StoreTypeOK, Unlock
<1>16. ASSUME NEW p \in Proc, Die(p) PROVE StoreTypeOK'
  BY <1>16, FileTypes, ResultsStoreAssumption
     DEF Die, MoveTo, Unlock, StoreTypeOK, Where, Proc, Run
<1>17. ASSUME Damage PROVE StoreTypeOK'
  <2>1. Range(store.runs) \subseteq Run /\ Range(legacyStore.runs) \subseteq Run
    BY ListRange DEF StoreTypeOK, StoreFiles
  <2>2. store' \in StoreFiles /\ legacyStore' \in StoreFiles /\ lost' \subseteq Run
    BY <1>17, <2>1, FileTypes DEF Damage, StoreTypeOK
  <2>3. faults' \in 0..MaxFaults
    BY <1>17, ResultsStoreAssumption DEF Damage, StoreTypeOK
  <2> QED
    BY <1>17, <2>2, <2>3 DEF Damage, StoreTypeOK
<1> QED
  BY <1>1, <1>2, <1>3, <1>4, <1>5, <1>6, <1>7, <1>8, <1>9, <1>10, <1>11, <1>12, <1>13, <1>14,
     <1>15, <1>16, <1>17
     DEF StoreNext, Step

-----------------------------------------------------------------------------
(* Saves *)

\* The saves grow at the end, by the run of a process that is done then
LEMMA SavesGrow ==
  ASSUME StoreTypeOK, Places, Lists, StoreNext
  PROVE  /\ IsInjective(saves') /\ Grows(saves, finishedAt, saves', finishedAt')
         /\ Range(saves) \subseteq Range(saves') /\ lost \subseteq lost'
         /\ \A r \in Range(saves') \ Range(saves) :
              \E p \in Proc : r = p /\ (WriteStore(p) \/ OldWrites(p)) /\ at'[p] = "done"
<1>1. saves \in Seq(Run) /\ IsInjective(saves)
  BY DEF StoreTypeOK, Lists
<1>2. saves' = saves /\ finishedAt' = finishedAt => Grows(saves, finishedAt, saves', finishedAt')
  BY DEF Grows
<1>3. ASSUME NEW p \in Proc, saves' = Append(saves, p), finishedAt' = finishedAt,
             WriteStore(p) \/ OldWrites(p)
      PROVE  /\ IsInjective(saves') /\ Grows(saves, finishedAt, saves', finishedAt')
             /\ Range(saves') = Range(saves) \cup {p} /\ at'[p] = "done"
  <2>1. p \in Run /\ at[p] # "done"
    BY <1>3 DEF WriteStore, OldWrites, Places, Run
  <2>2. p \notin Range(saves)
    BY <2>1 DEF Places
  <2>3. at'[p] = "done"
    BY <1>3 DEF WriteStore, OldWrites, MoveTo, StoreTypeOK
  <2>4. /\ IsInjective(Append(saves, p))
        /\ Grows(saves, finishedAt, Append(saves, p), finishedAt)
        /\ Range(Append(saves, p)) = Range(saves) \cup {p}
    BY <1>1, <2>1, <2>2, SaveGrows
  <2> QED
    BY <1>3, <2>3, <2>4
<1>4. ASSUME NEW p \in Proc, Finalize(p)
      PROVE  saves' = saves /\ Grows(saves, finishedAt, saves', finishedAt')
  <2>1. p \notin Range(saves) /\ saves' = saves
    BY <1>4 DEF Finalize, Places
  <2>2. \E now : finishedAt' = [finishedAt EXCEPT ![p] = now]
    BY <1>4 DEF Finalize
  <2>3. \A r \in Range(saves) : finishedAt'[r] = finishedAt[r]
    <3>1. \A r \in Run : r # p => finishedAt'[r] = finishedAt[r]
      BY <2>2 DEF StoreTypeOK
    <3>2. Range(saves) \subseteq Run
      BY <1>1, ListRange
    <3> QED
      BY <2>1, <3>1, <3>2
  <2> QED
    BY <2>1, <2>3 DEF Grows
<1>5. lost \subseteq lost'
  BY DEF StoreNext, Step, Finalize, QueryStore, QueryLegacy, LockStore, Load, LockLegacy,
         ReadLegacy, WriteMerged, RemoveMigrated, UnlinkLock, ReadStore, WriteStore, OldOpens,
         OldReads, OldWrites, Die, Damage
<1>6. \/ saves' = saves /\ finishedAt' = finishedAt
      \/ \E p \in Proc : Finalize(p)
      \/ \E p \in Proc : /\ saves' = Append(saves, p) /\ finishedAt' = finishedAt
                         /\ WriteStore(p) \/ OldWrites(p)
  BY DEF StoreNext, Step, QueryStore, QueryLegacy, LockStore, Load, LockLegacy, ReadLegacy,
         WriteMerged, RemoveMigrated, UnlinkLock, ReadStore, WriteStore, OldOpens, OldReads,
         OldWrites, Die, Damage
<1>9. CASE saves' = saves /\ finishedAt' = finishedAt
  BY <1>1, <1>2, <1>5, <1>9
<1>7. CASE \E p \in Proc : Finalize(p)
  BY <1>1, <1>4, <1>5, <1>7
<1>8. CASE \E p \in Proc : /\ saves' = Append(saves, p) /\ finishedAt' = finishedAt
                           /\ WriteStore(p) \/ OldWrites(p)
  BY <1>3, <1>5, <1>8
<1> QED
  BY <1>6, <1>7, <1>8, <1>9

-----------------------------------------------------------------------------
(* Where the processes are *)

\* A step moves one process; who is done stays done
LEMMA OthersStay ==
  ASSUME StoreTypeOK, NEW p \in Proc, Finalize(p) \/ Step(p) \/ Die(p)
  PROVE  /\ \A q \in Proc : q # p => at'[q] = at[q] /\ mem'[q] = mem[q]
         /\ \A q \in Reader : q # p => due'[q] = due[q]
         /\ at[p] \notin {"done", "dead", "failed", "empty"}
<1>1. \E place : at' = [at EXCEPT ![p] = place]
  BY DEF Step, Finalize, QueryStore, QueryLegacy, LockStore, Load, LockLegacy, ReadLegacy,
         WriteMerged, SetAside, RemoveMigrated, UnlinkLock, ReadStore, WriteStore, OldOpens,
         OldReads, OldWrites, Die, MoveTo
<1>2. mem' = mem \/ \E runs : mem' = [mem EXCEPT ![p] = runs]
  BY DEF Step, Finalize, QueryStore, QueryLegacy, LockStore, Load, LockLegacy, ReadLegacy,
         WriteMerged, RemoveMigrated, UnlinkLock, ReadStore, WriteStore, OldOpens, OldReads,
         OldWrites, Die
<1>3. due' = due \/ \E runs : due' = [due EXCEPT ![p] = runs]
  BY DEF Step, Finalize, QueryStore, QueryLegacy, LockStore, Load, LockLegacy, ReadLegacy,
         WriteMerged, RemoveMigrated, UnlinkLock, ReadStore, WriteStore, OldOpens, OldReads,
         OldWrites, Die
<1>4. at[p] \notin {"done", "dead", "failed", "empty"}
  BY DEF Step, Finalize, QueryStore, QueryLegacy, LockStore, Load, LockLegacy, ReadLegacy,
         WriteMerged, RemoveMigrated, UnlinkLock, ReadStore, WriteStore, OldOpens, OldReads,
         OldWrites, Die
<1> QED
  BY <1>1, <1>2, <1>3, <1>4 DEF StoreTypeOK

\* A step is one of one process, or a file is damaged
LEMMA Moving ==
  ASSUME StoreTypeOK, StoreNext
  PROVE  \/ \E p \in Proc : /\ Finalize(p) \/ Step(p) \/ Die(p)
                            /\ \A q \in Proc : q # p => at'[q] = at[q] /\ mem'[q] = mem[q]
                            /\ \A q \in Reader : q # p => due'[q] = due[q]
                            /\ at[p] \notin {"done", "dead", "failed", "empty"}
         \/ Damage /\ at' = at /\ mem' = mem /\ due' = due
BY OthersStay DEF StoreNext, Damage

\* No step takes a process where its kind has no business
LEMMA PlacesStep ==
  ASSUME StoreTypeOK, Places, Lists, StoreNext
  PROVE  Places'
<1> DEFINE Place1(q) == /\ at'[q] \in Locked \cup {"lock", "query_legacy"} => q \notin Old
                        /\ at'[q] \in {"old_open", "old_lock", "old_write"} => q \in Old
                        /\ at'[q] = "write" => q \in Saver
                        /\ at'[q] = "query_legacy" => q \in Reader
<1>1. ASSUME NEW q \in Proc PROVE at'[q] # "done" => q \notin Range(saves')
  <2>1. at'[q] # "done" => at[q] # "done"
    BY Moving
  <2> QED
    BY <2>1, SavesGrow DEF Places
<1>2. ASSUME NEW p \in Proc, Finalize(p) \/ Step(p) \/ Die(p) PROVE Place1(p)
  <2>1. CASE Finalize(p)
    BY <2>1, ResultsStoreAssumption DEF Finalize, MoveTo, StoreTypeOK, Places, Locked, Proc, Run
  <2>2. CASE QueryStore(p)
    BY <2>2, ResultsStoreAssumption
       DEF QueryStore, MoveTo, StoreTypeOK, Places, Locked, Proc, Run
  <2>3. CASE QueryLegacy(p)
    BY <2>3, ResultsStoreAssumption
       DEF QueryLegacy, MoveTo, StoreTypeOK, Places, Locked, Proc, Run
  <2>4. CASE LockStore(p)
    BY <2>4, ResultsStoreAssumption
       DEF LockStore, MoveTo, StoreTypeOK, Places, Locked, Proc, Run
  <2>5. CASE Load(p)
    BY <2>5, ResultsStoreAssumption DEF Load, MoveTo, StoreTypeOK, Places, Locked, Proc, Run
  <2>6. CASE LockLegacy(p)
    BY <2>6, ResultsStoreAssumption
       DEF LockLegacy, MoveTo, StoreTypeOK, Places, Locked, Proc, Run
  <2>7. CASE ReadLegacy(p)
    BY <2>7, ResultsStoreAssumption
       DEF ReadLegacy, MoveTo, StoreTypeOK, Places, Locked, Proc, Run
  <2>8. CASE WriteMerged(p)
    BY <2>8, ResultsStoreAssumption
       DEF WriteMerged, SetAside, MoveTo, StoreTypeOK, Places, Locked, Proc, Run
  <2>9. CASE RemoveMigrated(p)
    BY <2>9, ResultsStoreAssumption
       DEF RemoveMigrated, MoveTo, StoreTypeOK, Places, Locked, Proc, Run
  <2>10. CASE UnlinkLock(p)
    BY <2>10, ResultsStoreAssumption
       DEF UnlinkLock, MoveTo, StoreTypeOK, Places, Locked, Proc, Run
  <2>11. CASE ReadStore(p)
    BY <2>11, ResultsStoreAssumption
       DEF ReadStore, SetAside, MoveTo, StoreTypeOK, Places, Locked, Proc, Run
  <2>12. CASE WriteStore(p)
    BY <2>12, ResultsStoreAssumption
       DEF WriteStore, MoveTo, StoreTypeOK, Places, Locked, Proc, Run
  <2>13. CASE OldOpens(p)
    BY <2>13, ResultsStoreAssumption
       DEF OldOpens, MoveTo, StoreTypeOK, Places, Locked, Proc, Run
  <2>14. CASE OldReads(p)
    BY <2>14, ResultsStoreAssumption
       DEF OldReads, MoveTo, StoreTypeOK, Places, Locked, Proc, Run
  <2>15. CASE OldWrites(p)
    BY <2>15, ResultsStoreAssumption
       DEF OldWrites, MoveTo, StoreTypeOK, Places, Locked, Proc, Run
  <2>16. CASE Die(p)
    BY <2>16, ResultsStoreAssumption DEF Die, MoveTo, StoreTypeOK, Places, Locked, Proc, Run
  <2> QED
    BY <1>2, <2>1, <2>2, <2>3, <2>4, <2>5, <2>6, <2>7, <2>8, <2>9, <2>10, <2>11, <2>12, <2>13,
       <2>14, <2>15, <2>16
       DEF Step
<1>3. ASSUME NEW q \in Proc PROVE Place1(q)
  BY <1>2, Moving DEF Places
<1> QED
  BY <1>1, <1>3 DEF Places

\* Who gives a legacy lock back
LEMMA Unlocking ==
  ASSUME StoreTypeOK, Locks, NEW p \in Proc, NEW place \in Where \ Holding, MoveTo(p, place),
         Unlock(p), opened' = opened, place \in Locked => storeLock' = p,
         \A q \in Proc : q # p /\ at[q] \in Locked => storeLock' = q
  PROVE  Locks'
<1>1. at'[p] = place /\ ~holds'[p]
  BY DEF MoveTo, Unlock, StoreTypeOK
<1>2. \A q \in Proc : q # p => at'[q] = at[q] /\ holds'[q] = holds[q]
  BY DEF MoveTo, Unlock, StoreTypeOK
<1> QED
  BY <1>1, <1>2 DEF Locks

\* Every step keeps the locks to one process each
LEMMA LocksStep ==
  ASSUME StoreTypeOK, Places, Locks, StoreNext
  PROVE  Locks'
<1>1. ASSUME NEW p \in Proc, Finalize(p) PROVE Locks'
  BY <1>1, ResultsStoreAssumption
     DEF Finalize, MoveTo, StoreTypeOK, Places, Locks, Locked, Holding, Migrating
<1>2. ASSUME NEW p \in Proc, QueryStore(p) PROVE Locks'
  BY <1>2, ResultsStoreAssumption
     DEF QueryStore, MoveTo, StoreTypeOK, Places, Locks, Locked, Holding, Migrating
<1>3. ASSUME NEW p \in Proc, QueryLegacy(p) PROVE Locks'
  BY <1>3, ResultsStoreAssumption
     DEF QueryLegacy, MoveTo, StoreTypeOK, Places, Locks, Locked, Holding, Migrating
<1>4. ASSUME NEW p \in Proc, LockStore(p) PROVE Locks'
  BY <1>4, ResultsStoreAssumption
     DEF LockStore, MoveTo, StoreTypeOK, Places, Locks, Locked, Holding, Migrating
<1>5. ASSUME NEW p \in Proc, Load(p) PROVE Locks'
  BY <1>5, ResultsStoreAssumption
     DEF Load, MoveTo, StoreTypeOK, Places, Locks, Locked, Holding, Migrating
<1>6. ASSUME NEW p \in Proc, LockLegacy(p) PROVE Locks'
  BY <1>6, ResultsStoreAssumption
     DEF LockLegacy, MoveTo, LegacyFree, StoreTypeOK, Places, Locks, Locked, Holding, Migrating
<1>7. ASSUME NEW p \in Proc, ReadLegacy(p) PROVE Locks'
  <2>1. CASE legacyStore.state = "ok"
    BY <1>7, <2>1
       DEF ReadLegacy, Unlock, MoveTo, StoreTypeOK, Places, Locks, Locked, Holding, Migrating
  <2>2. CASE legacyStore.state # "ok"
    <3>1. /\ at[p] = "migrate" /\ MoveTo(p, "read") /\ Unlock(p)
          /\ opened' = opened /\ storeLock' = storeLock
      BY <1>7, <2>2 DEF ReadLegacy
    <3>2. storeLock' = p /\ \A q \in Proc : at[q] \in Locked => storeLock' = q
      BY <3>1 DEF Locks, Locked
    <3> QED
      BY <3>1, <3>2, Unlocking DEF Where, Holding, Migrating
  <2> QED
    BY <2>1, <2>2
<1>8. ASSUME NEW p \in Proc, WriteMerged(p) PROVE Locks'
  <2>1. CASE store.state # "invalid"
    BY <1>8, <2>1
       DEF WriteMerged, SetAside, Unlock, MoveTo, StoreTypeOK, Places, Locks, Locked, Holding,
           Migrating
  <2>2. CASE store.state = "invalid"
    <3> DEFINE place == IF p \in Saver THEN "load" ELSE "failed"
    <3>1. /\ at[p] = "merge" /\ MoveTo(p, place) /\ Unlock(p) /\ opened' = opened
          /\ storeLock' = IF p \in Saver THEN storeLock ELSE Nil
      BY <1>8, <2>2 DEF WriteMerged, SetAside
    <3>2. storeLock = p /\ \A q \in Proc : at[q] \in Locked => storeLock = q
      BY <3>1 DEF Locks, Locked
    <3>3. place \in Where \ Holding /\ (place \in Locked => p \in Saver)
      BY DEF Where, Holding, Migrating, Locked
    <3> HIDE DEF place
    <3> QED
      BY <3>1, <3>2, <3>3, Unlocking
  <2> QED
    BY <2>1, <2>2
<1>9. ASSUME NEW p \in Proc, RemoveMigrated(p) PROVE Locks'
  BY <1>9, ResultsStoreAssumption
     DEF RemoveMigrated, Unlock, MoveTo, StoreTypeOK, Places, Locks, Locked, Holding, Migrating
<1>10. ASSUME NEW p \in Proc, UnlinkLock(p) PROVE Locks'
  BY <1>10, ResultsStoreAssumption
     DEF UnlinkLock, MoveTo, StoreTypeOK, Places, Locks, Locked, Holding, Migrating
<1>11. ASSUME NEW p \in Proc, ReadStore(p) PROVE Locks'
  BY <1>11, ResultsStoreAssumption
     DEF ReadStore, SetAside, MoveTo, StoreTypeOK, Places, Locks, Locked, Holding, Migrating
<1>12. ASSUME NEW p \in Proc, WriteStore(p) PROVE Locks'
  BY <1>12, ResultsStoreAssumption
     DEF WriteStore, MoveTo, StoreTypeOK, Places, Locks, Locked, Holding, Migrating
<1>13. ASSUME NEW p \in Proc, OldOpens(p) PROVE Locks'
  BY <1>13, ResultsStoreAssumption
     DEF OldOpens, MoveTo, StoreTypeOK, Places, Locks, Locked, Holding, Migrating
<1>14. ASSUME NEW p \in Proc, OldReads(p) PROVE Locks'
  BY <1>14, ResultsStoreAssumption
     DEF OldReads, MoveTo, LegacyFree, StoreTypeOK, Places, Locks, Locked, Holding, Migrating
<1>15. ASSUME NEW p \in Proc, OldWrites(p) PROVE Locks'
  BY <1>15, ResultsStoreAssumption
     DEF OldWrites, Unlock, MoveTo, StoreTypeOK, Places, Locks, Locked, Holding, Migrating
<1>16. ASSUME NEW p \in Proc, Die(p) PROVE Locks'
  BY <1>16, ResultsStoreAssumption
     DEF Die, Unlock, MoveTo, StoreTypeOK, Places, Locks, Locked, Holding, Migrating
<1>17. ASSUME Damage PROVE Locks'
  BY <1>17 DEF Damage, Locks
<1> QED
  BY <1>1, <1>2, <1>3, <1>4, <1>5, <1>6, <1>7, <1>8, <1>9, <1>10, <1>11, <1>12, <1>13, <1>14,
     <1>15, <1>16, <1>17
     DEF StoreNext, Step

\* Nobody writes the legacy file while it is migrated
LEMMA Excludes ==
  ASSUME Locks, Inodes, NEW p \in Proc, NEW q \in Proc, at[p] \in Migrating, at[q] = "old_write"
  PROVE  FALSE
<1>1. holds[p] /\ holds[q]
  BY DEF Locks, Holding
<1>2. opened[p] = inode /\ legacyStore # Absent
  BY DEF Inodes
<1>3. opened[q] = inode
  BY <1>2 DEF Inodes
<1>4. p = q
  BY <1>1, <1>2, <1>3 DEF Locks
<1> QED
  BY <1>4 DEF Migrating

\* A step that leaves the legacy file and the lock files alone
LEMMA InodesQuiet ==
  ASSUME StoreTypeOK, Inodes, NEW p \in Proc, NEW place \in Where, MoveTo(p, place),
         legacyStore' = legacyStore, inode' = inode, opened' = opened,
         place \notin Early \cup {"unlink"},
         place \in Migrating \cup {"legacy_lock"} => at[p] \in Migrating
  PROVE  Inodes'
<1>1. at'[p] = place /\ \A q \in Proc : q # p => at'[q] = at[q]
  BY DEF MoveTo, StoreTypeOK
<1>2. \A q \in Old : q \in Proc /\ (at[q] \notin Early => at'[q] \notin Early)
  BY <1>1 DEF Proc
<1> QED
  BY <1>1, <1>2 DEF Inodes, Early

\* Every step leaves who migrates with the legacy lock that there is
LEMMA InodesStep ==
  ASSUME OneOld, StoreTypeOK, Places, Locks, Inodes, Lists, StoreNext
  PROVE  Inodes'
<1>1. ASSUME NEW p \in Proc, Finalize(p) PROVE Inodes'
  BY <1>1 DEF Finalize, MoveTo, StoreTypeOK, Places, Locks, Inodes, Locked, Migrating, Early
<1>2. ASSUME NEW p \in Proc, QueryStore(p) PROVE Inodes'
  BY <1>2 DEF QueryStore, MoveTo, StoreTypeOK, Places, Locks, Inodes, Locked, Migrating, Early
<1>3. ASSUME NEW p \in Proc, QueryLegacy(p) PROVE Inodes'
  BY <1>3 DEF QueryLegacy, MoveTo, StoreTypeOK, Places, Locks, Inodes, Locked, Migrating, Early
<1>4. ASSUME NEW p \in Proc, LockStore(p) PROVE Inodes'
  BY <1>4 DEF LockStore, MoveTo, StoreTypeOK, Places, Locks, Inodes, Locked, Migrating, Early
<1>5. ASSUME NEW p \in Proc, Load(p) PROVE Inodes'
  BY <1>5 DEF Load, MoveTo, StoreTypeOK, Places, Locks, Inodes, Locked, Migrating, Early
<1>6. ASSUME NEW p \in Proc, LockLegacy(p) PROVE Inodes'
  BY <1>6 DEF LockLegacy, MoveTo, StoreTypeOK, Places, Locks, Inodes, Locked, Migrating, Early
<1>7. ASSUME NEW p \in Proc, ReadLegacy(p) PROVE Inodes'
  <2>1. CASE legacyStore.state = "ok"
    BY <1>7, <2>1, InodesQuiet DEF ReadLegacy, Where, Early, Migrating
  <2>2. CASE legacyStore.state # "ok"
    <3>1. /\ at[p] = "migrate" /\ MoveTo(p, "read") /\ legacyStore' = Absent
          /\ opened' = opened /\ inode' = inode
      BY <1>7, <2>2 DEF ReadLegacy
    <3>2. at'[p] = "read" /\ \A q \in Proc : q # p => at'[q] = at[q] /\ at[q] \notin Locked
      BY <3>1 DEF MoveTo, StoreTypeOK, Locks, Locked
    <3> QED
      BY <3>1, <3>2 DEF Inodes, Locked, Migrating
  <2> QED
    BY <2>1, <2>2
<1>8. ASSUME NEW p \in Proc, WriteMerged(p) PROVE Inodes'
  <2> DEFINE place == IF store.state # "invalid" THEN "remove"
                      ELSE IF p \in Saver THEN "load" ELSE "failed"
  <2>1. /\ at[p] = "merge" /\ MoveTo(p, place)
        /\ legacyStore' = legacyStore /\ opened' = opened /\ inode' = inode
    BY <1>8 DEF WriteMerged, SetAside
  <2> QED
    BY <2>1, InodesQuiet DEF Where, Early, Migrating
<1>9. ASSUME NEW p \in Proc, RemoveMigrated(p) PROVE Inodes'
  BY <1>9
     DEF RemoveMigrated, MoveTo, StoreTypeOK, Places, Locks, Inodes, Locked, Migrating, Early
<1>10. ASSUME NEW p \in Proc, UnlinkLock(p) PROVE Inodes'
  BY <1>10 DEF UnlinkLock, MoveTo, StoreTypeOK, Places, Locks, Inodes, Locked, Migrating, Early
<1>11. ASSUME NEW p \in Proc, ReadStore(p) PROVE Inodes'
  <2>1. /\ \E place \in {"load", "failed", "done", "write"} : MoveTo(p, place)
        /\ legacyStore' = legacyStore /\ opened' = opened /\ inode' = inode
    BY <1>11 DEF ReadStore, SetAside
  <2> QED
    BY <2>1, InodesQuiet DEF Where, Early, Migrating
<1>12. ASSUME NEW p \in Proc, WriteStore(p) PROVE Inodes'
  <2>1. /\ \E place \in {"failed", "done"} : MoveTo(p, place)
        /\ legacyStore' = legacyStore /\ opened' = opened /\ inode' = inode
    BY <1>12 DEF WriteStore
  <2> QED
    BY <2>1, InodesQuiet DEF Where, Early, Migrating
<1>13. ASSUME NEW p \in Proc, OldOpens(p) PROVE Inodes'
  BY <1>13 DEF OldOpens, MoveTo, StoreTypeOK, Places, Locks, Inodes, Locked, Migrating, Early
<1>14. ASSUME NEW p \in Proc, OldReads(p) PROVE Inodes'
  BY <1>14 DEF OldReads, MoveTo, StoreTypeOK, Places, Locks, Inodes, Locked, Migrating, Early
<1>15. ASSUME NEW p \in Proc, OldWrites(p) PROVE Inodes'
  <2>1. /\ at[p] = "old_write" /\ legacyStore' # Absent /\ inode' = inode /\ opened' = opened
        /\ MoveTo(p, "done")
    BY <1>15 DEF OldWrites, File, Absent
  <2>2. at'[p] = "done" /\ \A q \in Proc : q # p => at'[q] = at[q]
    BY <2>1 DEF MoveTo, StoreTypeOK
  <2>3. p \in Old /\ \A q \in Old : q = p
    BY <2>1 DEF Places, OneOld
  <2>4. \A q \in Proc : at'[q] \notin {"old_lock", "old_write"}
    BY <2>2, <2>3 DEF Places
  <2>5. \A q \in Old : at'[q] \notin Early
    BY <2>2, <2>3 DEF Early
  <2>6. \A q \in Proc : at'[q] \in Migrating \cup {"legacy_lock"} => opened'[q] = inode'
    BY <2>1, <2>2 DEF Inodes, Migrating
  <2> QED
    BY <2>1, <2>4, <2>5, <2>6 DEF Inodes
<1>16. ASSUME NEW p \in Proc, Die(p) PROVE Inodes'
  BY <1>16 DEF Die, MoveTo, StoreTypeOK, Places, Locks, Inodes, Locked, Migrating, Early
<1>17. ASSUME Damage PROVE Inodes'
  BY <1>17 DEF Damage, Inodes, Absent, Invalid
<1> QED
  BY <1>1, <1>2, <1>3, <1>4, <1>5, <1>6, <1>7, <1>8, <1>9, <1>10, <1>11, <1>12, <1>13, <1>14,
     <1>15, <1>16, <1>17
     DEF StoreNext, Step

-----------------------------------------------------------------------------
(* What becomes of the files *)

\* How the store changes
LEMMA StoreChanges ==
  ASSUME StoreNext
  PROVE  \/ store' = store
         \/ store' = Absent /\ store.state = "invalid"
         \/ store' = Invalid /\ lost' = lost \cup Range(store.runs)
         \/ \E p \in Proc : /\ at[p] = "merge" /\ MoveTo(p, "remove")
                            /\ store' = File(Merge(mem[p], store.runs))
                            /\ saves' = saves /\ finishedAt' = finishedAt /\ lost' = lost
         \/ \E p \in Proc : /\ at[p] = "write" /\ MoveTo(p, "done") /\ store' = File(Appended(p))
                            /\ saves' = Append(saves, p)
                            /\ finishedAt' = finishedAt /\ lost' = lost
BY DEF StoreNext, Step, Finalize, QueryStore, QueryLegacy, LockStore, Load, LockLegacy,
       ReadLegacy, WriteMerged, SetAside, RemoveMigrated, UnlinkLock, ReadStore, WriteStore,
       OldOpens, OldReads, OldWrites, Die, Damage

\* How the legacy file changes
LEMMA LegacyChanges ==
  ASSUME StoreNext
  PROVE  \/ legacyStore' = legacyStore
         \/ legacyStore' = Absent /\ legacyStore.state # "ok"
         \/ legacyStore' = Absent /\ \E p \in Proc : at[p] = "remove"
         \/ legacyStore' = Invalid /\ lost' = lost \cup Range(legacyStore.runs)
         \/ \E p \in Proc : /\ at[p] = "old_write" /\ MoveTo(p, "done")
                            /\ legacyStore' = File(Appended(p))
                            /\ saves' = Append(saves, p)
                            /\ finishedAt' = finishedAt /\ lost' = lost
BY DEF StoreNext, Step, Finalize, QueryStore, QueryLegacy, LockStore, Load, LockLegacy,
       ReadLegacy, WriteMerged, SetAside, RemoveMigrated, UnlinkLock, ReadStore, WriteStore,
       OldOpens, OldReads, OldWrites, Die, Damage

\* What a process has read is what was in a file
LEMMA MemoryChanges ==
  ASSUME StoreTypeOK, StoreNext, NEW p \in Proc
  PROVE  /\ mem'[p] \in {mem[p], store.runs, legacyStore.runs}
         /\ at'[p] = "merge" => \/ at[p] = "merge" /\ mem'[p] = mem[p]
                                \/ /\ legacyStore.state = "ok" /\ mem'[p] = legacyStore.runs
                                   /\ legacyStore' = legacyStore
         /\ at'[p] = "old_write" => \/ at[p] = "old_write" /\ mem'[p] = mem[p]
                                    \/ mem'[p] = legacyStore.runs /\ legacyStore' = legacyStore
         /\ at'[p] = "write" => \/ at[p] = "write" /\ mem'[p] = mem[p]
                                \/ mem'[p] = store.runs /\ store' = store
         /\ p \in Reader => due'[p] = due[p] \/ (due'[p] = Range(saves) /\ QueryStore(p))
<1>1. CASE Damage
  BY <1>1 DEF Damage
<1>2. ASSUME Finalize(p) \/ Step(p) \/ Die(p)
      PROVE  /\ mem'[p] \in {mem[p], store.runs, legacyStore.runs}
             /\ p \in Reader => due'[p] = due[p] \/ (due'[p] = Range(saves) /\ QueryStore(p))
  BY <1>2
     DEF Step, Finalize, QueryStore, QueryLegacy, LockStore, Load, LockLegacy, ReadLegacy,
         WriteMerged, SetAside, RemoveMigrated, UnlinkLock, ReadStore, WriteStore, OldOpens,
         OldReads, OldWrites, Die, Damage, StoreTypeOK
<1>3. ASSUME Finalize(p) \/ Step(p) \/ Die(p), at'[p] = "merge"
      PROVE  legacyStore.state = "ok" /\ mem'[p] = legacyStore.runs /\ legacyStore' = legacyStore
  BY <1>3
     DEF Step, Finalize, QueryStore, QueryLegacy, LockStore, Load, LockLegacy, ReadLegacy,
         WriteMerged, SetAside, RemoveMigrated, UnlinkLock, ReadStore, WriteStore, OldOpens,
         OldReads, OldWrites, Die, Damage, MoveTo, StoreTypeOK
<1>4. ASSUME Finalize(p) \/ Step(p) \/ Die(p), at'[p] = "old_write"
      PROVE  mem'[p] = legacyStore.runs /\ legacyStore' = legacyStore
  BY <1>4
     DEF Step, Finalize, QueryStore, QueryLegacy, LockStore, Load, LockLegacy, ReadLegacy,
         WriteMerged, SetAside, RemoveMigrated, UnlinkLock, ReadStore, WriteStore, OldOpens,
         OldReads, OldWrites, Die, Damage, MoveTo, StoreTypeOK
<1>5. ASSUME Finalize(p) \/ Step(p) \/ Die(p), at'[p] = "write"
      PROVE  mem'[p] = store.runs /\ store' = store
  BY <1>5
     DEF Step, Finalize, QueryStore, QueryLegacy, LockStore, Load, LockLegacy, ReadLegacy,
         WriteMerged, SetAside, RemoveMigrated, UnlinkLock, ReadStore, WriteStore, OldOpens,
         OldReads, OldWrites, Die, Damage, MoveTo, StoreTypeOK
<1> QED
  BY <1>1, <1>2, <1>3, <1>4, <1>5, Moving

\* Every step leaves in the files and in memory runs that were saved
LEMMA ListsStep ==
  ASSUME StoreTypeOK, Places, Lists, StoreNext
  PROVE  Lists'
<1>1. \A x : Listed(x, saves, finishedAt) => Listed(x, saves', finishedAt')
  BY SavesGrow, StoreTypes, GrownLists DEF StoreTypeOK
<1>2. \A s, f : Listed(<<>>, s, f)
  <2>1. <<>> \in Seq(Run) /\ Range(<<>>) = {} /\ DOMAIN <<>> = {}
    BY DEF Range
  <2> QED
    BY <2>1 DEF Listed, IsInjective
<1>3. /\ Absent.runs = <<>> /\ Absent.state = "absent"
      /\ Invalid.runs = <<>> /\ Invalid.state = "invalid"
  BY DEF Absent, Invalid
<1>4. \A runs : File(runs).runs = runs /\ File(runs).state = "ok"
  BY DEF File
<1>5. \A p \in Proc : at[p] = "write" => p \in Run /\ at[p] # "done"
  BY DEF Places, Run
<1>6. \A p \in Proc : at[p] = "old_write" => p \in Run /\ at[p] # "done"
  BY DEF Places, Run
<1>7. /\ Len(store'.runs) <= MaxRuns /\ (store'.state # "ok" => store'.runs = <<>>)
      /\ Listed(store'.runs, saves', finishedAt')
  <2>1. CASE store' = store
    BY <1>1, <2>1 DEF Lists
  <2>2. CASE store' \in {Absent, Invalid}
    <3>1. Len(<<>>) <= MaxRuns
      BY ResultsStoreAssumption
    <3> QED
      BY <1>2, <1>3, <2>2, <3>1
  <2>3. ASSUME NEW p \in Proc, at[p] = "merge", store' = File(Merge(mem[p], store.runs))
        PROVE  /\ Len(store'.runs) <= MaxRuns /\ (store'.state # "ok" => store'.runs = <<>>)
               /\ Listed(store'.runs, saves', finishedAt')
    BY <1>1, <1>4, <2>3, MergeWritten
  <2>4. ASSUME NEW p \in Proc, at[p] = "write", store' = File(Appended(p)),
               saves' = Append(saves, p), finishedAt' = finishedAt
        PROVE  /\ Len(store'.runs) <= MaxRuns /\ (store'.state # "ok" => store'.runs = <<>>)
               /\ Listed(store'.runs, saves', finishedAt')
    BY <1>4, <1>5, <2>4, SaveWritten
  <2> QED
    BY <2>1, <2>2, <2>3, <2>4, StoreChanges
<1>8. /\ legacyStore'.state = "ok" <=> legacyStore'.runs # <<>>
      /\ Listed(legacyStore'.runs, saves', finishedAt')
  <2>1. CASE legacyStore' = legacyStore
    BY <1>1, <2>1 DEF Lists
  <2>2. CASE legacyStore' \in {Absent, Invalid}
    BY <1>2, <1>3, <2>2
  <2>3. ASSUME NEW p \in Proc, at[p] = "old_write", legacyStore' = File(Appended(p)),
               saves' = Append(saves, p), finishedAt' = finishedAt
        PROVE  /\ legacyStore'.state = "ok" <=> legacyStore'.runs # <<>>
               /\ Listed(legacyStore'.runs, saves', finishedAt')
    BY <1>4, <1>6, <2>3, SaveWritten
  <2> QED
    BY <2>1, <2>2, <2>3, LegacyChanges
<1>9. ASSUME NEW p \in Proc
      PROVE  Listed(mem'[p], saves', finishedAt') /\ (at'[p] = "merge" => mem'[p] # <<>>)
  <2>1. Listed(mem'[p], saves, finishedAt)
    BY MemoryChanges DEF Lists
  <2>2. at'[p] = "merge" => mem'[p] # <<>>
    BY MemoryChanges DEF Lists
  <2> QED
    BY <1>1, <2>1, <2>2
<1>10. ASSUME NEW p \in Reader PROVE due'[p] \subseteq Range(saves')
  <2>1. p \in Proc
    BY DEF Proc
  <2>2. due'[p] \subseteq Range(saves)
    BY <2>1, MemoryChanges DEF Lists
  <2> QED
    BY <2>2, SavesGrow
<1> QED
  BY <1>7, <1>8, <1>9, <1>10, SavesGrow DEF Lists

\* A run that has made room or is lost stays so
LEMMA StaysGone ==
  ASSUME StoreTypeOK, Places, Lists, StoreNext, NEW r \in Range(saves),
         Gone(saves, finishedAt, lost, r)
  PROVE  Gone(saves', finishedAt', lost', r)
<1>1. saves' \in Seq(Run)
  BY StoreTypes DEF StoreTypeOK
<1>2. Grows(saves, finishedAt, saves', finishedAt') /\ lost \subseteq lost'
  BY SavesGrow
<1>3. \A l, m : l \subseteq m /\ Gone(saves, finishedAt, l, r) => Gone(saves', finishedAt', m, r)
  BY <1>1, <1>2, GrownLists
<1> QED
  BY <1>2, <1>3

\* A run stays in the store, or makes room
LEMMA StoreKept ==
  ASSUME StoreTypeOK, Places, Lists, Carried, StoreNext, NEW r \in Range(saves), InStore(r)
  PROVE  InStore(r)'
<1>1. Gone(saves, finishedAt, lost, r) => Gone(saves', finishedAt', lost', r)
  BY StaysGone
<1> SUFFICES ASSUME r \in Range(store.runs)
             PROVE  r \in Range(store'.runs) \/ Gone(saves', finishedAt', lost', r)
  BY <1>1 DEF InStore
<1>2. \A runs : File(runs).runs = runs
  BY DEF File
<1>3. CASE store' = store
  BY <1>3
<1>4. CASE store.state = "invalid"
  <2>1. store.runs = <<>>
    BY <1>4 DEF Lists
  <2> QED
    BY <2>1 DEF Range
<1>5. CASE lost' = lost \cup Range(store.runs)
  BY <1>5 DEF Gone
<1>6. ASSUME NEW p \in Proc, at[p] = "merge", store' = File(Merge(mem[p], store.runs)),
             saves' = saves, finishedAt' = finishedAt, lost' = lost
      PROVE  r \in Range(store'.runs) \/ Gone(saves', finishedAt', lost', r)
  BY <1>2, <1>6, MergeWritten
<1>7. ASSUME NEW p \in Proc, at[p] = "write", store' = File(Appended(p)),
             saves' = Append(saves, p), finishedAt' = finishedAt, lost' = lost
      PROVE  r \in Range(store'.runs) \/ Gone(saves', finishedAt', lost', r)
  <2>1. p \in Run /\ at[p] # "done"
    BY <1>7 DEF Places, Run
  <2>2. r \in Range(mem[p])
    BY <1>7 DEF Carried
  <2> QED
    BY <1>2, <1>7, <2>1, <2>2, SaveWritten
<1> QED
  BY <1>3, <1>4, <1>5, <1>6, <1>7, StoreChanges

\* A run stays in the legacy file, or it is in the store, or makes room
LEMMA LegacyFileKept ==
  ASSUME StoreTypeOK, Places, Lists, Carried, StoreNext, NEW r \in Range(legacyStore.runs)
  PROVE  r \in Range(legacyStore'.runs) \/ InStore(r)'
<1>1. r \in Range(saves)
  BY DEF Lists, Listed
<1>2. \A runs : File(runs).runs = runs
  BY DEF File
<1>3. CASE legacyStore' = legacyStore
  BY <1>3
<1>4. CASE legacyStore.state # "ok"
  <2>1. legacyStore.runs = <<>>
    BY <1>4 DEF Lists
  <2> QED
    BY <2>1 DEF Range
<1>5. ASSUME NEW p \in Proc, at[p] = "remove"
      PROVE  InStore(r)'
  <2>1. InStore(r)
    BY <1>5 DEF Carried
  <2> QED
    BY <1>1, <2>1, StoreKept
<1>6. CASE lost' = lost \cup Range(legacyStore.runs)
  BY <1>6 DEF InStore, Gone
<1>7. ASSUME NEW p \in Proc, at[p] = "old_write", legacyStore' = File(Appended(p)),
             saves' = Append(saves, p), finishedAt' = finishedAt, lost' = lost
      PROVE  r \in Range(legacyStore'.runs) \/ InStore(r)'
  <2>1. p \in Run /\ at[p] # "done"
    BY <1>7 DEF Places, Run
  <2>2. r \in Range(mem[p])
    BY <1>7 DEF Carried
  <2>3. r \in Range(Appended(p)) \/ Gone(saves', finishedAt', lost', r)
    BY <1>7, <2>1, <2>2, SaveWritten
  <2> QED
    BY <1>2, <1>7, <2>3 DEF InStore
<1> QED
  BY <1>3, <1>4, <1>5, <1>6, <1>7, LegacyChanges

\* The legacy file does not grow while it is migrated, nor the store while one has its lock
LEMMA Owned ==
  ASSUME OneOld, StoreTypeOK, Places, Locks, Inodes, Lists, StoreNext,
         NEW p \in Proc, at'[p] = at[p]
  PROVE  /\ at[p] \in Migrating => Range(legacyStore'.runs) \subseteq Range(legacyStore.runs)
         /\ at[p] = "old_write" => Range(legacyStore'.runs) \subseteq Range(legacyStore.runs)
         /\ at[p] \in Locked => Range(store'.runs) \subseteq Range(store.runs)
<1>1. Range(Absent.runs) = {} /\ Range(Invalid.runs) = {}
  BY DEF Absent, Invalid, Range
<1>2. ASSUME NEW q \in Proc, at[q] = "old_write", MoveTo(q, "done")
      PROVE  at[p] \notin Migrating \cup {"old_write"}
  <2>1. at'[q] = "done"
    BY <1>2 DEF MoveTo, StoreTypeOK
  <2>2. p # q
    BY <1>2, <2>1
  <2>3. at[p] # "old_write"
    BY <1>2, <2>2 DEF Places, OneOld
  <2> QED
    BY <1>2, <2>3, Excludes
<1>3. at[p] \in Migrating \cup {"old_write"} =>
        Range(legacyStore'.runs) \subseteq Range(legacyStore.runs)
  BY <1>1, <1>2, LegacyChanges
<1>4. ASSUME NEW q \in Proc, at[q] \in {"merge", "write"}, NEW place \in {"remove", "done"},
             MoveTo(q, place)
      PROVE  at[p] \notin Locked
  <2>1. at'[q] = place
    BY <1>4 DEF MoveTo, StoreTypeOK
  <2>2. p # q
    BY <1>4, <2>1
  <2> QED
    BY <1>4, <2>2 DEF Locks, Locked
<1>5. at[p] \in Locked => Range(store'.runs) \subseteq Range(store.runs)
  BY <1>1, <1>4, StoreChanges
<1> QED
  BY <1>3, <1>5

\* How a process comes to the places that promise something
LEMMA Arrivals ==
  ASSUME StoreTypeOK, Places, StoreNext, NEW p \in Proc
  PROVE  /\ at'[p] = "remove" => \/ at[p] = "remove"
                                 \/ /\ at[p] = "merge" /\ store' = File(Merge(mem[p], store.runs))
                                    /\ legacyStore' = legacyStore /\ saves' = saves
                                    /\ finishedAt' = finishedAt /\ lost' = lost
         /\ at'[p] \in {"unlink", "read"} =>
              \/ at[p] \in {"unlink", "read", "remove"}
              \/ legacyStore = Absent \/ legacyStore.state # "ok"
         /\ p \in Reader /\ at'[p] = "done" =>
              \/ at[p] = "done" /\ mem'[p] = mem[p]
              \/ at[p] = "read" /\ mem'[p] = store.runs /\ store' = store
         /\ p \in Reader /\ at'[p] \in {"unlink", "read", "done"} => due'[p] = due[p]
<1>1. CASE Damage
  BY <1>1 DEF Damage
<1>2. ASSUME Finalize(p) \/ Step(p) \/ Die(p), at'[p] = "remove"
      PROVE  /\ at[p] = "merge" /\ store' = File(Merge(mem[p], store.runs))
             /\ legacyStore' = legacyStore /\ saves' = saves
             /\ finishedAt' = finishedAt /\ lost' = lost
  BY <1>2
     DEF Step, Finalize, QueryStore, QueryLegacy, LockStore, Load, LockLegacy, ReadLegacy,
         WriteMerged, SetAside, RemoveMigrated, UnlinkLock, ReadStore, WriteStore, OldOpens,
         OldReads, OldWrites, Die, Damage, MoveTo, StoreTypeOK
<1>3. ASSUME Finalize(p) \/ Step(p) \/ Die(p), at'[p] \in {"unlink", "read"}
      PROVE  \/ at[p] \in {"unlink", "read", "remove"}
             \/ legacyStore = Absent \/ legacyStore.state # "ok"
  BY <1>3
     DEF Step, Finalize, QueryStore, QueryLegacy, LockStore, Load, LockLegacy, ReadLegacy,
         WriteMerged, SetAside, RemoveMigrated, UnlinkLock, ReadStore, WriteStore, OldOpens,
         OldReads, OldWrites, Die, Damage, MoveTo, StoreTypeOK
<1>0. p \in Reader => p \notin Saver \cup Old /\ at[p] \notin {"write", "old_write"}
  BY ResultsStoreAssumption DEF Places, Run
<1>4. ASSUME Finalize(p) \/ Step(p) \/ Die(p), at'[p] = "done", p \in Reader
      PROVE  at[p] = "read" /\ mem'[p] = store.runs /\ store' = store
  BY <1>4, <1>0
     DEF Step, Finalize, QueryStore, QueryLegacy, LockStore, Load, LockLegacy, ReadLegacy,
         WriteMerged, SetAside, RemoveMigrated, UnlinkLock, ReadStore, WriteStore, OldOpens,
         OldReads, OldWrites, Die, Damage, MoveTo, StoreTypeOK
<1>5. ASSUME QueryStore(p) PROVE at'[p] \in {"query_legacy", "lock"}
  BY <1>5 DEF QueryStore, MoveTo, StoreTypeOK
<1>6. p \in Reader /\ at'[p] \in {"unlink", "read", "done"} => due'[p] = due[p]
  BY <1>5, MemoryChanges
<1>7. ASSUME NEW q \in Proc, Finalize(q) \/ Step(q) \/ Die(q), q # p
      PROVE  at'[p] = at[p] /\ mem'[p] = mem[p]
  BY <1>7, OthersStay
<1>8. Damage \/ \E q \in Proc : Finalize(q) \/ Step(q) \/ Die(q)
  BY DEF StoreNext
<1>9. ASSUME NEW q \in Proc, Finalize(q) \/ Step(q) \/ Die(q)
      PROVE  /\ at'[p] = "remove" =>
                  \/ at[p] = "remove"
                  \/ /\ at[p] = "merge" /\ store' = File(Merge(mem[p], store.runs))
                     /\ legacyStore' = legacyStore /\ saves' = saves
                     /\ finishedAt' = finishedAt /\ lost' = lost
             /\ at'[p] \in {"unlink", "read"} =>
                  \/ at[p] \in {"unlink", "read", "remove"}
                  \/ legacyStore = Absent \/ legacyStore.state # "ok"
             /\ p \in Reader /\ at'[p] = "done" =>
                  \/ at[p] = "done" /\ mem'[p] = mem[p]
                  \/ at[p] = "read" /\ mem'[p] = store.runs /\ store' = store
  <2>1. CASE q = p
    BY <1>2, <1>3, <1>4, <1>9, <2>1
  <2>2. CASE q # p
    BY <1>7, <1>9, <2>2
  <2> QED
    BY <2>1, <2>2
<1> QED
  BY <1>1, <1>6, <1>8, <1>9

\* Every step leaves who writes with what there is to keep
LEMMA CarriedStep ==
  ASSUME OneOld, StoreIInv, StoreNext
  PROVE  Carried'
<1> SUFFICES ASSUME NEW p \in Proc
             PROVE  /\ at'[p] = "write" => Range(store'.runs) \subseteq Range(mem'[p])
                    /\ at'[p] \in {"merge", "old_write"} =>
                         Range(legacyStore'.runs) \subseteq Range(mem'[p])
                    /\ at'[p] = "remove" => \A r \in Range(legacyStore'.runs) : InStore(r)'
                    /\ at'[p] \in {"unlink", "read"} /\ p \in Reader =>
                         \A r \in due'[p] : InStore(r)'
  BY DEF Carried
<1> USE DEF StoreIInv
<1>1. at'[p] = "write" => Range(store'.runs) \subseteq Range(mem'[p])
  <2>1. CASE at[p] = "write" /\ mem'[p] = mem[p]
    BY <2>1, Owned DEF Carried, Locked
  <2> QED
    BY <2>1, MemoryChanges
<1>2. at'[p] \in {"merge", "old_write"} => Range(legacyStore'.runs) \subseteq Range(mem'[p])
  <2>1. CASE at[p] \in {"merge", "old_write"} /\ at'[p] = at[p] /\ mem'[p] = mem[p]
    BY <2>1, Owned DEF Carried, Migrating
  <2> QED
    BY <2>1, MemoryChanges
<1>3. ASSUME at'[p] = "remove" PROVE \A r \in Range(legacyStore'.runs) : InStore(r)'
  <2>1. CASE at[p] = "remove"
    <3>1. Range(legacyStore'.runs) \subseteq Range(legacyStore.runs)
      BY <1>3, <2>1, Owned DEF Migrating
    <3>2. \A r \in Range(legacyStore.runs) : r \in Range(saves) /\ InStore(r)
      BY <2>1 DEF Carried, Lists, Listed
    <3> QED
      BY <3>1, <3>2, StoreKept
  <2>2. CASE at[p] # "remove"
    <3>1. /\ at[p] = "merge" /\ store' = File(Merge(mem[p], store.runs))
          /\ legacyStore' = legacyStore
          /\ saves' = saves /\ finishedAt' = finishedAt /\ lost' = lost
      BY <1>3, <2>2, Arrivals
    <3>2. Range(legacyStore.runs) \subseteq Range(mem[p])
      BY <3>1 DEF Carried
    <3> QED
      BY <3>1, <3>2, MergeWritten DEF InStore, File
  <2> QED
    BY <2>1, <2>2
<1>4. ASSUME at'[p] \in {"unlink", "read"}, p \in Reader, NEW r \in due'[p] PROVE InStore(r)'
  <2>1. r \in due[p] /\ r \in Range(saves)
    BY <1>4, Arrivals DEF Lists
  <2>2. CASE at[p] \in {"unlink", "read"}
    BY <1>4, <2>1, <2>2, StoreKept DEF Carried
  <2>3. CASE at[p] = "remove"
    <3>1. InStore(r)
      BY <2>1, <2>3 DEF StayListed, Carried
    <3> QED
      BY <2>1, <3>1, StoreKept
  <2>4. CASE legacyStore = Absent \/ legacyStore.state # "ok"
    <3>1. Range(legacyStore.runs) = {}
      BY <2>4 DEF Lists, Absent, Range
    <3>2. InStore(r)
      BY <2>1, <3>1 DEF StayListed
    <3> QED
      BY <2>1, <3>2, StoreKept
  <2> QED
    BY <1>4, <2>2, <2>3, <2>4, Arrivals
<1> QED
  BY <1>1, <1>2, <1>3, <1>4

\* No step takes a run that was saved out of both files, unless it made room or is lost
LEMMA StayStep ==
  ASSUME OneOld, StoreIInv, StoreNext
  PROVE  StayListed'
<1> USE DEF StoreIInv
<1> SUFFICES ASSUME NEW r \in Range(saves') PROVE InStore(r)' \/ r \in Range(legacyStore'.runs)
  BY DEF StayListed
<1>1. CASE r \in Range(saves)
  <2>1. CASE InStore(r)
    BY <1>1, <2>1, StoreKept
  <2>2. CASE r \in Range(legacyStore.runs)
    BY <2>2, LegacyFileKept
  <2> QED
    BY <1>1, <2>1, <2>2 DEF StayListed
<1>2. CASE r \notin Range(saves)
  <2>1. PICK p \in Proc : r = p /\ (WriteStore(p) \/ OldWrites(p)) /\ at'[p] = "done"
    BY <1>2, SavesGrow
  <2>2. p \in Run /\ at[p] # "done"
    BY <2>1 DEF WriteStore, OldWrites, Places, Run
  <2>3. p \in Range(Appended(p)) /\ File(Appended(p)).runs = Appended(p)
    BY <2>2, SaveWritten DEF File
  <2>4. saves' # saves
    BY <1>2
  <2>5. store' = File(Appended(p)) \/ legacyStore' = File(Appended(p))
    BY <2>1, <2>4 DEF WriteStore, OldWrites
  <2> QED
    BY <2>1, <2>3, <2>5 DEF InStore
<1> QED
  BY <1>1, <1>2

\* No step changes what a query has shown
LEMMA SeenStep ==
  ASSUME OneOld, StoreIInv, StoreNext
  PROVE  Shown'
<1> USE DEF StoreIInv
<1> SUFFICES ASSUME NEW p \in Reader, at'[p] = "done", NEW r \in due'[p]
             PROVE  r \in Range(mem'[p]) \/ Gone(saves', finishedAt', lost', r)
  BY DEF Shown
<1>1. p \in Proc
  BY DEF Proc
<1>2. r \in due[p] /\ r \in Range(saves)
  BY <1>1, Arrivals DEF Lists
<1>3. CASE at[p] = "done" /\ mem'[p] = mem[p]
  BY <1>2, <1>3, StaysGone DEF Shown
<1>4. CASE at[p] = "read" /\ mem'[p] = store.runs /\ store' = store
  <2>1. InStore(r)'
    BY <1>1, <1>2, <1>4, StoreKept DEF Carried
  <2> QED
    BY <1>4, <2>1 DEF InStore
<1> QED
  BY <1>1, <1>3, <1>4, Arrivals

\* Before the first step the files are as an older simmer left them
LEMMA StoreInitially ==
  ASSUME StoreInit
  PROVE  StoreIInv
<1> USE DEF StoreInit
<1>1. \A s, f : Listed(<<>>, s, f)
  <2>1. <<>> \in Seq(Run) /\ Range(<<>>) = {} /\ DOMAIN <<>> = {}
    BY DEF Range
  <2> QED
    BY <2>1 DEF Listed, IsInjective
<1>2. /\ legacyStore \in StoreFiles /\ saves \in Seq(Run) /\ IsInjective(saves)
      /\ Listed(legacyStore.runs, saves, finishedAt)
      /\ (legacyStore.state = "ok" <=> legacyStore.runs # <<>>)
      /\ Range(saves) \subseteq Past /\ legacyStore.runs = saves
  <2>1. CASE legacyStore = Absent /\ saves = <<>>
    BY <1>1, <2>1, FileTypes DEF Absent, IsInjective, Range
  <2>2. ASSUME NEW r \in Past, legacyStore = File(<<r>>), saves = <<r>>
        PROVE  /\ legacyStore \in StoreFiles /\ saves \in Seq(Run) /\ IsInjective(saves)
               /\ Listed(legacyStore.runs, saves, finishedAt)
               /\ (legacyStore.state = "ok" <=> legacyStore.runs # <<>>)
               /\ Range(saves) \subseteq Past /\ legacyStore.runs = saves
    <3>1. /\ <<r>> \in Seq(Run) /\ <<r>> # <<>> /\ DOMAIN <<r>> = {1} /\ <<r>>[1] = r
      BY DEF Run
    <3>2. IsInjective(<<r>>) /\ Range(<<r>>) = {r}
      BY <3>1 DEF IsInjective, Range
    <3>3. Listed(<<r>>, <<r>>, finishedAt)
      BY <3>1, <3>2 DEF Listed
    <3>4. File(<<r>>) \in StoreFiles /\ File(<<r>>).runs = <<r>> /\ File(<<r>>).state = "ok"
      BY <3>1, FileTypes DEF File
    <3> QED
      BY <2>2, <3>1, <3>2, <3>3, <3>4
  <2> QED
    BY <2>1, <2>2
<1>3. /\ store.runs = <<>> /\ store.state # "ok" /\ Len(<<>>) <= MaxRuns /\ <<>> \in Seq(Run)
      /\ \A p \in Proc : at[p] = "idle" /\ ~holds[p] /\ mem[p] = <<>>
      /\ \A p \in Reader : due[p] = {}
  BY ResultsStoreAssumption DEF Absent, Proc
<1>4. StoreTypeOK
  BY <1>2, <1>3, FileTypes, ResultsStoreAssumption DEF StoreTypeOK, Where
<1>5. \A p \in Proc : p \notin Range(saves)
  BY <1>2, ResultsStoreAssumption
<1>6. Places /\ Locks /\ Inodes
  BY <1>3, <1>5 DEF Places, Locks, Inodes, Locked, Holding, Migrating
<1>7. Lists
  BY <1>1, <1>2, <1>3 DEF Lists
<1>8. Carried /\ StayListed /\ Shown
  BY <1>2, <1>3 DEF Carried, StayListed, Shown, Proc
<1> QED
  BY <1>4, <1>6, <1>7, <1>8 DEF StoreIInv

\* With at most one older simmer every reachable state satisfies the inductive invariant of
\* the history file
THEOREM StoreInductive == ASSUME OneOld PROVE StoreSpec => []StoreIInv
<1>1. StoreIInv /\ UNCHANGED storeVars => StoreIInv'
  BY DEF StoreIInv, storeVars, StoreTypeOK, Places, Locks, Inodes, Lists, Carried, StayListed,
         Shown, InStore
<1>2. StoreIInv /\ StoreNext => StoreIInv'
  BY StoreTypes, PlacesStep, LocksStep, InodesStep, ListsStep, CarriedStep, StayStep, SeenStep
     DEF StoreIInv
<1>3. StoreInit => StoreIInv
  BY StoreInitially
<1> QED
  BY <1>1, <1>2, <1>3, PTL DEF StoreSpec

\* No run that was saved disappears from the history, each is in the store once, and a history
\* query that has had the lock shows those saved before it: whoever saves, migrates, dies or
\* fails at the same time, with at most one older simmer
THEOREM HistoryKept == ASSUME OneOld PROVE StoreSpec => []HistoryInv
<1>1. \A r : Newer(r) = NewerIn(saves, finishedAt, r)
  BY DEF Newer, NewerIn, Index, Place
<1>2. \A r : Gone(saves, finishedAt, lost, r) => Excused(r)
  BY <1>1 DEF Gone, Excused
<1>3. StoreIInv => HistoryInv
  BY <1>2
     DEF StoreIInv, HistoryInv, Lists, Listed, RunsOnce, StayListed, InStore, SavedRunsStay,
         Shown, LockedQueriesSeeAll
<1> QED
  BY <1>3, StoreInductive, PTL

\* Whatever the processes do, and however many older simmers there are: the store has each run
\* once and no more runs than a file keeps
THEOREM StoredOnce == StoreSpec => [](StoreTypeOK /\ RunsOnce)
<1> DEFINE Inv == StoreTypeOK /\ Places /\ Locks /\ Lists
<1>1. Inv /\ UNCHANGED storeVars => Inv'
  BY DEF storeVars, StoreTypeOK, Places, Locks, Lists
<1>2. Inv /\ StoreNext => Inv'
  BY StoreTypes, PlacesStep, LocksStep, ListsStep
<1>3. StoreInit => Inv
  BY StoreInitially DEF StoreIInv
<1>4. Inv => StoreTypeOK /\ RunsOnce
  BY DEF Lists, Listed, RunsOnce
<1> QED
  BY <1>1, <1>2, <1>3, <1>4, PTL DEF StoreSpec

-----------------------------------------------------------------------------
(* The discovery cache: the inductive invariant *)

USE DiscoveryCacheAssumption

\* Versions only grow: every file is in one state of the inputs at most as new as in the other
UpTo(i, j) == \A f \in 1..Files : i[f] <= j[f]

Running(p) == pc[p] \notin {"ready", "cached", "failed"}

\* The inputs something that was collected is said to be of
Known(i) ==
  \/ \E s \in Scope : cache[s] \notin {None, Unreadable} /\ i = cache[s].inputs
  \/ legacy # None /\ i = legacy.inputs
  \/ \E p \in Process : i \in meta[p]

\* What Bazel has seen lies between the two manifests, as far as the second has been read
Between ==
  \A p \in Process :
    /\ UpTo(current[p], inputs) /\ UpTo(before[p], inputs)
    /\ (pc[p] \notin {"check", "first", "second"} => read[p] = 0)
    /\ \A m \in meta[p] : UpTo(m, inputs)
    /\ (pc[p] \in {"build", "second", "compare"}
          => meta[p] # {} /\ \A m \in meta[p] : UpTo(before[p], m))
    /\ (pc[p] = "second" => \A m \in meta[p] : \A f \in 1..read[p] : m[f] <= current[p][f])
    /\ (pc[p] = "compare" => \A m \in meta[p] : UpTo(m, current[p]))
    /\ (pc[p] \in {"publish", "published", "ready", "migrated", "cached"}
          => meta[p] = {current[p]})

\* What there has been since a process began, and what its first manifest can be
Since ==
  \A p \in Process : Running(p) =>
    /\ inputs \in since[p] /\ meta[p] \subseteq since[p]
    /\ \A i \in since[p] : UpTo(i, inputs)
    /\ \E first \in since[p] :
         /\ \A i \in since[p] : UpTo(first, i)
         /\ (pc[p] = "check" => \A f \in 1..read[p] : first[f] <= current[p][f])
         /\ (pc[p] \in {"lookup", "upgrade"} => UpTo(first, current[p]))

\* What is known is out of date, or was there before a process began, or was there since
Dated ==
  \A i \in Inputs : Known(i) /\ i # Outdated =>
    /\ UpTo(i, inputs)
    /\ \A p \in Process : Running(p) =>
                           i \in since[p] \/ \A j \in since[p] : UpTo(i, j)

\* The legacy files are removed for the scope they are of
LegacyKept ==
  /\ legacy = None => pieces = 0
  /\ \A p \in Process : pc[p] \in {"migrated", "published"} =>
       legacy # None /\ scope[p] = legacy.scope /\ cache[scope[p]] \notin {None, Unreadable}

IInv == DiscoveryInv /\ Between /\ Since /\ Dated /\ LegacyKept
-----------------------------------------------------------------------------
(* Generations and versions *)

\* A generation is neither a missing file nor one of another schema
LEMMA GenerationIs ==
  ASSUME NEW i \in Inputs, NEW m \in SUBSET Inputs
  PROVE  /\ Generation(i, m) \in AnyGeneration
         /\ Generation(i, m) \notin {None, Unreadable}
         /\ Generation(i, m).inputs = i /\ Generation(i, m).meta = m
<1>1. Generation(i, m) \in AnyGeneration /\ Generation(i, m).inputs = i /\ Generation(i, m).meta = m
  BY DEF Generation, AnyGeneration
<1>2. Unreadable.inputs = None
  BY DEF Unreadable
<1> QED
  BY <1>1, <1>2

\* What is there now is not what stands for everything before it
LEMMA InputsNow ==
  ASSUME NEW i \in [1..Files -> 0..MaxEdits]
  PROVE  i \in Inputs /\ i # Outdated
<1>1. \A f \in 1..Files : i[f] \in 0..MaxEdits + 1
  OBVIOUS
<1>2. i \in Inputs
  BY <1>1 DEF Inputs
<1>3. 1 \in 1..Files /\ i[1] # MaxEdits + 1
  OBVIOUS
<1>4. Outdated[1] = MaxEdits + 1
  BY <1>3 DEF Outdated
<1> QED
  BY <1>2, <1>3, <1>4

\* ... at any time
LEMMA InputsAreInputs ==
  ASSUME TypeOK
  PROVE  inputs \in Inputs /\ inputs # Outdated
BY InputsNow DEF TypeOK

\* A manifest that is taken is that of a generation, not of an unreadable file
LEMMA TakenIsGeneration ==
  ASSUME TypeOK, GenerationsCoherent, NEW p \in Process, NEW s \in Scope, cache[s] # None,
         Taken(p, cache[s])
  PROVE  /\ cache[s] \in AnyGeneration /\ cache[s] \notin {None, Unreadable}
         /\ cache[s].inputs = current[p] /\ cache[s].meta = {current[p]}
<1>1. cache[s].inputs = current[p] /\ current[p] \in Inputs
  BY DEF Taken, TypeOK
<1>2. Unreadable.inputs = None
  BY DEF Unreadable
<1>3. cache[s] # Unreadable
  BY <1>1, <1>2
<1> QED
  BY <1>1, <1>3 DEF TypeOK, GenerationsCoherent

\* Being at most as new is an order
LEMMA UpToTrans ==
  ASSUME NEW i \in Inputs, NEW j \in Inputs, NEW k \in Inputs, UpTo(i, j), UpTo(j, k)
  PROVE  UpTo(i, k)
<1>1. ASSUME NEW f \in 1..Files PROVE i[f] <= k[f]
  BY DEF UpTo, Inputs
<1> QED
  BY <1>1 DEF UpTo

LEMMA UpToRefl ==
  ASSUME NEW i \in Inputs
  PROVE  UpTo(i, i)
BY DEF UpTo, Inputs

LEMMA UpToAntisym ==
  ASSUME NEW i \in Inputs, NEW j \in Inputs, UpTo(i, j), UpTo(j, i)
  PROVE  i = j
<1>1. ASSUME NEW f \in 1..Files PROVE i[f] = j[f]
  BY DEF UpTo, Inputs
<1> QED
  BY <1>1 DEF Inputs

\* An edit only makes files newer
LEMMA EditGrows ==
  ASSUME TypeOK, ~Reverting, NEW f \in 1..Files, Edit(f)
  PROVE  inputs' \in [1..Files -> 0..MaxEdits] /\ inputs' \in Inputs /\ UpTo(inputs, inputs')
<1>1. inputs[f] < MaxEdits /\ inputs' = [inputs EXCEPT ![f] = inputs[f] + 1]
  BY DEF Edit
<1>2. inputs \in [1..Files -> 0..MaxEdits]
  BY DEF TypeOK
<1>3. inputs' \in [1..Files -> 0..MaxEdits]
  BY <1>1, <1>2
<1>4. UpTo(inputs, inputs')
  BY <1>1, <1>2 DEF UpTo
<1> QED
  BY <1>3, <1>4, InputsNow

-----------------------------------------------------------------------------
(* Types *)

\* Every step keeps the types
LEMMA TypeStep ==
  ASSUME TypeOK, GenerationsCoherent, ~Reverting, Next \/ UNCHANGED vars
  PROVE  TypeOK'
<1>1. ASSUME NEW p \in Process, Begin(p) PROVE TypeOK'
  BY <1>1 DEF Begin, Goto, file, own, TypeOK
<1>2. ASSUME NEW p \in Process, ReadManifestFile(p) PROVE TypeOK'
  <2>1. read[p] + 1 \in 1..Files /\ read' = [read EXCEPT ![p] = read[p] + 1]
    BY <1>2 DEF ReadManifestFile, TypeOK
  <2>2. current' = [current EXCEPT ![p][read[p] + 1] = inputs[read[p] + 1]]
    BY <1>2 DEF ReadManifestFile
  <2>3. inputs[read[p] + 1] \in 0..MaxEdits + 1
    BY <2>1 DEF TypeOK
  <2>4. current' \in [Process -> Inputs]
    BY <2>1, <2>2, <2>3 DEF TypeOK, Inputs
  <2> QED
    BY <1>2, <2>1, <2>4 DEF ReadManifestFile, TypeOK, file
<1>3. ASSUME NEW p \in Process, ManifestRead(p) PROVE TypeOK'
  BY <1>3 DEF ManifestRead, After, Goto, file, TypeOK
<1>4. ASSUME NEW p \in Process, ReadShared(p) PROVE TypeOK'
  <2>1. meta' \in [Process -> SUBSET Inputs]
    <3>1. CASE cache[scope[p]] # None /\ Taken(p, cache[scope[p]])
      <4>1. meta' = [meta EXCEPT ![p] = cache[scope[p]].meta] /\ scope[p] \in Scope
        BY <1>4, <3>1 DEF ReadShared, Judge, TypeOK
      <4>2. cache[scope[p]].meta \in SUBSET Inputs
        BY <3>1, <4>1, TakenIsGeneration DEF AnyGeneration
      <4> QED
        BY <4>1, <4>2 DEF TypeOK
    <3>2. CASE ~(cache[scope[p]] # None /\ Taken(p, cache[scope[p]]))
      BY <1>4, <3>2 DEF ReadShared, Judge, TypeOK
    <3> QED
      BY <3>1, <3>2
  <2>2. \E l \in {"upgrade", "cached", "miss"} : pc' = [pc EXCEPT ![p] = l]
    BY <1>4 DEF ReadShared, Judge, Goto
  <2> QED
    BY <1>4, <2>1, <2>2 DEF ReadShared, TypeOK, file
<1>5. ASSUME NEW p \in Process, ReadExclusive(p) PROVE TypeOK'
  <2>1. scope[p] \in Scope
    BY DEF TypeOK
  <2>2. CASE cache[scope[p]] # None /\ Judge(p, cache[scope[p]]) /\ UNCHANGED <<lock, cache>>
    <3>1. meta' \in [Process -> SUBSET Inputs]
      <4>1. CASE Taken(p, cache[scope[p]])
        <5>1. meta' = [meta EXCEPT ![p] = cache[scope[p]].meta]
          BY <2>2, <4>1 DEF Judge
        <5>2. cache[scope[p]].meta \in SUBSET Inputs
          BY <2>1, <2>2, <4>1, TakenIsGeneration DEF AnyGeneration
        <5> QED
          BY <5>1, <5>2 DEF TypeOK
      <4>2. CASE ~Taken(p, cache[scope[p]])
        BY <2>2, <4>2 DEF Judge, TypeOK
      <4> QED
        BY <4>1, <4>2
    <3>2. \E l \in {"cached", "miss"} : pc' = [pc EXCEPT ![p] = l]
      BY <2>2 DEF Judge, Goto
    <3> QED
      BY <1>5, <2>2, <3>1, <3>2 DEF ReadExclusive, TypeOK
  <2>3. CASE Goto(p, "miss") /\ UNCHANGED <<meta, lock, cache>>
    BY <1>5, <2>3 DEF ReadExclusive, TypeOK, Goto
  <2>4. CASE /\ CanMigrate(p)
             /\ cache' = [cache EXCEPT ![scope[p]] = Generation(legacy.inputs, {legacy.inputs})]
             /\ meta' = [meta EXCEPT ![p] = {legacy.inputs}]
             /\ lock' = p /\ Goto(p, "migrated")
    <3>1. legacy.inputs = current[p] /\ current[p] \in Inputs
      BY <2>4 DEF CanMigrate, TypeOK
    <3>2. cache' \in [Scope -> {None, Unreadable} \cup AnyGeneration]
      BY <2>1, <2>4, <3>1, GenerationIs DEF TypeOK
    <3>3. meta' \in [Process -> SUBSET Inputs]
      BY <2>4, <3>1 DEF TypeOK
    <3> QED
      BY <1>5, <2>4, <3>2, <3>3 DEF ReadExclusive, TypeOK, Goto
  <2> QED
    BY <1>5, <2>2, <2>3, <2>4 DEF ReadExclusive
<1>6. ASSUME NEW p \in Process, Migrated(p) PROVE TypeOK'
  <2>1. pieces' \in 0..LegacyFiles
    BY <1>6 DEF Migrated, RemoveLegacy, TypeOK, LegacyFiles
  <2>2. lock' \in {lock, None} /\ (pc' = pc \/ pc' = [pc EXCEPT ![p] = "cached"])
    BY <1>6 DEF Migrated, RemoveLegacy, Goto
  <2>3. UNCHANGED <<inputs, cache, legacy, scope, own, since, crashes>>
    BY <1>6 DEF Migrated, RemoveLegacy
  <2> QED
    BY <2>1, <2>2, <2>3 DEF TypeOK, own
<1>7. ASSUME NEW p \in Process, Miss(p) PROVE TypeOK'
  BY <1>7 DEF Miss, Goto, file, own, TypeOK
<1>8. ASSUME NEW p \in Process, Query(p) PROVE TypeOK'
  <2>1. meta' = meta \/ meta' = [meta EXCEPT ![p] = {inputs}]
    BY <1>8 DEF Query
  <2>2. meta' \in [Process -> SUBSET Inputs]
    <3>1. meta \in [Process -> SUBSET Inputs]
      BY DEF TypeOK
    <3> QED
      BY <2>1, <3>1, InputsAreInputs
  <2>3. \E l \in {"build", "failed"} : pc' = [pc EXCEPT ![p] = l]
    BY <1>8 DEF Query, Goto
  <2> QED
    BY <1>8, <2>2, <2>3 DEF Query, TypeOK, file
<1>9. ASSUME NEW p \in Process, Build(p) PROVE TypeOK'
  <2>1. meta' = meta \/ meta' = [meta EXCEPT ![p] = meta[p] \cup {inputs}]
    BY <1>9 DEF Build
  <2>2. meta' \in [Process -> SUBSET Inputs]
    <3>1. meta \in [Process -> SUBSET Inputs]
      BY DEF TypeOK
    <3> QED
      BY <2>1, <3>1, InputsAreInputs
  <2>3. \E l \in {"second", "failed"} : pc' = [pc EXCEPT ![p] = l]
    BY <1>9 DEF Build, Goto
  <2> QED
    BY <1>9, <2>2, <2>3 DEF Build, TypeOK, file
<1>10. ASSUME NEW p \in Process, Compare(p) PROVE TypeOK'
  <2>1. \/ attempt' = attempt
        \/ (attempt[p] < Retries /\ attempt' = [attempt EXCEPT ![p] = attempt[p] + 1])
    BY <1>10 DEF Compare
  <2>2. \E l \in {"publish", "first", "failed"} : pc' = [pc EXCEPT ![p] = l]
    BY <1>10 DEF Compare, Goto
  <2>3. attempt' \in [Process -> 0..Retries]
    <3>1. attempt \in [Process -> 0..Retries]
      BY DEF TypeOK
    <3>2. CASE attempt' = attempt
      BY <3>1, <3>2
    <3>3. CASE attempt[p] < Retries /\ attempt' = [attempt EXCEPT ![p] = attempt[p] + 1]
      BY <3>1, <3>3
    <3> QED
      BY <2>1, <3>2, <3>3
  <2> QED
    BY <1>10, <2>2, <2>3 DEF Compare, TypeOK, file
<1>11. ASSUME NEW p \in Process, Publish(p) PROVE TypeOK'
  <2>1. scope[p] \in Scope /\ current[p] \in Inputs /\ meta[p] \in SUBSET Inputs
    BY DEF TypeOK
  <2>2. cache' \in [Scope -> {None, Unreadable} \cup AnyGeneration]
    <3>1. cache' = cache \/ cache' = [cache EXCEPT ![scope[p]] = Generation(current[p], meta[p])]
      BY <1>11 DEF Publish
    <3>2. Generation(current[p], meta[p]) \in AnyGeneration
      BY <2>1, GenerationIs
    <3>3. cache \in [Scope -> {None, Unreadable} \cup AnyGeneration]
      BY DEF TypeOK
    <3> QED
      BY <2>1, <3>1, <3>2, <3>3
  <2>3. /\ lock' \in {lock, p}
        /\ \E l \in {"published", "ready", "failed"} : pc' = [pc EXCEPT ![p] = l]
    BY <1>11 DEF Publish, Goto
  <2> QED
    BY <1>11, <2>2, <2>3 DEF Publish, TypeOK, own
<1>12. ASSUME NEW p \in Process, Published(p) PROVE TypeOK'
  <2>1. pieces' \in 0..LegacyFiles
    BY <1>12 DEF Published, RemoveLegacy, TypeOK, LegacyFiles
  <2>2. lock' \in {lock, None} /\ (pc' = pc \/ pc' = [pc EXCEPT ![p] = "ready"])
    BY <1>12 DEF Published, RemoveLegacy, Goto
  <2>3. UNCHANGED <<inputs, cache, legacy, scope, own, since, crashes>>
    BY <1>12 DEF Published, RemoveLegacy
  <2> QED
    BY <2>1, <2>2, <2>3 DEF TypeOK, own
<1>13. ASSUME NEW p \in Process, Crash(p) PROVE TypeOK'
  <2>1. Nothing \in Inputs /\ crashes' \in 0..MaxCrashes
    BY <1>13 DEF Crash, Nothing, Inputs, TypeOK
  <2> QED
    BY <1>13, <2>1 DEF Crash, Goto, TypeOK, file
<1>14. ASSUME NEW f \in 1..Files, Edit(f) PROVE TypeOK'
  <2>1. inputs' \in [1..Files -> 0..MaxEdits] /\ inputs' \in Inputs
    BY <1>14, EditGrows
  <2>2. since' \in [Process -> SUBSET Inputs]
    BY <1>14, <2>1 DEF Edit, TypeOK
  <2> QED
    BY <1>14, <2>1, <2>2 DEF Edit, TypeOK, file, own
<1>15. CASE UNCHANGED vars
  BY <1>15 DEF vars, file, own, TypeOK
<1> QED
  BY <1>1, <1>2, <1>3, <1>4, <1>5, <1>6, <1>7, <1>8, <1>9, <1>10, <1>11, <1>12, <1>13, <1>14,
     <1>15 DEF Next, Discover

-----------------------------------------------------------------------------
(* What is known, and what there was *)

\* What a process makes of a generation: nothing, or it takes what it is of
LEMMA JudgedMeta ==
  ASSUME TypeOK, GenerationsCoherent, NEW p \in Process, cache[scope[p]] # None,
         Judge(p, cache[scope[p]])
  PROVE  \/ pc' = [pc EXCEPT ![p] = "miss"] /\ meta' = meta
         \/ /\ pc' = [pc EXCEPT ![p] = "cached"] /\ meta' = [meta EXCEPT ![p] = {current[p]}]
            /\ cache[scope[p]] \notin {None, Unreadable} /\ cache[scope[p]].inputs = current[p]
<1>1. scope[p] \in Scope
  BY DEF TypeOK
<1>2. CASE Taken(p, cache[scope[p]])
  BY <1>1, <1>2, TakenIsGeneration DEF Judge, Goto
<1>3. CASE ~Taken(p, cache[scope[p]])
  BY <1>3 DEF Judge, Goto
<1> QED
  BY <1>2, <1>3

\* Inputs become known when Bazel sees them, and at no edit
LEMMA KnownStep ==
  ASSUME TypeOK, GenerationsCoherent, Between, LegacyKept, Next \/ UNCHANGED vars,
         NEW i \in Inputs, Known(i)'
  PROVE  Known(i) \/ (i = inputs /\ inputs' = inputs)
<1>1. ASSUME NEW p \in Process, Begin(p)
      PROVE  Known(i) \/ (i = inputs /\ inputs' = inputs)
  BY <1>1 DEF Begin, Known, file, own, TypeOK
<1>2. ASSUME NEW p \in Process, ReadManifestFile(p)
      PROVE  Known(i) \/ (i = inputs /\ inputs' = inputs)
  BY <1>2 DEF ReadManifestFile, Known, file, TypeOK
<1>3. ASSUME NEW p \in Process, ManifestRead(p)
      PROVE  Known(i) \/ (i = inputs /\ inputs' = inputs)
  BY <1>3 DEF ManifestRead, After, Known, file, TypeOK
<1>4. ASSUME NEW p \in Process, ReadShared(p)
      PROVE  Known(i) \/ (i = inputs /\ inputs' = inputs)
  <2>1. CASE UNCHANGED meta
    BY <1>4, <2>1 DEF ReadShared, Known, file
  <2>2. CASE cache[scope[p]] # None /\ Judge(p, cache[scope[p]])
    <3>1. \/ meta' = meta
          \/ /\ meta' = [meta EXCEPT ![p] = {current[p]}] /\ scope[p] \in Scope
             /\ cache[scope[p]] \notin {None, Unreadable} /\ cache[scope[p]].inputs = current[p]
      BY <2>2, JudgedMeta DEF TypeOK
    <3>2. UNCHANGED <<inputs, file>>
      BY <1>4 DEF ReadShared
    <3>3. meta \in [Process -> SUBSET Inputs]
      BY DEF TypeOK
    <3>4. ASSUME NEW q \in Process, i \in meta'[q]
          PROVE  Known(i)
      <4>1. i \in meta[q] \/ (i = current[p] /\ \E s \in Scope :
              cache[s] \notin {None, Unreadable} /\ cache[s].inputs = current[p])
        BY <3>1, <3>3, <3>4
      <4> QED
        BY <4>1 DEF Known
    <3> QED
      BY <3>2, <3>4 DEF Known, file
  <2> QED
    BY <1>4, <2>1, <2>2 DEF ReadShared
<1>5. ASSUME NEW p \in Process, ReadExclusive(p)
      PROVE  Known(i) \/ (i = inputs /\ inputs' = inputs)
  <2>1. CASE UNCHANGED <<meta, lock, cache>>
    BY <1>5, <2>1 DEF ReadExclusive, Known
  <2>2. CASE cache[scope[p]] # None /\ Judge(p, cache[scope[p]]) /\ UNCHANGED <<lock, cache>>
    <3>1. \/ meta' = meta
          \/ /\ meta' = [meta EXCEPT ![p] = {current[p]}] /\ scope[p] \in Scope
             /\ cache[scope[p]] \notin {None, Unreadable} /\ cache[scope[p]].inputs = current[p]
      BY <2>2, JudgedMeta DEF TypeOK
    <3>2. UNCHANGED <<inputs, cache, legacy>>
      BY <1>5, <2>2 DEF ReadExclusive
    <3>3. meta \in [Process -> SUBSET Inputs]
      BY DEF TypeOK
    <3>4. ASSUME NEW q \in Process, i \in meta'[q]
          PROVE  Known(i)
      <4>1. i \in meta[q] \/ (i = current[p] /\ \E s \in Scope :
              cache[s] \notin {None, Unreadable} /\ cache[s].inputs = current[p])
        BY <3>1, <3>3, <3>4
      <4> QED
        BY <4>1 DEF Known
    <3> QED
      BY <3>2, <3>4 DEF Known
  <2>3. CASE /\ CanMigrate(p)
             /\ cache' = [cache EXCEPT ![scope[p]] = Generation(legacy.inputs, {legacy.inputs})]
             /\ meta' = [meta EXCEPT ![p] = {legacy.inputs}]
    <3>1. legacy # None
      BY <2>3 DEF CanMigrate, HaveLegacy, LegacyFiles, LegacyKept
    <3>2. Generation(legacy.inputs, {legacy.inputs}).inputs = legacy.inputs
      BY DEF Generation
    <3>3. UNCHANGED <<inputs, legacy>>
      BY <1>5 DEF ReadExclusive
    <3> QED
      BY <2>3, <3>1, <3>2, <3>3 DEF Known, TypeOK
  <2> QED
    BY <1>5, <2>1, <2>2, <2>3 DEF ReadExclusive
<1>6. ASSUME NEW p \in Process, Migrated(p)
      PROVE  Known(i) \/ (i = inputs /\ inputs' = inputs)
  BY <1>6 DEF Migrated, RemoveLegacy, Known, own, TypeOK
<1>7. ASSUME NEW p \in Process, Miss(p)
      PROVE  Known(i) \/ (i = inputs /\ inputs' = inputs)
  BY <1>7 DEF Miss, Known, file, own, TypeOK
<1>8. ASSUME NEW p \in Process, Query(p)
      PROVE  Known(i) \/ (i = inputs /\ inputs' = inputs)
  <2>1. \A q \in Process : meta'[q] \subseteq meta[q] \cup {inputs}
    BY <1>8 DEF Query, TypeOK
  <2>2. UNCHANGED <<inputs, file>>
    BY <1>8 DEF Query
  <2> QED
    BY <2>1, <2>2 DEF Known, file
<1>9. ASSUME NEW p \in Process, Build(p)
      PROVE  Known(i) \/ (i = inputs /\ inputs' = inputs)
  <2>1. \A q \in Process : meta'[q] \subseteq meta[q] \cup {inputs}
    BY <1>9 DEF Build, TypeOK
  <2>2. UNCHANGED <<inputs, file>>
    BY <1>9 DEF Build
  <2> QED
    BY <2>1, <2>2 DEF Known, file
<1>10. ASSUME NEW p \in Process, Compare(p)
      PROVE  Known(i) \/ (i = inputs /\ inputs' = inputs)
  BY <1>10 DEF Compare, Known, file, TypeOK
<1>11. ASSUME NEW p \in Process, Publish(p)
      PROVE  Known(i) \/ (i = inputs /\ inputs' = inputs)
  <2>1. CASE cache' = cache
    BY <1>11, <2>1 DEF Publish, Known, own
  <2>2. CASE cache' = [cache EXCEPT ![scope[p]] = Generation(current[p], meta[p])]
    <3>1. meta[p] = {current[p]}
      BY <1>11 DEF Publish, Between
    <3>2. Generation(current[p], meta[p]).inputs = current[p]
      BY DEF Generation
    <3>3. UNCHANGED <<inputs, legacy, meta>>
      BY <1>11 DEF Publish, own
    <3> QED
      BY <2>2, <3>1, <3>2, <3>3 DEF Known, TypeOK
  <2> QED
    BY <1>11, <2>1, <2>2 DEF Publish
<1>12. ASSUME NEW p \in Process, Published(p)
      PROVE  Known(i) \/ (i = inputs /\ inputs' = inputs)
  BY <1>12 DEF Published, RemoveLegacy, Known, own, TypeOK
<1>13. ASSUME NEW p \in Process, Crash(p)
      PROVE  Known(i) \/ (i = inputs /\ inputs' = inputs)
  BY <1>13 DEF Crash, Known, file, TypeOK
<1>14. ASSUME NEW f \in 1..Files, Edit(f)
      PROVE  Known(i) \/ (i = inputs /\ inputs' = inputs)
  BY <1>14 DEF Edit, Known, file, own, TypeOK
<1>15. CASE UNCHANGED vars
  BY <1>15 DEF vars, file, own, Known
<1> QED
  BY <1>1, <1>2, <1>3, <1>4, <1>5, <1>6, <1>7, <1>8, <1>9, <1>10, <1>11, <1>12, <1>13, <1>14,
     <1>15 DEF Next, Discover

\* A step makes nothing known that was not there, and an edit leaves it behind
LEMMA DatedStep ==
  ASSUME TypeOK, TypeOK', GenerationsCoherent, Between, LegacyKept, Since, Dated, ~Reverting,
         Next \/ UNCHANGED vars
  PROVE  Dated'
<1>1. inputs \in Inputs /\ inputs' \in Inputs
  BY InputsNow DEF TypeOK
<1>2. CASE inputs' = inputs
  <2>1. \A p \in Process : Running(p)' => Running(p) /\ since'[p] = since[p]
    <3>1. ASSUME NEW q \in Process, Discover(q) \/ Crash(q)
          PROVE  since' = since /\ \A p \in Process : Running(p)' => Running(p)
      <4>1. since' = since /\ Running(q) /\ \A p \in Process : p # q => pc'[p] = pc[p]
        BY <3>1 DEF Discover, Begin, ReadManifestFile, ManifestRead, ReadShared, ReadExclusive,
           Judge, Migrated, RemoveLegacy, Miss, Query, Build, Compare, Publish, Published,
           Crash, own,
           Goto, Running, TypeOK
      <4> QED
        BY <4>1 DEF Running
    <3>2. ASSUME NEW f \in 1..Files, Edit(f)
          PROVE  FALSE
      <4>1. inputs'[f] = inputs[f] + 1
        BY <3>2 DEF Edit, TypeOK
      <4> QED
        BY <1>2, <4>1 DEF TypeOK
    <3>3. CASE UNCHANGED vars
      BY <3>3 DEF vars, Running
    <3> QED
      BY <3>1, <3>2, <3>3 DEF Next
  <2> SUFFICES ASSUME NEW i \in Inputs, Known(i)', i # Outdated
               PROVE  /\ UpTo(i, inputs)
                      /\ \A p \in Process : Running(p) =>
                           i \in since[p] \/ \A j \in since[p] : UpTo(i, j)
    BY <1>2, <2>1 DEF Dated
  <2>2. CASE Known(i)
    BY <2>2 DEF Dated
  <2>3. CASE i = inputs
    BY <1>1, <2>3, UpToRefl DEF Since
  <2> QED
    BY <2>2, <2>3, KnownStep
<1>3. CASE inputs' # inputs
  <2>1. PICK f \in 1..Files : Edit(f)
    BY <1>3 DEF Next, vars, Discover, Begin, ReadManifestFile, ManifestRead, ReadShared,
       ReadExclusive, Migrated, RemoveLegacy, Miss, Query, Build, Compare, Publish, Published,
       Crash
  <2>2. UpTo(inputs, inputs')
    BY <2>1, EditGrows
  <2>3. pc' = pc /\ \A p \in Process : Running(p) => since'[p] = since[p] \cup {inputs'}
    BY <2>1 DEF Edit, Running
  <2> SUFFICES ASSUME NEW i \in Inputs, Known(i)', i # Outdated
               PROVE  /\ UpTo(i, inputs')
                      /\ \A p \in Process : Running(p) =>
                           i \in since'[p] \/ \A j \in since'[p] : UpTo(i, j)
    BY <2>3 DEF Dated, Running
  <2>4. Known(i)
    BY <1>3, KnownStep
  <2>5. UpTo(i, inputs) /\ UpTo(i, inputs')
    BY <1>1, <2>2, <2>4, UpToTrans DEF Dated
  <2> QED
    BY <2>3, <2>4, <2>5 DEF Dated
<1> QED
  BY <1>2, <1>3

-----------------------------------------------------------------------------
(* The legacy generation *)

\* The legacy files are only removed under the lock, after the file of their scope was written
LEMMA LegacyStep ==
  ASSUME TypeOK, GenerationsCoherent, LegacyKept, LegacySuperseded, Next \/ UNCHANGED vars
  PROVE  LegacyKept' /\ LegacySuperseded'
<1>1. ASSUME NEW p \in Process, Begin(p) PROVE LegacyKept' /\ LegacySuperseded'
  BY <1>1 DEF Begin, HaveLegacy, LegacyFiles, Goto, file, own, TypeOK, LegacyKept,
         LegacySuperseded
<1>2. ASSUME NEW p \in Process, ReadManifestFile(p) PROVE LegacyKept' /\ LegacySuperseded'
  BY <1>2 DEF ReadManifestFile, HaveLegacy, LegacyFiles, file, TypeOK, LegacyKept,
         LegacySuperseded
<1>3. ASSUME NEW p \in Process, ManifestRead(p) PROVE LegacyKept' /\ LegacySuperseded'
  BY <1>3 DEF ManifestRead, After, HaveLegacy, LegacyFiles, Goto, file, TypeOK, LegacyKept,
         LegacySuperseded
<1>4. ASSUME NEW p \in Process, ReadShared(p) PROVE LegacyKept' /\ LegacySuperseded'
  BY <1>4 DEF ReadShared, Judge, HaveLegacy, LegacyFiles, Goto, file, TypeOK, LegacyKept,
         LegacySuperseded
<1>5. ASSUME NEW p \in Process, ReadExclusive(p) PROVE LegacyKept' /\ LegacySuperseded'
  <2>1. \/ UNCHANGED cache /\ pc' \in {[pc EXCEPT ![p] = "miss"], [pc EXCEPT ![p] = "cached"]}
        \/ /\ CanMigrate(p) /\ pc' = [pc EXCEPT ![p] = "migrated"]
           /\ cache' = [cache EXCEPT ![scope[p]] = Generation(legacy.inputs, {legacy.inputs})]
    BY <1>5 DEF ReadExclusive, Judge, Goto
  <2>2. UNCHANGED <<legacy, pieces, scope>>
    BY <1>5 DEF ReadExclusive
  <2>3. CASE UNCHANGED cache /\ pc' \in {[pc EXCEPT ![p] = "miss"], [pc EXCEPT ![p] = "cached"]}
    BY <2>2, <2>3 DEF HaveLegacy, TypeOK, LegacyKept, LegacySuperseded
  <2>4. CASE /\ CanMigrate(p) /\ pc' = [pc EXCEPT ![p] = "migrated"]
             /\ cache' = [cache EXCEPT ![scope[p]] = Generation(legacy.inputs, {legacy.inputs})]
    <3>1. legacy # None /\ legacy.scope = scope[p] /\ legacy.inputs \in Inputs
      BY <2>4 DEF CanMigrate, HaveLegacy, LegacyFiles, LegacyKept, TypeOK
    <3>2. Generation(legacy.inputs, {legacy.inputs}) \notin {None, Unreadable}
      BY <3>1, GenerationIs
    <3>3. \A s \in Scope : cache'[s] \notin {None, Unreadable}
                             \/ (s # scope[p] /\ cache'[s] = cache[s])
      BY <2>4, <3>2 DEF TypeOK
    <3>4. cache'[scope[p]] \notin {None, Unreadable}
      BY <3>3 DEF TypeOK
    <3>5. \A q \in Process :
            scope[q] \in Scope /\ (pc'[q] = pc[q] \/ (q = p /\ pc'[q] = "migrated"))
      BY <2>4 DEF TypeOK
    <3> QED
      BY <2>2, <3>1, <3>3, <3>4, <3>5 DEF HaveLegacy, LegacyKept, LegacySuperseded
  <2> QED
    BY <2>1, <2>3, <2>4
<1>6. ASSUME NEW p \in Process, Migrated(p) PROVE LegacyKept' /\ LegacySuperseded'
  <2>1. legacy # None /\ cache[legacy.scope] \notin {None, Unreadable}
    BY <1>6 DEF Migrated, LegacyKept
  <2>2. UNCHANGED <<cache, legacy, scope>> /\ (pc' = pc \/ pc' = [pc EXCEPT ![p] = "cached"])
    BY <1>6 DEF Migrated, RemoveLegacy, Goto
  <2> QED
    BY <2>1, <2>2 DEF TypeOK, LegacyKept, LegacySuperseded
<1>7. ASSUME NEW p \in Process, Miss(p) PROVE LegacyKept' /\ LegacySuperseded'
  BY <1>7 DEF Miss, HaveLegacy, LegacyFiles, Goto, file, own, TypeOK, LegacyKept,
         LegacySuperseded
<1>8. ASSUME NEW p \in Process, Query(p) PROVE LegacyKept' /\ LegacySuperseded'
  BY <1>8 DEF Query, HaveLegacy, LegacyFiles, Goto, file, TypeOK, LegacyKept, LegacySuperseded
<1>9. ASSUME NEW p \in Process, Build(p) PROVE LegacyKept' /\ LegacySuperseded'
  BY <1>9 DEF Build, HaveLegacy, LegacyFiles, Goto, file, TypeOK, LegacyKept, LegacySuperseded
<1>10. ASSUME NEW p \in Process, Compare(p) PROVE LegacyKept' /\ LegacySuperseded'
  BY <1>10 DEF Compare, HaveLegacy, LegacyFiles, Goto, file, TypeOK, LegacyKept,
         LegacySuperseded
<1>11. ASSUME NEW p \in Process, Publish(p) PROVE LegacyKept' /\ LegacySuperseded'
  <2>1. UNCHANGED <<legacy, pieces, scope>> /\ scope[p] \in Scope
    BY <1>11 DEF Publish, own, TypeOK
  <2>2. CASE UNCHANGED cache /\ Goto(p, "failed")
    BY <2>1, <2>2 DEF HaveLegacy, Goto, TypeOK, LegacyKept, LegacySuperseded
  <2>3. CASE /\ cache' = [cache EXCEPT ![scope[p]] = Generation(current[p], meta[p])]
             /\ \/ Superseded(p) /\ Goto(p, "published")
                \/ Goto(p, "ready")
    <3>1. Generation(current[p], meta[p]) \notin {None, Unreadable}
      BY GenerationIs DEF TypeOK
    <3>2. \A s \in Scope : cache'[s] \notin {None, Unreadable}
                             \/ (s # scope[p] /\ cache'[s] = cache[s])
      BY <2>3, <3>1 DEF TypeOK
    <3>3. Superseded(p) => legacy # None /\ legacy.scope = scope[p]
      BY DEF Superseded, HaveLegacy, LegacyFiles, LegacyKept
    <3>4. \A q \in Process :
            /\ scope[q] \in Scope
            /\ \/ pc'[q] = pc[q] \/ (q = p /\ pc'[q] = "ready")
               \/ q = p /\ pc'[q] = "published" /\ Superseded(p)
      BY <2>3 DEF Goto, TypeOK
    <3>5. legacy # None => legacy.scope \in Scope
      BY DEF TypeOK
    <3> QED
      BY <2>1, <3>2, <3>3, <3>4, <3>5 DEF HaveLegacy, LegacyKept, LegacySuperseded
  <2> QED
    BY <1>11, <2>2, <2>3 DEF Publish
<1>12. ASSUME NEW p \in Process, Published(p) PROVE LegacyKept' /\ LegacySuperseded'
  <2>1. legacy # None /\ cache[legacy.scope] \notin {None, Unreadable}
    BY <1>12 DEF Published, LegacyKept
  <2>2. UNCHANGED <<cache, legacy, scope>> /\ (pc' = pc \/ pc' = [pc EXCEPT ![p] = "ready"])
    BY <1>12 DEF Published, RemoveLegacy, Goto
  <2> QED
    BY <2>1, <2>2 DEF TypeOK, LegacyKept, LegacySuperseded
<1>13. ASSUME NEW p \in Process, Crash(p) PROVE LegacyKept' /\ LegacySuperseded'
  BY <1>13 DEF Crash, HaveLegacy, LegacyFiles, Goto, file, TypeOK, LegacyKept, LegacySuperseded
<1>14. ASSUME NEW f \in 1..Files, Edit(f) PROVE LegacyKept' /\ LegacySuperseded'
  BY <1>14 DEF Edit, file, HaveLegacy, LegacyKept, LegacySuperseded
<1>15. CASE UNCHANGED vars
  BY <1>15 DEF vars, file, HaveLegacy, LegacyKept, LegacySuperseded
<1> QED
  BY <1>1, <1>2, <1>3, <1>4, <1>5, <1>6, <1>7, <1>8, <1>9, <1>10, <1>11, <1>12, <1>13, <1>14,
     <1>15 DEF Next, Discover

-----------------------------------------------------------------------------
(* The two manifests *)

\* What is published was collected from one state of the inputs
LEMMA CoherentStep ==
  ASSUME TypeOK, GenerationsCoherent, Between, Next \/ UNCHANGED vars
  PROVE  GenerationsCoherent'
<1>1. ASSUME NEW p \in Process, Begin(p) PROVE GenerationsCoherent'
  BY <1>1 DEF Begin, file, GenerationsCoherent
<1>2. ASSUME NEW p \in Process, ReadManifestFile(p) PROVE GenerationsCoherent'
  BY <1>2 DEF ReadManifestFile, file, GenerationsCoherent
<1>3. ASSUME NEW p \in Process, ManifestRead(p) PROVE GenerationsCoherent'
  BY <1>3 DEF ManifestRead, file, GenerationsCoherent
<1>4. ASSUME NEW p \in Process, ReadShared(p) PROVE GenerationsCoherent'
  BY <1>4 DEF ReadShared, file, GenerationsCoherent
<1>5. ASSUME NEW p \in Process, ReadExclusive(p) PROVE GenerationsCoherent'
  <2>1. \/ UNCHANGED cache
        \/ cache' = [cache EXCEPT ![scope[p]] = Generation(legacy.inputs, {legacy.inputs})]
    BY <1>5 DEF ReadExclusive
  <2>2. /\ Generation(legacy.inputs, {legacy.inputs}).inputs = legacy.inputs
        /\ Generation(legacy.inputs, {legacy.inputs}).meta = {legacy.inputs}
    BY DEF Generation
  <2> QED
    BY <2>1, <2>2 DEF TypeOK, GenerationsCoherent
<1>6. ASSUME NEW p \in Process, Migrated(p) PROVE GenerationsCoherent'
  BY <1>6 DEF Migrated, RemoveLegacy, GenerationsCoherent
<1>7. ASSUME NEW p \in Process, Miss(p) PROVE GenerationsCoherent'
  BY <1>7 DEF Miss, file, GenerationsCoherent
<1>8. ASSUME NEW p \in Process, Query(p) PROVE GenerationsCoherent'
  BY <1>8 DEF Query, file, GenerationsCoherent
<1>9. ASSUME NEW p \in Process, Build(p) PROVE GenerationsCoherent'
  BY <1>9 DEF Build, file, GenerationsCoherent
<1>10. ASSUME NEW p \in Process, Compare(p) PROVE GenerationsCoherent'
  BY <1>10 DEF Compare, file, GenerationsCoherent
<1>11. ASSUME NEW p \in Process, Publish(p) PROVE GenerationsCoherent'
  <2>1. cache' = cache \/ cache' = [cache EXCEPT ![scope[p]] = Generation(current[p], meta[p])]
    BY <1>11 DEF Publish
  <2>2. /\ Generation(current[p], meta[p]).inputs = current[p]
        /\ Generation(current[p], meta[p]).meta = {current[p]}
    BY <1>11 DEF Publish, Between, Generation
  <2> QED
    BY <2>1, <2>2 DEF TypeOK, GenerationsCoherent
<1>12. ASSUME NEW p \in Process, Published(p) PROVE GenerationsCoherent'
  BY <1>12 DEF Published, RemoveLegacy, GenerationsCoherent
<1>13. ASSUME NEW p \in Process, Crash(p) PROVE GenerationsCoherent'
  BY <1>13 DEF Crash, file, GenerationsCoherent
<1>14. ASSUME NEW f \in 1..Files, Edit(f) PROVE GenerationsCoherent'
  BY <1>14 DEF Edit, file, GenerationsCoherent
<1>15. CASE UNCHANGED vars
  BY <1>15 DEF vars, file, GenerationsCoherent
<1> QED
  BY <1>1, <1>2, <1>3, <1>4, <1>5, <1>6, <1>7, <1>8, <1>9, <1>10, <1>11, <1>12, <1>13, <1>14,
     <1>15 DEF Next, Discover

\* Bazel runs between the two manifests, and versions only grow
LEMMA BetweenStep ==
  ASSUME TypeOK, TypeOK', GenerationsCoherent, Between, ~Reverting, Next \/ UNCHANGED vars
  PROVE  Between'
<1>1. ASSUME NEW p \in Process, Begin(p) PROVE Between'
  BY <1>1 DEF Begin, Goto, file, own, TypeOK, Between
<1>2. ASSUME NEW p \in Process, ReadManifestFile(p) PROVE Between'
  <2>1. read[p] + 1 \in 1..Files /\ read' = [read EXCEPT ![p] = read[p] + 1]
    BY <1>2 DEF ReadManifestFile, TypeOK
  <2>2. current' = [current EXCEPT ![p][read[p] + 1] = inputs[read[p] + 1]]
    BY <1>2 DEF ReadManifestFile
  <2>3. UNCHANGED <<inputs, before, meta, pc>> /\ pc[p] \in {"check", "first", "second"}
    BY <1>2 DEF ReadManifestFile
  <2>4. \A q \in Process \ {p} : current'[q] = current[q] /\ read'[q] = read[q]
    BY <2>1, <2>2 DEF TypeOK
  <2>5. \A f \in 1..Files : current'[p][f] = IF f = read[p] + 1 THEN inputs[f] ELSE current[p][f]
    BY <2>1, <2>2 DEF TypeOK, Inputs
  <2>6. read'[p] = read[p] + 1
    BY <2>1 DEF TypeOK
  <2>7. inputs \in [1..Files -> 0..MaxEdits]
    BY DEF TypeOK
  <2>8. UpTo(current'[p], inputs)
    <3> SUFFICES ASSUME NEW f \in 1..Files PROVE current'[p][f] <= inputs[f]
      BY DEF UpTo
    <3>1. inputs[f] \in Int /\ inputs[f] <= inputs[f]
      BY <2>7
    <3>2. current[p][f] <= inputs[f]
      BY DEF Between, UpTo
    <3> QED
      BY <2>5, <3>1, <3>2
  <2>9. pc[p] = "second" => \A m \in meta[p] : \A f \in 1..read'[p] : m[f] <= current'[p][f]
    <3> SUFFICES ASSUME pc[p] = "second", NEW m \in meta[p], NEW f \in 1..read'[p]
                 PROVE  m[f] <= current'[p][f]
      OBVIOUS
    <3>1. f \in 1..Files /\ (f = read[p] + 1 \/ f \in 1..read[p])
      <4>1. read[p] \in Nat
        BY DEF TypeOK
      <4> QED
        BY <2>1, <2>6, <4>1
    <3>2. UpTo(m, inputs) /\ (f \in 1..read[p] => m[f] <= current[p][f])
      BY DEF Between
    <3> QED
      BY <2>5, <3>1, <3>2 DEF UpTo
  <2> QED
    BY <2>3, <2>4, <2>8, <2>9 DEF Between
<1>3. ASSUME NEW p \in Process, ManifestRead(p) PROVE Between'
  <2>1. UNCHANGED <<inputs, current, meta>> /\ read' = [read EXCEPT ![p] = 0] /\ read[p] = Files
    BY <1>3 DEF ManifestRead
  <2>2. \/ pc[p] = "check" /\ pc' = [pc EXCEPT ![p] = "lookup"] /\ before' = before
        \/ /\ pc[p] = "first" /\ pc' = [pc EXCEPT ![p] = "query"]
           /\ before' = [before EXCEPT ![p] = current[p]]
        \/ pc[p] = "second" /\ pc' = [pc EXCEPT ![p] = "compare"] /\ before' = before
    BY <1>3 DEF ManifestRead, After, Goto
  <2>3. \A q \in Process \ {p} : UNCHANGED <<pc[q], before[q], read[q]>>
    BY <2>1, <2>2 DEF TypeOK
  <2>4. before'[p] \in {before[p], current[p]}
    BY <2>2 DEF TypeOK
  <2>5. \/ pc'[p] \in {"lookup", "query"}
        \/ (pc[p] = "second" /\ pc'[p] = "compare" /\ before'[p] = before[p])
    BY <2>2 DEF TypeOK
  <2>6. read'[p] = 0
    BY <2>1 DEF TypeOK
  <2>7. pc[p] = "second" => \A m \in meta[p] : UpTo(m, current[p])
    BY <2>1 DEF Between, UpTo
  <2>8. UpTo(before'[p], inputs)
    BY <2>4 DEF Between
  <2> QED
    BY <2>1, <2>3, <2>5, <2>6, <2>7, <2>8 DEF Between
<1>4. ASSUME NEW p \in Process, ReadShared(p) PROVE Between'
  <2>1. UNCHANGED <<inputs, current, before, read>> /\ pc[p] = "lookup"
    BY <1>4 DEF ReadShared
  <2>2. \/ \E l \in {"upgrade", "miss"} : pc' = [pc EXCEPT ![p] = l] /\ meta' = meta
        \/ pc' = [pc EXCEPT ![p] = "cached"] /\ meta' = [meta EXCEPT ![p] = {current[p]}]
    BY <1>4, JudgedMeta DEF ReadShared, Goto
  <2>3. \A q \in Process \ {p} : UNCHANGED <<pc[q], meta[q]>>
    BY <2>2 DEF TypeOK
  <2>4. \/ pc'[p] \in {"upgrade", "miss"} /\ meta'[p] = meta[p]
        \/ pc'[p] = "cached" /\ meta'[p] = {current[p]}
    BY <2>2 DEF TypeOK
  <2> QED
    BY <2>1, <2>3, <2>4 DEF Between
<1>5. ASSUME NEW p \in Process, ReadExclusive(p) PROVE Between'
  <2>1. UNCHANGED <<inputs, current, before, read>> /\ pc[p] = "upgrade"
    BY <1>5 DEF ReadExclusive
  <2>2. \/ pc' = [pc EXCEPT ![p] = "miss"] /\ meta' = meta
        \/ \E l \in {"cached", "migrated"} :
             pc' = [pc EXCEPT ![p] = l] /\ meta' = [meta EXCEPT ![p] = {current[p]}]
    BY <1>5, JudgedMeta DEF ReadExclusive, CanMigrate, Goto
  <2>3. \A q \in Process \ {p} : UNCHANGED <<pc[q], meta[q]>>
    BY <2>2 DEF TypeOK
  <2>4. \/ pc'[p] = "miss" /\ meta'[p] = meta[p]
        \/ pc'[p] \in {"cached", "migrated"} /\ meta'[p] = {current[p]}
    BY <2>2 DEF TypeOK
  <2> QED
    BY <2>1, <2>3, <2>4 DEF Between
<1>6. ASSUME NEW p \in Process, Migrated(p) PROVE Between'
  <2>1. UNCHANGED <<inputs, current, before, meta, read>>
    BY <1>6 DEF Migrated, RemoveLegacy, own
  <2>2. pc' = pc \/ (pc[p] = "migrated" /\ pc' = [pc EXCEPT ![p] = "cached"])
    BY <1>6 DEF Migrated, RemoveLegacy, Goto
  <2> QED
    BY <2>1, <2>2 DEF TypeOK, Between
<1>7. ASSUME NEW p \in Process, Miss(p) PROVE Between'
  <2>1. UNCHANGED <<inputs, current, before, meta, read>> /\ pc[p] = "miss"
    BY <1>7 DEF Miss, own
  <2>2. \E l \in {"first", "failed"} : pc' = [pc EXCEPT ![p] = l]
    BY <1>7 DEF Miss, Goto
  <2> QED
    BY <2>1, <2>2 DEF TypeOK, Between
<1>8. ASSUME NEW p \in Process, Query(p) PROVE Between'
  <2>1. UNCHANGED <<inputs, current, before, read>> /\ pc[p] = "query"
    BY <1>8 DEF Query
  <2>2. \/ pc' = [pc EXCEPT ![p] = "failed"] /\ meta' = meta
        \/ pc' = [pc EXCEPT ![p] = "build"] /\ meta' = [meta EXCEPT ![p] = {inputs}]
    BY <1>8 DEF Query, Goto
  <2>3. UpTo(inputs, inputs)
    BY InputsAreInputs, UpToRefl
  <2>4. \A q \in Process \ {p} : UNCHANGED <<pc[q], meta[q]>>
    BY <2>2 DEF TypeOK
  <2>5. CASE pc' = [pc EXCEPT ![p] = "failed"] /\ meta' = meta
    BY <2>1, <2>5 DEF TypeOK, Between
  <2>6. CASE pc' = [pc EXCEPT ![p] = "build"] /\ meta' = [meta EXCEPT ![p] = {inputs}]
    <3>1. pc'[p] = "build" /\ meta'[p] = {inputs}
      BY <2>6 DEF TypeOK
    <3>2. read[p] = 0
      BY <2>1 DEF Between
    <3> QED
      BY <2>1, <2>3, <2>4, <3>1, <3>2 DEF Between
  <2> QED
    BY <2>2, <2>5, <2>6
<1>9. ASSUME NEW p \in Process, Build(p) PROVE Between'
  <2>1. UNCHANGED <<inputs, current, before, read>> /\ pc[p] = "build"
    BY <1>9 DEF Build
  <2>2. \/ pc' = [pc EXCEPT ![p] = "failed"] /\ meta' = meta
        \/ pc' = [pc EXCEPT ![p] = "second"] /\ meta' = [meta EXCEPT ![p] = meta[p] \cup {inputs}]
    BY <1>9 DEF Build, Goto
  <2>3. UpTo(inputs, inputs)
    BY InputsAreInputs, UpToRefl
  <2>4. \A q \in Process \ {p} : UNCHANGED <<pc[q], meta[q]>>
    BY <2>2 DEF TypeOK
  <2>5. CASE pc' = [pc EXCEPT ![p] = "failed"] /\ meta' = meta
    BY <2>1, <2>5 DEF TypeOK, Between
  <2>6. CASE pc' = [pc EXCEPT ![p] = "second"] /\ meta' = [meta EXCEPT ![p] = meta[p] \cup {inputs}]
    <3>1. pc'[p] = "second" /\ meta'[p] = meta[p] \cup {inputs}
      BY <2>6 DEF TypeOK
    <3>2. read[p] = 0
      BY <2>1 DEF Between
    <3> QED
      BY <2>1, <2>3, <2>4, <3>1, <3>2 DEF Between
  <2> QED
    BY <2>2, <2>5, <2>6
<1>10. ASSUME NEW p \in Process, Compare(p) PROVE Between'
  <2>1. UNCHANGED <<inputs, current, before, meta, read>> /\ pc[p] = "compare"
    BY <1>10 DEF Compare
  <2>2. \/ pc' = [pc EXCEPT ![p] = "publish"] /\ current[p] = before[p]
        \/ \E l \in {"first", "failed"} : pc' = [pc EXCEPT ![p] = l]
    BY <1>10 DEF Compare, Goto
  <2>3. current[p] = before[p] => meta[p] = {current[p]}
    <3> SUFFICES ASSUME current[p] = before[p], NEW m \in meta[p]
                 PROVE  m = current[p]
      BY <2>1 DEF Between
    <3>1. UpTo(m, current[p]) /\ UpTo(current[p], m)
      BY <2>1 DEF Between
    <3> QED
      BY <3>1, UpToAntisym DEF TypeOK
  <2>4. \A q \in Process \ {p} : pc'[q] = pc[q]
    BY <2>2 DEF TypeOK
  <2>5. (pc'[p] = "publish" /\ current[p] = before[p]) \/ pc'[p] \in {"first", "failed"}
    BY <2>2 DEF TypeOK
  <2> QED
    BY <2>1, <2>3, <2>4, <2>5 DEF Between
<1>11. ASSUME NEW p \in Process, Publish(p) PROVE Between'
  <2>1. UNCHANGED <<inputs, current, before, meta, read>> /\ pc[p] = "publish"
    BY <1>11 DEF Publish, own
  <2>2. \E l \in {"published", "ready", "failed"} : pc' = [pc EXCEPT ![p] = l]
    BY <1>11 DEF Publish, Goto
  <2> QED
    BY <2>1, <2>2 DEF TypeOK, Between
<1>12. ASSUME NEW p \in Process, Published(p) PROVE Between'
  <2>1. UNCHANGED <<inputs, current, before, meta, read>>
    BY <1>12 DEF Published, RemoveLegacy, own
  <2>2. pc' = pc \/ (pc[p] = "published" /\ pc' = [pc EXCEPT ![p] = "ready"])
    BY <1>12 DEF Published, RemoveLegacy, Goto
  <2> QED
    BY <2>1, <2>2 DEF TypeOK, Between
<1>13. ASSUME NEW p \in Process, Crash(p) PROVE Between'
  <2>1. UpTo(Nothing, inputs)
    BY DEF UpTo, Nothing, TypeOK
  <2> QED
    BY <1>13, <2>1 DEF Crash, Goto, TypeOK, Between
<1>14. ASSUME NEW f \in 1..Files, Edit(f) PROVE Between'
  <2>1. inputs \in Inputs /\ inputs' \in Inputs /\ UpTo(inputs, inputs')
    BY <1>14, EditGrows, InputsAreInputs
  <2>2. \A i \in Inputs : UpTo(i, inputs) => UpTo(i, inputs')
    BY <2>1, UpToTrans
  <2>3. UNCHANGED <<pc, read, current, before, meta>>
    BY <1>14 DEF Edit, own
  <2>4. \A p \in Process : current[p] \in Inputs /\ before[p] \in Inputs /\ meta[p] \subseteq Inputs
    BY DEF TypeOK
  <2> QED
    BY <2>2, <2>3, <2>4 DEF Between
<1>15. CASE UNCHANGED vars
  BY <1>15 DEF vars, own, Between
<1> QED
  BY <1>1, <1>2, <1>3, <1>4, <1>5, <1>6, <1>7, <1>8, <1>9, <1>10, <1>11, <1>12, <1>13, <1>14,
     <1>15 DEF Next, Discover

-----------------------------------------------------------------------------
(* What there was since a process began *)

\* A first manifest that something is known of is of inputs there have been since the process began:
\* it is no older than what there was then, and what is known is no newer unless it came since
LEMMA CurrentIsSince ==
  ASSUME TypeOK, Between, Since, Dated, NEW p \in Process, pc[p] \in {"lookup", "upgrade"},
         Known(current[p])
  PROVE  current[p] \in since[p]
<1>1. current[p] \in Inputs /\ since[p] \subseteq Inputs /\ inputs \in Inputs /\ Running(p)
  BY InputsAreInputs DEF TypeOK, Running
<1>2. UpTo(current[p], inputs)
  BY DEF Between
<1>3. current[p] # Outdated
  <2>1. inputs \in [1..Files -> 0..MaxEdits]
    BY DEF TypeOK
  <2>2. 1 \in 1..Files /\ inputs[1] < MaxEdits + 1
    BY <2>1
  <2>3. current[p][1] <= inputs[1]
    BY <1>2, <2>2 DEF UpTo
  <2>4. Outdated[1] = MaxEdits + 1
    BY <2>2 DEF Outdated
  <2>5. current[p][1] \in 0..MaxEdits + 1
    BY <1>1, <2>2 DEF Inputs
  <2> QED
    BY <2>1, <2>2, <2>3, <2>4, <2>5
<1>4. PICK first \in since[p] : UpTo(first, current[p])
  BY <1>1 DEF Since
<1>5. CASE UpTo(current[p], first)
  BY <1>1, <1>4, <1>5, UpToAntisym
<1> QED
  BY <1>1, <1>3, <1>4, <1>5 DEF Dated

\* A process sees inputs that were there after it began
LEMMA SinceStep ==
  ASSUME TypeOK, TypeOK', GenerationsCoherent, Between, Since, Dated, LegacyKept, ~Reverting,
         Next \/ UNCHANGED vars
  PROVE  Since'
<1>1. ASSUME NEW p \in Process, Begin(p) PROVE Since'
  <2>1. UNCHANGED <<inputs, since, meta, read, current>> /\ pc[p] = "start"
    BY <1>1 DEF Begin, own
  <2>2. \E l \in {"check", "miss"} : pc' = [pc EXCEPT ![p] = l]
    BY <1>1 DEF Begin, Goto
  <2>3. Running(p) /\ read[p] = 0
    BY <2>1 DEF Running, Between
  <2>4. pc'[p] \in {"check", "miss"} /\ \A q \in Process \ {p} : pc'[q] = pc[q]
    BY <2>2 DEF TypeOK
  <2> QED
    BY <2>1, <2>3, <2>4 DEF Since, Running
<1>2. ASSUME NEW p \in Process, ReadManifestFile(p) PROVE Since'
  <2>1. read[p] + 1 \in 1..Files /\ read' = [read EXCEPT ![p] = read[p] + 1]
    BY <1>2 DEF ReadManifestFile, TypeOK
  <2>2. current' = [current EXCEPT ![p][read[p] + 1] = inputs[read[p] + 1]]
    BY <1>2 DEF ReadManifestFile
  <2>3. UNCHANGED <<inputs, since, meta, pc>> /\ pc[p] \in {"check", "first", "second"}
    BY <1>2 DEF ReadManifestFile
  <2>4. \A q \in Process \ {p} : current'[q] = current[q] /\ read'[q] = read[q]
    BY <2>1, <2>2 DEF TypeOK
  <2>5. \A f \in 1..Files : current'[p][f] = IF f = read[p] + 1 THEN inputs[f] ELSE current[p][f]
    BY <2>1, <2>2 DEF TypeOK, Inputs
  <2>6. read'[p] = read[p] + 1 /\ read[p] \in Nat
    BY <2>1 DEF TypeOK
  <2>7. pc[p] = "check" => \E first \in since[p] :
          /\ \A i \in since[p] : UpTo(first, i)
          /\ \A f \in 1..read'[p] : first[f] <= current'[p][f]
    <3> SUFFICES ASSUME pc[p] = "check"
                 PROVE  \E first \in since[p] :
                          /\ \A i \in since[p] : UpTo(first, i)
                          /\ \A f \in 1..read'[p] : first[f] <= current'[p][f]
      OBVIOUS
    <3>1. PICK first \in since[p] :
            /\ \A i \in since[p] : UpTo(first, i)
            /\ \A f \in 1..read[p] : first[f] <= current[p][f]
      BY DEF Since, Running
    <3>2. UpTo(first, inputs)
      BY <3>1 DEF Since, Running
    <3>3. ASSUME NEW f \in 1..read'[p] PROVE first[f] <= current'[p][f]
      <4>1. f \in 1..Files /\ (f = read[p] + 1 \/ f \in 1..read[p])
        BY <2>1, <2>6
      <4> QED
        BY <2>5, <3>1, <3>2, <4>1 DEF UpTo
    <3> QED
      BY <3>1, <3>3
  <2> QED
    BY <2>3, <2>4, <2>7 DEF Since, Running
<1>3. ASSUME NEW p \in Process, ManifestRead(p) PROVE Since'
  <2>1. /\ UNCHANGED <<inputs, since, current, meta>>
        /\ read' = [read EXCEPT ![p] = 0] /\ read[p] = Files
    BY <1>3 DEF ManifestRead
  <2>2. \/ pc[p] = "check" /\ pc' = [pc EXCEPT ![p] = "lookup"]
        \/ \E l \in {"query", "compare"} : pc' = [pc EXCEPT ![p] = l]
    BY <1>3 DEF ManifestRead, After, Goto
  <2>3. \A q \in Process \ {p} : UNCHANGED <<pc[q], read[q]>>
    BY <2>1, <2>2 DEF TypeOK
  <2>4. (pc[p] = "check" /\ pc'[p] = "lookup") \/ pc'[p] \in {"query", "compare"}
    BY <2>2 DEF TypeOK
  <2>5. Running(p)
    BY <1>3 DEF ManifestRead, Running
  <2> QED
    BY <2>1, <2>3, <2>4, <2>5 DEF Since, Running, UpTo
<1>4. ASSUME NEW p \in Process, ReadShared(p) PROVE Since'
  <2>1. UNCHANGED <<inputs, since, current, read>> /\ pc[p] = "lookup"
    BY <1>4 DEF ReadShared
  <2>2. \/ \E l \in {"upgrade", "miss"} : pc' = [pc EXCEPT ![p] = l] /\ meta' = meta
        \/ pc' = [pc EXCEPT ![p] = "cached"] /\ meta' = [meta EXCEPT ![p] = {current[p]}]
    BY <1>4, JudgedMeta DEF ReadShared, Goto
  <2>3. \A q \in Process \ {p} : UNCHANGED <<pc[q], meta[q]>>
    BY <2>2 DEF TypeOK
  <2>4. (pc'[p] \in {"upgrade", "miss"} /\ meta'[p] = meta[p]) \/ pc'[p] = "cached"
    BY <2>2 DEF TypeOK
  <2> QED
    BY <2>1, <2>3, <2>4 DEF Since, Running
<1>5. ASSUME NEW p \in Process, ReadExclusive(p) PROVE Since'
  <2>1. UNCHANGED <<inputs, since, current, read>> /\ pc[p] = "upgrade"
    BY <1>5 DEF ReadExclusive
  <2>2. \/ pc' = [pc EXCEPT ![p] = "miss"] /\ meta' = meta
        \/ pc' = [pc EXCEPT ![p] = "cached"] /\ meta' = [meta EXCEPT ![p] = {current[p]}]
        \/ /\ pc' = [pc EXCEPT ![p] = "migrated"] /\ meta' = [meta EXCEPT ![p] = {current[p]}]
           /\ CanMigrate(p)
    BY <1>5, JudgedMeta DEF ReadExclusive, CanMigrate, Goto
  <2>3. \A q \in Process \ {p} : UNCHANGED <<pc[q], meta[q]>>
    BY <2>2 DEF TypeOK
  <2>4. \/ pc'[p] = "miss" /\ meta'[p] = meta[p]
        \/ pc'[p] = "cached"
        \/ pc'[p] = "migrated" /\ meta'[p] = {current[p]} /\ CanMigrate(p)
    BY <2>2 DEF TypeOK
  <2>5. CanMigrate(p) => Known(current[p])
    BY DEF CanMigrate, HaveLegacy, LegacyFiles, LegacyKept, Known
  <2>6. Known(current[p]) => current[p] \in since[p]
    BY <2>1, CurrentIsSince
  <2> QED
    BY <2>1, <2>3, <2>4, <2>5, <2>6 DEF Since, Running
<1>6. ASSUME NEW p \in Process, Migrated(p) PROVE Since'
  <2>1. UNCHANGED <<inputs, since, meta, read, current>>
    BY <1>6 DEF Migrated, RemoveLegacy, own
  <2>2. pc' = pc \/ pc' = [pc EXCEPT ![p] = "cached"]
    BY <1>6 DEF Migrated, RemoveLegacy, Goto
  <2> QED
    BY <2>1, <2>2 DEF TypeOK, Since, Running
<1>7. ASSUME NEW p \in Process, Miss(p) PROVE Since'
  <2>1. UNCHANGED <<inputs, since, meta, read, current>>
    BY <1>7 DEF Miss, own
  <2>2. \E l \in {"first", "failed"} : pc' = [pc EXCEPT ![p] = l]
    BY <1>7 DEF Miss, Goto
  <2>3. \A q \in Process \ {p} : pc'[q] = pc[q]
    BY <2>2 DEF TypeOK
  <2>4. Running(p) /\ pc'[p] \notin {"check", "lookup", "upgrade"}
    BY <1>7, <2>2 DEF Miss, Running, TypeOK
  <2> QED
    BY <2>1, <2>3, <2>4 DEF Since, Running
<1>8. ASSUME NEW p \in Process, Query(p) PROVE Since'
  <2>1. UNCHANGED <<inputs, since, current, read>> /\ pc[p] = "query"
    BY <1>8 DEF Query
  <2>2. \A q \in Process \ {p} : UNCHANGED <<pc[q], meta[q]>>
    BY <1>8 DEF Query, Goto, TypeOK
  <2>3. pc'[p] = "failed" \/ (pc'[p] = "build" /\ meta'[p] \subseteq meta[p] \cup {inputs})
    BY <1>8 DEF Query, Goto, TypeOK
  <2> QED
    BY <2>1, <2>2, <2>3 DEF Since, Running
<1>9. ASSUME NEW p \in Process, Build(p) PROVE Since'
  <2>1. UNCHANGED <<inputs, since, current, read>> /\ pc[p] = "build"
    BY <1>9 DEF Build
  <2>2. \A q \in Process \ {p} : UNCHANGED <<pc[q], meta[q]>>
    BY <1>9 DEF Build, Goto, TypeOK
  <2>3. pc'[p] = "failed" \/ (pc'[p] = "second" /\ meta'[p] \subseteq meta[p] \cup {inputs})
    BY <1>9 DEF Build, Goto, TypeOK
  <2> QED
    BY <2>1, <2>2, <2>3 DEF Since, Running
<1>10. ASSUME NEW p \in Process, Compare(p) PROVE Since'
  <2>1. UNCHANGED <<inputs, since, meta, read, current>>
    BY <1>10 DEF Compare
  <2>2. \E l \in {"publish", "first", "failed"} : pc' = [pc EXCEPT ![p] = l]
    BY <1>10 DEF Compare, Goto
  <2>3. \A q \in Process \ {p} : pc'[q] = pc[q]
    BY <2>2 DEF TypeOK
  <2>4. Running(p) /\ pc'[p] \notin {"check", "lookup", "upgrade"}
    BY <1>10, <2>2 DEF Compare, Running, TypeOK
  <2> QED
    BY <2>1, <2>3, <2>4 DEF Since, Running
<1>11. ASSUME NEW p \in Process, Publish(p) PROVE Since'
  <2>1. UNCHANGED <<inputs, since, meta, read, current>>
    BY <1>11 DEF Publish, own
  <2>2. \E l \in {"published", "ready", "failed"} : pc' = [pc EXCEPT ![p] = l]
    BY <1>11 DEF Publish, Goto
  <2>3. \A q \in Process \ {p} : pc'[q] = pc[q]
    BY <2>2 DEF TypeOK
  <2>4. Running(p) /\ pc'[p] \notin {"check", "lookup", "upgrade"}
    BY <1>11, <2>2 DEF Publish, Running, TypeOK
  <2> QED
    BY <2>1, <2>3, <2>4 DEF Since, Running
<1>12. ASSUME NEW p \in Process, Published(p) PROVE Since'
  <2>1. UNCHANGED <<inputs, since, meta, read, current>>
    BY <1>12 DEF Published, RemoveLegacy, own
  <2>2. pc' = pc \/ pc' = [pc EXCEPT ![p] = "ready"]
    BY <1>12 DEF Published, RemoveLegacy, Goto
  <2> QED
    BY <2>1, <2>2 DEF TypeOK, Since, Running
<1>13. ASSUME NEW p \in Process, Crash(p) PROVE Since'
  <2>1. UNCHANGED <<inputs, since>> /\ pc'[p] = "failed"
    BY <1>13 DEF Crash, Goto, TypeOK
  <2>2. \A q \in Process \ {p} : UNCHANGED <<pc[q], meta[q], current[q], read[q]>>
    BY <1>13 DEF Crash, Goto, TypeOK
  <2> QED
    BY <2>1, <2>2 DEF Since, Running
<1>14. ASSUME NEW f \in 1..Files, Edit(f) PROVE Since'
  <2>1. inputs \in Inputs /\ inputs' \in Inputs /\ UpTo(inputs, inputs')
    BY <1>14, EditGrows, InputsAreInputs
  <2>2. /\ UNCHANGED <<pc, meta, current, read>>
        /\ \A q \in Process : Running(q) => since'[q] = since[q] \cup {inputs'}
    BY <1>14 DEF Edit, own, Running
  <2>3. \A i \in Inputs : UpTo(i, inputs) => UpTo(i, inputs')
    BY <2>1, UpToTrans
  <2>4. UpTo(inputs', inputs')
    BY <2>1, UpToRefl
  <2> SUFFICES ASSUME NEW q \in Process, Running(q)
               PROVE  /\ inputs' \in since'[q] /\ meta[q] \subseteq since'[q]
                      /\ \A i \in since'[q] : UpTo(i, inputs')
                      /\ \E first \in since'[q] :
                           /\ \A i \in since'[q] : UpTo(first, i)
                           /\ (pc[q] = "check" => \A g \in 1..read[q] : first[g] <= current[q][g])
                           /\ (pc[q] \in {"lookup", "upgrade"} => UpTo(first, current[q]))
    BY <2>2 DEF Since, Running
  <2>5. since[q] \subseteq Inputs
    BY DEF TypeOK
  <2>6. \A i \in since'[q] : UpTo(i, inputs')
    BY <2>2, <2>3, <2>4, <2>5 DEF Since
  <2>7. PICK first \in since[q] :
          /\ \A i \in since[q] : UpTo(first, i)
          /\ (pc[q] = "check" => \A g \in 1..read[q] : first[g] <= current[q][g])
          /\ (pc[q] \in {"lookup", "upgrade"} => UpTo(first, current[q]))
    BY DEF Since
  <2>8. \A i \in since'[q] : UpTo(first, i)
    BY <2>2, <2>3, <2>5, <2>7 DEF Since
  <2> QED
    BY <2>2, <2>6, <2>7, <2>8 DEF Since
<1>15. CASE UNCHANGED vars
  BY <1>15 DEF vars, own, Since, Running
<1> QED
  BY <1>1, <1>2, <1>3, <1>4, <1>5, <1>6, <1>7, <1>8, <1>9, <1>10, <1>11, <1>12, <1>13, <1>14,
     <1>15 DEF Next, Discover

\* A process ends with what it has collected, or with a generation its first manifest fits
LEMMA UsedStep ==
  ASSUME TypeOK, GenerationsCoherent, Between, Since, Dated, LegacyKept, UsedIsCurrent,
         Next \/ UNCHANGED vars
  PROVE  UsedIsCurrent'
<1>1. ASSUME NEW p \in Process, Begin(p) PROVE UsedIsCurrent'
  BY <1>1 DEF Begin, Goto, own, TypeOK, UsedIsCurrent
<1>2. ASSUME NEW p \in Process, ReadManifestFile(p) PROVE UsedIsCurrent'
  BY <1>2 DEF ReadManifestFile, TypeOK, UsedIsCurrent
<1>3. ASSUME NEW p \in Process, ManifestRead(p) PROVE UsedIsCurrent'
  BY <1>3 DEF ManifestRead, After, Goto, TypeOK, UsedIsCurrent
<1>4. ASSUME NEW p \in Process, ReadShared(p) PROVE UsedIsCurrent'
  <2>1. UNCHANGED <<since, scope>> /\ pc[p] = "lookup" /\ scope[p] \in Scope
    BY <1>4 DEF ReadShared, TypeOK
  <2>2. \/ /\ \E l \in {"miss", "upgrade"} : pc' = [pc EXCEPT ![p] = l]
           /\ \A q \in Process \ {p} : meta'[q] = meta[q]
        \/ /\ pc' = [pc EXCEPT ![p] = "cached"] /\ meta' = [meta EXCEPT ![p] = {current[p]}]
           /\ cache[scope[p]] \notin {None, Unreadable} /\ cache[scope[p]].inputs = current[p]
    BY <1>4, JudgedMeta DEF ReadShared, Goto, TypeOK
  <2>3. \A q \in Process \ {p} : UNCHANGED <<pc[q], meta[q]>>
    BY <2>2 DEF TypeOK
  <2>4. \/ pc'[p] \notin {"cached", "ready"}
        \/ meta'[p] = {current[p]} /\ Known(current[p])
    BY <2>1, <2>2 DEF TypeOK, Known
  <2> QED
    BY <2>1, <2>3, <2>4, CurrentIsSince DEF UsedIsCurrent
<1>5. ASSUME NEW p \in Process, ReadExclusive(p) PROVE UsedIsCurrent'
  <2>1. UNCHANGED <<since, scope>> /\ pc[p] = "upgrade" /\ scope[p] \in Scope
    BY <1>5 DEF ReadExclusive, TypeOK
  <2>2. \/ /\ \E l \in {"miss", "migrated"} : pc' = [pc EXCEPT ![p] = l]
           /\ \A q \in Process \ {p} : meta'[q] = meta[q]
        \/ /\ pc' = [pc EXCEPT ![p] = "cached"] /\ meta' = [meta EXCEPT ![p] = {current[p]}]
           /\ cache[scope[p]] \notin {None, Unreadable} /\ cache[scope[p]].inputs = current[p]
    BY <1>5, JudgedMeta DEF ReadExclusive, Goto, TypeOK
  <2>3. \A q \in Process \ {p} : UNCHANGED <<pc[q], meta[q]>>
    BY <2>2 DEF TypeOK
  <2>4. \/ pc'[p] \notin {"cached", "ready"}
        \/ meta'[p] = {current[p]} /\ Known(current[p])
    BY <2>1, <2>2 DEF TypeOK, Known
  <2> QED
    BY <2>1, <2>3, <2>4, CurrentIsSince DEF UsedIsCurrent
<1>6. ASSUME NEW p \in Process, Migrated(p) PROVE UsedIsCurrent'
  <2>1. UNCHANGED <<since, meta>> /\ meta[p] \subseteq since[p] /\ meta[p] = {current[p]}
    BY <1>6 DEF Migrated, RemoveLegacy, own, Between, Since, Running
  <2>2. pc' = pc \/ pc' = [pc EXCEPT ![p] = "cached"]
    BY <1>6 DEF Migrated, RemoveLegacy, Goto
  <2> QED
    BY <2>1, <2>2 DEF TypeOK, UsedIsCurrent
<1>7. ASSUME NEW p \in Process, Miss(p) PROVE UsedIsCurrent'
  BY <1>7 DEF Miss, Goto, own, TypeOK, UsedIsCurrent
<1>8. ASSUME NEW p \in Process, Query(p) PROVE UsedIsCurrent'
  BY <1>8 DEF Query, Goto, TypeOK, UsedIsCurrent
<1>9. ASSUME NEW p \in Process, Build(p) PROVE UsedIsCurrent'
  BY <1>9 DEF Build, Goto, TypeOK, UsedIsCurrent
<1>10. ASSUME NEW p \in Process, Compare(p) PROVE UsedIsCurrent'
  BY <1>10 DEF Compare, Goto, TypeOK, UsedIsCurrent
<1>11. ASSUME NEW p \in Process, Publish(p) PROVE UsedIsCurrent'
  <2>1. UNCHANGED <<since, meta>> /\ meta[p] \subseteq since[p] /\ meta[p] = {current[p]}
    BY <1>11 DEF Publish, own, Between, Since, Running
  <2>2. \E l \in {"published", "ready", "failed"} : pc' = [pc EXCEPT ![p] = l]
    BY <1>11 DEF Publish, Goto
  <2> QED
    BY <2>1, <2>2 DEF TypeOK, UsedIsCurrent
<1>12. ASSUME NEW p \in Process, Published(p) PROVE UsedIsCurrent'
  <2>1. UNCHANGED <<since, meta>> /\ meta[p] \subseteq since[p] /\ meta[p] = {current[p]}
    BY <1>12 DEF Published, RemoveLegacy, own, Between, Since, Running
  <2>2. pc' = pc \/ pc' = [pc EXCEPT ![p] = "ready"]
    BY <1>12 DEF Published, RemoveLegacy, Goto
  <2> QED
    BY <2>1, <2>2 DEF TypeOK, UsedIsCurrent
<1>13. ASSUME NEW p \in Process, Crash(p) PROVE UsedIsCurrent'
  BY <1>13 DEF Crash, Goto, TypeOK, UsedIsCurrent
<1>14. ASSUME NEW f \in 1..Files, Edit(f) PROVE UsedIsCurrent'
  BY <1>14 DEF Edit, own, TypeOK, UsedIsCurrent
<1>15. CASE UNCHANGED vars
  BY <1>15 DEF vars, own, TypeOK, UsedIsCurrent
<1> QED
  BY <1>1, <1>2, <1>3, <1>4, <1>5, <1>6, <1>7, <1>8, <1>9, <1>10, <1>11, <1>12, <1>13, <1>14,
     <1>15 DEF Next, Discover

-----------------------------------------------------------------------------
(* Theorems *)

\* Earlier runs left what is current or out of date
LEMMA InitIInv == Init => IInv
<1> SUFFICES ASSUME Init PROVE IInv
  OBVIOUS
<1>1. inputs \in [1..Files -> 0..MaxEdits] /\ inputs = Nothing
  BY DEF Init, Nothing
<1>2. inputs \in Inputs /\ Outdated \in Inputs
  BY <1>1, InputsNow DEF Inputs, Outdated
<1>3. \A s \in Scope : \/ cache[s] \in {None, Unreadable}
                       \/ cache[s] = Generation(inputs, {inputs})
                       \/ cache[s] = Generation(Outdated, {Outdated})
  BY DEF Init
<1>4. \A i \in {inputs, Outdated} : /\ Generation(i, {i}) \in AnyGeneration
                                    /\ Generation(i, {i}).inputs = i
                                    /\ Generation(i, {i}).meta = {i}
  BY <1>2, GenerationIs
<1>5. cache \in [Scope -> {None, Unreadable} \cup AnyGeneration]
  BY <1>3, <1>4 DEF Init
<1>6. legacy = None \/ legacy \in [scope : Scope, inputs : {inputs, Outdated}]
  BY DEF Init
<1>7. TypeOK
  <2>1. legacy \in {None} \cup [scope : Scope, inputs : Inputs]
    BY <1>2, <1>6
  <2>2. /\ pieces \in 0..LegacyFiles
        /\ attempt \in [Process -> 0..Retries] /\ crashes \in 0..MaxCrashes
    BY DEF Init, LegacyFiles
  <2> QED
    BY <1>1, <1>2, <1>5, <2>1, <2>2 DEF Init, TypeOK
<1>8. GenerationsCoherent
  BY <1>3, <1>4 DEF GenerationsCoherent
<1>9. UsedIsCurrent /\ LegacySuperseded
  BY DEF Init, UsedIsCurrent, LegacySuperseded, HaveLegacy
<1>10. UpTo(inputs, inputs)
  BY <1>2, UpToRefl
<1>11. Between
  BY <1>1, <1>10 DEF Init, Between
<1>12. Since
  BY <1>10 DEF Init, Since
<1>13. Dated
  <2>1. \A i : Known(i) => i \in {inputs, Outdated}
    <3>1. legacy # None => legacy.inputs \in {inputs, Outdated}
      BY <1>6
    <3>2. \A s \in Scope :
            cache[s] \notin {None, Unreadable} => cache[s].inputs \in {inputs, Outdated}
      BY <1>3, <1>4
    <3>3. \A p \in Process : meta[p] = {}
      BY DEF Init
    <3> QED
      BY <3>1, <3>2, <3>3 DEF Known
  <2> QED
    BY <1>10, <1>12, <2>1 DEF Dated, Since
<1>14. LegacyKept
  BY DEF Init, LegacyKept
<1> QED
  BY <1>7, <1>8, <1>9, <1>11, <1>12, <1>13, <1>14 DEF IInv, DiscoveryInv

\* The parts of the invariant are kept together
LEMMA StepKeepsIInv ==
  ASSUME IInv, ~Reverting, [Next]_vars
  PROVE  IInv'
<1> USE DEF IInv, DiscoveryInv
<1>1. TypeOK'
  BY TypeStep
<1>2. GenerationsCoherent' /\ UsedIsCurrent'
  BY CoherentStep, UsedStep
<1>3. LegacyKept' /\ LegacySuperseded'
  BY LegacyStep
<1>4. Between'
  BY <1>1, BetweenStep
<1>5. Since' /\ Dated'
  BY <1>1, SinceStep, DatedStep
<1> QED
  BY <1>1, <1>2, <1>3, <1>4, <1>5

\* Unless an edit brings an earlier version of a file back between two manifests, what is in the
\* cache was collected from one state of the inputs, and what a process goes on with from one there
\* was since it began; the legacy generation goes only once it has a successor
\* (_should_use_cached_discovery, test_discovery_all, _publish_discovery_cache)
THEOREM DiscoveryCorrect ==
  ASSUME ~Reverting
  PROVE  Spec => []DiscoveryInv
<1>1. IInv => DiscoveryInv
  BY DEF IInv
<1>2. IInv /\ [Next]_vars => IInv'
  BY StepKeepsIInv
<1> QED
  BY <1>1, <1>2, InitIInv, PTL DEF Spec
=============================================================================
