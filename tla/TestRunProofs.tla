---------------------------- MODULE TestRunProofs ----------------------------
(***************************************************************************)
(* Proofs about the tests of a run, for any number of jobs, processes,     *)
(* options and faults, logs of any length and any tests and intervals.     *)
(*                                                                         *)
(* CheckTest: a log never passes that should not, whatever directives it   *)
(* has; the verdict and the report are those of its lines one by one.      *)
(*                                                                         *)
(* RunRecord: the times and counts of a run are those of its jobs, and     *)
(* the filters of the history find the runs they should.                   *)
(*                                                                         *)
(* RunDirectory: a run directory has one job at a time, a test passes on   *)
(* what its own simulation wrote, the links lead somewhere, and no job     *)
(* removes what belongs to another.                                        *)
(***************************************************************************)
EXTENDS RunDirectory, CheckTest, RunRecord, SetLemmas

\* An ascending sequence of those of its elements that are below a bound begins it
LEMMA AscendingBegins ==
  ASSUME NEW n \in Nat, NEW a \in Seq(1..n), Ascends(a), NEW m \in Int, NEW e \in Seq(1..n),
         Ascends(e), ToSet(e) = {x \in ToSet(a) : x < m}
  PROVE  Len(e) <= Len(a) /\ \A k \in 1..Len(e) : e[k] = a[k]
<1> DEFINE Off == {k \in 1..Len(e) : k > Len(a) \/ e[k] # a[k]}
<1>1. Len(e) \in Nat /\ Len(a) \in Nat /\ DOMAIN e = 1..Len(e) /\ DOMAIN a = 1..Len(a)
  OBVIOUS
<1>2. /\ \A k \in 1..Len(e) : e[k] \in Int /\ e[k] < m /\ \E p \in 1..Len(a) : a[p] = e[k]
      /\ \A k \in 1..Len(a) : a[k] \in Int
      /\ \A k \in 1..Len(a) : a[k] < m => \E q \in 1..Len(e) : e[q] = a[k]
  <2>1. /\ \A k \in 1..Len(e) : e[k] \in ToSet(e)
        /\ \A k \in 1..Len(a) : a[k] \in ToSet(a)
        /\ \A x \in ToSet(a) : \E p \in 1..Len(a) : a[p] = x
        /\ \A x \in ToSet(e) : \E p \in 1..Len(e) : e[p] = x
    BY <1>1 DEF ToSet
  <2>2. \A k \in 1..Len(e) : e[k] \in ToSet(a) /\ e[k] < m /\ e[k] \in 1..n
    BY <2>1
  <2>3. \A k \in 1..Len(a) : a[k] \in 1..n /\ (a[k] < m => a[k] \in ToSet(e))
    BY <2>1
  <2>4. \A k \in 1..Len(e) : e[k] \in Int /\ e[k] < m /\ \E p \in 1..Len(a) : a[p] = e[k]
    BY <2>1, <2>2
  <2>5. \A k \in 1..Len(a) : a[k] \in Int /\ (a[k] < m => \E q \in 1..Len(e) : e[q] = a[k])
    <3> SUFFICES ASSUME NEW k \in 1..Len(a)
                 PROVE  a[k] \in Int /\ (a[k] < m => \E q \in 1..Len(e) : e[q] = a[k])
      OBVIOUS
    <3>1. a[k] \in Int /\ (a[k] < m => a[k] \in ToSet(e))
      BY <2>3
    <3> QED
      BY <2>1, <3>1
  <2> QED
    BY <2>4, <2>5
<1>3. ASSUME NEW k \in Off, \A j \in Off : k <= j PROVE FALSE
  <2>1. \A j \in 1..(k - 1) : j \in 1..Len(a) /\ e[j] = a[j]
    BY <1>1, <1>3
  <2>2. PICK p \in 1..Len(a) : a[p] = e[k]
    BY <1>2
  <2>3. ~(p < k)
    BY <1>1, <1>2, <2>1, <2>2 DEF Ascends
  <2>4. k \in 1..Len(a) /\ p > k
    BY <1>1, <2>2, <2>3
  <2>5. a[k] < e[k] /\ a[k] < m
    BY <1>1, <1>2, <2>2, <2>4 DEF Ascends
  <2>6. PICK q \in 1..Len(e) : e[q] = a[k]
    BY <1>2, <2>4, <2>5
  <2>7. CASE q < k
    BY <1>1, <1>2, <2>1, <2>4, <2>6, <2>7 DEF Ascends
  <2>8. CASE q >= k
    <3>1. q = k \/ k < q
      BY <1>1, <2>8
    <3>2. e[k] \in Int /\ e[q] \in Int
      BY <1>2
    <3>3. e[k] <= e[q]
      BY <3>1, <3>2 DEF Ascends
    <3> QED
      BY <2>5, <2>6, <3>2, <3>3
  <2> QED
    BY <2>7, <2>8
<1>4. Off = {}
  <2> SUFFICES ASSUME Off # {} PROVE FALSE
    OBVIOUS
  <2>1. Off \in SUBSET (1..Len(e))
    OBVIOUS
  <2>2. \E k \in Off : \A j \in Off : k <= j
    <3> HIDE DEF Off
    <3> QED
      BY <1>1, <2>1, LeastNumber
  <2> QED
    BY <1>3, <2>2
<1>5. \A k \in 1..Len(e) : k <= Len(a) /\ e[k] = a[k]
  <2> SUFFICES ASSUME NEW k \in 1..Len(e) PROVE ~(k > Len(a)) /\ e[k] = a[k]
    BY <1>1
  <2>1. k \notin Off
    BY <1>4
  <2> QED
    BY <2>1
<1>6. Len(e) <= Len(a)
  <2>1. CASE Len(e) = 0
    BY <1>1, <2>1
  <2>2. CASE Len(e) # 0
    <3>1. Len(e) \in 1..Len(e)
      BY <1>1, <2>2
    <3> QED
      BY <1>5, <3>1
  <2> QED
    BY <2>1, <2>2
<1> QED
  BY <1>5, <1>6
\* Hence there is only one such sequence for the numbers below a bound: the first of the others
LEMMA FirstNumbersBegin ==
  ASSUME NEW n \in Nat, NEW S \in SUBSET (1..n), NEW l \in Nat \ {0}
  PROVE  /\ FirstNumbers(l, S) \in Seq(S) /\ Len(FirstNumbers(l, S)) <= l
         /\ FirstNumbers(l, S) = <<>> <=> S = {}
         /\ \A m \in Int, e \in Seq(1..n) :
              /\ Ascends(e) /\ ToSet(e) = {x \in S : x < m} /\ Len(e) <= l
              /\ Len(e) = l \/ \A x \in S : x < m
              => e = FirstNumbers(l, S)
<1> DEFINE all == Numbers(S)  c == Cardinality(S)  h == Min({l, c})
<1>1. all \in Seq(S) /\ Len(all) = c /\ c \in Nat /\ Ascends(all) /\ ToSet(all) = S
  BY NumbersLists
<1> HIDE DEF all, c
<1>2. h \in Nat /\ h <= l /\ h <= c /\ (h = l \/ h = c)
  <2> DEFINE P(x) == x \in {l, c} /\ \A y \in {l, c} : x =< y
  <2>1. l \in Int /\ c \in Int
    BY <1>1
  <2>2. \E x : P(x)
    <3>1. CASE l <= c
      BY <2>1, <3>1
    <3>2. CASE c <= l
      BY <2>1, <3>2
    <3> QED
      BY <2>1, <3>1, <3>2
  <2>3. P(CHOOSE x : P(x))
    BY <2>2
  <2>4. h = CHOOSE x \in {l, c} : \A y \in {l, c} : x =< y
    BY DEF Min
  <2>5. P(h)
    BY <2>2, <2>4
  <2> HIDE DEF h
  <2> QED
    BY <1>1, <2>5
<1> HIDE DEF h
<1>3. FirstNumbers(l, S) = SubSeq(all, 1, h)
  BY DEF FirstNumbers, all, c, h
<1>4. /\ SubSeq(all, 1, h) \in Seq(S) /\ Len(SubSeq(all, 1, h)) = h
      /\ \A k \in 1..h : SubSeq(all, 1, h)[k] = all[k]
  BY <1>1, <1>2
<1>5. c = 0 <=> S = {}
  <2>1. IsFiniteSet(S)
    BY FiniteNumbers
  <2> QED
    BY <2>1, FS_EmptySet DEF c
<1>6. SubSeq(all, 1, h) = <<>> <=> S = {}
  BY <1>1, <1>2, <1>4, <1>5
<1>7. ASSUME NEW m \in Int, NEW e \in Seq(1..n), Ascends(e), ToSet(e) = {x \in S : x < m},
             Len(e) <= l, Len(e) = l \/ \A x \in S : x < m
      PROVE  e = SubSeq(all, 1, h)
  <2>1. all \in Seq(1..n)
    <3>1. S \subseteq 1..n
      OBVIOUS
    <3> QED
      BY <1>1, <3>1, SeqOfMore
  <2>2. Len(e) <= c /\ \A k \in 1..Len(e) : e[k] = all[k]
    BY <1>1, <1>7, <2>1, AscendingBegins
  <2>3. CASE Len(e) = l
    <3>1. Len(e) = h
      BY <1>1, <1>2, <2>2, <2>3
    <3> QED
      BY <1>4, <2>2, <3>1
  <2>4. CASE \A x \in S : x < m
    <3>1. ToSet(e) = S
      BY <1>7, <2>4
    <3>2. \A k \in 1..c : \E q \in 1..Len(e) : e[q] = all[k]
      <4>1. \A k \in 1..c : all[k] \in S
        BY <1>1
      <4>2. \A x \in ToSet(e) : \E q \in 1..Len(e) : e[q] = x
        BY DEF ToSet
      <4> QED
        BY <3>1, <4>1, <4>2
    <3>3. Len(e) = c
      <4> SUFFICES ASSUME Len(e) # c PROVE FALSE
        OBVIOUS
      <4>1. Len(e) \in Nat /\ c \in 1..c /\ Len(e) < c
        BY <1>1, <2>2
      <4>2. PICK q \in 1..Len(e) : e[q] = all[c]
        BY <3>2, <4>1
      <4>3. all[q] = all[c] /\ q \in 1..c /\ q < c
        BY <2>2, <4>1, <4>2
      <4>4. all[q] \in Int /\ all[c] \in Int
        BY <2>1, <1>1, <4>1, <4>3
      <4>5. all[q] < all[c]
        BY <1>1, <4>1, <4>3 DEF Ascends
      <4> QED
        BY <4>3, <4>4, <4>5
    <3>4. Len(e) = h
      BY <1>1, <1>2, <1>7, <3>3
    <3> QED
      BY <1>4, <2>2, <3>4
  <2> QED
    BY <1>7, <2>3, <2>4
<1> QED
  BY <1>2, <1>3, <1>4, <1>6, <1>7
-----------------------------------------------------------------------------
(* CheckTest: what a log says *)

\* What counts at a line is known from the one before
LEMMA ActiveAfter ==
  ASSUME log \in Seq(Line), NEW i \in DOMAIN log, NEW s
  PROVE  ActiveAt(s, i + 1) <=> IF log[i].directive # "none" /\ log[i].sig = s
                                THEN log[i].directive = "enable" ELSE ActiveAt(s, i)
<1> DEFINE told(k) == {j \in 1..(k - 1) : log[j].directive # "none" /\ log[j].sig = s}
<1>1. i \in Nat /\ i >= 1 /\ (i + 1) - 1 = i
  OBVIOUS
<1>2. CASE log[i].directive # "none" /\ log[i].sig = s
  <2>1. i \in told(i + 1) /\ \A j \in told(i + 1) : j \in Int /\ i >= j
    BY <1>1, <1>2
  <2> HIDE DEF told
  <2>2. Max(told(i + 1)) \in told(i + 1) /\ Max(told(i + 1)) >= i
    BY <2>1 DEF Max
  <2>3. Max(told(i + 1)) = i
    BY <1>1, <2>1, <2>2
  <2> QED
    BY <1>2, <2>1, <2>3 DEF ActiveAt, told
<1>3. CASE ~(log[i].directive # "none" /\ log[i].sig = s)
  <2>1. ASSUME NEW j PROVE j \in told(i + 1) <=> j \in told(i)
    BY <1>1, <1>3
  <2>2. told(i + 1) = told(i)
    BY <2>1
  <2> QED
    BY <1>3, <2>2, Zenon DEF ActiveAt
<1> QED
  BY <1>2, <1>3

\* Nothing counts as wrong or as an order that was not so before
LEMMA SameLog ==
  ASSUME log' = log, NEW i
  PROVE  /\ \A s : ActiveAt(s, i)' <=> ActiveAt(s, i)
         /\ Told(i)' <=> Told(i)
         /\ Wrong(i)' <=> Wrong(i)
<1>1. ASSUME NEW s PROVE ActiveAt(s, i)' <=> ActiveAt(s, i)
  BY Zenon DEF ActiveAt
<1>2. Told(i)' <=> Told(i)
  BY Zenon DEF Told, ActiveAt
<1>3. Wrong(i)' <=> Wrong(i)
  BY <1>1, <1>2, Zenon DEF Wrong
<1> QED
  BY <1>1, <1>2, <1>3

WrongLines == {i \in DOMAIN log : Wrong(i)}

\* Nothing before the first line
LEMMA ActiveFirst ==
  ASSUME NEW s PROVE ActiveAt(s, 1) <=> s \in Default
<1>1. {j \in 1..(1 - 1) : log[j].directive # "none" /\ log[j].sig = s} = {}
  OBVIOUS
<1> QED
  BY <1>1, Zenon DEF ActiveAt

\* A log without directives never changes what counts
LEMMA NothingTold ==
  ASSUME NEW i, i \in DOMAIN log, log \in Seq(Line), \A j \in DOMAIN log : log[j].directive = "none"
  PROVE  /\ \A s : ActiveAt(s, i) <=> s \in Default
         /\ ~Told(i)
         /\ Wrong(i) <=> log[i].errors \cap Default # {} \/ log[i].fails
<1>1. ASSUME NEW s PROVE ActiveAt(s, i) <=> s \in Default
  <2>1. {j \in 1..(i - 1) : log[j].directive # "none" /\ log[j].sig = s} = {}
    OBVIOUS
  <2> QED
    BY <2>1, Zenon DEF ActiveAt
<1>2. ~Told(i)
  BY Zenon DEF Told
<1>3. Wrong(i) <=> log[i].errors \cap Default # {} \/ log[i].fails
  BY <1>1, <1>2 DEF Wrong
<1> QED
  BY <1>1, <1>2, <1>3
-----------------------------------------------------------------------------
(* CheckTest: the scan *)

\* Read line by line: what counts now, and what the lines before were
SoFar ==
  path # "static" =>
    /\ \A s \in Sig : s \in active <=> ActiveAt(s, next)
    /\ Ascends(errors) /\ ToSet(errors) = {i \in WrongLines : i < next}
    /\ found <=> \E i \in DOMAIN log : i < next /\ ~Told(i) /\ ~Wrong(i) /\ log[i].finish
    /\ \A i \in DOMAIN log :
         i < next /\ ~Told(i) /\ ~Wrong(i) /\ log[i].seed /\ ~log[i].finish => i \in ToSet(seeds)

\* Searched as a whole
Whole ==
  path = "static" =>
    /\ \A i \in DOMAIN log : log[i].directive = "none"
    /\ errors = FirstNumbers(limit, {i \in DOMAIN log : StaticMatch(i)})
    /\ seeds = Numbers({i \in DOMAIN log : log[i].seed})
    /\ found <=> \E i \in DOMAIN log : log[i].finish

Judged ==
  verdict # "none" =>
    /\ path = "static" \/ (path = "dynamic" /\ (next \notin DOMAIN log \/ Len(errors) >= limit))
    /\ verdict = IF errors # <<>> THEN "errors" ELSE IF ~found THEN "no finish" ELSE "pass"

ScanTypes ==
  /\ ScanTypeOK /\ limit \in Nat \ {0} /\ path \in {"none", "static", "dynamic"} /\ found \in BOOLEAN

ScanIInv == ScanTypes /\ SoFar /\ Whole /\ Judged

\* What the types say of the numbers of lines
LEMMA ScanFacts ==
  ASSUME ScanTypes
  PROVE  /\ log \in Seq(Line) /\ Len(log) \in Nat /\ DOMAIN log = 1..Len(log)
         /\ errors \in Seq(DOMAIN log) /\ errors \in Seq(1..Len(log)) /\ Len(errors) \in Nat
         /\ Len(errors) <= limit /\ DOMAIN errors = 1..Len(errors)
         /\ seeds \in Seq(DOMAIN log) /\ Len(seeds) \in Nat /\ DOMAIN seeds = 1..Len(seeds)
         /\ limit \in Nat \ {0} /\ next \in 1..(Len(log) + 1) /\ next \in Int
         /\ found \in BOOLEAN
<1>1. /\ log \in Seq(Line) /\ errors \in Seq(DOMAIN log) /\ seeds \in Seq(DOMAIN log)
      /\ limit \in Nat \ {0} /\ next \in 1..(Len(log) + 1) /\ found \in BOOLEAN
      /\ Len(errors) <= limit
  BY DEF ScanTypes, ScanTypeOK
<1>2. Len(log) \in Nat /\ DOMAIN log = 1..Len(log)
  BY <1>1
<1>3. Len(errors) \in Nat /\ DOMAIN errors = 1..Len(errors)
  BY <1>1
<1>4. Len(seeds) \in Nat /\ DOMAIN seeds = 1..Len(seeds)
  BY <1>1
<1>5. next \in Int
  BY <1>1, <1>2
<1> QED
  BY <1>1, <1>2, <1>3, <1>4, <1>5, Zenon

LEMMA WrongLinesType == log \in Seq(Line) => WrongLines \in SUBSET (1..Len(log)) /\ Len(log) \in Nat
BY DEF WrongLines

LEMMA LineTypes ==
  ASSUME log \in Seq(Line), NEW i \in DOMAIN log
  PROVE  /\ i \in 1..Len(log) /\ log[i].errors \subseteq Sig /\ log[i].sig \in Sig
         /\ log[i].directive \in {"none", "enable", "disable"}
         /\ log[i].fails \in BOOLEAN /\ log[i].finish \in BOOLEAN /\ log[i].seed \in BOOLEAN
<1>1. log[i] \in Line /\ i \in 1..Len(log)
  OBVIOUS
<1> QED
  BY <1>1, CheckTestAssumption DEF Directives

\* A line at which reading stands is understood as the log says
LEMMA UnderstoodAsSaid ==
  ASSUME ScanTypes, SoFar, path = "dynamic", next \in DOMAIN log
  PROVE  /\ Updates(log[next]) <=> Told(next)
         /\ ~Told(next) => (IsError(log[next]) <=> Wrong(next))
         /\ Told(next) => ~Wrong(next)
<1>1. /\ log[next].errors \subseteq Sig /\ log[next].sig \in Sig
      /\ log[next].directive \in {"none", "enable", "disable"}
  BY LineTypes DEF ScanTypes, ScanTypeOK
<1>2. \A s \in Sig : s \in active <=> ActiveAt(s, next)
  BY DEF SoFar
<1>3. log[next].sig \in active <=> ActiveAt(log[next].sig, next)
  BY <1>1, <1>2
<1>4. ActiveAt(log[next].sig, next) \in BOOLEAN
  <2> DEFINE told == {j \in 1..(next - 1) : log[j].directive # "none" /\ log[j].sig = log[next].sig}
  <2>1. CASE told = {}
    <3>1. ActiveAt(log[next].sig, next) = (log[next].sig \in Default)
      BY <2>1, Zenon DEF ActiveAt
    <3> QED
      BY <3>1
  <2>2. CASE told # {}
    <3>1. ActiveAt(log[next].sig, next) = (log[Max(told)].directive = "enable")
      BY <2>2, Zenon DEF ActiveAt
    <3> QED
      BY <3>1
  <2> QED
    BY <2>1, <2>2
<1>5. Updates(log[next]) <=> Told(next)
  <2> DEFINE A == ActiveAt(log[next].sig, next)
  <2>1. Told(next) <=> (log[next].directive # "none" /\ (log[next].directive = "enable") # A)
    BY Zenon DEF Told
  <2>2. A \in BOOLEAN /\ (log[next].sig \in active <=> A)
    BY <1>3, <1>4
  <2> HIDE DEF A
  <2> QED
    BY <1>1, <2>1, <2>2 DEF Updates
<1>6. log[next].errors \cap active # {} <=> \E s \in log[next].errors : ActiveAt(s, next)
  <2>1. \A s \in log[next].errors : s \in active <=> ActiveAt(s, next)
    BY <1>1, <1>2
  <2> QED
    BY <2>1
<1>7. ~Told(next) => (IsError(log[next]) <=> Wrong(next))
  BY <1>6, Zenon DEF IsError, Wrong
<1>8. Told(next) => ~Wrong(next)
  BY Zenon DEF Wrong
<1> QED
  BY <1>5, <1>7, <1>8

LEMMA ScanStart == CheckInit => ScanIInv
<1> SUFFICES ASSUME CheckInit PROVE ScanIInv
  OBVIOUS
<1>1. log \in Seq(Line) /\ limit \in Nat \ {0}
  BY CheckTestAssumption DEF CheckInit
<1>2. ScanTypes
  <2>1. Len(log) \in Nat /\ <<>> \in Seq(DOMAIN log) /\ Len(<<>>) = 0
    BY <1>1
  <2>2. 1 \in 1..(Len(log) + 1) /\ 0 <= limit
    BY <1>1, <2>1
  <2>3. Default \subseteq Sig
    BY DEF Sig
  <2> QED
    BY <1>1, <2>1, <2>2, <2>3 DEF CheckInit, ScanTypes, ScanTypeOK
<1>3. SoFar
  <2>1. \A s \in Sig : s \in active <=> ActiveAt(s, next)
    BY ActiveFirst DEF CheckInit
  <2>2. Ascends(errors) /\ ToSet(errors) = {}
    BY DEF CheckInit, Ascends, ToSet
  <2>3. \A i \in DOMAIN log : ~(i < next)
    BY <1>1 DEF CheckInit
  <2>4. {i \in WrongLines : i < next} = {}
    BY <2>3 DEF WrongLines
  <2> QED
    BY <2>1, <2>2, <2>3, <2>4 DEF SoFar, CheckInit
<1> QED
  BY <1>2, <1>3 DEF ScanIInv, Whole, Judged, CheckInit

LEMMA SameWrongLines ==
  ASSUME log' = log
  PROVE  WrongLines' = WrongLines
<1>1. \A i : Wrong(i)' <=> Wrong(i)
  BY SameLog
<1> QED
  BY <1>1 DEF WrongLines

\* One more line was read: all that is known of the log, for the next one
LEMMA SoFarNext ==
  ASSUME ScanTypes, SoFar, path = "dynamic", path' = "dynamic", next \in DOMAIN log,
         log' = log, next' = next + 1,
         \A s \in Sig : s \in active' <=>
           IF log[next].directive # "none" /\ log[next].sig = s
           THEN log[next].directive = "enable" ELSE s \in active,
         errors' = IF Wrong(next) THEN Append(errors, next) ELSE errors,
         found' <=> found \/ (~Told(next) /\ ~Wrong(next) /\ log[next].finish),
         ToSet(seeds) \subseteq ToSet(seeds'),
         ~Told(next) /\ ~Wrong(next) /\ log[next].seed /\ ~log[next].finish => next \in ToSet(seeds')
  PROVE  SoFar'
<1>1. /\ log \in Seq(Line) /\ next \in 1..Len(log) /\ errors \in Seq(DOMAIN log)
      /\ Len(log) \in Nat /\ DOMAIN log = 1..Len(log) /\ Len(errors) \in Nat
      /\ DOMAIN errors = 1..Len(errors)
  BY ScanFacts
<1>2. /\ \A s \in Sig : s \in active <=> ActiveAt(s, next)
      /\ Ascends(errors) /\ ToSet(errors) = {i \in WrongLines : i < next}
      /\ found <=> \E i \in DOMAIN log : i < next /\ ~Told(i) /\ ~Wrong(i) /\ log[i].finish
      /\ \A i \in DOMAIN log :
           i < next /\ ~Told(i) /\ ~Wrong(i) /\ log[i].seed /\ ~log[i].finish => i \in ToSet(seeds)
  BY DEF SoFar
<1>3. \A i : (Told(i)' <=> Told(i)) /\ (Wrong(i)' <=> Wrong(i))
  BY SameLog
<1>4. \A s \in Sig : s \in active' <=> ActiveAt(s, next)'
  <2> SUFFICES ASSUME NEW s \in Sig PROVE s \in active' <=> ActiveAt(s, next)'
    OBVIOUS
  <2>1. ActiveAt(s, next + 1) <=> IF log[next].directive # "none" /\ log[next].sig = s
                                  THEN log[next].directive = "enable" ELSE ActiveAt(s, next)
    BY <1>1, ActiveAfter
  <2>2. s \in active <=> ActiveAt(s, next)
    BY <1>2
  <2>3. ActiveAt(s, next)' <=> ActiveAt(s, next + 1)
    BY Zenon DEF ActiveAt
  <2> HIDE DEF ActiveAt
  <2> QED
    BY <2>1, <2>2, <2>3, Zenon
<1>5. \A i \in DOMAIN log : i < next' <=> i < next \/ i = next
  BY <1>1
<1>6. Ascends(errors') /\ ToSet(errors') = {i \in WrongLines' : i < next'}
  <2>1. WrongLines' = WrongLines
    BY SameWrongLines
  <2>2. CASE Wrong(next)
    <3>1. /\ errors' = Append(errors, next) /\ Len(errors') = Len(errors) + 1
          /\ errors' \in Seq(DOMAIN log)
          /\ \A k \in 1..Len(errors) : errors'[k] = errors[k]
          /\ errors'[Len(errors) + 1] = next
      BY <1>1, <2>2
    <3>2. \A k \in 1..Len(errors) : errors[k] < next
      <4>1. \A k \in 1..Len(errors) : errors[k] \in ToSet(errors)
        BY <1>1 DEF ToSet
      <4> QED
        BY <1>2, <4>1
    <3>3. Ascends(errors')
      <4> SUFFICES ASSUME NEW i \in 1..(Len(errors) + 1), NEW j \in 1..(Len(errors) + 1), i < j
                   PROVE  errors'[i] < errors'[j]
        BY <3>1 DEF Ascends
      <4>1. i \in 1..Len(errors) /\ (j = Len(errors) + 1 \/ j \in 1..Len(errors))
        BY <1>1
      <4> QED
        BY <1>2, <3>1, <3>2, <4>1 DEF Ascends
    <3>4. ToSet(errors') = ToSet(errors) \cup {next}
      <4>1. next \in DOMAIN log
        OBVIOUS
      <4>2. ToSet(Append(errors, next)) = ToSet(errors) \cup {next}
        BY <1>1, <4>1, ToSetAppend
      <4> QED
        BY <3>1, <4>2, Zenon
    <3>5. next \in WrongLines
      BY <1>1, <2>2 DEF WrongLines
    <3>6. \A i \in WrongLines : i < next' <=> i < next \/ i = next
      BY <1>5 DEF WrongLines
    <3> QED
      BY <1>2, <2>1, <3>3, <3>4, <3>5, <3>6
  <2>3. CASE ~Wrong(next)
    <3>1. \A i \in WrongLines : i < next' <=> i < next
      BY <1>5, <2>3 DEF WrongLines
    <3> QED
      BY <1>2, <2>1, <2>3, <3>1
  <2> QED
    BY <2>2, <2>3
<1>7. found' <=> \E i \in DOMAIN log : i < next' /\ ~Told(i) /\ ~Wrong(i) /\ log[i].finish
  BY <1>2, <1>5
<1>8. \A i \in DOMAIN log :
        i < next' /\ ~Told(i) /\ ~Wrong(i) /\ log[i].seed /\ ~log[i].finish => i \in ToSet(seeds')
  BY <1>2, <1>5
<1> QED
  BY <1>3, <1>4, <1>6, <1>7, <1>8 DEF SoFar

LEMMA SameAsSoFar ==
  ASSUME SoFar, UNCHANGED <<log, next, active, errors, seeds, found>>,
         path # "static" \/ path' = "static"
  PROVE  SoFar'
<1>1. \A i : (Told(i)' <=> Told(i)) /\ (Wrong(i)' <=> Wrong(i))
  BY SameLog
<1>2. WrongLines' = WrongLines
  BY SameWrongLines
<1>3. CASE path' = "static"
  BY <1>3 DEF SoFar
<1>4. CASE path # "static"
  <2>1. \A s \in Sig : s \in active' <=> ActiveAt(s, next)'
    <3> SUFFICES ASSUME NEW s \in Sig PROVE s \in active' <=> ActiveAt(s, next)'
      OBVIOUS
    <3>1. ActiveAt(s, next)' <=> ActiveAt(s, next)
      BY Zenon DEF ActiveAt
    <3> QED
      BY <1>4, <3>1 DEF SoFar
  <2> QED
    BY <1>1, <1>2, <1>4, <2>1 DEF SoFar, Ascends
<1> QED
  BY <1>3, <1>4

LEMMA SameAsWhole ==
  ASSUME Whole, UNCHANGED <<log, limit, path, errors, seeds, found>>
  PROVE  Whole'
<1>1. {i \in DOMAIN log' : StaticMatch(i)'} = {i \in DOMAIN log : StaticMatch(i)}
  BY Zenon DEF StaticMatch, Spans
<1> QED
  BY <1>1, Zenon DEF Whole

LEMMA ScanStep ==
  ASSUME ScanIInv, CheckNext PROVE ScanIInv'
<1>1. /\ log \in Seq(Line) /\ errors \in Seq(DOMAIN log) /\ seeds \in Seq(DOMAIN log)
      /\ Len(errors) \in Nat /\ Len(seeds) \in Nat
      /\ limit \in Nat \ {0} /\ Len(log) \in Nat /\ DOMAIN log = 1..Len(log) /\ next \in 1..(Len(log) + 1)
  BY ScanFacts DEF ScanIInv
<1>2. CASE ScanStatic
  <2> DEFINE matches == {i \in DOMAIN log : StaticMatch(i)}  seeded == {i \in DOMAIN log : log[i].seed}
  <2>1. FirstNumbers(limit, matches) \in Seq(matches) /\ Len(FirstNumbers(limit, matches)) <= limit
    <3>1. matches \in SUBSET (1..Len(log))
      BY <1>1
    <3> HIDE DEF matches
    <3> QED
      BY <1>1, <3>1, FirstNumbersBegin
  <2>2. Numbers(seeded) \in Seq(seeded)
    <3>1. seeded \in SUBSET (1..Len(log))
      BY <1>1
    <3> HIDE DEF seeded
    <3> QED
      BY <1>1, <3>1, NumbersLists
  <2>3. errors' \in Seq(DOMAIN log) /\ Len(errors') <= limit /\ seeds' \in Seq(DOMAIN log)
    <3>1. /\ errors' = FirstNumbers(limit, matches) /\ seeds' = Numbers(seeded)
      BY <1>2 DEF ScanStatic
    <3>2. matches \subseteq DOMAIN log /\ seeded \subseteq DOMAIN log
      OBVIOUS
    <3> HIDE DEF matches, seeded
    <3>3. /\ errors' \in Seq(matches) /\ seeds' \in Seq(seeded)
      BY <2>1, <2>2, <3>1
    <3> QED
      BY <2>1, <3>1, <3>2, <3>3, SeqOfMore
  <2>4. ScanTypes'
    BY <1>2, <2>3 DEF ScanIInv, ScanTypes, ScanTypeOK, ScanStatic
  <2>5. Whole'
    <3>1. {i \in DOMAIN log' : StaticMatch(i)'} = matches
      BY <1>2, Zenon DEF ScanStatic, StaticMatch, Spans
    <3> QED
      BY <1>2, <3>1, Zenon DEF ScanStatic, Whole
  <2>6. SoFar' /\ Judged'
    <3>1. verdict = "none"
      BY <1>2 DEF ScanIInv, Judged, ScanStatic
    <3> QED
      BY <1>2, <3>1 DEF ScanStatic, SoFar, Judged
  <2> QED
    BY <2>4, <2>5, <2>6 DEF ScanIInv
<1>3. CASE FallBack
  <2>1. path = "none" /\ path' = "dynamic" /\ verdict = "none"
    BY <1>3 DEF FallBack, ScanIInv, Judged
  <2>2. ScanTypes'
    BY <1>3 DEF FallBack, ScanIInv, ScanTypes, ScanTypeOK
  <2>3. SoFar'
    BY <1>3, <2>1, SameAsSoFar DEF FallBack, ScanIInv
  <2> QED
    BY <1>3, <2>1, <2>2, <2>3 DEF FallBack, ScanIInv, Whole, Judged
<1>4. CASE UpdateSignatures
  <2>1. path = "dynamic" /\ path' = path /\ verdict = "none" /\ verdict' = verdict /\ next \in DOMAIN log
        /\ log' = log /\ next' = next + 1 /\ errors' = errors /\ seeds' = seeds /\ found' = found
        /\ limit' = limit
    BY <1>4 DEF UpdateSignatures, Reading
  <2>2. /\ log[next].directive \in {"enable", "disable"} /\ log[next].sig \in Sig
        /\ active' = IF log[next].directive = "enable" THEN active \cup {log[next].sig}
                     ELSE active \ {log[next].sig}
    BY <1>1, <1>4, <2>1, LineTypes DEF UpdateSignatures, Updates
  <2>3. Told(next) /\ ~Wrong(next)
    BY <1>4, <2>1, UnderstoodAsSaid DEF UpdateSignatures, ScanIInv
  <2>4. SoFar'
    <3>1. \A s \in Sig : s \in active' <=>
            IF log[next].directive # "none" /\ log[next].sig = s
            THEN log[next].directive = "enable" ELSE s \in active
      BY <2>2
    <3> QED
      BY <2>1, <2>3, <3>1, SoFarNext DEF ScanIInv
  <2>5. ScanTypes'
    BY <1>1, <2>1, <2>2 DEF ScanIInv, ScanTypes, ScanTypeOK
  <2> QED
    BY <2>1, <2>4, <2>5 DEF ScanIInv, Whole, Judged
<1>5. CASE ReadLine
  <2>1. path = "dynamic" /\ path' = path /\ verdict = "none" /\ verdict' = verdict /\ next \in DOMAIN log
        /\ log' = log /\ next' = next + 1 /\ active' = active /\ limit' = limit /\ Len(errors) < limit
    BY <1>5 DEF ReadLine, Reading
  <2>2. ~Told(next) /\ (IsError(log[next]) <=> Wrong(next))
    BY <1>5, <2>1, UnderstoodAsSaid DEF ReadLine, ScanIInv
  <2>3. log[next].sig \in Sig /\ log[next].directive \in {"none", "enable", "disable"}
    BY <1>1, <2>1, LineTypes
  <2>4. /\ log[next].directive = "enable" => log[next].sig \in active
        /\ log[next].directive = "disable" => log[next].sig \notin active
    BY <1>5 DEF ReadLine, Updates
  <2>5. /\ errors' = IF Wrong(next) THEN Append(errors, next) ELSE errors
        /\ found' <=> found \/ (~Told(next) /\ ~Wrong(next) /\ log[next].finish)
        /\ found' \in BOOLEAN
        /\ seeds' = seeds \/ (seeds' = Append(seeds, next))
        /\ ~Told(next) /\ ~Wrong(next) /\ log[next].seed /\ ~log[next].finish => seeds' = Append(seeds, next)
    <3> DEFINE line == log[next]
    <3>1. \/ IsError(line) /\ errors' = Append(errors, next) /\ UNCHANGED <<seeds, found>>
          \/ ~IsError(line) /\ line.finish /\ ~found /\ found' = TRUE /\ UNCHANGED <<errors, seeds>>
          \/ /\ ~IsError(line) /\ ~(line.finish /\ ~found)
             /\ seeds' = (IF line.seed THEN Append(seeds, next) ELSE seeds) /\ UNCHANGED <<errors, found>>
      BY <1>5 DEF ReadLine
    <3>2. found \in BOOLEAN
      BY DEF ScanIInv, ScanTypes
    <3> HIDE DEF line
    <3>3. CASE IsError(line) /\ errors' = Append(errors, next) /\ UNCHANGED <<seeds, found>>
      BY <2>2, <3>2, <3>3 DEF line
    <3>4. CASE ~IsError(line) /\ line.finish /\ ~found /\ found' = TRUE /\ UNCHANGED <<errors, seeds>>
      BY <2>2, <3>2, <3>4 DEF line
    <3>5. CASE /\ ~IsError(line) /\ ~(line.finish /\ ~found)
               /\ seeds' = (IF line.seed THEN Append(seeds, next) ELSE seeds) /\ UNCHANGED <<errors, found>>
      BY <2>2, <3>2, <3>5 DEF line
    <3> QED
      BY <3>1, <3>3, <3>4, <3>5
  <2>6. /\ seeds' \in Seq(DOMAIN log) /\ ToSet(seeds) \subseteq ToSet(seeds')
        /\ seeds' = Append(seeds, next) => next \in ToSet(seeds')
    <3>1. CASE seeds' = seeds
      <4>1. Append(seeds, next) # seeds
        BY <1>1, <2>1
      <4> QED
        BY <1>1, <3>1, <4>1
    <3>2. CASE seeds' = Append(seeds, next)
      <4>1. /\ seeds' \in Seq(DOMAIN log) /\ Len(seeds') = Len(seeds) + 1 /\ Len(seeds) \in Nat
            /\ \A k \in 1..Len(seeds) : seeds'[k] = seeds[k]
            /\ seeds'[Len(seeds) + 1] = next
        BY <1>1, <2>1, <3>2
      <4>2. ToSet(seeds') = ToSet(seeds) \cup {next}
        <5>1. next \in DOMAIN log
          BY <2>1
        <5>2. ToSet(Append(seeds, next)) = ToSet(seeds) \cup {next}
          <6>1. seeds \in Seq(DOMAIN log)
            BY <1>1
          <6> QED
            BY <5>1, <6>1, ToSetAppend
        <5> QED
          BY <3>2, <5>2, Zenon
      <4> QED
        BY <4>1, <4>2
    <3> QED
      BY <2>5, <3>1, <3>2
  <2>7. SoFar'
    <3>1. \A s \in Sig : s \in active' <=>
            IF log[next].directive # "none" /\ log[next].sig = s
            THEN log[next].directive = "enable" ELSE s \in active
      BY <2>1, <2>3, <2>4
    <3>2. ~Told(next) /\ ~Wrong(next) /\ log[next].seed /\ ~log[next].finish => next \in ToSet(seeds')
      BY <2>5, <2>6
    <3> QED
      BY <2>1, <2>5, <2>6, <3>1, <3>2, SoFarNext DEF ScanIInv
  <2>8. errors' \in Seq(DOMAIN log) /\ Len(errors') <= limit
    <3>1. CASE Wrong(next)
      BY <1>1, <2>1, <2>5, <3>1
    <3>2. CASE ~Wrong(next)
      BY <1>1, <2>1, <2>5, <3>2
    <3> QED
      BY <3>1, <3>2
  <2>9. ScanTypes'
    <3>1. next + 1 \in 1..(Len(log) + 1)
      BY <1>1, <2>1
    <3> QED
      BY <2>1, <2>5, <2>6, <2>8, <3>1 DEF ScanIInv, ScanTypes, ScanTypeOK
  <2> QED
    BY <2>1, <2>7, <2>9 DEF ScanIInv, Whole, Judged
<1>6. CASE JudgeLog
  <2>1. /\ verdict' = IF errors # <<>> THEN "errors" ELSE IF ~found THEN "no finish" ELSE "pass"
        /\ UNCHANGED <<log, limit, path, next, active, errors, seeds, found>>
        /\ path = "static" \/ (path = "dynamic" /\ (next \notin DOMAIN log \/ ~(Len(errors) < limit)))
    BY <1>6 DEF JudgeLog, Scanned, Reading
  <2>2. ScanTypes'
    BY <2>1 DEF ScanIInv, ScanTypes, ScanTypeOK
  <2>3. SoFar'
    <3>1. path # "static" \/ path' = "static"
      BY <2>1
    <3> QED
      BY <2>1, <3>1, SameAsSoFar DEF ScanIInv
  <2>4. Whole'
    BY <2>1, SameAsWhole DEF ScanIInv
  <2>5. Len(errors) \in Nat
    BY <1>1
  <2>6. Judged'
    <3>1. Len(errors) < limit \/ Len(errors) >= limit
      BY <1>1
    <3>2. path' = "static" \/ (path' = "dynamic" /\ (next' \notin DOMAIN log' \/ Len(errors') >= limit'))
      BY <2>1, <3>1
    <3> QED
      BY <2>1, <3>2 DEF Judged
  <2> QED
    BY <2>2, <2>3, <2>4, <2>6 DEF ScanIInv
<1> QED
  BY <1>2, <1>3, <1>4, <1>5, <1>6 DEF CheckNext

LEMMA ScanInvariant == CheckSpec => []ScanIInv
<1>1. ScanIInv /\ UNCHANGED scanVars => ScanIInv'
  <2> SUFFICES ASSUME ScanIInv, UNCHANGED scanVars PROVE ScanIInv'
    OBVIOUS
  <2>2. path # "static" \/ path' = "static"
    BY DEF scanVars
  <2>1. SoFar' /\ Whole'
    BY <2>2, SameAsSoFar, SameAsWhole DEF ScanIInv, scanVars
  <2> QED
    BY <2>1 DEF ScanIInv, scanVars, ScanTypes, ScanTypeOK, Judged
<1> QED
  BY <1>1, ScanStart, ScanStep, PTL DEF CheckSpec
-----------------------------------------------------------------------------
(* CheckTest: the verdict *)

\* No signature spans two lines of a log
NoSpans == \A h, t \in Line : ~(h.part = "head" /\ t.part = "tail")

LEMMA ExpectedVerdict ==
  Expected = IF WrongLines # {} THEN "errors"
             ELSE IF \E i \in DOMAIN log : ~Told(i) /\ log[i].finish THEN "pass" ELSE "no finish"
<1>1. (\E i \in DOMAIN log : Wrong(i)) <=> WrongLines # {}
  BY DEF WrongLines
<1> QED
  BY <1>1, Zenon DEF Expected

\* Reading stopped at the end, or at as many errors as are to be reported
LEMMA DynamicScan ==
  ASSUME ScanIInv, path = "dynamic", verdict # "none"
  PROVE  verdict = Expected /\ errors = FirstNumbers(limit, WrongLines)
<1>1. /\ log \in Seq(Line) /\ errors \in Seq(1..Len(log)) /\ limit \in Nat \ {0} /\ Len(log) \in Nat
      /\ DOMAIN log = 1..Len(log) /\ next \in 1..(Len(log) + 1) /\ found \in BOOLEAN
      /\ Len(errors) <= limit /\ Len(errors) \in Nat /\ next \in Int
  BY ScanFacts DEF ScanIInv
<1>2. /\ Ascends(errors) /\ ToSet(errors) = {i \in WrongLines : i < next}
      /\ found <=> \E i \in DOMAIN log : i < next /\ ~Told(i) /\ ~Wrong(i) /\ log[i].finish
  BY DEF ScanIInv, SoFar
<1>3. WrongLines \in SUBSET (1..Len(log))
  BY <1>1, WrongLinesType
<1>4. /\ next = Len(log) + 1 \/ Len(errors) = limit
      /\ verdict = IF errors # <<>> THEN "errors" ELSE IF ~found THEN "no finish" ELSE "pass"
  <2>1. /\ next \notin DOMAIN log \/ Len(errors) >= limit
        /\ verdict = IF errors # <<>> THEN "errors" ELSE IF ~found THEN "no finish" ELSE "pass"
    BY DEF ScanIInv, Judged
  <2>2. next \notin DOMAIN log => next = Len(log) + 1
    BY <1>1
  <2>3. Len(errors) >= limit => Len(errors) = limit
    BY <1>1
  <2> QED
    BY <2>1, <2>2, <2>3
<1>5. Len(errors) = limit \/ \A i \in WrongLines : i < next
  <2>1. next = Len(log) + 1 => \A i \in 1..Len(log) : i < next
    BY <1>1
  <2> QED
    BY <1>3, <1>4, <2>1
<1>6. errors = FirstNumbers(limit, WrongLines)
  <2> DEFINE S == WrongLines  n == Len(log)
  <2>1. /\ n \in Nat /\ S \in SUBSET (1..n) /\ limit \in Nat \ {0} /\ next \in Int
        /\ errors \in Seq(1..n) /\ Ascends(errors) /\ ToSet(errors) = {x \in S : x < next}
        /\ Len(errors) <= limit /\ (Len(errors) = limit \/ \A x \in S : x < next)
    BY <1>1, <1>2, <1>3, <1>5
  <2> HIDE DEF S, n
  <2>2. errors = FirstNumbers(limit, S)
    <3>1. \A m \in Int, e \in Seq(1..n) :
            /\ Ascends(e) /\ ToSet(e) = {x \in S : x < m} /\ Len(e) <= limit
            /\ Len(e) = limit \/ \A x \in S : x < m
            => e = FirstNumbers(limit, S)
      BY <2>1, FirstNumbersBegin
    <3> QED
      BY <2>1, <3>1
  <2> QED
    BY <2>2 DEF S
<1>7. errors = <<>> <=> WrongLines = {}
  BY <1>1, <1>3, <1>6, FirstNumbersBegin
<1>8. WrongLines = {} => (found <=> \E i \in DOMAIN log : ~Told(i) /\ log[i].finish)
  <2> SUFFICES ASSUME WrongLines = {} PROVE found <=> \E i \in DOMAIN log : ~Told(i) /\ log[i].finish
    OBVIOUS
  <2>1. next = Len(log) + 1
    BY <1>1, <1>4, <1>7
  <2>2. \A i \in DOMAIN log : i < next /\ ~Wrong(i)
    BY <1>1, <2>1 DEF WrongLines
  <2> QED
    BY <1>2, <2>2
<1> QED
  BY <1>4, <1>6, <1>7, <1>8, ExpectedVerdict

\* The whole text may have matches where no line has one
LEMMA StaticScan ==
  ASSUME ScanIInv, path = "static"
  PROVE  /\ errors = FirstNumbers(limit, {i \in DOMAIN log : StaticMatch(i)})
         /\ WrongLines \subseteq {i \in DOMAIN log : StaticMatch(i)}
         /\ errors = <<>> <=> {i \in DOMAIN log : StaticMatch(i)} = {}
         /\ NoSpans => {i \in DOMAIN log : StaticMatch(i)} = WrongLines
         /\ found <=> \E i \in DOMAIN log : ~Told(i) /\ log[i].finish
<1>1. /\ log \in Seq(Line) /\ limit \in Nat \ {0} /\ Len(log) \in Nat
      /\ DOMAIN log = 1..Len(log)
  BY ScanFacts DEF ScanIInv
<1>2. /\ \A i \in DOMAIN log : log[i].directive = "none"
      /\ errors = FirstNumbers(limit, {i \in DOMAIN log : StaticMatch(i)})
      /\ found <=> \E i \in DOMAIN log : log[i].finish
  BY DEF ScanIInv, Whole
<1>3. \A i \in DOMAIN log : ~Told(i) /\ (Wrong(i) <=> log[i].errors \cap Default # {} \/ log[i].fails)
  BY <1>1, <1>2, NothingTold
<1>4. \A i \in DOMAIN log : StaticMatch(i) <=> Wrong(i) \/ Spans(i)
  BY <1>3 DEF StaticMatch
<1>5. NoSpans => \A i \in DOMAIN log : ~Spans(i)
  <2> SUFFICES ASSUME NoSpans, NEW i \in DOMAIN log, Spans(i) PROVE FALSE
    OBVIOUS
  <2>1. log[i] \in Line /\ log[i + 1] \in Line
    BY <1>1 DEF Spans
  <2> QED
    BY <2>1 DEF NoSpans, Spans
<1> DEFINE matches == {i \in DOMAIN log : StaticMatch(i)}
<1>6. errors = <<>> <=> matches = {}
  <2>1. matches \in SUBSET (1..Len(log)) /\ errors = FirstNumbers(limit, matches)
    BY <1>1, <1>2
  <2> HIDE DEF matches
  <2> QED
    BY <1>1, <2>1, FirstNumbersBegin
<1> QED
  BY <1>2, <1>3, <1>4, <1>5, <1>6 DEF WrongLines

LEMMA VerdictOf ==
  ASSUME ScanIInv, verdict # "none"
  PROVE  verdict = IF errors # <<>> THEN "errors" ELSE IF ~found THEN "no finish" ELSE "pass"
BY DEF ScanIInv, Judged

\* The seeds of the lines before the first error
LEMMA SeedsThere ==
  ASSUME ScanIInv PROVE SeedsReported
<1> SUFFICES ASSUME verdict = "errors", NEW i \in 1..(errors[1] - 1), log[i].seed, ~log[i].finish, ~Told(i)
             PROVE  i \in ToSet(seeds)
  BY DEF SeedsReported
<1>1. /\ log \in Seq(Line) /\ errors \in Seq(DOMAIN log) /\ limit \in Nat \ {0} /\ Len(log) \in Nat
      /\ DOMAIN log = 1..Len(log) /\ next \in 1..(Len(log) + 1) /\ found \in BOOLEAN
  BY ScanFacts DEF ScanIInv
<1>2. errors # <<>>
  BY VerdictOf
<1>3. errors[1] \in 1..Len(log) /\ 1 \in 1..Len(errors) /\ Len(errors) \in Nat
  BY <1>1, <1>2
<1>4. i \in DOMAIN log /\ i < errors[1]
  BY <1>1, <1>3
<1>5. CASE path = "static"
  <2> DEFINE seeded == {k \in DOMAIN log : log[k].seed}
  <2>1. seeds = Numbers(seeded) /\ i \in seeded
    BY <1>4, <1>5 DEF ScanIInv, Whole
  <2>2. seeded \in SUBSET (1..Len(log))
    BY <1>1
  <2> HIDE DEF seeded
  <2> QED
    BY <1>1, <2>1, <2>2, NumbersLists
<1>6. CASE path # "static"
  <2>1. /\ Ascends(errors) /\ ToSet(errors) = {k \in WrongLines : k < next}
        /\ \A k \in DOMAIN log :
             k < next /\ ~Told(k) /\ ~Wrong(k) /\ log[k].seed /\ ~log[k].finish => k \in ToSet(seeds)
    BY <1>6 DEF ScanIInv, SoFar
  <2>2. errors[1] \in ToSet(errors)
    BY <1>1, <1>3 DEF ToSet
  <2>3. errors[1] < next
    BY <2>1, <2>2
  <2>4. i < next
    BY <1>1, <1>3, <1>4, <2>3
  <2>5. ~Wrong(i)
    <3> SUFFICES ASSUME Wrong(i) PROVE FALSE
      OBVIOUS
    <3>1. i \in ToSet(errors)
      BY <1>4, <2>1, <2>4 DEF WrongLines
    <3>2. PICK k \in 1..Len(errors) : errors[k] = i
      BY <1>1, <3>1 DEF ToSet
    <3>3. k = 1 \/ errors[1] < errors[k]
      BY <1>3, <2>1 DEF Ascends
    <3> QED
      BY <1>1, <1>3, <1>4, <3>2, <3>3
  <2> QED
    BY <1>4, <2>1, <2>4, <2>5
<1> QED
  BY <1>5, <1>6

\* A log never passes when a line of it matches what counts there or when it has no finish, not even
\* by a search over the whole text, and a failing report names the seeds (check_test.py)
PassIsDeserved == verdict = "pass" => Expected = "pass"

THEOREM VerdictSafe == CheckSpec => [](ScanTypeOK /\ DynamicVerdict /\ PassIsDeserved /\ SeedsReported)
<1>1. ScanIInv => ScanTypeOK /\ DynamicVerdict /\ PassIsDeserved /\ SeedsReported
  <2> SUFFICES ASSUME ScanIInv PROVE ScanTypeOK /\ DynamicVerdict /\ PassIsDeserved /\ SeedsReported
    OBVIOUS
  <2>1. DynamicVerdict
    BY DynamicScan DEF DynamicVerdict
  <2>2. PassIsDeserved
    <3> SUFFICES ASSUME verdict = "pass" PROVE Expected = "pass"
      BY DEF PassIsDeserved
    <3>1. path \in {"static", "dynamic"} /\ errors = <<>> /\ found
      BY VerdictOf DEF ScanIInv, Judged
    <3>2. CASE path = "dynamic"
      BY <3>2, DynamicScan
    <3>3. CASE path = "static"
      <4>1. WrongLines = {} /\ \E i \in DOMAIN log : ~Told(i) /\ log[i].finish
        BY <3>1, <3>3, StaticScan
      <4> QED
        BY <4>1, ExpectedVerdict
    <3> QED
      BY <3>1, <3>2, <3>3
  <2> QED
    BY <2>1, <2>2, SeedsThere DEF ScanIInv, ScanTypes
<1> QED
  BY <1>1, ScanInvariant, PTL

\* When no signature spans two lines, both ways to read a log come to the verdict that its lines
\* give one by one, and report its first errors, in order, as many as the limit allows
THEOREM VerdictTrue ==
  ASSUME NoSpans
  PROVE  CheckSpec => []CheckTestInv
<1>1. ScanIInv => CheckTestInv
  <2> SUFFICES ASSUME ScanIInv PROVE CheckTestInv
    OBVIOUS
  <2>1. ScanTypeOK
    BY DEF ScanIInv, ScanTypes
  <2>2. DynamicVerdict
    BY DynamicScan DEF DynamicVerdict
  <2>3. ASSUME path = "static", verdict # "none"
        PROVE  verdict = Expected /\ errors = FirstNumbers(limit, WrongLines)
    <3>1. /\ errors = FirstNumbers(limit, WrongLines) /\ (errors = <<>> <=> WrongLines = {})
          /\ found <=> \E i \in DOMAIN log : ~Told(i) /\ log[i].finish
      BY <2>3, StaticScan
    <3> QED
      BY <2>3, <3>1, VerdictOf, ExpectedVerdict
  <2>4. StaticVerdict
    BY <2>3 DEF StaticVerdict
  <2>5. FirstErrorsReported
    <3> SUFFICES ASSUME verdict # "none" PROVE errors = FirstNumbers(limit, WrongLines)
      BY DEF FirstErrorsReported, WrongLines
    <3>1. path \in {"static", "dynamic"}
      BY DEF ScanIInv, Judged
    <3> QED
      BY <2>3, <3>1, DynamicScan
  <2> QED
    BY <2>1, <2>2, <2>4, <2>5, SeedsThere DEF CheckTestInv
<1> QED
  BY <1>1, ScanInvariant, PTL
-----------------------------------------------------------------------------
(* RunRecord: how long the jobs of a run were active *)

LEMMA Upwards ==
  ASSUME NEW n \in Nat, n >= 1, NEW A, 1 \in A, \A k \in 1..(n - 1) : k \in A => k + 1 \in A
  PROVE  1..n \subseteq A
<1> DEFINE Off == (1..n) \ A
<1>1. ASSUME Off # {} PROVE FALSE
  <2>1. Off \in SUBSET (1..n)
    OBVIOUS
  <2>2. PICK k \in Off : \A j \in Off : k <= j
    <3> HIDE DEF Off
    <3> QED
      BY <1>1, <2>1, LeastNumber
  <2>3. k # 1 /\ k \in 1..n /\ k \notin A
    OBVIOUS
  <2>4. k - 1 \in 1..(n - 1) /\ (k - 1) + 1 = k
    BY <2>3
  <2>5. k - 1 \in A
    BY <2>2, <2>4
  <2> QED
    BY <2>3, <2>4, <2>5
<1> QED
  BY <1>1

Stretch(s) == [sum |-> 0, start |-> s[1][1], stop |-> s[1][2]]

\* The recursion has a solution: what is right up to some interval can be continued
LEMMA WalkStarts ==
  ASSUME NEW n \in Nat, n >= 1, NEW s, Len(s) = n
  PROVE  /\ Walk(s)[1] = Stretch(s)
         /\ \A k \in 2..n : Walk(s)[k] = Join(Walk(s)[k - 1], s[k])
<1> DEFINE Value(w, k) == IF k = 1 THEN Stretch(s) ELSE Join(w[k - 1], s[k])
           Solves(w, m) == w = [k \in 1..m |-> Value(w, k)]
           Solved == {m \in 1..n : \E w : Solves(w, m)}
<1>1. 1 \in Solved
  <2> DEFINE w == [k \in 1..1 |-> Stretch(s)]
  <2>1. Solves(w, 1) /\ 1 \in 1..n
    OBVIOUS
  <2> HIDE DEF w, Solves
  <2> QED
    BY <2>1
<1>2. ASSUME NEW m \in 1..(n - 1), m \in Solved PROVE m + 1 \in Solved
  <2>1. PICK v : Solves(v, m)
    BY <1>2
  <2>2. \A k \in 1..m : v[k] = Value(v, k)
    BY <2>1
  <2> DEFINE w == [k \in 1..(m + 1) |-> IF k = m + 1 THEN Join(v[m], s[m + 1]) ELSE v[k]]
  <2>3. \A k \in 1..m : w[k] = v[k]
    OBVIOUS
  <2>4. ASSUME NEW k \in 1..(m + 1) PROVE w[k] = Value(w, k)
    <3>1. CASE k = m + 1
      BY <2>3, <3>1
    <3>2. CASE k # m + 1
      <4>1. k \in 1..m /\ w[k] = v[k] /\ (k # 1 => k - 1 \in 1..m)
        BY <3>2
      <4>2. Value(v, k) = Value(w, k)
        BY <2>3, <4>1
      <4> QED
        BY <2>2, <4>1, <4>2
    <3> QED
      BY <3>1, <3>2
  <2>5. w = [k \in 1..(m + 1) |-> w[k]]
    OBVIOUS
  <2> HIDE DEF w, Value
  <2>6. Solves(w, m + 1)
    BY <2>4, <2>5
  <2>7. m + 1 \in 1..n
    OBVIOUS
  <2> QED
    BY <2>6, <2>7
<1>3. n \in Solved
  <2> HIDE DEF Solved
  <2>1. 1..n \subseteq Solved
    BY <1>1, <1>2, Upwards
  <2> QED
    BY <2>1
<1>4. \E w : Solves(w, n)
  BY <1>3
<1>5. Walk(s) = CHOOSE w : Solves(w, n)
  BY DEF Walk, Stretch
<1>6. Solves(Walk(s), n)
  <2> HIDE DEF Solves
  <2> QED
    BY <1>4, <1>5
<1>7. \A k \in 1..n : Walk(s)[k] = Value(Walk(s), k)
  BY <1>6
<1> QED
  BY <1>7

Moments(i) == i[1]..(i[2] - 1)

\* The moments of the first k intervals
CoveredBy(s, k) == UNION {Moments(s[i]) : i \in 1..k}

\* A stretch of moments is behind others, as many as the sum
Right(C, sum, start, stop) ==
  /\ sum \in Nat /\ start \in Nat /\ stop \in Nat /\ start <= stop
  /\ \A t \in C : t \in Nat /\ t < stop
  /\ \A t \in Nat : start <= t /\ t < stop => t \in C
  /\ IsFiniteSet({t \in C : t < start}) /\ Cardinality({t \in C : t < start}) = sum

LEMMA StretchLength ==
  ASSUME NEW start \in Nat, NEW stop \in Nat, start <= stop
  PROVE  IsFiniteSet(start..(stop - 1)) /\ Cardinality(start..(stop - 1)) = stop - start
<1>1. start \in Int /\ stop - 1 \in Int
  OBVIOUS
<1>2. /\ IsFiniteSet(start..(stop - 1))
      /\ Cardinality(start..(stop - 1)) = IF start > stop - 1 THEN 0 ELSE (stop - 1) - start + 1
  BY <1>1, FS_Interval
<1> QED
  BY <1>2

\* With the stretch, they are all
LEMMA RightCounts ==
  ASSUME NEW C, NEW sum, NEW start, NEW stop, Right(C, sum, start, stop)
  PROVE  IsFiniteSet(C) /\ Cardinality(C) = sum + (stop - start) /\ sum + (stop - start) \in Nat
<1> DEFINE A == {t \in C : t < start}  B == start..(stop - 1)
<1>1. /\ sum \in Nat /\ start \in Nat /\ stop \in Nat /\ start <= stop
      /\ \A t \in C : t \in Nat /\ t < stop
      /\ \A t \in Nat : start <= t /\ t < stop => t \in C
      /\ IsFiniteSet(A) /\ Cardinality(A) = sum
  BY DEF Right
<1>2. C = A \cup B /\ A \cap B = {}
  BY <1>1
<1>3. IsFiniteSet(B) /\ Cardinality(B) = stop - start
  BY <1>1, StretchLength
<1> HIDE DEF A, B
<1>4. Cardinality(A \cap B) = 0
  BY <1>2, FS_EmptySet
<1>5. IsFiniteSet(A \cup B) /\ Cardinality(A \cup B) = Cardinality(A) + Cardinality(B) - Cardinality(A \cap B)
  BY <1>1, <1>3, FS_Union
<1> QED
  BY <1>1, <1>2, <1>3, <1>4, <1>5

\* An interval that begins in the stretch, or where it ends, prolongs it
LEMMA Prolonged ==
  ASSUME NEW C, NEW sum, NEW start, NEW stop, Right(C, sum, start, stop),
         NEW a \in Nat, NEW b \in Nat, a <= b, start <= a, a <= stop
  PROVE  Right(C \cup (a..(b - 1)), sum, start, IF stop >= b THEN stop ELSE b)
<1> DEFINE e == IF stop >= b THEN stop ELSE b
           D == C \cup (a..(b - 1))
<1>1. /\ sum \in Nat /\ start \in Nat /\ stop \in Nat /\ start <= stop
      /\ \A t \in C : t \in Nat /\ t < stop
      /\ \A t \in Nat : start <= t /\ t < stop => t \in C
      /\ IsFiniteSet({t \in C : t < start}) /\ Cardinality({t \in C : t < start}) = sum
  BY DEF Right
<1>2. e \in Nat /\ start <= e /\ stop <= e /\ b <= e /\ (e = stop \/ e = b)
  BY <1>1
<1>3. \A t : t \in D <=> t \in C \/ (t \in Nat /\ a <= t /\ t < b)
  OBVIOUS
<1> HIDE DEF e, D
<1>4. \A t \in D : t \in Nat /\ t < e
  BY <1>1, <1>2, <1>3
<1>5. \A t \in Nat : start <= t /\ t < e => t \in D
  BY <1>1, <1>2, <1>3
<1>6. {t \in D : t < start} = {t \in C : t < start}
  BY <1>1, <1>3
<1> QED
  BY <1>1, <1>2, <1>4, <1>5, <1>6 DEF Right, e, D

\* A later one begins the next stretch
LEMMA Ended ==
  ASSUME NEW C, NEW sum, NEW start, NEW stop, Right(C, sum, start, stop),
         NEW a \in Nat, NEW b \in Nat, a <= b, ~(a <= stop)
  PROVE  Right(C \cup (a..(b - 1)), sum + (stop - start), a, b)
<1> DEFINE D == C \cup (a..(b - 1))
<1>1. /\ stop \in Nat /\ \A t \in C : t \in Nat /\ t < stop
  BY DEF Right
<1>2. \A t : t \in D <=> t \in C \/ (t \in Nat /\ a <= t /\ t < b)
  OBVIOUS
<1> HIDE DEF D
<1>3. \A t \in D : t \in Nat /\ t < b
  BY <1>1, <1>2
<1>4. \A t \in Nat : a <= t /\ t < b => t \in D
  BY <1>2
<1>5. {t \in D : t < a} = C
  BY <1>1, <1>2
<1>6. IsFiniteSet(C) /\ Cardinality(C) = sum + (stop - start) /\ sum + (stop - start) \in Nat
  BY RightCounts
<1> QED
  BY <1>3, <1>4, <1>5, <1>6 DEF Right, D

\* What is known after k intervals
WalkRight(s, k) ==
  LET w == Walk(s)[k]
  IN  /\ w = [sum |-> w.sum, start |-> w.start, stop |-> w.stop]
      /\ Right(CoveredBy(s, k), w.sum, w.start, w.stop) /\ w.start <= s[k][1]

LEMMA WalkStep ==
  ASSUME NEW n \in Nat, NEW S, S \subseteq Nat \X Nat, \A i \in S : i[1] <= i[2],
         NEW s \in Seq(S), Len(s) = n, \A i, j \in 1..n : i < j => s[i][1] <= s[j][1],
         NEW k \in 1..(n - 1), WalkRight(s, k)
  PROVE  WalkRight(s, k + 1)
<1> DEFINE w == Walk(s)[k]  i == s[k + 1]  v == Walk(s)[k + 1]
           C == CoveredBy(s, k)  D == CoveredBy(s, k + 1)
<1>1. /\ w = [sum |-> w.sum, start |-> w.start, stop |-> w.stop]
      /\ Right(C, w.sum, w.start, w.stop) /\ w.start <= s[k][1]
  BY DEF WalkRight
<1>2. v = Join(w, i)
  <2>1. k + 1 \in 2..n /\ (k + 1) - 1 = k /\ n >= 1
    OBVIOUS
  <2> QED
    BY <2>1, WalkStarts
<1>3. k \in 1..n /\ k + 1 \in 1..n /\ k < k + 1
  OBVIOUS
<1>4. s[k] \in S /\ i \in S /\ s[k][1] <= i[1]
  BY <1>3
<1>5. D = C \cup Moments(i)
  <2>1. 1..(k + 1) = (1..k) \cup {k + 1}
    OBVIOUS
  <2> QED
    BY <2>1 DEF CoveredBy
<1> HIDE DEF w, i, v, C, D
<1>6. i[1] \in Nat /\ i[2] \in Nat /\ i[1] <= i[2] /\ s[k][1] \in Nat
  BY <1>4
<1>7. w.start \in Nat /\ w.stop \in Nat /\ w.sum \in Nat
  BY <1>1 DEF Right
<1> DEFINE a == i[1]  b == i[2]  sum == w.sum  start == w.start  stop == w.stop  f == s[k][1]
<1>8. start <= a
  <2>1. start \in Nat /\ f \in Nat /\ a \in Nat /\ start <= f /\ f <= a
    BY <1>1, <1>4, <1>6, <1>7
  <2> HIDE DEF a, start, f
  <2> QED
    BY <2>1
<1>9. Moments(i) = a..(b - 1)
  BY DEF Moments
<1>10. CASE a <= stop
  <2> DEFINE e == IF stop >= b THEN stop ELSE b
  <2>1. v = [sum |-> sum, start |-> start, stop |-> e]
    BY <1>1, <1>2, <1>10 DEF Join
  <2>2. a \in Nat /\ b \in Nat /\ a <= b /\ Right(C, sum, start, stop)
    BY <1>1, <1>6
  <2> HIDE DEF a, b, sum, start, stop
  <2>3. Right(C \cup (a..(b - 1)), sum, start, e)
    BY <1>8, <1>10, <2>2, Prolonged
  <2> HIDE DEF e
  <2>4. v.sum = sum /\ v.start = start /\ v.stop = e
    BY <2>1
  <2>5. Right(D, v.sum, v.start, v.stop) /\ v.start <= a /\ v = [sum |-> v.sum, start |-> v.start, stop |-> v.stop]
    BY <1>5, <1>8, <1>9, <2>1, <2>3, <2>4
  <2> QED
    BY <2>5 DEF WalkRight, v, D, i, a
<1>11. CASE ~(a <= stop)
  <2>1. v = [sum |-> sum + (stop - start), start |-> a, stop |-> b]
    BY <1>2, <1>11 DEF Join
  <2>2. a \in Nat /\ b \in Nat /\ a <= b /\ Right(C, sum, start, stop)
    BY <1>1, <1>6
  <2> HIDE DEF a, b, sum, start, stop
  <2>3. Right(C \cup (a..(b - 1)), sum + (stop - start), a, b)
    BY <1>11, <2>2, Ended
  <2>4. v.sum = sum + (stop - start) /\ v.start = a /\ v.stop = b
    BY <2>1
  <2>5. Right(D, v.sum, v.start, v.stop) /\ v.start <= a /\ v = [sum |-> v.sum, start |-> v.start, stop |-> v.stop]
    BY <1>5, <1>9, <2>1, <2>2, <2>3, <2>4
  <2> QED
    BY <2>5 DEF WalkRight, v, D, i, a
<1> QED
  BY <1>10, <1>11

LEMMA WalkFirst ==
  ASSUME NEW n \in Nat, n >= 1, NEW S, S \subseteq Nat \X Nat, \A i \in S : i[1] <= i[2],
         NEW s \in Seq(S), Len(s) = n
  PROVE  WalkRight(s, 1)
<1> DEFINE w == Walk(s)[1]  C == CoveredBy(s, 1)  a == s[1][1]  b == s[1][2]
<1>1. w = [sum |-> 0, start |-> a, stop |-> b]
  BY WalkStarts DEF Stretch
<1>2. s[1] \in S
  OBVIOUS
<1>3. a \in Nat /\ b \in Nat /\ a <= b
  BY <1>2
<1>4. C = a..(b - 1)
  <2>1. 1..1 = {1}
    OBVIOUS
  <2>2. {Moments(s[j]) : j \in {1}} = {Moments(s[1])}
    OBVIOUS
  <2>3. C = UNION {Moments(s[1])}
    BY <2>1, <2>2 DEF CoveredBy
  <2> QED
    BY <2>3 DEF Moments
<1> HIDE DEF w, C, a, b
<1>5. Right(C, 0, a, b)
  <2>1. {t \in C : t < a} = {}
    BY <1>3, <1>4
  <2>2. IsFiniteSet({t \in C : t < a}) /\ Cardinality({t \in C : t < a}) = 0
    BY <2>1, FS_EmptySet
  <2>3. \A t \in C : t \in Nat /\ t < b
    BY <1>3, <1>4
  <2>4. \A t \in Nat : a <= t /\ t < b => t \in C
    BY <1>3, <1>4
  <2> QED
    BY <1>3, <2>2, <2>3, <2>4 DEF Right
<1>6. w.sum = 0 /\ w.start = a /\ w.stop = b
  BY <1>1
<1>7. Right(C, w.sum, w.start, w.stop) /\ w.start <= a /\ w = [sum |-> w.sum, start |-> w.start, stop |-> w.stop]
  BY <1>1, <1>3, <1>5, <1>6
<1> QED
  BY <1>7 DEF WalkRight, w, C, a

\* Each moment counts once, however the intervals lie
LEMMA ElapsedCountsMoments ==
  ASSUME NEW S, S \subseteq Interval, IsFiniteSet(S), S # {}
  PROVE  Elapsed(S) = Cardinality(Covered(S)) /\ Elapsed(S) \in Nat
<1> DEFINE s == Pairs(S)  n == Cardinality(S)
<1>1. S \subseteq Nat \X Nat /\ \A i \in S : i[1] <= i[2]
  BY RunRecordAssumption
<1>2. /\ s \in Seq(S) /\ Len(s) = n /\ n \in Nat /\ ToSet(s) = S
      /\ \A i, j \in 1..n : i < j => s[i][1] <= s[j][1]
  BY <1>1, PairsLists
<1>3. n >= 1
  BY <1>2, FS_EmptySet
<1>4. Elapsed(S) = Walk(s)[n].sum + (Walk(s)[n].stop - Walk(s)[n].start)
  BY DEF Elapsed
<1> HIDE DEF s, n
<1>5. WalkRight(s, n)
  <2> DEFINE A == {k \in 1..n : WalkRight(s, k)}
  <2>1. 1 \in A
    BY <1>1, <1>2, <1>3, WalkFirst
  <2>2. ASSUME NEW k \in 1..(n - 1), k \in A PROVE k + 1 \in A
    <3>1. WalkRight(s, k) /\ k + 1 \in 1..n
      BY <1>2, <2>2
    <3>2. WalkRight(s, k + 1)
      BY <1>1, <1>2, <3>1, WalkStep
    <3> QED
      BY <3>1, <3>2
  <2> HIDE DEF A
  <2>3. 1..n \subseteq A
    BY <1>2, <1>3, <2>1, <2>2, Upwards
  <2>4. n \in 1..n
    BY <1>2, <1>3
  <2> QED
    BY <2>3, <2>4 DEF A
<1>6. CoveredBy(s, n) = Covered(S)
  <2>1. DOMAIN s = 1..n
    BY <1>2
  <2>2. {Moments(s[i]) : i \in 1..n} = {Moments(i) : i \in S}
    BY <1>2, <2>1 DEF ToSet
  <2> QED
    BY <2>2 DEF CoveredBy, Covered, Moments
<1>7. Right(Covered(S), Walk(s)[n].sum, Walk(s)[n].start, Walk(s)[n].stop)
  BY <1>5, <1>6 DEF WalkRight
<1> QED
  BY <1>4, <1>7, RightCounts

-----------------------------------------------------------------------------
(* RunRecord: the records and the history *)

Statuses == {"PASSED", "FAILED", "INTERRUPTED"}
TestRecord == [test : Test, status : Statuses, started : BOOLEAN, interval : {<<>>} \cup Interval]
CompileRecord == [hit : BOOLEAN, failed : BOOLEAN, interval : {<<>>} \cup Interval]

Endings == {"PASSED", "FAILED", "INTERRUPTED", "PARTIAL", "COMPILE_FAILED", "NO_SIM_RUN"}
HistoryRun ==
  [benches : SUBSET Bench, failed : Nat, status : Endings, multi : BOOLEAN, shown : Test]
TrueRun == [benches : SUBSET Bench, failed : SUBSET Test, unclean : BOOLEAN]

RecordTypes ==
  /\ phase \in {"idle", "open", "finalized"} /\ planned \in SUBSET Test
  /\ compile \in [Bench -> {Absent} \cup CompileRecord] /\ tests \in Seq(TestRecord)
  /\ history \in Seq(HistoryRun) /\ truth \in Seq(TrueRun) /\ unclean \in BOOLEAN
  /\ Len(history) = Len(truth) /\ Len(history) <= MaxRuns
  /\ phase # "idle" => Len(history) < MaxRuns

\* A test has one record, and is planned, as is some test of a bench with a record
Entries ==
  /\ IF phase = "idle" THEN tests = <<>> /\ compile = [b \in Bench |-> Absent] ELSE planned # {}
  /\ \A i \in 1..Len(tests) : tests[i].test \in planned /\ compile[BenchOf[tests[i].test]] # Absent
  /\ \A i, j \in 1..Len(tests) : tests[i].test = tests[j].test => i = j
  /\ \A b \in Compiled : \E t \in planned : BenchOf[t] = b

SummedUp ==
  IF phase = "finalized"
  THEN /\ timing = [compile |-> Elapsed(CompileIntervals), simulate |-> Elapsed(TestIntervals),
                    reused |-> Compiled # {} /\ \A b \in Compiled : compile[b].hit]
       /\ summary = [passed |-> Count("PASSED"), failed |-> Count("FAILED"),
                     interrupted |-> Count("INTERRUPTED"), skipped |-> Skipped]
       /\ \E launch_failed \in BOOLEAN : ending = Ending(unclean, launch_failed)
  ELSE timing = NoTiming /\ summary = NoSummary

\* What was stored of a run, and what it was
Kept ==
  \A k \in 1..Len(history) :
    /\ history[k].benches = truth[k].benches
    /\ IsFailedHistoryRun(history[k]) <=> truth[k].failed # {} \/ truth[k].unclean
    /\ truth[k].failed # {} /\ history[k].multi => history[k].shown \in truth[k].failed

RecordIInv == RecordTypes /\ Entries /\ SummedUp /\ Kept

\* The first entry of a kind
LEMMA FirstOf ==
  ASSUME NEW n \in Nat, NEW I \in SUBSET (1..n), I # {}
  PROVE  Min(I) \in I /\ \A j \in I : Min(I) <= j
BY LeastNumber DEF Min

LEMMA EntryOf ==
  ASSUME RecordTypes, NEW t
  PROVE  /\ IndexOf(t) = 0 => \A i \in 1..Len(tests) : tests[i].test # t
         /\ IndexOf(t) # 0 => IndexOf(t) \in 1..Len(tests) /\ tests[IndexOf(t)].test = t
<1> DEFINE I == {i \in 1..Len(tests) : tests[i].test = t}
<1>1. IndexOf(t) = IF I # {} THEN Min(I) ELSE 0
  BY DEF IndexOf, SelectInSeq
<1>2. Len(tests) \in Nat
  BY DEF RecordTypes
<1>3. I # {} => Min(I) \in I
  BY <1>2, FirstOf
<1> QED
  BY <1>1, <1>3

LEMMA EntryWith ==
  ASSUME RecordTypes, NEW kind
  PROVE  /\ First(kind) = 0 => \A i \in 1..Len(tests) : tests[i].status # kind
         /\ First(kind) # 0 => First(kind) \in 1..Len(tests) /\ tests[First(kind)].status = kind
<1> DEFINE I == {i \in 1..Len(tests) : tests[i].status = kind}
<1>1. First(kind) = IF I # {} THEN Min(I) ELSE 0
  BY DEF First, SelectInSeq
<1>2. Len(tests) \in Nat
  BY DEF RecordTypes
<1>3. I # {} => Min(I) \in I
  BY <1>2, FirstOf
<1> QED
  BY <1>1, <1>3

LEMMA RecordStart == RecordInit => RecordIInv
<1> SUFFICES ASSUME RecordInit PROVE RecordIInv
  OBVIOUS
<1>1. RecordTypes
  <2>1. /\ <<>> \in Seq(TestRecord) /\ <<>> \in Seq(HistoryRun) /\ <<>> \in Seq(TrueRun)
        /\ Len(<<>>) = 0 /\ 0 <= MaxRuns
    BY RunRecordAssumption
  <2>2. compile \in [Bench -> {Absent} \cup CompileRecord]
    BY DEF RecordInit
  <2> QED
    BY <2>1, <2>2 DEF RecordInit, RecordTypes
<1>2. Entries
  <2>1. tests = <<>> /\ Len(tests) = 0 /\ Compiled = {}
    BY DEF RecordInit, Compiled
  <2> QED
    BY <2>1 DEF RecordInit, Entries
<1>3. SummedUp /\ Kept
  BY DEF RecordInit, SummedUp, Kept
<1> QED
  BY <1>1, <1>2, <1>3 DEF RecordIInv

\* What steps that add to the record do not touch
LEMMA SameHistory ==
  ASSUME RecordIInv, UNCHANGED <<outcome, history, truth>>, phase # "finalized", phase' # "finalized"
  PROVE  SummedUp' /\ Kept'
BY DEF RecordIInv, SummedUp, Kept, NoTiming, NoSummary, IsFailedHistoryRun, outcome

LEMMA CreateStep ==
  ASSUME RecordIInv, CreateRun
  PROVE  RecordIInv'
<1>1. RecordTypes'
  BY DEF RecordIInv, RecordTypes, CreateRun, outcome
<1>2. Entries'
  <2>1. tests' = <<>> /\ Len(tests') = 0 /\ compile' = [b \in Bench |-> Absent]
    BY DEF RecordIInv, Entries, CreateRun
  <2>2. Compiled' = {}
    BY <2>1 DEF Compiled
  <2>3. phase' = "open" /\ planned' # {}
    BY DEF CreateRun
  <2> QED
    BY <2>1, <2>2, <2>3 DEF Entries
<1>3. SummedUp' /\ Kept'
  BY SameHistory DEF CreateRun
<1> QED
  BY <1>1, <1>2, <1>3 DEF RecordIInv

LEMMA TimesType == Times \subseteq {<<>>} \cup Interval
BY DEF Times

LEMMA CompileStep ==
  ASSUME RecordIInv, NEW b \in Bench, RecordCompileJob(b)
  PROVE  RecordIInv'
<1>1. /\ phase = "open" /\ phase' = "open"
      /\ UNCHANGED <<planned, tests, again, outcome, history, truth>>
      /\ \E t \in planned : BenchOf[t] = b
  BY DEF RecordCompileJob
<1>2. PICK record \in CompileRecord : compile' = [compile EXCEPT ![b] = record]
  BY TimesType DEF RecordCompileJob, CompileRecord
<1>3. record # Absent
  BY RunRecordAssumption DEF CompileRecord
<1>4. RecordTypes'
  BY <1>1, <1>2 DEF RecordIInv, RecordTypes, outcome
<1>5. \A c \in Bench : compile'[c] # Absent <=> compile[c] # Absent \/ c = b
  BY <1>2, <1>3 DEF RecordIInv, RecordTypes
<1>6. Entries'
  <2>1. Compiled' = Compiled \cup {b}
    BY <1>5 DEF Compiled
  <2>2. \A i \in 1..Len(tests) : BenchOf[tests[i].test] \in Bench
    <3>1. \A i \in 1..Len(tests) : tests[i] \in TestRecord
      BY DEF RecordIInv, RecordTypes
    <3> QED
      BY <3>1, RunRecordAssumption DEF TestRecord
  <2>3. \A i \in 1..Len(tests) : compile'[BenchOf[tests[i].test]] # Absent
    BY <1>5, <2>2 DEF RecordIInv, Entries
  <2> QED
    BY <1>1, <2>1, <2>3 DEF RecordIInv, Entries
<1>7. SummedUp' /\ Kept'
  BY <1>1, SameHistory
<1> QED
  BY <1>4, <1>6, <1>7 DEF RecordIInv

LEMMA TestStep ==
  ASSUME RecordIInv, NEW t \in Test, RecordTestJob(t)
  PROVE  RecordIInv'
<1>1. /\ phase = "open" /\ phase' = "open" /\ t \in planned /\ compile[BenchOf[t]] # Absent
      /\ UNCHANGED <<planned, compile, outcome, history, truth>>
  BY DEF RecordTestJob
<1>2. PICK record \in TestRecord : record.test = t /\ tests' = Put(record)
  <2>1. PICK how \in Statuses, interval \in Times, started \in BOOLEAN :
          tests' = Put([test |-> t, status |-> how, started |-> started, interval |-> interval])
    BY Zenon DEF RecordTestJob, Statuses
  <2>2. [test |-> t, status |-> how, started |-> started, interval |-> interval] \in TestRecord
    BY TimesType DEF TestRecord
  <2> QED
    BY <2>1, <2>2
<1>3. tests \in Seq(TestRecord) /\ Len(tests) \in Nat
  BY DEF RecordIInv, RecordTypes
<1> DEFINE k == IF IndexOf(t) = 0 THEN Len(tests) + 1 ELSE IndexOf(t)
<1>4. /\ tests' \in Seq(TestRecord) /\ k \in 1..Len(tests')
      /\ \A i \in 1..Len(tests') : i # k => i \in 1..Len(tests) /\ tests'[i] = tests[i] /\ tests[i].test # t
      /\ tests'[k] = record
  <2>1. CASE IndexOf(t) = 0
    <3>1. tests' = Append(tests, record) /\ \A i \in 1..Len(tests) : tests[i].test # t
      BY <1>2, <2>1, EntryOf DEF RecordIInv, Put
    <3> QED
      BY <1>3, <2>1, <3>1
  <2>2. CASE IndexOf(t) # 0
    <3>1. IndexOf(t) \in 1..Len(tests) /\ tests[IndexOf(t)].test = t
      BY <2>2, EntryOf DEF RecordIInv
    <3>2. tests' = [tests EXCEPT ![IndexOf(t)] = record]
      BY <1>2, <2>2 DEF Put
    <3>3. tests' \in Seq(TestRecord) /\ Len(tests') = Len(tests)
      BY <1>3, <3>1, <3>2
    <3>4. \A i \in 1..Len(tests) : tests[i].test = t => i = IndexOf(t)
      BY <3>1 DEF RecordIInv, Entries
    <3> QED
      BY <1>3, <2>2, <3>1, <3>2, <3>3, <3>4
  <2> QED
    BY <2>1, <2>2
<1> HIDE DEF k
<1>5. RecordTypes'
  BY <1>1, <1>4 DEF RecordIInv, RecordTypes, outcome
<1>6. Entries'
  <2>1. \A i \in 1..Len(tests') : tests'[i].test \in planned /\ compile[BenchOf[tests'[i].test]] # Absent
    BY <1>1, <1>2, <1>4 DEF RecordIInv, Entries
  <2>2. \A i, j \in 1..Len(tests') : tests'[i].test = tests'[j].test => i = j
    <3> SUFFICES ASSUME NEW i \in 1..Len(tests'), NEW j \in 1..Len(tests'), tests'[i].test = tests'[j].test
                 PROVE  i = j
      OBVIOUS
    <3>1. i # k => i \in 1..Len(tests) /\ tests'[i] = tests[i] /\ tests[i].test # t
      BY <1>4
    <3>2. j # k => j \in 1..Len(tests) /\ tests'[j] = tests[j] /\ tests[j].test # t
      BY <1>4
    <3>3. tests'[k].test = t
      BY <1>2, <1>4
    <3> QED
      BY <3>1, <3>2, <3>3 DEF RecordIInv, Entries
  <2>3. Compiled' = Compiled
    BY <1>1 DEF Compiled
  <2> QED
    BY <1>1, <2>1, <2>2, <2>3 DEF RecordIInv, Entries
<1>7. SummedUp' /\ Kept'
  BY <1>1, SameHistory
<1> QED
  BY <1>5, <1>6, <1>7 DEF RecordIInv

LEMMA FinalizeStep ==
  ASSUME RecordIInv, FinalizeRun
  PROVE  RecordIInv'
<1>1. /\ phase = "open" /\ phase' = "finalized"
      /\ UNCHANGED <<planned, compile, tests, again, history, truth>>
  BY DEF FinalizeRun, run
<1>2. RecordTypes'
  <2>1. unclean' \in BOOLEAN
    BY DEF FinalizeRun
  <2> QED
    BY <1>1, <2>1 DEF RecordIInv, RecordTypes
<1>3. Compiled' = Compiled /\ Recorded' = Recorded
  BY <1>1 DEF Compiled, Recorded
<1>4. Entries'
  BY <1>1, <1>3 DEF RecordIInv, Entries
<1>5. SummedUp'
  <2>1. CompileIntervals' = CompileIntervals /\ TestIntervals' = TestIntervals /\ Skipped' = Skipped
    BY <1>1, <1>3 DEF CompileIntervals, TestIntervals, Skipped
  <2>2. \A kind : Count(kind)' = Count(kind)
    BY <1>3 DEF Count
  <2>3. \E launch_failed \in BOOLEAN : ending' = Ending(unclean, launch_failed)'
    <3>1. PICK backend_failed \in BOOLEAN, launch_failed \in BOOLEAN :
            ending' = Ending(backend_failed, launch_failed) /\ unclean' = backend_failed
      BY DEF FinalizeRun
    <3>2. Ending(unclean, launch_failed)' = Ending(backend_failed, launch_failed)
      BY <1>1, <1>3, <2>1, <2>2, <3>1 DEF Ending
    <3> QED
      BY <3>1, <3>2
  <2> QED
    BY <1>1, <1>3, <2>1, <2>2, <2>3 DEF FinalizeRun, SummedUp
<1>6. Kept'
  BY <1>1 DEF RecordIInv, Kept, IsFailedHistoryRun
<1> QED
  BY <1>2, <1>4, <1>5, <1>6 DEF RecordIInv

LEMMA RecordedFinite ==
  ASSUME RecordTypes
  PROVE  /\ Recorded = {tests[i] : i \in 1..Len(tests)} /\ IsFiniteSet(Recorded)
         /\ \A P \in SUBSET Recorded : IsFiniteSet(P) /\ Cardinality(P) \in Nat
<1>1. Len(tests) \in Nat /\ DOMAIN tests = 1..Len(tests)
  BY DEF RecordTypes
<1>2. Recorded = {tests[i] : i \in 1..Len(tests)}
  BY <1>1 DEF Recorded, ToSet
<1>3. IsFiniteSet(Recorded)
  <2>1. IsFiniteSet(1..Len(tests))
    BY <1>1, FS_Interval
  <2> DEFINE entry == [i \in 1..Len(tests) |-> tests[i]]
  <2>2. entry \in Surjection(1..Len(tests), Recorded)
    BY <1>2 DEF Surjection
  <2> QED
    BY <2>1, <2>2, FS_Surjection
<1> QED
  BY <1>2, <1>3, FS_Subset, FS_CardinalityType

\* What is stored of a run is true of it
LEMMA StoredRight ==
  ASSUME RecordIInv, phase = "finalized", Recorded # {}
  PROVE  /\ Stored \in HistoryRun
         /\ Stored.benches = {BenchOf[t] : t \in planned} \cap Compiled
         /\ LET wrong == {r.test : r \in {r \in Recorded : r.status = "FAILED"}} IN
            /\ wrong \in SUBSET Test
            /\ IsFailedHistoryRun(Stored) <=> wrong # {} \/ unclean
            /\ wrong # {} /\ Stored.multi => Stored.shown \in wrong
<1> DEFINE wrong == {r.test : r \in {r \in Recorded : r.status = "FAILED"}}
<1>1. RecordTypes /\ Entries /\ SummedUp
  BY DEF RecordIInv
<1>2. /\ Recorded = {tests[i] : i \in 1..Len(tests)} /\ IsFiniteSet(Recorded)
      /\ \A P \in SUBSET Recorded : IsFiniteSet(P) /\ Cardinality(P) \in Nat
  BY <1>1, RecordedFinite
<1>3. Len(tests) \in Nat /\ Len(tests) # 0 /\ \A i \in 1..Len(tests) : tests[i] \in TestRecord
  BY <1>1, <1>2 DEF RecordTypes
<1>4. wrong = {tests[i].test : i \in {i \in 1..Len(tests) : tests[i].status = "FAILED"}}
  BY <1>2
<1>5. summary.failed \in Nat /\ (summary.failed > 0 <=> wrong # {})
  <2> DEFINE F == {r \in Recorded : r.status = "FAILED"}
  <2>1. F \in SUBSET Recorded /\ summary.failed = Cardinality(F)
    BY <1>1 DEF SummedUp, Count
  <2>2. wrong # {} <=> F # {}
    OBVIOUS
  <2> HIDE DEF F, wrong
  <2>3. IsFiniteSet(F) /\ Cardinality(F) \in Nat
    BY <1>2, <2>1
  <2>4. Cardinality(F) = 0 <=> F = {}
    BY <2>3, FS_EmptySet
  <2> QED
    BY <2>1, <2>2, <2>3, <2>4
<1>6. StoredBenches = {BenchOf[t] : t \in planned} \cap Compiled /\ StoredBenches \in SUBSET Bench
  <2>1. \A r \in Recorded : r.test \in Test /\ BenchOf[r.test] \in Compiled
    BY <1>1, <1>2, <1>3, RunRecordAssumption DEF Entries, Compiled, TestRecord
  <2>2. StoredBenches = Compiled
    BY <2>1 DEF StoredBenches
  <2>3. \A b \in Compiled : b \in {BenchOf[t] : t \in planned}
    BY <1>1 DEF Entries
  <2> QED
    BY <2>2, <2>3 DEF Compiled
<1>7. \E i \in 1..Len(tests) :
        StoredTest = tests[i] /\ (wrong # {} /\ Cardinality(planned) > 1 => tests[i].status = "FAILED")
  <2>1. 1 \in 1..Len(tests)
    BY <1>3
  <2>2. CASE Cardinality(planned) > 1 /\ Len(tests) > 1
    <3>1. StoredTest = Representative
      BY <2>2 DEF StoredTest
    <3>2. CASE First("FAILED") # 0
      BY <1>1, <3>1, <3>2, EntryWith DEF Representative
    <3>3. CASE First("FAILED") = 0
      <4>1. wrong = {}
        BY <1>1, <1>4, <3>3, EntryWith
      <4>2. First("INTERRUPTED") # 0 => First("INTERRUPTED") \in 1..Len(tests)
        BY <1>1, EntryWith
      <4> QED
        BY <2>1, <3>1, <3>3, <4>1, <4>2 DEF Representative
    <3> QED
      BY <3>2, <3>3
  <2>3. CASE ~(Cardinality(planned) > 1 /\ Len(tests) > 1)
    <3>1. StoredTest = tests[1]
      BY <2>3 DEF StoredTest
    <3>2. Cardinality(planned) > 1 => 1..Len(tests) = {1}
      BY <1>3, <2>3
    <3>3. wrong # {} /\ Cardinality(planned) > 1 => tests[1].status = "FAILED"
      BY <1>4, <3>2
    <3> QED
      BY <2>1, <3>1, <3>3
  <2> QED
    BY <2>2, <2>3
<1>8. StoredTest.test \in Test /\ (wrong # {} /\ Cardinality(planned) > 1 => StoredTest.test \in wrong)
  BY <1>3, <1>4, <1>7 DEF TestRecord
<1>9. wrong \in SUBSET Test
  BY <1>3, <1>4 DEF TestRecord
<1> HIDE DEF wrong
<1>10. /\ ending \in Endings
       /\ ending \in {"FAILED", "COMPILE_FAILED"} \/ summary.failed > 0 <=> wrong # {} \/ unclean
  <2>1. PICK launch_failed \in BOOLEAN : ending = Ending(unclean, launch_failed)
    BY <1>1 DEF SummedUp
  <2>2. summary.failed = Count("FAILED") /\ unclean \in BOOLEAN
    BY <1>1 DEF SummedUp, RecordTypes
  <2> QED
    BY <1>5, <2>1, <2>2 DEF Ending, Endings
<1>11. /\ Stored.benches = StoredBenches /\ Stored.failed = summary.failed /\ Stored.status = ending
       /\ Stored.multi = (Cardinality(planned) > 1) /\ Stored.shown = StoredTest.test
       /\ Stored \in HistoryRun
  BY <1>5, <1>6, <1>8, <1>10 DEF Stored, HistoryRun
<1> QED
  BY <1>5, <1>6, <1>8, <1>9, <1>10, <1>11 DEF wrong, IsFailedHistoryRun

LEMMA LastAppended ==
  ASSUME NEW T, NEW s \in Seq(T), NEW e \in T
  PROVE  Append(s, e)[Len(s) + 1] = e
OBVIOUS

LEMMA SaveStep ==
  ASSUME RecordIInv, SaveRun
  PROVE  RecordIInv'
<1>1. /\ phase = "finalized" /\ phase' = "idle" /\ planned' = {}
      /\ compile' = [b \in Bench |-> Absent] /\ tests' = <<>>
      /\ timing' = NoTiming /\ summary' = NoSummary /\ unclean' \in BOOLEAN
  BY DEF SaveRun
<1>2. Entries'
  <2>1. Compiled' = {} /\ Len(tests') = 0
    BY <1>1 DEF Compiled
  <2> QED
    BY <1>1, <2>1 DEF Entries
<1>3. SummedUp'
  BY <1>1 DEF SummedUp
<1>4. /\ history \in Seq(HistoryRun) /\ truth \in Seq(TrueRun) /\ Len(history) = Len(truth)
      /\ Len(history) \in Nat /\ Len(history) < MaxRuns /\ MaxRuns \in Nat
  BY <1>1, RunRecordAssumption DEF RecordIInv, RecordTypes
<1>5. Kept
  BY DEF RecordIInv
<1>6. CASE Recorded = {}
  <2>1. UNCHANGED <<history, truth>>
    BY <1>6 DEF SaveRun
  <2>2. RecordTypes'
    <3>1. <<>> \in Seq(TestRecord)
      OBVIOUS
    <3>2. compile' \in [Bench -> {Absent} \cup CompileRecord]
      BY <1>1
    <3> QED
      BY <1>1, <1>4, <2>1, <3>1, <3>2 DEF RecordTypes
  <2>3. Kept'
    BY <1>5, <2>1 DEF Kept, IsFailedHistoryRun
  <2> QED
    BY <1>2, <1>3, <2>2, <2>3 DEF RecordIInv
<1>7. CASE Recorded # {}
  <2> DEFINE wrong == {r.test : r \in {r \in Recorded : r.status = "FAILED"}}
             was == [benches |-> {BenchOf[t] : t \in planned} \cap Compiled, failed |-> wrong,
                     unclean |-> unclean]
  <2>1. /\ Stored \in HistoryRun /\ Stored.benches = {BenchOf[t] : t \in planned} \cap Compiled
        /\ wrong \in SUBSET Test
        /\ IsFailedHistoryRun(Stored) <=> wrong # {} \/ unclean
        /\ wrong # {} /\ Stored.multi => Stored.shown \in wrong
    BY <1>1, <1>7, StoredRight
  <2>2. \/ history' = Append(history, Stored) /\ truth' = Append(truth, was)
        \/ UNCHANGED <<history, truth>>
    BY DEF SaveRun
  <2>3. was \in TrueRun /\ was.benches = Stored.benches /\ was.failed = wrong /\ was.unclean = unclean
    <3>1. unclean \in BOOLEAN
      BY DEF RecordIInv, RecordTypes
    <3> QED
      BY <2>1, <3>1 DEF Compiled, TrueRun
  <2> HIDE DEF wrong, was
  <2>4. /\ history' \in Seq(HistoryRun) /\ truth' \in Seq(TrueRun) /\ Len(history') = Len(truth')
        /\ Len(history') <= MaxRuns
    BY <1>4, <2>1, <2>2, <2>3
  <2>5. RecordTypes'
    <3>1. <<>> \in Seq(TestRecord)
      OBVIOUS
    <3>2. compile' \in [Bench -> {Absent} \cup CompileRecord]
      BY <1>1
    <3> QED
      BY <1>1, <2>4, <3>1, <3>2 DEF RecordTypes
  <2>6. Kept'
    <3> SUFFICES ASSUME NEW k \in 1..Len(history')
                 PROVE  /\ history'[k].benches = truth'[k].benches
                        /\ IsFailedHistoryRun(history'[k]) <=> truth'[k].failed # {} \/ truth'[k].unclean
                        /\ truth'[k].failed # {} /\ history'[k].multi => history'[k].shown \in truth'[k].failed
      BY DEF Kept, IsFailedHistoryRun
    <3>1. CASE k \in 1..Len(history) /\ history'[k] = history[k] /\ truth'[k] = truth[k]
      BY <1>5, <3>1 DEF Kept, IsFailedHistoryRun
    <3>2. CASE history'[k] = Stored /\ truth'[k] = was
      BY <2>1, <2>3, <3>2
    <3>3. \/ k \in 1..Len(history) /\ history'[k] = history[k] /\ truth'[k] = truth[k]
          \/ history'[k] = Stored /\ truth'[k] = was
      <4>1. CASE history' = Append(history, Stored) /\ truth' = Append(truth, was)
        <5>1. k \in 1..Len(history) \/ k = Len(history) + 1
          BY <1>4, <4>1
        <5>2. CASE k \in 1..Len(history)
          <6>1. history'[k] = history[k] /\ truth'[k] = truth[k]
            BY <1>4, <4>1, <5>2
          <6> QED
            BY <5>2, <6>1
        <5>3. CASE k = Len(history) + 1
          <6>1. history'[k] = Stored
            BY <1>4, <2>1, <4>1, <5>3, LastAppended
          <6>2. truth'[k] = was
            BY <1>4, <2>3, <4>1, <5>3, LastAppended
          <6> QED
            BY <6>1, <6>2
        <5> QED
          BY <5>1, <5>2, <5>3
      <4>2. CASE UNCHANGED <<history, truth>>
        BY <4>2
      <4> QED
        BY <2>2, <4>1, <4>2
    <3> QED
      BY <3>1, <3>2, <3>3
  <2> QED
    BY <1>2, <1>3, <2>5, <2>6 DEF RecordIInv
<1> QED
  BY <1>6, <1>7

LEMMA RecordSame ==
  ASSUME RecordIInv, UNCHANGED recordVars
  PROVE  RecordIInv'
<1>1. UNCHANGED <<phase, planned, compile, tests, again, timing, summary, ending, unclean, history, truth>>
  BY DEF recordVars, run, outcome
<1>2. RecordTypes' /\ Kept'
  BY <1>1 DEF RecordIInv, RecordTypes, Kept, IsFailedHistoryRun
<1>3. Compiled' = Compiled /\ Recorded' = Recorded
  BY <1>1 DEF Compiled, Recorded
<1>4. Entries'
  BY <1>1, <1>3 DEF RecordIInv, Entries
<1>5. SummedUp'
  <2>1. CompileIntervals' = CompileIntervals /\ TestIntervals' = TestIntervals /\ Skipped' = Skipped
    BY <1>1, <1>3 DEF CompileIntervals, TestIntervals, Skipped
  <2>2. \A kind : Count(kind)' = Count(kind)
    BY <1>3 DEF Count
  <2>3. \A launch_failed : Ending(unclean, launch_failed)' = Ending(unclean, launch_failed)
    BY <1>1, <1>3, <2>1, <2>2 DEF Ending
  <2> QED
    BY <1>1, <1>3, <2>1, <2>2, <2>3 DEF RecordIInv, SummedUp
<1> QED
  BY <1>2, <1>4, <1>5 DEF RecordIInv

LEMMA RecordInvariant == RecordSpec => []RecordIInv
<1>1. RecordIInv /\ [RecordNext]_recordVars => RecordIInv'
  <2> SUFFICES ASSUME RecordIInv, [RecordNext]_recordVars PROVE RecordIInv'
    OBVIOUS
  <2>1. CASE CreateRun
    BY <2>1, CreateStep
  <2>2. CASE FinalizeRun
    BY <2>2, FinalizeStep
  <2>3. CASE SaveRun
    BY <2>3, SaveStep
  <2>4. CASE \E b \in Bench : RecordCompileJob(b)
    BY <2>4, CompileStep
  <2>5. CASE \E t \in Test : RecordTestJob(t)
    BY <2>5, TestStep
  <2>6. CASE UNCHANGED recordVars
    BY <2>6, RecordSame
  <2> QED
    BY <2>1, <2>2, <2>3, <2>4, <2>5, <2>6 DEF RecordNext
<1> QED
  BY <1>1, RecordStart, PTL DEF RecordSpec

-----------------------------------------------------------------------------
(* RunRecord: the summary *)

LEMMA EntriesDistinct ==
  ASSUME RecordTypes, Entries
  PROVE  Cardinality(Recorded) = Len(tests) /\ Len(tests) <= Cardinality(planned)
         /\ Cardinality(planned) \in Nat
<1> DEFINE n == Len(tests)
           entry == [i \in 1..n |-> tests[i]]
           name == [i \in 1..n |-> tests[i].test]
<1>1. n \in Nat /\ IsFiniteSet(planned) /\ Cardinality(planned) \in Nat
  BY RunRecordAssumption, FS_Subset, FS_CardinalityType DEF RecordTypes
<1>2. IsFiniteSet(1..n) /\ Cardinality(1..n) = n
  <2> HIDE DEF n
  <2> QED
    BY <1>1, FS_Interval
<1>3. Recorded = {tests[i] : i \in 1..n} /\ IsFiniteSet(Recorded)
  BY RecordedFinite
<1>4. entry \in Surjection(1..n, Recorded)
  BY <1>3 DEF Surjection
<1>5. entry \in Injection(1..n, Recorded)
  BY <1>3 DEF Entries, Injection, IsInjective
<1>6. name \in Injection(1..n, planned)
  BY DEF Entries, Injection, IsInjective
<1> HIDE DEF entry, name, n
<1>7. Cardinality(Recorded) = n
  BY <1>2, <1>4, <1>5, FS_Surjection
<1>8. n <= Cardinality(planned)
  BY <1>1, <1>2, <1>6, FS_Injection
<1> QED
  BY <1>1, <1>7, <1>8 DEF n

LEMMA EachCountedOnce ==
  ASSUME RecordIInv
  PROVE  /\ SummaryCountsEachOnce /\ PassedIsAllPassed
         /\ \A counter \in DOMAIN summary : summary[counter] \in Nat
<1> DEFINE P == {r \in Recorded : r.status = "PASSED"}
           F == {r \in Recorded : r.status = "FAILED"}
           I == {r \in Recorded : r.status = "INTERRUPTED"}
<1>1. RecordTypes /\ Entries /\ SummedUp
  BY DEF RecordIInv
<1>2. /\ \A Q \in SUBSET Recorded : IsFiniteSet(Q) /\ Cardinality(Q) \in Nat
      /\ \A r \in Recorded : r.status \in Statuses
  <2>1. \A i \in 1..Len(tests) : tests[i] \in TestRecord
    BY <1>1 DEF RecordTypes
  <2>2. Recorded = {tests[i] : i \in 1..Len(tests)}
    BY <1>1, RecordedFinite
  <2> QED
    BY <1>1, <2>1, <2>2, RecordedFinite DEF TestRecord
<1>3. P \cup F \cup I = Recorded /\ P \cap F = {} /\ (P \cup F) \cap I = {}
  BY <1>2 DEF Statuses
<1>4. P \in SUBSET Recorded /\ F \in SUBSET Recorded /\ I \in SUBSET Recorded
  OBVIOUS
<1>5. Count("PASSED") = Cardinality(P) /\ Count("FAILED") = Cardinality(F) /\ Count("INTERRUPTED") = Cardinality(I)
  BY DEF Count
<1> HIDE DEF P, F, I
<1>6. /\ IsFiniteSet(P) /\ IsFiniteSet(F) /\ IsFiniteSet(I) /\ IsFiniteSet(P \cup F)
      /\ Cardinality(P) \in Nat /\ Cardinality(F) \in Nat /\ Cardinality(I) \in Nat
  BY <1>2, <1>4, FS_Union
<1>7. Cardinality(P) + Cardinality(F) + Cardinality(I) = Cardinality(Recorded)
  <2>1. Cardinality(P \cup F) = Cardinality(P) + Cardinality(F) - Cardinality(P \cap F)
    BY <1>6, FS_Union
  <2>2. Cardinality((P \cup F) \cup I) = Cardinality(P \cup F) + Cardinality(I) - Cardinality((P \cup F) \cap I)
    BY <1>6, FS_Union
  <2>3. Cardinality(P \cap F) = 0 /\ Cardinality((P \cup F) \cap I) = 0
    BY <1>3, FS_EmptySet
  <2>4. Cardinality(P \cup F) = Cardinality(P) + Cardinality(F)
    BY <1>6, <2>1, <2>3
  <2>5. Cardinality((P \cup F) \cup I) = Cardinality(P) + Cardinality(F) + Cardinality(I)
    BY <1>6, <2>2, <2>3, <2>4
  <2> QED
    BY <1>3, <2>5
<1>8. /\ Cardinality(Recorded) = Len(tests) /\ Len(tests) <= Cardinality(planned)
      /\ Len(tests) \in Nat /\ Cardinality(planned) \in Nat
  BY <1>1, EntriesDistinct DEF RecordTypes
<1>9. Skipped = Cardinality(planned) - Len(tests) /\ Skipped \in Nat
  BY <1>8 DEF Skipped
<1>10. CASE phase = "finalized"
  <2>1. summary = [passed |-> Cardinality(P), failed |-> Cardinality(F),
                   interrupted |-> Cardinality(I), skipped |-> Skipped]
    BY <1>1, <1>5, <1>10 DEF SummedUp
  <2>2. /\ summary.passed = Cardinality(P) /\ summary.failed = Cardinality(F)
        /\ summary.interrupted = Cardinality(I) /\ summary.skipped = Skipped
    BY <2>1
  <2>3. summary.passed + summary.failed + summary.interrupted + summary.skipped = Cardinality(planned)
    BY <1>6, <1>7, <1>8, <1>9, <2>2
  <2>4. \A counter \in DOMAIN summary : summary[counter] \in Nat
    BY <1>6, <1>9, <2>1
  <2>5. ending = "PASSED" <=> ~unclean /\ summary.passed = Cardinality(planned)
    <3>1. PICK launch_failed \in BOOLEAN : ending = Ending(unclean, launch_failed)
      BY <1>1, <1>10 DEF SummedUp
    <3>2. Cardinality(planned) > 0
      BY <1>1, <1>8, <1>10, RunRecordAssumption, FS_Subset, FS_EmptySet DEF Entries, RecordTypes
    <3>3. Recorded = {} <=> Len(tests) = 0
      BY <1>2, <1>8, RecordedFinite, FS_EmptySet, <1>1
    <3>4. Cardinality(Recorded) = Len(tests) /\ unclean \in BOOLEAN
      BY <1>1, <1>8 DEF RecordTypes
    <3> QED
      BY <1>5, <1>6, <1>7, <1>8, <1>9, <2>2, <3>1, <3>2, <3>3, <3>4 DEF Ending
  <2> QED
    BY <2>3, <2>4, <2>5 DEF SummaryCountsEachOnce, PassedIsAllPassed
<1>11. CASE phase # "finalized"
  BY <1>1, <1>11 DEF SummedUp, NoSummary, SummaryCountsEachOnce, PassedIsAllPassed
<1> QED
  BY <1>10, <1>11

LEMMA TimesRight ==
  ASSUME RecordIInv
  PROVE  ElapsedIsUnion /\ timing.compile \in Nat \cup {Absent} /\ timing.simulate \in Nat \cup {Absent}
<1>1. RecordTypes /\ SummedUp
  BY DEF RecordIInv
<1>2. CASE phase # "finalized"
  BY <1>1, <1>2 DEF SummedUp, NoTiming, ElapsedIsUnion
<1>3. CASE phase = "finalized"
  <2>1. timing.compile = Elapsed(CompileIntervals) /\ timing.simulate = Elapsed(TestIntervals)
    BY <1>1, <1>3 DEF SummedUp
  <2>2. CompileIntervals \subseteq Interval /\ IsFiniteSet(CompileIntervals)
    <3>1. CompileIntervals \subseteq Interval
      BY <1>1 DEF RecordTypes, CompileIntervals, Compiled, CompileRecord
    <3> DEFINE All == {compile[b].interval : b \in Compiled}
               f == [b \in Compiled |-> compile[b].interval]
    <3>2. IsFiniteSet(Compiled)
      BY RunRecordAssumption, FS_Subset DEF Compiled
    <3>3. f \in Surjection(Compiled, All)
      BY DEF Surjection
    <3>4. IsFiniteSet(All)
      BY <3>2, <3>3, FS_Surjection
    <3>5. CompileIntervals \in SUBSET All
      BY DEF CompileIntervals
    <3> QED
      BY <3>1, <3>4, <3>5, FS_Subset
  <2>3. TestIntervals \subseteq Interval /\ IsFiniteSet(TestIntervals)
    <3>1. TestIntervals \subseteq Interval
      <4>1. \A i \in 1..Len(tests) : tests[i] \in TestRecord
        BY <1>1 DEF RecordTypes
      <4>2. Recorded = {tests[i] : i \in 1..Len(tests)}
        BY <1>1, RecordedFinite
      <4>3. \A r \in Recorded : r.interval \in {<<>>} \cup Interval
        BY <4>1, <4>2 DEF TestRecord
      <4> QED
        BY <4>3 DEF TestIntervals
    <3> DEFINE Started == {r \in Recorded : r.started}
               All == {r.interval : r \in Started}
               f == [r \in Started |-> r.interval]
    <3>2. IsFiniteSet(Started)
      BY <1>1, RecordedFinite
    <3>3. f \in Surjection(Started, All)
      BY DEF Surjection
    <3>4. IsFiniteSet(All)
      <4> HIDE DEF Started
      <4> QED
        BY <3>2, <3>3, FS_Surjection
    <3>5. TestIntervals \in SUBSET All
      BY DEF TestIntervals
    <3> QED
      BY <3>1, <3>4, <3>5, FS_Subset
  <2>4. \A S : S \subseteq Interval /\ IsFiniteSet(S) =>
          /\ Elapsed(S) \in Nat \cup {Absent}
          /\ S # {} => Elapsed(S) = Cardinality(Covered(S))
    <3> SUFFICES ASSUME NEW S, S \subseteq Interval, IsFiniteSet(S)
                 PROVE  /\ Elapsed(S) \in Nat \cup {Absent}
                        /\ S # {} => Elapsed(S) = Cardinality(Covered(S))
      OBVIOUS
    <3>1. CASE S = {}
      BY <3>1 DEF Elapsed
    <3>2. CASE S # {}
      BY <3>2, ElapsedCountsMoments
    <3> QED
      BY <3>1, <3>2
  <2>5. TestIntervals = {r.interval : r \in {x \in Recorded : x.started}} \ {<<>>}
    BY DEF TestIntervals
  <2> QED
    BY <1>3, <2>1, <2>2, <2>3, <2>4, <2>5 DEF ElapsedIsUnion
<1> QED
  BY <1>2, <1>3

-----------------------------------------------------------------------------
(* RunRecord: the history and its filters *)

\* A part of an ascending sequence has as many elements as positions
LEMMA PartCount ==
  ASSUME NEW m \in Nat, NEW s \in Seq(1..m), Ascends(s), NEW a \in 1..(Len(s) + 1), NEW b \in 0..Len(s), a <= b + 1
  PROVE  Cardinality({s[q] : q \in a..b}) = b - a + 1
<1> DEFINE part == [q \in a..b |-> s[q]]
           P == {s[q] : q \in a..b}
<1>1. Len(s) \in Nat /\ \A q \in a..b : q \in 1..Len(s) /\ s[q] \in 1..m
  OBVIOUS
<1>2. part \in Surjection(a..b, P)
  BY DEF Surjection
<1>3. part \in Injection(a..b, P)
  <2>1. ASSUME NEW i \in a..b, NEW j \in a..b, part[i] = part[j] PROVE i = j
    <3>1. i \in 1..Len(s) /\ j \in 1..Len(s) /\ s[i] = s[j] /\ s[i] \in Int /\ s[j] \in Int
      BY <1>1, <2>1
    <3>2. ~(i < j) /\ ~(j < i)
      BY <3>1 DEF Ascends
    <3> QED
      BY <3>1, <3>2
  <2> QED
    BY <2>1 DEF Injection, IsInjective
<1>4. a \in Int /\ b \in Int
  OBVIOUS
<1>5. IsFiniteSet(a..b) /\ Cardinality(a..b) = b - a + 1
  <2>1. IsFiniteSet(a..b) /\ Cardinality(a..b) = IF a > b THEN 0 ELSE b - a + 1
    BY <1>4, FS_Interval
  <2>2. a > b => b - a + 1 = 0
    BY <1>4
  <2> QED
    BY <2>1, <2>2
<1> HIDE DEF part, P
<1>6. Cardinality(P) = Cardinality(a..b)
  BY <1>2, <1>3, <1>5, FS_Surjection
<1> QED
  BY <1>5, <1>6 DEF P

Newest(S, count) == {k \in S : Cardinality({j \in S : j >= k}) <= count}
RankIn(S, k) == Cardinality({j \in S : j <= k})

\* The last n of some numbers: which they are, and where each of them is
LEMMA LastOnes ==
  ASSUME NEW m \in Nat, NEW S \in SUBSET (1..m), NEW count \in Nat
  PROVE  LET c == Cardinality(S)
             n == IF count <= c THEN count ELSE c
         IN  /\ Cardinality(Newest(S, count)) = n
             /\ \A k \in Newest(S, count) :
                  LET r == RankIn(Newest(S, count), k) IN r \in 1..n /\ Numbers(S)[c - n + r] = k
<1> DEFINE c == Cardinality(S)
           n == IF count <= c THEN count ELSE c
           s == Numbers(S)
           newest == Newest(S, count)
<1>1. s \in Seq(S) /\ s \in Seq(1..m) /\ Len(s) = c /\ c \in Nat /\ Ascends(s) /\ ToSet(s) = S
  <2>1. s \in Seq(S) /\ Len(s) = c /\ c \in Nat /\ Ascends(s) /\ ToSet(s) = S
    BY NumbersLists
  <2> HIDE DEF s, c
  <2>2. \A i \in 1..c : s[i] \in 1..m
    <3> SUFFICES ASSUME NEW i \in 1..c PROVE s[i] \in 1..m
      OBVIOUS
    <3>1. s[i] \in S
      BY <2>1
    <3> QED
      BY <3>1
  <2>3. s = [i \in 1..c |-> s[i]]
    BY <2>1
  <2>4. s \in Seq(1..m)
    BY <2>1, <2>2, <2>3
  <2> QED
    BY <2>1, <2>4
<1>2. S = {s[q] : q \in 1..c}
  BY <1>1 DEF ToSet
<1> HIDE DEF s, c
<1>3. n \in Nat /\ n <= c
  BY <1>1
<1>4. \A p, q \in 1..c : /\ s[p] \in 1..m /\ s[q] \in 1..m
                         /\ s[p] <= s[q] <=> p <= q
                         /\ s[p] = s[q] <=> p = q
  <2> SUFFICES ASSUME NEW p \in 1..c, NEW q \in 1..c
               PROVE  /\ s[p] \in 1..m /\ s[q] \in 1..m
                      /\ s[p] <= s[q] <=> p <= q
                      /\ s[p] = s[q] <=> p = q
    OBVIOUS
  <2>1. s[p] \in 1..m /\ s[q] \in 1..m
    BY <1>1
  <2>2. (p < q => s[p] < s[q]) /\ (q < p => s[q] < s[p])
    BY <1>1 DEF Ascends
  <2> QED
    BY <2>1, <2>2
<1>5. ASSUME NEW p \in 1..c PROVE Cardinality({j \in S : j >= s[p]}) = c - p + 1
  <2>1. {j \in S : j >= s[p]} = {s[q] : q \in p..c}
    <3>1. \A q \in 1..c : s[q] >= s[p] <=> q \in p..c
      BY <1>1, <1>4
    <3>2. p..c \subseteq 1..c
      BY <1>1
    <3> QED
      BY <1>2, <3>1, <3>2
  <2>2. p \in 1..(Len(s) + 1) /\ c \in 0..Len(s) /\ p <= c + 1
    BY <1>1
  <2>3. Cardinality({s[q] : q \in p..c}) = c - p + 1
    BY <1>1, <2>2, PartCount
  <2> QED
    BY <2>1, <2>3
<1> DEFINE a == c - n + 1
<1>6. newest = {s[q] : q \in a..c}
  <2>0. newest = {k \in S : Cardinality({j \in S : j >= k}) <= count}
    BY DEF Newest
  <2>1. \A q \in 1..c : s[q] \in newest <=> q \in a..c
    <3> SUFFICES ASSUME NEW q \in 1..c PROVE s[q] \in newest <=> q \in a..c
      OBVIOUS
    <3>1. s[q] \in S
      BY <1>2
    <3>2. s[q] \in newest <=> c - q + 1 <= count
      BY <1>5, <2>0, <3>1
    <3> QED
      BY <1>1, <3>2
  <2>2. a..c \subseteq 1..c
    BY <1>1, <1>3
  <2>3. newest \subseteq S
    BY <2>0
  <2> HIDE DEF newest
  <2> QED
    BY <1>2, <2>1, <2>2, <2>3
<1> HIDE DEF newest, n
<1>7. Cardinality(newest) = n
  <2>1. a \in 1..(Len(s) + 1) /\ c \in 0..Len(s) /\ a <= c + 1 /\ c - a + 1 = n
    BY <1>1, <1>3
  <2> HIDE DEF a
  <2> QED
    BY <1>1, <1>6, <2>1, PartCount
<1>8. ASSUME NEW k \in newest
      PROVE  LET r == RankIn(newest, k) IN r \in 1..n /\ s[c - n + r] = k
  <2>1. PICK p \in a..c : k = s[p]
    BY <1>6
  <2>2. p \in 1..c
    BY <1>1, <1>3
  <2>3. {j \in newest : j <= k} = {s[q] : q \in a..p}
    <3>1. \A q \in a..c : s[q] <= s[p] <=> q \in a..p
      BY <1>1, <1>3, <1>4, <2>2
    <3>2. a..p \subseteq a..c
      BY <1>1, <1>3
    <3> QED
      BY <1>6, <2>1, <3>1, <3>2
  <2>4. Cardinality({j \in newest : j <= k}) = p - a + 1
    <3>1. a \in 1..(Len(s) + 1) /\ p \in 0..Len(s) /\ a <= p + 1
      BY <1>1, <1>3, <2>2
    <3> HIDE DEF a
    <3>2. Cardinality({s[q] : q \in a..p}) = p - a + 1
      BY <1>1, <3>1, PartCount
    <3> QED
      BY <2>3, <3>2
  <2>5. p - a + 1 \in 1..n /\ c - n + (p - a + 1) = p
    BY <1>1, <1>3, <2>2
  <2> QED
    BY <2>1, <2>4, <2>5 DEF RankIn
<1> QED
  BY <1>7, <1>8 DEF c, n, s, newest

LEMMA FiltersRight ==
  ASSUME RecordIInv
  PROVE  FiltersTellTruth
<1> SUFFICES ASSUME NEW bench \in Bench \cup {Absent}, NEW failed_only \in BOOLEAN, NEW count \in 1..MaxRuns
             PROVE  LET right == {k \in 1..Len(truth) : /\ bench # Absent => bench \in truth[k].benches
                                                        /\ failed_only => truth[k].failed # {} \/ truth[k].unclean}
                        newest == {k \in right : Cardinality({j \in right : j >= k}) <= count}
                        shown == Shown(count, bench, failed_only)
                    IN /\ Len(shown) = Cardinality(newest)
                       /\ \A k \in newest : shown[Cardinality({j \in newest : j <= k})] = history[k]
  BY DEF FiltersTellTruth
<1> DEFINE right == {k \in 1..Len(truth) : /\ bench # Absent => bench \in truth[k].benches
                                           /\ failed_only => truth[k].failed # {} \/ truth[k].unclean}
           kept == {k \in 1..Len(history) : /\ bench # Absent => bench \in history[k].benches
                                            /\ failed_only => IsFailedHistoryRun(history[k])}
           newest == Newest(right, count)
           c == Cardinality(right)
           n == IF count <= c THEN count ELSE c
           runs == FilterHistoryRuns(bench, failed_only)
           shown == Shown(count, bench, failed_only)
<1>1. Len(history) = Len(truth) /\ Len(truth) \in Nat /\ count \in Nat
  BY RunRecordAssumption DEF RecordIInv, RecordTypes
<1>2. kept = right
  BY <1>1 DEF RecordIInv, Kept
<1>3. right \in SUBSET (1..Len(truth))
  OBVIOUS
<1>4. runs = [i \in 1..Cardinality(kept) |-> history[Numbers(kept)[i]]]
  BY DEF FilterHistoryRuns, AtPlaces
<1> HIDE DEF kept, right
<1>5. c \in Nat /\ runs = [i \in 1..c |-> history[Numbers(right)[i]]]
  BY <1>1, <1>2, <1>3, <1>4, NumbersLists
<1> HIDE DEF c, runs
<1>6. Len(runs) = c
  BY <1>5
<1>7. shown = SubSeq(runs, c - n + 1, c)
  BY <1>6 DEF Shown, runs
<1>8. n \in Nat /\ n <= c
  BY <1>1, <1>5
<1>9. /\ Cardinality(newest) = n
      /\ \A k \in newest : LET r == RankIn(newest, k) IN r \in 1..n /\ Numbers(right)[c - n + r] = k
  BY <1>1, <1>3, LastOnes DEF c
<1> HIDE DEF n, shown, newest
<1>10. Len(shown) = n /\ \A r \in 1..n : shown[r] = runs[c - n + r]
  <2>1. shown = [i \in 1..(c - (c - n + 1) + 1) |-> runs[(c - n + 1) + i - 1]]
    BY <1>5, <1>7, <1>8
  <2> QED
    BY <1>5, <1>8, <2>1
<1>11. \A r \in 1..n : c - n + r \in 1..c
  BY <1>5, <1>8
<1>12. \A k \in newest : shown[RankIn(newest, k)] = history[k]
  <2> SUFFICES ASSUME NEW k \in newest PROVE shown[RankIn(newest, k)] = history[k]
    OBVIOUS
  <2> DEFINE r == RankIn(newest, k)
  <2>1. r \in 1..n /\ Numbers(right)[c - n + r] = k
    BY <1>9
  <2> HIDE DEF r
  <2>2. shown[r] = history[k]
    BY <1>5, <1>10, <1>11, <2>1
  <2> QED
    BY <2>2 DEF r
<1> QED
  BY <1>9, <1>10, <1>12 DEF right, newest, shown, Newest, RankIn

-----------------------------------------------------------------------------
(* RunRecord: theorems *)

\* The times of a finished run are those in which a job was active, each moment counted once however
\* the intervals overlap, every planned test is counted in one way, and a run is told to have passed
\* exactly when they all passed and the invocation ended well (finalize_run)
THEOREM RecordCorrect == RecordSpec => []RunRecordInv
<1>1. RecordIInv => RunRecordInv
  <2> SUFFICES ASSUME RecordIInv PROVE RunRecordInv
    OBVIOUS
  <2>1. /\ phase \in {"idle", "open", "finalized"} /\ planned \subseteq Test /\ Len(history) = Len(truth)
    BY DEF RecordIInv, RecordTypes
  <2>2. \A r \in Recorded : r.test \in planned /\ r.interval \in {<<>>} \cup Interval
    <3>1. \A i \in 1..Len(tests) : tests[i] \in TestRecord /\ tests[i].test \in planned
      BY DEF RecordIInv, RecordTypes, Entries
    <3>2. Recorded = {tests[i] : i \in 1..Len(tests)}
      BY RecordedFinite DEF RecordIInv
    <3> QED
      BY <3>1, <3>2 DEF TestRecord
  <2> QED
    BY <2>1, <2>2, TimesRight, EachCountedOnce DEF RunRecordInv, RecordTypeOK
<1> QED
  BY <1>1, RecordInvariant, PTL

\* Although a run is stored with one of its tests, --history-bench finds every run the bench took part
\* in and --history-fail exactly the runs with a failed test or an invocation that did not end well,
\* the newest last, and the test that stands for a run with failed tests failed (save_run,
\* _filter_history_runs)
THEOREM HistoryTrue == RecordSpec => []HistoryTellsTruth
<1>1. RecordIInv => HistoryTellsTruth
  BY FiltersRight DEF RecordIInv, Kept, FailureIsShown, HistoryTellsTruth
<1> QED
  BY <1>1, RecordInvariant, PTL
-----------------------------------------------------------------------------
(* RunDirectory *)

USE RunDirectoryAssumption

\* Where a job is when it has not claimed a directory yet, or has left it
Before == {"new", "claim"}
Out == {"new", "claim", "done", "gone"}
Linking == {"have_sim", "have_fail", "compare", "remove"}

\* The number of a job counts directories that others had claimed; who has
\* claimed one keeps its number
Collisions ==
  \A r \in Run : \A i \in 0..(index[r] - 1) :
    \E s \in Run \ {r} : pc[s] \notin Before /\ index[s] = i

\* A directory is held by the one job that works in it
Holding ==
  /\ \A r \in Run : pc[r] \notin Out => holder[Dir(r)] = r
  /\ \A d \in Directory : holder[d] # None => pc[holder[d]] \notin Out /\ d = Dir(holder[d])

\* The lock of a link is held by the one job that looks at it or replaces it
LinkHolding ==
  /\ \A r \in Run : pc[r] \in Linking => linkLock[LinkOf(r)] = r
  /\ \A l \in Link : linkLock[l] # None => pc[linkLock[l]] \in Linking /\ l = LinkOf(linkLock[l])
  /\ \A r \in Run : pc[r] = "remove" => link[".last_sim"] = Dir(r)

\* A simulation is that of a job that waits for it, or outlived its process
Living ==
  \A r \in Run : sim[r] = "alive" =>
    pc[r] \in {"running", "incomplete"} \/ (pc[r] = "gone" /\ Dir(r) \in orphaned)

\* From its preparation to the verdict the directory is there, without
\* anything of earlier runs that the verdict may look at
Judging == {"want_sim", "have_sim", "ready", "running", "want_fail", "have_fail", "judge"}
Leaving == {"tidy", "want_remove", "compare", "remove", "release"}

PreparedFor(r) ==
  /\ (pc[r] \in Judging \cup {"tidy"} => exists[Dir(r)])
  /\ (pc[r] \in Judging /\ Dir(r) \notin orphaned
        => \A a \in Needed(r) : wrote[Dir(r)][a] \in {None, r})
  /\ (pc[r] \in Leaving /\ status[r] = "PASSED" /\ Dir(r) \notin orphaned /\ exists[Dir(r)]
        => \A a \in Needed(r) : wrote[Dir(r)][a] = r)
  /\ (pc[r] \in {"tidy", "want_remove", "compare", "remove"} => status[r] = "PASSED")
  /\ (pc[r] \in {"new", "claim", "prepare"} \cup Judging => status[r] = "none")

Prepared == \A r \in Run : PreparedFor(r)

IInv ==
  /\ TypeOK /\ Collisions /\ Holding /\ LinkHolding /\ Living /\ Prepared /\ LastSimResolves
-----------------------------------------------------------------------------
(* Directories and their numbers *)

\* Who finds each of n numbers taken by somebody is one of more than n
LEMMA Pigeonhole ==
  ASSUME NEW S, IsFiniteSet(S), NEW f, NEW n \in Nat,
         \A i \in 0..(n - 1) : \E s \in S : f[s] = i
  PROVE  n <= Cardinality(S)
<1> DEFINE taker == [i \in 0..(n - 1) |-> CHOOSE s \in S : f[s] = i]
<1>1. \A i \in 0..(n - 1) : taker[i] \in S /\ f[taker[i]] = i
  OBVIOUS
<1>2. taker \in [0..(n - 1) -> S]
  BY <1>1
<1>3. taker \in Injection(0..(n - 1), S)
  BY <1>1, <1>2, Zenon DEF Injection, IsInjective
<1>4. Cardinality(0..(n - 1)) <= Cardinality(S)
  BY <1>3, FS_Injection
<1>5. Cardinality(0..(n - 1)) = n
  BY FS_Interval
<1> QED
  BY <1>4, <1>5

\* There are finitely many jobs
LEMMA Jobs == Cardinality(Run) \in Nat
BY FS_CardinalityType

\* A job is always at one of the directories
LEMMA DirIsDirectory ==
  ASSUME TypeOK, NEW r \in Run
  PROVE  Dir(r) \in Directory
BY Jobs DEF TypeOK, Dir, DirectoryName, Directory

\* Two jobs in one directory have the same number
LEMMA SameNumber ==
  ASSUME TypeOK, NEW r \in Run, NEW s \in Run, Dir(r) = Dir(s)
  PROVE  index[r] = index[s]
BY Jobs DEF TypeOK, Dir, DirectoryName, Base

\* Only a claim that finds its directory held changes the directory of a job
LEMMA DirKept ==
  ASSUME NEW r \in Run, index'[r] = index[r]
  PROVE  Dir(r)' = Dir(r)
BY DEF Dir, DirectoryName

\* A claim passes over a directory because another job has that number
LEMMA CollisionsStep ==
  ASSUME TypeOK, Collisions, Holding, Next \/ UNCHANGED vars
  PROVE  Collisions'
<1>1. ASSUME NEW q \in Run, Launch(q) PROVE Collisions'
  BY <1>1 DEF Launch, Goto, At, Launching, TypeOK, Collisions, Before
<1>2. ASSUME NEW q \in Run, Claim(q) PROVE Collisions'
  <2>1. CASE holder[Dir(q)] = None
    <3>1. index' = index /\ \A r \in Run : pc[r] \notin Before => pc'[r] = pc[r]
      BY <1>2, <2>1 DEF Claim, Goto, TypeOK, Before
    <3> QED
      BY <3>1 DEF Collisions
  <2>2. CASE holder[Dir(q)] # None
    <3> DEFINE s == holder[Dir(q)]
    <3>1. s \in Run /\ pc[s] \notin Out /\ Dir(q) = Dir(s)
      BY <2>2, DirIsDirectory DEF Holding, TypeOK
    <3>2. s # q /\ pc[s] \notin Before /\ index[s] = index[q]
      BY <3>1, <1>2, SameNumber DEF Claim, Out, Before
    <3> HIDE DEF s
    <3>3. pc' = pc /\ index' = [index EXCEPT ![q] = index[q] + 1]
      BY <1>2, <2>2 DEF Claim
    <3>4. \A t \in Run : pc[t] \notin Before => t # q
      BY <1>2 DEF Claim, Before
    <3>5. index \in [Run -> Nat]
      BY Jobs DEF TypeOK
    <3> SUFFICES ASSUME NEW r \in Run, NEW i \in 0..(index'[r] - 1)
                 PROVE  \E t \in Run \ {r} : pc'[t] \notin Before /\ index'[t] = i
      BY DEF Collisions
    <3>6. CASE i = index[q] /\ r = q
      BY <3>1, <3>2, <3>3, <3>6
    <3>7. CASE i # index[q] \/ r # q
      <4>1. i \in 0..(index[r] - 1)
        BY <3>3, <3>5, <3>7
      <4> QED
        BY <4>1, <3>3, <3>4 DEF Collisions
    <3> QED
      BY <3>6, <3>7
  <2> QED
    BY <2>1, <2>2
<1>3. ASSUME NEW q \in Run, Prepare(q) PROVE Collisions'
  BY <1>3 DEF Prepare, Goto, At, Launching, TypeOK, Collisions, Before
<1>4. ASSUME NEW q \in Run, LockLink(q) PROVE Collisions'
  BY <1>4 DEF LockLink, Goto, Launching, TypeOK, Collisions, Before
<1>5. ASSUME NEW q \in Run, ReplaceSymlink(q) PROVE Collisions'
  BY <1>5 DEF ReplaceSymlink, Goto, Launching, TypeOK, Collisions, Before
<1>6. ASSUME NEW q \in Run, StartSimulation(q) PROVE Collisions'
  BY <1>6 DEF StartSimulation, Goto, At, Launching, TypeOK, Collisions, Before
<1>7. ASSUME NEW q \in Run, Judge(q) PROVE Collisions'
  BY <1>7 DEF Judge, Goto, Launching, TypeOK, Collisions, Before
<1>8. ASSUME NEW q \in Run, Tidy(q) PROVE Collisions'
  BY <1>8 DEF Tidy, Goto, At, Launching, TypeOK, Collisions, Before
<1>9. ASSUME NEW q \in Run, Compare(q) PROVE Collisions'
  BY <1>9 DEF Compare, Goto, At, Launching, TypeOK, Collisions, Before
<1>10. ASSUME NEW q \in Run, RemoveSymlink(q) PROVE Collisions'
  BY <1>10 DEF RemoveSymlink, Goto, At, Launching, TypeOK, Collisions, Before
<1>11. ASSUME NEW q \in Run, ReleaseRunDirectory(q) PROVE Collisions'
  BY <1>11 DEF ReleaseRunDirectory, Goto, At, Launching, TypeOK, Collisions, Before
<1>12. ASSUME NEW q \in Run, CancelLaunch(q) PROVE Collisions'
  BY <1>12 DEF CancelLaunch, Goto, Launching, TypeOK, Collisions, Before
<1>13. ASSUME NEW q \in Run, LaunchFailed(q) PROVE Collisions'
  BY <1>13 DEF LaunchFailed, Goto, Launching, TypeOK, Collisions, Before
<1>14. ASSUME NEW q \in Run, Writes(q) PROVE Collisions'
  BY <1>14 DEF Writes, Launching, TypeOK, Collisions, Before
<1>15. ASSUME NEW q \in Run, Ends(q) PROVE Collisions'
  BY <1>15 DEF Ends, Goto, Launching, TypeOK, Collisions, Before
<1>16. ASSUME NEW q \in Run, Cancel(q) PROVE Collisions'
  BY <1>16 DEF Cancel, Goto, At, Launching, TypeOK, Collisions, Before
<1>17. ASSUME NEW q \in Run, IncompleteShutdown(q) PROVE Collisions'
  BY <1>17 DEF IncompleteShutdown, Goto, At, Launching, TypeOK, Collisions, Before
<1>18. ASSUME NEW q \in Run, PostRunFailed(q) PROVE Collisions'
  BY <1>18 DEF PostRunFailed, Unlocked, Goto, Launching, TypeOK, Collisions, Before
<1>19. ASSUME NEW p \in Process, Die(p) PROVE Collisions'
  BY <1>19 DEF Die, Launching, TypeOK, Collisions, Before
<1>20. CASE UNCHANGED vars
  BY <1>20 DEF vars, Launching, TypeOK, Collisions, Before
<1> QED
  BY <1>1, <1>2, <1>3, <1>4, <1>5, <1>6, <1>7, <1>8, <1>9, <1>10, <1>11, <1>12, <1>13, <1>14,
     <1>15, <1>16, <1>17, <1>18, <1>19, <1>20 DEF Next, Hooks

\* The numbers are bounded because the jobs that have them are
LEMMA TypeStep ==
  ASSUME TypeOK, Collisions, Collisions', Holding, Next \/ UNCHANGED vars
  PROVE  TypeOK'
<1>1. ASSUME NEW q \in Run, Launch(q) PROVE TypeOK'
  BY DirIsDirectory, <1>1 DEF Launch, At, Goto, files, links, TypeOK, Launching
<1>2. ASSUME NEW q \in Run, Claim(q) PROVE TypeOK'
  <2>1. index' \in [Run -> Nat]
    <3>1. index \in [Run -> Nat]
      BY Jobs DEF TypeOK
    <3>2. index' = index \/ index' = [index EXCEPT ![q] = index[q] + 1]
      BY <1>2 DEF Claim
    <3> QED
      BY <3>1, <3>2
  <2>2. index' \in [Run -> 0..Cardinality(Run)]
    <3> SUFFICES ASSUME NEW r \in Run PROVE index'[r] <= Cardinality(Run)
      BY <2>1, Jobs
    <3>1. \A i \in 0..(index'[r] - 1) : \E s \in Run : index'[s] = i
      BY DEF Collisions
    <3>2. index'[r] \in Nat
      BY <2>1
    <3> QED
      BY <3>1, <3>2, Pigeonhole
  <2>3. holder' \in [Directory -> Run \cup {None}]
    BY <1>2, DirIsDirectory DEF Claim, TypeOK
  <2>4. pc' = pc \/ pc' = [pc EXCEPT ![q] = "prepare"]
    BY <1>2 DEF Claim, Goto
  <2> QED
    BY <1>2, <2>2, <2>3, <2>4 DEF Claim, TypeOK, Launching, files, links
<1>3. ASSUME NEW q \in Run, Prepare(q) PROVE TypeOK'
  BY DirIsDirectory, <1>3 DEF Prepare, RemoveStale, At, Goto, links, TypeOK, Launching
<1>4. ASSUME NEW q \in Run, LockLink(q) PROVE TypeOK'
  BY DirIsDirectory, <1>4 DEF LockLink, Goto, files, TypeOK, Launching
<1>5. ASSUME NEW q \in Run, ReplaceSymlink(q) PROVE TypeOK'
  BY DirIsDirectory, <1>5 DEF ReplaceSymlink, Goto, Unlocked, files, TypeOK, Launching
<1>6. ASSUME NEW q \in Run, StartSimulation(q) PROVE TypeOK'
  BY DirIsDirectory, <1>6 DEF StartSimulation, At, Goto, files, links, TypeOK, Launching
<1>7. ASSUME NEW q \in Run, Judge(q) PROVE TypeOK'
  BY DirIsDirectory, <1>7 DEF Judge, Verdict, Goto, files, links, TypeOK, Launching
<1>8. ASSUME NEW q \in Run, Tidy(q) PROVE TypeOK'
  BY DirIsDirectory, <1>8 DEF Tidy, At, Goto, links, TypeOK, Launching
<1>9. ASSUME NEW q \in Run, Compare(q) PROVE TypeOK'
  BY DirIsDirectory, <1>9 DEF Compare, At, Goto, Unlocked, files, TypeOK, Launching
<1>10. ASSUME NEW q \in Run, RemoveSymlink(q) PROVE TypeOK'
  BY DirIsDirectory, <1>10 DEF RemoveSymlink, At, Goto, Unlocked, files, TypeOK, Launching
<1>11. ASSUME NEW q \in Run, ReleaseRunDirectory(q) PROVE TypeOK'
  BY DirIsDirectory, <1>11 DEF ReleaseRunDirectory, At, Goto, Release, files, links, TypeOK,
         Launching
<1>12. ASSUME NEW q \in Run, CancelLaunch(q) PROVE TypeOK'
  BY DirIsDirectory, <1>12 DEF CancelLaunch, Goto, Release, Unlocked, files, TypeOK, Launching
<1>13. ASSUME NEW q \in Run, LaunchFailed(q) PROVE TypeOK'
  BY DirIsDirectory, <1>13 DEF LaunchFailed, Goto, Release, Unlocked, files, TypeOK, Launching
<1>14. ASSUME NEW q \in Run, Writes(q) PROVE TypeOK'
  <2>1. PICK a \in Needed(q) : /\ wrote' = [wrote EXCEPT ![Dir(q)][a] = q]
                               /\ coverage' = [coverage EXCEPT ![q] = a = "log" \/ @]
    BY <1>14 DEF Writes
  <2>2. a \in Artifact
    BY DEF Needed, Artifact
  <2>3. Dir(q) \in Directory
    BY DirIsDirectory
  <2>4. wrote' \in [Directory -> [Artifact -> Run \cup {Earlier, None}]]
    BY <2>1, <2>2, <2>3 DEF TypeOK
  <2>5. coverage' \in [Run -> BOOLEAN]
    BY <2>1 DEF TypeOK
  <2> QED
    BY <1>14, <2>4, <2>5 DEF Writes, TypeOK, links
<1>15. ASSUME NEW q \in Run, Ends(q) PROVE TypeOK'
  BY DirIsDirectory, <1>15 DEF Ends, Goto, files, links, TypeOK, Launching
<1>16. ASSUME NEW q \in Run, Cancel(q) PROVE TypeOK'
  BY DirIsDirectory, <1>16 DEF Cancel, At, Goto, Release, files, links, TypeOK, Launching
<1>17. ASSUME NEW q \in Run, IncompleteShutdown(q) PROVE TypeOK'
  BY DirIsDirectory, <1>17 DEF IncompleteShutdown, At, Goto, files, links, TypeOK, Launching
<1>18. ASSUME NEW q \in Run, PostRunFailed(q) PROVE TypeOK'
  BY DirIsDirectory, <1>18 DEF PostRunFailed, Goto, Release, Unlocked, files, TypeOK, Launching
<1>19. ASSUME NEW p \in Process, Die(p) PROVE TypeOK'
  <2> DEFINE mine == {r \in Run : ProcessOf[r] = p}
  <2>1. holder' \in [Directory -> Run \cup {None}] /\ linkLock' \in [Link -> Run \cup {None}]
    BY <1>19 DEF Die, TypeOK
  <2>2. pc' = [r \in Run |-> IF r \in mine /\ pc[r] # "done" THEN "gone" ELSE pc[r]]
    BY <1>19 DEF Die
  <2>3. orphaned' \subseteq Directory
    <3>1. \A r \in Run : Dir(r) \in Directory
      BY DirIsDirectory
    <3>2. orphaned' = orphaned \cup {Dir(r) : r \in {t \in mine : sim[t] = "alive"}}
      BY <1>19, Zenon DEF Die
    <3> QED
      BY <3>1, <3>2 DEF TypeOK
  <2>4. faults' \in 0..MaxFaults /\ crashed' \in BOOLEAN
    <3>1. faults' = faults \/ (faults < MaxFaults /\ faults' = faults + 1)
      BY <1>19 DEF Die
    <3>2. crashed' = crashed \/ crashed' = TRUE
      BY <1>19 DEF Die
    <3>3. faults' \in 0..MaxFaults
      BY <3>1 DEF TypeOK
    <3>4. crashed' \in BOOLEAN
      BY <3>2, Zenon DEF TypeOK
    <3> QED
      BY <3>3, <3>4
  <2> QED
    BY <1>19, <2>1, <2>2, <2>3, <2>4 DEF Die, TypeOK, Launching, files, links
<1>20. CASE UNCHANGED vars
  BY DirIsDirectory, <1>20 DEF vars, files, links, TypeOK, Launching
<1> QED
  BY <1>1, <1>2, <1>3, <1>4, <1>5, <1>6, <1>7, <1>8, <1>9, <1>10, <1>11, <1>12, <1>13, <1>14,
     <1>15, <1>16, <1>17, <1>18, <1>19, <1>20 DEF Next, Hooks

-----------------------------------------------------------------------------
(* Who holds what *)

\* Locks of directories are taken by a claim and left by every end of a job
LEMMA HoldingStep ==
  ASSUME TypeOK, Holding, Next \/ UNCHANGED vars
  PROVE  Holding'
<1>1. ASSUME NEW q \in Run, Launch(q) PROVE Holding'
  BY DirIsDirectory, <1>1 DEF Launch, Goto, At, Dir, DirectoryName, Launching, TypeOK,
         Holding, Out
<1>2. ASSUME NEW q \in Run, Claim(q) PROVE Holding'
  <2>1. CASE holder[Dir(q)] = None
    <3>1. Dir(q) \in Directory
      BY DirIsDirectory
    <3>2. /\ index' = index /\ pc' = [pc EXCEPT ![q] = "prepare"]
          /\ holder' = [holder EXCEPT ![Dir(q)] = q]
      BY <1>2, <2>1 DEF Claim, Goto
    <3>3. \A r \in Run : Dir(r)' = Dir(r)
      BY <3>2, DirKept
    <3> QED
      BY <1>2, <2>1, <3>1, <3>2, <3>3 DEF Claim, TypeOK, Holding, Out
  <2>2. CASE holder[Dir(q)] # None
    <3>1. pc' = pc /\ holder' = holder /\ index' = [index EXCEPT ![q] = index[q] + 1]
      BY <1>2, <2>2 DEF Claim
    <3>2. \A r \in Run : r # q => Dir(r)' = Dir(r)
      BY <3>1, DirKept DEF TypeOK
    <3>3. pc[q] = "claim" /\ \A d \in Directory : holder[d] # q
      BY <1>2 DEF Claim, Holding, Out
    <3>4. \A d \in Directory : holder[d] # None => holder[d] \in Run
      BY DEF TypeOK
    <3> QED
      BY <3>1, <3>2, <3>3, <3>4 DEF Holding, Out
  <2> QED
    BY <2>1, <2>2
<1>3. ASSUME NEW q \in Run, Prepare(q) PROVE Holding'
  BY DirIsDirectory, <1>3 DEF Prepare, Goto, At, Dir, DirectoryName, Launching, TypeOK,
         Holding, Out
<1>4. ASSUME NEW q \in Run, LockLink(q) PROVE Holding'
  BY DirIsDirectory, <1>4 DEF LockLink, Goto, Dir, DirectoryName, Launching, TypeOK, Holding,
         Out
<1>5. ASSUME NEW q \in Run, ReplaceSymlink(q) PROVE Holding'
  <2>1. holder' = holder /\ \A r \in Run : Dir(r)' = Dir(r)
    BY <1>5, DirKept DEF ReplaceSymlink
  <2>2. /\ pc[q] \in {"have_sim", "have_fail"}
        /\ \E l \in {"ready", "judge"} : pc' = [pc EXCEPT ![q] = l]
    BY <1>5 DEF ReplaceSymlink, Goto
  <2> QED
    BY <2>1, <2>2 DEF TypeOK, Holding, Out
<1>6. ASSUME NEW q \in Run, StartSimulation(q) PROVE Holding'
  BY DirIsDirectory, <1>6 DEF StartSimulation, Goto, At, Dir, DirectoryName, Launching,
         TypeOK, Holding, Out
<1>7. ASSUME NEW q \in Run, Judge(q) PROVE Holding'
  BY DirIsDirectory, <1>7 DEF Judge, Goto, Dir, DirectoryName, Launching, TypeOK, Holding, Out
<1>8. ASSUME NEW q \in Run, Tidy(q) PROVE Holding'
  BY DirIsDirectory, <1>8 DEF Tidy, Goto, At, Dir, DirectoryName, Launching, TypeOK, Holding,
         Out
<1>9. ASSUME NEW q \in Run, Compare(q) PROVE Holding'
  BY DirIsDirectory, <1>9 DEF Compare, Goto, At, Dir, DirectoryName, Launching, TypeOK,
         Holding, Out
<1>10. ASSUME NEW q \in Run, RemoveSymlink(q) PROVE Holding'
  BY DirIsDirectory, <1>10 DEF RemoveSymlink, Goto, At, Dir, DirectoryName, Launching, TypeOK,
         Holding, Out
<1>11. ASSUME NEW q \in Run, ReleaseRunDirectory(q) PROVE Holding'
  BY DirIsDirectory, <1>11 DEF ReleaseRunDirectory, Goto, At, Release, Dir, DirectoryName,
         Launching, TypeOK, Holding, Out
<1>12. ASSUME NEW q \in Run, CancelLaunch(q) PROVE Holding'
  BY DirIsDirectory, <1>12 DEF CancelLaunch, Goto, Release, Dir, DirectoryName, Launching,
         TypeOK, Holding, Out
<1>13. ASSUME NEW q \in Run, LaunchFailed(q) PROVE Holding'
  BY DirIsDirectory, <1>13 DEF LaunchFailed, Goto, Release, Dir, DirectoryName, Launching,
         TypeOK, Holding, Out
<1>14. ASSUME NEW q \in Run, Writes(q) PROVE Holding'
  BY DirIsDirectory, <1>14 DEF Writes, Dir, DirectoryName, Launching, TypeOK, Holding, Out
<1>15. ASSUME NEW q \in Run, Ends(q) PROVE Holding'
  <2>1. holder' = holder /\ \A r \in Run : Dir(r)' = Dir(r)
    BY <1>15, DirKept DEF Ends
  <2>2. \/ pc' = pc
        \/ pc[q] = "running" /\ \E l \in {"judge", "want_fail"} : pc' = [pc EXCEPT ![q] = l]
    BY <1>15 DEF Ends, Goto
  <2> QED
    BY <2>1, <2>2 DEF TypeOK, Holding, Out
<1>16. ASSUME NEW q \in Run, Cancel(q) PROVE Holding'
  BY DirIsDirectory, <1>16 DEF Cancel, Goto, At, Release, Dir, DirectoryName, Launching,
         TypeOK, Holding, Out
<1>17. ASSUME NEW q \in Run, IncompleteShutdown(q) PROVE Holding'
  BY DirIsDirectory, <1>17 DEF IncompleteShutdown, Goto, At, Dir, DirectoryName, Launching,
         TypeOK, Holding, Out
<1>18. ASSUME NEW q \in Run, PostRunFailed(q) PROVE Holding'
  BY DirIsDirectory, <1>18 DEF PostRunFailed, Goto, Release, Dir, DirectoryName, Launching,
         TypeOK, Holding, Out
<1>19. ASSUME NEW p \in Process, Die(p) PROVE Holding'
  BY DirIsDirectory, <1>19 DEF Die, Dir, DirectoryName, Launching, TypeOK, Holding, Out
<1>20. CASE UNCHANGED vars
  BY DirIsDirectory, <1>20 DEF vars, Dir, DirectoryName, Launching, TypeOK, Holding, Out
<1> QED
  BY <1>1, <1>2, <1>3, <1>4, <1>5, <1>6, <1>7, <1>8, <1>9, <1>10, <1>11, <1>12, <1>13, <1>14,
     <1>15, <1>16, <1>17, <1>18, <1>19, <1>20 DEF Next, Hooks

\* Under its lock a link stays as it was found
LEMMA LinkHoldingStep ==
  ASSUME TypeOK, Holding, LinkHolding, Next \/ UNCHANGED vars
  PROVE  LinkHolding'
<1>1. ASSUME NEW q \in Run, Launch(q) PROVE LinkHolding'
  BY <1>1 DEF Launch, Goto, At, links, LinkOf, Link, Dir, DirectoryName, Launching, TypeOK,
         LinkHolding, Linking
<1>2. ASSUME NEW q \in Run, Claim(q) PROVE LinkHolding'
  <2>1. UNCHANGED links /\ pc[q] = "claim" /\ (pc' = pc \/ pc' = [pc EXCEPT ![q] = "prepare"])
    BY <1>2 DEF Claim, Goto
  <2>2. \A r \in Run : r # q => Dir(r)' = Dir(r)
    BY <1>2, DirKept DEF Claim, TypeOK
  <2>3. \A r \in Run : pc[r] \in Linking \/ pc'[r] \in Linking => r # q /\ pc'[r] = pc[r]
    BY <2>1 DEF TypeOK, Linking
  <2>4. \A r \in Run : r # q => LinkOf(r)' = LinkOf(r)
    BY <2>1 DEF LinkOf, TypeOK
  <2>5. \A l \in Link : linkLock[l] # None => linkLock[l] \in Run
    BY DEF TypeOK
  <2> QED
    BY <2>1, <2>2, <2>3, <2>4, <2>5 DEF links, LinkHolding, Linking
<1>3. ASSUME NEW q \in Run, Prepare(q) PROVE LinkHolding'
  BY <1>3 DEF Prepare, Goto, At, links, LinkOf, Link, Dir, DirectoryName, Launching, TypeOK,
         LinkHolding, Linking
<1>4. ASSUME NEW q \in Run, LockLink(q) PROVE LinkHolding'
  BY <1>4 DEF LockLink, Goto, LinkOf, Link, Dir, DirectoryName, Launching, TypeOK,
         LinkHolding, Linking
<1>5. ASSUME NEW q \in Run, ReplaceSymlink(q) PROVE LinkHolding'
  BY <1>5 DEF ReplaceSymlink, Goto, Unlocked, LinkOf, Link, Dir, DirectoryName, Launching,
         TypeOK, LinkHolding, Linking
<1>6. ASSUME NEW q \in Run, StartSimulation(q) PROVE LinkHolding'
  BY <1>6 DEF StartSimulation, Goto, At, links, LinkOf, Link, Dir, DirectoryName, Launching,
         TypeOK, LinkHolding, Linking
<1>7. ASSUME NEW q \in Run, Judge(q) PROVE LinkHolding'
  BY <1>7 DEF Judge, Goto, links, LinkOf, Link, Dir, DirectoryName, Launching, TypeOK,
         LinkHolding, Linking
<1>8. ASSUME NEW q \in Run, Tidy(q) PROVE LinkHolding'
  BY <1>8 DEF Tidy, Goto, At, links, LinkOf, Link, Dir, DirectoryName, Launching, TypeOK,
         LinkHolding, Linking
<1>9. ASSUME NEW q \in Run, Compare(q) PROVE LinkHolding'
  <2> USE DEF TypeOK, LinkHolding, Linking, LinkOf, Link, links
  <2>1. \A r \in Run : Dir(r)' = Dir(r)
    BY <1>9, DirKept DEF Compare
  <2>2. CASE OwnsLink(q)
    BY <1>9, <2>1, <2>2 DEF Compare, OwnsLink, At, Goto
  <2>3. CASE ~OwnsLink(q)
    BY <1>9, <2>1, <2>3 DEF Compare, Unlocked, At, Goto
  <2> QED
    BY <2>2, <2>3
<1>10. ASSUME NEW q \in Run, RemoveSymlink(q) PROVE LinkHolding'
  BY <1>10 DEF RemoveSymlink, Goto, At, Unlocked, LinkOf, Link, Dir, DirectoryName, Launching,
         TypeOK, LinkHolding, Linking
<1>11. ASSUME NEW q \in Run, ReleaseRunDirectory(q) PROVE LinkHolding'
  BY <1>11 DEF ReleaseRunDirectory, Goto, At, links, LinkOf, Link, Dir, DirectoryName,
         Launching, TypeOK, LinkHolding, Linking
<1>12. ASSUME NEW q \in Run, CancelLaunch(q) PROVE LinkHolding'
  BY <1>12 DEF CancelLaunch, Goto, Unlocked, LinkOf, Link, Dir, DirectoryName, Launching,
         TypeOK, LinkHolding, Linking
<1>13. ASSUME NEW q \in Run, LaunchFailed(q) PROVE LinkHolding'
  BY <1>13 DEF LaunchFailed, Goto, Unlocked, LinkOf, Link, Dir, DirectoryName, Launching,
         TypeOK, LinkHolding, Linking
<1>14. ASSUME NEW q \in Run, Writes(q) PROVE LinkHolding'
  BY <1>14 DEF Writes, links, LinkOf, Link, Dir, DirectoryName, Launching, TypeOK,
         LinkHolding, Linking
<1>15. ASSUME NEW q \in Run, Ends(q) PROVE LinkHolding'
  <2>1. UNCHANGED links /\ \A r \in Run : Dir(r)' = Dir(r)
    BY <1>15, DirKept DEF Ends
  <2>2. \/ pc' = pc
        \/ pc[q] = "running" /\ \E l \in {"judge", "want_fail"} : pc' = [pc EXCEPT ![q] = l]
    BY <1>15 DEF Ends, Goto
  <2> QED
    BY <2>1, <2>2 DEF links, TypeOK, LinkHolding, Linking, LinkOf, Link
<1>16. ASSUME NEW q \in Run, Cancel(q) PROVE LinkHolding'
  BY <1>16 DEF Cancel, Goto, At, links, LinkOf, Link, Dir, DirectoryName, Launching, TypeOK,
         LinkHolding, Linking
<1>17. ASSUME NEW q \in Run, IncompleteShutdown(q) PROVE LinkHolding'
  BY <1>17 DEF IncompleteShutdown, Goto, At, links, LinkOf, Link, Dir, DirectoryName,
         Launching, TypeOK, LinkHolding, Linking
<1>18. ASSUME NEW q \in Run, PostRunFailed(q) PROVE LinkHolding'
  BY <1>18 DEF PostRunFailed, Goto, Unlocked, LinkOf, Link, Dir, DirectoryName, Launching,
         TypeOK, LinkHolding, Linking
<1>19. ASSUME NEW p \in Process, Die(p) PROVE LinkHolding'
  BY <1>19 DEF Die, LinkOf, Link, Dir, DirectoryName, Launching, TypeOK, LinkHolding, Linking
<1>20. CASE UNCHANGED vars
  BY <1>20 DEF vars, links, LinkOf, Link, Dir, DirectoryName, Launching, TypeOK, LinkHolding,
         Linking
<1> QED
  BY <1>1, <1>2, <1>3, <1>4, <1>5, <1>6, <1>7, <1>8, <1>9, <1>10, <1>11, <1>12, <1>13, <1>14,
     <1>15, <1>16, <1>17, <1>18, <1>19, <1>20 DEF Next, Hooks

\* Only the death of a process separates a simulation from its job
LEMMA LivingStep ==
  ASSUME TypeOK, Living, Next \/ UNCHANGED vars
  PROVE  Living'
<1>1. ASSUME NEW q \in Run, Launch(q) PROVE Living'
  BY <1>1 DEF Launch, Goto, At, Dir, DirectoryName, Launching, TypeOK, Living
<1>2. ASSUME NEW q \in Run, Claim(q) PROVE Living'
  BY <1>2 DEF Claim, Goto, Dir, DirectoryName, Launching, TypeOK, Living
<1>3. ASSUME NEW q \in Run, Prepare(q) PROVE Living'
  BY <1>3 DEF Prepare, Goto, At, Dir, DirectoryName, Launching, TypeOK, Living
<1>4. ASSUME NEW q \in Run, LockLink(q) PROVE Living'
  BY <1>4 DEF LockLink, Goto, Dir, DirectoryName, Launching, TypeOK, Living
<1>5. ASSUME NEW q \in Run, ReplaceSymlink(q) PROVE Living'
  BY <1>5 DEF ReplaceSymlink, Goto, Dir, DirectoryName, Launching, TypeOK, Living
<1>6. ASSUME NEW q \in Run, StartSimulation(q) PROVE Living'
  BY <1>6 DEF StartSimulation, Goto, At, Dir, DirectoryName, Launching, TypeOK, Living
<1>7. ASSUME NEW q \in Run, Judge(q) PROVE Living'
  BY <1>7 DEF Judge, Goto, Dir, DirectoryName, Launching, TypeOK, Living
<1>8. ASSUME NEW q \in Run, Tidy(q) PROVE Living'
  BY <1>8 DEF Tidy, Goto, At, Dir, DirectoryName, Launching, TypeOK, Living
<1>9. ASSUME NEW q \in Run, Compare(q) PROVE Living'
  BY <1>9 DEF Compare, Goto, At, Dir, DirectoryName, Launching, TypeOK, Living
<1>10. ASSUME NEW q \in Run, RemoveSymlink(q) PROVE Living'
  BY <1>10 DEF RemoveSymlink, Goto, At, Dir, DirectoryName, Launching, TypeOK, Living
<1>11. ASSUME NEW q \in Run, ReleaseRunDirectory(q) PROVE Living'
  BY <1>11 DEF ReleaseRunDirectory, Goto, At, Dir, DirectoryName, Launching, TypeOK, Living
<1>12. ASSUME NEW q \in Run, CancelLaunch(q) PROVE Living'
  BY <1>12 DEF CancelLaunch, Goto, Dir, DirectoryName, Launching, TypeOK, Living
<1>13. ASSUME NEW q \in Run, LaunchFailed(q) PROVE Living'
  BY <1>13 DEF LaunchFailed, Goto, Dir, DirectoryName, Launching, TypeOK, Living
<1>14. ASSUME NEW q \in Run, Writes(q) PROVE Living'
  BY <1>14 DEF Writes, Dir, DirectoryName, Launching, TypeOK, Living
<1>15. ASSUME NEW q \in Run, Ends(q) PROVE Living'
  BY <1>15 DEF Ends, Goto, Dir, DirectoryName, Launching, TypeOK, Living
<1>16. ASSUME NEW q \in Run, Cancel(q) PROVE Living'
  BY <1>16 DEF Cancel, Goto, At, Dir, DirectoryName, Launching, TypeOK, Living
<1>17. ASSUME NEW q \in Run, IncompleteShutdown(q) PROVE Living'
  BY <1>17 DEF IncompleteShutdown, Goto, At, Dir, DirectoryName, Launching, TypeOK, Living
<1>18. ASSUME NEW q \in Run, PostRunFailed(q) PROVE Living'
  BY <1>18 DEF PostRunFailed, Goto, Dir, DirectoryName, Launching, TypeOK, Living
<1>19. ASSUME NEW p \in Process, Die(p) PROVE Living'
  BY <1>19 DEF Die, Dir, DirectoryName, Launching, TypeOK, Living
<1>20. CASE UNCHANGED vars
  BY <1>20 DEF vars, Dir, DirectoryName, Launching, TypeOK, Living
<1> QED
  BY <1>1, <1>2, <1>3, <1>4, <1>5, <1>6, <1>7, <1>8, <1>9, <1>10, <1>11, <1>12, <1>13, <1>14,
     <1>15, <1>16, <1>17, <1>18, <1>19, <1>20 DEF Next, Hooks

-----------------------------------------------------------------------------
(* What is in a directory *)

\* Two jobs at work are in two directories
LEMMA WorkAlone ==
  ASSUME TypeOK, Holding, NEW r \in Run, NEW s \in Run, r # s, pc[r] \notin Out, pc[s] \notin Out
  PROVE  Dir(r) # Dir(s)
BY DEF Holding

\* A simulation writes where no other job works, or where one has outlived its process
LEMMA WriteAlone ==
  ASSUME TypeOK, Holding, Living, NEW r \in Run, NEW s \in Run, r # s, pc[r] \notin Out,
         sim[s] = "alive", Dir(r) \notin orphaned
  PROVE  Dir(r) # Dir(s)
BY DEF Holding, Living, Out

\* Nobody else prepares, writes or removes what a job will judge
LEMMA PreparedStep ==
  ASSUME TypeOK, Holding, Living, Prepared, Next \/ UNCHANGED vars
  PROVE  Prepared'
<1>1. ASSUME NEW q \in Run, Launch(q) PROVE Prepared'
  <2>1. \A r \in Run : Dir(r)' = Dir(r) /\ Needed(r)' = Needed(r)
    BY <1>1, DirKept DEF Launch, Needed, Opt
  <2> QED
    BY <1>1, <2>1 DEF Launch, At, Goto, LinkOf, Launching, files, TypeOK, Prepared,
           PreparedFor, Judging, Leaving
<1>2. ASSUME NEW q \in Run, Claim(q) PROVE Prepared'
  <2>1. \A r \in Run : r # q => Dir(r)' = Dir(r) /\ pc'[r] = pc[r]
    BY <1>2, DirKept DEF Claim, Goto, TypeOK
  <2>2. \A r \in Run : Needed(r)' = Needed(r)
    BY <1>2 DEF Claim, Needed, Opt
  <2>3. status[q] = "none" /\ pc'[q] \in {"claim", "prepare"}
    <3>1. pc[q] = "claim" /\ (pc' = pc \/ pc' = [pc EXCEPT ![q] = "prepare"])
      BY <1>2 DEF Claim, Goto
    <3> QED
      BY <3>1 DEF TypeOK, Prepared, PreparedFor
  <2> QED
    BY <1>2, <2>1, <2>2, <2>3 DEF Claim, files, TypeOK, Prepared, PreparedFor, Judging, Leaving
<1>3. ASSUME NEW q \in Run, Prepare(q) PROVE Prepared'
  <2>1. \A r \in Run : Dir(r)' = Dir(r) /\ Needed(r)' = Needed(r)
    BY <1>3, DirKept DEF Prepare, Needed, Opt
  <2>2. \A r \in Run \ {q} : pc[r] \notin Out => Dir(r) # Dir(q)
    BY <1>3, WorkAlone DEF Prepare, At, Out
  <2>3. Dir(q) \in Directory /\ pc[q] = "prepare"
    BY <1>3, DirIsDirectory DEF Prepare, At
  <2>4. /\ exists' = [exists EXCEPT ![Dir(q)] = TRUE]
        /\ wrote' = [wrote EXCEPT ![Dir(q)] = RemoveStale(q)]
        /\ \E l \in {"ready", "want_sim"} : pc' = [pc EXCEPT ![q] = l]
    BY <1>3 DEF Prepare, At, Goto
  <2>5. \A r \in Run : pc'[r] \notin Out => pc[r] \notin Out
    BY <2>3, <2>4 DEF TypeOK, Out
  <2>6. \A a \in Needed(q) : RemoveStale(q)[a] = None
    BY DEF RemoveStale, Needed, Artifact
  <2> HIDE DEF Directory
  <2>7. \A r \in Run \ {q} : pc[r] \notin Out =>
          exists'[Dir(r)] = exists[Dir(r)] /\ wrote'[Dir(r)] = wrote[Dir(r)]
    BY <2>2, <2>4, DirIsDirectory DEF TypeOK
  <2>8. exists'[Dir(q)] /\ wrote'[Dir(q)] = RemoveStale(q)
    BY <2>3, <2>4 DEF TypeOK
  <2>9. UNCHANGED <<status, orphaned>> /\ status[q] = "none"
    BY <1>3, <2>3 DEF Prepare, Prepared, PreparedFor
  <2>10. \A r \in Run \ {q} : pc'[r] = pc[r]
    BY <2>4 DEF TypeOK
  <2>11. pc'[q] \in {"ready", "want_sim"}
    BY <2>4 DEF TypeOK
  <2> USE DEF Prepared, PreparedFor, Judging, Leaving, Out
  <2> SUFFICES ASSUME NEW r \in Run PROVE PreparedFor(r)'
    OBVIOUS
  <2>12. CASE r = q
    BY <2>1, <2>6, <2>8, <2>9, <2>11, <2>12
  <2>13. CASE r # q
    BY <2>1, <2>7, <2>9, <2>10, <2>13
  <2> QED
    BY <2>12, <2>13
<1>4. ASSUME NEW q \in Run, LockLink(q) PROVE Prepared'
  <2>1. \A r \in Run : Dir(r)' = Dir(r) /\ Needed(r)' = Needed(r)
    BY <1>4, DirKept DEF LockLink, Needed, Opt
  <2> QED
    BY <1>4, <2>1 DEF LockLink, At, Goto, LinkOf, Launching, files, TypeOK, Prepared,
           PreparedFor, Judging, Leaving
<1>5. ASSUME NEW q \in Run, ReplaceSymlink(q) PROVE Prepared'
  <2>1. \A r \in Run : Dir(r)' = Dir(r) /\ Needed(r)' = Needed(r)
    BY <1>5, DirKept DEF ReplaceSymlink, Needed, Opt
  <2> QED
    BY <1>5, <2>1 DEF ReplaceSymlink, At, Goto, LinkOf, Launching, files, TypeOK, Prepared,
           PreparedFor, Judging, Leaving
<1>6. ASSUME NEW q \in Run, StartSimulation(q) PROVE Prepared'
  <2>1. \A r \in Run : Dir(r)' = Dir(r) /\ Needed(r)' = Needed(r)
    BY <1>6, DirKept DEF StartSimulation, Needed, Opt
  <2> QED
    BY <1>6, <2>1 DEF StartSimulation, At, Goto, LinkOf, Launching, files, TypeOK, Prepared,
           PreparedFor, Judging, Leaving
<1>7. ASSUME NEW q \in Run, Judge(q) PROVE Prepared'
  <2>1. \A r \in Run : Dir(r)' = Dir(r) /\ Needed(r)' = Needed(r)
    BY <1>7, DirKept DEF Judge, Needed, Opt
  <2>2. pc[q] = "judge" /\ \E l \in {"tidy", "release"} : pc' = [pc EXCEPT ![q] = l]
    BY <1>7 DEF Judge, Goto
  <2>3. status' = [status EXCEPT ![q] = Verdict(q)]
    BY <1>7 DEF Judge
  <2>4. Verdict(q) = "PASSED" => \A a \in Needed(q) : wrote[Dir(q)][a] # None
    BY DEF Verdict
  <2>5. pc'[q] = "tidy" => Verdict(q) = "PASSED"
    BY <1>7 DEF Judge, Goto, TypeOK
  <2> QED
    BY <1>7, <2>1, <2>2, <2>3, <2>4, <2>5 DEF Judge, files, TypeOK, Prepared, PreparedFor,
           Judging, Leaving
<1>8. ASSUME NEW q \in Run, Tidy(q) PROVE Prepared'
  <2>1. \A r \in Run : Dir(r)' = Dir(r) /\ Needed(r)' = Needed(r)
    BY <1>8, DirKept DEF Tidy, Needed, Opt
  <2>2. \A r \in Run \ {q} : pc[r] \notin Out => Dir(r) # Dir(q)
    BY <1>8, WorkAlone DEF Tidy, At, Out
  <2>3. Dir(q) \in Directory /\ pc[q] = "tidy" /\ pc' = [pc EXCEPT ![q] = "want_remove"]
    BY <1>8, DirIsDirectory DEF Tidy, At, Goto
  <2>4. PICK gone \in BOOLEAN :
          /\ exists' = [exists EXCEPT ![Dir(q)] = ~gone]
          /\ wrote' = [wrote EXCEPT ![Dir(q)] = IF gone THEN [a \in Artifact |-> None] ELSE @]
    BY <1>8 DEF Tidy
  <2>5. \A r \in Run \ {q} : pc[r] \notin Out =>
          exists'[Dir(r)] = exists[Dir(r)] /\ wrote'[Dir(r)] = wrote[Dir(r)]
    BY <2>2, <2>4, DirIsDirectory DEF TypeOK
  <2>6. exists'[Dir(q)] => exists[Dir(q)] /\ wrote'[Dir(q)] = wrote[Dir(q)]
    <3>1. exists[Dir(q)]
      BY <2>3 DEF Prepared, PreparedFor
    <3>2. exists'[Dir(q)] = ~gone
      BY <2>3, <2>4 DEF TypeOK
    <3>3. ~gone => wrote'[Dir(q)] = wrote[Dir(q)]
      BY <2>3, <2>4 DEF TypeOK
    <3> QED
      BY <3>1, <3>2, <3>3
  <2>7. UNCHANGED <<status, orphaned>>
    BY <1>8 DEF Tidy
  <2>8. pc'[q] = "want_remove" /\ \A r \in Run \ {q} : pc'[r] = pc[r]
    BY <2>3 DEF TypeOK
  <2> USE DEF Prepared, PreparedFor, Judging, Leaving, Out
  <2> SUFFICES ASSUME NEW r \in Run PROVE PreparedFor(r)'
    OBVIOUS
  <2>9. CASE r = q
    BY <2>1, <2>3, <2>6, <2>7, <2>8, <2>9
  <2>10. CASE r # q
    BY <2>1, <2>5, <2>7, <2>8, <2>10
  <2> QED
    BY <2>9, <2>10
<1>9. ASSUME NEW q \in Run, Compare(q) PROVE Prepared'
  <2>1. \A r \in Run : Dir(r)' = Dir(r) /\ Needed(r)' = Needed(r)
    BY <1>9, DirKept DEF Compare, Needed, Opt
  <2>2. pc[q] = "compare" /\ \E l \in {"remove", "release"} : pc' = [pc EXCEPT ![q] = l]
    BY <1>9 DEF Compare, At, Goto
  <2> QED
    BY <1>9, <2>1, <2>2 DEF Compare, files, TypeOK, Prepared, PreparedFor, Judging, Leaving
<1>10. ASSUME NEW q \in Run, RemoveSymlink(q) PROVE Prepared'
  <2>1. \A r \in Run : Dir(r)' = Dir(r) /\ Needed(r)' = Needed(r)
    BY <1>10, DirKept DEF RemoveSymlink, Needed, Opt
  <2> QED
    BY <1>10, <2>1 DEF RemoveSymlink, At, Goto, LinkOf, Launching, files, TypeOK, Prepared,
           PreparedFor, Judging, Leaving
<1>11. ASSUME NEW q \in Run, ReleaseRunDirectory(q) PROVE Prepared'
  <2>1. \A r \in Run : Dir(r)' = Dir(r) /\ Needed(r)' = Needed(r)
    BY <1>11, DirKept DEF ReleaseRunDirectory, Needed, Opt
  <2> QED
    BY <1>11, <2>1 DEF ReleaseRunDirectory, At, Goto, LinkOf, Launching, files, TypeOK,
           Prepared, PreparedFor, Judging, Leaving
<1>12. ASSUME NEW q \in Run, CancelLaunch(q) PROVE Prepared'
  <2>1. \A r \in Run : Dir(r)' = Dir(r) /\ Needed(r)' = Needed(r)
    BY <1>12, DirKept DEF CancelLaunch, Needed, Opt
  <2> QED
    BY <1>12, <2>1 DEF CancelLaunch, At, Goto, LinkOf, Launching, files, TypeOK, Prepared,
           PreparedFor, Judging, Leaving
<1>13. ASSUME NEW q \in Run, LaunchFailed(q) PROVE Prepared'
  <2>1. \A r \in Run : Dir(r)' = Dir(r) /\ Needed(r)' = Needed(r)
    BY <1>13, DirKept DEF LaunchFailed, Needed, Opt
  <2> QED
    BY <1>13, <2>1 DEF LaunchFailed, At, Goto, LinkOf, Launching, files, TypeOK, Prepared,
           PreparedFor, Judging, Leaving
<1>14. ASSUME NEW q \in Run, Writes(q) PROVE Prepared'
  <2>1. \A r \in Run : Dir(r)' = Dir(r) /\ Needed(r)' = Needed(r)
    BY <1>14, DirKept DEF Writes, Needed, Opt
  <2>2. PICK a \in Needed(q) : wrote' = [wrote EXCEPT ![Dir(q)][a] = q]
    BY <1>14 DEF Writes
  <2>3. \A r \in Run : Dir(r) \in Directory
    BY DirIsDirectory
  <2>4. \A r \in Run \ {q} : pc[r] \notin Out /\ Dir(r) \notin orphaned
          => wrote'[Dir(r)] = wrote[Dir(r)]
    BY <1>14, <2>2, <2>3, WriteAlone DEF Writes, TypeOK
  <2>5. \A b \in Artifact : wrote'[Dir(q)][b] \in {wrote[Dir(q)][b], q}
    BY <2>2, <2>3 DEF TypeOK
  <2>6. \A r \in Run : Needed(r) \subseteq Artifact
    BY DEF Needed, Artifact
  <2>7. UNCHANGED <<exists, status, orphaned, pc>>
    BY <1>14 DEF Writes
  <2> USE DEF Prepared, PreparedFor, Judging, Leaving, Out
  <2> SUFFICES ASSUME NEW r \in Run PROVE PreparedFor(r)'
    OBVIOUS
  <2>8. CASE r = q
    BY <2>1, <2>5, <2>6, <2>7, <2>8
  <2>9. CASE r # q
    BY <2>1, <2>4, <2>7, <2>9
  <2> QED
    BY <2>8, <2>9
<1>15. ASSUME NEW q \in Run, Ends(q) PROVE Prepared'
  <2>1. \A r \in Run : Dir(r)' = Dir(r) /\ Needed(r)' = Needed(r)
    BY <1>15, DirKept DEF Ends, Needed, Opt
  <2>2. \/ pc' = pc
        \/ pc[q] = "running" /\ \E l \in {"judge", "want_fail"} : pc' = [pc EXCEPT ![q] = l]
    BY <1>15 DEF Ends, Goto
  <2> QED
    BY <1>15, <2>1, <2>2 DEF Ends, files, TypeOK, Prepared, PreparedFor, Judging, Leaving
<1>16. ASSUME NEW q \in Run, Cancel(q) PROVE Prepared'
  <2>1. \A r \in Run : Dir(r)' = Dir(r) /\ Needed(r)' = Needed(r)
    BY <1>16, DirKept DEF Cancel, Needed, Opt
  <2> QED
    BY <1>16, <2>1 DEF Cancel, At, Goto, LinkOf, Launching, files, TypeOK, Prepared,
           PreparedFor, Judging, Leaving
<1>17. ASSUME NEW q \in Run, IncompleteShutdown(q) PROVE Prepared'
  <2>1. \A r \in Run : Dir(r)' = Dir(r) /\ Needed(r)' = Needed(r)
    BY <1>17, DirKept DEF IncompleteShutdown, Needed, Opt
  <2> QED
    BY <1>17, <2>1 DEF IncompleteShutdown, At, Goto, LinkOf, Launching, files, TypeOK,
           Prepared, PreparedFor, Judging, Leaving
<1>18. ASSUME NEW q \in Run, PostRunFailed(q) PROVE Prepared'
  <2>1. \A r \in Run : Dir(r)' = Dir(r) /\ Needed(r)' = Needed(r)
    BY <1>18, DirKept DEF PostRunFailed, Needed, Opt
  <2> QED
    BY <1>18, <2>1 DEF PostRunFailed, At, Goto, LinkOf, Launching, files, TypeOK, Prepared,
           PreparedFor, Judging, Leaving
<1>19. ASSUME NEW p \in Process, Die(p) PROVE Prepared'
  <2>1. \A r \in Run : Dir(r)' = Dir(r) /\ Needed(r)' = Needed(r)
    BY <1>19, DirKept DEF Die, Needed, Opt
  <2>2. \A r \in Run : pc'[r] \in {pc[r], "gone"}
    BY <1>19 DEF Die
  <2>3. orphaned \subseteq orphaned' /\ UNCHANGED <<files, status>>
    BY <1>19 DEF Die
  <2> QED
    BY <2>1, <2>2, <2>3 DEF files, TypeOK, Prepared, PreparedFor, Judging, Leaving
<1>20. CASE UNCHANGED vars
  BY <1>20, DirKept DEF vars, files, TypeOK, Prepared, PreparedFor, Judging, Leaving, Needed,
         Opt
<1> QED
  BY <1>1, <1>2, <1>3, <1>4, <1>5, <1>6, <1>7, <1>8, <1>9, <1>10, <1>11, <1>12, <1>13, <1>14,
     <1>15, <1>16, <1>17, <1>18, <1>19, <1>20 DEF Next, Hooks

\* Who removes a directory finds the link to it afterwards, and removes it
LEMMA ResolvesStep ==
  ASSUME TypeOK, Holding, Living, LinkHolding, Prepared, LastSimResolves, Next \/ UNCHANGED vars
  PROVE  LastSimResolves'
<1>1. ASSUME NEW q \in Run, Launch(q) PROVE LastSimResolves'
  BY DirKept, DirIsDirectory, <1>1 DEF Launch, At, Goto, Link, Launching, files, links,
         TypeOK, LastSimResolves
<1>2. ASSUME NEW q \in Run, Claim(q) PROVE LastSimResolves'
  BY DirKept, DirIsDirectory, <1>2 DEF Claim, Goto, Link, Launching, files, links, TypeOK,
         LastSimResolves
<1>3. ASSUME NEW q \in Run, Prepare(q) PROVE LastSimResolves'
  BY DirKept, DirIsDirectory, <1>3 DEF Prepare, At, Goto, Link, Launching, links, TypeOK,
         LastSimResolves
<1>4. ASSUME NEW q \in Run, LockLink(q) PROVE LastSimResolves'
  BY DirKept, DirIsDirectory, <1>4 DEF LockLink, Goto, LinkOf, Link, Launching, files, TypeOK,
         LastSimResolves
<1>5. ASSUME NEW q \in Run, ReplaceSymlink(q) PROVE LastSimResolves'
  <2>1. exists[Dir(q)] /\ Dir(q) \in Directory
    BY <1>5, DirIsDirectory DEF ReplaceSymlink, Prepared, PreparedFor, Judging
  <2>2. \A r \in Run : Dir(r)' = Dir(r)
    BY <1>5, DirKept DEF ReplaceSymlink
  <2>3. link' = [link EXCEPT ![LinkOf(q)] = Dir(q)] /\ UNCHANGED <<crashed, faults, exists>>
    BY <1>5 DEF ReplaceSymlink, files
  <2>4. /\ pc[q] \in {"have_sim", "have_fail"}
        /\ \E l \in {"ready", "judge"} : pc' = [pc EXCEPT ![q] = l]
    BY <1>5 DEF ReplaceSymlink, Goto
  <2>5. LinkOf(q) \in Link
    BY DEF LinkOf, Link
  <2>6. CASE LinkOf(q) = ".last_sim"
    BY <2>1, <2>3, <2>5, <2>6 DEF TypeOK, LastSimResolves
  <2>7. CASE LinkOf(q) # ".last_sim"
    <3>1. link'[".last_sim"] = link[".last_sim"]
      BY <2>3, <2>7 DEF TypeOK, Link
    <3> QED
      BY <2>2, <2>3, <2>4, <3>1 DEF TypeOK, LastSimResolves
  <2> QED
    BY <2>6, <2>7
<1>6. ASSUME NEW q \in Run, StartSimulation(q) PROVE LastSimResolves'
  BY DirKept, DirIsDirectory, <1>6 DEF StartSimulation, At, Goto, Link, Launching, files,
         links, TypeOK, LastSimResolves
<1>7. ASSUME NEW q \in Run, Judge(q) PROVE LastSimResolves'
  BY DirKept, DirIsDirectory, <1>7 DEF Judge, Goto, Link, Launching, files, links, TypeOK,
         LastSimResolves
<1>8. ASSUME NEW q \in Run, Tidy(q) PROVE LastSimResolves'
  BY DirKept, DirIsDirectory, <1>8 DEF Tidy, At, Goto, Link, Launching, links, TypeOK,
         LastSimResolves
<1>9. ASSUME NEW q \in Run, Compare(q) PROVE LastSimResolves'
  <2>1. \A r \in Run : Dir(r)' = Dir(r)
    BY <1>9, DirKept DEF Compare
  <2>2. UNCHANGED <<link, exists, crashed, faults>> /\ pc[q] = "compare"
    BY <1>9 DEF Compare, files, At
  <2>3. pc' = [pc EXCEPT ![q] = IF link[".last_sim"] = Dir(q) THEN "remove" ELSE "release"]
    BY <1>9 DEF Compare, At, Goto, OwnsLink
  <2> QED
    BY <2>1, <2>2, <2>3 DEF TypeOK, LastSimResolves
<1>10. ASSUME NEW q \in Run, RemoveSymlink(q) PROVE LastSimResolves'
  BY DirKept, DirIsDirectory, <1>10 DEF RemoveSymlink, At, Goto, Link, Launching, files,
         Unlocked, TypeOK, LastSimResolves
<1>11. ASSUME NEW q \in Run, ReleaseRunDirectory(q) PROVE LastSimResolves'
  BY DirKept, DirIsDirectory, <1>11 DEF ReleaseRunDirectory, At, Goto, Link, Launching, files,
         links, TypeOK, LastSimResolves
<1>12. ASSUME NEW q \in Run, CancelLaunch(q) PROVE LastSimResolves'
  BY DirKept, DirIsDirectory, <1>12 DEF CancelLaunch, Goto, Link, Launching, files, Unlocked,
         TypeOK, LastSimResolves
<1>13. ASSUME NEW q \in Run, LaunchFailed(q) PROVE LastSimResolves'
  BY DirKept, DirIsDirectory, <1>13 DEF LaunchFailed, Goto, Link, Launching, files, Unlocked,
         TypeOK, LastSimResolves
<1>14. ASSUME NEW q \in Run, Writes(q) PROVE LastSimResolves'
  BY DirKept, DirIsDirectory, <1>14 DEF Writes, Link, Launching, links, TypeOK, LastSimResolves
<1>15. ASSUME NEW q \in Run, Ends(q) PROVE LastSimResolves'
  BY DirKept, DirIsDirectory, <1>15 DEF Ends, Goto, Link, Launching, files, links, TypeOK,
         LastSimResolves
<1>16. ASSUME NEW q \in Run, Cancel(q) PROVE LastSimResolves'
  BY DirKept, DirIsDirectory, <1>16 DEF Cancel, At, Goto, Link, Launching, files, links,
         TypeOK, LastSimResolves
<1>17. ASSUME NEW q \in Run, IncompleteShutdown(q) PROVE LastSimResolves'
  BY DirKept, DirIsDirectory, <1>17 DEF IncompleteShutdown, At, Goto, Link, Launching, files,
         links, TypeOK, LastSimResolves
<1>18. ASSUME NEW q \in Run, PostRunFailed(q) PROVE LastSimResolves'
  BY DirKept, DirIsDirectory, <1>18 DEF PostRunFailed, Goto, Link, Launching, files, Unlocked,
         TypeOK, LastSimResolves
<1>19. ASSUME NEW p \in Process, Die(p) PROVE LastSimResolves'
  BY DirKept, DirIsDirectory, <1>19 DEF Die, Link, Launching, files, TypeOK, LastSimResolves
<1>20. CASE UNCHANGED vars
  BY DirKept, DirIsDirectory, <1>20 DEF vars, Link, Launching, files, links, TypeOK,
         LastSimResolves
<1> QED
  BY <1>1, <1>2, <1>3, <1>4, <1>5, <1>6, <1>7, <1>8, <1>9, <1>10, <1>11, <1>12, <1>13, <1>14,
     <1>15, <1>16, <1>17, <1>18, <1>19, <1>20 DEF Next, Hooks

-----------------------------------------------------------------------------
(* Theorems *)

\* Nothing is claimed and nothing runs at first
LEMMA InitIInv == Init => IInv
<1> SUFFICES ASSUME Init PROVE IInv
  OBVIOUS
<1>1. PICK old \in SUBSET {Base} :
        /\ exists = [d \in Directory |-> d \in old]
        /\ wrote = [d \in Directory |-> [a \in Artifact |-> IF d \in old THEN Earlier ELSE None]]
        /\ link = [l \in Link |-> IF Base \in old /\ l = ".last_sim" THEN Base ELSE None]
  BY DEF Init
<1>2. Base \in Directory
  BY DEF Directory
<1>3. TypeOK
  <2>1. exists \in [Directory -> BOOLEAN]
    BY <1>1
  <2>2. wrote \in [Directory -> [Artifact -> Run \cup {Earlier, None}]]
    BY <1>1
  <2>3. link \in [Link -> Directory \cup {None}]
    BY <1>1, <1>2
  <2>4. index \in [Run -> 0..Cardinality(Run)]
    BY Jobs DEF Init
  <2>5. crashed \in BOOLEAN /\ coverage \in [Run -> BOOLEAN]
    BY DEF Init
  <2> QED
    BY <2>1, <2>2, <2>3, <2>4, <2>5 DEF Init, TypeOK
<1>4. LastSimResolves
  BY <1>1, <1>2 DEF LastSimResolves, Link
<1>5. Collisions
  BY DEF Init, Collisions
<1>6. Holding /\ LinkHolding /\ Living /\ Prepared
  BY DEF Init, Holding, Out, LinkHolding, Linking, Living, Prepared, PreparedFor, Judging,
         Leaving
<1> QED
  BY <1>3, <1>4, <1>5, <1>6 DEF IInv

\* The parts of the invariant are kept in turn
LEMMA StepKeepsIInv ==
  ASSUME IInv, [Next]_vars
  PROVE  IInv'
<1>1. Collisions'
  BY CollisionsStep DEF IInv
<1>2. TypeOK'
  BY <1>1, TypeStep DEF IInv
<1>3. Holding' /\ LinkHolding' /\ Living' /\ Prepared' /\ LastSimResolves'
  BY HoldingStep, LinkHoldingStep, LivingStep, PreparedStep, ResolvesStep DEF IInv
<1> QED
  BY <1>1, <1>2, <1>3 DEF IInv

\* Together they hold in every state
LEMMA InductiveInvariant == Spec => []IInv
BY InitIInv, StepKeepsIInv, PTL DEF Spec

\* Every variable keeps its type; that collision numbers stay below the
\* number of jobs is what makes their search for a free directory end
THEOREM TypeCorrect == Spec => []TypeOK
<1>1. IInv => TypeOK
  BY DEF IInv
<1> QED
  BY <1>1, InductiveInvariant, PTL

\* The directory lock, and what lives outside it
LEMMA OneRun == IInv => OneRunPerDirectory
<1> SUFFICES ASSUME IInv, NEW r \in Run, NEW s \in Run, r # s, Dir(r) = Dir(s),
                    Dir(r) \notin orphaned, pc[r] \notin {"new", "claim", "done", "gone"}
             PROVE  sim[s] # "alive" /\ pc[s] \in {"new", "claim", "done", "gone"}
  BY DEF OneRunPerDirectory
<1>1. pc[s] \in Out
  BY WorkAlone DEF IInv, Out
<1>2. sim[s] # "alive"
  BY WriteAlone DEF IInv, Out
<1> QED
  BY <1>1, <1>2 DEF Out

\* A directory has one job from the claim to the release, and .last_sim
\* leads to a directory (TestJob.pre_run, post_run, the symlink helpers)
THEOREM DirectoriesCorrect == Spec => []RunDirectoryInv
<1>1. IInv => RunDirectoryInv
  BY OneRun DEF IInv, RunDirectoryInv
<1> QED
  BY <1>1, InductiveInvariant, PTL

\* A test that passes has its own log, and its own waves if it captures
\* them, whatever an earlier run left in its directory (pre_run, post_run)
THEOREM PassesOnOwnArtifacts == Spec => []PassedHasOwnArtifacts
<1>1. IInv => PassedHasOwnArtifacts
  BY DEF IInv, PassedHasOwnArtifacts, Prepared, PreparedFor, Leaving
<1> QED
  BY <1>1, InductiveInvariant, PTL

\* Links are removed under their lock, logs by who has the directory
LEMMA OthersUntouchedStep ==
  ASSUME IInv, Next \/ UNCHANGED vars
  PROVE  /\ \A l \in Link : link[l] # None /\ link'[l] = None
              => \E r \in Run : pc[r] = "remove" /\ link[l] = Dir(r)
         /\ \A r \in Run :
              status[r] = "FAILED" /\ wrote[Dir(r)]["log"] = r /\ wrote'[Dir(r)]["log"] # r
                => \E s \in Run : s # r /\ (holder[Dir(r)] = s \/ Dir(r) \in orphaned)
<1> DEFINE LinkLeft == \A l \in Link : link[l] # None /\ link'[l] = None
              => \E r \in Run : pc[r] = "remove" /\ link[l] = Dir(r)
           LogLeft == \A r \in Run :
              status[r] = "FAILED" /\ wrote[Dir(r)]["log"] = r /\ wrote'[Dir(r)]["log"] # r
                => \E s \in Run : s # r /\ (holder[Dir(r)] = s \/ Dir(r) \in orphaned)
<1>1. ASSUME NEW q \in Run, ReplaceSymlink(q)
      PROVE  LinkLeft /\ LogLeft
  <2>1. link' = [link EXCEPT ![LinkOf(q)] = Dir(q)] /\ wrote' = wrote
    BY <1>1 DEF ReplaceSymlink, files
  <2>2. Dir(q) # None
    BY DirIsDirectory DEF IInv
  <2> QED
    BY <2>1, <2>2 DEF IInv, TypeOK
<1>2. ASSUME NEW q \in Run, RemoveSymlink(q)
      PROVE  LinkLeft /\ LogLeft
  <2>1. link' = [link EXCEPT ![".last_sim"] = None] /\ wrote' = wrote /\ pc[q] = "remove"
    BY <1>2 DEF RemoveSymlink, files, At
  <2>2. link[".last_sim"] = Dir(q)
    BY <2>1 DEF IInv, LinkHolding
  <2> QED
    BY <2>1, <2>2 DEF IInv, TypeOK
<1>3. ASSUME NEW q \in Run, Prepare(q) \/ Tidy(q)
      PROVE  LinkLeft /\ LogLeft
  <2>1. link' = link /\ pc[q] \in {"prepare", "tidy"}
    BY <1>3 DEF Prepare, Tidy, links, At
  <2>2. holder[Dir(q)] = q /\ status[q] # "FAILED"
    BY <2>1 DEF IInv, Holding, Out, Prepared, PreparedFor
  <2>3. \A d \in Directory : d # Dir(q) => wrote'[d] = wrote[d]
    BY <1>3 DEF Prepare, Tidy, IInv, TypeOK
  <2>4. \A r \in Run : Dir(r) \in Directory
    BY DirIsDirectory DEF IInv
  <2> QED
    BY <2>1, <2>2, <2>3, <2>4
<1>4. ASSUME NEW q \in Run, Writes(q)
      PROVE  LinkLeft /\ LogLeft
  <2>1. link' = link /\ sim[q] = "alive"
    BY <1>4 DEF Writes, links
  <2>2. holder[Dir(q)] = q \/ Dir(q) \in orphaned
    BY <2>1 DEF IInv, Living, Holding, Out
  <2>3. \A d \in Directory : d # Dir(q) => wrote'[d] = wrote[d]
    BY <1>4 DEF Writes, IInv, TypeOK
  <2>4. \A r \in Run : Dir(r) \in Directory
    BY DirIsDirectory DEF IInv
  <2>5. wrote'[Dir(q)]["log"] \in {wrote[Dir(q)]["log"], q}
    <3>1. PICK a \in Needed(q) : wrote' = [wrote EXCEPT ![Dir(q)][a] = q]
      BY <1>4 DEF Writes
    <3> QED
      BY <3>1, <2>4 DEF IInv, TypeOK, Artifact
  <2> QED
    BY <2>1, <2>2, <2>3, <2>4, <2>5
<1>5. ASSUME UNCHANGED <<link, wrote>>
      PROVE  LinkLeft /\ LogLeft
  BY <1>5
<1>6. ASSUME NEW q \in Run,
             \/ Launch(q) \/ Claim(q) \/ LockLink(q) \/ StartSimulation(q) \/ Judge(q) \/ Compare(q)
             \/ ReleaseRunDirectory(q) \/ CancelLaunch(q) \/ LaunchFailed(q) \/ Ends(q) \/ Cancel(q)
             \/ IncompleteShutdown(q) \/ PostRunFailed(q)
      PROVE  UNCHANGED <<link, wrote>>
  BY <1>6 DEF Launch, Claim, LockLink, StartSimulation, Judge, Compare, ReleaseRunDirectory,
     CancelLaunch, LaunchFailed, Ends, Cancel, IncompleteShutdown, PostRunFailed, files, links
<1>7. ASSUME NEW p \in Process, Die(p)
      PROVE  UNCHANGED <<link, wrote>>
  BY <1>7 DEF Die, files
<1>8. ASSUME UNCHANGED vars
      PROVE  UNCHANGED <<link, wrote>>
  BY <1>8 DEF vars, files, links
<1> HIDE DEF LinkLeft, LogLeft
<1>9. LinkLeft /\ LogLeft
  BY <1>1, <1>2, <1>3, <1>4, <1>5, <1>6, <1>7, <1>8 DEF Next, Hooks
<1> QED
  BY <1>9 DEF LinkLeft, LogLeft

\* No job removes a link that leads to the directory of another, and what a
\* failed run wrote stays until another run has its directory
\* (remove_symlink_if_target, post_run with --tidy)
THEOREM NothingOfOthersRemoved == Spec => OthersUntouched
<1>1. IInv /\ [Next]_vars =>
        [ /\ \A l \in Link : link[l] # None /\ link'[l] = None
              => \E r \in Run : pc[r] = "remove" /\ link[l] = Dir(r)
          /\ \A r \in Run :
              status[r] = "FAILED" /\ wrote[Dir(r)]["log"] = r /\ wrote'[Dir(r)]["log"] # r
                => \E s \in Run : s # r /\ (holder[Dir(r)] = s \/ Dir(r) \in orphaned) ]_vars
  BY OthersUntouchedStep
<1> QED
  BY <1>1, InductiveInvariant, PTL DEF Spec, OthersUntouched
=============================================================================
