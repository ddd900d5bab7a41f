----------------------------- MODULE SetLemmas ------------------------------
(***************************************************************************)
(* Finite sets: folds over them, what follows for sums, and the sequences  *)
(* of their elements in an order.  Induction is by the least               *)
(* counterexample, a subset without a smaller one.                         *)
(***************************************************************************)
EXTENDS Sorting, FiniteSetsExt, SequencesExt, FiniteSetTheorems, WellFoundedInduction, TLAPS

\* Among subsets of a finite set there is always one without a smaller one
LEMMA MinimalSubset ==
  ASSUME NEW S, IsFiniteSet(S), NEW B, B \subseteq SUBSET S, B # {}
  PROVE  \E T \in B : \A U \in B : U \subseteq T => U = T
<1>1. IsWellFoundedOn(StrictSubsetOrdering(S), SUBSET S)
  BY FS_StrictSubsetOrderingWellFounded, FS_FiniteSubsetsOfFinite
<1>2. \E T \in B : \A U \in B : <<U, T>> \notin StrictSubsetOrdering(S)
  BY <1>1, WFMin
<1> QED
  BY <1>2 DEF StrictSubsetOrdering

\* What a fold over S needs: how it begins, which element comes last, and what
\* that makes of the result for the others
Foldable(S, V, base, pick, step) ==
  /\ IsFiniteSet(S) /\ base \in V /\ step \in [S -> [V -> V]]
  /\ \A T \in SUBSET S : T # {} => pick[T] \in T

IsFold(it, S, base, pick, step) ==
  \A T \in SUBSET S : it[T] = IF T = {} THEN base ELSE step[pick[T]][it[T \ {pick[T]}]]

\* There is such a fold.  Of the ones that are right except for some subsets take
\* one with as few as possible: it can be corrected for the least of them.
LEMMA FoldExists ==
  ASSUME NEW S, NEW V, NEW base, NEW pick, NEW step, Foldable(S, V, base, pick, step)
  PROVE  \E it \in [SUBSET S -> V] : IsFold(it, S, base, pick, step)
<1> USE DEF Foldable
<1> DEFINE Value(it, T) == IF T = {} THEN base ELSE step[pick[T]][it[T \ {pick[T]}]]
           Except(it, C) == \A T \in (SUBSET S) \ C :
                              it[T] = Value(it, T) /\ (T # {} => T \ {pick[T]} \notin C)
           Excepted == {C \in SUBSET SUBSET S : \E it \in [SUBSET S -> V] : Except(it, C)}
<1>1. IsFiniteSet(SUBSET S)
  BY FS_SUBSET
<1>2. SUBSET S \in Excepted
  <2>1. [T \in SUBSET S |-> base] \in [SUBSET S -> V]
    OBVIOUS
  <2>2. Except([T \in SUBSET S |-> base], SUBSET S)
    OBVIOUS
  <2> QED
    BY <2>1, <2>2
<1> HIDE DEF Except
<1>3. PICK C \in Excepted : \A D \in Excepted : D \subseteq C => D = C
  <2>1. Excepted \subseteq SUBSET SUBSET S /\ Excepted # {}
    BY <1>2
  <2> HIDE DEF Excepted
  <2> QED
    BY <1>1, <2>1, MinimalSubset
<1>4. PICK it \in [SUBSET S -> V] : Except(it, C)
  OBVIOUS
<1>5. C = {}
  <2> SUFFICES ASSUME C # {} PROVE FALSE
    OBVIOUS
  <2>1. PICK T \in C : \A U \in C : U \subseteq T => U = T
    BY MinimalSubset
  <2>2. /\ T \in SUBSET S
        /\ T # {} => /\ T \ {pick[T]} \in SUBSET S /\ T \ {pick[T]} \notin C
                     /\ pick[T] \in S
    BY <2>1
  <2>3. Value(it, T) \in V
    BY <2>2
  <2> DEFINE new == [it EXCEPT ![T] = Value(it, T)]
  <2>4. /\ new \in [SUBSET S -> V] /\ new[T] = Value(it, T)
        /\ \A U \in SUBSET S : U # T => new[U] = it[U]
    BY <2>2, <2>3
  <2> HIDE DEF new
  <2>5. Except(new, C \ {T})
    <3> SUFFICES ASSUME NEW U \in SUBSET S, U \notin C \ {T}
                 PROVE  new[U] = Value(new, U) /\ (U # {} => U \ {pick[U]} \notin C \ {T})
      BY DEF Except
    <3>1. U # {} => U \ {pick[U]} \notin C
      BY <1>4, <2>2 DEF Except
    <3>2. U # {} => U \ {pick[U]} # T /\ U \ {pick[U]} \in SUBSET S
      BY <3>1, <2>1
    <3>3. Value(new, U) = Value(it, U)
      BY <3>2, <2>4
    <3>4. U # T => it[U] = Value(it, U)
      BY <1>4 DEF Except
    <3> QED
      BY <3>1, <3>3, <3>4, <2>4
  <2>6. C \ {T} \in Excepted
    BY <2>4, <2>5
  <2>7. C \ {T} \subseteq C
    OBVIOUS
  <2>8. C \ {T} = C
    <3> HIDE DEF Excepted
    <3> QED
      BY <1>3, <2>6, <2>7
  <2> QED
    BY <2>8, <2>1
<1> QED
  BY <1>4, <1>5 DEF Except, IsFold

\* It is the only one
LEMMA FoldUnique ==
  ASSUME NEW S, NEW V, NEW base, NEW pick, NEW step, Foldable(S, V, base, pick, step),
         NEW R \in SUBSET S, NEW g, NEW h,
         IsFold(g, S, base, pick, step), IsFold(h, R, base, pick, step)
  PROVE  g[R] = h[R]
<1> DEFINE Differ == {T \in SUBSET R : g[T] # h[T]}
<1>1. ASSUME Differ # {} PROVE FALSE
  <2>1. IsFiniteSet(R)
    BY FS_Subset DEF Foldable
  <2>2. PICK T \in Differ : \A U \in Differ : U \subseteq T => U = T
    <3>1. Differ \subseteq SUBSET R
      OBVIOUS
    <3> HIDE DEF Differ
    <3> QED
      BY <1>1, <2>1, <3>1, MinimalSubset
  <2>3. T \in SUBSET R /\ T \in SUBSET S /\ g[T] # h[T]
    OBVIOUS
  <2>4. CASE T = {}
    BY <2>3, <2>4 DEF IsFold
  <2>5. CASE T # {}
    <3>1. pick[T] \in T /\ T \ {pick[T]} \in SUBSET R /\ T \ {pick[T]} # T
      BY <2>3, <2>5 DEF Foldable
    <3>2. g[T \ {pick[T]}] = h[T \ {pick[T]}]
      BY <2>2, <3>1
    <3> QED
      BY <2>3, <2>5, <3>2 DEF IsFold
  <2> QED
    BY <2>4, <2>5
<1> QED
  BY <1>1
-----------------------------------------------------------------------------
(* Sums. *)

Picks(S) == [T \in SUBSET S |-> CHOOSE x \in T : TRUE]
Adds(f, S) == [x \in S |-> [v \in Int |-> f[x] + v]]

LEMMA SumFoldable ==
  ASSUME NEW S, IsFiniteSet(S), NEW f, \A x \in S : f[x] \in Int
  PROVE  Foldable(S, Int, 0, Picks(S), Adds(f, S))
BY DEF Foldable, Picks, Adds

\* A sum is a fold
LEMMA SumIsFold ==
  ASSUME NEW S, IsFiniteSet(S), NEW f, \A x \in S : f[x] \in Int
  PROVE  \E it \in [SUBSET S -> Int] :
           /\ SumFunctionOnSet(f, S) = it[S]
           /\ IsFold(it, S, 0, Picks(S), Adds(f, S))
<1> DEFINE Eq(it) == it = [s \in SUBSET S |->
                             IF s = {} THEN 0
                             ELSE LET x == CHOOSE x \in s : TRUE IN f[x] + it[s \ {x}]]
           it == CHOOSE it : Eq(it)
<1>1. PICK g \in [SUBSET S -> Int] : IsFold(g, S, 0, Picks(S), Adds(f, S))
  BY SumFoldable, FoldExists
<1>2. ASSUME NEW T \in SUBSET S, T # {}
      PROVE  /\ Picks(S)[T] = CHOOSE x \in T : TRUE
             /\ Picks(S)[T] \in T
             /\ \A h \in [SUBSET S -> Int] :
                  Adds(f, S)[Picks(S)[T]][h[T \ {Picks(S)[T]}]] =
                  f[Picks(S)[T]] + h[T \ {Picks(S)[T]}]
  BY <1>2 DEF Picks, Adds
<1>3. Eq(g)
  BY <1>1, <1>2 DEF IsFold
<1>4. Eq(it)
  <2> HIDE DEF Eq
  <2> QED
    BY <1>3
<1>5. SumFunctionOnSet(f, S) = it[S]
  BY DEF SumFunctionOnSet, FoldFunctionOnSet, MapThenFoldSet
<1> DEFINE Differ == {T \in SUBSET S : g[T] # it[T]}
<1>6. Differ = {}
  <2> SUFFICES ASSUME Differ # {} PROVE FALSE
    OBVIOUS
  <2> HIDE DEF it
  <2>1. PICK T \in Differ : \A U \in Differ : U \subseteq T => U = T
    <3>1. Differ \subseteq SUBSET S
      OBVIOUS
    <3> HIDE DEF Differ
    <3> QED
      BY <3>1, MinimalSubset
  <2>2. T \in SUBSET S /\ g[T] # it[T]
    OBVIOUS
  <2>3. T # {}
    BY <1>3, <1>4, <2>2
  <2>4. g[T \ {Picks(S)[T]}] = it[T \ {Picks(S)[T]}]
    <3>1. T \ {Picks(S)[T]} \in SUBSET S /\ T \ {Picks(S)[T]} # T
      BY <1>2, <2>2, <2>3
    <3> QED
      BY <2>1, <3>1
  <2>5. ASSUME NEW h, Eq(h) PROVE h[T] = f[Picks(S)[T]] + h[T \ {Picks(S)[T]}]
    <3> DEFINE x == CHOOSE x \in T : TRUE
    <3>1. h[T] = f[x] + h[T \ {x}]
      BY <2>2, <2>3, <2>5
    <3> QED
      BY <1>2, <2>2, <2>3, <3>1
  <2> QED
    BY <1>3, <1>4, <2>2, <2>4, <2>5
<1>7. it[S] = g[S]
  BY <1>6
<1> QED
  BY <1>1, <1>5, <1>7

\* The sums over all subsets, at once
Sums(it, S, f) ==
  /\ it \in [SUBSET S -> Int] /\ it[{}] = 0
  /\ \A R \in SUBSET S : SumFunctionOnSet(f, R) = it[R]
  /\ \A T \in SUBSET S : T # {} => \E y \in T : it[T] = f[y] + it[T \ {y}]

LEMMA SumsOfSubsets ==
  ASSUME NEW S, IsFiniteSet(S), NEW f, \A x \in S : f[x] \in Int
  PROVE  \E it : Sums(it, S, f)
<1>1. PICK it \in [SUBSET S -> Int] : IsFold(it, S, 0, Picks(S), Adds(f, S))
  BY SumFoldable, FoldExists
<1>2. ASSUME NEW R \in SUBSET S PROVE SumFunctionOnSet(f, R) = it[R]
  <2>1. IsFiniteSet(R) /\ \A x \in R : f[x] \in Int
    BY FS_Subset
  <2>2. PICK h \in [SUBSET R -> Int] :
          SumFunctionOnSet(f, R) = h[R] /\ IsFold(h, R, 0, Picks(R), Adds(f, R))
    BY <2>1, SumIsFold
  <2>3. ASSUME NEW T \in SUBSET R, T # {}
        PROVE  LET y == Picks(R)[T] IN
                 /\ Picks(S)[T] = y /\ y \in T
                 /\ \A v \in Int : Adds(f, S)[y][v] = Adds(f, R)[y][v]
    BY <2>3 DEF Picks, Adds
  <2>4. IsFold(h, R, 0, Picks(S), Adds(f, S))
    <3> SUFFICES ASSUME NEW T \in SUBSET R
                 PROVE  h[T] = IF T = {} THEN 0
                               ELSE Adds(f, S)[Picks(S)[T]][h[T \ {Picks(S)[T]}]]
      BY DEF IsFold
    <3>1. h[T] = IF T = {} THEN 0 ELSE Adds(f, R)[Picks(R)[T]][h[T \ {Picks(R)[T]}]]
      BY <2>2 DEF IsFold
    <3>2. CASE T = {}
      BY <3>1, <3>2
    <3>3. CASE T # {}
      <4>1. T \ {Picks(R)[T]} \in SUBSET R
        OBVIOUS
      <4>2. h[T \ {Picks(R)[T]}] \in Int
        BY <4>1
      <4> DEFINE y == Picks(R)[T]  v == h[T \ {y}]
      <4>3. Picks(S)[T] = y /\ Adds(f, S)[y][v] = Adds(f, R)[y][v]
        BY <2>3, <3>3, <4>2
      <4>4. h[T] = Adds(f, R)[y][v]
        BY <3>1, <3>3
      <4>5. Adds(f, S)[Picks(S)[T]][h[T \ {Picks(S)[T]}]] = Adds(f, S)[y][v]
        BY <4>3, Zenon
      <4> HIDE DEF y, v
      <4> QED
        BY <3>3, <4>3, <4>4, <4>5
    <3> QED
      BY <3>2, <3>3
  <2> QED
    BY <1>1, <2>2, <2>4, SumFoldable, FoldUnique
<1>3. ASSUME NEW T \in SUBSET S, T # {}
      PROVE  LET y == Picks(S)[T] IN y \in T /\ it[T] = f[y] + it[T \ {y}]
  BY <1>1, <1>3 DEF Picks, Adds, IsFold
<1>4. it[{}] = 0
  BY <1>1 DEF IsFold
<1> QED
  BY <1>2, <1>3, <1>4 DEF Sums

LEMMA SumType ==
  ASSUME NEW S, IsFiniteSet(S), NEW f, \A x \in S : f[x] \in Int
  PROVE  SumFunctionOnSet(f, S) \in Int /\ SumFunctionOnSet(f, {}) = 0
<1>1. PICK it : Sums(it, S, f)
  BY SumsOfSubsets
<1>2. SumFunctionOnSet(f, S) = it[S] /\ SumFunctionOnSet(f, {}) = it[{}]
  BY <1>1 DEF Sums
<1> QED
  BY <1>1, <1>2 DEF Sums

\* What any element adds to a sum
LEMMA SumRemove ==
  ASSUME NEW S, IsFiniteSet(S), NEW f, \A x \in S : f[x] \in Int, NEW x \in S
  PROVE  SumFunctionOnSet(f, S) = f[x] + SumFunctionOnSet(f, S \ {x})
<1>1. PICK it : Sums(it, S, f)
  BY SumsOfSubsets
<1> DEFINE Wrong == {T \in SUBSET S : \E z \in T : it[T] # f[z] + it[T \ {z}]}
<1>2. Wrong = {}
  <2> SUFFICES ASSUME Wrong # {} PROVE FALSE
    OBVIOUS
  <2>1. PICK T \in Wrong : \A U \in Wrong : U \subseteq T => U = T
    <3>1. Wrong \subseteq SUBSET S
      OBVIOUS
    <3> HIDE DEF Wrong
    <3> QED
      BY <3>1, MinimalSubset
  <2>2. T \in SUBSET S /\ T # {} /\ \E z \in T : it[T] # f[z] + it[T \ {z}]
    OBVIOUS
  <2>3. PICK z \in T : it[T] # f[z] + it[T \ {z}]
    BY <2>2
  <2>4. PICK y \in T : it[T] = f[y] + it[T \ {y}]
    BY <1>1, <2>2 DEF Sums
  <2>5. y # z
    BY <2>3, <2>4
  <2> DEFINE A == T \ {y}  B == T \ {z}
  <2>6. A \in SUBSET S /\ z \in A /\ A \subseteq T /\ A # T
    BY <2>2, <2>5
  <2>7. B \in SUBSET S /\ y \in B /\ B \subseteq T /\ B # T
    BY <2>2, <2>5
  <2>8. it[A] = f[z] + it[A \ {z}]
    BY <2>1, <2>6
  <2>9. it[B] = f[y] + it[B \ {y}]
    BY <2>1, <2>7
  <2>10. A \ {z} = B \ {y} /\ A \ {z} \in SUBSET S
    BY <2>6
  <2>11. it[A \ {z}] \in Int /\ f[y] \in Int /\ f[z] \in Int /\ it[T] \in Int
    BY <1>1, <2>2, <2>10 DEF Sums
  <2>13. it[B \ {y}] = it[A \ {z}]
    BY <2>10, Zenon
  <2> HIDE DEF A, B
  <2>12. it[T] = f[y] + it[A] /\ it[T] # f[z] + it[B]
    BY <2>3, <2>4 DEF A, B
  <2> QED
    BY <2>8, <2>9, <2>11, <2>12, <2>13
<1>3. it[S] = f[x] + it[S \ {x}]
  BY <1>2
<1> QED
  BY <1>1, <1>3 DEF Sums

\* A sum tells of its elements only
LEMMA SumSame ==
  ASSUME NEW S, IsFiniteSet(S), NEW f, \A x \in S : f[x] \in Int,
         NEW g, \A x \in S : g[x] = f[x]
  PROVE  SumFunctionOnSet(g, S) = SumFunctionOnSet(f, S)
<1>1. Adds(g, S) = Adds(f, S)
  BY DEF Adds
<1>2. \A x \in S : g[x] \in Int
  OBVIOUS
<1>3. PICK it \in [SUBSET S -> Int] :
        SumFunctionOnSet(f, S) = it[S] /\ IsFold(it, S, 0, Picks(S), Adds(f, S))
  BY SumIsFold
<1>4. PICK h \in [SUBSET S -> Int] :
        SumFunctionOnSet(g, S) = h[S] /\ IsFold(h, S, 0, Picks(S), Adds(g, S))
  BY <1>2, SumIsFold
<1>5. S \in SUBSET S
  OBVIOUS
<1> QED
  BY <1>1, <1>3, <1>4, <1>5, SumFoldable, FoldUnique

\* Nothing that is added makes a sum negative
LEMMA SumNatural ==
  ASSUME NEW S, IsFiniteSet(S), NEW f, \A x \in S : f[x] \in Nat
  PROVE  SumFunctionOnSet(f, S) \in Nat
<1>1. PICK it : Sums(it, S, f)
  BY SumsOfSubsets
<1> DEFINE Wrong == {T \in SUBSET S : it[T] \notin Nat}
<1>2. Wrong = {}
  <2> SUFFICES ASSUME Wrong # {} PROVE FALSE
    OBVIOUS
  <2>1. PICK T \in Wrong : \A U \in Wrong : U \subseteq T => U = T
    <3>1. Wrong \subseteq SUBSET S
      OBVIOUS
    <3> HIDE DEF Wrong
    <3> QED
      BY <3>1, MinimalSubset
  <2>2. T \in SUBSET S /\ it[T] \notin Nat /\ T # {}
    <3>1. it[{}] \in Nat
      BY <1>1 DEF Sums
    <3> QED
      BY <3>1
  <2>3. PICK y \in T : it[T] = f[y] + it[T \ {y}]
    BY <1>1, <2>2 DEF Sums
  <2>4. T \ {y} \in SUBSET S /\ T \ {y} # T /\ T \ {y} \subseteq T /\ f[y] \in Nat
    BY <2>2
  <2>5. it[T \ {y}] \in Nat
    BY <2>1, <2>4
  <2> QED
    BY <2>2, <2>3, <2>4, <2>5
<1> QED
  BY <1>1, <1>2 DEF Sums

\* A sequence is added up from its first element to its last
LEMMA SumAppend ==
  ASSUME NEW n \in Nat, NEW f, \A i \in 1..n : f[i] \in Int,
         NEW g, \A i \in 1..n : g[i] = f[i], g[n + 1] \in Int
  PROVE  SumFunctionOnSet(g, 1..(n + 1)) = g[n + 1] + SumFunctionOnSet(f, 1..n)
<1>1. IsFiniteSet(1..(n + 1)) /\ IsFiniteSet(1..n)
  BY FS_Interval
<1>2. \A i \in 1..(n + 1) : g[i] \in Int
  OBVIOUS
<1>3. n + 1 \in 1..(n + 1) /\ (1..(n + 1)) \ {n + 1} = 1..n
  OBVIOUS
<1>4. SumFunctionOnSet(g, 1..(n + 1)) = g[n + 1] + SumFunctionOnSet(g, (1..(n + 1)) \ {n + 1})
  BY <1>1, <1>2, <1>3, SumRemove
<1>5. SumFunctionOnSet(g, 1..n) = SumFunctionOnSet(f, 1..n)
  BY <1>1, SumSame
<1> QED
  BY <1>3, <1>4, <1>5

-----------------------------------------------------------------------------
(* Sequences of the elements of a set, in order *)

Ascends(e) == \A i, j \in 1..Len(e) : i < j => e[i] < e[j]

LEMMA FiniteNumbers ==
  ASSUME NEW n \in Nat, NEW S \in SUBSET (1..n)
  PROVE  IsFiniteSet(S) /\ S \subseteq Int /\ Cardinality(S) \in Nat
<1>1. IsFiniteSet(1..n)
  BY FS_Interval
<1>2. IsFiniteSet(S)
  BY <1>1, FS_Subset
<1> QED
  BY <1>2, FS_CardinalityType

LEMMA LeastNumber ==
  ASSUME NEW n \in Nat, NEW S \in SUBSET (1..n), S # {}
  PROVE  \E k \in S : \A j \in S : k <= j
<1> DEFINE Upto == {1..k : k \in S}
<1>1. IsFiniteSet(1..n)
  BY FS_Interval
<1>2. PICK T \in Upto : \A U \in Upto : U \subseteq T => U = T
  <2>1. Upto \subseteq SUBSET (1..n) /\ Upto # {}
    <3>1. \A k \in S : 1..k \in SUBSET (1..n)
      OBVIOUS
    <3>2. PICK k \in S : TRUE
      OBVIOUS
    <3>3. 1..k \in Upto
      OBVIOUS
    <3> QED
      BY <3>1, <3>3
  <2> DEFINE D == 1..n
  <2>2. IsFiniteSet(D) /\ Upto \subseteq SUBSET D /\ Upto # {}
    BY <1>1, <2>1
  <2> HIDE DEF Upto, D
  <2> QED
    BY <2>2, MinimalSubset
<1>3. PICK k \in S : T = 1..k
  OBVIOUS
<1>4. ASSUME NEW j \in S, j < k PROVE FALSE
  <2>1. j \in Int /\ k \in Int /\ k >= 1 /\ j >= 1
    OBVIOUS
  <2>2. 1..j \in Upto /\ 1..j \subseteq 1..k
    BY <1>4, <2>1
  <2>3. 1..j = 1..k
    BY <1>2, <1>3, <2>2
  <2>4. k \in 1..k /\ k \notin 1..j
    BY <1>4, <2>1
  <2> QED
    BY <2>3, <2>4
<1> QED
  BY <1>4

LEMMA ToSetAppend ==
  ASSUME NEW S, NEW s \in Seq(S), NEW x \in S
  PROVE  ToSet(Append(s, x)) = ToSet(s) \cup {x}
<1> DEFINE t == Append(s, x)  n == Len(s)
<1>1. /\ n \in Nat /\ DOMAIN s = 1..n /\ DOMAIN t = 1..(n + 1)
      /\ (\A k \in 1..n : t[k] = s[k]) /\ t[n + 1] = x
  OBVIOUS
<1> HIDE DEF t, n
<1>2. 1..(n + 1) = (1..n) \cup {n + 1}
  BY <1>1
<1>3. {t[k] : k \in 1..(n + 1)} = {s[k] : k \in 1..n} \cup {x}
  BY <1>1, <1>2
<1> QED
  BY <1>1, <1>3, Zenon DEF ToSet, t

LEMMA SeqOfMore ==
  ASSUME NEW S, NEW T, S \subseteq T, NEW s \in Seq(S)
  PROVE  s \in Seq(T)
<1>1. \A k \in 1..Len(s) : s[k] \in S
  OBVIOUS
<1>2. \A k \in 1..Len(s) : s[k] \in T
  BY <1>1
<1> QED
  BY <1>2

\* A strict order in which any two elements of S compare
Orders(R, S) ==
  /\ \A x \in S : <<x, x>> \notin R
  /\ \A x, y \in S : x # y => <<x, y>> \in R \/ <<y, x>> \in R
  /\ \A x, y, z \in S : <<x, y>> \in R /\ <<y, z>> \in R => <<x, z>> \in R

Sorts(e, R, S) ==
  /\ e \in [1..Cardinality(S) -> S]
  /\ \A i, j \in 1..Cardinality(S) : i < j => <<e[i], e[j]>> \in R

\* SortedBy sorts: an element's place in an order is how many are not behind it
LEMMA SortedSorts ==
  ASSUME NEW S, IsFiniteSet(S), NEW R, Orders(R, S)
  PROVE  Sorts(SortedBy(S, R), R, S)
<1> DEFINE Upto(x) == {y \in S : y = x \/ <<y, x>> \in R}
           rank == [x \in S |-> Cardinality(Upto(x))]
           c == Cardinality(S)
<1>1. c \in Nat
  BY FS_CardinalityType
<1>2. ASSUME NEW x \in S PROVE rank[x] \in 1..c
  <2>1. Upto(x) \in SUBSET S /\ x \in Upto(x)
    OBVIOUS
  <2>2. IsFiniteSet(Upto(x)) /\ Cardinality(Upto(x)) <= c
    BY <2>1, FS_Subset
  <2>3. Cardinality(Upto(x)) \in Nat
    BY <2>2, FS_CardinalityType
  <2>4. Cardinality(Upto(x)) # 0
    BY <2>1, <2>2, FS_EmptySet
  <2> QED
    BY <1>1, <2>2, <2>3, <2>4
<1>3. ASSUME NEW x \in S, NEW y \in S, <<x, y>> \in R PROVE rank[x] < rank[y]
  <2>1. Upto(x) \in SUBSET Upto(y)
    BY <1>3 DEF Orders
  <2>2. y \in Upto(y) /\ y \notin Upto(x)
    BY <1>3 DEF Orders
  <2>3. IsFiniteSet(Upto(y))
    BY FS_Subset
  <2>4. Cardinality(Upto(x)) <= Cardinality(Upto(y)) /\ Cardinality(Upto(x)) # Cardinality(Upto(y))
    BY <2>1, <2>2, <2>3, FS_Subset
  <2> QED
    BY <1>2, <2>4
<1>4. rank \in [S -> 1..c]
  BY <1>2
<1> DEFINE e == [k \in 1..c |-> CHOOSE x \in S : rank[x] = k]
<1>0. SortedBy(S, R) = e
  <2>1. \A x \in S : rank[x] = Cardinality(Upto(x))
    OBVIOUS
  <2> DEFINE pick(k) == CHOOSE x \in S : Cardinality(Upto(x)) = k
  <2>2. \A k : pick(k) = CHOOSE x \in S : rank[x] = k
    <3> HIDE DEF rank, Upto
    <3> QED
      BY <2>1
  <2>3. SortedBy(S, R) = [k \in 1..c |-> pick(k)]
    BY DEF SortedBy
  <2> HIDE DEF rank, pick
  <2> QED
    BY <2>2, <2>3
<1> HIDE DEF rank, c
<1>5. rank \in Injection(S, 1..c)
  <2>1. ASSUME NEW x \in S, NEW y \in S, rank[x] = rank[y] PROVE x = y
    <3>1. rank[x] \in Int /\ rank[y] \in Int
      BY <1>2
    <3>2. <<x, y>> \notin R /\ <<y, x>> \notin R
      BY <1>3, <2>1, <3>1
    <3> QED
      BY <3>2 DEF Orders
  <2> QED
    BY <1>4, <2>1 DEF Injection, IsInjective
<1>6. rank \in Surjection(S, 1..c)
  <2>1. IsFiniteSet(1..c) /\ Cardinality(1..c) = c
    BY <1>1, FS_Interval
  <2> QED
    BY <1>5, <2>1, FS_Injection DEF c
<1>7. \A k \in 1..c : e[k] \in S /\ rank[e[k]] = k
  BY <1>6 DEF Surjection
<1>8. e \in [1..c -> S]
  BY <1>7
<1> HIDE DEF e
<1>9. ASSUME NEW i \in 1..c, NEW j \in 1..c, i < j PROVE <<e[i], e[j]>> \in R
  <2>1. e[i] \in S /\ e[j] \in S /\ rank[e[i]] = i /\ rank[e[j]] = j
    BY <1>7
  <2>2. e[i] # e[j] /\ <<e[j], e[i]>> \notin R
    BY <1>1, <1>3, <1>9, <2>1
  <2> QED
    BY <2>1, <2>2 DEF Orders
<1> QED
  BY <1>0, <1>8, <1>9 DEF Sorts, c

\* It has every element
LEMMA SortedHasAll ==
  ASSUME NEW S, IsFiniteSet(S), NEW R, Orders(R, S), NEW e, Sorts(e, R, S)
  PROVE  /\ Cardinality(S) \in Nat /\ e \in Seq(S) /\ Len(e) = Cardinality(S)
         /\ ToSet(e) = S
<1> DEFINE c == Cardinality(S)
<1>1. c \in Nat /\ e \in [1..c -> S] /\ \A i, j \in 1..c : i < j => <<e[i], e[j]>> \in R
  BY FS_CardinalityType DEF Sorts
<1> HIDE DEF c
<1>2. e \in Seq(S) /\ Len(e) = c /\ DOMAIN e = 1..c
  BY <1>1
<1>3. e \in Injection(1..c, S)
  <2>1. ASSUME NEW i \in 1..c, NEW j \in 1..c, e[i] = e[j] PROVE i = j
    <3>1. e[i] \in S /\ <<e[i], e[j]>> \notin R /\ <<e[j], e[i]>> \notin R
      BY <1>1, <2>1 DEF Orders
    <3>2. ~(i < j) /\ ~(j < i)
      BY <1>1, <3>1
    <3> QED
      BY <1>1, <3>2
  <2> QED
    BY <1>1, <2>1 DEF Injection, IsInjective
<1>4. e \in Surjection(1..c, S)
  <2>1. Cardinality(1..c) = c
    BY <1>1, FS_Interval
  <2> QED
    BY <1>3, <2>1, FS_Injection DEF c
<1>5. ToSet(e) = S
  BY <1>1, <1>2, <1>4 DEF ToSet, Surjection
<1> QED
  BY <1>1, <1>2, <1>5 DEF c

\* Numbers lists every element once, from the least to the greatest
LEMMA NumbersLists ==
  ASSUME NEW n \in Nat, NEW S \in SUBSET (1..n)
  PROVE  /\ Numbers(S) \in Seq(S) /\ Len(Numbers(S)) = Cardinality(S)
         /\ Cardinality(S) \in Nat
         /\ Ascends(Numbers(S)) /\ ToSet(Numbers(S)) = S
<1> DEFINE R == {p \in S \X S : p[1] < p[2]}
<1>1. IsFiniteSet(S) /\ \A x \in S : x \in Int
  BY FiniteNumbers
<1>2. \A x, y \in S : <<x, y>> \in R <=> x < y
  OBVIOUS
<1>3. Numbers(S) = SortedBy(S, R)
  BY DEF Numbers
<1> HIDE DEF R
<1>4. Orders(R, S)
  BY <1>1, <1>2 DEF Orders
<1>5. Sorts(Numbers(S), R, S)
  BY <1>1, <1>3, <1>4, SortedSorts
<1>6. /\ Numbers(S) \in Seq(S) /\ Len(Numbers(S)) = Cardinality(S) /\ Cardinality(S) \in Nat
      /\ ToSet(Numbers(S)) = S
  BY <1>1, <1>4, <1>5, SortedHasAll
<1>7. Ascends(Numbers(S))
  BY <1>2, <1>5, <1>6 DEF Sorts, Ascends
<1> QED
  BY <1>6, <1>7

\* Pairs lists every pair once, and their first numbers never go down
LEMMA PairsLists ==
  ASSUME NEW S, IsFiniteSet(S), S \subseteq Nat \X Nat
  PROVE  /\ Pairs(S) \in Seq(S) /\ Len(Pairs(S)) = Cardinality(S) /\ Cardinality(S) \in Nat
         /\ \A i, j \in 1..Len(Pairs(S)) : i < j => Pairs(S)[i][1] <= Pairs(S)[j][1]
         /\ ToSet(Pairs(S)) = S
<1> DEFINE R == {p \in S \X S : Precedes(p[1], p[2])}
<1>1. \A x \in S : x[1] \in Nat /\ x[2] \in Nat /\ x = <<x[1], x[2]>>
  OBVIOUS
<1>2. \A x, y \in S : <<x, y>> \in R <=> Precedes(x, y)
  OBVIOUS
<1>3. Pairs(S) = SortedBy(S, R)
  BY DEF Pairs
<1> HIDE DEF R
<1>4. Orders(R, S)
  <2>1. \A x \in S : ~Precedes(x, x)
    BY <1>1 DEF Precedes
  <2>2. ASSUME NEW x \in S, NEW y \in S, x # y PROVE Precedes(x, y) \/ Precedes(y, x)
    <3>1. x[1] # y[1] \/ x[2] # y[2]
      BY <1>1, <2>2
    <3> QED
      BY <1>1, <3>1 DEF Precedes
  <2>3. \A x, y, z \in S : Precedes(x, y) /\ Precedes(y, z) => Precedes(x, z)
    BY <1>1 DEF Precedes
  <2> QED
    BY <1>2, <2>1, <2>2, <2>3 DEF Orders
<1>5. Sorts(Pairs(S), R, S)
  BY <1>3, <1>4, SortedSorts
<1>6. /\ Pairs(S) \in Seq(S) /\ Len(Pairs(S)) = Cardinality(S) /\ Cardinality(S) \in Nat
      /\ ToSet(Pairs(S)) = S
  BY <1>4, <1>5, SortedHasAll
<1>7. \A i, j \in 1..Len(Pairs(S)) : i < j => Pairs(S)[i][1] <= Pairs(S)[j][1]
  <2> SUFFICES ASSUME NEW i \in 1..Len(Pairs(S)), NEW j \in 1..Len(Pairs(S)), i < j
               PROVE  Pairs(S)[i][1] <= Pairs(S)[j][1]
    OBVIOUS
  <2>1. Pairs(S)[i] \in S /\ Pairs(S)[j] \in S /\ <<Pairs(S)[i], Pairs(S)[j]>> \in R
    BY <1>5, <1>6 DEF Sorts
  <2>2. Precedes(Pairs(S)[i], Pairs(S)[j])
    BY <1>2, <2>1
  <2> QED
    BY <1>1, <2>1, <2>2 DEF Precedes
<1> QED
  BY <1>6, <1>7

\* What a sequence has at some places, in their order
LEMMA PlacesListed ==
  ASSUME NEW T, NEW s \in Seq(T), NEW K \in SUBSET (1..Len(s))
  PROVE  /\ AtPlaces(s, K) \in Seq(T) /\ Len(AtPlaces(s, K)) = Cardinality(K) /\ Cardinality(K) \in Nat
         /\ \A n \in 1..Cardinality(K) : Numbers(K)[n] \in K /\ AtPlaces(s, K)[n] = s[Numbers(K)[n]]
         /\ \A i, j \in 1..Cardinality(K) : i < j => Numbers(K)[i] < Numbers(K)[j]
         /\ ToSet(AtPlaces(s, K)) = {s[k] : k \in K}
<1> DEFINE c == Cardinality(K)  e == Numbers(K)  a == AtPlaces(s, K)
<1>1. Len(s) \in Nat
  OBVIOUS
<1>2. /\ e \in Seq(K) /\ Len(e) = c /\ c \in Nat /\ ToSet(e) = K
      /\ \A i, j \in 1..c : i < j => e[i] < e[j]
  BY <1>1, NumbersLists DEF Ascends
<1>3. a = [n \in 1..c |-> s[e[n]]]
  BY DEF AtPlaces
<1> HIDE DEF c, e, a
<1>4. \A n \in 1..c : e[n] \in K /\ s[e[n]] \in T
  <2> SUFFICES ASSUME NEW n \in 1..c PROVE e[n] \in K /\ s[e[n]] \in T
    OBVIOUS
  <2>1. e[n] \in K
    BY <1>2
  <2>2. e[n] \in 1..Len(s)
    BY <2>1
  <2> QED
    BY <2>1, <2>2
<1>5. a \in Seq(T) /\ Len(a) = c /\ DOMAIN a = 1..c /\ \A n \in 1..c : a[n] = s[e[n]]
  BY <1>2, <1>3, <1>4
<1>6. K = {e[n] : n \in 1..c}
  BY <1>2 DEF ToSet
<1>7. ToSet(a) = {s[k] : k \in K}
  <2>1. ToSet(a) = {s[e[n]] : n \in 1..c}
    BY <1>5 DEF ToSet
  <2>2. \A x : (\E n \in 1..c : x = s[e[n]]) <=> \E k \in K : x = s[k]
    BY <1>6
  <2> QED
    BY <2>1, <2>2
<1> QED
  BY <1>2, <1>4, <1>5, <1>7 DEF c, e, a
=============================================================================
