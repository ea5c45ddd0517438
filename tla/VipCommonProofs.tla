--------------------------- MODULE VipCommonProofs ---------------------------
(***************************************************************************)
(* Machine-checked proofs about two parts of vip_common, each on its own:  *)
(* Runner, for every registration, plan and dependency, unknown names and  *)
(* cycles among them, and ClockAgent at the end.                           *)
(*                                                                         *)
(* Runner: most of it is about compute_execution_order, on a registry      *)
(* that is fixed once the run has started:                                 *)
(*  - the rounds that add prerequisites grow a set of at most as many      *)
(*    names as there are cases, so the last adds none, and what they reach *)
(*    is what the selection depends on;                                    *)
(*  - each round of the sort appends one ready case, the first by rank, or *)
(*    nothing; what it has not placed at the end is in or behind a cycle;  *)
(*  - the rest is appended by rank.                                        *)
(* The inductive invariant says that the order of a started run is that    *)
(* one and what the hooks done so far are; the properties follow.          *)
(***************************************************************************)
EXTENDS Runner, ClockAgent, DataInduction

\* What add_case and set_plan keep of the registry and the plan.
WellFormed ==
  /\ cases \in Seq(Elements(cases))
  /\ \A i, j \in DOMAIN cases : cases[i].name = cases[j].name => i = j
  /\ \A i \in DOMAIN cases : cases[i].fn \in BOOLEAN
  /\ plan \in Seq(Elements(plan))

-----------------------------------------------------------------------------
(* Names and ranks.                                                         *)

LEMMA IntervalFinite ==
  \A n \in Nat : IsFiniteSet(1 .. n) /\ Cardinality(1 .. n) = n
<1> SUFFICES ASSUME NEW n \in Nat PROVE IsFiniteSet(1 .. n) /\ Cardinality(1 .. n) = n
  OBVIOUS
<1>1. n \in Int /\ 1 \in Int
  OBVIOUS
<1>2. IsFiniteSet(1 .. n) /\ Cardinality(1 .. n) = IF 1 > n THEN 0 ELSE n - 1 + 1
  BY <1>1, FS_Interval
<1> QED BY <1>2

LEMMA NamesFinite ==
  ASSUME WellFormed
  PROVE  IsFiniteSet(Names(cases)) /\ Cardinality(Names(cases)) <= Len(cases)
<1> DEFINE f == [i \in 1 .. Len(cases) |-> cases[i].name]
<1>1. Len(cases) \in Nat /\ DOMAIN cases = 1 .. Len(cases)
  BY DEF WellFormed
<1>2. f \in Surjection(1 .. Len(cases), Names(cases))
  BY <1>1 DEF Names, Surjection
<1>3. IsFiniteSet(1 .. Len(cases)) /\ Cardinality(1 .. Len(cases)) = Len(cases)
  BY <1>1, IntervalFinite
<1> HIDE DEF f
<1> QED BY <1>2, <1>3, FS_Surjection

LEMMA RegisteredFacts ==
  ASSUME WellFormed, NEW n \in Names(cases)
  PROVE  Registered(n) \in DOMAIN cases /\ cases[Registered(n)].name = n
<1>1. \E i \in DOMAIN cases : cases[i].name = n
  BY DEF Names
<1> QED BY <1>1, Zenon DEF Registered

LEMMA FirstInFacts ==
  ASSUME NEW s, s \in Seq(Elements(s)), NEW n, \E i \in DOMAIN s : s[i] = n
  PROVE  FirstIn(s, n) \in DOMAIN s /\ s[FirstIn(s, n)] = n
<1> DEFINE S == {i \in DOMAIN s : s[i] = n}
<1>1. Len(s) \in Nat /\ DOMAIN s = 1 .. Len(s)
  OBVIOUS
<1>2. S \in SUBSET Nat /\ S # {}
  BY <1>1
<1>3. PICK i \in S : \A j \in S : i <= j
  BY <1>2, LeastNumber
<1>4. i \in DOMAIN s /\ s[i] = n /\ \A j \in 1 .. i - 1 : s[j] # n
  BY <1>1, <1>3
<1> QED BY <1>4, Zenon DEF FirstIn

\* No two cases have one rank.
LEMMA RankFacts ==
  ASSUME WellFormed
  PROVE  /\ \A n \in Names(cases) : rank(n) \in Nat
         /\ \A m, n \in Names(cases) : rank(m) = rank(n) => m = n
<1> DEFINE Planned(n) == \E i \in DOMAIN plan : plan[i] = n
<1>1. plan \in Seq(Elements(plan)) /\ Len(plan) \in Nat /\ DOMAIN plan = 1 .. Len(plan)
      /\ Len(cases) \in Nat /\ DOMAIN cases = 1 .. Len(cases)
  BY DEF WellFormed
<1>2. \A n : Planned(n) => FirstIn(plan, n) \in 1 .. Len(plan) /\ plan[FirstIn(plan, n)] = n
  BY <1>1, FirstInFacts
<1>3. \A n \in Names(cases) : Registered(n) \in 1 .. Len(cases) /\ cases[Registered(n)].name = n
  BY <1>1, RegisteredFacts
<1>4. \A n : /\ Planned(n) => rank(n) = FirstIn(plan, n)
             /\ ~Planned(n) => rank(n) = Len(plan) + Registered(n)
  BY DEF rank
<1> HIDE DEF Planned
<1>5. \A n \in Names(cases) : /\ Planned(n) => rank(n) \in 1 .. Len(plan) /\ plan[rank(n)] = n
                              /\ ~Planned(n) => /\ rank(n) \in Nat /\ rank(n) > Len(plan)
                                                /\ cases[rank(n) - Len(plan)].name = n
  BY <1>1, <1>2, <1>3, <1>4
<1> QED BY <1>1, <1>5

LEMMA MinRankFacts ==
  ASSUME WellFormed, NEW S \in SUBSET Names(cases), S # {}
  PROVE  MinRank(S) \in S /\ \A m \in S : rank(MinRank(S)) <= rank(m)
<1> DEFINE R == {rank(n) : n \in S}
<1>1. R \in SUBSET Nat /\ R # {}
  BY RankFacts
<1>2. PICK r \in R : \A q \in R : r <= q
  BY <1>1, LeastNumber
<1>3. \E n \in S : \A m \in S : rank(n) <= rank(m)
  BY <1>2
<1> QED BY <1>3, Zenon DEF MinRank

-----------------------------------------------------------------------------
(* The selection.                                                           *)

LEMMA PrerequisitesFacts ==
  /\ \A S : Prerequisites(S) \subseteq Names(cases)
  /\ \A S, T : S \subseteq T => Prerequisites(S) \subseteq Prerequisites(T)
  /\ \A S, y :
       y \in Prerequisites(S) <=> y \in Names(cases) /\ \E x \in S : \E p \in prereq : p[1] = x /\ p[2] = y
BY DEF Prerequisites

LEMMA InitialType == Initial \subseteq Names(cases)
BY DEF Initial, Names

LEMMA GrownFacts ==
  /\ Grown[0] = Initial
  /\ \A k \in Nat : Grown[k] \subseteq Names(cases) /\ Grown[k + 1] = Grow(Grown[k])
<1> DEFINE A == SUBSET Names(cases)
           G == [k \in Nat |-> [S \in A |-> Grow(S)]]
           P(g) == g = [k \in Nat |-> IF k = 0 THEN Initial ELSE Grow(g[k - 1])]
<1>1. Initial \in A /\ \A S \in A : Grow(S) \in A
  BY InitialType, PrerequisitesFacts DEF Grow
<1>2. G \in [Nat -> [A -> A]] /\ \A k \in Nat : \A S \in A : G[k][S] = Grow(S)
  BY <1>1
<1> HIDE DEF A, G
<1>3. PICK f : Computes(f, A, Initial, G)
  BY <1>1, <1>2, Iteration
<1>4. \A k \in Nat : k # 0 => k - 1 \in Nat /\ (k - 1) + 1 = k
  OBVIOUS
<1>5. \A k \in Nat : f[k] = IF k = 0 THEN Initial ELSE Grow(f[k - 1])
  BY <1>2, <1>3, <1>4 DEF Computes
<1>6. P(f)
  BY <1>3, <1>5 DEF Computes
<1>7. Grown = CHOOSE g : P(g)
  BY Zenon DEF Grown
<1> HIDE DEF P
<1>8. P(Grown)
  BY <1>6, <1>7, Zenon
<1>9. Grown[0] = Initial /\ \A k \in Nat : Grown[k + 1] = Grow(Grown[k])
  BY <1>8 DEF P
<1> DEFINE S == {k \in Nat : Grown[k] \in A}
<1>10. 0 \in S /\ \A k \in Nat : k \in S => k + 1 \in S
  BY <1>1, <1>9
<1> HIDE DEF S
<1>11. Nat \subseteq S
  BY <1>10, SetInduction
<1> QED BY <1>9, <1>11 DEF S, A

\* What is selected is what the initial names need, and nothing else.
LEMMA SelectedFacts ==
  ASSUME WellFormed
  PROVE  /\ Initial \subseteq Selected /\ Selected \subseteq Names(cases)
         /\ Prerequisites(Selected) \subseteq Selected
         /\ \A C : Initial \subseteq C /\ Prerequisites(C) \subseteq C => Selected \subseteq C
<1> DEFINE n == Len(cases)
           Stable(k) == Grow(Grown[k]) = Grown[k]
           S == {k \in Nat : Stable(k) \/ Cardinality(Grown[k]) >= k}
<1>1. n \in Nat /\ IsFiniteSet(Names(cases)) /\ Cardinality(Names(cases)) \in Nat
      /\ Cardinality(Names(cases)) <= n
  BY NamesFinite, FS_CardinalityType DEF WellFormed
<1>2. \A k \in Nat : /\ Grown[k] \subseteq Names(cases) /\ Grown[k + 1] = Grow(Grown[k])
                     /\ Grown[k] \subseteq Grown[k + 1]
  BY GrownFacts DEF Grow
<1>3. \A k \in Nat : IsFiniteSet(Grown[k]) /\ Cardinality(Grown[k]) \in Nat
  BY <1>1, <1>2, FS_Subset, FS_CardinalityType
<1>4. 0 \in S
  BY <1>3
<1>5. ASSUME NEW k \in Nat, k \in S PROVE k + 1 \in S
  <2>1. CASE Stable(k)
    BY <2>1, <1>2
  <2>2. CASE ~Stable(k)
    <3>1. Cardinality(Grown[k]) >= k
      BY <1>5, <2>2
    <3>2. Grown[k] # Grown[k + 1]
      BY <1>2, <2>2
    <3>3. k + 1 \in Nat /\ Grown[k] \in SUBSET Grown[k + 1] /\ IsFiniteSet(Grown[k + 1])
      BY <1>2, <1>3
    <3>4. Cardinality(Grown[k]) <= Cardinality(Grown[k + 1])
          /\ Cardinality(Grown[k]) # Cardinality(Grown[k + 1])
      BY <3>2, <3>3, FS_Subset
    <3>5. Cardinality(Grown[k + 1]) >= k + 1
      BY <3>1, <3>3, <3>4, <1>3
    <3> QED BY <3>3, <3>5
  <2> QED BY <2>1, <2>2
<1> HIDE DEF S
<1>6. Nat \subseteq S
  BY <1>4, <1>5, SetInduction
<1>7. Stable(n)
  <2>1. CASE Cardinality(Grown[n]) >= n
    <3>1. Grown[n] \in SUBSET Names(cases) /\ Cardinality(Grown[n]) \in Nat
      BY <1>1, <1>2, <1>3
    <3>2. Cardinality(Grown[n]) <= Cardinality(Names(cases))
      BY <1>1, <3>1, FS_Subset
    <3>3. Cardinality(Grown[n]) = Cardinality(Names(cases))
      BY <1>1, <2>1, <3>1, <3>2
    <3>4. Grown[n] = Names(cases)
      BY <1>1, <3>1, <3>3, FS_Subset
    <3> QED BY <3>4, PrerequisitesFacts DEF Grow
  <2> QED BY <2>1, <1>1, <1>6 DEF S
<1>8. Prerequisites(Selected) \subseteq Selected /\ Selected \subseteq Names(cases)
  BY <1>1, <1>2, <1>7 DEF Selected, Grow
<1>9. Initial \subseteq Selected
  <2> DEFINE T == {k \in Nat : Initial \subseteq Grown[k]}
  <2>1. 0 \in T /\ \A k \in Nat : k \in T => k + 1 \in T
    BY <1>2, GrownFacts
  <2> HIDE DEF T
  <2>2. Nat \subseteq T
    BY <2>1, SetInduction
  <2> QED BY <1>1, <2>2 DEF T, Selected
<1>10. ASSUME NEW C, Initial \subseteq C, Prerequisites(C) \subseteq C PROVE Selected \subseteq C
  <2> DEFINE T == {k \in Nat : Grown[k] \subseteq C}
  <2>1. 0 \in T /\ \A k \in Nat : k \in T => k + 1 \in T
    BY <1>2, <1>10, GrownFacts, PrerequisitesFacts DEF Grow
  <2> HIDE DEF T
  <2>2. Nat \subseteq T
    BY <2>1, SetInduction
  <2> QED BY <1>1, <2>2 DEF T, Selected
<1> QED BY <1>8, <1>9, <1>10

-----------------------------------------------------------------------------
(* Dependencies.                                                            *)

LEMMA DependsFacts ==
  /\ Depends \subseteq Names(cases) \X Names(cases)
  /\ \A x \in Names(cases) : \A y \in Prerequisites({x}) : << x, y >> \in Depends
  /\ \A x, y, z : << x, y >> \in Depends /\ << y, z >> \in Depends => << x, z >> \in Depends
<1>1. \A x, y : << x, y >> \in Depends <=>
        /\ x \in Names(cases) /\ y \in Names(cases)
        /\ \A S \in Closed : Prerequisites({x}) \subseteq S => y \in S
  BY DEF Depends
<1>2. ASSUME NEW x, NEW y, NEW z, << x, y >> \in Depends, << y, z >> \in Depends
      PROVE  << x, z >> \in Depends
  <2>1. ASSUME NEW S \in Closed, Prerequisites({x}) \subseteq S PROVE z \in S
    <3>1. y \in S
      BY <1>1, <1>2, <2>1
    <3>2. Prerequisites({y}) \subseteq S
      BY <2>1, <3>1, PrerequisitesFacts DEF Closed
    <3> QED BY <1>1, <1>2, <3>2
  <2> QED BY <1>1, <1>2, <2>1
<1>3. ASSUME NEW x \in Names(cases), NEW y \in Prerequisites({x}) PROVE << x, y >> \in Depends
  BY <1>1, PrerequisitesFacts
<1> QED BY <1>2, <1>3 DEF Depends

LEMMA SelectedDepends ==
  ASSUME WellFormed
  PROVE  Selected = Initial \cup {p[2] : p \in {d \in Depends : d[1] \in Initial}}
<1> DEFINE R == Initial \cup {p[2] : p \in {d \in Depends : d[1] \in Initial}}
<1>1. \A y : y \in R <=> y \in Initial \/ \E x \in Initial : << x, y >> \in Depends
  <2>1. \A d \in Depends : d = << d[1], d[2] >>
    BY DependsFacts
  <2> QED BY <2>1
<1> HIDE DEF R
<1>2. Prerequisites(R) \subseteq R
  <2> SUFFICES ASSUME NEW z \in Prerequisites(R) PROVE z \in R
    OBVIOUS
  <2>1. PICK y \in R : z \in Prerequisites({y})
    BY PrerequisitesFacts
  <2>2. y \in Names(cases)
    <3>1. \A x : << x, y >> \in Depends => y \in Names(cases)
      BY DependsFacts
    <3> QED BY <1>1, <2>1, <3>1, InitialType
  <2>3. << y, z >> \in Depends
    BY <2>1, <2>2, DependsFacts
  <2> QED BY <1>1, <2>3, DependsFacts
<1>3. Selected \subseteq R
  BY <1>1, <1>2, SelectedFacts
<1>4. ASSUME NEW y \in R PROVE y \in Selected
  <2>1. CASE y \in Initial
    BY <2>1, SelectedFacts
  <2>2. CASE y \notin Initial
    <3>1. PICK x \in Initial : << x, y >> \in Depends
      BY <1>1, <2>2
    <3>2. Selected \in Closed /\ Prerequisites({x}) \subseteq Selected
      BY SelectedFacts, PrerequisitesFacts DEF Closed
    <3> QED BY <3>1, <3>2 DEF Depends
  <2> QED BY <2>1, <2>2
<1>5. Selected = R
  BY <1>3, <1>4
<1> QED BY <1>5 DEF R

-----------------------------------------------------------------------------
(* The sorting.                                                             *)

\* The first i - 1 of s.
Before(s, i) == {s[k] : k \in 1 .. i - 1}

\* Each was ready when it was picked, and of those that were it had the least rank.
Sorting(s, names) ==
  /\ s \in Seq(names)
  /\ \A i \in DOMAIN s : /\ s[i] \in Ready(Before(s, i), names)
                         /\ \A m \in Ready(Before(s, i), names) : rank(s[i]) <= rank(m)

LEMMA SortingPick ==
  ASSUME WellFormed, NEW names \in SUBSET Names(cases), NEW s, Sorting(s, names)
  PROVE  /\ Sorting(Pick(s, names), names)
         /\ Ready(Elements(s), names) = {} => Pick(s, names) = s
         /\ Ready(Elements(s), names) # {} => Len(Pick(s, names)) = Len(s) + 1
<1> DEFINE ready == Ready(Elements(s), names)
           m == MinRank(ready)
           t == Append(s, m)
<1>1. s \in Seq(names) /\ Len(s) \in Nat /\ DOMAIN s = 1 .. Len(s)
  BY DEF Sorting
<1>2. CASE ready = {}
  BY <1>2 DEF Pick
<1>3. CASE ready # {}
  <2>1. ready \subseteq names
    BY DEF Ready
  <2> HIDE DEF ready
  <2>2. m \in ready /\ \A n \in ready : rank(m) <= rank(n)
    BY <1>3, <2>1, MinRankFacts
  <2>3. Pick(s, names) = t
    BY <1>3 DEF Pick, ready
  <2> HIDE DEF m
  <2>4. t \in Seq(names) /\ Len(t) = Len(s) + 1 /\ DOMAIN t = 1 .. Len(s) + 1
        /\ t[Len(s) + 1] = m /\ \A i \in DOMAIN s : t[i] = s[i]
    BY <1>1, <2>1, <2>2
  <2> HIDE DEF t
  <2>5. \A i \in DOMAIN s : Before(t, i) = Before(s, i)
    BY <1>1, <2>4 DEF Before
  <2>6. Before(t, Len(s) + 1) = Elements(s)
    BY <1>1, <2>4 DEF Before, Elements
  <2>7. ASSUME NEW i \in DOMAIN t
        PROVE  /\ t[i] \in Ready(Before(t, i), names)
               /\ \A n \in Ready(Before(t, i), names) : rank(t[i]) <= rank(n)
    <3>1. CASE i \in DOMAIN s
      BY <2>4, <2>5, <3>1 DEF Sorting
    <3>2. CASE i \notin DOMAIN s
      <4>1. i = Len(s) + 1
        BY <1>1, <2>4, <3>2
      <4> QED BY <2>2, <2>4, <2>6, <4>1 DEF ready
    <3> QED BY <3>1, <3>2
  <2>8. Sorting(t, names)
    BY <2>4, <2>7 DEF Sorting
  <2> QED BY <1>3, <2>3, <2>4, <2>8 DEF ready
<1> QED BY <1>2, <1>3

\* What is sorted has no name twice.
LEMMA SortingLength ==
  ASSUME WellFormed, NEW names \in SUBSET Names(cases), NEW s, Sorting(s, names)
  PROVE  /\ \A i, j \in DOMAIN s : s[i] = s[j] => i = j
         /\ Elements(s) \subseteq names
         /\ Cardinality(Elements(s)) = Len(s)
<1>1. s \in Seq(names) /\ Len(s) \in Nat /\ DOMAIN s = 1 .. Len(s)
  BY DEF Sorting
<1>2. \A i, j \in DOMAIN s : i < j => s[i] # s[j]
  <2> SUFFICES ASSUME NEW i \in DOMAIN s, NEW j \in DOMAIN s, i < j PROVE s[i] # s[j]
    OBVIOUS
  <2>1. s[j] \notin Before(s, j)
    BY DEF Sorting, Ready
  <2>2. i \in 1 .. j - 1
    BY <1>1
  <2> QED BY <2>1, <2>2 DEF Before
<1>3. \A i, j \in DOMAIN s : s[i] = s[j] => i = j
  <2> SUFFICES ASSUME NEW i \in DOMAIN s, NEW j \in DOMAIN s, s[i] = s[j], i # j PROVE FALSE
    OBVIOUS
  <2>1. i < j \/ j < i
    BY <1>1
  <2> QED BY <1>2, <2>1
<1>4. Elements(s) \subseteq names
  BY <1>1 DEF Elements
<1>5. IsFiniteSet(1 .. Len(s)) /\ Cardinality(1 .. Len(s)) = Len(s)
  BY <1>1, IntervalFinite
<1>6. s \in Surjection(1 .. Len(s), Elements(s)) /\ s \in Injection(1 .. Len(s), Elements(s))
  BY <1>1, <1>3 DEF Elements, Surjection, Injection, IsInjective
<1> QED BY <1>3, <1>4, <1>5, <1>6, FS_Surjection

\* Kahn stops when no case is ready.
LEMMA KahnFacts ==
  ASSUME WellFormed, NEW names \in SUBSET Names(cases)
  PROVE  Sorting(Kahn(names), names) /\ Ready(Elements(Kahn(names)), names) = {}
<1> DEFINE n == Len(cases)
           A == {s \in Seq(names) : Sorting(s, names)}
           G == [k \in Nat |-> [s \in A |-> Pick(s, names)]]
           P(g) == g = [k \in Nat |-> IF k = 0 THEN << >> ELSE Pick(g[k - 1], names)]
           sorted == CHOOSE g : P(g)
<1>1. << >> \in A /\ \A s \in A : Pick(s, names) \in A
  <2>1. << >> \in A
    BY DEF Sorting
  <2>2. \A s \in A : Pick(s, names) \in A
    BY SortingPick DEF Sorting
  <2> QED BY <2>1, <2>2
<1>2. \A s \in A : Sorting(s, names)
  OBVIOUS
<1> HIDE DEF A
<1>3. G \in [Nat -> [A -> A]] /\ \A k \in Nat : \A s \in A : G[k][s] = Pick(s, names)
  BY <1>1
<1> HIDE DEF G
<1>4. PICK f : Computes(f, A, << >>, G)
  BY <1>1, <1>3, Iteration
<1>5. \A k \in Nat : k # 0 => k - 1 \in Nat /\ (k - 1) + 1 = k
  OBVIOUS
<1>6. \A k \in Nat : f[k] = IF k = 0 THEN << >> ELSE Pick(f[k - 1], names)
  BY <1>3, <1>4, <1>5 DEF Computes
<1>7. P(f)
  BY <1>4, <1>6 DEF Computes
<1>8. Kahn(names) = sorted[n]
  BY Zenon DEF Kahn
<1> HIDE DEF P
<1>9. P(sorted)
  BY <1>7, Zenon
<1> HIDE DEF sorted
<1>10. sorted[0] = << >> /\ \A k \in Nat : sorted[k + 1] = Pick(sorted[k], names)
  BY <1>9 DEF P
<1> DEFINE Stuck(s) == Ready(Elements(s), names) = {}
           S == {k \in Nat : sorted[k] \in A /\ (Stuck(sorted[k]) \/ Len(sorted[k]) >= k)}
<1>11. 0 \in S
  BY <1>1, <1>10
<1>12. ASSUME NEW k \in Nat, k \in S PROVE k + 1 \in S
  <2>1. sorted[k] \in A /\ Sorting(sorted[k], names) /\ sorted[k + 1] = Pick(sorted[k], names)
        /\ Len(sorted[k]) \in Nat
    <3>1. sorted[k] \in A /\ sorted[k + 1] = Pick(sorted[k], names)
      BY <1>10, <1>12
    <3>2. Sorting(sorted[k], names)
      BY <1>2, <3>1
    <3> QED BY <3>1, <3>2 DEF Sorting
  <2>2. /\ sorted[k + 1] \in A
        /\ Stuck(sorted[k]) => sorted[k + 1] = sorted[k]
        /\ ~Stuck(sorted[k]) => Len(sorted[k + 1]) = Len(sorted[k]) + 1
    BY <1>1, <2>1, SortingPick
  <2> HIDE DEF Stuck
  <2> QED BY <1>12, <2>1, <2>2
<1> HIDE DEF S
<1>13. Nat \subseteq S
  BY <1>11, <1>12, SetInduction
<1>14. n \in Nat /\ IsFiniteSet(Names(cases)) /\ Cardinality(Names(cases)) \in Nat
       /\ Cardinality(Names(cases)) <= n
  BY NamesFinite, FS_CardinalityType DEF WellFormed
<1>15. Sorting(sorted[n], names) /\ (Stuck(sorted[n]) \/ Len(sorted[n]) >= n)
  BY <1>2, <1>13, <1>14 DEF S
<1>16. Stuck(sorted[n])
  <2> SUFFICES ASSUME Len(sorted[n]) >= n PROVE Stuck(sorted[n])
    BY <1>15
  <2>1. Elements(sorted[n]) \subseteq names /\ Cardinality(Elements(sorted[n])) = Len(sorted[n])
    BY <1>15, SortingLength
  <2>2. IsFiniteSet(names) /\ Cardinality(names) \in Nat /\ Cardinality(names) <= n
    BY <1>14, FS_Subset, FS_CardinalityType
  <2>3. Len(sorted[n]) \in Nat
    BY <1>15 DEF Sorting
  <2>4. Cardinality(Elements(sorted[n])) <= Cardinality(names)
    BY <2>1, <2>2, FS_Subset
  <2>5. Cardinality(Elements(sorted[n])) = Cardinality(names)
    BY <2>1, <2>2, <2>3, <2>4, <1>14
  <2>6. names = Elements(sorted[n])
    BY <2>1, <2>2, <2>5, FS_Subset
  <2> QED BY <2>6 DEF Ready
<1> QED BY <1>8, <1>15, <1>16

-----------------------------------------------------------------------------
(* What a cycle keeps from being sorted.                                    *)

\* ByRank lists every name of a set once, by increasing rank.
LEMMA ByRankFacts ==
  ASSUME WellFormed, NEW L \in SUBSET Names(cases)
  PROVE  /\ ByRank(L) \in Seq(L) /\ Elements(ByRank(L)) = L
         /\ \A i, j \in DOMAIN ByRank(L) : ByRank(L)[i] = ByRank(L)[j] => i = j
<1> DEFINE c == Cardinality(L)
           Below(n) == {m \in L : rank(m) < rank(n)}
           f == [n \in L |-> Cardinality(Below(n))]
           b == ByRank(L)
<1>1. IsFiniteSet(L) /\ c \in Nat
  BY NamesFinite, FS_Subset, FS_CardinalityType
<1> HIDE DEF c
<1>2. \A n \in L : rank(n) \in Nat
  BY RankFacts
<1>3. \A m, n \in L : m # n => rank(m) < rank(n) \/ rank(n) < rank(m)
  BY <1>2, RankFacts
<1>4. \A n \in L : Below(n) \subseteq L \ {n}
  BY <1>2
<1>5. \A n, m \in L : rank(m) < rank(n) => Below(m) \subseteq Below(n) /\ m \in Below(n) /\ m \notin Below(m)
  BY <1>2
<1> HIDE DEF Below
<1>6. ASSUME NEW n \in L
      PROVE  IsFiniteSet(Below(n)) /\ Cardinality(Below(n)) \in Nat /\ Cardinality(Below(n)) <= c - 1
  <2>1. IsFiniteSet(L \ {n}) /\ Cardinality(L \ {n}) = c - 1
    BY <1>1, FS_RemoveElement DEF c
  <2>2. Below(n) \in SUBSET (L \ {n})
    BY <1>4
  <2> QED BY <2>1, <2>2, FS_Subset, FS_CardinalityType
<1>7. ASSUME NEW m \in L, NEW n \in L, rank(m) < rank(n)
      PROVE  Cardinality(Below(m)) < Cardinality(Below(n))
  <2>1. Below(m) \in SUBSET Below(n) /\ Below(m) # Below(n)
    BY <1>5, <1>7
  <2>2. Cardinality(Below(m)) <= Cardinality(Below(n)) /\ Cardinality(Below(m)) # Cardinality(Below(n))
    BY <2>1, <1>6, FS_Subset
  <2> QED BY <2>2, <1>6
<1>8. \A m, n \in L : Cardinality(Below(m)) = Cardinality(Below(n)) => m = n
  BY <1>3, <1>6, <1>7
<1>9. f \in Injection(L, 0 .. c - 1)
  BY <1>1, <1>6, <1>8 DEF Injection, IsInjective
<1>10. IsFiniteSet(0 .. c - 1) /\ Cardinality(0 .. c - 1) = c
  <2>1. 0 \in Int /\ c - 1 \in Int
    BY <1>1
  <2>2. IsFiniteSet(0 .. c - 1)
        /\ Cardinality(0 .. c - 1) = IF 0 > c - 1 THEN 0 ELSE (c - 1) - 0 + 1
    BY <2>1, FS_Interval
  <2> QED BY <1>1, <2>2
<1>11. f \in Surjection(L, 0 .. c - 1)
  BY <1>9, <1>10, FS_Injection DEF c
<1>12. \A i \in 1 .. c : \E n \in L : Cardinality(Below(n)) = i - 1
  <2>1. \A k \in 0 .. c - 1 : \E n \in L : f[n] = k
    BY <1>11 DEF Surjection
  <2>2. \A i \in 1 .. c : i - 1 \in 0 .. c - 1
    BY <1>1
  <2> QED BY <2>1, <2>2
<1>13. b = [i \in 1 .. c |-> CHOOSE n \in L : Cardinality(Below(n)) = i - 1]
  BY Zenon DEF ByRank, c, Below
<1> HIDE DEF b
<1>14. \A i \in 1 .. c : b[i] = CHOOSE n \in L : Cardinality(Below(n)) = i - 1
  BY <1>13
<1>15. \A i \in 1 .. c : b[i] \in L /\ Cardinality(Below(b[i])) = i - 1
  BY <1>12, <1>14, Zenon
<1>16. b \in Seq(L) /\ DOMAIN b = 1 .. c
  BY <1>1, <1>13, <1>15
<1>17. \A n \in L : \E i \in 1 .. c : b[i] = n
  <2> SUFFICES ASSUME NEW n \in L PROVE \E i \in 1 .. c : b[i] = n
    OBVIOUS
  <2>1. Cardinality(Below(n)) + 1 \in 1 .. c
    BY <1>1, <1>6
  <2>2. b[Cardinality(Below(n)) + 1] = n
    BY <1>6, <1>8, <1>15, <2>1
  <2> QED BY <2>1, <2>2
<1>18. Elements(b) = L
  BY <1>15, <1>16, <1>17 DEF Elements
<1>19. \A i, j \in 1 .. c : b[i] = b[j] => i = j
  <2> SUFFICES ASSUME NEW i \in 1 .. c, NEW j \in 1 .. c, b[i] = b[j] PROVE i = j
    OBVIOUS
  <2>1. i - 1 = j - 1
    BY <1>15
  <2> QED BY <1>1, <2>1
<1> QED BY <1>16, <1>18, <1>19 DEF b

\* A case that is never ready depends on a cycle.
LEMMA NeverReady ==
  ASSUME WellFormed, NEW done, NEW names \in SUBSET Names(cases),
         Prerequisites(names) \subseteq names, Ready(done, names) = {},
         NEW n \in names \ done
  PROVE  n \in Unsolvable
<1> DEFINE L == names \ done
           T == {m \in L : m = n \/ << n, m >> \in Depends}
           After(m) == {x \in Names(cases) : << m, x >> \in Depends}
           C == {Cardinality(After(m)) : m \in T}
<1>1. \A m \in L : \E x \in L : x \in Prerequisites({m})
  <2> SUFFICES ASSUME NEW m \in L PROVE \E x \in L : x \in Prerequisites({m})
    OBVIOUS
  <2>1. PICK x \in Prerequisites({m}) : x \notin done
    BY DEF Ready
  <2>2. x \in names
    BY PrerequisitesFacts
  <2> QED BY <2>1, <2>2
<1>2. \A m : IsFiniteSet(After(m)) /\ Cardinality(After(m)) \in Nat
  BY NamesFinite, FS_Subset, FS_CardinalityType
<1>3. C \in SUBSET Nat /\ C # {}
  BY <1>2
<1>4. PICK c \in C : \A d \in C : c <= d
  BY <1>3, LeastNumber
<1>5. PICK m \in T : c = Cardinality(After(m))
  BY <1>4
<1>6. PICK x \in L : x \in Prerequisites({m})
  BY <1>1, <1>5
<1>7. << m, x >> \in Depends /\ m \in Names(cases) /\ x \in Names(cases)
  BY <1>5, <1>6, DependsFacts, PrerequisitesFacts
<1>8. x \in T /\ << n, x >> \in Depends
  BY <1>5, <1>6, <1>7, DependsFacts
<1>9. Cardinality(After(m)) <= Cardinality(After(x))
  <2> HIDE DEF After, T
  <2>1. Cardinality(After(x)) \in C
    BY <1>8
  <2> HIDE DEF C
  <2> QED BY <1>4, <1>5, <2>1
<1>10. After(x) \in SUBSET After(m)
  BY <1>7, DependsFacts
<1>11. Cardinality(After(x)) <= Cardinality(After(m))
  BY <1>2, <1>10, FS_Subset
<1>12. After(x) = After(m)
  <2> HIDE DEF After
  <2>1. Cardinality(After(x)) = Cardinality(After(m))
    BY <1>2, <1>9, <1>11
  <2> QED BY <2>1, <1>2, <1>10, FS_Subset
<1>13. << x, x >> \in Depends
  BY <1>7, <1>12
<1> QED BY <1>7, <1>8, <1>13 DEF Unsolvable, Cyclic

-----------------------------------------------------------------------------
(* The order.                                                               *)

\* Every selected case has one place.
Arranged(o) ==
  /\ o \in Seq(Names(cases)) /\ Elements(o) = Selected
  /\ \A i, j \in DOMAIN o : o[i] = o[j] => i = j

LEMMA OrderFacts ==
  ASSUME WellFormed
  PROVE  LET s == Kahn(Selected)
             o == compute_execution_order
         IN /\ Arranged(o)
            /\ Sorting(s, Selected)
            /\ Len(s) <= Len(o) /\ \A i \in DOMAIN s : o[i] = s[i]
            /\ \A i \in DOMAIN o : o[i] \notin Unsolvable => i \in DOMAIN s
<1> DEFINE s == Kahn(Selected)
           L == Selected \ Elements(s)
           b == ByRank(L)
           o == compute_execution_order
<1>1. Selected \in SUBSET Names(cases) /\ Prerequisites(Selected) \subseteq Selected
  BY SelectedFacts
<1>2. Sorting(s, Selected) /\ Ready(Elements(s), Selected) = {}
  BY <1>1, KahnFacts
<1>3. /\ \A i, j \in DOMAIN s : s[i] = s[j] => i = j
      /\ Elements(s) \subseteq Selected
  BY <1>1, <1>2, SortingLength
<1>4. /\ b \in Seq(L) /\ Elements(b) = L
      /\ \A i, j \in DOMAIN b : b[i] = b[j] => i = j
  BY <1>1, ByRankFacts
<1>5. o = s \o b
  BY DEF compute_execution_order
<1>6. s \in Seq(Selected) /\ Len(s) \in Nat /\ Len(b) \in Nat
      /\ DOMAIN s = 1 .. Len(s) /\ DOMAIN b = 1 .. Len(b)
  BY <1>2, <1>4 DEF Sorting
<1>7. \A m \in L : m \in Unsolvable
  BY <1>1, <1>2, NeverReady
<1> HIDE DEF s, b, o
<1>8. L \subseteq Selected /\ Selected \subseteq Names(cases) /\ \A m \in L : m \notin Elements(s)
  BY <1>1
<1> HIDE DEF L
<1>9. /\ o \in Seq(Names(cases)) /\ Len(o) = Len(s) + Len(b) /\ DOMAIN o = 1 .. Len(s) + Len(b)
      /\ \A i \in 1 .. Len(s) : o[i] = s[i]
      /\ \A i \in 1 .. Len(o) : i > Len(s) => i - Len(s) \in 1 .. Len(b) /\ o[i] = b[i - Len(s)]
  <2>1. s \in Seq(Names(cases)) /\ b \in Seq(Names(cases))
    BY <1>1, <1>4, <1>6, <1>8
  <2> QED BY <1>5, <1>6, <2>1
<1>10. \A i \in 1 .. Len(b) : b[i] \in L /\ i + Len(s) \in DOMAIN o /\ o[i + Len(s)] = b[i]
  <2> SUFFICES ASSUME NEW i \in 1 .. Len(b)
               PROVE  b[i] \in L /\ i + Len(s) \in DOMAIN o /\ o[i + Len(s)] = b[i]
    OBVIOUS
  <2>1. b[i] \in L
    BY <1>4, <1>6
  <2>2. i + Len(s) \in 1 .. Len(o) /\ i + Len(s) > Len(s) /\ (i + Len(s)) - Len(s) = i
    BY <1>6, <1>9
  <2> QED BY <1>9, <2>1, <2>2
<1>11. \A i \in 1 .. Len(s) : s[i] \in Elements(s) /\ i \in DOMAIN o
  BY <1>6, <1>9 DEF Elements
<1>12. Elements(o) \subseteq Selected
  BY <1>3, <1>6, <1>8, <1>9, <1>10, <1>11 DEF Elements
<1>13. Elements(s) \cup L = Selected
  BY <1>3 DEF L
<1>14. Selected \subseteq Elements(o)
  <2> SUFFICES ASSUME NEW m \in Selected PROVE \E i \in DOMAIN o : o[i] = m
    BY DEF Elements
  <2>1. CASE m \in Elements(s)
    BY <2>1, <1>6, <1>9, <1>11 DEF Elements
  <2>2. CASE m \in L
    <3>1. PICK i \in 1 .. Len(b) : b[i] = m
      BY <2>2, <1>4, <1>6 DEF Elements
    <3> QED BY <3>1, <1>10
  <2> QED BY <1>13, <2>1, <2>2
<1>15. ASSUME NEW i \in DOMAIN o, NEW j \in DOMAIN o, o[i] = o[j] PROVE i = j
  <2>1. CASE i <= Len(s) /\ j <= Len(s)
    BY <2>1, <1>3, <1>6, <1>9, <1>15
  <2>2. CASE i > Len(s) /\ j > Len(s)
    <3>1. /\ i - Len(s) \in 1 .. Len(b) /\ o[i] = b[i - Len(s)]
          /\ j - Len(s) \in 1 .. Len(b) /\ o[j] = b[j - Len(s)]
      BY <2>2, <1>9
    <3>2. i - Len(s) = j - Len(s)
      BY <3>1, <1>4, <1>6, <1>15
    <3> QED BY <3>2, <1>6, <1>9
  <2>3. CASE (i <= Len(s) /\ j > Len(s)) \/ (i > Len(s) /\ j <= Len(s))
    BY <2>3, <1>6, <1>8, <1>9, <1>10, <1>11, <1>15
  <2> QED BY <2>1, <2>2, <2>3, <1>6, <1>9
<1>16. \A i \in DOMAIN o : o[i] \notin Unsolvable => i \in DOMAIN s
  <2> SUFFICES ASSUME NEW i \in DOMAIN o, i \notin DOMAIN s PROVE o[i] \in Unsolvable
    OBVIOUS
  <2>1. i > Len(s) /\ i \in 1 .. Len(o)
    BY <1>6, <1>9
  <2>2. i - Len(s) \in 1 .. Len(b) /\ o[i] = b[i - Len(s)]
    BY <1>9, <2>1
  <2> QED BY <1>7, <1>10, <2>2
<1>17. Arranged(o)
  BY <1>9, <1>12, <1>14, <1>15 DEF Arranged
<1> QED BY <1>2, <1>6, <1>9, <1>16, <1>17 DEF s, o

-----------------------------------------------------------------------------
(* The properties of the order.                                             *)

\* compute_execution_order returns what is selected and needed, each once, in an
\* order that respects the dependencies and otherwise the plan.
LEMMA CompleteOrder ==
  ASSUME WellFormed, Started => order = compute_execution_order, TypeOK
  PROVE  Complete
<1>1. ASSUME Started
      PROVE  /\ Elements(order) = Initial \cup {p[2] : p \in {d \in Depends : d[1] \in Initial}}
             /\ Cardinality(Elements(order)) = Len(order)
  <2>1. Arranged(order)
    BY <1>1, OrderFacts
  <2>2. Elements(order) = Selected
    BY <2>1 DEF Arranged
  <2>3. Len(order) \in Nat /\ DOMAIN order = 1 .. Len(order)
    BY <2>1 DEF Arranged
  <2>4. order \in Surjection(1 .. Len(order), Elements(order))
        /\ order \in Injection(1 .. Len(order), Elements(order))
    BY <2>1, <2>3 DEF Arranged, Elements, Surjection, Injection, IsInjective
  <2>5. IsFiniteSet(1 .. Len(order)) /\ Cardinality(1 .. Len(order)) = Len(order)
    BY <2>3, IntervalFinite
  <2>6. Cardinality(Elements(order)) = Len(order)
    BY <2>4, <2>5, FS_Surjection
  <2> QED BY <2>2, <2>6, SelectedDepends
<1> QED BY <1>1 DEF Complete

LEMMA PlaceFacts ==
  ASSUME Arranged(order), NEW i \in DOMAIN order
  PROVE  Place(order[i]) = i
<1>1. \E j \in DOMAIN order : order[j] = order[i]
  OBVIOUS
<1>2. Place(order[i]) \in DOMAIN order /\ order[Place(order[i])] = order[i]
  BY <1>1, Zenon DEF Place
<1> QED BY <1>2 DEF Arranged

LEMMA OrderedByDependency ==
  ASSUME WellFormed, Started => order = compute_execution_order
  PROVE  InOrder
<1> DEFINE s == Kahn(Selected)
<1> SUFFICES ASSUME Started, NEW p \in Edges, {p[1], p[2]} \subseteq Elements(order),
                    p[1] \notin Unsolvable
             PROVE  Place(p[2]) < Place(p[1])
  BY DEF InOrder
<1>1. /\ Arranged(order) /\ Sorting(s, Selected)
      /\ Len(s) <= Len(order) /\ \A i \in DOMAIN s : order[i] = s[i]
      /\ \A i \in DOMAIN order : order[i] \notin Unsolvable => i \in DOMAIN s
  BY OrderFacts
<1> HIDE DEF s
<1>2. s \in Seq(Selected) /\ Len(s) \in Nat /\ DOMAIN s = 1 .. Len(s)
      /\ Len(order) \in Nat /\ DOMAIN order = 1 .. Len(order)
  BY <1>1 DEF Sorting, Arranged
<1>3. PICK i \in DOMAIN order : order[i] = p[1]
  BY DEF Elements
<1>4. i \in DOMAIN s /\ s[i] = p[1]
  BY <1>1, <1>3
<1>5. p[2] \in Prerequisites({p[1]})
  BY DEF Edges, Prerequisites
<1>6. p[2] \in Before(s, i)
  BY <1>1, <1>4, <1>5 DEF Sorting, Ready
<1>7. PICK k \in 1 .. i - 1 : s[k] = p[2]
  BY <1>6 DEF Before
<1>8. k \in DOMAIN s /\ k \in DOMAIN order /\ order[k] = p[2] /\ k < i
  BY <1>1, <1>2, <1>4, <1>7
<1> QED BY <1>1, <1>3, <1>8, PlaceFacts

LEMMA OrderedByRank ==
  ASSUME WellFormed, Started => order = compute_execution_order
  PROVE  NoNeedlessReordering
<1> DEFINE s == Kahn(Selected)
<1> SUFFICES ASSUME Started, NEW i \in DOMAIN order, NEW j \in DOMAIN order,
                    i < j, rank(order[j]) < rank(order[i]), order[j] \notin Unsolvable
             PROVE  \E k \in i .. j - 1 : << order[j], order[k] >> \in Depends
  BY DEF NoNeedlessReordering
<1>1. /\ Arranged(order) /\ Sorting(s, Selected)
      /\ Len(s) <= Len(order) /\ \A k \in DOMAIN s : order[k] = s[k]
      /\ \A k \in DOMAIN order : order[k] \notin Unsolvable => k \in DOMAIN s
  BY OrderFacts
<1>2. Selected \in SUBSET Names(cases)
  BY SelectedFacts
<1> HIDE DEF s
<1>3. s \in Seq(Selected) /\ Len(s) \in Nat /\ DOMAIN s = 1 .. Len(s)
      /\ Len(order) \in Nat /\ DOMAIN order = 1 .. Len(order)
  BY <1>1 DEF Sorting, Arranged
<1>4. /\ i \in DOMAIN s /\ j \in DOMAIN s /\ order[i] = s[i] /\ order[j] = s[j]
      /\ s[i] \in Names(cases) /\ s[j] \in Names(cases)
  BY <1>1, <1>2, <1>3
<1>5. s[j] \in Ready(Before(s, j), Selected)
  BY <1>1, <1>4 DEF Sorting
<1>6. s[j] \notin Before(s, i)
  BY <1>3, <1>4, <1>5 DEF Ready, Before
<1>7. s[j] \notin Ready(Before(s, i), Selected)
  <2>1. rank(s[i]) \in Nat /\ rank(s[j]) \in Nat /\ rank(s[j]) < rank(s[i])
    BY <1>4, RankFacts
  <2>2. \A m \in Ready(Before(s, i), Selected) : rank(s[i]) <= rank(m)
    BY <1>1, <1>4 DEF Sorting
  <2> QED BY <2>1, <2>2
<1>8. PICK x \in Prerequisites({s[j]}) : x \notin Before(s, i)
  <2>1. s[j] \in Selected \ Before(s, i)
    BY <1>5, <1>6 DEF Ready
  <2>2. ~(Prerequisites({s[j]}) \subseteq Before(s, i))
    BY <2>1, <1>7 DEF Ready
  <2> QED BY <2>2
<1>9. x \in Before(s, j)
  BY <1>5, <1>8 DEF Ready
<1>10. PICK k \in 1 .. j - 1 : s[k] = x
  BY <1>9 DEF Before
<1>11. k \in i .. j - 1 /\ k \in DOMAIN s
  BY <1>3, <1>4, <1>8, <1>10 DEF Before
<1>12. << s[j], x >> \in Depends
  BY <1>4, <1>8, DependsFacts
<1> QED BY <1>1, <1>4, <1>10, <1>11, <1>12

-----------------------------------------------------------------------------
(* The run.                                                                 *)

\* The cases with a function that come before the k-th of the order.
Runnable(k) == {j \in DOMAIN order : CaseOf(order[j]).fn /\ j < k}

\* How many calls are made for them.
Made(k) == 3 * Cardinality(Runnable(k))

HooksSoFar ==
  \A j \in Runnable(Len(order) + 1), h \in 1 .. 3 :
    Made(j) + h <= Len(hooks) =>
      hooks[Made(j) + h] = << << "before", "fn", "after" >>[h], order[j] >>

\* The order is that of the registry and the plan at the start, which nothing
\* changes from then on; every case that is behind has had its three calls.
IInv ==
  /\ WellFormed
  /\ phase \in {"setup", "between", "in_case", "done"}
  /\ calls \in 0 .. Len(Registrations)
  /\ order \in Seq(Names(cases)) /\ next \in 1 .. Len(order) + 1
  /\ ~Started => order = << >> /\ next = 1 /\ hooks = << >>
  /\ Started => order = compute_execution_order
  /\ phase = "in_case" => next <= Len(order) /\ CaseOf(order[next]).fn
  /\ phase = "done" => next = Len(order) + 1
  /\ after_all = IF phase = "done" THEN 1 ELSE 0
  /\ hooks \in Seq({"before", "fn", "after"} \X Names(cases))
  /\ Len(hooks) = Made(next) + (IF phase = "in_case" THEN 2 ELSE 0)
  /\ HooksSoFar

LEMMA RunnableFacts ==
  ASSUME order \in Seq(Names(cases))
  PROVE  /\ \A k : IsFiniteSet(Runnable(k)) /\ Cardinality(Runnable(k)) \in Nat
         /\ \A j, k \in 1 .. Len(order) + 1 :
              j < k /\ j \in Runnable(Len(order) + 1)
                => Cardinality(Runnable(j)) < Cardinality(Runnable(k))
         /\ \A k \in 1 .. Len(order) :
              /\ CaseOf(order[k]).fn
                   => Cardinality(Runnable(k + 1)) = Cardinality(Runnable(k)) + 1
              /\ ~CaseOf(order[k]).fn => Runnable(k + 1) = Runnable(k)
<1>1. Len(order) \in Nat /\ DOMAIN order = 1 .. Len(order)
  OBVIOUS
<1>2. \A k : IsFiniteSet(Runnable(k)) /\ Cardinality(Runnable(k)) \in Nat
  <2>1. IsFiniteSet(1 .. Len(order))
    BY <1>1, IntervalFinite
  <2>2. \A k : Runnable(k) \in SUBSET (1 .. Len(order))
    BY <1>1 DEF Runnable
  <2> QED BY <2>1, <2>2, FS_Subset, FS_CardinalityType
<1>3. ASSUME NEW j \in 1 .. Len(order) + 1, NEW k \in 1 .. Len(order) + 1, j < k,
             j \in Runnable(Len(order) + 1)
      PROVE  Cardinality(Runnable(j)) < Cardinality(Runnable(k))
  <2>1. Runnable(j) \in SUBSET Runnable(k) /\ j \in Runnable(k) /\ j \notin Runnable(j)
    BY <1>1, <1>3 DEF Runnable
  <2>2. Cardinality(Runnable(j)) <= Cardinality(Runnable(k))
        /\ Cardinality(Runnable(j)) # Cardinality(Runnable(k))
    BY <2>1, <1>2, FS_Subset
  <2> QED BY <2>2, <1>2
<1>4. ASSUME NEW k \in 1 .. Len(order), CaseOf(order[k]).fn
      PROVE  Cardinality(Runnable(k + 1)) = Cardinality(Runnable(k)) + 1
  <2>1. Runnable(k + 1) = Runnable(k) \cup {k} /\ k \notin Runnable(k)
    BY <1>1, <1>4 DEF Runnable
  <2> QED BY <2>1, <1>2, FS_AddElement
<1>5. ASSUME NEW k \in 1 .. Len(order), ~CaseOf(order[k]).fn
      PROVE  Runnable(k + 1) = Runnable(k)
  BY <1>1, <1>5 DEF Runnable
<1> QED BY <1>2, <1>3, <1>4, <1>5

\* The invariant implies what the run checks.
LEMMA IInvProperties ==
  ASSUME IInv
  PROVE  Complete /\ InOrder /\ NoNeedlessReordering /\ HooksEnclose
<1>1. TypeOK
  BY DEF IInv, WellFormed, TypeOK, Elements
<1>2. WellFormed /\ (Started => order = compute_execution_order)
  BY DEF IInv
<1>3. Complete /\ InOrder /\ NoNeedlessReordering
  BY <1>1, <1>2, CompleteOrder, OrderedByDependency, OrderedByRank
<1>4. HooksEnclose
  <2> DEFINE n == Len(order)
             R == Runnable(n + 1)
  <2>1. order \in Seq(Names(cases)) /\ n \in Nat /\ DOMAIN order = 1 .. n /\ next \in 1 .. n + 1
    BY DEF IInv
  <2>2. R = {j \in DOMAIN order : CaseOf(order[j]).fn}
    BY <2>1 DEF Runnable
  <2>3. \A j \in R : Runnable(j) = {k \in R : k < j}
    BY <2>1 DEF Runnable
  <2>4. \A k : IsFiniteSet(Runnable(k)) /\ Cardinality(Runnable(k)) \in Nat
    BY <2>1, RunnableFacts
  <2>5. Len(hooks) <= 3 * Cardinality(R)
    <3>1. CASE phase = "in_case"
      <4>1. next \in 1 .. n /\ CaseOf(order[next]).fn /\ Len(hooks) = Made(next) + 2
        BY <2>1, <3>1 DEF IInv
      <4>2. next \in R
        BY <4>1, <2>1 DEF Runnable
      <4>3. next < n + 1 /\ n + 1 \in 1 .. n + 1
        BY <2>1, <4>1
      <4>4. Cardinality(Runnable(next)) < Cardinality(R)
        BY <2>1, <4>2, <4>3, RunnableFacts
      <4> HIDE DEF R
      <4> QED BY <2>4, <4>1, <4>4 DEF Made, R
    <3>2. CASE phase # "in_case"
      <4>1. Len(hooks) = 3 * Cardinality(Runnable(next))
        BY <2>4, <3>2 DEF IInv, Made
      <4>2. Runnable(next) \in SUBSET R
        BY <2>1 DEF Runnable
      <4>3. Cardinality(Runnable(next)) <= Cardinality(R)
        BY <2>4, <4>2, FS_Subset
      <4> HIDE DEF R
      <4> QED BY <2>4, <4>1, <4>3 DEF R
    <3> QED BY <3>1, <3>2
  <2>6. phase = "done" <=> after_all = 1
    BY DEF IInv
  <2>7. phase = "done" => Len(hooks) = 3 * Cardinality(R)
    <3>1. ASSUME phase = "done" PROVE Len(hooks) = 3 * Cardinality(Runnable(next)) /\ next = n + 1
      BY <2>4, <3>1 DEF IInv, Made
    <3> QED BY <3>1
  <2>8. \A j \in R, h \in 1 .. 3 :
          3 * Cardinality({k \in R : k < j}) + h <= Len(hooks) =>
            hooks[3 * Cardinality({k \in R : k < j}) + h] = << << "before", "fn", "after" >>[h], order[j] >>
    <3>1. \A j \in R, h \in 1 .. 3 : Made(j) + h <= Len(hooks) =>
            hooks[Made(j) + h] = << << "before", "fn", "after" >>[h], order[j] >>
      BY DEF IInv, HooksSoFar
    <3>2. \A j \in R : Made(j) = 3 * Cardinality({k \in R : k < j})
      BY <2>3 DEF Made
    <3> QED BY <3>1, <3>2
  <2> HIDE DEF R
  <2> QED BY <2>2, <2>5, <2>6, <2>7, <2>8 DEF HooksEnclose
<1> QED BY <1>3, <1>4

-----------------------------------------------------------------------------
(* The invariant is inductive.                                              *)

LEMMA IInvInit == Init => IInv
<1> SUFFICES ASSUME Init PROVE IInv
  OBVIOUS
<1>1. cases = << >> /\ plan = << >> /\ order = << >> /\ hooks = << >> /\ next = 1
      /\ phase = "setup" /\ calls = 0 /\ after_all = 0
  BY DEF Init
<1>2. WellFormed
  BY <1>1 DEF WellFormed
<1>3. Runnable(1) = {} /\ Runnable(Len(order) + 1) = {}
  BY <1>1 DEF Runnable
<1>4. Made(next) = 0
  BY <1>1, <1>3, FS_EmptySet DEF Made
<1>5. HooksSoFar
  BY <1>3 DEF HooksSoFar
<1>6. Len(Registrations) \in Nat
  BY RunnerAssumption
<1> QED BY <1>1, <1>2, <1>4, <1>5, <1>6 DEF IInv, Started

\* While the registry is set up, the rest is as it began.
LEMMA SetupStep ==
  ASSUME IInv, phase = "setup", UNCHANGED progress, WellFormed', calls' \in 0 .. Len(Registrations)
  PROVE  IInv'
<1>1. order = << >> /\ next = 1 /\ hooks = << >> /\ after_all = 0
  BY DEF IInv, Started
<1>2. order' = << >> /\ next' = 1 /\ hooks' = << >> /\ after_all' = 0 /\ phase' = "setup"
  BY <1>1 DEF progress
<1>3. Runnable(next)' = {} /\ Runnable(Len(order) + 1)' = {}
  BY <1>2 DEF Runnable
<1>4. Made(next)' = 0
  BY <1>3, FS_EmptySet DEF Made
<1>5. HooksSoFar'
  BY <1>3 DEF HooksSoFar
<1> QED BY <1>2, <1>4, <1>5 DEF IInv, Started

LEMMA AddCaseStep == IInv /\ add_case => IInv'
<1> SUFFICES ASSUME IInv, add_case PROVE IInv'
  OBVIOUS
<1> DEFINE c == Registrations[calls + 1]
<1>1. calls \in Nat /\ calls + 1 \in DOMAIN Registrations /\ c \in Elements(Registrations)
      /\ c.fn \in BOOLEAN /\ calls' \in 0 .. Len(Registrations)
  <2>1. calls \in Nat /\ calls < Len(Registrations) /\ Len(Registrations) \in Nat
        /\ DOMAIN Registrations = 1 .. Len(Registrations) /\ calls' = calls + 1
    BY RunnerAssumption DEF IInv, add_case
  <2>2. calls + 1 \in DOMAIN Registrations
    BY <2>1
  <2> QED BY <2>1, <2>2, RunnerAssumption DEF Elements
<1>2. WellFormed'
  <2>1. CASE case_exists(c.name)
    BY <2>1 DEF add_case, IInv, WellFormed
  <2>2. CASE ~case_exists(c.name)
    <3>1. cases' = Append(cases, c) /\ plan' = plan
      BY <2>2 DEF add_case
    <3>2. cases \in Seq(Elements(cases)) /\ Len(cases) \in Nat /\ DOMAIN cases = 1 .. Len(cases)
      BY DEF IInv, WellFormed
    <3>3. \A i \in DOMAIN cases : cases[i].name # c.name
      BY <2>2 DEF case_exists, Names
    <3> HIDE DEF c
    <3> DEFINE all == Elements(cases) \cup {c}
    <3>4. cases \in Seq(all) /\ c \in all
      BY <3>2
    <3> HIDE DEF all
    <3>5. cases' \in Seq(all) /\ DOMAIN cases' = 1 .. Len(cases) + 1 /\ cases'[Len(cases) + 1] = c
          /\ \A i \in 1 .. Len(cases) : cases'[i] = cases[i]
      BY <3>1, <3>2, <3>4
    <3>6. cases' \in Seq(Elements(cases)')
      BY <3>5, <3>2 DEF Elements
    <3>7. \A i, j \in DOMAIN cases' : cases'[i].name = cases'[j].name => i = j
      <4>1. \A i, j \in 1 .. Len(cases) : cases[i].name = cases[j].name => i = j
        BY <3>2 DEF IInv, WellFormed
      <4>2. \A i \in DOMAIN cases' : i \in 1 .. Len(cases) \/ i = Len(cases) + 1
        BY <3>2, <3>5
      <4>3. \A i \in 1 .. Len(cases) : cases'[i] = cases[i] /\ cases[i].name # c.name
        BY <3>2, <3>3, <3>5
      <4> QED BY <3>5, <4>1, <4>2, <4>3
    <3>8. \A i \in DOMAIN cases' : cases'[i].fn \in BOOLEAN
      <4>1. \A i \in 1 .. Len(cases) : cases[i].fn \in BOOLEAN
        BY <3>2 DEF IInv, WellFormed
      <4>2. \A i \in DOMAIN cases' : i \in 1 .. Len(cases) \/ i = Len(cases) + 1
        BY <3>2, <3>5
      <4>3. c.fn \in BOOLEAN
        BY <1>1 DEF c
      <4> QED BY <3>5, <4>1, <4>2, <4>3
    <3> QED BY <3>1, <3>6, <3>7, <3>8 DEF IInv, WellFormed
  <2> QED BY <2>1, <2>2
<1> QED BY <1>1, <1>2, SetupStep DEF add_case

\* A sequence is one of its own elements.
LEMMA SequenceOfNames ==
  ASSUME NEW n \in Nat, NEW s, s = [i \in 1 .. n |-> s[i]]
  PROVE  s \in Seq(Elements(s))
BY DEF Elements

LEMMA PlanStep == IInv /\ (set_plan \/ clear_plan \/ set_plan_tagged) => IInv'
<1> SUFFICES ASSUME IInv, set_plan \/ clear_plan \/ set_plan_tagged PROVE IInv'
  OBVIOUS
<1>1. phase = "setup" /\ UNCHANGED << cases, calls >> /\ UNCHANGED progress
  BY DEF set_plan, clear_plan, set_plan_tagged
<1>2. plan' \in Seq(Elements(plan'))
  <2>1. CASE set_plan
    <3>1. plan' \in PlanCalls
      BY <2>1 DEF set_plan
    <3> QED BY <3>1, RunnerAssumption
  <2>2. CASE clear_plan
    BY <2>2 DEF clear_plan
  <2>3. CASE set_plan_tagged
    <3>1. PICK call \in TagCalls :
            LET hits   == {j \in DOMAIN cases : Hit(cases[j], call)}
                nth(i) == CHOOSE j \in hits : Cardinality({k \in hits : k < j}) = i - 1
            IN plan' = [i \in 1 .. Cardinality(hits) |-> cases[nth(i)].name]
      BY <2>3 DEF set_plan_tagged
    <3> DEFINE hits == {j \in DOMAIN cases : Hit(cases[j], call)}
               n == Cardinality(hits)
    <3>2. Len(cases) \in Nat /\ DOMAIN cases = 1 .. Len(cases)
      BY DEF IInv, WellFormed
    <3>3. hits \in SUBSET (1 .. Len(cases)) /\ IsFiniteSet(1 .. Len(cases))
      BY <3>2, IntervalFinite
    <3>4. n \in Nat
      BY <3>3, FS_Subset, FS_CardinalityType
    <3>5. plan' = [i \in 1 .. n |-> plan'[i]]
      BY <3>1
    <3> HIDE DEF n
    <3> QED BY <3>4, <3>5, SequenceOfNames
  <2> QED BY <2>1, <2>2, <2>3
<1>3. WellFormed'
  BY <1>1, <1>2 DEF IInv, WellFormed, Elements
<1> QED BY <1>1, <1>3, SetupStep DEF IInv

LEMMA AddAfterStep == IInv /\ add_after => IInv'
BY SetupStep DEF add_after, IInv, WellFormed, Elements

LEMMA SameOrder ==
  UNCHANGED << cases, plan, prereq >> => compute_execution_order' = compute_execution_order
BY DEF compute_execution_order, Selected, Grown, Grow, Kahn, Pick, ByRank, Ready, Initial,
       Prerequisites, Names, rank, FirstIn, Registered, MinRank, Elements

\* From the start on, nothing that the order was computed from changes.
LEMMA Frozen ==
  ASSUME IInv, UNCHANGED << cases, plan, prereq, calls, order >>
  PROVE  /\ WellFormed' /\ calls' \in 0 .. Len(Registrations)
         /\ compute_execution_order' = compute_execution_order
         /\ order' \in Seq(Names(cases)')
         /\ \A k : Runnable(k)' = Runnable(k) /\ Made(k)' = Made(k)
<1>1. compute_execution_order' = compute_execution_order
  BY SameOrder
<1>2. \A k : Runnable(k)' = Runnable(k)
  BY DEF Runnable, CaseOf
<1>3. \A k : Made(k)' = Made(k)
  BY <1>2 DEF Made
<1>4. WellFormed'
  BY DEF IInv, WellFormed, Elements
<1>5. order' \in Seq(Names(cases)')
  BY DEF IInv, Names
<1>6. calls' \in 0 .. Len(Registrations)
  BY DEF IInv
<1> QED BY <1>1, <1>2, <1>3, <1>4, <1>5, <1>6

LEMMA StartStep == IInv /\ Start => IInv'
<1> SUFFICES ASSUME IInv, Start PROVE IInv'
  OBVIOUS
<1> DEFINE o == compute_execution_order
<1>1. /\ phase = "setup" /\ order' = o /\ UNCHANGED << cases, plan, prereq, calls, next, hooks >>
      /\ o = << >> => phase' = "done" /\ after_all' = after_all + 1
      /\ o # << >> => phase' = "between" /\ after_all' = after_all
  BY DEF Start
<1>2. order = << >> /\ next = 1 /\ hooks = << >> /\ after_all = 0
  BY <1>1 DEF IInv, Started
<1>3. o \in Seq(Names(cases)) /\ Len(o) \in Nat
  BY OrderFacts DEF IInv, Arranged
<1>4. WellFormed' /\ order' \in Seq(Names(cases)')
  BY <1>1, <1>3 DEF IInv, WellFormed, Elements, Names
<1>5. o' = o
  BY <1>1, SameOrder
<1> HIDE DEF o
<1>6. Runnable(next)' = {}
  BY <1>1, <1>2, <1>3 DEF Runnable
<1>7. Made(next)' = 0
  BY <1>6, FS_EmptySet DEF Made
<1>8. hooks' = << >> /\ Len(hooks') = 0 /\ next' = 1 /\ next' \in 1 .. Len(order') + 1
  BY <1>1, <1>2, <1>3
<1>9. HooksSoFar'
  <2>1. IsFiniteSet(1 .. Len(o)) /\ \A k : Runnable(k)' \in SUBSET (1 .. Len(o))
    BY <1>1, <1>3, IntervalFinite DEF Runnable
  <2>2. \A k : Cardinality(Runnable(k)') \in Nat
    BY <2>1, FS_Subset, FS_CardinalityType
  <2>3. \A k : Made(k)' \in Nat
    BY <2>2 DEF Made
  <2> QED BY <1>8, <2>3 DEF HooksSoFar
<1>10. phase' = "done" => next' = Len(order') + 1
  BY <1>1, <1>3, <1>8
<1> QED BY <1>1, <1>2, <1>4, <1>5, <1>7, <1>8, <1>9, <1>10 DEF IInv, Started, o

LEMMA SameHooks ==
  ASSUME HooksSoFar, UNCHANGED << cases, order, hooks >>
  PROVE  HooksSoFar'
<1>1. Runnable(Len(order) + 1)' = Runnable(Len(order) + 1)
  BY DEF Runnable, CaseOf
<1>2. \A k : Made(k)' = Made(k)
  BY DEF Made, Runnable, CaseOf
<1> QED BY <1>1, <1>2 DEF HooksSoFar

LEMMA SkipCaseStep == IInv /\ SkipCase => IInv'
<1> SUFFICES ASSUME IInv, SkipCase PROVE IInv'
  OBVIOUS
<1>1. /\ phase = "between" /\ next <= Len(order) /\ ~CaseOf(order[next]).fn /\ next' = next + 1
      /\ UNCHANGED << cases, plan, prereq, calls, phase, order, hooks, after_all >>
  BY DEF SkipCase, HasNext, Current
<1>2. /\ WellFormed' /\ calls' \in 0 .. Len(Registrations)
      /\ compute_execution_order' = compute_execution_order /\ order' \in Seq(Names(cases)')
      /\ \A k : Runnable(k)' = Runnable(k) /\ Made(k)' = Made(k)
  BY <1>1, Frozen
<1>3. order \in Seq(Names(cases)) /\ Len(order) \in Nat /\ next \in 1 .. Len(order)
  BY <1>1 DEF IInv
<1>4. Made(next + 1) = Made(next)
  BY <1>1, <1>3, RunnableFacts DEF Made
<1> DEFINE n == next + 1
<1>5. Made(next)' = Made(n)
  BY <1>1, <1>2 DEF Made, Runnable, CaseOf
<1>6. HooksSoFar'
  BY <1>1, SameHooks DEF IInv
<1>7. next' \in 1 .. Len(order') + 1
  BY <1>1, <1>3
<1>8. hooks' \in Seq({"before", "fn", "after"} \X Names(cases)')
  BY <1>1 DEF IInv, Names
<1>9. Started /\ Started'
  BY <1>1 DEF Started
<1> QED BY <1>1, <1>2, <1>4, <1>5, <1>6, <1>7, <1>8, <1>9 DEF IInv

LEMMA FinishStep == IInv /\ Finish => IInv'
<1> SUFFICES ASSUME IInv, Finish PROVE IInv'
  OBVIOUS
<1>1. /\ phase = "between" /\ next > Len(order) /\ phase' = "done" /\ after_all' = after_all + 1
      /\ UNCHANGED << cases, plan, prereq, calls, order, next, hooks >>
  BY DEF Finish
<1>2. /\ WellFormed' /\ calls' \in 0 .. Len(Registrations)
      /\ compute_execution_order' = compute_execution_order /\ order' \in Seq(Names(cases)')
  BY <1>1, Frozen
<1>3. Made(next)' = Made(next) /\ HooksSoFar'
  BY <1>1, SameHooks DEF IInv, Made, Runnable, CaseOf
<1>4. order \in Seq(Names(cases)) /\ Len(order) \in Nat /\ next = Len(order) + 1
  BY <1>1 DEF IInv
<1>5. hooks' \in Seq({"before", "fn", "after"} \X Names(cases)')
  BY <1>1 DEF IInv, Names
<1>6. Started /\ Started' /\ after_all = 0
  BY <1>1 DEF IInv, Started
<1> QED BY <1>1, <1>2, <1>3, <1>4, <1>5, <1>6 DEF IInv

\* Where in the calls a case has its own.
LEMMA HookPlaces ==
  ASSUME IInv, next <= Len(order), CaseOf(order[next]).fn,
         NEW j \in Runnable(Len(order) + 1), NEW h \in 1 .. 3,
         Made(j) + h <= Made(next) + 3
  PROVE  (j = next) \/ (Made(j) + h <= Made(next))
<1>1. order \in Seq(Names(cases)) /\ Len(order) \in Nat /\ next \in 1 .. Len(order) + 1
      /\ DOMAIN order = 1 .. Len(order)
  BY DEF IInv
<1>2. j \in 1 .. Len(order) + 1 /\ next \in Runnable(Len(order) + 1)
  BY <1>1 DEF Runnable
<1>3. \A k : Cardinality(Runnable(k)) \in Nat
  BY <1>1, RunnableFacts
<1>4. CASE j < next
  <2>1. Cardinality(Runnable(j)) < Cardinality(Runnable(next))
    BY <1>1, <1>2, <1>4, RunnableFacts
  <2> QED BY <2>1, <1>3 DEF Made
<1>5. CASE j > next
  <2>1. Cardinality(Runnable(next)) < Cardinality(Runnable(j))
    BY <1>1, <1>2, <1>5, RunnableFacts
  <2> QED BY <2>1, <1>3 DEF Made
<1> QED BY <1>1, <1>2, <1>4, <1>5

LEMMA BeginCaseStep == IInv /\ BeginCase => IInv'
<1> SUFFICES ASSUME IInv, BeginCase PROVE IInv'
  OBVIOUS
<1> DEFINE c == order[next]
           H == {"before", "fn", "after"} \X Names(cases)
           n == Made(next)
<1>1. /\ phase = "between" /\ next <= Len(order) /\ CaseOf(c).fn /\ phase' = "in_case"
      /\ hooks' = hooks \o << << "before", c >>, << "fn", c >> >>
      /\ UNCHANGED << cases, plan, prereq, calls, order, next, after_all >>
  BY DEF BeginCase, HasNext, Current, Called
<1>2. /\ WellFormed' /\ calls' \in 0 .. Len(Registrations)
      /\ compute_execution_order' = compute_execution_order /\ order' \in Seq(Names(cases)')
      /\ \A k : Runnable(k)' = Runnable(k) /\ Made(k)' = Made(k)
  BY <1>1, Frozen
<1>3. order \in Seq(Names(cases)) /\ Len(order) \in Nat /\ next \in 1 .. Len(order)
      /\ c \in Names(cases)
  BY <1>1 DEF IInv
<1>4. \A k : Made(k) \in Nat
  BY <1>3, RunnableFacts DEF Made
<1>5. hooks \in Seq(H) /\ Len(hooks) = n
  BY <1>1, <1>4 DEF IInv
<1> HIDE DEF n, c
<1>6. hooks' \in Seq(H) /\ Len(hooks') = n + 2 /\ hooks'[n + 1] = << "before", c >>
      /\ hooks'[n + 2] = << "fn", c >> /\ \A i \in 1 .. n : hooks'[i] = hooks[i]
  <2>1. << "before", c >> \in H /\ << "fn", c >> \in H
    BY <1>3
  <2> HIDE DEF H
  <2> QED BY <1>1, <1>5, <2>1
<1>7. ASSUME NEW j \in Runnable(Len(order) + 1), NEW h \in 1 .. 3, Made(j) + h <= n + 2
      PROVE  hooks'[Made(j) + h] = << << "before", "fn", "after" >>[h], order[j] >>
  <2>1. (j = next) \/ (Made(j) + h <= n)
    <3>1. Made(j) + h <= Made(next) + 3
      BY <1>4, <1>7 DEF n
    <3> QED BY <1>1, <3>1, HookPlaces DEF n, c
  <2>2. CASE Made(j) + h <= n
    <3>1. Made(j) + h \in 1 .. n
      BY <2>2, <1>3, <1>4
    <3>2. hooks[Made(j) + h] = << << "before", "fn", "after" >>[h], order[j] >>
      BY <2>2, <1>5 DEF IInv, HooksSoFar
    <3> QED BY <1>6, <3>1, <3>2
  <2>3. CASE j = next
    <3>1. Made(j) = n /\ order[j] = c
      BY <2>3 DEF n, c
    <3>2. h = 1 \/ h = 2
      BY <1>4, <1>7, <3>1
    <3> QED BY <1>6, <3>1, <3>2
  <2> QED BY <2>1, <2>2, <2>3
<1>8. HooksSoFar'
  <2>1. Runnable(Len(order) + 1)' = Runnable(Len(order) + 1)
    BY <1>1 DEF Runnable, CaseOf
  <2> QED BY <1>1, <1>2, <1>6, <1>7, <2>1 DEF HooksSoFar
<1>9. Made(next)' = n
  BY <1>1 DEF Made, Runnable, CaseOf, n
<1>10. hooks' \in Seq({"before", "fn", "after"} \X Names(cases)')
  BY <1>1, <1>6 DEF Names
<1>11. Started /\ Started' /\ CaseOf(order[next]).fn'
  BY <1>1 DEF Started, CaseOf, c
<1> QED BY <1>1, <1>2, <1>3, <1>6, <1>8, <1>9, <1>10, <1>11 DEF IInv

LEMMA EndCaseStep == IInv /\ EndCase => IInv'
<1> SUFFICES ASSUME IInv, EndCase PROVE IInv'
  OBVIOUS
<1> DEFINE c == order[next]
           H == {"before", "fn", "after"} \X Names(cases)
           n == Made(next)
           m == next + 1
<1>1. /\ phase = "in_case" /\ next <= Len(order) /\ CaseOf(c).fn /\ phase' = "between"
      /\ hooks' = Append(hooks, << "after", c >>) /\ next' = m
      /\ UNCHANGED << cases, plan, prereq, calls, order, after_all >>
  BY DEF EndCase, Current, Called, IInv
<1>2. /\ WellFormed' /\ calls' \in 0 .. Len(Registrations)
      /\ compute_execution_order' = compute_execution_order /\ order' \in Seq(Names(cases)')
      /\ \A k : Runnable(k)' = Runnable(k) /\ Made(k)' = Made(k)
  BY <1>1, Frozen
<1>3. order \in Seq(Names(cases)) /\ Len(order) \in Nat /\ next \in 1 .. Len(order)
      /\ c \in Names(cases)
  BY <1>1 DEF IInv
<1>4. \A k : Made(k) \in Nat
  BY <1>3, RunnableFacts DEF Made
<1>5. hooks \in Seq(H) /\ Len(hooks) = n + 2
  BY <1>1, <1>4 DEF IInv
<1>6. Made(m) = n + 3
  <2>1. Cardinality(Runnable(m)) = Cardinality(Runnable(next)) + 1 /\ Cardinality(Runnable(next)) \in Nat
    BY <1>1, <1>3, RunnableFacts
  <2> QED BY <2>1 DEF Made
<1> HIDE DEF n, c
<1>7. hooks' \in Seq(H) /\ Len(hooks') = n + 3 /\ hooks'[n + 3] = << "after", c >>
      /\ \A i \in 1 .. n + 2 : hooks'[i] = hooks[i]
  <2>1. << "after", c >> \in H /\ n \in Nat
    BY <1>3, <1>4 DEF n
  <2> HIDE DEF H
  <2> QED BY <1>1, <1>5, <2>1
<1>8. ASSUME NEW j \in Runnable(Len(order) + 1), NEW h \in 1 .. 3, Made(j) + h <= n + 3
      PROVE  hooks'[Made(j) + h] = << << "before", "fn", "after" >>[h], order[j] >>
  <2>1. (j = next) \/ (Made(j) + h <= n)
    BY <1>1, <1>8, HookPlaces DEF n, c
  <2>2. CASE Made(j) + h <= n + 2
    <3>1. Made(j) + h \in 1 .. n + 2
      BY <2>2, <1>4 DEF n
    <3>2. hooks[Made(j) + h] = << << "before", "fn", "after" >>[h], order[j] >>
      BY <2>2, <1>5 DEF IInv, HooksSoFar
    <3> QED BY <1>7, <3>1, <3>2
  <2>3. CASE ~(Made(j) + h <= n + 2)
    <3>1. Made(j) + h > n /\ Made(j) + h > n + 2
      BY <2>3, <1>4 DEF n
    <3>2. j = next
      BY <2>1, <3>1, <1>4 DEF n
    <3>3. Made(j) = n /\ order[j] = c
      BY <3>2 DEF n, c
    <3>4. h = 3
      BY <1>4, <1>8, <3>1, <3>3
    <3> QED BY <1>7, <3>3, <3>4
  <2> QED BY <2>2, <2>3
<1>9. HooksSoFar'
  <2>1. Runnable(Len(order) + 1)' = Runnable(Len(order) + 1)
    BY <1>1 DEF Runnable, CaseOf
  <2> QED BY <1>1, <1>2, <1>7, <1>8, <2>1 DEF HooksSoFar
<1>10. Made(next)' = Made(m)
  BY <1>1 DEF Made, Runnable, CaseOf
<1>11. hooks' \in Seq({"before", "fn", "after"} \X Names(cases)')
  BY <1>1, <1>7 DEF Names
<1>12. Started /\ Started' /\ next' \in 1 .. Len(order') + 1
  BY <1>1, <1>3 DEF Started
<1> QED BY <1>1, <1>2, <1>6, <1>7, <1>9, <1>10, <1>11, <1>12 DEF IInv

LEMMA IInvStep == IInv /\ [Next]_vars => IInv'
<1> SUFFICES ASSUME IInv, [Next]_vars PROVE IInv'
  OBVIOUS
<1>1. CASE UNCHANGED vars
  <2>1. UNCHANGED << cases, plan, prereq, calls, phase, order, next, hooks, after_all >>
    BY <1>1 DEF vars
  <2>2. /\ WellFormed' /\ calls' \in 0 .. Len(Registrations)
        /\ compute_execution_order' = compute_execution_order /\ order' \in Seq(Names(cases)')
        /\ \A k : Runnable(k)' = Runnable(k) /\ Made(k)' = Made(k)
    BY <2>1, Frozen
  <2>3. HooksSoFar' /\ Made(next)' = Made(next)
    BY <2>1, SameHooks DEF IInv, Made, Runnable, CaseOf
  <2>4. CaseOf(order[next]).fn' = CaseOf(order[next]).fn
        /\ hooks' \in Seq({"before", "fn", "after"} \X Names(cases)')
    BY <2>1 DEF IInv, CaseOf, Names
  <2> QED BY <2>1, <2>2, <2>3, <2>4 DEF IInv, Started
<1>2. CASE add_case
  BY <1>2, AddCaseStep
<1>3. CASE set_plan \/ clear_plan \/ set_plan_tagged
  BY <1>3, PlanStep
<1>4. CASE add_after
  BY <1>4, AddAfterStep
<1>5. CASE case_runner
  BY <1>5, StartStep, SkipCaseStep, BeginCaseStep, EndCaseStep, FinishStep DEF case_runner
<1>6. CASE AllDone
  BY <1>1, <1>6 DEF AllDone
<1> QED BY <1>1, <1>2, <1>3, <1>4, <1>5, <1>6 DEF Next

-----------------------------------------------------------------------------
(* The theorems.                                                            *)

LEMMA Invariance == Spec => []IInv
BY IInvInit, IInvStep, PTL DEF Spec

\* What is selected runs with everything it depends on, each case once, and nothing
\* else: compute_execution_order (runner.cpp:176-376) loses and repeats no case.
THEOREM RunnerComplete == Spec => []Complete
BY Invariance, IInvProperties, PTL

\* A case runs after all that it depends on, unless that leads into a cycle
\* (runner.cpp:264-338).
THEOREM RunnerInOrder == Spec => []InOrder
BY Invariance, IInvProperties, PTL

\* The order of the plan, and of registration, is left only where a dependency
\* asks for it (runner.cpp:241-316).
THEOREM RunnerNoNeedlessReordering == Spec => []NoNeedlessReordering
BY Invariance, IInvProperties, PTL

\* The hooks enclose every case with a function and the cleanup comes once, after
\* the last (runner.cpp:106-174).
THEOREM RunnerHooksEnclose == Spec => []HooksEnclose
BY Invariance, IInvProperties, PTL

-----------------------------------------------------------------------------
(* The clock agent, for every set of periods and every number of requests   *)
(* at any moment.  The invariant says, for each point of clk_run, how long  *)
(* the net has been as it is.                                               *)
Halves == cycle \in 2 .. MaxHeld
High   == cycle \div 2
Low    == cycle - cycle \div 2

ClockCounts ==
  /\ MaxHeld \in Nat /\ held \in 0 .. MaxHeld /\ left \in Nat /\ low_ticks \in Nat
  /\ cycle \in {0} \cup 2 .. MaxHeld
  /\ period \in 2 .. MaxHeld /\ period_req \in 2 .. MaxHeld
  /\ running \in BOOLEAN /\ running_req \in BOOLEAN /\ asked \in BOOLEAN /\ requests \in Nat
  /\ pc \notin {"high", "low", "sleep"} => left = 0

\* The two halves of a cycle.
ClockLaid ==
  /\ pc = "high"                    => Halves /\ held + left = High
  /\ pc \in {"high", "fall"}        => low_ticks = Low
  /\ pc \in {"park_middle", "fall"} => Halves /\ held = High
  /\ pc = "low"                     => Halves /\ held + left = Low

\* No stop was asked for unless the clock was told so, and a clock that parks or
\* sleeps was asked to stop, or has not begun.
Stopped ==
  /\ ~running_req => asked \/ cycle = 0
  /\ pc \in {"init", "park", "park_middle", "sleep"} => asked \/ cycle = 0

\* A cycle that was not stopped is over.
ClockWhole == pc \in {"apply", "rise"} /\ ~asked /\ cycle # 0 => held = Low

ClockInv == ClockTypeOK /\ ClockCounts /\ ClockLaid /\ Stopped /\ ClockWhole

-----------------------------------------------------------------------------
LEMMA HalfFacts ==
  ASSUME NEW n \in Nat
  PROVE  n \div 2 \in 0 .. n /\ n - n \div 2 \in 0 .. n
OBVIOUS

\* A period that is asked for is 2 at least, and the count of ticks is enough for it.
LEMMA PeriodFacts ==
  /\ \A p \in Periods : AtLeastTwo(p) \in 2 .. MaxHeld
  /\ DefaultPeriod \in 2 .. MaxHeld /\ MaxHeld \in Nat
  /\ \A p \in 2 .. MaxHeld : AtLeastTwo(p) = p
BY ClockAssumption, HeldAssumption DEF AtLeastTwo, DefaultPeriod

LEMMA ClockInitInv == ClockInit => ClockInv
<1> SUFFICES ASSUME ClockInit PROVE ClockInv
  OBVIOUS
<1> USE PeriodFacts DEF ClockInit
<1>1. ClockTypeOK
  <2>1. {running, running_req, asked} \subseteq BOOLEAN
    OBVIOUS
  <2> QED BY <2>1 DEF ClockTypeOK, DefaultPeriod
<1>2. ClockCounts
  <2>1. running \in BOOLEAN /\ running_req \in BOOLEAN /\ asked \in BOOLEAN
    OBVIOUS
  <2> QED BY <2>1 DEF ClockCounts
<1>3. ClockLaid /\ Stopped /\ ClockWhole
  BY DEF ClockLaid, Stopped, ClockWhole
<1> QED BY <1>1, <1>2, <1>3 DEF ClockInv

\* A request changes what is wanted, and nothing of the cycle that runs.
LEMMA ClockRequestInv == ClockInv /\ (start \/ stop \/ set_period) => ClockInv'
<1> SUFFICES ASSUME ClockInv, start \/ stop \/ set_period PROVE ClockInv'
  OBVIOUS
<1>1. /\ UNCHANGED << running, period, pc, left, low_ticks, net, held, cycle >>
      /\ requests' = requests + 1
      /\ period_req' \in 2 .. MaxHeld /\ running_req' \in BOOLEAN
      /\ asked' \in BOOLEAN /\ (asked => asked') /\ (~running_req' => asked' \/ ~running_req)
  BY PeriodFacts DEF start, stop, set_period, Request, history, ClockInv, ClockCounts
<1>2. ClockTypeOK'
  BY <1>1, PeriodFacts DEF ClockInv, ClockTypeOK, ClockCounts
<1>3. ClockCounts'
  BY <1>1 DEF ClockInv, ClockCounts
<1>4. ClockLaid'
  BY <1>1 DEF ClockInv, ClockLaid, Halves, High, Low
<1>5. Stopped'
  BY <1>1 DEF ClockInv, Stopped, ClockCounts
<1>6. ClockWhole'
  BY <1>1 DEF ClockInv, ClockWhole, Low
<1> QED BY <1>2, <1>3, <1>4, <1>5, <1>6 DEF ClockInv

LEMMA ClockDriveLowInv == ClockInv /\ DriveLow => ClockInv'
<1> SUFFICES ASSUME ClockInv, DriveLow PROVE ClockInv'
  OBVIOUS
<1> USE PeriodFacts DEF ClockInv, DriveLow, Drive, Apply, Stopping, request, ClockTypeOK,
   ClockCounts
<1>1. ClockTypeOK'
  OBVIOUS
<1>2. ClockCounts'
  OBVIOUS
<1>3. ClockLaid'
  BY DEF ClockLaid, Halves, High, Low
<1>4. Stopped'
  BY DEF Stopped, ClockLaid, Halves
<1>5. ClockWhole'
  BY DEF ClockWhole, ClockLaid, Halves, Stopped, High, Low
<1> QED BY <1>1, <1>2, <1>3, <1>4, <1>5

LEMMA ClockApplyTopInv == ClockInv /\ ApplyTop => ClockInv'
<1> SUFFICES ASSUME ClockInv, ApplyTop PROVE ClockInv'
  OBVIOUS
<1> USE PeriodFacts DEF ClockInv, ApplyTop, Drive, Apply, Stopping, request, ClockTypeOK,
   ClockCounts
<1>0. /\ pc = "apply" /\ period' \in 2 .. MaxHeld /\ running' \in BOOLEAN
      /\ UNCHANGED << low_ticks, net, held, cycle, running_req, period_req, requests, asked >>
      /\ \/ pc' = "park" /\ left' = 0
         \/ pc' = "rise" /\ left' = 0
         \/ pc' = "sleep" /\ left' = IDLE_POLL_TICKS
  OBVIOUS
<1>1. ClockTypeOK'
  <2>1. {running', running_req', asked'} \subseteq BOOLEAN
    BY <1>0
  <2>2. left' \in Nat
    BY <1>0, ClockAssumption
  <2> QED BY <1>0, <2>1, <2>2
<1>2. ClockCounts'
  <2>1. left' \in Nat
    BY <1>0, ClockAssumption
  <2> QED BY <1>0, <2>1
<1>3. ClockLaid'
  BY DEF ClockLaid, Halves, High, Low
<1>4. Stopped'
  BY DEF Stopped, ClockLaid, Halves
<1>5. ClockWhole'
  BY DEF ClockWhole, ClockLaid, Halves, Stopped, High, Low
<1> QED BY <1>1, <1>2, <1>3, <1>4, <1>5

LEMMA ClockParkTopInv == ClockInv /\ ParkTop => ClockInv'
<1> SUFFICES ASSUME ClockInv, ParkTop PROVE ClockInv'
  OBVIOUS
<1> USE PeriodFacts DEF ClockInv, ParkTop, Drive, Apply, Stopping, request, ClockTypeOK, ClockCounts
<1>0. left' \in Nat
  BY ClockAssumption
<1>1. ClockTypeOK'
  BY <1>0
<1>2. ClockCounts'
  BY <1>0
<1>3. ClockLaid'
  BY DEF ClockLaid, Halves, High, Low
<1>4. Stopped'
  BY DEF Stopped, ClockLaid, Halves
<1>5. ClockWhole'
  BY DEF ClockWhole, ClockLaid, Halves, Stopped, High, Low
<1> QED BY <1>1, <1>2, <1>3, <1>4, <1>5

LEMMA ClockRiseInv == ClockInv /\ Rise => ClockInv'
<1> SUFFICES ASSUME ClockInv, Rise PROVE ClockInv'
  OBVIOUS
<1> USE PeriodFacts DEF ClockInv, Rise, Drive, Apply, Stopping, request, ClockTypeOK, ClockCounts
<1>1. ClockTypeOK'
  OBVIOUS
<1>2. ClockCounts'
  OBVIOUS
<1>3. ClockLaid'
  BY DEF ClockLaid, Halves, High, Low
<1>4. Stopped'
  BY DEF Stopped, ClockLaid, Halves
<1>5. ClockWhole'
  BY DEF ClockWhole, ClockLaid, Halves, Stopped, High, Low
<1> QED BY <1>1, <1>2, <1>3, <1>4, <1>5

LEMMA ClockApplyMiddleInv == ClockInv /\ ApplyMiddle => ClockInv'
<1> SUFFICES ASSUME ClockInv, ApplyMiddle PROVE ClockInv'
  OBVIOUS
<1> USE PeriodFacts DEF ClockInv, ApplyMiddle, Drive, Apply, Stopping, request, ClockTypeOK,
   ClockCounts
<1>1. ClockTypeOK'
  OBVIOUS
<1>2. ClockCounts'
  OBVIOUS
<1>3. ClockLaid'
  BY DEF ClockLaid, Halves, High, Low
<1>4. Stopped'
  BY DEF Stopped, ClockLaid, Halves
<1>5. ClockWhole'
  BY DEF ClockWhole, ClockLaid, Halves, Stopped, High, Low
<1> QED BY <1>1, <1>2, <1>3, <1>4, <1>5

LEMMA ClockParkMiddleInv == ClockInv /\ ParkMiddle => ClockInv'
<1> SUFFICES ASSUME ClockInv, ParkMiddle PROVE ClockInv'
  OBVIOUS
<1> USE PeriodFacts DEF ClockInv, ParkMiddle, Drive, Apply, Stopping, request, ClockTypeOK,
   ClockCounts
<1>1. ClockTypeOK'
  OBVIOUS
<1>2. ClockCounts'
  OBVIOUS
<1>3. ClockLaid'
  BY DEF ClockLaid, Halves, High, Low
<1>4. Stopped'
  BY DEF Stopped, ClockLaid, Halves
<1>5. ClockWhole'
  BY DEF ClockWhole, ClockLaid, Halves, Stopped, High, Low
<1> QED BY <1>1, <1>2, <1>3, <1>4, <1>5

LEMMA ClockFallInv == ClockInv /\ Fall => ClockInv'
<1> SUFFICES ASSUME ClockInv, Fall PROVE ClockInv'
  OBVIOUS
<1> USE PeriodFacts DEF ClockInv, Fall, Drive, Apply, Stopping, request, ClockTypeOK, ClockCounts
<1>1. ClockTypeOK'
  OBVIOUS
<1>2. ClockCounts'
  OBVIOUS
<1>3. ClockLaid'
  BY DEF ClockLaid, Halves, High, Low
<1>4. Stopped'
  BY DEF Stopped, ClockLaid, Halves
<1>5. ClockWhole'
  BY DEF ClockWhole, ClockLaid, Halves, Stopped, High, Low
<1> QED BY <1>1, <1>2, <1>3, <1>4, <1>5

LEMMA ClockAgainInv == ClockInv /\ Again => ClockInv'
<1> SUFFICES ASSUME ClockInv, Again PROVE ClockInv'
  OBVIOUS
<1> USE PeriodFacts DEF ClockInv, Again, Drive, Apply, Stopping, request, ClockTypeOK, ClockCounts
<1>1. ClockTypeOK'
  OBVIOUS
<1>2. ClockCounts'
  OBVIOUS
<1>3. ClockLaid'
  BY DEF ClockLaid, Halves, High, Low
<1>4. Stopped'
  BY DEF Stopped, ClockLaid, Halves
<1>5. ClockWhole'
  BY DEF ClockWhole, ClockLaid, Halves, Stopped, High, Low
<1> QED BY <1>1, <1>2, <1>3, <1>4, <1>5

LEMMA ClockTickInv == ClockInv /\ Tick => ClockInv'
<1> SUFFICES ASSUME ClockInv, Tick PROVE ClockInv'
  OBVIOUS
<1> USE PeriodFacts DEF ClockInv, Tick, Drive, Apply, Stopping, request, ClockTypeOK, ClockCounts
<1>1. ClockTypeOK'
  OBVIOUS
<1>2. ClockCounts'
  OBVIOUS
<1>3. ClockLaid'
  BY DEF ClockLaid, Halves, High, Low
<1>4. Stopped'
  BY DEF Stopped, ClockLaid, Halves
<1>5. ClockWhole'
  BY DEF ClockWhole, ClockLaid, Halves, Stopped, High, Low
<1> QED BY <1>1, <1>2, <1>3, <1>4, <1>5

-----------------------------------------------------------------------------
LEMMA ClockStepInv == ClockInv /\ [ClockNext]_clock_vars => ClockInv'
<1> SUFFICES ASSUME ClockInv, [ClockNext]_clock_vars PROVE ClockInv'
  OBVIOUS
<1>1. CASE start \/ stop \/ set_period
  BY <1>1, ClockRequestInv
<1>2. CASE clk_run
  BY <1>2, ClockDriveLowInv, ClockApplyTopInv, ClockParkTopInv, ClockRiseInv, ClockApplyMiddleInv,
     ClockParkMiddleInv, ClockFallInv, ClockAgainInv DEF clk_run
<1>3. CASE Tick
  BY <1>3, ClockTickInv
<1>4. CASE UNCHANGED clock_vars
  BY <1>4 DEF clock_vars, ClockInv, ClockTypeOK, ClockCounts, ClockLaid, Halves, High, Low,
     Stopped, ClockWhole
<1> QED BY <1>1, <1>2, <1>3, <1>4 DEF ClockNext

\* Every variable of clk_run keeps its type, and the net is high just where the
\* coroutine is between its rise and its fall (clock.cpp:68-117).
THEOREM ClockTypeCorrect == ClockSpec => []ClockTypeOK
<1>1. ClockInv => ClockTypeOK
  BY DEF ClockInv
<1> QED BY ClockInitInv, ClockStepInv, <1>1, PTL DEF ClockSpec

\* Whatever is requested and when, a high half is half of the period that held at
\* its rise (clock.cpp:86-112), and a cycle in which no stop was asked for takes that
\* period, even if another one is asked for in the middle of it.
THEOREM CyclesAreWhole == ClockSpec => WholeCycles
<1>1. ClockInv /\ [ClockNext]_clock_vars => [net = 1 /\ net' = 0 => held = cycle \div 2]_clock_vars
  <2> SUFFICES ASSUME ClockInv, ClockNext, net = 1, net' = 0 PROVE held = cycle \div 2
    OBVIOUS
  <2>1. pc \in {"high", "park_middle", "fall"}
    BY DEF ClockInv, ClockTypeOK
  <2>2. pc # "high"
    BY DEF ClockNext, start, stop, set_period, clk_run, DriveLow, ApplyTop, ParkTop, Rise,
           ApplyMiddle, ParkMiddle, Fall, Again, Tick
  <2> QED BY <2>1, <2>2 DEF ClockInv, ClockLaid, High
<1>2. ClockInv /\ [ClockNext]_clock_vars
      => [pc = "rise" /\ pc' = "high" /\ cycle # 0 /\ ~asked => held = cycle - cycle \div 2]_clock_vars
  BY DEF ClockInv, ClockWhole, Low
<1>3. ClockInv /\ [ClockNext]_clock_vars
      => [/\ net = 1 /\ net' = 0 => held = cycle \div 2
          /\ pc = "rise" /\ pc' = "high" /\ cycle # 0 /\ ~asked => held = cycle - cycle \div 2]_clock_vars
  BY <1>1, <1>2
<1> QED BY ClockInitInv, ClockStepInv, <1>3, PTL DEF ClockSpec, WholeCycles
==============================================================================
