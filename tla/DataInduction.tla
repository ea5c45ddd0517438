---------------------------- MODULE DataInduction ----------------------------
(***************************************************************************)
(* Induction over the natural numbers, and what is defined by it, for the  *)
(* proofs about the recursive functions of Runner and AwaitValues.  The    *)
(* library states induction for a formula, an operator parameter that the  *)
(* provers cannot instantiate; here a formula is a set of numbers, and the *)
(* step of a recursion a function of functions.                            *)
(***************************************************************************)
EXTENDS Integers, FiniteSetTheorems, TLAPS

\* A set of natural numbers that is not empty has a least element.
LEMMA LeastNumber ==
  ASSUME NEW S \in SUBSET Nat, S # {}
  PROVE  \E n \in S : \A m \in S : n <= m
<1> DEFINE R == OpToRel(<, Nat)
<1>1. IsWellFoundedOn(R, Nat)
  BY NatLessThanWellFounded
<1>2. \A x, y \in Nat : << x, y >> \in R <=> x < y
  BY DEF OpToRel
<1> HIDE DEF R
<1>3. \E x \in S : \A y \in S : ~ (<< y, x >> \in R)
  BY <1>1, WFMin
<1>4. PICK x \in S : \A y \in S : ~ (<< y, x >> \in R)
  BY <1>3
<1>5. \A y \in S : y \in Nat /\ x \in Nat /\ ~(y < x)
  BY <1>2, <1>4
<1> QED BY <1>4, <1>5

\* Induction.
LEMMA SetInduction ==
  ASSUME NEW S, 0 \in S, \A n \in Nat : n \in S => n + 1 \in S
  PROVE  Nat \subseteq S
<1>1. SUFFICES ASSUME Nat \ S # {} PROVE FALSE
  OBVIOUS
<1>2. PICK n \in Nat \ S : \A m \in Nat \ S : n <= m
  BY <1>1, LeastNumber
<1>3. n - 1 \in Nat /\ n = (n - 1) + 1
  BY <1>2
<1> QED BY <1>2, <1>3

\* f begins with a, and G gives each value up to the n-th from the one before.
Iterates(f, a, G, n) == f[0] = a /\ \A k \in 1 .. n : f[k] = G[k][f[k - 1]]

LEMMA IterationUpTo ==
  ASSUME NEW A, NEW a \in A, NEW G \in [Nat -> [A -> A]]
  PROVE  \A n \in Nat : \E f : f \in [0 .. n -> A] /\ Iterates(f, a, G, n)
<1> DEFINE S == {n \in Nat : \E f : f \in [0 .. n -> A] /\ Iterates(f, a, G, n)}
<1>1. 0 \in S
  <2> DEFINE f == [k \in 0 .. 0 |-> a]
  <2>1. f \in [0 .. 0 -> A] /\ Iterates(f, a, G, 0)
    BY DEF Iterates
  <2> HIDE DEF f
  <2> QED BY <2>1
<1>2. ASSUME NEW m \in Nat, m \in S PROVE m + 1 \in S
  <2>1. PICK f : f \in [0 .. m -> A] /\ Iterates(f, a, G, m)
    BY <1>2
  <2> DEFINE g == [k \in 0 .. m + 1 |-> IF k = m + 1 THEN G[m + 1][f[m]] ELSE f[k]]
  <2>2. f[m] \in A /\ G[m + 1][f[m]] \in A
    BY <2>1
  <2>3. g \in [0 .. m + 1 -> A] /\ Iterates(g, a, G, m + 1)
    BY <2>1, <2>2 DEF Iterates
  <2> HIDE DEF g
  <2> QED BY <2>3
<1> HIDE DEF S
<1>3. Nat \subseteq S
  BY <1>1, <1>2, SetInduction
<1> QED BY <1>3 DEF S

LEMMA IterationUnique ==
  ASSUME NEW a, NEW G, NEW m \in Nat, NEW n \in Nat, m <= n, NEW f, NEW g,
         Iterates(f, a, G, m), Iterates(g, a, G, n)
  PROVE  \A k \in 0 .. m : f[k] = g[k]
<1> DEFINE S == {k \in Nat : k <= m => f[k] = g[k]}
<1>1. 0 \in S
  BY DEF Iterates
<1>2. ASSUME NEW k \in Nat, k \in S PROVE k + 1 \in S
  <2>1. CASE k + 1 <= m
    <3>1. k + 1 \in 1 .. m /\ k + 1 \in 1 .. n /\ (k + 1) - 1 = k /\ f[k] = g[k]
      BY <1>2, <2>1
    <3>2. f[k + 1] = G[k + 1][f[k]] /\ g[k + 1] = G[k + 1][g[k]]
      BY <3>1 DEF Iterates
    <3> QED BY <3>1, <3>2
  <2> QED BY <2>1
<1> HIDE DEF S
<1>3. Nat \subseteq S
  BY <1>1, <1>2, SetInduction
<1> QED BY <1>3 DEF S


\* f begins with a in A, and G gives every value from the one before.
Computes(f, A, a, G) == f \in [Nat -> A] /\ f[0] = a /\ \A k \in Nat : f[k + 1] = G[k + 1][f[k]]

\* What is computed step by step exists.
LEMMA Iteration ==
  ASSUME NEW A, NEW a \in A, NEW G \in [Nat -> [A -> A]]
  PROVE  \E f : Computes(f, A, a, G)
<1> DEFINE h(n) == CHOOSE f : f \in [0 .. n -> A] /\ Iterates(f, a, G, n)
           g == [n \in Nat |-> h(n)[n]]
<1>1. \A n \in Nat : h(n) \in [0 .. n -> A] /\ Iterates(h(n), a, G, n)
  <2>1. \A n \in Nat : \E f : f \in [0 .. n -> A] /\ Iterates(f, a, G, n)
    BY IterationUpTo
  <2> QED BY <2>1, Zenon
<1> HIDE DEF h
<1>2. \A n \in Nat : h(n + 1)[n] = h(n)[n]
  <2> SUFFICES ASSUME NEW n \in Nat PROVE h(n + 1)[n] = h(n)[n]
    OBVIOUS
  <2>1. n + 1 \in Nat /\ Iterates(h(n), a, G, n) /\ Iterates(h(n + 1), a, G, n + 1)
        /\ n <= n + 1 /\ n \in 0 .. n
    BY <1>1
  <2>2. \A k \in 0 .. n : h(n)[k] = h(n + 1)[k]
    BY <2>1, IterationUnique
  <2> QED BY <2>1, <2>2
<1>3. g \in [Nat -> A] /\ g[0] = a
  BY <1>1 DEF Iterates
<1>4. ASSUME NEW k \in Nat PROVE g[k + 1] = G[k + 1][g[k]]
  <2>1. k + 1 \in Nat /\ k + 1 \in 1 .. k + 1 /\ (k + 1) - 1 = k
    OBVIOUS
  <2>2. h(k + 1)[k + 1] = G[k + 1][h(k + 1)[k]]
    BY <1>1, <2>1 DEF Iterates
  <2> QED BY <1>2, <2>1, <2>2
<1> HIDE DEF g
<1> QED BY <1>3, <1>4 DEF Computes
==============================================================================
