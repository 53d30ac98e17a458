---------------------------- MODULE SetInduction ----------------------------
(***************************************************************************)
(* Induction over the naturals, with sets for predicates and functions for *)
(* operators, so that the provers can instantiate it.                      *)
(***************************************************************************)
EXTENDS Integers, WellFoundedInduction, TLAPS

\* A set of naturals has a least element.
LEMMA LeastExists ==
  ASSUME NEW S \in SUBSET Nat, S # {}
  PROVE  \E m \in S : \A n \in S : m <= n
<1> DEFINE R == OpToRel(<, Nat)
<1>1. IsWellFoundedOn(R, Nat)
  BY NatLessThanWellFounded
<1> HIDE DEF R
<1>2. PICK m \in S : \A n \in S : <<n, m>> \notin R
  BY <1>1, WFMin
<1>3. \A n \in S : ~(n < m)
  BY <1>2 DEF R, OpToRel
<1> QED BY <1>3

\* A bounded one has a greatest.
LEMMA GreatestExists ==
  ASSUME NEW S \in SUBSET Nat, S # {}, NEW max \in Nat, \A n \in S : n <= max
  PROVE  \E m \in S : \A n \in S : n <= m
<1> DEFINE R == {d \in Nat : max - d \in S}
<1>1. R \in SUBSET Nat /\ R # {}
  <2>1. PICK n \in S : n \in Nat /\ n <= max
    OBVIOUS
  <2>2. max - n \in Nat /\ max - (max - n) = n
    BY <2>1
  <2>3. max - n \in R
    BY <2>1, <2>2
  <2> QED BY <2>3
<1>2. PICK d \in R : \A e \in R : d <= e
  <2> HIDE DEF R
  <2> QED BY <1>1, LeastExists
<1>3. ASSUME NEW n \in S
      PROVE  n <= max - d
  <2>1. n \in Nat /\ n <= max /\ d \in Nat
    OBVIOUS
  <2>2. max - n \in Nat /\ max - (max - n) = n
    BY <2>1
  <2>3. d <= max - n
    BY <1>2, <2>2
  <2> QED BY <2>1, <2>3
<1> QED BY <1>3

\* A set that holds 0 and the successors of its elements holds every natural.
LEMMA InductionOnSet ==
  ASSUME NEW S, 0 \in S, \A n \in Nat : n \in S => n + 1 \in S
  PROVE  Nat \subseteq S
<1> SUFFICES ASSUME Nat \ S # {} PROVE FALSE
  OBVIOUS
<1>1. PICK m \in Nat \ S : \A n \in Nat \ S : m <= n
  BY LeastExists
<1> QED BY <1>1

\* The function f begins with first; its k-th value is step[k] of the one before.
IsRecursion(f, first, step, n) ==
  f[0] = first /\ \A k \in 1 .. n : f[k] = step[k][f[k - 1]]

\* Such a recursion defines a function, however long it is.
LEMMA RecursionExists ==
  ASSUME NEW S, NEW first \in S, NEW last \in Nat, NEW step \in [1 .. last -> [S -> S]]
  PROVE  \E f \in [0 .. last -> S] : IsRecursion(f, first, step, last)
<1> USE DEF IsRecursion
<1> DEFINE T == {n \in Nat : n <= last =>
                   \E f \in [0 .. n -> S] : IsRecursion(f, first, step, n)}
<1>1. 0 \in T
  <2> DEFINE f == [k \in 0 .. 0 |-> first]
  <2>1. f \in [0 .. 0 -> S] /\ IsRecursion(f, first, step, 0)
    OBVIOUS
  <2> QED BY <2>1
<1>2. ASSUME NEW n \in Nat, n \in T
      PROVE  n + 1 \in T
  <2> SUFFICES ASSUME n + 1 <= last
               PROVE  \E f \in [0 .. n + 1 -> S] : IsRecursion(f, first, step, n + 1)
    OBVIOUS
  <2>1. PICK f \in [0 .. n -> S] : IsRecursion(f, first, step, n)
    BY <1>2
  <2> DEFINE g == [k \in 0 .. n + 1 |-> IF k <= n THEN f[k] ELSE step[n + 1][f[n]]]
  <2>2. f[n] \in S /\ step[n + 1][f[n]] \in S
    <3>1. n + 1 \in 1 .. last
      OBVIOUS
    <3>2. step[n + 1] \in [S -> S]
      BY <3>1
    <3> QED BY <3>2
  <2>3. g \in [0 .. n + 1 -> S]
    BY <2>2
  <2>4. g[0] = first
    BY <2>1
  <2>5. ASSUME NEW k \in 1 .. n + 1
        PROVE  g[k] = step[k][g[k - 1]]
    <3>1. k - 1 \in 0 .. n /\ g[k - 1] = f[k - 1]
      OBVIOUS
    <3>2. CASE k <= n
      BY <2>1, <3>1, <3>2
    <3>3. CASE k = n + 1
      BY <3>1, <3>3
    <3> QED BY <3>2, <3>3
  <2> HIDE DEF g
  <2>6. IsRecursion(g, first, step, n + 1)
    BY <2>4, <2>5
  <2> HIDE DEF IsRecursion
  <2> QED BY <2>3, <2>6
<1>3. Nat \subseteq T
  <2> HIDE DEF T
  <2> QED BY <1>1, <1>2, InductionOnSet
<1> QED BY <1>3

\* The function f iterates next n times.
IsIteration(f, first, next, n) ==
  f[0] = first /\ \A k \in 1 .. n : f[k] = next[f[k - 1]]

\* A function can be iterated any number of times.
LEMMA IterationExists ==
  ASSUME NEW S, NEW first \in S, NEW next \in [S -> S], NEW last \in Nat
  PROVE  \E f \in [0 .. last -> S] : IsIteration(f, first, next, last)
<1> DEFINE step == [k \in 1 .. last |-> next]
<1>1. step \in [1 .. last -> [S -> S]] /\ \A k \in 1 .. last : step[k] = next
  OBVIOUS
<1> HIDE DEF step
<1>2. PICK f \in [0 .. last -> S] : IsRecursion(f, first, step, last)
  BY <1>1, RecursionExists
<1>3. IsIteration(f, first, next, last)
  BY <1>1, <1>2 DEF IsRecursion, IsIteration
<1> QED BY <1>3
=============================================================================
