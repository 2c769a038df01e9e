------------------------------ MODULE Recursions ------------------------------
(***************************************************************************)
(* What proofs about loops rest on. A loop over a table or a string is a   *)
(* function defined by recursion on an interval; such a definition names   *)
(* some function that satisfies its equation, if there is one. Here is     *)
(* that there is, and the induction by which something holds all along it. *)
(* Predicates are given as the sets of numbers that satisfy them.          *)
(***************************************************************************)
EXTENDS Integers, WellFoundedInduction, TLAPS

\* Every set of naturals that is not empty has a least one.
LEMMA LeastElement ==
    ASSUME NEW S \in SUBSET Nat, S # {}
    PROVE  \E m \in S : \A k \in S : m <= k
<1> DEFINE R == OpToRel(<, Nat)
<1>1. IsWellFoundedOn(R, Nat)
  BY NatLessThanWellFounded, Zenon
<1>2. \A x, y \in Nat : x < y => <<x, y>> \in R
  BY DEF OpToRel
<1> HIDE DEF R
<1>3. PICK m \in S : \A y \in S : ~ <<y, m>> \in R
  BY <1>1, WFMin, Zenon
<1>4. \A y \in S : ~ y < m
  BY <1>2, <1>3
<1> QED
  BY <1>4

\* A set of naturals with 0 and all successors is all of them.
LEMMA Induction ==
    ASSUME NEW S \in SUBSET Nat, 0 \in S, \A n \in S : n + 1 \in S
    PROVE  S = Nat
<1> SUFFICES ASSUME Nat \ S # {} PROVE FALSE
  OBVIOUS
<1>1. PICK m \in Nat \ S : \A k \in Nat \ S : m <= k
  BY LeastElement
<1>2. m - 1 \in Nat /\ ~ m <= m - 1
  BY <1>1
<1>3. m - 1 \in S
  BY <1>1, <1>2
<1>4. m - 1 + 1 = m
  BY <1>1
<1> QED
  BY <1>1, <1>3, <1>4

\* The same from any number up to another.
LEMMA AllAlong ==
    ASSUME NEW m \in Int, NEW n \in Int, NEW S, m \in S,
           \A i \in m..(n - 1) : i \in S => i + 1 \in S
    PROVE  m..n \subseteq S
<1> DEFINE T == {k \in Nat : m + k <= n => m + k \in S}
<1>1. 0 \in T
  OBVIOUS
<1>2. ASSUME NEW k \in T PROVE k + 1 \in T
  <2> SUFFICES ASSUME m + (k + 1) <= n PROVE m + (k + 1) \in S
    OBVIOUS
  <2>1. m + k \in m..(n - 1) /\ m + k \in S
    OBVIOUS
  <2>2. (m + k) + 1 \in S
    BY <2>1
  <2>3. (m + k) + 1 = m + (k + 1)
    OBVIOUS
  <2> QED
    BY <2>2, <2>3
<1>3. T = Nat
  <2>1. T \in SUBSET Nat
    OBVIOUS
  <2> HIDE DEF T
  <2> QED
    BY <1>1, <1>2, <2>1, Induction
<1> SUFFICES ASSUME NEW i \in m..n PROVE i \in S
  OBVIOUS
<1>4. i - m \in T /\ m + (i - m) = i
  <2> HIDE DEF T
  <2> QED
    BY <1>3
<1> QED
  BY <1>4

\* A definition by recursion on an interval: its first value, and how each one
\* follows from the one before, are in a set of values.
Recursive(m, n, V, a, F) ==
    /\ m \in Int /\ n \in Int /\ m <= n
    /\ a \in V
    /\ \A i \in (m + 1)..n : \A v \in V : F[i][v] \in V

\* A function defined that way exists.
LEMMA Recursion ==
    ASSUME NEW m, NEW n, NEW V, NEW a, NEW F, Recursive(m, n, V, a, F)
    PROVE  \E f \in [m..n -> V] :
              f[m] = a /\ \A i \in (m + 1)..n : f[i] = F[i][f[i - 1]]
<1> DEFINE Step(f, i) == IF i = m THEN a ELSE F[i][f[i - 1]]
           Good(f, k) == f \in [m..k -> V] /\ f = [i \in m..k |-> Step(f, i)]
           S == {k \in Int : \E f : Good(f, k)}
<1> USE DEF Recursive
<1>1. m \in S
  <2> DEFINE f == [i \in m..m |-> a]
  <2>1. Good(f, m)
    OBVIOUS
  <2> HIDE DEF Good, f
  <2> QED
    BY <2>1
<1>2. ASSUME NEW k \in m..(n - 1), k \in S PROVE k + 1 \in S
  <2>1. PICK f : Good(f, k)
    BY <1>2
  <2> DEFINE g == [i \in m..(k + 1) |-> Step(f, i)]
  <2>2. \A i \in m..k : g[i] = f[i]
    <3> HIDE DEF Step
    <3> QED
      BY <2>1
  <2>3. \A i \in m..(k + 1) : Step(f, i) = Step(g, i) /\ Step(f, i) \in V
    <3> SUFFICES ASSUME NEW i \in m..(k + 1), i # m
                 PROVE  f[i - 1] = g[i - 1] /\ F[i][f[i - 1]] \in V
      BY Zenon
    <3>1. i - 1 \in m..k /\ i \in (m + 1)..n
      OBVIOUS
    <3>2. f[i - 1] \in V
      BY <2>1, <3>1
    <3>3. F[i][f[i - 1]] \in V
      BY <3>1, <3>2
    <3> HIDE DEF g
    <3> QED
      BY <2>2, <3>1, <3>3
  <2>4. Good(g, k + 1)
    <3> HIDE DEF Step
    <3> QED
      BY <2>3
  <2> HIDE DEF Good, g
  <2> QED
    BY <2>4
<1>3. n \in S
  <2>1. n \in m..n
    OBVIOUS
  <2> HIDE DEF S
  <2> QED
    BY <1>1, <1>2, <2>1, AllAlong
<1>4. PICK f : Good(f, n)
  BY <1>3
<1>5. f[m] = a /\ \A i \in (m + 1)..n : f[i] = F[i][f[i - 1]]
  BY <1>4
<1> QED
  BY <1>4, <1>5
===============================================================================
