--------------------------- MODULE InductionLemmas ---------------------------
(***************************************************************************)
(* Induction over the naturals for a set instead of a predicate, and the   *)
(* recursion that folds of SequencesExt are defined by: what the proofs    *)
(* about loops of the code rest on.                                        *)
(***************************************************************************)
EXTENDS Integers, Sequences, SequencesExt, FiniteSetTheorems,
        WellFoundedInduction, TLAPS

(* Every nonempty set of naturals has a least element: among the intervals *)
(* below its elements one is minimal for strict inclusion.                 *)
LEMMA LeastNatural ==
    ASSUME NEW S \in SUBSET Nat, S # {}
    PROVE  \E m \in S : \A k \in S : m <= k
<1> DEFINE R == StrictSubsetOrdering(Nat)
           D == FiniteSubsetsOf(Nat)
           below(n) == 0..n-1
           T == {below(n) : n \in S}
<1>1. IsWellFoundedOn(R, D)
  BY FS_StrictSubsetOrderingWellFounded
<1>2. \A n \in Nat : below(n) \in D
  BY FS_Interval DEF FiniteSubsetsOf
<1>3. T \subseteq D /\ T # {}
  BY <1>2
<1>4. \E x \in T : \A y \in T : ~(<<y, x>> \in R)
  <2> HIDE DEF R, D, T
  <2> QED
    BY <1>1, <1>3, WFMin
<1>5. PICK m \in S : \A k \in S : ~(<<below(k), below(m)>> \in R)
  BY <1>4
<1> SUFFICES ASSUME NEW k \in S, k < m PROVE FALSE
  BY <1>5
<1>6. below(k) \subseteq below(m) /\ k \in below(m) /\ k \notin below(k)
      /\ below(k) \in SUBSET Nat /\ below(m) \in SUBSET Nat
  OBVIOUS
<1>7. <<below(k), below(m)>> \in R
  <2> HIDE DEF below
  <2> QED
    BY <1>6 DEF StrictSubsetOrdering
<1> QED
  BY <1>5, <1>7

LEMMA SetInduction ==
    ASSUME NEW P, 0 \in P, \A n \in Nat : n \in P => n + 1 \in P
    PROVE  \A n \in Nat : n \in P
<1> SUFFICES ASSUME Nat \ P # {} PROVE FALSE
  OBVIOUS
<1>1. PICK m \in Nat \ P : \A k \in Nat \ P : m <= k
  BY LeastNatural
<1>2. m # 0 /\ m - 1 \in Nat /\ m - 1 \in P
  BY <1>1
<1> QED
  BY <1>1, <1>2

(* The greatest element of a nonempty set of numbers up to n. *)
LEMMA MaxOfFinite ==
    ASSUME NEW n \in Nat, NEW t \in SUBSET (1..n), t # {}
    PROVE  Max(t) \in t /\ \A y \in t : Max(t) >= y
<1> DEFINE D == {n - x : x \in t}
<1>1. PICK m \in D : \A k \in D : m <= k
  <2>1. D \in SUBSET Nat
    <3>1. \A x \in t : n - x \in Nat
      OBVIOUS
    <3> QED
      BY <3>1
  <2>2. D # {}
    <3>1. PICK x \in t : TRUE
      OBVIOUS
    <3> QED
      BY <3>1
  <2> HIDE DEF D
  <2> QED
    BY <2>1, <2>2, LeastNatural
<1>2. \E x \in t : \A y \in t : x >= y
  <2>1. PICK x \in t : m = n - x
    BY <1>1
  <2>2. \A y \in t : n - y \in D
    OBVIOUS
  <2>3. \A y \in t : n - x <= n - y
    BY <1>1, <2>1, <2>2
  <2> QED
    BY <2>3
<1> QED
  BY <1>2, Zenon DEF Max

(***************************************************************************)
(* The function behind a left fold exists: over the sets of numbers up to  *)
(* n, peeling off the greatest number first.                               *)
(***************************************************************************)
Peels(it, n, c, step) ==
    \A t \in SUBSET (1..n) :
        it[t] = IF t = {} THEN c ELSE step[Max(t)][it[t \ {Max(t)}]]

LEMMA FoldExists ==
    ASSUME NEW V, NEW c \in V, NEW step \in [Nat -> [V -> V]]
    PROVE  \A n \in Nat : \E it \in [SUBSET (1..n) -> V] : Peels(it, n, c, step)
<1> DEFINE P == {n \in Nat : \E it \in [SUBSET (1..n) -> V] : Peels(it, n, c, step)}
<1>1. 0 \in P
  <2> DEFINE it == [t \in SUBSET (1..0) |-> c]
  <2>1. it \in [SUBSET (1..0) -> V] /\ Peels(it, 0, c, step)
    <3>1. 1..0 = {}
      OBVIOUS
    <3> QED
      BY <3>1 DEF Peels
  <2> QED
    BY <2>1
<1>2. ASSUME NEW n \in Nat, n \in P PROVE n + 1 \in P
  <2>1. PICK it \in [SUBSET (1..n) -> V] : Peels(it, n, c, step)
    BY <1>2
  <2> DEFINE next == [t \in SUBSET (1..n+1) |->
                         IF n + 1 \in t THEN step[n + 1][it[t \ {n + 1}]] ELSE it[t]]
  <2>2. \A t \in SUBSET (1..n+1) :
            /\ t \ {n + 1} \in SUBSET (1..n)
            /\ n + 1 \notin t => t \in SUBSET (1..n)
    OBVIOUS
  <2>3. next \in [SUBSET (1..n+1) -> V]
    <3>1. \A t \in SUBSET (1..n+1) : it[t \ {n + 1}] \in V
      BY <2>2
    <3> QED
      BY <2>2, <3>1
  <2>4. ASSUME NEW t \in SUBSET (1..n+1)
        PROVE  next[t] = IF t = {} THEN c ELSE step[Max(t)][next[t \ {Max(t)}]]
    <3>1. CASE n + 1 \in t
      <4>1. Max(t) = n + 1
        <5>1. Max(t) \in t /\ \A y \in t : Max(t) >= y
          <6>1. n + 1 \in Nat /\ t # {}
            BY <3>1
          <6> QED
            BY <6>1, MaxOfFinite
        <5>2. Max(t) \in 1..n+1 /\ Max(t) >= n + 1
          BY <3>1, <5>1
        <5> QED
          BY <5>2
      <4>2. next[t \ {n + 1}] = it[t \ {n + 1}]
        BY <2>2
      <4> QED
        BY <3>1, <4>1, <4>2
    <3>2. CASE n + 1 \notin t
      <4>1. t \in SUBSET (1..n)
        BY <2>2, <3>2
      <4>2. next[t] = it[t] /\ next[t \ {Max(t)}] = it[t \ {Max(t)}]
        BY <3>2, <4>1
      <4> QED
        BY <2>1, <4>1, <4>2 DEF Peels
    <3> QED
      BY <3>1, <3>2
  <2>5. Peels(next, n + 1, c, step)
    <3> HIDE DEF next
    <3> QED
      BY <2>4 DEF Peels
  <2> QED
    <3> HIDE DEF next
    <3> QED
      BY <2>3, <2>5
<1> QED
  <2> HIDE DEF P
  <2>1. \A n \in Nat : n \in P
    BY <1>1, <1>2, SetInduction
  <2> QED
    BY <2>1 DEF P
=============================================================================
