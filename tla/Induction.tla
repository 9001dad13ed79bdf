------------------------------ MODULE Induction ------------------------------
(***************************************************************************)
(* Induction over the numbers, stated for sets of them, and what follows:  *)
(* that functions defined by recursion along 0..n exist.                   *)
(***************************************************************************)
EXTENDS Integers, WellFoundedInduction, TLAPS

\* A set of numbers that is not empty has a least one.
LEMMA LeastNumber ==
  ASSUME NEW S \in SUBSET Nat, S # {}
  PROVE  \E i \in S : \A j \in S : i <= j
  <1>. DEFINE Before == {ss \in Nat \X Nat : ss[1] < ss[2]}
  <1>1. IsWellFoundedOn(Before, Nat)
    BY NatLessThanWellFounded DEF OpToRel
  <1>. HIDE DEF Before
  <1>2. PICK i \in S : \A j \in S : ~(<<j, i>> \in Before)
    BY <1>1, WFMin
  <1>3. \A j \in S : ~(j < i)
    BY <1>2 DEF Before
  <1>4. \A j \in S : i <= j
    BY <1>3
  <1>. QED
    BY <1>4

\* What holds of 0 and passes from each number to the next holds of all.
LEMMA Inductive ==
  ASSUME NEW S \in SUBSET Nat, 0 \in S, \A n \in S : n + 1 \in S
  PROVE  S = Nat
  <1>. SUFFICES ASSUME Nat \ S # {} PROVE FALSE
    OBVIOUS
  <1>. DEFINE Others == Nat \ S
  <1>1. PICK least \in Others : \A j \in Others : least <= j
    BY LeastNumber
  <1>2. least # 0 /\ least - 1 \in Nat /\ ~(least <= least - 1)
    BY <1>1
  <1>3. least - 1 \in S
    BY <1>1, <1>2
  <1>4. (least - 1) + 1 \in S
    BY <1>3
  <1>. QED
    BY <1>1, <1>4

\* h is the function of 0..n with a first value and each next one from the one before.
Recursion(h, n, V, base, next) ==
    h \in [0..n -> V] /\ h[0] = base /\ \A i \in 1..n : h[i] = next[i][h[i - 1]]

\* There is one for every such value and every such step.
LEMMA Recursive ==
  ASSUME NEW n \in Nat, NEW V, NEW base \in V, NEW next \in [1..n -> [V -> V]]
  PROVE  \E h : Recursion(h, n, V, base, next)
  <1>. DEFINE UpTo(m, h) == Recursion(h, m, V, base, next)
              S == {m \in Nat : m <= n => \E h : UpTo(m, h)}
  <1>1. 0 \in S
    <2>1. UpTo(0, [i \in 0..0 |-> base])
      BY DEF Recursion
    <2>. HIDE DEF UpTo
    <2>. QED
      BY <2>1
  <1>2. ASSUME NEW m \in S
        PROVE  m + 1 \in S
    <2>. HIDE DEF UpTo
    <2>. SUFFICES ASSUME m + 1 <= n PROVE \E h : UpTo(m + 1, h)
      OBVIOUS
    <2>0. m \in Nat /\ m <= n /\ m + 1 \in 1..n
      OBVIOUS
    <2>1. PICK h : UpTo(m, h)
      BY <2>0
    <2>. HIDE DEF S
    <2>. USE DEF UpTo, Recursion
    <2>. DEFINE g == [i \in 0..(m + 1) |-> IF i <= m THEN h[i] ELSE next[m + 1][h[m]]]
    <2>2. m \in Nat /\ m + 1 \in 1..n
      BY <2>0
    <2>3. next[m + 1][h[m]] \in V
      BY <2>1, <2>2
    <2>4. g \in [0..(m + 1) -> V]
      BY <2>1, <2>2, <2>3
    <2>5. g[0] = base
      BY <2>1, <2>2
    <2>6. ASSUME NEW i \in 1..(m + 1) PROVE g[i] = next[i][g[i - 1]]
      <3>1. CASE i <= m
        <4>1. g[i] = h[i] /\ g[i - 1] = h[i - 1] /\ i \in 1..m
          BY <3>1, <2>2
        <4>. QED
          BY <2>1, <4>1
      <3>2. CASE i = m + 1
        <4>1. g[m + 1] = next[m + 1][h[m]] /\ g[m] = h[m] /\ i - 1 = m
          BY <3>2, <2>2
        <4>. QED
          BY <3>2, <4>1
      <3>. QED
        BY <3>1, <3>2, <2>2
    <2>. HIDE DEF g
    <2>7. UpTo(m + 1, g)
      BY <2>4, <2>5, <2>6
    <2>. HIDE DEF UpTo
    <2>. QED
      BY <2>7
  <1>. HIDE DEF UpTo
  <1>3. S = Nat
    <2>1. S \in SUBSET Nat /\ 0 \in S /\ \A m \in S : m + 1 \in S
      BY <1>1, <1>2
    <2>. HIDE DEF S
    <2>. QED
      BY <2>1, Inductive
  <1>4. \E h : UpTo(n, h)
    <2>1. n \in S
      BY <1>3
    <2>. QED
      BY <2>1
  <1>. QED
    BY <1>4 DEF UpTo
==============================================================================
