----------------------------- MODULE NumberSets -----------------------------
(***************************************************************************)
(* The first and the last of a set of numbers, for the proofs that need    *)
(* one to choose, and recursion along the numbers up to one.               *)
(***************************************************************************)
EXTENDS Integers, FiniteSetTheorems, WellFoundedInduction, TLAPS

(* A set of numbers has a first one.                                       *)
LEMMA FirstExists ==
  ASSUME NEW T, T \subseteq Nat, T # {}
  PROVE  \E i \in T : \A j \in T : i <= j
<1> DEFINE Heads == {0..i : i \in T}
<1>1. Heads \subseteq FiniteSubsetsOf(Nat)
  <2> SUFFICES ASSUME NEW i \in T PROVE 0..i \in FiniteSubsetsOf(Nat)
    OBVIOUS
  <2>1. i \in Int
    OBVIOUS
  <2>2. IsFiniteSet(0..i)
    BY <2>1, FS_Interval
  <2> QED
    BY <2>2 DEF FiniteSubsetsOf
<1>2. Heads # {}
  OBVIOUS
<1>3. IsWellFoundedOn(StrictSubsetOrdering(Nat), FiniteSubsetsOf(Nat))
  BY FS_StrictSubsetOrderingWellFounded
<1>4. PICK h \in Heads : \A g \in Heads : <<g, h>> \notin StrictSubsetOrdering(Nat)
  BY <1>1, <1>2, <1>3, WFMin, Zenon
<1>5. PICK i \in T : h = 0..i
  OBVIOUS
<1>6. ASSUME NEW j \in T PROVE i <= j
  <2>1. j \in Nat /\ i \in Nat
    OBVIOUS
  <2>2. <<0..j, 0..i>> \notin StrictSubsetOrdering(Nat)
    BY <1>4, <1>5
  <2>3. 0..j \in SUBSET Nat /\ 0..i \in SUBSET Nat
    BY <2>1
  <2>4. ~(0..j \subseteq 0..i /\ 0..j # 0..i)
    BY <2>2, <2>3 DEF StrictSubsetOrdering
  <2>5. j < i => 0..j \subseteq 0..i
    BY <2>1
  <2>6. j < i => i \in 0..i /\ i \notin 0..j
    BY <2>1
  <2> QED
    BY <2>1, <2>4, <2>5, <2>6
<1> QED
  BY <1>6

(* A non-empty set of positions has a last one.                            *)
LEMMA LastExists ==
  ASSUME NEW n \in Nat, NEW T, T \subseteq 1..n, T # {}
  PROVE  \E i \in T : \A j \in T : j <= i
<1> DEFINE Back == {n - i : i \in T}
<1>1. Back \subseteq Nat /\ Back # {}
  <2>1. ASSUME NEW i \in T PROVE n - i \in Nat
    BY 1..n \subseteq Nat
  <2> QED
    BY <2>1
<1>2. \A j \in T : n - j \in Back
  OBVIOUS
<1>3. \A b \in Back : \E i \in T : b = n - i
  OBVIOUS
<1> HIDE DEF Back
<1>4. PICK b \in Back : \A c \in Back : b <= c
  BY <1>1, FirstExists
<1>5. PICK i \in T : b = n - i
  BY <1>3
<1>6. ASSUME NEW j \in T PROVE j <= i
  <2>1. i \in 1..n /\ j \in 1..n
    OBVIOUS
  <2>2. n - i <= n - j
    BY <1>2, <1>4, <1>5
  <2> QED
    BY <2>1, <2>2
<1> QED
  BY <1>6

(* What is defined at each place by what is at the one before exists.      *)
Recursion(f, n, a, h) == \A i \in 1..n : f[i] = IF i = 1 THEN a ELSE h[i][f[i - 1]]

(* There is such a function, with values of the type of its steps.        *)
LEMMA RecursionExists ==
  ASSUME NEW n \in Nat, NEW V, NEW a \in V, NEW h \in [Nat -> [V -> V]]
  PROVE  \E f \in [1..n -> V] : Recursion(f, n, a, h)
<1> DEFINE Fits(m, f) ==
      /\ f \in [1..m -> V]
      /\ \A i \in 1..m : f[i] = IF i = 1 THEN a ELSE h[i][f[i - 1]]
           Without == {m \in Nat : ~\E f : Fits(m, f)}
<1>1. ASSUME Without # {} PROVE FALSE
  <2>1. PICK m \in Without : \A k \in Without : m <= k
    <3>1. Without \subseteq Nat
      OBVIOUS
    <3> QED
      BY <1>1, <3>1, FirstExists
  <2>2. Fits(0, [i \in 1..0 |-> a])
    OBVIOUS
  <2>3. m # 0 /\ m \in Nat
    BY <2>2
  <2>4. PICK f : Fits(m - 1, f)
    <3> HIDE DEF Fits
    <3>1. m - 1 \in Nat /\ ~(m <= m - 1)
      BY <2>3
    <3>2. m - 1 \notin Without
      BY <2>1, <3>1
    <3> QED
      BY <3>1, <3>2
  <2> DEFINE g == [i \in 1..m |-> IF i < m THEN f[i] ELSE IF m = 1 THEN a ELSE h[m][f[m - 1]]]
  <2>5. m # 1 => f[m - 1] \in V /\ h[m][f[m - 1]] \in V
    BY <2>3, <2>4
  <2>6. g \in [1..m -> V]
    BY <2>3, <2>4, <2>5
  <2>7. ASSUME NEW i \in 1..m PROVE g[i] = IF i = 1 THEN a ELSE h[i][g[i - 1]]
    <3>1. CASE i = m
      BY <2>3, <3>1
    <3>2. CASE i < m
      <4>1. i \in 1..(m - 1)
        BY <2>3, <3>2
      <4>2. i # 1 => g[i - 1] = f[i - 1]
        BY <2>3, <3>2
      <4> QED
        BY <2>4, <3>2, <4>1, <4>2
    <3> QED
      BY <2>3, <3>1, <3>2
  <2>8. Fits(m, g)
    BY <2>6, <2>7
  <2> QED
    BY <2>8
<1>2. \E f : Fits(n, f)
  BY <1>1
<1> QED
  BY <1>2 DEF Recursion
=============================================================================
