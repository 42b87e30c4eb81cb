--------------------------- MODULE DataInduction ---------------------------
(***************************************************************************)
(* Induction over the natural numbers for a set instead of a predicate, and*)
(* what it gives for functions defined by recursion: a set is a parameter  *)
(* that the provers can instantiate.                                       *)
(***************************************************************************)
EXTENDS Integers, Sequences, FiniteSetTheorems, WellFoundedInduction, TLAPS

LEMMA SetInduction ==
  ASSUME NEW S, 0 \in S, \A n \in Nat : n \in S => n + 1 \in S
  PROVE  \A n \in Nat : n \in S
<1> DEFINE T == {n \in Nat : n \notin S}
<1>1. SUFFICES ASSUME T # {} PROVE FALSE
  OBVIOUS
<1>2. PICK m \in T : \A n \in T : ~(<<n, m>> \in OpToRel(<, Nat))
  BY <1>1, WFMin, NatLessThanWellFounded
<1>3. m \in Nat /\ m # 0
  OBVIOUS
<1>4. m - 1 \in Nat /\ m - 1 \in S
  <2>1. m - 1 \in Nat /\ <<m - 1, m>> \in OpToRel(<, Nat)
    BY <1>3 DEF OpToRel
  <2> QED BY <1>2, <2>1
<1> QED BY <1>3, <1>4

(* A set of naturals that is not empty has a least member, one that is     *)
(* bounded has a greatest.                                                 *)
LEMMA LeastNatural ==
  ASSUME NEW T \in SUBSET Nat, T # {}
  PROVE  \E m \in T : \A n \in T : m <= n
<1> DEFINE S == {n \in Nat : \A k \in T : k > n}
<1> SUFFICES ASSUME \A m \in T : \E n \in T : ~(m <= n) PROVE FALSE
  OBVIOUS
<1>1. 0 \in S
  OBVIOUS
<1>2. \A n \in Nat : n \in S => n + 1 \in S
  OBVIOUS
<1>3. \A n \in Nat : n \in S
  <2> HIDE DEF S
  <2> QED BY <1>1, <1>2, SetInduction
<1>4. PICK t \in T : TRUE
  OBVIOUS
<1>5. t \in S
  BY <1>3
<1> QED BY <1>5

LEMMA GreatestNatural ==
  ASSUME NEW T \in SUBSET Nat, T # {}, NEW b \in Nat, \A n \in T : n <= b
  PROVE  \E m \in T : \A n \in T : n <= m
<1> DEFINE U == {d \in Nat : b - d \in T}
<1>1. U \in SUBSET Nat /\ U # {}
  <2>1. PICK t \in T : TRUE
    OBVIOUS
  <2>2. b - t \in Nat /\ b - (b - t) = t
    BY <2>1
  <2> QED BY <2>1, <2>2
<1>2. PICK d \in U : \A e \in U : d <= e
  <2> HIDE DEF U
  <2> QED BY <1>1, LeastNatural
<1>3. b - d \in T
  OBVIOUS
<1>4. ASSUME NEW n \in T PROVE n <= b - d
  <2>1. b - n \in Nat /\ b - (b - n) = n
    OBVIOUS
  <2>2. d <= b - n
    BY <1>2, <2>1
  <2> QED BY <2>2
<1> QED BY <1>3, <1>4

(* A function given by a start and a step exists on every interval.        *)
Steps(X, start, step, n) == start \in X /\ step \in [Nat -> [X -> X]] /\ n \in Nat

Takes(g, X, start, step, n) ==
  /\ g \in [0..n -> X]
  /\ g[0] = start
  /\ \A i \in 1..n : g[i] = step[i][g[i - 1]]

LEMMA StepFunction ==
  ASSUME NEW X, NEW start, NEW step, NEW n, Steps(X, start, step, n)
  PROVE  \E g : Takes(g, X, start, step, n)
<1> DEFINE Good(g, k) == /\ g[0] = start
                         /\ \A i \in 1..k : g[i] = step[i][g[i - 1]]
           S == {k \in Nat : \E g \in [0..k -> X] : Good(g, k)}
<1> USE DEF Steps
<1>1. 0 \in S
  <2>1. [i \in 0..0 |-> start] \in [0..0 -> X] /\ Good([i \in 0..0 |-> start], 0)
    OBVIOUS
  <2> QED BY <2>1
<1>2. ASSUME NEW k \in Nat, k \in S PROVE k + 1 \in S
  <2>1. PICK g \in [0..k -> X] : Good(g, k)
    BY <1>2
  <2> DEFINE h == [i \in 0..k + 1 |-> IF i <= k THEN g[i] ELSE step[i][g[k]]]
  <2>2. h \in [0..k + 1 -> X]
    BY <2>1
  <2>3. h[0] = start
    BY <2>1
  <2>4. ASSUME NEW i \in 1..k + 1 PROVE h[i] = step[i][h[i - 1]]
    <3>1. CASE i <= k
      <4>1. i \in 1..k /\ i - 1 \in 0..k + 1 /\ i - 1 <= k /\ i \in 0..k + 1
        BY <3>1
      <4> QED BY <2>1, <3>1, <4>1
    <3>2. CASE i = k + 1
      <4>1. i - 1 = k /\ k \in 0..k + 1 /\ k <= k /\ ~(i <= k) /\ i \in 0..k + 1
        BY <3>2
      <4> QED BY <4>1
    <3> QED BY <3>1, <3>2
  <2>5. Good(h, k + 1)
    BY <2>3, <2>4
  <2> HIDE DEF h
  <2> QED BY <2>2, <2>5
<1>3. n \in S
  <2> HIDE DEF S
  <2> QED BY <1>1, <1>2, SetInduction
<1> QED BY <1>3 DEF Takes

(* Two functions that start alike and take the same steps are the same on  *)
(* an interval.                                                            *)
LEMMA SameSteps ==
  ASSUME NEW f, NEW g, NEW lo \in Int, NEW hi \in Int, f[lo] = g[lo],
         \A i \in lo + 1..hi : f[i - 1] = g[i - 1] => f[i] = g[i]
  PROVE  \A i \in lo..hi : f[i] = g[i]
<1> DEFINE S == {n \in Nat : lo + n <= hi => f[lo + n] = g[lo + n]}
<1>1. 0 \in S
  <2>1. lo + 0 = lo
    OBVIOUS
  <2> QED BY <2>1
<1>2. ASSUME NEW n \in Nat, n \in S PROVE n + 1 \in S
  <2>1. CASE lo + (n + 1) <= hi
    <3>1. lo + n <= hi /\ lo + (n + 1) \in lo + 1..hi /\ (lo + (n + 1)) - 1 = lo + n
      BY <2>1
    <3>2. f[lo + n] = g[lo + n]
      BY <1>2, <3>1
    <3>3. f[lo + (n + 1)] = g[lo + (n + 1)]
      BY <3>1, <3>2
    <3> QED BY <3>3
  <2>2. CASE ~(lo + (n + 1) <= hi)
    BY <2>2
  <2> QED BY <2>1, <2>2
<1>3. \A n \in Nat : n \in S
  <2> HIDE DEF S
  <2> QED BY <1>1, <1>2, SetInduction
<1>4. ASSUME NEW i \in lo..hi PROVE f[i] = g[i]
  <2>1. i - lo \in Nat /\ lo + (i - lo) = i /\ lo + (i - lo) <= hi
    OBVIOUS
  <2>2. i - lo \in S
    BY <1>3, <2>1
  <2> QED BY <2>1, <2>2
<1> QED BY <1>4
=============================================================================
