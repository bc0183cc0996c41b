------------------------------- MODULE Stepwise -------------------------------
(***************************************************************************)
(* What the proofs of several components need about numbers: least         *)
(* members, induction over sets, division, and the steps of a loop.  A     *)
(* function that is defined by recursion over 0 .. n has the values that   *)
(* its definition says if some function has them: that one is a trace.     *)
(***************************************************************************)
EXTENDS Integers, WellFoundedInduction, TLAPS

Least(S) == CHOOSE i \in S : \A j \in S : i <= j

\* A set of numbers with a member has a least one.
LEMMA LeastMember ==
  ASSUME NEW S, S \subseteq Nat, S # {}
  PROVE  Least(S) \in S /\ \A j \in S : Least(S) <= j
<1> DEFINE R == OpToRel(<, Nat)
<1>1. IsWellFoundedOn(R, Nat)
  BY NatLessThanWellFounded
<1>2. R = {p \in Nat \X Nat : p[1] < p[2]}
  BY DEF OpToRel
<1> HIDE DEF R
<1>3. PICK i \in S : \A j \in S : ~ (<<j, i>> \in R)
  BY <1>1, WFMin
<1>4. ASSUME NEW j \in S
      PROVE  i <= j
  <2>1. i \in Nat /\ j \in Nat
    OBVIOUS
  <2>2. j < i => <<j, i>> \in R
    BY <1>2, <2>1
  <2> QED BY <1>3, <2>1, <2>2
<1> QED BY <1>4 DEF Least

\* Induction over the numbers, for the predicate "is in S".
LEMMA Induction ==
  ASSUME NEW S, 0 \in S, \A n \in Nat : n \in S => n + 1 \in S
  PROVE  Nat \subseteq S
<1> SUFFICES ASSUME Nat \ S # {}
             PROVE  FALSE
  OBVIOUS
<1> DEFINE n == Least(Nat \ S)
<1>1. n \in Nat \ S /\ \A j \in Nat \ S : n <= j
  BY LeastMember
<1> HIDE DEF n
<1>2. n # 0 /\ n - 1 \in Nat
  BY <1>1
<1>3. n - 1 \in S
  BY <1>1, <1>2
<1> QED BY <1>1, <1>2, <1>3

\* n steps from c, the one before the k-th in R[k - 1], the one after it in R[k].
IsTrace(w, R, c, n, G) ==
  /\ w = [k \in 0 .. n |-> w[k]] /\ w[0] = c
  /\ \A k \in 0 .. n : w[k] \in R[k]
  /\ \A k \in 1 .. n : w[k] = G[<<w[k - 1], k>>]

LEMMA Trace ==
  ASSUME NEW R, NEW c, c \in R[0], NEW n \in Nat, NEW G,
         \A k \in 1 .. n : \A a \in R[k - 1] : G[<<a, k>>] \in R[k]
  PROVE  \E w : IsTrace(w, R, c, n, G)
<1> DEFINE S == {m \in Nat : m <= n => \E w : IsTrace(w, R, c, m, G)}
<1>1. 0 \in S
  <2> DEFINE w == [k \in 0 .. 0 |-> c]
  <2>1. w = [k \in 0 .. 0 |-> w[k]] /\ w[0] = c
    OBVIOUS
  <2> HIDE DEF w
  <2>2. IsTrace(w, R, c, 0, G)
    BY <2>1 DEF IsTrace
  <2> QED BY <2>2
<1>2. ASSUME NEW m \in Nat, m \in S
      PROVE  m + 1 \in S
  <2> SUFFICES ASSUME m + 1 <= n
               PROVE  \E w : IsTrace(w, R, c, m + 1, G)
    OBVIOUS
  <2>1. PICK w : IsTrace(w, R, c, m, G)
    BY <1>2
  <2> DEFINE v == [k \in 0 .. m + 1 |-> IF k <= m THEN w[k] ELSE G[<<w[m], m + 1>>]]
  <2>2. /\ v = [k \in 0 .. m + 1 |-> v[k]]
        /\ \A k \in 0 .. m : v[k] = w[k]
        /\ v[m + 1] = G[<<w[m], m + 1>>]
    OBVIOUS
  <2> HIDE DEF v
  <2>8. /\ w[0] = c /\ \A k \in 0 .. m : w[k] \in R[k]
        /\ \A k \in 1 .. m : w[k] = G[<<w[k - 1], k>>]
    BY <2>1, Zenon DEF IsTrace
  <2>3. v[0] = c
    <3>1. 0 \in 0 .. m
      OBVIOUS
    <3> QED BY <2>2, <2>8, <3>1
  <2>4. v[m + 1] \in R[m + 1]
    <3>1. m + 1 \in 1 .. n /\ (m + 1) - 1 = m
      OBVIOUS
    <3>2. w[m] \in R[m]
      BY <2>8
    <3> QED BY <2>2, <3>1, <3>2
  <2>5. \A k \in 0 .. m + 1 : v[k] \in R[k]
    <3> SUFFICES ASSUME NEW k \in 0 .. m + 1, k # m + 1
                 PROVE  v[k] \in R[k]
      BY <2>4
    <3>1. k \in 0 .. m
      OBVIOUS
    <3> QED BY <2>2, <2>8, <3>1
  <2>6. ASSUME NEW k \in 1 .. m + 1
        PROVE  v[k] = G[<<v[k - 1], k>>]
    <3>1. CASE k # m + 1
      <4>1. k \in 1 .. m /\ k - 1 \in 0 .. m
        BY <3>1
      <4>2. k \in 0 .. m
        BY <4>1
      <4> QED BY <2>2, <2>8, <4>1, <4>2
    <3>2. CASE k = m + 1
      <4>1. k - 1 = m /\ m \in 0 .. m
        BY <3>2
      <4> QED BY <2>2, <3>2, <4>1
    <3> QED BY <3>1, <3>2
  <2>7. IsTrace(v, R, c, m + 1, G)
    BY <2>2, <2>3, <2>5, <2>6 DEF IsTrace
  <2> QED BY <2>7
<1> HIDE DEF S
<1>3. n \in S
  BY <1>1, <1>2, Induction
<1> QED BY <1>3 DEF S

\* The same where every step stays within A.
IsOrbit(w, A, c, n, G) ==
  /\ w \in [0 .. n -> A] /\ w[0] = c
  /\ \A k \in 1 .. n : w[k] = G[<<w[k - 1], k>>]

LEMMA Orbit ==
  ASSUME NEW A, NEW c \in A, NEW n \in Nat, NEW G \in [A \X (1 .. n) -> A]
  PROVE  \E w : IsOrbit(w, A, c, n, G)
<1> DEFINE R == [k \in 0 .. n |-> A]
<1>1. c \in R[0] /\ \A k \in 0 .. n : R[k] = A
  OBVIOUS
<1>2. ASSUME NEW k \in 1 .. n, NEW a \in R[k - 1]
      PROVE  G[<<a, k>>] \in R[k]
  OBVIOUS
<1> HIDE DEF R
<1>3. PICK w : IsTrace(w, R, c, n, G)
  BY <1>1, <1>2, Trace
<1>4. w \in [0 .. n -> A]
  BY <1>1, <1>3 DEF IsTrace
<1> QED BY <1>3, <1>4 DEF IsTrace, IsOrbit

\* A function that follows the steps of a loop stays where they stay.
LEMMA LoopIsOrbit ==
  ASSUME NEW A, NEW c \in A, NEW n \in Nat, NEW G \in [A \X (1 .. n) -> A], NEW f,
         f = [k \in 0 .. n |-> f[k]], f[0] = c,
         \A k \in 1 .. n : f[k - 1] \in A => f[k] = G[<<f[k - 1], k>>]
  PROVE  IsOrbit(f, A, c, n, G)
<1> DEFINE S == {k \in Nat : k <= n => f[k] \in A}
<1>1. 0 \in S
  OBVIOUS
<1>2. ASSUME NEW k \in Nat, k \in S
      PROVE  k + 1 \in S
  <2> SUFFICES ASSUME k + 1 <= n
               PROVE  f[k + 1] \in A
    OBVIOUS
  <2>1. k + 1 \in 1 .. n /\ (k + 1) - 1 = k /\ f[k] \in A
    BY <1>2
  <2>2. f[k + 1] = G[<<f[k], k + 1>>]
    BY <2>1
  <2>3. <<f[k], k + 1>> \in A \X (1 .. n)
    BY <2>1
  <2> QED BY <2>2, <2>3
<1> HIDE DEF S
<1>3. Nat \subseteq S
  BY <1>1, <1>2, Induction
<1>4. \A k \in 0 .. n : f[k] \in A
  BY <1>3 DEF S
<1>5. f \in [0 .. n -> A]
  BY <1>4
<1>6. \A k \in 1 .. n : k - 1 \in 0 .. n
  OBVIOUS
<1> QED BY <1>4, <1>5, <1>6 DEF IsOrbit

\* Division with remainder.
LEMMA DivMod ==
  ASSUME NEW a \in Nat, NEW n \in Nat \ {0}
  PROVE  a \div n \in Nat /\ a % n \in 0 .. n - 1 /\ a = n * (a \div n) + (a % n)
OBVIOUS
===============================================================================
