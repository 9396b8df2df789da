------------------------------ MODULE Extrema ------------------------------
(***************************************************************************)
(* Least and greatest elements of sets of numbers: what a CHOOSE of the    *)
(* first or the last of several candidates rests on; and with them the     *)
(* functions that a step, taken over and over, defines, and what holds of  *)
(* every sequence.                                                         *)
(***************************************************************************)
EXTENDS Integers, Sequences, WellFoundedInduction, TLAPS

\* A set of natural numbers that is not empty has a least element.
LEMMA LeastExists ==
    ASSUME NEW T \in SUBSET Nat, T # {}
    PROVE  \E k \in T : \A j \in T : k <= j
  <1> DEFINE R == OpToRel(<, Nat)
  <1>1. IsWellFoundedOn(R, Nat)
    BY NatLessThanWellFounded, Zenon
  <1>2. \A j, k \in Nat : <<j, k>> \in R <=> j < k
    BY Zenon DEF OpToRel
  <1> HIDE DEF R
  <1>3. PICK k \in T : \A j \in T : ~(<<j, k>> \in R)
    BY <1>1, WFMin
  <1>4. \A j \in T : ~(j < k)
    BY <1>2, <1>3, Zenon
  <1> QED BY <1>4

\* A bounded one that is not empty has a greatest element.
LEMMA GreatestExists ==
    ASSUME NEW n \in Nat, NEW S \in SUBSET (0..n), S # {}
    PROVE  \E k \in S : \A j \in S : j <= k
  <1> DEFINE T == {j \in Nat : n - j \in S}
  <1>1. T \in SUBSET Nat /\ T # {}
    <2>1. PICK k \in S : TRUE
      OBVIOUS
    <2>2. n - k \in T
      BY <2>1
    <2> QED BY <2>2
  <1> HIDE DEF T
  <1>2. PICK d \in T : \A j \in T : d <= j
    BY <1>1, LeastExists
  <1>3. d \in Nat /\ n - d \in S
    BY <1>2 DEF T
  <1>4. ASSUME NEW j \in S PROVE j <= n - d
    <2>1. n - j \in T
      BY DEF T
    <2> QED BY <1>2, <1>3, <2>1
  <1> QED BY <1>3, <1>4

\* h goes from b through the steps G[1], ..., G[N].
Goes(N, b, G, h) == h[0] = b /\ \A d \in 1..N : h[d] = G[d][h[d - 1]]

\* Taking steps one after the other goes through a sequence of values: what a
\* recursive function over 0..N rests on.
LEMMA StepsExist ==
    ASSUME NEW N \in Nat, NEW X, NEW b \in X, NEW G \in [1..N -> [X -> X]]
    PROVE  \E h \in [0..N -> X] : Goes(N, b, G, h)
  <1> DEFINE T == {n \in 0..N : ~ \E h \in [0..n -> X] : Goes(n, b, G, h)}
  <1>1. CASE T = {}
    <2>1. N \in 0..N
      OBVIOUS
    <2> QED BY <1>1, <2>1
  <1>2. CASE T # {}
    <2>0. T \in SUBSET Nat
      OBVIOUS
    <2>1. PICK n \in T : \A j \in T : n <= j
      <3> HIDE DEF T
      <3> QED BY <1>2, <2>0, LeastExists
    <2>2. n \in 0..N /\ ~ \E h \in [0..n -> X] : Goes(n, b, G, h)
      BY <2>1
    <2>3. n # 0
      <3> DEFINE h0 == [i \in 0..0 |-> b]
      <3>1. h0 \in [0..0 -> X] /\ Goes(0, b, G, h0)
        BY DEF Goes
      <3> QED BY <2>2, <3>1
    <2>4. PICK h \in [0..(n - 1) -> X] : Goes(n - 1, b, G, h)
      <3>1. n - 1 \in 0..N /\ ~(n <= n - 1)
        BY <2>2, <2>3
      <3>2. n - 1 \notin T
        <4> HIDE DEF T
        <4> QED BY <2>1, <3>1
      <3> QED BY <3>1, <3>2
    <2> DEFINE g == [i \in 0..n |-> IF i = n THEN G[n][h[n - 1]] ELSE h[i]]
    <2>5. g \in [0..n -> X]
      <3>1. n \in 1..N /\ n - 1 \in 0..(n - 1)
        BY <2>2, <2>3
      <3>2. G[n] \in [X -> X] /\ h[n - 1] \in X
        BY <2>4, <3>1
      <3>3. G[n][h[n - 1]] \in X
        BY <3>2
      <3>4. ASSUME NEW i \in 0..n, i # n PROVE h[i] \in X
        <4>1. i \in 0..(n - 1)
          BY <2>2, <3>4
        <4> QED BY <2>4, <4>1
      <3> QED BY <3>3, <3>4
    <2>6. Goes(n, b, G, g)
      <3>1. g[0] = b
        BY <2>2, <2>3, <2>4 DEF Goes
      <3>2. ASSUME NEW d \in 1..n PROVE g[d] = G[d][g[d - 1]]
        BY <2>2, <2>3, <2>4 DEF Goes
      <3> QED BY <3>1, <3>2 DEF Goes
    <2> QED BY <2>2, <2>5, <2>6
  <1> QED BY <1>1, <1>2

\* What holds at 0, and at every number up to N if at the one before it, holds
\* at all of them.
LEMMA UpTo ==
    ASSUME NEW N \in Nat, NEW S \in SUBSET Nat, 0 \in S,
           \A d \in 1..N : d - 1 \in S => d \in S
    PROVE  0..N \subseteq S
  <1> DEFINE T == {n \in 0..N : n \notin S}
  <1>1. CASE T # {}
    <2>0. T \in SUBSET Nat
      OBVIOUS
    <2>1. PICK n \in T : \A j \in T : n <= j
      <3> HIDE DEF T
      <3> QED BY <1>1, <2>0, LeastExists
    <2>2. n \in 1..N /\ n - 1 \in 0..N /\ n - 1 \notin T
      BY <2>1
    <2> QED BY <2>1, <2>2
  <1> QED BY <1>1

\* h goes from b through these steps as long as it is in X.
GoesIn(N, X, b, G, h) ==
    /\ h = [i \in 0..N |-> h[i]]
    /\ h[0] = b /\ \A i \in 1..N : h[i - 1] \in X => h[i] = G[i][h[i - 1]]

\* The function that steps define stays where the steps do.
LEMMA StepsStay ==
    ASSUME NEW N \in Nat, NEW X, NEW b \in X, NEW G \in [1..N -> [X -> X]], NEW at,
           GoesIn(N, X, b, G, at)
    PROVE  at \in [0..N -> X]
  <1> USE DEF GoesIn
  <1> DEFINE S == {i \in Nat : i \in 0..N => at[i] \in X}
  <1>1. 0 \in S
    OBVIOUS
  <1>2. ASSUME NEW i \in 1..N, i - 1 \in S PROVE i \in S
    <2>1. i - 1 \in 0..N /\ i \in Nat
      OBVIOUS
    <2>2. at[i - 1] \in X
      BY <1>2, <2>1
    <2>3. at[i] = G[i][at[i - 1]] /\ G[i] \in [X -> X]
      BY <2>2
    <2> QED BY <2>1, <2>2, <2>3
  <1>3. 0..N \subseteq S
    <2>1. S \in SUBSET Nat
      OBVIOUS
    <2> HIDE DEF S
    <2> QED BY <1>1, <1>2, <2>1, UpTo
  <1>4. \A i \in 0..N : at[i] \in X
    BY <1>3
  <1> QED BY <1>4

\* A prefix with the next element is the next prefix.
LEMMA LongerPrefix ==
    ASSUME NEW A, NEW p \in Seq(A), NEW i \in 1..Len(p)
    PROVE  SubSeq(p, 1, i) = Append(SubSeq(p, 1, i - 1), p[i])
  OBVIOUS

\* What holds of the empty sequence, and with a sequence of one with an element
\* more, holds of every sequence.
LEMMA EverySeq ==
    ASSUME NEW A, NEW S \in SUBSET Seq(A), <<>> \in S,
           \A s \in S, x \in A : Append(s, x) \in S
    PROVE  \A p \in Seq(A) : p \in S
  <1> SUFFICES ASSUME NEW p \in Seq(A) PROVE p \in S
    OBVIOUS
  <1> DEFINE N == Len(p)
             T == {i \in Nat : SubSeq(p, 1, i) \in S}
  <1>1. N \in Nat /\ p \in Seq(A) /\ \A i \in 1..N : p[i] \in A
    OBVIOUS
  <1>2. 0 \in T
    <2>1. SubSeq(p, 1, 0) = <<>>
      BY <1>1
    <2> QED BY <2>1
  <1>3. ASSUME NEW i \in 1..N, i - 1 \in T PROVE i \in T
    <2>1. SubSeq(p, 1, i) = Append(SubSeq(p, 1, i - 1), p[i])
      BY <1>1, LongerPrefix, Zenon
    <2>2. SubSeq(p, 1, i - 1) \in S /\ p[i] \in A
      BY <1>1, <1>3
    <2>3. Append(SubSeq(p, 1, i - 1), p[i]) \in S
      BY <2>2, Zenon
    <2>4. i \in Nat
      OBVIOUS
    <2> QED BY <2>1, <2>3, <2>4
  <1>4. 0..N \subseteq T
    <2>1. T \in SUBSET Nat
      OBVIOUS
    <2> HIDE DEF T
    <2> QED BY <1>1, <1>2, <1>3, <2>1, UpTo
  <1>5. SubSeq(p, 1, N) = p
    BY <1>1
  <1>6. N \in T
    <2>1. N \in 0..N
      BY <1>1
    <2> HIDE DEF T, N
    <2> QED BY <1>4, <2>1
  <1> QED BY <1>5, <1>6
=============================================================================
