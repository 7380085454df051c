------------------------------ MODULE NatLemmas -------------------------------
(***************************************************************************)
(* Induction without operators as parameters: what the other proofs need   *)
(* about the natural numbers, stated of sets and functions.                *)
(***************************************************************************)
EXTENDS Integers, Sequences, FiniteSets, FiniteSetTheorems, WellFoundedInduction,
        SequenceTheorems, TLAPS

(* A set of natural numbers that is not empty has a least member: of the   *)
(* intervals that end in its members one contains no other.                *)
THEOREM SmallestMember ==
  ASSUME NEW X \in SUBSET Nat, X # {}
  PROVE  \E m \in X : \A k \in X : m <= k
<1> DEFINE T == {0..x : x \in X}
<1>1. IsWellFoundedOn(StrictSubsetOrdering(Nat), FiniteSubsetsOf(Nat))
  BY FS_StrictSubsetOrderingWellFounded
<1>2. T \subseteq FiniteSubsetsOf(Nat)
  <2>1. \A x \in X : 0..x \subseteq Nat /\ IsFiniteSet(0..x)
    BY FS_Interval
  <2> QED
    BY <2>1 DEF FiniteSubsetsOf
<1>3. T # {}
  OBVIOUS
<1> HIDE DEF T
<1>4. PICK t \in T : \A u \in T : <<u, t>> \notin StrictSubsetOrdering(Nat)
  BY <1>1, <1>2, <1>3, WFMin
<1>5. PICK m \in X : t = 0..m
  BY DEF T
<1>6. ASSUME NEW k \in X, ~(m <= k) PROVE FALSE
  <2>1. k \in Nat /\ m \in Nat /\ k < m
    BY <1>6
  <2>2. 0..k \in T
    BY DEF T
  <2>3. 0..k \subseteq 0..m /\ 0..k # 0..m
    <3>1. m \in 0..m /\ m \notin 0..k
      BY <2>1
    <3>2. 0..k \subseteq 0..m
      BY <2>1
    <3> QED
      BY <3>1, <3>2
  <2>4. 0..k \subseteq Nat /\ 0..m \subseteq Nat
    BY <2>1
  <2>5. <<0..k, 0..m>> \in StrictSubsetOrdering(Nat)
    BY <2>3, <2>4 DEF StrictSubsetOrdering
  <2> QED
    BY <1>4, <1>5, <2>2, <2>5
<1> QED
  BY <1>6

(* Induction: a set that contains 0 and with each number the next contains *)
(* all natural numbers.                                                    *)
THEOREM SetInduction ==
  ASSUME NEW S, 0 \in S, \A n \in Nat : n \in S => n + 1 \in S
  PROVE  \A n \in Nat : n \in S
<1> DEFINE X == {n \in Nat : n \notin S}
<1>1. SUFFICES ASSUME X # {} PROVE FALSE
  OBVIOUS
<1>2. PICK m \in X : \A k \in X : m <= k
  BY <1>1, SmallestMember
<1>3. m \in Nat /\ m # 0 /\ m \notin S
  OBVIOUS
<1>4. m - 1 \in Nat /\ (m - 1) + 1 = m /\ ~(m <= m - 1)
  BY <1>3
<1>5. m - 1 \in S
  BY <1>2, <1>4
<1> QED
  BY <1>3, <1>4, <1>5

(* A function on 0..N that is c at 0 and goes from each value to the next  *)
(* by G, and a set in which G stays.                                       *)
Follows(f, N, c, G) == f[0] = c /\ \A n \in 1..N : f[n] = G[<<n, f[n - 1]>>]
StaysIn(S, G)       == \A n \in Nat, s \in S : G[<<n, s>>] \in S

(* Recursion: there is such a function.                                    *)
THEOREM Recursion ==
  ASSUME NEW S, NEW c, NEW G, NEW M, M \in Nat, c \in S, StaysIn(S, G)
  PROVE  \E f \in [0..M -> S] : Follows(f, M, c, G)
<1> DEFINE T == {N \in Nat : \E f \in [0..N -> S] : Follows(f, N, c, G)}
<1>1. 0 \in T
  <2> DEFINE f == [k \in 0..0 |-> c]
  <2>1. f \in [0..0 -> S] /\ Follows(f, 0, c, G)
    BY DEF Follows
  <2> QED
    BY <2>1
<1>2. ASSUME NEW N \in Nat, N \in T
      PROVE  N + 1 \in T
  <2>1. PICK f \in [0..N -> S] : Follows(f, N, c, G)
    BY <1>2
  <2> DEFINE g == [k \in 0..(N + 1) |-> IF k = N + 1 THEN G[<<N + 1, f[N]>>] ELSE f[k]]
  <2>2. N + 1 \in Nat /\ N \in 0..N /\ 0 # N + 1 /\ 0 \in 0..(N + 1)
    OBVIOUS
  <2>3. g \in [0..(N + 1) -> S]
    BY <2>2 DEF StaysIn
  <2>4. ASSUME NEW n \in 1..(N + 1) PROVE g[n] = G[<<n, g[n - 1]>>]
    <3>1. n - 1 \in 0..N /\ n - 1 \in 0..(N + 1) /\ n - 1 # N + 1 /\ n \in 0..(N + 1)
      OBVIOUS
    <3>2. g[n - 1] = f[n - 1]
      BY <3>1
    <3>3. CASE n = N + 1
      BY <3>1, <3>2, <3>3
    <3>4. CASE n # N + 1
      <4>1. n \in 1..N
        BY <3>4
      <4> QED
        BY <2>1, <3>1, <3>2, <3>4, <4>1 DEF Follows
    <3> QED
      BY <3>3, <3>4
  <2>5. g[0] = c
    BY <2>1, <2>2 DEF Follows
  <2> HIDE DEF g
  <2>6. Follows(g, N + 1, c, G)
    BY <2>4, <2>5 DEF Follows
  <2> QED
    BY <2>2, <2>3, <2>6
<1> HIDE DEF T
<1>3. \A N \in Nat : N \in T
  BY <1>1, <1>2, SetInduction
<1> QED
  BY <1>3 DEF T

(* What goes on by G from c as long as it is in S stays in S.              *)
THEOREM StaysTyped ==
  ASSUME NEW S, NEW c, NEW G, NEW M, NEW f, M \in Nat, c \in S, StaysIn(S, G),
         f = [n \in 0..M |-> f[n]], f[0] = c,
         \A n \in 1..M : f[n - 1] \in S => f[n] = G[<<n, f[n - 1]>>]
  PROVE  f \in [0..M -> S]
<1> DEFINE T == {n \in Nat : n <= M => f[n] \in S}
<1>1. 0 \in T
  OBVIOUS
<1>2. ASSUME NEW n \in Nat, n \in T PROVE n + 1 \in T
  <2>1. SUFFICES ASSUME n + 1 <= M PROVE f[n + 1] \in S
    OBVIOUS
  <2>2. f[n] \in S /\ n + 1 \in 1..M /\ (n + 1) - 1 = n
    BY <1>2, <2>1
  <2>3. f[n + 1] = G[<<n + 1, f[n]>>]
    BY <2>2
  <2> QED
    BY <2>2, <2>3 DEF StaysIn
<1> HIDE DEF T
<1>3. \A n \in Nat : n \in T
  BY <1>1, <1>2, SetInduction
<1>4. \A n \in 0..M : f[n] \in S
  <2>1. \A n \in 0..M : n \in Nat /\ n <= M
    OBVIOUS
  <2> QED
    BY <1>3, <2>1 DEF T
<1> QED
  BY <1>4

(* A list that is gathered from 1..M: v[n] is appended for each n in K.    *)
Gathers(f, M, K, v) ==
  /\ f = [n \in 0..M |-> f[n]]
  /\ f[0] = <<>>
  /\ \A n \in 1..M : f[n] = IF n \in K THEN Append(f[n - 1], v[n]) ELSE f[n - 1]

(* Such a list exists, and its members are of the type of those appended.  *)
THEOREM Gathering ==
  ASSUME NEW S, NEW M, NEW K, NEW v, M \in Nat, \A n \in K : v[n] \in S
  PROVE  /\ \E f : Gathers(f, M, K, v)
         /\ \A f : Gathers(f, M, K, v) => f \in [0..M -> Seq(S)]
<1> DEFINE G == [y \in Nat \X Seq(S) |-> IF y[1] \in K THEN Append(y[2], v[y[1]]) ELSE y[2]]
<1>1. \A n \in Nat, s \in Seq(S) :
        /\ G[<<n, s>>] = IF n \in K THEN Append(s, v[n]) ELSE s
        /\ G[<<n, s>>] \in Seq(S)
  <2>1. \A n \in Nat, s \in Seq(S) : G[<<n, s>>] = IF n \in K THEN Append(s, v[n]) ELSE s
    OBVIOUS
  <2>2. \A n \in Nat, s \in Seq(S) : n \in K => Append(s, v[n]) \in Seq(S)
    BY AppendProperties
  <2> HIDE DEF G
  <2> QED
    BY <2>1, <2>2
<1>2. StaysIn(Seq(S), G)
  BY <1>1 DEF StaysIn
<1>3. <<>> \in Seq(S)
  BY EmptySeq
<1>4. \A n \in 1..M : n \in Nat /\ n - 1 \in 0..M
  OBVIOUS
<1> HIDE DEF G
<1>5. \E f : Gathers(f, M, K, v)
  <2>1. PICK f \in [0..M -> Seq(S)] : Follows(f, M, <<>>, G)
    BY <1>2, <1>3, Recursion
  <2>2. \A n \in 1..M : f[n] = IF n \in K THEN Append(f[n - 1], v[n]) ELSE f[n - 1]
    <3>1. \A n \in 1..M : f[n] = G[<<n, f[n - 1]>>]
      BY <2>1 DEF Follows
    <3>2. \A n \in 1..M : n \in Nat /\ f[n - 1] \in Seq(S)
      BY <1>4, <2>1
    <3> QED
      BY <1>1, <3>1, <3>2
  <2>3. f[0] = <<>> /\ f = [n \in 0..M |-> f[n]]
    BY <2>1 DEF Follows
  <2>4. Gathers(f, M, K, v)
    BY <2>2, <2>3 DEF Gathers
  <2> QED
    BY <2>4
<1>6. ASSUME NEW f, Gathers(f, M, K, v) PROVE f \in [0..M -> Seq(S)]
  <2>1. \A n \in 1..M : f[n - 1] \in Seq(S) => f[n] = G[<<n, f[n - 1]>>]
    BY <1>1, <1>4, <1>6 DEF Gathers
  <2>2. f = [n \in 0..M |-> f[n]] /\ f[0] = <<>>
    BY <1>6 DEF Gathers
  <2> QED
    BY <1>2, <1>3, <2>1, <2>2, StaysTyped
<1> QED
  BY <1>5, <1>6
=============================================================================
