------------------------------- MODULE Induction -------------------------------
(***************************************************************************)
(* Induction over the natural numbers and definition by recursion, stated  *)
(* of sets and functions instead of predicates and operators.              *)
(***************************************************************************)
EXTENDS Integers, FiniteSets, FiniteSetTheorems, TLAPS

(* A set with 0 that has the successor of each of its numbers has them all: *)
(* below a number it does not have, "one less" would be an injection of the *)
(* missing numbers into fewer.                                              *)
LEMMA SetInduction ==
    ASSUME NEW S, 0 \in S, \A n \in Nat : n \in S => n + 1 \in S
    PROVE  \A n \in Nat : n \in S
<1>1. SUFFICES ASSUME NEW top \in Nat, top \notin S PROVE FALSE
  OBVIOUS
<1> DEFINE D == {n \in Nat : n <= top /\ n \notin S}
           E == D \ {top}
           pred == [n \in D |-> n - 1]
<1>2. IsFiniteSet(D) /\ Cardinality(D) \in Nat
  BY FS_BoundedSetOfNaturals, FS_CardinalityType
<1>3. top \in D
  BY <1>1
<1>4. IsFiniteSet(E) /\ Cardinality(E) = Cardinality(D) - 1
  BY <1>2, <1>3, FS_RemoveElement
<1>5. ASSUME NEW n \in D PROVE n - 1 \in E
  <2>1. n \in Nat /\ n # 0 /\ n <= top /\ n \notin S
    BY <1>5
  <2>2. n - 1 \in Nat /\ (n - 1) + 1 = n /\ n - 1 # top /\ n - 1 <= top
    BY <2>1
  <2>3. n - 1 \notin S
    BY <2>1, <2>2
  <2> QED
    BY <2>2, <2>3
<1>6. \A m, n \in D : pred[m] = pred[n] => m = n
  OBVIOUS
<1>7. pred \in [D -> E]
  BY <1>5
<1> HIDE DEF D, E, pred
<1> QED
  BY <1>2, <1>4, <1>6, <1>7, FS_PigeonHole

(* The functions on the numbers with first value a and, from each value to  *)
(* the next, the step g.                                                    *)
Iterates(S, a, g) ==
    {f \in [Nat -> S] : f[0] = a /\ \A n \in Nat : f[n + 1] = g[<<n, f[n]>>]}

(* There is such a function.                                                *)
LEMMA Recursion ==
    ASSUME NEW S, NEW a \in S, NEW g \in [Nat \X S -> S]
    PROVE  \E f : f \in Iterates(S, a, g)
<1> DEFINE Upto(k) == {h \in [0 .. k -> S] :
                          h[0] = a /\ \A n \in 0 .. k - 1 : h[n + 1] = g[<<n, h[n]>>]}
           Exists == {k \in Nat : Upto(k) # {}}
           Agree == {n \in Nat : \A k, l \in Nat : n <= k /\ n <= l =>
                        \A h \in Upto(k), i \in Upto(l) : h[n] = i[n]}
<1>1. \A k \in Nat : k \in Exists
  <2>1. 0 \in Exists
    <3>1. [n \in 0 .. 0 |-> a] \in Upto(0)
      OBVIOUS
    <3> QED
      BY <3>1
  <2>2. ASSUME NEW k \in Nat, k \in Exists PROVE k + 1 \in Exists
    <3>1. PICK h \in Upto(k) : TRUE
      BY <2>2
    <3> DEFINE next == g[<<k, h[k]>>]
               i == [n \in 0 .. k + 1 |-> IF n = k + 1 THEN next ELSE h[n]]
    <3>2. next \in S
      BY <3>1
    <3>3. i \in [0 .. k + 1 -> S]
      BY <3>1, <3>2
    <3>4. i[0] = a
      BY <3>1
    <3>5. ASSUME NEW n \in 0 .. k PROVE i[n + 1] = g[<<n, i[n]>>]
      <4>1. CASE n = k
        <5>1. i[n + 1] = next /\ i[n] = h[n]
          BY <4>1
        <5> QED
          BY <4>1, <5>1
      <4>2. CASE n < k
        BY <3>1, <4>2
      <4> QED
        BY <4>1, <4>2
    <3> HIDE DEF i, next
    <3>6. \A n \in 0 .. (k + 1) - 1 : i[n + 1] = g[<<n, i[n]>>]
      BY <3>5
    <3>7. i \in Upto(k + 1)
      BY <3>3, <3>4, <3>6, Zenon
    <3> QED
      BY <3>7
  <2> HIDE DEF Exists
  <2> QED
    BY <2>1, <2>2, SetInduction
<1>2. \A n \in Nat : n \in Agree
  <2>1. 0 \in Agree
    OBVIOUS
  <2>2. ASSUME NEW n \in Nat, n \in Agree PROVE n + 1 \in Agree
    <3>1. SUFFICES ASSUME NEW k \in Nat, NEW l \in Nat, n + 1 <= k, n + 1 <= l,
                          NEW h \in Upto(k), NEW i \in Upto(l)
                   PROVE  h[n + 1] = i[n + 1]
      OBVIOUS
    <3>2. h[n] = i[n]
      <4> HIDE DEF Upto
      <4> QED
        BY <2>2, <3>1
    <3>3. n \in 0 .. k - 1 /\ n \in 0 .. l - 1
      BY <3>1
    <3>4. h[n + 1] = g[<<n, h[n]>>] /\ i[n + 1] = g[<<n, i[n]>>]
      BY <3>1, <3>3
    <3> QED
      BY <3>2, <3>4
  <2> HIDE DEF Agree
  <2> QED
    BY <2>1, <2>2, SetInduction
<1> DEFINE f == [n \in Nat |-> (CHOOSE h \in Upto(n) : TRUE)[n]]
<1>3. ASSUME NEW n \in Nat, NEW k \in Nat, n <= k, NEW h \in Upto(k)
      PROVE  f[n] = h[n]
  <2>1. PICK i \in Upto(n) : i = CHOOSE h1 \in Upto(n) : TRUE
    BY <1>1
  <2>2. f[n] = i[n]
    BY <2>1
  <2>3. n \in Agree
    BY <1>2
  <2> HIDE DEF Upto, f
  <2> QED
    BY <1>3, <2>2, <2>3
<1>4. ASSUME NEW n \in Nat PROVE f[n] \in S /\ f[n + 1] = g[<<n, f[n]>>]
  <2>1. PICK h \in Upto(n + 1) : TRUE
    BY <1>1
  <2> HIDE DEF f
  <2>2. f[n] = h[n] /\ f[n + 1] = h[n + 1]
    BY <1>3, <2>1
  <2>3. n \in 0 .. n + 1 /\ n \in 0 .. (n + 1) - 1
    OBVIOUS
  <2> QED
    BY <2>1, <2>2, <2>3
<1>5. f[0] = a
  <2>1. PICK h \in Upto(0) : TRUE
    BY <1>1
  <2> QED
    BY <1>3, <2>1
<1>6. f \in [Nat -> S]
  BY <1>4
<1> HIDE DEF f
<1> QED
  BY <1>4, <1>5, <1>6 DEF Iterates
================================================================================
