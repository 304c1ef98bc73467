----------------------------- MODULE Recursion -----------------------------
(***************************************************************************)
(* Induction for proofs about the recursive functions of the models.  It   *)
(* is stated with sets and functions in place of operators: the least      *)
(* element of a set of naturals, and the existence of a function that is   *)
(* computed step by step.                                                  *)
(***************************************************************************)
EXTENDS Integers, WellFoundedInduction, TLAPS

Less == OpToRel(<, Nat)

\* A set of naturals that is not empty has a least element.
LEMMA NatLeast ==
    ASSUME NEW S \in SUBSET Nat, S # {}
    PROVE  \E x \in S : \A y \in S : x <= y
<1>1. IsWellFoundedOn(Less, Nat)
  BY NatLessThanWellFounded DEF Less
<1>2. PICK x \in S : \A y \in S : <<y, x>> \notin Less
  BY <1>1, WFMin
<1>3. ASSUME NEW y \in S
      PROVE  x <= y
  <2>1. ~(y < x)
    BY <1>2 DEF Less, OpToRel
  <2> QED
    BY <2>1
<1> QED
  BY <1>3

\* Induction up to n: a set that holds 0, and the successor of each of its
\* members below n, holds 0 .. n.
LEMMA UpTo ==
    ASSUME NEW n \in Nat, NEW S, 0 \in S, \A i \in 1 .. n : i - 1 \in S => i \in S
    PROVE  \A i \in 0 .. n : i \in S
<1> DEFINE T == {i \in 0 .. n : i \notin S}
<1> SUFFICES ASSUME T # {} PROVE FALSE
  OBVIOUS
<1>1. T \in SUBSET Nat
  OBVIOUS
<1>2. PICK x \in T : \A y \in T : x <= y
  BY <1>1, NatLeast
<1>3. x \in 1 .. n /\ x - 1 \in 0 .. n
  OBVIOUS
<1>4. x - 1 \notin T
  BY <1>2, <1>3
<1> QED
  BY <1>3, <1>4

\* A computation of n steps on the values T, the ith of which is G[<<i, _>>].
Computes(f, n, T, init, G) ==
    /\ f \in [0 .. n -> T]
    /\ f[0] = init
    /\ \A i \in 1 .. n : f[i] = G[<<i, f[i - 1]>>]

\* Every computation has a function that records it.
LEMMA Computation ==
    ASSUME NEW n \in Nat, NEW T, NEW init \in T, NEW G \in [(1 .. n) \X T -> T]
    PROVE  \E f : Computes(f, n, T, init, G)
<1> DEFINE Good(m) == \E f \in [0 .. m -> T] :
                          f[0] = init /\ \A i \in 1 .. m : f[i] = G[<<i, f[i - 1]>>]
           S == {m \in 0 .. n : Good(m)}
<1>1. 0 \in S
  <2> DEFINE f == [i \in 0 .. 0 |-> init]
  <2>1. f \in [0 .. 0 -> T] /\ f[0] = init /\ \A i \in 1 .. 0 : f[i] = G[<<i, f[i - 1]>>]
    OBVIOUS
  <2> HIDE DEF f
  <2> QED
    BY <2>1
<1>2. ASSUME NEW m \in 1 .. n, m - 1 \in S
      PROVE  m \in S
  <2>1. PICK g \in [0 .. m - 1 -> T] :
            g[0] = init /\ \A i \in 1 .. m - 1 : g[i] = G[<<i, g[i - 1]>>]
    BY <1>2
  <2>2. g[m - 1] \in T
    OBVIOUS
  <2>3. G[<<m, g[m - 1]>>] \in T
    BY <2>2
  <2> DEFINE f == [i \in 0 .. m |-> IF i < m THEN g[i] ELSE G[<<m, g[m - 1]>>]]
  <2>4. f \in [0 .. m -> T]
    BY <2>3
  <2>5. \A i \in 0 .. m - 1 : f[i] = g[i]
    OBVIOUS
  <2>6. f[m] = G[<<m, g[m - 1]>>]
    OBVIOUS
  <2> HIDE DEF f
  <2>7. f[0] = init
    BY <2>1, <2>5
  <2>8. ASSUME NEW i \in 1 .. m
        PROVE  f[i] = G[<<i, f[i - 1]>>]
    <3>1. CASE i = m
      BY <2>5, <2>6, <3>1
    <3>2. CASE i # m
      <4>1. i \in 0 .. m - 1 /\ i - 1 \in 0 .. m - 1 /\ i \in 1 .. m - 1
        BY <3>2
      <4> QED
        BY <2>1, <2>5, <4>1
    <3> QED
      BY <3>1, <3>2
  <2> QED
    BY <2>4, <2>7, <2>8
<1> HIDE DEF Good
<1>3. n \in S
  <2> HIDE DEF S
  <2> QED
    BY <1>1, <1>2, UpTo
<1> QED
  BY <1>3 DEF Good, Computes
=============================================================================
