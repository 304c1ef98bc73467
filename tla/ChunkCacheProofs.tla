-------------------------- MODULE ChunkCacheProofs --------------------------
(***************************************************************************)
(* Theorems about the chunk cache of NCZarr: lists, table and space agree, *)
(* a file opened for reading is not written, and the cache implements a    *)
(* store of chunks.                                                        *)
(***************************************************************************)
EXTENDS ChunkCache, Recursion, FiniteSetTheorems, FunctionTheorems

----------------------------------------------------------------------------
(* The sum of the sizes of some entries *)

One(S) == CHOOSE x \in S : TRUE

\* The entries of S have a size.
Sized(e, S) == IsFiniteSet(S) /\ \A x \in S : SizeOf(e[x]) \in Nat

\* F adds up the sizes of the subsets of S with fewer than n members.
Adds(F, e, S, n) ==
    \A s \in SUBSET S : Cardinality(s) < n =>
        F[s] = IF s = {} THEN 0 ELSE SizeOf(e[One(s)]) + F[s \ {One(s)}]

LEMMA OneLess ==
    ASSUME NEW s, IsFiniteSet(s), NEW x \in s
    PROVE  /\ IsFiniteSet(s \ {x})
           /\ Cardinality(s) \in Nat \ {0}
           /\ Cardinality(s \ {x}) = Cardinality(s) - 1
<1>1. Cardinality(s) \in Nat
  BY FS_CardinalityType
<1>2. Cardinality(s) # 0
  BY FS_EmptySet
<1> QED
  BY <1>1, <1>2, FS_RemoveElement

LEMMA OneIn ==
    ASSUME NEW s, s # {}
    PROVE  One(s) \in s
BY DEF One

\* The function in the definition of the sum exists.
LEMMA AddsExists ==
    ASSUME NEW e, NEW S, Sized(e, S), NEW n \in Nat
    PROVE  \E F \in [SUBSET S -> Nat] : Adds(F, e, S, n)
<1> DEFINE T == {m \in 0 .. n : \E F \in [SUBSET S -> Nat] : Adds(F, e, S, m)}
<1>0. \A s \in SUBSET S : IsFiniteSet(s) /\ Cardinality(s) \in Nat
  BY FS_Subset, FS_CardinalityType DEF Sized
<1>1. 0 \in T
  <2> DEFINE F == [s \in SUBSET S |-> 0]
  <2>1. F \in [SUBSET S -> Nat]
    OBVIOUS
  <2>2. Adds(F, e, S, 0)
    <3> HIDE DEF F
    <3>1. \A s \in SUBSET S : ~(Cardinality(s) < 0)
      BY <1>0
    <3> QED
      BY <3>1 DEF Adds
  <2> HIDE DEF F
  <2> QED
    BY <2>1, <2>2
<1>2. ASSUME NEW m \in 1 .. n, m - 1 \in T
      PROVE  m \in T
  <2>1. PICK F \in [SUBSET S -> Nat] : Adds(F, e, S, m - 1)
    BY <1>2
  <2> DEFINE next(s) == IF s = {} THEN 0 ELSE SizeOf(e[One(s)]) + F[s \ {One(s)}]
             H == [s \in SUBSET S |-> IF Cardinality(s) = m - 1 THEN next(s) ELSE F[s]]
  <2>2. ASSUME NEW s \in SUBSET S
        PROVE  next(s) \in Nat
    <3>1. CASE s = {}
      BY <3>1
    <3>2. CASE s # {}
      <4>1. One(s) \in S
        BY <3>2, OneIn
      <4>2. SizeOf(e[One(s)]) \in Nat
        BY <4>1 DEF Sized
      <4>3. F[s \ {One(s)}] \in Nat
        OBVIOUS
      <4> QED
        BY <3>2, <4>2, <4>3
    <3> QED
      BY <3>1, <3>2
  <2>3. H \in [SUBSET S -> Nat]
    <3> HIDE DEF next
    <3> QED
      BY <2>2
  <2>4. ASSUME NEW s \in SUBSET S, Cardinality(s) < m
        PROVE  H[s] = IF s = {} THEN 0 ELSE SizeOf(e[One(s)]) + H[s \ {One(s)}]
    <3>1. Cardinality(s) \in Nat
      BY <1>0
    <3>2. ASSUME s # {}
          PROVE  /\ s \ {One(s)} \in SUBSET S
                 /\ Cardinality(s \ {One(s)}) # m - 1
      BY <1>0, <2>4, <3>2, OneIn, OneLess
    <3>3. s # {} => H[s \ {One(s)}] = F[s \ {One(s)}]
      BY <3>2
    <3>4. H[s] = next(s)
      <4>1. CASE Cardinality(s) = m - 1
        <5> HIDE DEF next
        <5> QED
          BY <4>1
      <4>2. CASE Cardinality(s) # m - 1
        <5>1. Cardinality(s) < m - 1
          BY <2>4, <3>1, <4>2
        <5>2. F[s] = next(s)
          BY <2>1, <5>1 DEF Adds
        <5> HIDE DEF next
        <5> QED
          BY <4>2, <5>2
      <4> QED
        BY <4>1, <4>2
    <3> HIDE DEF H
    <3> QED
      BY <3>3, <3>4
  <2>5. Adds(H, e, S, m)
    <3> HIDE DEF H, next
    <3> QED
      BY <2>4 DEF Adds
  <2> HIDE DEF H
  <2> QED
    BY <2>3, <2>5
<1> HIDE DEF T
<1>3. n \in T
  BY <1>1, <1>2, UpTo
<1> QED
  BY <1>3 DEF T

Weighs(F, e, S) ==
    F = [s \in SUBSET S |-> IF s = {} THEN 0 ELSE SizeOf(e[One(s)]) + F[s \ {One(s)}]]

LEMMA SpaceIs ==
    ASSUME NEW e, NEW S, Sized(e, S)
    PROVE  \E F \in [SUBSET S -> Nat] : Weighs(F, e, S) /\ Space(e, S) = F[S]
<1> DEFINE P(F) == Weighs(F, e, S)
           C == CHOOSE F : P(F)
<1>0. \A s \in SUBSET S : IsFiniteSet(s) /\ Cardinality(s) < Cardinality(S) + 1
  BY FS_Subset, FS_CardinalityType DEF Sized
<1>1. Cardinality(S) + 1 \in Nat
  BY FS_CardinalityType DEF Sized
<1>2. PICK F \in [SUBSET S -> Nat] : Adds(F, e, S, Cardinality(S) + 1)
  BY <1>1, AddsExists
<1>3. P(F)
  <2>1. \A s \in SUBSET S :
           F[s] = IF s = {} THEN 0 ELSE SizeOf(e[One(s)]) + F[s \ {One(s)}]
    BY <1>0, <1>2 DEF Adds
  <2> QED
    BY <2>1 DEF Weighs
<1>4. P(C)
  <2> HIDE DEF P
  <2> QED
    BY <1>3
<1>5. Space(e, S) = C[S]
  BY DEF Space, MapThenSumSet, MapThenFoldSet, Weighs, One
<1> HIDE DEF C
<1>6. ASSUME NEW s \in SUBSET S, NEW n \in Nat, Cardinality(s) = n
      PROVE  C[s] = F[s]
  <2> DEFINE T == {k \in 0 .. n : \A t \in SUBSET S : Cardinality(t) = k => C[t] = F[t]}
  <2>0. /\ \A t \in SUBSET S :
              C[t] = IF t = {} THEN 0 ELSE SizeOf(e[One(t)]) + C[t \ {One(t)}]
        /\ \A t \in SUBSET S :
              F[t] = IF t = {} THEN 0 ELSE SizeOf(e[One(t)]) + F[t \ {One(t)}]
    BY <1>3, <1>4 DEF Weighs
  <2>1. 0 \in T
    <3>1. \A t \in SUBSET S : Cardinality(t) = 0 => t = {}
      BY <1>0, FS_EmptySet
    <3>2. \A t \in SUBSET S : Cardinality(t) = 0 => C[t] = F[t]
      BY <2>0, <3>1
    <3> QED
      BY <3>2
  <2>2. ASSUME NEW k \in 1 .. n, k - 1 \in T
        PROVE  k \in T
    <3>1. ASSUME NEW t \in SUBSET S, Cardinality(t) = k
          PROVE  C[t] = F[t]
      <4>1. t # {}
        BY <3>1, FS_EmptySet
      <4>2. t \ {One(t)} \in SUBSET S /\ Cardinality(t \ {One(t)}) = k - 1
        BY <1>0, <3>1, <4>1, OneIn, OneLess
      <4>3. C[t \ {One(t)}] = F[t \ {One(t)}]
        BY <2>2, <4>2
      <4> QED
        BY <2>0, <4>1, <4>3
    <3> QED
      BY <3>1
  <2> HIDE DEF T
  <2>3. n \in T
    BY <2>1, <2>2, UpTo
  <2> QED
    BY <1>6, <2>3 DEF T
<1>7. C[S] = F[S]
  BY <1>6, FS_CardinalityType DEF Sized
<1> QED
  BY <1>3, <1>5, <1>7

\* A sum is the size of one entry and the sum of the others.
LEMMA SpaceStep ==
    ASSUME NEW e, NEW S, Sized(e, S)
    PROVE  /\ Space(e, S) \in Nat
           /\ S = {} => Space(e, S) = 0
           /\ S # {} => Space(e, S) = SizeOf(e[One(S)]) + Space(e, S \ {One(S)})
<1>1. PICK F \in [SUBSET S -> Nat] : Weighs(F, e, S) /\ Space(e, S) = F[S]
  BY SpaceIs
<1>2. Space(e, S) \in Nat
  BY <1>1
<1>3. \A s \in SUBSET S :
         F[s] = IF s = {} THEN 0 ELSE SizeOf(e[One(s)]) + F[s \ {One(s)}]
  BY <1>1 DEF Weighs
<1>4. S = {} => Space(e, S) = 0
  BY <1>1, <1>3
<1>5. ASSUME S # {}
      PROVE  Space(e, S) = SizeOf(e[One(S)]) + Space(e, S \ {One(S)})
  <2> DEFINE R == S \ {One(S)}
  <2>1. Sized(e, R)
    BY FS_Subset DEF Sized
  <2>2. PICK G \in [SUBSET R -> Nat] : Weighs(G, e, R) /\ Space(e, R) = G[R]
    BY <2>1, SpaceIs
  <2>3. \A s \in SUBSET R :
           G[s] = IF s = {} THEN 0 ELSE SizeOf(e[One(s)]) + G[s \ {One(s)}]
    BY <2>2 DEF Weighs
  <2>4. \A s \in SUBSET R : IsFiniteSet(s) /\ Cardinality(s) \in Nat
    BY <2>1, FS_Subset, FS_CardinalityType DEF Sized
  <2>5. \A s \in SUBSET R : s \in SUBSET S
    OBVIOUS
  <2> DEFINE n == Cardinality(R)
             T == {k \in 0 .. n : \A t \in SUBSET R : Cardinality(t) = k => G[t] = F[t]}
  <2>6. 0 \in T
    <3>1. \A t \in SUBSET R : Cardinality(t) = 0 => t = {}
      BY <2>4, FS_EmptySet
    <3>2. 0 \in 0 .. n
      BY <2>4
    <3> HIDE DEF n, R
    <3> QED
      BY <1>3, <2>3, <2>5, <3>1, <3>2
  <2>7. ASSUME NEW k \in 1 .. n, k - 1 \in T
        PROVE  k \in T
    <3>0. n \in Nat
      BY <2>4
    <3> HIDE DEF n, R
    <3>1. ASSUME NEW t \in SUBSET R, Cardinality(t) = k
          PROVE  G[t] = F[t]
      <4>0. Cardinality({}) = 0
        BY FS_EmptySet
      <4>1. t # {}
        BY <3>0, <3>1, <4>0
      <4>2. t \ {One(t)} \in SUBSET R /\ Cardinality(t \ {One(t)}) = k - 1
        BY <2>4, <3>1, <4>1, OneIn, OneLess
      <4>3. G[t \ {One(t)}] = F[t \ {One(t)}]
        BY <2>7, <4>2
      <4> QED
        BY <1>3, <2>3, <2>5, <4>1, <4>3
    <3> QED
      BY <3>0, <3>1
  <2>8. n \in T
    <3>0. n \in Nat
      BY <2>4
    <3> HIDE DEF T, n
    <3> QED
      BY <2>6, <2>7, <3>0, UpTo
  <2>9. Space(e, R) = F[R]
    <3> HIDE DEF R
    <3> QED
      BY <2>2, <2>8
  <2> QED
    BY <1>1, <1>3, <1>5, <2>9
<1> QED
  BY <1>2, <1>4, <1>5

\* Induction over the subsets of a finite set.
LEMMA BySubsets ==
    ASSUME NEW S, IsFiniteSet(S), NEW Q, {} \in Q,
           \A s \in SUBSET S : s # {} /\ (\A x \in s : s \ {x} \in Q) => s \in Q
    PROVE  S \in Q
<1> DEFINE n == Cardinality(S)
           T == {k \in 0 .. n : \A t \in SUBSET S : Cardinality(t) = k => t \in Q}
<1>0. \A s \in SUBSET S : IsFiniteSet(s) /\ Cardinality(s) \in Nat
  BY FS_Subset, FS_CardinalityType
<1>1. n \in Nat
  BY <1>0
<1>2. 0 \in T
  <2>1. \A t \in SUBSET S : Cardinality(t) = 0 => t \in Q
    BY <1>0, FS_EmptySet
  <2> HIDE DEF n
  <2> QED
    BY <1>1, <2>1
<1>3. ASSUME NEW k \in 1 .. n, k - 1 \in T
      PROVE  k \in T
  <2> HIDE DEF n
  <2>1. ASSUME NEW t \in SUBSET S, Cardinality(t) = k
        PROVE  t \in Q
    <3>0. Cardinality({}) = 0
      BY FS_EmptySet
    <3>1. t # {}
      BY <1>1, <2>1, <3>0
    <3>2. ASSUME NEW x \in t
          PROVE  t \ {x} \in Q
      <4>1. t \ {x} \in SUBSET S /\ Cardinality(t \ {x}) = k - 1
        BY <1>0, <2>1, OneLess
      <4> QED
        BY <1>3, <4>1
    <3> QED
      BY <3>1, <3>2
  <2> QED
    BY <1>1, <2>1
<1>4. n \in T
  <2> HIDE DEF T, n
  <2> QED
    BY <1>1, <1>2, <1>3, UpTo
<1> QED
  BY <1>4

LEMMA SizedSubset ==
    ASSUME NEW e, NEW S, Sized(e, S), NEW s \in SUBSET S
    PROVE  Sized(e, s)
BY FS_Subset DEF Sized

\* Any entry may be taken out of a sum.
LEMMA SpaceOut ==
    ASSUME NEW e, NEW S, Sized(e, S), NEW z \in S
    PROVE  Space(e, S) = SizeOf(e[z]) + Space(e, S \ {z})
<1> DEFINE out(s, x) == Space(e, s) = SizeOf(e[x]) + Space(e, s \ {x})
           Q == {s \in SUBSET S : \A x \in s : out(s, x)}
<1>1. {} \in Q
  OBVIOUS
<1>2. ASSUME NEW s \in SUBSET S, s # {}, \A x \in s : s \ {x} \in Q
      PROVE  s \in Q
  <2>1. ASSUME NEW x \in s
        PROVE  out(s, x)
    <3> DEFINE y == One(s)
    <3>0. y \in s
      BY <1>2, OneIn
    <3>1. Space(e, s) = SizeOf(e[y]) + Space(e, s \ {y})
      BY <1>2, SizedSubset, SpaceStep
    <3> HIDE DEF y
    <3>2. CASE x = y
      BY <3>1, <3>2
    <3>3. CASE x # y
      <4>1. x \in s \ {y} /\ y \in s \ {x}
        BY <3>0, <3>3
      <4>2. out(s \ {y}, x) /\ out(s \ {x}, y)
        BY <1>2, <3>0, <4>1
      <4>3. (s \ {y}) \ {x} = (s \ {x}) \ {y}
        OBVIOUS
      <4>4. Sized(e, (s \ {x}) \ {y})
        <5>1. (s \ {x}) \ {y} \in SUBSET S
          OBVIOUS
        <5> QED
          BY <5>1, SizedSubset
      <4>5. Space(e, (s \ {x}) \ {y}) \in Nat
        BY <4>4, SpaceStep
      <4>6. SizeOf(e[x]) \in Nat /\ SizeOf(e[y]) \in Nat
        BY <3>0 DEF Sized
      <4>7. /\ Space(e, s \ {y}) = SizeOf(e[x]) + Space(e, (s \ {x}) \ {y})
            /\ Space(e, s \ {x}) = SizeOf(e[y]) + Space(e, (s \ {x}) \ {y})
        BY <4>2, <4>3
      <4>8. Space(e, s) = SizeOf(e[x]) + Space(e, s \ {x})
        BY <3>1, <4>5, <4>6, <4>7, SMT
      <4> QED
        BY <4>8
    <3> QED
      BY <3>2, <3>3
  <2> QED
    BY <2>1
<1>3. S \in Q
  <2> HIDE DEF Q
  <2> QED
    BY <1>1, <1>2, BySubsets DEF Sized
<1> QED
  BY <1>3

\* The sum over two disjoint sets.
LEMMA SpaceSplit ==
    ASSUME NEW e, NEW A, NEW B, Sized(e, A \cup B), A \cap B = {}
    PROVE  Space(e, A \cup B) = Space(e, A) + Space(e, B)
<1> DEFINE Q == {b \in SUBSET B : Space(e, A \cup b) = Space(e, A) + Space(e, b)}
<1>0. /\ \A b \in SUBSET B : Sized(e, A \cup b) /\ Sized(e, b)
      /\ Sized(e, A)
      /\ IsFiniteSet(B)
  BY FS_Subset DEF Sized
<1>1. {} \in Q
  <2>1. A \cup {} = A /\ Sized(e, {})
    BY <1>0
  <2>2. Space(e, {}) = 0 /\ Space(e, A) \in Nat
    BY <1>0, <2>1, SpaceStep
  <2>3. Space(e, A \cup {}) = Space(e, A) + Space(e, {})
    BY <2>1, <2>2
  <2> QED
    BY <2>3
<1>2. ASSUME NEW b \in SUBSET B, b # {}, \A x \in b : b \ {x} \in Q
      PROVE  b \in Q
  <2>1. PICK x : x \in b
    BY <1>2
  <2>2. (A \cup b) \ {x} = A \cup (b \ {x})
    BY <2>1
  <2>3. Space(e, A \cup b) = SizeOf(e[x]) + Space(e, A \cup (b \ {x}))
    <3>1. x \in A \cup b /\ Sized(e, A \cup b)
      BY <1>0, <2>1
    <3>2. Space(e, A \cup b) = SizeOf(e[x]) + Space(e, (A \cup b) \ {x})
      BY <3>1, SpaceOut
    <3> QED
      BY <2>2, <3>2
  <2>4. Space(e, b) = SizeOf(e[x]) + Space(e, b \ {x})
    <3>1. Sized(e, b)
      BY <1>0
    <3> QED
      BY <2>1, <3>1, SpaceOut
  <2>5. Space(e, A \cup (b \ {x})) = Space(e, A) + Space(e, b \ {x})
    BY <1>2, <2>1
  <2>6. SizeOf(e[x]) \in Nat
    BY <1>0, <2>1 DEF Sized
  <2>7. Space(e, A) \in Nat /\ Space(e, b \ {x}) \in Nat
    BY <1>0, SpaceStep
  <2> QED
    BY <2>3, <2>4, <2>5, <2>6, <2>7
<1>3. B \in Q
  <2> HIDE DEF Q
  <2> QED
    BY <1>0, <1>1, <1>2, BySubsets
<1> QED
  BY <1>3

\* The sum grows with the sizes.
LEMMA SpaceGrows ==
    ASSUME NEW e, NEW d, NEW S, Sized(e, S), Sized(d, S),
           \A x \in S : SizeOf(e[x]) <= SizeOf(d[x])
    PROVE  Space(e, S) <= Space(d, S)
<1> DEFINE Q == {s \in SUBSET S : Space(e, s) <= Space(d, s)}
<1>0. \A s \in SUBSET S : Sized(e, s) /\ Sized(d, s)
  BY SizedSubset
<1>1. {} \in Q
  <2>1. Sized(e, {}) /\ Sized(d, {})
    BY <1>0
  <2>2. Space(e, {}) = 0 /\ Space(d, {}) = 0
    BY <2>1, SpaceStep
  <2> QED
    BY <2>2
<1>2. ASSUME NEW s \in SUBSET S, s # {}, \A x \in s : s \ {x} \in Q
      PROVE  s \in Q
  <2>1. PICK x : x \in s
    BY <1>2
  <2>2. /\ Space(e, s) = SizeOf(e[x]) + Space(e, s \ {x})
        /\ Space(d, s) = SizeOf(d[x]) + Space(d, s \ {x})
    BY <1>0, <2>1, SpaceOut
  <2>3. Space(e, s \ {x}) \in Nat /\ Space(d, s \ {x}) \in Nat
    BY <1>0, SpaceStep
  <2>4. SizeOf(e[x]) \in Nat /\ SizeOf(d[x]) \in Nat /\ SizeOf(e[x]) <= SizeOf(d[x])
    BY <2>1 DEF Sized
  <2>5. Space(e, s \ {x}) <= Space(d, s \ {x})
    BY <1>2, <2>1
  <2> QED
    BY <2>2, <2>3, <2>4, <2>5
<1>3. S \in Q
  <2> HIDE DEF Q
  <2> QED
    BY <1>1, <1>2, BySubsets DEF Sized
<1> QED
  BY <1>3

\* Entries of the same sizes have the same sum.
LEMMA SpaceSame ==
    ASSUME NEW e, NEW d, NEW S, Sized(e, S), \A x \in S : SizeOf(e[x]) = SizeOf(d[x])
    PROVE  Sized(d, S) /\ Space(e, S) = Space(d, S)
<1>1. Sized(d, S)
  BY DEF Sized
<1>2. \A x \in S : SizeOf(e[x]) <= SizeOf(d[x]) /\ SizeOf(d[x]) <= SizeOf(e[x])
  BY DEF Sized
<1>3. Space(e, S) \in Nat /\ Space(d, S) \in Nat
  BY <1>1, SpaceStep
<1>4. Space(e, S) <= Space(d, S) /\ Space(d, S) <= Space(e, S)
  BY <1>1, <1>2, SpaceGrows
<1> QED
  BY <1>1, <1>3, <1>4
----------------------------------------------------------------------------
(* Lists *)

\* A list that holds each of the chunks of S once.
ListOf(list, S) == list \in Seq(Chunks) /\ IsInjective(list) /\ ToSet(list) = S

LEMMA ListSize ==
    ASSUME NEW list, NEW S, ListOf(list, S)
    PROVE  S \in SUBSET Chunks /\ IsFiniteSet(S) /\ Cardinality(S) = Len(list)
<1> DEFINE n == Len(list)
<1>1. n \in Nat /\ DOMAIN list = 1 .. n /\ list \in [1 .. n -> Chunks]
  BY DEF ListOf
<1>2. S = {list[i] : i \in 1 .. n}
  BY <1>1 DEF ListOf, ToSet
<1>3. \A i, j \in 1 .. n : list[i] = list[j] => i = j
  BY <1>1 DEF ListOf, IsInjective
<1> HIDE DEF n
<1>4. list \in [1 .. n -> S]
  BY <1>1, <1>2
<1>5. list \in Surjection(1 .. n, S)
  BY <1>2, <1>4 DEF Surjection
<1>6. list \in Injection(1 .. n, S)
  BY <1>3, <1>4 DEF Injection, IsInjective
<1>7. IsFiniteSet(1 .. n) /\ Cardinality(1 .. n) = n
  BY <1>1, FS_Interval
<1>8. IsFiniteSet(S) /\ Cardinality(S) = n
  BY <1>5, <1>6, <1>7, FS_Surjection
<1>9. S \in SUBSET Chunks
  BY <1>1, <1>2
<1> QED
  BY <1>8, <1>9 DEF n

\* The first i members of the list, without those outside S, are L.
Filtered(L, list, S, i) ==
    /\ L \in Seq(Chunks)
    /\ \A j \in 1 .. Len(L) : \E k \in 1 .. i : L[j] = list[k] /\ list[k] \in S
    /\ \A k \in 1 .. i : list[k] \in S => \E j \in 1 .. Len(L) : L[j] = list[k]
    /\ IsInjective(list) => \A j, k \in 1 .. Len(L) : L[j] = L[k] => j = k

LEMMA FilteredStep ==
    ASSUME NEW list \in Seq(Chunks), NEW S, NEW i \in 1 .. Len(list), NEW L,
           Filtered(L, list, S, i - 1)
    PROVE  Filtered(IF list[i] \in S THEN Append(L, list[i]) ELSE L, list, S, i)
<1>0. list[i] \in Chunks /\ i \in Nat \ {0} /\ L \in Seq(Chunks) /\ Len(L) \in Nat
  BY DEF Filtered
<1>1. CASE list[i] \notin S
  <2>1. \A k \in 1 .. i - 1 : k \in 1 .. i
    BY <1>0
  <2>2. \A k \in 1 .. i : k = i \/ k \in 1 .. i - 1
    BY <1>0
  <2>3. \A j \in 1 .. Len(L) : \E k \in 1 .. i : L[j] = list[k] /\ list[k] \in S
    BY <2>1 DEF Filtered
  <2>4. \A k \in 1 .. i : list[k] \in S => \E j \in 1 .. Len(L) : L[j] = list[k]
    BY <1>1, <2>2 DEF Filtered
  <2>5. Filtered(L, list, S, i)
    BY <2>3, <2>4 DEF Filtered
  <2> QED
    BY <1>1, <2>5
<1>2. CASE list[i] \in S
  <2> DEFINE M == Append(L, list[i])
             n == Len(L)
  <2>1. M \in Seq(Chunks) /\ Len(M) = n + 1 /\ M[n + 1] = list[i]
    BY <1>0
  <2>2. \A j \in 1 .. n : M[j] = L[j]
    BY <1>0
  <2>3. n \in Nat /\ \A j \in 1 .. n + 1 : j = n + 1 \/ j \in 1 .. n
    BY <1>0
  <2>4. \A k \in 1 .. i : k = i \/ k \in 1 .. i - 1
    BY <1>0
  <2>5. /\ \A j \in 1 .. n : \E k \in 1 .. i - 1 : L[j] = list[k] /\ list[k] \in S
        /\ \A k \in 1 .. i - 1 : list[k] \in S => \E j \in 1 .. n : L[j] = list[k]
        /\ IsInjective(list) => \A j, k \in 1 .. n : L[j] = L[k] => j = k
    BY DEF Filtered
  <2> HIDE DEF M, n
  <2>6. \A j \in 1 .. n + 1 : \E k \in 1 .. i : M[j] = list[k] /\ list[k] \in S
    <3>1. 1 .. i - 1 \in SUBSET (1 .. i) /\ i \in 1 .. i
      BY <1>0
    <3>2. ASSUME NEW j \in 1 .. n
          PROVE  \E k \in 1 .. i : M[j] = list[k] /\ list[k] \in S
      <4>1. PICK k \in 1 .. i - 1 : L[j] = list[k] /\ list[k] \in S
        BY <2>5
      <4> QED
        BY <2>2, <3>1, <4>1
    <3>3. \E k \in 1 .. i : M[n + 1] = list[k] /\ list[k] \in S
      BY <1>2, <2>1, <3>1
    <3>4. ASSUME NEW j \in 1 .. n + 1
          PROVE  \E k \in 1 .. i : M[j] = list[k] /\ list[k] \in S
      <4>1. CASE j = n + 1
        BY <3>3, <4>1
      <4>2. CASE j \in 1 .. n
        BY <3>2, <4>2
      <4> QED
        BY <2>3, <4>1, <4>2
    <3> QED
      BY <3>4
  <2>7. \A k \in 1 .. i : list[k] \in S => \E j \in 1 .. n + 1 : M[j] = list[k]
    <3>1. 1 .. n \in SUBSET (1 .. n + 1) /\ n + 1 \in 1 .. n + 1
      BY <2>3
    <3>2. ASSUME NEW k \in 1 .. i - 1, list[k] \in S
          PROVE  \E j \in 1 .. n + 1 : M[j] = list[k]
      <4>1. PICK j \in 1 .. n : L[j] = list[k]
        BY <2>5, <3>2
      <4> QED
        BY <2>2, <3>1, <4>1
    <3>3. \E j \in 1 .. n + 1 : M[j] = list[i]
      BY <2>1, <3>1
    <3>4. ASSUME NEW k \in 1 .. i, list[k] \in S
          PROVE  \E j \in 1 .. n + 1 : M[j] = list[k]
      <4>1. CASE k = i
        BY <3>3, <4>1
      <4>2. CASE k \in 1 .. i - 1
        BY <3>2, <3>4, <4>2
      <4> QED
        BY <2>4, <4>1, <4>2
    <3> QED
      BY <3>4
  <2>8. ASSUME IsInjective(list), NEW j \in 1 .. n + 1, NEW k \in 1 .. n + 1, M[j] = M[k]
        PROVE  j = k
    <3>1. \A a \in 1 .. n : M[a] # list[i]
      <4> SUFFICES ASSUME NEW a \in 1 .. n, M[a] = list[i] PROVE FALSE
        OBVIOUS
      <4>1. PICK b \in 1 .. i - 1 : L[a] = list[b]
        BY <2>5
      <4>2. b \in DOMAIN list /\ i \in DOMAIN list /\ b # i /\ list[b] = list[i]
        BY <1>0, <2>2, <4>1
      <4> QED
        BY <2>8, <4>2 DEF IsInjective
    <3> QED
      BY <2>1, <2>2, <2>3, <2>5, <2>8, <3>1
  <2>9. Filtered(M, list, S, i)
    BY <2>1, <2>6, <2>7, <2>8 DEF Filtered
  <2> QED
    BY <1>2, <2>9 DEF M
<1> QED
  BY <1>1, <1>2

\* Unlinking chunks leaves the others, each as often as it was in the list.
LEMMA OnlyFilters ==
    ASSUME NEW list \in Seq(Chunks), NEW S
    PROVE  Filtered(Only(list, S), list, S, Len(list))
<1> DEFINE n == Len(list)
           step(L, i) == IF list[i] \in S THEN Append(L, list[i]) ELSE L
           P(F) == F = [i \in 0 .. n |-> IF i = 0 THEN <<>>
                                         ELSE IF list[i] \in S THEN Append(F[i - 1], list[i])
                                                               ELSE F[i - 1]]
           C == CHOOSE F : P(F)
<1>0. n \in Nat /\ list \in [1 .. n -> Chunks]
  OBVIOUS
<1>1. Only(list, S) = C[n]
  BY DEF Only
<1>2. \E F : P(F)
  <2> DEFINE T == Seq(Chunks)
             G == [p \in (1 .. n) \X T |-> step(p[2], p[1])]
  <2>1. <<>> \in T
    OBVIOUS
  <2>2. G \in [(1 .. n) \X T -> T]
    <3>1. ASSUME NEW p \in (1 .. n) \X T
          PROVE  step(p[2], p[1]) \in T
      <4>1. p[2] \in Seq(Chunks) /\ p[1] \in 1 .. n
        OBVIOUS
      <4>2. list[p[1]] \in Chunks
        BY <1>0, <4>1
      <4>3. Append(p[2], list[p[1]]) \in Seq(Chunks)
        BY <4>1, <4>2
      <4> QED
        BY <4>1, <4>3
    <3> HIDE DEF step, T, n
    <3> QED
      BY <3>1
  <2>3. PICK F : Computes(F, n, T, <<>>, G)
    <3> HIDE DEF G, T, n
    <3> QED
      BY <1>0, <2>1, <2>2, Computation
  <2>4. /\ F \in [0 .. n -> T]
        /\ F[0] = <<>>
        /\ \A i \in 1 .. n : F[i] = G[<<i, F[i - 1]>>]
    BY <2>3 DEF Computes
  <2>5. ASSUME NEW i \in 1 .. n
        PROVE  F[i] = step(F[i - 1], i)
    <3>1. i - 1 \in 0 .. n
      BY <1>0
    <3>2. <<i, F[i - 1]>> \in (1 .. n) \X T
      BY <2>4, <3>1
    <3>3. G[<<i, F[i - 1]>>] = step(F[i - 1], i)
      <4> HIDE DEF step, T
      <4> QED
        BY <3>2
    <3> QED
      BY <2>4, <3>3
  <2>6. \A i \in 0 .. n : i = 0 \/ i \in 1 .. n
    BY <1>0
  <2>7. \A i \in 0 .. n : F[i] = IF i = 0 THEN <<>> ELSE step(F[i - 1], i)
    <3> HIDE DEF step, n
    <3> QED
      BY <2>4, <2>5, <2>6
  <2>8. P(F)
    <3> HIDE DEF n, T
    <3> QED
      BY <2>4, <2>7
  <2> QED
    BY <2>8
<1>3. P(C)
  <2> HIDE DEF P
  <2> QED
    BY <1>2
<1> HIDE DEF C
<1>4. C[0] = <<>> /\ \A i \in 1 .. n : C[i] = step(C[i - 1], i)
  <2>1. /\ 0 \in 0 .. n
        /\ \A i \in 1 .. n : i \in 0 .. n /\ i # 0
    BY <1>0
  <2> HIDE DEF n
  <2> QED
    BY <1>3, <2>1
<1> DEFINE T == {i \in 0 .. n : Filtered(C[i], list, S, i)}
<1>5. 0 \in T
  <2>1. Filtered(<<>>, list, S, 0)
    BY DEF Filtered
  <2> QED
    BY <1>0, <1>4, <2>1
<1>6. ASSUME NEW i \in 1 .. n, i - 1 \in T
      PROVE  i \in T
  <2>1. Filtered(C[i - 1], list, S, i - 1)
    BY <1>6
  <2>2. Filtered(C[i], list, S, i)
    BY <1>4, <2>1, FilteredStep
  <2> QED
    BY <1>0, <2>2
<1>7. n \in T
  <2> HIDE DEF T, n
  <2> QED
    BY <1>0, <1>5, <1>6, UpTo
<1> QED
  BY <1>1, <1>7

LEMMA OnlyLists ==
    ASSUME NEW list, NEW R, ListOf(list, R), NEW S
    PROVE  ListOf(Only(list, S), R \cap S)
<1> DEFINE L == Only(list, S)
<1>1. Filtered(L, list, S, Len(list)) /\ IsInjective(list)
  BY OnlyFilters DEF ListOf
<1>2. L \in Seq(Chunks) /\ DOMAIN L = 1 .. Len(L) /\ DOMAIN list = 1 .. Len(list)
  BY <1>1 DEF Filtered, ListOf
<1>3. IsInjective(L)
  BY <1>1, <1>2 DEF Filtered, IsInjective
<1>4. ToSet(L) = R \cap S
  <2>1. R = {list[i] : i \in 1 .. Len(list)} /\ ToSet(L) = {L[i] : i \in 1 .. Len(L)}
    BY <1>2 DEF ListOf, ToSet
  <2>2. /\ \A j \in 1 .. Len(L) :
              \E k \in 1 .. Len(list) : L[j] = list[k] /\ list[k] \in S
        /\ \A k \in 1 .. Len(list) :
              list[k] \in S => \E j \in 1 .. Len(L) : L[j] = list[k]
    BY <1>1 DEF Filtered
  <2> HIDE DEF L
  <2>3. ASSUME NEW x \in ToSet(L)
        PROVE  x \in R \cap S
    <3>1. PICK j \in 1 .. Len(L) : x = L[j]
      BY <2>1
    <3>2. PICK k \in 1 .. Len(list) : L[j] = list[k] /\ list[k] \in S
      BY <2>2
    <3> QED
      BY <2>1, <3>1, <3>2
  <2>4. ASSUME NEW x \in R \cap S
        PROVE  x \in ToSet(L)
    <3>1. PICK k \in 1 .. Len(list) : x = list[k]
      BY <2>1
    <3>2. PICK j \in 1 .. Len(L) : L[j] = list[k]
      BY <2>2, <3>1
    <3> QED
      BY <2>1, <3>1, <3>2
  <2> QED
    BY <2>3, <2>4
<1> QED
  BY <1>2, <1>3, <1>4 DEF ListOf
----------------------------------------------------------------------------
(* Caches and worlds *)

Objects == [filtered : BOOLEAN, data : Values \cup {Fill, Garbage}]

Present(c) == {x \in Chunks : c.entry[x] # NoEntry}

\* Both lists hold the chunks the table finds.
Caches ==
    {c \in [entry : [Chunks -> Entries \cup {NoEntry}], lru : Seq(Chunks), mru : Seq(Chunks),
            used : Int] :
        ListOf(c.lru, Present(c)) /\ ListOf(c.mru, Present(c))}

Worlds == [cache : Caches, store : [Chunks -> Objects \cup {Absent}], faults : Nat]

Outcomes == [w : Worlds, ok : BOOLEAN]

Modified(w) == {x \in Chunks : w.cache.entry[x] # NoEntry /\ w.cache.entry[x].modified}

\* What Victims returns: the end of lru, until the rest fits.
Victimised(c, final, gone) ==
    /\ ListOf(gone, ToSet(gone))
    /\ ToSet(gone) \in SUBSET Present(c)
    /\ ListOf(SubSeq(c.lru, 1, Len(c.lru) - Len(gone)), Present(c) \ ToSet(gone))
    /\ \/ Len(c.mru) - Len(gone) <= shape.nelems /\ c.used - Space(c.entry, ToSet(gone)) <= final
       \/ Len(gone) = Len(c.lru)

LEMMA SubSeqIs ==
    ASSUME NEW s \in Seq(Chunks), NEW a \in 1 .. Len(s) + 1
    PROVE  /\ SubSeq(s, a, Len(s)) \in Seq(Chunks)
           /\ Len(SubSeq(s, a, Len(s))) = Len(s) - a + 1
           /\ \A i \in 1 .. Len(s) - a + 1 : SubSeq(s, a, Len(s))[i] = s[a + i - 1]
OBVIOUS

LEMMA VictimsAre ==
    ASSUME NEW c \in Caches, NEW final
    PROVE  Victimised(c, final, Victims(c, final))
<1> DEFINE n == Len(c.lru)
           last(k) == {c.lru[i] : i \in n - k + 1 .. n}
           enough(k) == Len(c.mru) - k <= shape.nelems /\ c.used - Space(c.entry, last(k)) <= final
           K == {i \in 0 .. n : i = n \/ enough(i)}
           m == Min(K)
           gone == Reverse(SubSeq(c.lru, n - m + 1, n))
<1>0. ListOf(c.lru, Present(c)) /\ c.lru \in Seq(Chunks) /\ n \in Nat
  BY DEF Caches
<1>1. Victims(c, final) = gone
  BY DEF Victims
<1>2. m \in 0 .. n /\ (m = n \/ enough(m))
  <2>1. K \in SUBSET Nat /\ n \in K
    <3> HIDE DEF enough, n
    <3> QED
      BY <1>0
  <2> HIDE DEF K
  <2>2. \E x \in K : \A y \in K : x <= y
    BY <2>1, NatLeast
  <2>3. \E x \in K : \A y \in K : x =< y
    BY <2>2
  <2>4. m \in K
    BY <2>3, Zenon DEF Min
  <2> HIDE DEF m
  <2> QED
    BY <2>4 DEF K
<1> HIDE DEF m
<1> DEFINE s == c.lru
<1>3. /\ Len(gone) = m
      /\ gone \in [1 .. m -> Chunks]
      /\ \A i \in 1 .. m : gone[i] = s[n - i + 1]
  <2> DEFINE u == SubSeq(s, n - m + 1, n)
  <2>1. u \in Seq(Chunks) /\ Len(u) = m /\ \A i \in 1 .. m : u[i] = s[n - m + i]
    <3> DEFINE a == n - m + 1
    <3>1. a \in 1 .. n + 1 /\ n - a + 1 = m /\ \A i \in 1 .. m : a + i - 1 = n - m + i
      BY <1>0, <1>2
    <3> HIDE DEF a
    <3>2. /\ SubSeq(s, a, n) \in Seq(Chunks)
          /\ Len(SubSeq(s, a, n)) = n - a + 1
          /\ \A i \in 1 .. n - a + 1 : SubSeq(s, a, n)[i] = s[a + i - 1]
      BY <1>0, <3>1, SubSeqIs
    <3> HIDE DEF s, n
    <3> QED
      BY <3>1, <3>2 DEF a
  <2> HIDE DEF u
  <2>2. gone = [i \in 1 .. m |-> u[(m - i) + 1]]
    BY <2>1 DEF Reverse, u
  <2>3. m \in Nat /\ \A i \in 1 .. m : (m - i) + 1 \in 1 .. m /\ (n - m) + ((m - i) + 1) = n - i + 1
    <3>1. n \in Nat /\ m \in 0 .. n
      BY <1>0, <1>2
    <3> HIDE DEF n
    <3> QED
      BY <3>1
  <2> HIDE DEF gone
  <2>4. \A i \in 1 .. m : gone[i] = s[n - i + 1]
    BY <2>1, <2>2, <2>3
  <2>5. \A i \in 1 .. m : u[(m - i) + 1] \in Chunks
    BY <2>1, <2>3
  <2>6. gone \in [1 .. m -> Chunks]
    BY <2>2, <2>5
  <2>7. Len(gone) = m
    BY <2>2, <2>3
  <2> QED
    BY <2>4, <2>6, <2>7
<1>4. gone \in Seq(Chunks) /\ DOMAIN gone = 1 .. m /\ m \in Nat
  BY <1>0, <1>2, <1>3
<1> HIDE DEF gone
<1>5. ToSet(gone) = last(m)
  <2>1. ToSet(gone) = {s[n - i + 1] : i \in 1 .. m}
    BY <1>3, <1>4 DEF ToSet
  <2>2. ASSUME NEW i \in 1 .. m
        PROVE  s[n - i + 1] \in last(m)
    <3>1. n - i + 1 \in n - m + 1 .. n
      BY <1>0, <1>2
    <3> QED
      BY <3>1
  <2>3. ASSUME NEW i \in n - m + 1 .. n
        PROVE  s[i] \in {s[n - j + 1] : j \in 1 .. m}
    <3>1. n - i + 1 \in 1 .. m /\ n - (n - i + 1) + 1 = i
      BY <1>0, <1>2
    <3> QED
      BY <3>1
  <2> QED
    BY <2>1, <2>2, <2>3
<1>6. /\ DOMAIN s = 1 .. n
      /\ \A i, j \in 1 .. n : s[i] = s[j] => i = j
      /\ Present(c) = {s[i] : i \in 1 .. n}
  BY <1>0 DEF ListOf, IsInjective, ToSet
<1>7. ListOf(gone, ToSet(gone))
  <2>1. \A i \in 1 .. m : n - i + 1 \in 1 .. n
    BY <1>0, <1>2
  <2>2. \A i, j \in 1 .. m : n - i + 1 = n - j + 1 => i = j
    BY <1>0, <1>2
  <2>3. ASSUME NEW i \in 1 .. m, NEW j \in 1 .. m, gone[i] = gone[j]
        PROVE  i = j
    <3>1. s[n - i + 1] = s[n - j + 1]
      BY <1>3, <2>3
    <3>2. n - i + 1 = n - j + 1
      <4> HIDE DEF s, n
      <4> QED
        BY <1>6, <2>1, <3>1
    <3> QED
      BY <2>2, <3>2
  <2> QED
    BY <1>4, <2>3 DEF ListOf, IsInjective
<1>8. ToSet(gone) \in SUBSET Present(c)
  <2>1. n - m + 1 .. n \in SUBSET (1 .. n)
    BY <1>0, <1>2
  <2> QED
    BY <1>5, <1>6, <2>1
<1>9. ListOf(SubSeq(s, 1, n - m), Present(c) \ ToSet(gone))
  <2> DEFINE u == SubSeq(s, 1, n - m)
  <2>1. n - m \in 0 .. n
    BY <1>0, <1>2
  <2>2. /\ u \in Seq(Chunks)
        /\ Len(u) = n - m
        /\ DOMAIN u = 1 .. n - m
        /\ \A i \in 1 .. n - m : u[i] = s[i]
    BY <1>0, <2>1
  <2> HIDE DEF u
  <2>3. IsInjective(u)
    BY <1>6, <2>1, <2>2 DEF IsInjective
  <2>4. ToSet(u) = {s[i] : i \in 1 .. n - m}
    BY <2>2 DEF ToSet
  <2>5. ASSUME NEW i \in 1 .. n
        PROVE  s[i] \in last(m) <=> i \in n - m + 1 .. n
    <3>1. n - m + 1 .. n \in SUBSET (1 .. n)
      BY <1>0, <1>2
    <3>2. last(m) = {s[j] : j \in n - m + 1 .. n}
      OBVIOUS
    <3> HIDE DEF s, n, last
    <3>3. ASSUME s[i] \in last(m)
          PROVE  i \in n - m + 1 .. n
      <4>1. PICK j \in n - m + 1 .. n : s[i] = s[j]
        BY <3>2, <3>3
      <4> QED
        BY <1>6, <3>1, <4>1
    <3> QED
      BY <3>2, <3>3
  <2>6. \A i \in 1 .. n : i \in n - m + 1 .. n <=> i \notin 1 .. n - m
    BY <1>0, <1>2
  <2>7. 1 .. n - m \in SUBSET (1 .. n)
    BY <2>1
  <2> HIDE DEF s, n
  <2>8. ToSet(u) = Present(c) \ last(m)
    <3> HIDE DEF last
    <3>1. ASSUME NEW x \in ToSet(u)
          PROVE  x \in Present(c) \ last(m)
      <4>1. PICK i \in 1 .. n - m : x = s[i]
        BY <2>4
      <4>2. i \in 1 .. n
        BY <2>7
      <4> QED
        BY <1>6, <2>5, <2>6, <4>1, <4>2
    <3>2. ASSUME NEW x \in Present(c) \ last(m)
          PROVE  x \in ToSet(u)
      <4>1. PICK i \in 1 .. n : x = s[i]
        BY <1>6
      <4> QED
        BY <2>4, <2>5, <2>6, <4>1
    <3> QED
      BY <3>1, <3>2
  <2> QED
    BY <1>5, <2>2, <2>3, <2>8 DEF ListOf, u
<1>10. \/ Len(c.mru) - m <= shape.nelems /\ c.used - Space(c.entry, ToSet(gone)) <= final
       \/ m = n
  BY <1>2, <1>5
<1> QED
  BY <1>1, <1>3, <1>7, <1>8, <1>9, <1>10 DEF Victimised

LEMMA ShapeIs ==
    ASSUME shape \in Shapes
    PROVE  /\ shape.scalar \in BOOLEAN /\ shape.filters \in BOOLEAN /\ shape.sync \in BOOLEAN
           /\ shape.fsize \in Nat \ {0}
           /\ shape.size \in Nat /\ shape.nelems \in Nat /\ shape.faults \in Nat
BY ChunkCacheAssumption

LEMMA CacheIs ==
    ASSUME NEW c \in Caches
    PROVE  /\ c = [entry |-> c.entry, lru |-> c.lru, mru |-> c.mru, used |-> c.used]
           /\ c.entry \in [Chunks -> Entries \cup {NoEntry}]
           /\ c.used \in Int
           /\ ListOf(c.lru, Present(c)) /\ ListOf(c.mru, Present(c))
           /\ \A x \in Present(c) : x \in Chunks /\ c.entry[x] \in Entries
BY DEF Caches, Present

LEMMA WorldIs ==
    ASSUME NEW w \in Worlds
    PROVE  /\ w = [cache |-> w.cache, store |-> w.store, faults |-> w.faults]
           /\ w.cache \in Caches
           /\ w.store \in [Chunks -> Objects \cup {Absent}]
           /\ w.faults \in Nat
BY DEF Worlds

LEMMA MakeCache ==
    ASSUME NEW e \in [Chunks -> Entries \cup {NoEntry}], NEW l, NEW m, NEW u \in Int,
           NEW S, S = {x \in Chunks : e[x] # NoEntry}, ListOf(l, S), ListOf(m, S)
    PROVE  /\ [entry |-> e, lru |-> l, mru |-> m, used |-> u] \in Caches
           /\ Present([entry |-> e, lru |-> l, mru |-> m, used |-> u]) = S
<1> DEFINE c == [entry |-> e, lru |-> l, mru |-> m, used |-> u]
<1>1. c.entry = e /\ c.lru = l /\ c.mru = m /\ c.used = u
  OBVIOUS
<1>2. Present(c) = S
  BY <1>1 DEF Present
<1>3. l \in Seq(Chunks) /\ m \in Seq(Chunks)
  BY DEF ListOf
<1>4. c \in [entry : [Chunks -> Entries \cup {NoEntry}], lru : Seq(Chunks), mru : Seq(Chunks),
            used : Int]
  BY <1>3
<1> HIDE DEF c
<1>5. c \in Caches
  BY <1>1, <1>2, <1>4 DEF Caches
<1> QED
  BY <1>2, <1>5 DEF c

\* Entries in the cache have a size, and it is not 0.
LEMMA EntriesSized ==
    ASSUME NEW c \in Caches, shape \in Shapes, NEW G \in SUBSET Present(c)
    PROVE  /\ Sized(c.entry, G)
           /\ Space(c.entry, G) \in Nat
           /\ G # {} => Space(c.entry, G) > 0
<1>1. IsFiniteSet(G)
  <2>1. IsFiniteSet(Present(c))
    BY CacheIs, ListSize
  <2> QED
    BY <2>1, FS_Subset
<1>2. \A x \in G : SizeOf(c.entry[x]) \in Nat \ {0}
  BY ShapeIs, CacheIs, ChunkCacheAssumption DEF SizeOf, Entries
<1>3. Sized(c.entry, G)
  BY <1>1, <1>2 DEF Sized
<1>4. ASSUME G # {}
      PROVE  Space(c.entry, G) > 0
  <2>1. PICK x : x \in G
    BY <1>4
  <2>2. Space(c.entry, G) = SizeOf(c.entry[x]) + Space(c.entry, G \ {x})
    BY <1>3, <2>1, SpaceOut
  <2>3. Space(c.entry, G \ {x}) \in Nat
    <3>1. Sized(c.entry, G \ {x})
      BY <1>3, SizedSubset
    <3> QED
      BY <3>1, SpaceStep
  <2> QED
    BY <1>2, <2>1, <2>2, <2>3
<1> QED
  BY <1>3, <1>4, SpaceStep

\* The chunks of G leave the cache; those of F are lost, the other modified ones
\* go to the store.
Evicts(w, o, G, F) ==
    /\ o \in Outcomes
    /\ G \in SUBSET Present(w.cache)
    /\ F \in SUBSET (G \cap Modified(w)) /\ IsFiniteSet(F)
    /\ Cardinality(F) <= w.faults - o.w.faults
    /\ o.w.cache.entry = [x \in Chunks |-> IF x \in G THEN NoEntry ELSE w.cache.entry[x]]
    /\ o.w.store = [x \in Chunks |-> IF x \in (G \cap Modified(w)) \ F
                                     THEN Object(w.cache.entry[x]) ELSE w.store[x]]

\* Their space is free, and what is left fits.
Frees(w, o, G, final) ==
    /\ o.w.cache.used = w.cache.used - Space(w.cache.entry, G)
    /\ \/ o.w.cache.mru = <<>>
       \/ Len(o.w.cache.mru) <= shape.nelems /\ o.w.cache.used <= final
       \/ w.cache.used = 0 /\ o.w = w
    /\ Len(o.w.cache.mru) <= Len(w.cache.mru)

LEMMA ObjectIs ==
    ASSUME shape \in Shapes, NEW e \in Entries
    PROVE  Encoded(e) \in Entries /\ Object(e) \in Objects
BY ShapeIs DEF Entries, Encoded, Object, Objects

LEMMA ModifiedIs ==
    ASSUME NEW w \in Worlds
    PROVE  /\ Modified(w) = {x \in Present(w.cache) : w.cache.entry[x].modified}
           /\ \A x \in Modified(w) : x \in Chunks /\ w.cache.entry[x] \in Entries
<1>1. w.cache \in Caches
  BY WorldIs
<1> QED
  BY <1>1, CacheIs DEF Modified, Present

LEMMA EvictEvicts ==
    ASSUME NEW w \in Worlds, NEW final, shape \in Shapes,
           NEW gone, Victimised(w.cache, final, gone),
           NEW F \in SUBSET (ToSet(gone) \cap Modified(w)), IsFiniteSet(F),
           Cardinality(F) <= w.faults,
           NEW ok \in BOOLEAN
    PROVE  LET o == [w |-> Evict(w, gone, F), ok |-> ok]
           IN  Evicts(w, o, ToSet(gone), F) /\ Frees(w, o, ToSet(gone), final)
<1> DEFINE c == w.cache
           G == ToSet(gone)
           v == Evict(w, gone, F)
           o == [w |-> v, ok |-> ok]
           entry == [x \in Chunks |-> IF x \in G THEN NoEntry ELSE c.entry[x]]
           lru == SubSeq(c.lru, 1, Len(c.lru) - Len(gone))
           mru == Only(c.mru, Chunks \ G)
           used == c.used - Space(c.entry, G)
           written == {x \in G : c.entry[x].modified} \ F
           st == [x \in Chunks |-> IF x \in written THEN Object(c.entry[x]) ELSE w.store[x]]
<1>0. /\ c \in Caches /\ w.store \in [Chunks -> Objects \cup {Absent}] /\ w.faults \in Nat
      /\ c.entry \in [Chunks -> Entries \cup {NoEntry}] /\ c.used \in Int
      /\ ListOf(c.lru, Present(c)) /\ ListOf(c.mru, Present(c))
  BY WorldIs, CacheIs
<1>1. v = [cache |-> [entry |-> entry, lru |-> lru, mru |-> mru, used |-> used],
           store |-> st, faults |-> w.faults - Cardinality(F)]
  BY DEF Evict
<1> HIDE DEF v
<1>2. G \in SUBSET Present(c) /\ ListOf(gone, G) /\ ListOf(lru, Present(c) \ G)
  BY DEF Victimised
<1>3. written = (G \cap Modified(w)) \ F
  BY <1>2, ModifiedIs
<1>4. Space(c.entry, G) \in Nat
  BY <1>0, <1>2, EntriesSized
<1>5. ListOf(mru, Present(c) \ G)
  <2>1. ListOf(mru, Present(c) \cap (Chunks \ G))
    BY <1>0, OnlyLists
  <2>2. Present(c) \cap (Chunks \ G) = Present(c) \ G
    BY DEF Present
  <2> HIDE DEF mru
  <2> QED
    BY <2>1, <2>2
<1>6. entry \in [Chunks -> Entries \cup {NoEntry}]
  BY <1>0
<1>7. Present(c) \ G = {x \in Chunks : entry[x] # NoEntry}
  BY DEF Present
<1>8. used \in Int
  BY <1>0, <1>4
<1> DEFINE d == [entry |-> entry, lru |-> lru, mru |-> mru, used |-> used]
<1>9. d \in Caches /\ Present(d) = Present(c) \ G
  <2> HIDE DEF entry, lru, mru, used, G, c
  <2> QED
    BY <1>2, <1>5, <1>6, <1>7, <1>8, MakeCache
<1>10. st \in [Chunks -> Objects \cup {Absent}]
  <2>1. \A x \in written : Object(c.entry[x]) \in Objects
    BY <1>3, ModifiedIs, ObjectIs
  <2> HIDE DEF written
  <2> QED
    BY <1>0, <2>1
<1>11. Cardinality(F) \in Nat
  BY FS_CardinalityType
<1>12. v.cache = d /\ v.store = st /\ v.faults = w.faults - Cardinality(F)
  BY <1>1
<1>13. d.entry = entry /\ d.mru = mru /\ d.used = used
  OBVIOUS
<1>14. o \in Outcomes
  <2>1. w.faults - Cardinality(F) \in Nat
    BY <1>0, <1>11
  <2>2. v \in Worlds
    <3> HIDE DEF d, st
    <3> QED
      BY <1>1, <1>9, <1>10, <2>1 DEF Worlds, d
  <2> QED
    BY <2>2 DEF Outcomes
<1>15. o.w = v
  OBVIOUS
<1> HIDE DEF o
<1>16. Evicts(w, o, G, F)
  <2>1. Cardinality(F) <= w.faults - o.w.faults
    BY <1>0, <1>11, <1>12, <1>15
  <2>2. o.w.cache.entry = [x \in Chunks |-> IF x \in G THEN NoEntry ELSE w.cache.entry[x]]
    BY <1>12, <1>13, <1>15
  <2>3. o.w.store = [x \in Chunks |-> IF x \in (G \cap Modified(w)) \ F
                                      THEN Object(w.cache.entry[x]) ELSE w.store[x]]
    BY <1>3, <1>12, <1>15
  <2> HIDE DEF G
  <2> QED
    BY <1>2, <1>14, <2>1, <2>2, <2>3 DEF Evicts, G
<1>17. Frees(w, o, G, final)
  <2>1. /\ IsFiniteSet(Present(c)) /\ Cardinality(Present(c)) = Len(c.mru)
        /\ Cardinality(Present(c)) = Len(c.lru)
    BY <1>0, ListSize
  <2>2. Cardinality(G) = Len(gone) /\ IsFiniteSet(G)
    BY <1>2, ListSize
  <2>3. Cardinality(Present(c) \ G) = Len(mru) /\ IsFiniteSet(Present(c) \ G)
    BY <1>5, ListSize
  <2>4. Cardinality(Present(c) \ G) = Cardinality(Present(c)) - Cardinality(G)
    <3>1. Cardinality(Present(c) \ G) = Cardinality(Present(c)) - Cardinality(Present(c) \cap G)
      BY <2>1, FS_Difference
    <3>2. Present(c) \cap G = G
      BY <1>2
    <3> QED
      BY <3>1, <3>2
  <2>5. mru \in Seq(Chunks) /\ Len(gone) \in Nat /\ Len(c.mru) \in Nat
    BY <1>0, <1>2, <1>5 DEF ListOf
  <2>6. Len(mru) = Len(c.mru) - Len(gone) /\ Len(c.mru) = Len(c.lru)
    BY <2>1, <2>2, <2>3, <2>4
  <2>7. \/ Len(c.mru) - Len(gone) <= shape.nelems /\ used <= final
        \/ Len(gone) = Len(c.lru)
    BY DEF Victimised
  <2>8. o.w.cache.mru = mru /\ o.w.cache.used = used
    BY <1>12, <1>13, <1>15
  <2>9. Len(mru) <= Len(c.mru)
    <3> HIDE DEF mru, c
    <3> QED
      BY <2>5, <2>6
  <2>10. Len(gone) = Len(c.lru) => mru = <<>>
    <3> HIDE DEF mru, c
    <3>1. Len(gone) = Len(c.lru) => Len(mru) = 0
      BY <2>5, <2>6
    <3> QED
      BY <2>5, <3>1
  <2> HIDE DEF mru
  <2> QED
    BY <2>6, <2>7, <2>8, <2>9, <2>10 DEF Frees
<1> QED
  BY <1>16, <1>17 DEF o, v

\* Nothing leaves the cache.
LEMMA EvictsNone ==
    ASSUME NEW w \in Worlds, NEW ok \in BOOLEAN
    PROVE  LET o == [w |-> w, ok |-> ok]
           IN  /\ Evicts(w, o, {}, {})
               /\ shape \in Shapes => \A final : w.cache.used = 0 => Frees(w, o, {}, final)
<1> DEFINE o == [w |-> w, ok |-> ok]
<1>0. /\ w.cache \in Caches /\ w.store \in [Chunks -> Objects \cup {Absent}] /\ w.faults \in Nat
      /\ w.cache.entry \in [Chunks -> Entries \cup {NoEntry}] /\ w.cache.used \in Int
  BY WorldIs, CacheIs
<1>1. o \in Outcomes /\ o.w = w
  BY DEF Outcomes
<1> HIDE DEF o
<1>2. IsFiniteSet({}) /\ Cardinality({}) = 0
  BY FS_EmptySet
<1>3. w.cache.entry = [x \in Chunks |-> IF x \in {} THEN NoEntry ELSE w.cache.entry[x]]
  BY <1>0
<1>4. w.store = [x \in Chunks |-> IF x \in ({} \cap Modified(w)) \ {}
                                  THEN Object(w.cache.entry[x]) ELSE w.store[x]]
  BY <1>0
<1>5. Evicts(w, o, {}, {})
  <2>1. Cardinality({}) <= w.faults - o.w.faults
    BY <1>0, <1>1, <1>2
  <2> QED
    BY <1>1, <1>2, <1>3, <1>4, <2>1 DEF Evicts
<1>6. ASSUME shape \in Shapes, NEW final, w.cache.used = 0
      PROVE  Frees(w, o, {}, final)
  <2>1. Space(w.cache.entry, {}) = 0
    <3>1. Sized(w.cache.entry, {})
      BY <1>2 DEF Sized
    <3> QED
      BY <3>1, SpaceStep
  <2>2. Len(w.cache.mru) \in Nat
    BY <1>0, CacheIs DEF ListOf
  <2> QED
    BY <1>0, <1>1, <1>6, <2>1, <2>2 DEF Frees
<1> QED
  BY <1>5, <1>6 DEF o

\* constraincache
LEMMA Constrains ==
    ASSUME NEW w \in Worlds, shape \in Shapes, NEW final, NEW o \in constraincache(w, final)
    PROVE  \E G, F : Evicts(w, o, G, F) /\ Frees(w, o, G, final) /\ (F = {} => o.ok)
<1>1. CASE w.cache.used = 0
  <2>1. o = [w |-> w, ok |-> TRUE]
    BY <1>1 DEF constraincache
  <2>2. Evicts(w, o, {}, {}) /\ Frees(w, o, {}, final)
    BY <1>1, <2>1, EvictsNone
  <2>3. o.ok
    BY <2>1
  <2> QED
    BY <2>2, <2>3
<1>2. CASE w.cache.used # 0
  <2> DEFINE gone == Victims(w.cache, final)
             D == {x \in ToSet(gone) : w.cache.entry[x].modified}
  <2>0. w.cache \in Caches /\ w.faults \in Nat
    BY WorldIs
  <2>1. PICK F \in SUBSET D :
          /\ Cardinality(F) <= w.faults
          /\ o = [w |-> Evict(w, gone, F), ok |-> gone = <<>> \/ Last(gone) \notin F]
    BY <1>2 DEF constraincache
  <2>2. Victimised(w.cache, final, gone)
    BY <2>0, VictimsAre
  <2> HIDE DEF gone
  <2>3. ListOf(gone, ToSet(gone)) /\ ToSet(gone) \in SUBSET Present(w.cache)
    BY <2>2 DEF Victimised
  <2>4. IsFiniteSet(ToSet(gone))
    BY <2>3, ListSize
  <2>5. ToSet(gone) \cap D = ToSet(gone) \cap Modified(w)
    BY <2>3, ModifiedIs
  <2>6. F \in SUBSET (ToSet(gone) \cap Modified(w))
    BY <2>5
  <2>7. IsFiniteSet(F)
    BY <2>4, <2>6, FS_Subset
  <2> DEFINE ok == gone = <<>> \/ Last(gone) \notin F
  <2>8. ok \in BOOLEAN
    OBVIOUS
  <2>9. o = [w |-> Evict(w, gone, F), ok |-> ok]
    BY <2>1
  <2>10. F = {} => o.ok
    BY <2>9
  <2> HIDE DEF ok
  <2>11. Evicts(w, o, ToSet(gone), F) /\ Frees(w, o, ToSet(gone), final)
    BY <2>1, <2>2, <2>6, <2>7, <2>8, <2>9, EvictEvicts
  <2> QED
    BY <2>10, <2>11
<1> QED
  BY <1>1, <1>2

\* More space is counted.
Counts(o, k) == [o EXCEPT !.w.cache.used = @ + k]

LEMMA CountsIs ==
    ASSUME NEW o \in Outcomes, NEW k \in Int
    PROVE  /\ Counts(o, k) \in Outcomes
           /\ Counts(o, k).ok = o.ok
           /\ Counts(o, k).w.store = o.w.store /\ Counts(o, k).w.faults = o.w.faults
           /\ Counts(o, k).w.cache.entry = o.w.cache.entry
           /\ Counts(o, k).w.cache.mru = o.w.cache.mru
           /\ Counts(o, k).w.cache.used = o.w.cache.used + k
<1> DEFINE c == o.w.cache
           d == [c EXCEPT !.used = @ + k]
<1>1. o.w \in Worlds /\ o.ok \in BOOLEAN /\ o = [w |-> o.w, ok |-> o.ok]
  BY DEF Outcomes
<1>2. c \in Caches /\ o.w = [cache |-> c, store |-> o.w.store, faults |-> o.w.faults]
  BY <1>1, WorldIs
<1>3. c = [entry |-> c.entry, lru |-> c.lru, mru |-> c.mru, used |-> c.used]
  BY <1>2, CacheIs
<1>4. d = [entry |-> c.entry, lru |-> c.lru, mru |-> c.mru, used |-> c.used + k]
  BY <1>3
<1>5. d \in Caches
  <2>1. c.used + k \in Int /\ c.entry \in [Chunks -> Entries \cup {NoEntry}]
    BY <1>2, CacheIs
  <2>2. ListOf(c.lru, Present(c)) /\ ListOf(c.mru, Present(c))
    BY <1>2, CacheIs
  <2>3. Present(c) = {x \in Chunks : c.entry[x] # NoEntry}
    BY DEF Present
  <2> HIDE DEF d, c
  <2> QED
    BY <1>4, <2>1, <2>2, <2>3, MakeCache
<1>6. Counts(o, k) = [w |-> [cache |-> d, store |-> o.w.store, faults |-> o.w.faults],
                      ok |-> o.ok]
  <2> DEFINE u == [o.w EXCEPT !.cache = d]
  <2>1. u = [cache |-> d, store |-> o.w.store, faults |-> o.w.faults]
    <3> HIDE DEF d, c
    <3> QED
      BY <1>2
  <2>2. Counts(o, k) = [o EXCEPT !.w = u]
    BY DEF Counts
  <2> HIDE DEF u
  <2>3. [o EXCEPT !.w = u] = [w |-> u, ok |-> o.ok]
    BY <1>1
  <2> QED
    BY <2>1, <2>2, <2>3
<1> HIDE DEF d
<1>7. d.entry = c.entry /\ d.mru = c.mru /\ d.used = c.used + k
  <2> HIDE DEF c
  <2> QED
    BY <1>4
<1>8. [cache |-> d, store |-> o.w.store, faults |-> o.w.faults] \in Worlds
  BY <1>1, <1>5, WorldIs DEF Worlds
<1> QED
  BY <1>1, <1>6, <1>7, <1>8 DEF Outcomes

LEMMA FaultIs ==
    ASSUME NEW w \in Worlds, w.faults > 0
    PROVE  /\ Fault(w) \in Outcomes /\ ~Fault(w).ok
           /\ Fault(w).w.store = w.store /\ Fault(w).w.cache = w.cache
           /\ Fault(w).w.faults = w.faults - 1
<1>1. /\ w = [cache |-> w.cache, store |-> w.store, faults |-> w.faults]
      /\ w.faults \in Nat
  BY WorldIs
<1>2. Fault(w) = [w |-> [cache |-> w.cache, store |-> w.store, faults |-> w.faults - 1],
                  ok |-> FALSE]
  <2> DEFINE k == w.faults - 1
  <2>1. Fault(w) = [w |-> [w EXCEPT !.faults = k], ok |-> FALSE]
    BY DEF Fault
  <2> HIDE DEF k
  <2>2. [w EXCEPT !.faults = k] = [cache |-> w.cache, store |-> w.store, faults |-> k]
    BY <1>1
  <2> QED
    BY <2>1, <2>2 DEF k
<1>3. [cache |-> w.cache, store |-> w.store, faults |-> w.faults - 1] \in Worlds
  <2>1. w.faults - 1 \in Nat
    BY <1>1
  <2> QED
    BY <2>1, WorldIs DEF Worlds
<1> QED
  BY <1>2, <1>3 DEF Outcomes

\* Evictions one after the other, errors and counting in between.
LEMMA EvictsThen ==
    ASSUME NEW w \in Worlds, NEW o, NEW G, NEW F, Evicts(w, o, G, F)
    PROVE  /\ o \in Outcomes /\ o.w \in Worlds /\ o.ok \in BOOLEAN
           /\ Present(o.w.cache) = Present(w.cache) \ G
           /\ o.w.faults > 0 => Evicts(w, Fault(o.w), G, F)
           /\ \A k \in Int : Evicts(w, Counts(o, k), G, F)
<1>0. o \in Outcomes /\ o.w \in Worlds /\ o.ok \in BOOLEAN
  BY DEF Evicts, Outcomes
<1>1. Present(o.w.cache) = Present(w.cache) \ G
  BY DEF Evicts, Present
<1>2. w.faults \in Nat /\ o.w.faults \in Nat /\ Cardinality(F) \in Nat
  BY <1>0, WorldIs, FS_CardinalityType DEF Evicts
<1>3. ASSUME o.w.faults > 0
      PROVE  Evicts(w, Fault(o.w), G, F)
  <2>1. /\ Fault(o.w) \in Outcomes
        /\ Fault(o.w).w.store = o.w.store /\ Fault(o.w).w.cache = o.w.cache
        /\ Fault(o.w).w.faults = o.w.faults - 1
    BY <1>0, <1>3, FaultIs
  <2>2. Cardinality(F) <= w.faults - Fault(o.w).w.faults
    <3>1. Cardinality(F) <= w.faults - o.w.faults
      BY DEF Evicts
    <3> QED
      BY <1>2, <2>1, <3>1
  <2> QED
    BY <2>1, <2>2 DEF Evicts
<1>4. ASSUME NEW k \in Int
      PROVE  Evicts(w, Counts(o, k), G, F)
  <2>1. /\ Counts(o, k) \in Outcomes
        /\ Counts(o, k).w.store = o.w.store /\ Counts(o, k).w.faults = o.w.faults
        /\ Counts(o, k).w.cache.entry = o.w.cache.entry
    BY <1>0, CountsIs
  <2> QED
    BY <2>1 DEF Evicts
<1> QED
  BY <1>0, <1>1, <1>3, <1>4

LEMMA EvictsTwice ==
    ASSUME NEW w \in Worlds,
           NEW o, NEW G, NEW F, Evicts(w, o, G, F),
           NEW v, NEW H, NEW E, Evicts(o.w, v, H, E)
    PROVE  Evicts(w, v, G \cup H, F \cup E)
<1> DEFINE e == w.cache.entry
           M == Modified(w)
<1>0. /\ o.w \in Worlds /\ v \in Outcomes /\ v.w \in Worlds
      /\ Present(o.w.cache) = Present(w.cache) \ G
  <2>1. o.w \in Worlds /\ Present(o.w.cache) = Present(w.cache) \ G
    BY EvictsThen
  <2>2. v \in Outcomes
    BY DEF Evicts
  <2> QED
    BY <2>1, <2>2 DEF Outcomes
<1>1. /\ o.w.cache.entry = [x \in Chunks |-> IF x \in G THEN NoEntry ELSE e[x]]
      /\ o.w.store = [x \in Chunks |-> IF x \in (G \cap M) \ F THEN Object(e[x]) ELSE w.store[x]]
      /\ v.w.cache.entry = [x \in Chunks |-> IF x \in H THEN NoEntry ELSE o.w.cache.entry[x]]
      /\ v.w.store = [x \in Chunks |-> IF x \in (H \cap Modified(o.w)) \ E
                                       THEN Object(o.w.cache.entry[x]) ELSE o.w.store[x]]
      /\ G \in SUBSET Present(w.cache) /\ H \in SUBSET Present(o.w.cache)
      /\ F \in SUBSET (G \cap M) /\ E \in SUBSET (H \cap Modified(o.w))
      /\ IsFiniteSet(F) /\ IsFiniteSet(E)
      /\ Cardinality(F) <= w.faults - o.w.faults
      /\ Cardinality(E) <= o.w.faults - v.w.faults
  BY DEF Evicts
<1>2. Modified(o.w) = M \ G
  BY <1>1 DEF Modified
<1>3. G \cap H = {} /\ H \in SUBSET Present(w.cache) /\ F \cap E = {}
  BY <1>0, <1>1
<1>4. G \cup H \in SUBSET Present(w.cache)
  BY <1>1, <1>3
<1>5. F \cup E \in SUBSET ((G \cup H) \cap M)
  BY <1>1, <1>2
<1>6. v.w.cache.entry = [x \in Chunks |-> IF x \in G \cup H THEN NoEntry ELSE e[x]]
  BY <1>1
<1>7. v.w.store = [x \in Chunks |-> IF x \in ((G \cup H) \cap M) \ (F \cup E)
                                    THEN Object(e[x]) ELSE w.store[x]]
  <2>1. ASSUME NEW x \in Chunks
        PROVE  v.w.store[x] = IF x \in ((G \cup H) \cap M) \ (F \cup E)
                              THEN Object(e[x]) ELSE w.store[x]
    <3>1. CASE x \in H
      <4>1. x \notin G /\ x \notin F /\ o.w.cache.entry[x] = e[x] /\ o.w.store[x] = w.store[x]
        BY <1>1, <1>3, <3>1
      <4>2. x \in (H \cap Modified(o.w)) \ E <=> x \in ((G \cup H) \cap M) \ (F \cup E)
        BY <1>2, <3>1, <4>1
      <4> QED
        BY <1>1, <4>1, <4>2
    <3>2. CASE x \notin H
      <4>1. x \notin E /\ v.w.store[x] = o.w.store[x]
        BY <1>1, <3>2
      <4>2. x \in (G \cap M) \ F <=> x \in ((G \cup H) \cap M) \ (F \cup E)
        BY <3>2, <4>1
      <4> QED
        BY <1>1, <4>1, <4>2
    <3> QED
      BY <3>1, <3>2
  <2> QED
    BY <1>1, <2>1
<1>8. IsFiniteSet(F \cup E) /\ Cardinality(F \cup E) <= w.faults - v.w.faults
  <2>1. w.faults \in Nat /\ o.w.faults \in Nat /\ v.w.faults \in Nat
    BY <1>0, WorldIs
  <2>2. Cardinality(F) \in Nat /\ Cardinality(E) \in Nat
    BY <1>1, FS_CardinalityType
  <2>3. IsFiniteSet(F \cup E)
    BY <1>1, FS_Union
  <2>4. Cardinality(F \cup E) = Cardinality(F) + Cardinality(E)
    <3>1. Cardinality(F \cup E) = Cardinality(F) + Cardinality(E) - Cardinality(F \cap E)
      BY <1>1, FS_Union
    <3>2. Cardinality(F \cap E) = 0
      BY <1>3, FS_EmptySet
    <3> QED
      BY <2>2, <3>1, <3>2
  <2> QED
    BY <1>1, <2>1, <2>2, <2>3, <2>4
<1> QED
  BY <1>0, <1>4, <1>5, <1>6, <1>7, <1>8 DEF Evicts

\* The space that is counted beyond that of the entries.
Spare(w) == w.cache.used - Space(w.cache.entry, Present(w.cache))

LEMMA SpareInt ==
    ASSUME NEW w \in Worlds, shape \in Shapes
    PROVE  /\ Space(w.cache.entry, Present(w.cache)) \in Nat
           /\ w.cache.used \in Int /\ Spare(w) \in Int
           /\ w.cache.mru = <<>> <=> Present(w.cache) = {}
           /\ Len(w.cache.mru) \in Nat
           /\ Present(w.cache) # {} => Space(w.cache.entry, Present(w.cache)) > 0
<1>1. w.cache \in Caches
  BY WorldIs
<1>2. w.cache.used \in Int /\ ListOf(w.cache.mru, Present(w.cache))
  BY <1>1, CacheIs
<1>3. /\ Space(w.cache.entry, Present(w.cache)) \in Nat
      /\ Present(w.cache) # {} => Space(w.cache.entry, Present(w.cache)) > 0
  BY <1>1, EntriesSized
<1>4. w.cache.mru = <<>> <=> Present(w.cache) = {}
  <2>1. w.cache.mru \in Seq(Chunks) /\ Cardinality(Present(w.cache)) = Len(w.cache.mru)
        /\ IsFiniteSet(Present(w.cache))
    BY <1>2, ListSize DEF ListOf
  <2>2. Cardinality(Present(w.cache)) = 0 <=> Present(w.cache) = {}
    BY <2>1, FS_EmptySet
  <2>3. Len(w.cache.mru) = 0 <=> w.cache.mru = <<>>
    BY <2>1
  <2> QED
    BY <2>1, <2>2, <2>3
<1>5. Len(w.cache.mru) \in Nat
  BY <1>2 DEF ListOf
<1> QED
  BY <1>2, <1>3, <1>4, <1>5 DEF Spare

LEMMA FreesSpare ==
    ASSUME NEW w \in Worlds, shape \in Shapes, NEW o, NEW G, NEW F, NEW final,
           Evicts(w, o, G, F), Frees(w, o, G, final)
    PROVE  Spare(o.w) = Spare(w) /\ o.w.cache.used <= w.cache.used
<1> DEFINE e == w.cache.entry
           d == o.w.cache.entry
           P == Present(w.cache)
<1>0. /\ w.cache \in Caches /\ o.w \in Worlds /\ o.w.cache \in Caches
      /\ Present(o.w.cache) = P \ G /\ G \in SUBSET P
  BY WorldIs, EvictsThen DEF Evicts
<1>1. Sized(e, P)
  BY <1>0, EntriesSized
<1>2. P = (P \ G) \cup G /\ (P \ G) \cap G = {}
  BY <1>0
<1> HIDE DEF P
<1>3. Space(e, P) = Space(e, P \ G) + Space(e, G)
  <2>1. Sized(e, (P \ G) \cup G)
    BY <1>1, <1>2
  <2>2. Space(e, (P \ G) \cup G) = Space(e, P \ G) + Space(e, G)
    BY <1>2, <2>1, SpaceSplit
  <2> QED
    BY <1>2, <2>2
<1>4. Space(e, P \ G) = Space(d, P \ G)
  <2>1. Sized(e, P \ G)
    BY <1>1, SizedSubset
  <2>2. \A x \in P \ G : d[x] = e[x]
    BY DEF Evicts, P, Present
  <2>3. \A x \in P \ G : SizeOf(e[x]) = SizeOf(d[x])
    BY <2>2
  <2> HIDE DEF e, d
  <2> QED
    BY <2>1, <2>3, SpaceSame
<1>5. Space(e, G) \in Nat /\ Space(e, P \ G) \in Nat
  BY <1>0, EntriesSized DEF P
<1>6. w.cache.used \in Int
  BY <1>0, CacheIs
<1>7. o.w.cache.used = w.cache.used - Space(e, G)
  BY DEF Frees
<1> QED
  BY <1>0, <1>3, <1>4, <1>5, <1>6, <1>7 DEF Spare, P
----------------------------------------------------------------------------
(* NCZ_read_cache_chunk *)

\* Counted is at least the space of the entries, and the limits hold up to the
\* chunk put in last.
Sound(w) ==
    /\ Spare(w) >= 0
    /\ Len(w.cache.mru) <= shape.nelems + 1
    /\ w.cache.used <= shape.size \/ Len(w.cache.mru) <= 1

LEMMA FetchedIs ==
    ASSUME NEW o \in Objects \cup {Absent}, shape \in Shapes
    PROVE  /\ Fetched(o) \in Entries /\ ~Fetched(o).filtered
           /\ SizeOf(Fetched(o)) = ChunkSize
           /\ NoWrite => ~Fetched(o).modified
           /\ Fetched(o).data = IF o = Absent THEN Fill ELSE Decoded(o)
<1>1. CASE o = Absent
  <2>1. Fetched(o) = [data |-> Fill, filtered |-> FALSE, modified |-> ~NoWrite]
    BY <1>1 DEF Fetched
  <2> DEFINE b == ~NoWrite
  <2>2. b \in BOOLEAN
    OBVIOUS
  <2>3. Fetched(o) = [data |-> Fill, filtered |-> FALSE, modified |-> b]
    BY <2>1
  <2>4. NoWrite => ~b
    OBVIOUS
  <2> HIDE DEF b
  <2>5. Fetched(o) \in Entries
    BY <2>2, <2>3 DEF Entries
  <2> QED
    BY <1>1, <2>3, <2>4, <2>5 DEF SizeOf
<1>2. CASE o # Absent
  <2>1. Fetched(o) = [data |-> Decoded(o), filtered |-> FALSE, modified |-> FALSE]
    BY <1>2 DEF Fetched
  <2>2. Decoded(o) \in Values \cup {Fill, Garbage}
    BY <1>2 DEF Decoded, Objects
  <2>3. Fetched(o) \in Entries
    BY <2>1, <2>2 DEF Entries
  <2> QED
    BY <1>2, <2>1, <2>3 DEF SizeOf
<1> QED
  BY <1>1, <1>2

LEMMA GetChunk ==
    ASSUME NEW w \in Worlds, shape \in Shapes, NEW c \in Chunks, NEW g \in get_chunk(w, c)
    PROVE  \E G, F :
              /\ Evicts(w, g, G, F)
              /\ Spare(g.w) = Spare(w) + (IF g.ok THEN ChunkSize ELSE 0)
              /\ ~g.ok => g.w.cache.used <= w.cache.used
              /\ Len(g.w.cache.mru) <= Len(w.cache.mru)
<1> DEFINE k == SizeOf(Fetched(w.store[c]))
           final == IF w.cache.used > SizeInStore(w.store[c])
                    THEN w.cache.used - SizeInStore(w.store[c]) ELSE 0
<1>0. /\ k = ChunkSize /\ ChunkSize \in Nat
      /\ w.cache.used \in Int /\ Spare(w) \in Int /\ Len(w.cache.mru) \in Nat
  <2>1. w.store[c] \in Objects \cup {Absent}
    BY WorldIs
  <2>2. k = ChunkSize
    BY <2>1, FetchedIs
  <2> HIDE DEF k
  <2> QED
    BY <2>2, SpareInt, ChunkCacheAssumption
<1> HIDE DEF final
<1>1. \/ w.faults > 0 /\ g = Fault(w)
      \/ \E o \in constraincache(w, final) :
            \/ ~o.ok /\ g = o
            \/ o.ok /\ g = Counts(o, k)
            \/ o.ok /\ o.w.faults > 0 /\ g = Fault(o.w)
  BY DEF get_chunk, makeroom, Counts, final
<1> HIDE DEF k
<1>2. CASE w.faults > 0 /\ g = Fault(w)
  <2> DEFINE o == [w |-> w, ok |-> TRUE]
  <2>1. Evicts(w, o, {}, {}) /\ o.w = w
    BY EvictsNone
  <2> HIDE DEF o
  <2>2. Evicts(w, g, {}, {})
    BY <1>2, <2>1, EvictsThen
  <2>3. ~g.ok /\ g.w.cache = w.cache
    BY <1>2, FaultIs
  <2>4. Spare(g.w) = Spare(w)
    BY <2>3 DEF Spare
  <2> QED
    BY <1>0, <2>2, <2>3, <2>4
<1>3. ASSUME NEW o \in constraincache(w, final),
             \/ ~o.ok /\ g = o
             \/ o.ok /\ g = Counts(o, k)
             \/ o.ok /\ o.w.faults > 0 /\ g = Fault(o.w)
      PROVE  \E G, F :
              /\ Evicts(w, g, G, F)
              /\ Spare(g.w) = Spare(w) + (IF g.ok THEN ChunkSize ELSE 0)
              /\ ~g.ok => g.w.cache.used <= w.cache.used
              /\ Len(g.w.cache.mru) <= Len(w.cache.mru)
  <2>1. PICK G, F : Evicts(w, o, G, F) /\ Frees(w, o, G, final)
    BY Constrains
  <2>2. Spare(o.w) = Spare(w) /\ o.w.cache.used <= w.cache.used
    BY <2>1, FreesSpare
  <2>3. Len(o.w.cache.mru) <= Len(w.cache.mru)
    BY <2>1 DEF Frees
  <2>4. o \in Outcomes /\ o.w \in Worlds
    BY <2>1, EvictsThen
  <2>5. CASE ~o.ok /\ g = o
    BY <1>0, <2>1, <2>2, <2>3, <2>5
  <2>6. CASE o.ok /\ g = Counts(o, k)
    <3>1. Evicts(w, g, G, F)
      BY <1>0, <2>1, <2>6, EvictsThen
    <3>2. /\ g.ok = o.ok /\ g.w.cache.entry = o.w.cache.entry /\ g.w.cache.mru = o.w.cache.mru
          /\ g.w.cache.used = o.w.cache.used + k
      <4>1. k \in Int
        BY <1>0
      <4>2. /\ Counts(o, k).ok = o.ok /\ Counts(o, k).w.cache.entry = o.w.cache.entry
            /\ Counts(o, k).w.cache.mru = o.w.cache.mru
            /\ Counts(o, k).w.cache.used = o.w.cache.used + k
        BY <2>4, <4>1, CountsIs
      <4> QED
        BY <2>6, <4>2
    <3>3. Present(g.w.cache) = Present(o.w.cache)
      BY <3>2 DEF Present
    <3>4. /\ Space(o.w.cache.entry, Present(o.w.cache)) \in Nat
          /\ o.w.cache.used \in Int
      BY <2>4, SpareInt
    <3>5. Spare(g.w) = Spare(o.w) + k
      BY <1>0, <3>2, <3>3, <3>4 DEF Spare
    <3> QED
      BY <1>0, <2>2, <2>3, <2>6, <3>1, <3>2, <3>5
  <2>7. CASE o.ok /\ o.w.faults > 0 /\ g = Fault(o.w)
    <3>1. Evicts(w, g, G, F)
      BY <2>1, <2>7, EvictsThen
    <3>2. ~g.ok /\ g.w.cache = o.w.cache
      BY <2>4, <2>7, FaultIs
    <3>3. Spare(g.w) = Spare(o.w)
      BY <3>2 DEF Spare
    <3> QED
      BY <1>0, <2>2, <2>3, <3>1, <3>2, <3>3
  <2> QED
    BY <1>3, <2>5, <2>6, <2>7
<1> QED
  BY <1>1, <1>2, <1>3

LEMMA ListAdd ==
    ASSUME NEW l, NEW S, ListOf(l, S), NEW c \in Chunks \ S
    PROVE  /\ ListOf(Append(l, c), S \cup {c}) /\ Len(Append(l, c)) = Len(l) + 1
           /\ ListOf(<<c>> \o l, S \cup {c})
<1> DEFINE n == Len(l)
           a == Append(l, c)
           b == <<c>> \o l
<1>0. l \in Seq(Chunks) /\ n \in Nat /\ DOMAIN l = 1 .. n
  BY DEF ListOf
<1>1. S = {l[i] : i \in 1 .. n} /\ \A i, j \in 1 .. n : l[i] = l[j] => i = j
  BY <1>0 DEF ListOf, ToSet, IsInjective
<1>2. /\ a \in Seq(Chunks) /\ Len(a) = n + 1 /\ DOMAIN a = 1 .. n + 1
      /\ a[n + 1] = c /\ \A i \in 1 .. n : a[i] = l[i]
  BY <1>0
<1>3. /\ b \in Seq(Chunks) /\ Len(b) = n + 1 /\ DOMAIN b = 1 .. n + 1
      /\ b[1] = c /\ \A i \in 1 .. n : b[i + 1] = l[i]
  BY <1>0
<1>4. /\ \A i \in 1 .. n + 1 : i = n + 1 \/ i \in 1 .. n
      /\ \A i \in 1 .. n + 1 : i = 1 \/ (i - 1 \in 1 .. n /\ i = (i - 1) + 1)
      /\ n + 1 \in 1 .. n + 1 /\ 1 \in 1 .. n + 1
      /\ \A i \in 1 .. n : i \in 1 .. n + 1 /\ i + 1 \in 1 .. n + 1
      /\ \A i, j \in 1 .. n + 1 : i - 1 = j - 1 => i = j
  BY <1>0
<1> HIDE DEF n, a, b
<1>5. \A i \in 1 .. n : l[i] # c
  BY <1>1
<1>6. IsInjective(a) /\ ToSet(a) = S \cup {c}
  <2>1. \A i, j \in 1 .. n + 1 : a[i] = a[j] => i = j
    BY <1>1, <1>2, <1>4, <1>5
  <2>2. ToSet(a) = {a[i] : i \in 1 .. n + 1}
    BY <1>2 DEF ToSet
  <2>3. ASSUME NEW x \in S \cup {c}
        PROVE  x \in ToSet(a)
    BY <1>1, <1>2, <1>4, <2>2
  <2>4. ASSUME NEW x \in ToSet(a)
        PROVE  x \in S \cup {c}
    BY <1>1, <1>2, <1>4, <2>2
  <2> QED
    BY <1>2, <2>1, <2>3, <2>4 DEF IsInjective
<1>7. IsInjective(b) /\ ToSet(b) = S \cup {c}
  <2>0. \A i \in 1 .. n + 1 : i = 1 \/ (i - 1 \in 1 .. n /\ b[i] = l[i - 1])
    BY <1>3, <1>4
  <2>1. ASSUME NEW i \in 1 .. n + 1, NEW j \in 1 .. n + 1, b[i] = b[j]
        PROVE  i = j
    <3>1. CASE i = 1 \/ j = 1
      BY <1>3, <1>5, <2>0, <2>1, <3>1
    <3>2. CASE i # 1 /\ j # 1
      <4>1. i - 1 = j - 1
        BY <1>1, <2>0, <2>1, <3>2
      <4> QED
        BY <1>4, <4>1
    <3> QED
      BY <3>1, <3>2
  <2>2. ToSet(b) = {b[i] : i \in 1 .. n + 1}
    BY <1>3 DEF ToSet
  <2>3. ASSUME NEW x \in S \cup {c}
        PROVE  x \in ToSet(b)
    BY <1>1, <1>3, <1>4, <2>2
  <2>4. ASSUME NEW x \in ToSet(b)
        PROVE  x \in S \cup {c}
    BY <1>1, <1>3, <2>0, <2>2
  <2> QED
    BY <1>3, <2>1, <2>3, <2>4 DEF IsInjective
<1> QED
  BY <1>2, <1>3, <1>6, <1>7 DEF ListOf, a, b, n

\* A world with another cache.
LEMMA WithCache ==
    ASSUME NEW w \in Worlds, NEW d \in Caches
    PROVE  [cache |-> d, store |-> w.store, faults |-> w.faults] \in Worlds
BY WorldIs DEF Worlds

LEMMA NoEntryIsNone == NoEntry \notin Entries /\ Absent \notin Objects
BY ChunkCacheAssumption DEF Entries, Objects

Relinked(k, f, g, h) == [k EXCEPT !.entry = f, !.mru = h, !.lru = g]

LEMMA RelinkedIs ==
    ASSUME NEW k \in Caches, NEW f, NEW g, NEW h
    PROVE  Relinked(k, f, g, h)
              = [entry |-> f, lru |-> g, mru |-> h, used |-> k.used]
<1> DEFINE l == k.lru
           m == k.mru
           u == k.used
<1>0. k = [entry |-> k.entry, lru |-> l, mru |-> m, used |-> u]
  BY CacheIs
<1> HIDE DEF l, m, u
<1> DEFINE i == [k EXCEPT !.entry = f]
           j == [i EXCEPT !.mru = h]
<1>1. i = [entry |-> f, lru |-> l, mru |-> m, used |-> u]
  BY <1>0
<1>2. Relinked(k, f, g, h) = [j EXCEPT !.lru = g]
  BY DEF Relinked
<1> HIDE DEF i
<1>3. j = [entry |-> f, lru |-> l, mru |-> h, used |-> u]
  BY <1>1
<1> HIDE DEF j
<1> QED
  BY <1>2, <1>3 DEF u

LEMMA InsertIs ==
    ASSUME NEW w \in Worlds, shape \in Shapes, NEW c \in Chunks, w.cache.entry[c] = NoEntry,
           NEW e \in Entries
    PROVE  LET v == Insert(w, c, e)
           IN  /\ v \in Worlds /\ v.store = w.store /\ v.faults = w.faults
               /\ v.cache.entry = [w.cache.entry EXCEPT ![c] = e]
               /\ v.cache.used = w.cache.used
               /\ Len(v.cache.mru) = Len(w.cache.mru) + 1
               /\ Spare(v) = Spare(w) - SizeOf(e)
<1> DEFINE k == w.cache
           P == Present(k)
           f == [k.entry EXCEPT ![c] = e]
           l == <<c>> \o k.lru
           m == Append(k.mru, c)
           d == [entry |-> f, lru |-> l, mru |-> m, used |-> k.used]
           v == [cache |-> d, store |-> w.store, faults |-> w.faults]
<1>0. /\ w = [cache |-> k, store |-> w.store, faults |-> w.faults] /\ k \in Caches
      /\ k = [entry |-> k.entry, lru |-> k.lru, mru |-> k.mru, used |-> k.used]
      /\ k.entry \in [Chunks -> Entries \cup {NoEntry}] /\ k.used \in Int
      /\ ListOf(k.lru, P) /\ ListOf(k.mru, P)
  BY WorldIs, CacheIs
<1>1. Insert(w, c, e) = v
  <2>1. d = [k EXCEPT !.entry[c] = e, !.mru = Append(@, c), !.lru = <<c>> \o @]
    <3>1. [k EXCEPT !.entry[c] = e, !.mru = Append(@, c), !.lru = <<c>> \o @]
            = Relinked(k, f, l, m)
      <4> HIDE DEF k
      <4> QED
        BY DEF Relinked
    <3> HIDE DEF k, f, m, l
    <3>2. Relinked(k, f, l, m) = d
      BY <1>0, RelinkedIs
    <3> QED
      BY <3>1, <3>2
  <2>2. v = [w EXCEPT !.cache = d]
    <3> HIDE DEF d, k
    <3> QED
      BY <1>0
  <2>3. Insert(w, c, e) =
          [w EXCEPT !.cache = [k EXCEPT !.entry[c] = e, !.mru = Append(@, c), !.lru = <<c>> \o @]]
    BY DEF Insert
  <2> HIDE DEF d, v
  <2> QED
    BY <2>1, <2>2, <2>3
<1>2. c \notin P /\ P \in SUBSET Chunks
  BY DEF Present
<1>3. f \in [Chunks -> Entries \cup {NoEntry}]
  BY <1>0
<1>4. P \cup {c} = {x \in Chunks : f[x] # NoEntry}
  BY <1>0, NoEntryIsNone DEF Present
<1>5. ListOf(l, P \cup {c}) /\ ListOf(m, P \cup {c}) /\ Len(m) = Len(k.mru) + 1
  BY <1>0, <1>2, ListAdd
<1>6. d \in Caches /\ Present(d) = P \cup {c}
  <2> HIDE DEF f, l, m, P
  <2> QED
    BY <1>0, <1>3, <1>4, <1>5, MakeCache
<1>7. v \in Worlds
  BY <1>6, WithCache
<1>8. /\ v.store = w.store /\ v.faults = w.faults /\ v.cache = d
      /\ d.entry = f /\ d.used = k.used /\ d.mru = m
  OBVIOUS
<1> HIDE DEF d, v
<1>9. Spare(v) = Spare(w) - SizeOf(e)
  <2> HIDE DEF f, P
  <2>1. Sized(f, P \cup {c})
    BY <1>6, <1>8, EntriesSized
  <2>2. Space(f, P \cup {c}) = SizeOf(f[c]) + Space(f, (P \cup {c}) \ {c})
    BY <2>1, SpaceOut
  <2>3. (P \cup {c}) \ {c} = P
    BY <1>2
  <2>4. f[c] = e /\ \A x \in P : f[x] = k.entry[x]
    BY <1>0, <1>2 DEF f
  <2>5. Sized(f, P)
    BY <2>1, SizedSubset
  <2>6. \A x \in P : SizeOf(f[x]) = SizeOf(k.entry[x])
    BY <2>4
  <2>7. Space(f, P) = Space(k.entry, P)
    BY <2>5, <2>6, SpaceSame
  <2>8. Space(f, P) \in Nat
    BY <2>5, SpaceStep
  <2>9. SizeOf(e) \in Nat
    BY <2>1, <2>4 DEF Sized
  <2>10. Space(f, P \cup {c}) = SizeOf(e) + Space(k.entry, P)
    BY <2>2, <2>3, <2>4, <2>7
  <2>11. Spare(v) = k.used - Space(f, P \cup {c}) /\ Spare(w) = k.used - Space(k.entry, P)
    BY <1>6, <1>8 DEF Spare, P
  <2> QED
    BY <1>0, <2>7, <2>8, <2>9, <2>10, <2>11
<1> QED
  BY <1>1, <1>5, <1>7, <1>8, <1>9

LEMMA TouchIs ==
    ASSUME NEW w \in Worlds, NEW c \in Chunks, w.cache.entry[c] # NoEntry
    PROVE  LET v == Touch(w, c)
           IN  /\ v \in Worlds /\ v.store = w.store /\ v.faults = w.faults
               /\ v.cache.entry = w.cache.entry /\ v.cache.used = w.cache.used
               /\ v.cache.mru = w.cache.mru
<1> DEFINE k == w.cache
           P == Present(k)
           l == <<c>> \o Only(k.lru, Chunks \ {c})
           d == [entry |-> k.entry, lru |-> l, mru |-> k.mru, used |-> k.used]
           v == [cache |-> d, store |-> w.store, faults |-> w.faults]
<1>0. /\ w = [cache |-> k, store |-> w.store, faults |-> w.faults] /\ k \in Caches
      /\ k = [entry |-> k.entry, lru |-> k.lru, mru |-> k.mru, used |-> k.used]
      /\ k.entry \in [Chunks -> Entries \cup {NoEntry}] /\ k.used \in Int
      /\ ListOf(k.lru, P) /\ ListOf(k.mru, P)
  BY WorldIs, CacheIs
<1>1. Touch(w, c) = v
  <2>1. d = [k EXCEPT !.lru = l]
    <3> HIDE DEF k, l
    <3> QED
      BY <1>0
  <2>2. v = [w EXCEPT !.cache = d]
    <3> HIDE DEF d, k
    <3> QED
      BY <1>0
  <2>3. Touch(w, c) = [w EXCEPT !.cache = [k EXCEPT !.lru = l]]
    BY DEF Touch
  <2> HIDE DEF d, v
  <2> QED
    BY <2>1, <2>2, <2>3
<1>2. ListOf(l, P)
  <2>1. ListOf(Only(k.lru, Chunks \ {c}), P \cap (Chunks \ {c}))
    BY <1>0, OnlyLists
  <2>2. (P \cap (Chunks \ {c})) \cup {c} = P /\ c \in Chunks \ (P \cap (Chunks \ {c}))
    BY DEF Present
  <2>3. ListOf(l, (P \cap (Chunks \ {c})) \cup {c})
    BY <2>1, <2>2, ListAdd
  <2> HIDE DEF l
  <2> QED
    BY <2>2, <2>3
<1>3. P = {x \in Chunks : k.entry[x] # NoEntry}
  BY DEF Present
<1>4. d \in Caches
  <2> HIDE DEF l, P, k
  <2> QED
    BY <1>0, <1>2, <1>3, MakeCache
<1>5. v \in Worlds
  BY <1>4, WithCache
<1> QED
  BY <1>1, <1>5

\* What Modify makes of the entry.
Overwritten(e, v) ==
    [e EXCEPT !.data = IF e.filtered THEN Garbage ELSE v, !.modified = @ \/ ~shape.scalar]

LEMMA OverwrittenIs ==
    ASSUME NEW e \in Entries, NEW v \in Values, shape \in Shapes
    PROVE  /\ Overwritten(e, v) \in Entries
           /\ Overwritten(e, v).filtered = e.filtered
           /\ Overwritten(e, v).data = IF e.filtered THEN Garbage ELSE v
           /\ ~shape.scalar => Overwritten(e, v).modified
<1> DEFINE x == IF e.filtered THEN Garbage ELSE v
           b == e.modified \/ ~shape.scalar
<1>0. /\ e = [data |-> e.data, filtered |-> e.filtered, modified |-> e.modified]
      /\ e.filtered \in BOOLEAN
  BY DEF Entries
<1>1. x \in Values \cup {Fill, Garbage} /\ b \in BOOLEAN
  BY ShapeIs DEF Entries
<1>2. Overwritten(e, v) = [e EXCEPT !.data = x, !.modified = b]
  BY DEF Overwritten
<1>3. ~shape.scalar => b
  OBVIOUS
<1> HIDE DEF x, b
<1>4. [e EXCEPT !.data = x, !.modified = b] =
        [data |-> x, filtered |-> e.filtered, modified |-> b]
  <2> DEFINE i == [e EXCEPT !.data = x]
             f == e.filtered
             m == e.modified
  <2>1. e = [data |-> e.data, filtered |-> f, modified |-> m]
    BY <1>0
  <2>2. [e EXCEPT !.data = x, !.modified = b] = [i EXCEPT !.modified = b]
    OBVIOUS
  <2> HIDE DEF f, m
  <2>3. i = [data |-> x, filtered |-> f, modified |-> m]
    BY <2>1
  <2> HIDE DEF i
  <2> QED
    BY <2>2, <2>3 DEF f
<1>5. Overwritten(e, v) = [data |-> x, filtered |-> e.filtered, modified |-> b]
  BY <1>2, <1>4
<1> QED
  BY <1>0, <1>1, <1>3, <1>5 DEF Entries, x

LEMMA ModifyIs ==
    ASSUME NEW w \in Worlds, shape \in Shapes, NEW c \in Chunks, w.cache.entry[c] # NoEntry,
           NEW x \in Values
    PROVE  LET v == Modify(w, c, x)
           IN  /\ v \in Worlds /\ v.store = w.store /\ v.faults = w.faults
               /\ v.cache.entry = [w.cache.entry EXCEPT ![c] = Overwritten(w.cache.entry[c], x)]
               /\ v.cache.used = w.cache.used
               /\ v.cache.mru = w.cache.mru
               /\ Spare(v) = Spare(w)
<1> DEFINE k == w.cache
           P == Present(k)
           e == Overwritten(k.entry[c], x)
           f == [k.entry EXCEPT ![c] = e]
           d == [entry |-> f, lru |-> k.lru, mru |-> k.mru, used |-> k.used]
           v == [cache |-> d, store |-> w.store, faults |-> w.faults]
<1>0. /\ w = [cache |-> k, store |-> w.store, faults |-> w.faults] /\ k \in Caches
      /\ k = [entry |-> k.entry, lru |-> k.lru, mru |-> k.mru, used |-> k.used]
      /\ k.entry \in [Chunks -> Entries \cup {NoEntry}] /\ k.used \in Int
      /\ ListOf(k.lru, P) /\ ListOf(k.mru, P)
  BY WorldIs, CacheIs
<1>1. Modify(w, c, x) = v
  <2>1. d = [k EXCEPT !.entry = f]
    <3> HIDE DEF k, f
    <3> QED
      BY <1>0
  <2>2. v = [w EXCEPT !.cache = d]
    <3> HIDE DEF d, k
    <3> QED
      BY <1>0
  <2>3. Modify(w, c, x) = [w EXCEPT !.cache = [k EXCEPT !.entry = f]]
    BY DEF Modify, Overwritten
  <2> HIDE DEF d, v
  <2> QED
    BY <2>1, <2>2, <2>3
<1>2. k.entry[c] \in Entries
  BY <1>0
<1>3. e \in Entries /\ e.filtered = k.entry[c].filtered
  BY <1>2, OverwrittenIs
<1>4. SizeOf(e) = SizeOf(k.entry[c])
  BY <1>3 DEF SizeOf
<1> HIDE DEF e
<1>5. f \in [Chunks -> Entries \cup {NoEntry}]
  BY <1>0, <1>3
<1>6. P = {y \in Chunks : f[y] # NoEntry}
  BY <1>0, <1>3, NoEntryIsNone DEF Present
<1>7. d \in Caches /\ Present(d) = P
  <2> HIDE DEF f, P, k
  <2> QED
    BY <1>0, <1>5, <1>6, MakeCache
<1>8. v \in Worlds
  BY <1>7, WithCache
<1>9. /\ v.store = w.store /\ v.faults = w.faults /\ v.cache = d
      /\ d.entry = f /\ d.used = k.used /\ d.mru = k.mru
  OBVIOUS
<1> HIDE DEF d, v
<1>10. Spare(v) = Spare(w)
  <2> HIDE DEF P
  <2>1. Sized(k.entry, P)
    BY <1>0, EntriesSized DEF P
  <2>2. \A y \in P : SizeOf(k.entry[y]) = SizeOf(f[y])
    BY <1>0, <1>4 DEF P, Present
  <2>3. Space(k.entry, P) = Space(f, P)
    <3> HIDE DEF f
    <3> QED
      BY <2>1, <2>2, SpaceSame
  <2> QED
    BY <1>7, <1>9, <2>3 DEF Spare, P
<1> QED
  BY <1>1, <1>8, <1>9, <1>10 DEF e

\* A chunk that is not in the cache: some leave, and unless something failed the
\* chunk is put in.
Missed(w, c, o, v, G, F) ==
    /\ Evicts(w, v, G, F)
    /\ o.ok = v.ok
    /\ o.w = IF v.ok THEN Insert(v.w, c, Fetched(w.store[c])) ELSE v.w

LEMMA ReadMiss ==
    ASSUME NEW w \in Worlds, shape \in Shapes, NEW c \in Chunks, w.cache.entry[c] = NoEntry,
           NEW o \in NCZ_read_cache_chunk(w, c)
    PROVE  /\ \E v, G, F : Missed(w, c, o, v, G, F)
           /\ Sound(w) => Sound(o.w)
<1> DEFINE e == Fetched(w.store[c])
<1>0. /\ e \in Entries /\ SizeOf(e) = ChunkSize /\ ChunkSize \in Nat \ {0}
      /\ shape.nelems \in Nat /\ shape.size \in Nat
      /\ Spare(w) \in Int /\ w.cache.used \in Int /\ Len(w.cache.mru) \in Nat
  <2>1. w.store[c] \in Objects \cup {Absent}
    BY WorldIs
  <2>2. e \in Entries /\ SizeOf(e) = ChunkSize
    BY <2>1, FetchedIs
  <2> HIDE DEF e
  <2> QED
    BY <2>2, SpareInt, ShapeIs, ChunkCacheAssumption
<1>1. PICK g \in get_chunk(w, c) :
         \/ ~g.ok /\ o = g
         \/ g.ok /\ \E u \in verifycache(g.w) :
                        o = IF u.ok THEN [u EXCEPT !.w = Insert(u.w, c, e)] ELSE u
  BY DEF NCZ_read_cache_chunk
<1>2. PICK G, F :
         /\ Evicts(w, g, G, F)
         /\ Spare(g.w) = Spare(w) + (IF g.ok THEN ChunkSize ELSE 0)
         /\ ~g.ok => g.w.cache.used <= w.cache.used
         /\ Len(g.w.cache.mru) <= Len(w.cache.mru)
  BY GetChunk
<1>3. /\ g \in Outcomes /\ g.w \in Worlds /\ g.ok \in BOOLEAN
      /\ Present(g.w.cache) = Present(w.cache) \ G
  BY <1>2, EvictsThen
<1>4. g.w.cache.used \in Int /\ Len(g.w.cache.mru) \in Nat
  BY <1>3, SpareInt
<1>5. CASE ~g.ok /\ o = g
  <2>1. Missed(w, c, o, g, G, F)
    BY <1>2, <1>5 DEF Missed
  <2>2. Sound(w) => Sound(o.w)
    <3>1. Spare(g.w) = Spare(w)
      BY <1>0, <1>2, <1>5
    <3>2. g.w.cache.used <= w.cache.used /\ Len(g.w.cache.mru) <= Len(w.cache.mru)
      BY <1>2, <1>5
    <3>3. /\ shape.nelems \in Nat /\ shape.size \in Nat /\ w.cache.used \in Int
          /\ Len(w.cache.mru) \in Nat
      BY <1>0
    <3> SUFFICES ASSUME Sound(w) PROVE Sound(g.w)
      BY <1>5
    <3>4. /\ Spare(w) >= 0 /\ Len(w.cache.mru) <= shape.nelems + 1
          /\ w.cache.used <= shape.size \/ Len(w.cache.mru) <= 1
      BY DEF Sound
    <3> DEFINE l == Len(w.cache.mru)
               k == Len(g.w.cache.mru)
               a == w.cache.used
               b == g.w.cache.used
               limit == shape.nelems
               room == shape.size
    <3>7. /\ l \in Nat /\ k \in Nat /\ a \in Int /\ b \in Int /\ limit \in Nat /\ room \in Nat
          /\ k <= l /\ b <= a /\ l <= limit + 1 /\ (a <= room \/ l <= 1)
      BY <1>4, <3>2, <3>3, <3>4
    <3> HIDE DEF l, k, a, b, limit, room
    <3>8. k <= limit + 1
      BY <3>7
    <3>9. b <= room \/ k <= 1
      BY <3>7
    <3>5. Len(g.w.cache.mru) <= shape.nelems + 1
      BY <3>8 DEF k, limit
    <3>6. g.w.cache.used <= shape.size \/ Len(g.w.cache.mru) <= 1
      BY <3>9 DEF b, k, room
    <3> QED
      BY <3>1, <3>4, <3>5, <3>6 DEF Sound
  <2> QED
    BY <2>1, <2>2
<1>6. CASE g.ok /\ \E u \in verifycache(g.w) :
                      o = IF u.ok THEN [u EXCEPT !.w = Insert(u.w, c, e)] ELSE u
  <2>1. PICK u \in constraincache(g.w, shape.size) :
           o = IF u.ok THEN [u EXCEPT !.w = Insert(u.w, c, e)] ELSE u
    BY <1>6 DEF verifycache
  <2>2. PICK H, E : Evicts(g.w, u, H, E) /\ Frees(g.w, u, H, shape.size)
    BY <1>3, Constrains
  <2>3. Evicts(w, u, G \cup H, F \cup E)
    BY <1>2, <2>2, EvictsTwice
  <2>4. /\ u \in Outcomes /\ u.w \in Worlds /\ u.ok \in BOOLEAN
        /\ Present(u.w.cache) = Present(w.cache) \ (G \cup H)
    BY <2>3, EvictsThen
  <2>5. Spare(u.w) = Spare(w) + ChunkSize
    <3>1. Spare(u.w) = Spare(g.w)
      BY <1>3, <2>2, FreesSpare
    <3>2. Spare(g.w) = Spare(w) + ChunkSize
      BY <1>2, <1>6
    <3> QED
      BY <3>1, <3>2
  <2>6. u.w.cache.entry[c] = NoEntry
    BY <2>4 DEF Present
  <2> DEFINE i == Insert(u.w, c, e)
  <2>7. /\ Len(i.cache.mru) = Len(u.w.cache.mru) + 1
        /\ i.cache.used = u.w.cache.used
        /\ Spare(i) = Spare(u.w) - SizeOf(e)
    <3>1. e \in Entries /\ u.w \in Worlds /\ u.w.cache.entry[c] = NoEntry
      BY <1>0, <2>4, <2>6
    <3> HIDE DEF e
    <3> QED
      BY <3>1, InsertIs, ZenonT(40)
  <2>8. o.ok = u.ok /\ o.w = IF u.ok THEN i ELSE u.w
    <3> HIDE DEF i, e
    <3>1. u = [w |-> u.w, ok |-> u.ok]
      BY <2>4 DEF Outcomes
    <3>2. [u EXCEPT !.w = i] = [w |-> i, ok |-> u.ok]
      BY <3>1
    <3>3. o = IF u.ok THEN [u EXCEPT !.w = i] ELSE u
      BY <2>1 DEF i
    <3> QED
      BY <3>2, <3>3
  <2>9. Missed(w, c, o, u, G \cup H, F \cup E)
    <3>1. o.w = IF u.ok THEN Insert(u.w, c, Fetched(w.store[c])) ELSE u.w
      BY <2>8
    <3> QED
      BY <2>3, <2>8, <3>1 DEF Missed
  <2> HIDE DEF i, e
  <2>10. ASSUME Sound(w)
         PROVE  Sound(o.w)
    <3>0. /\ Spare(w) >= 0 /\ u.w.cache.used \in Int /\ Len(u.w.cache.mru) \in Nat
          /\ Space(g.w.cache.entry, Present(g.w.cache)) \in Nat
      BY <1>3, <2>4, <2>10, SpareInt DEF Sound
    <3>1. g.w.cache.used # 0
      <4>1. Spare(g.w) = Spare(w) + ChunkSize
        BY <1>2, <1>6
      <4>2. Spare(g.w) = g.w.cache.used - Space(g.w.cache.entry, Present(g.w.cache))
        BY DEF Spare
      <4> QED
        BY <1>0, <1>4, <3>0, <4>1, <4>2
    <3>2. \/ Len(u.w.cache.mru) = 0
          \/ Len(u.w.cache.mru) <= shape.nelems /\ u.w.cache.used <= shape.size
      BY <2>2, <3>1 DEF Frees
    <3>3. CASE u.ok
      <4>1. o.w = i
        BY <2>8, <3>3
      <4>2. Spare(i) = Spare(w)
        BY <1>0, <2>5, <2>7
      <4>3. Len(i.cache.mru) <= shape.nelems + 1
        BY <1>0, <2>7, <3>0, <3>2
      <4>4. i.cache.used <= shape.size \/ Len(i.cache.mru) <= 1
        BY <2>7, <3>0, <3>2
      <4> QED
        BY <3>0, <4>1, <4>2, <4>3, <4>4 DEF Sound
    <3>4. CASE ~u.ok
      <4>1. o.w = u.w
        BY <2>8, <3>4
      <4>2. Spare(u.w) >= 0
        BY <1>0, <2>5, <3>0
      <4> QED
        BY <1>0, <3>0, <3>2, <4>1, <4>2 DEF Sound
    <3> QED
      BY <3>3, <3>4
  <2> QED
    BY <2>9, <2>10
<1> QED
  BY <1>1, <1>5, <1>6

LEMMA ReadHit ==
    ASSUME NEW w, NEW c, w.cache.entry[c] # NoEntry, NEW o \in NCZ_read_cache_chunk(w, c)
    PROVE  o.ok /\ o.w = Touch(w, c)
<1>1. o = [w |-> Touch(w, c), ok |-> TRUE]
  BY DEF NCZ_read_cache_chunk
<1> QED
  BY <1>1
----------------------------------------------------------------------------
(* NCZ_flush_chunk_cache *)

\* An entry once put_chunk has succeeded.
Clean(e) == [Encoded(e) EXCEPT !.modified = FALSE]

LEMMA EncodedIs ==
    ASSUME NEW e \in Entries, shape \in Shapes
    PROVE  /\ Encoded(e) \in Entries
           /\ Encoded(e).data = e.data /\ Encoded(e).modified = e.modified
           /\ Encoded(e).filtered <=> e.filtered \/ shape.filters
           /\ Clean(e) \in Entries
           /\ Clean(e).data = e.data /\ ~Clean(e).modified
           /\ Clean(e).filtered <=> e.filtered \/ shape.filters
<1> DEFINE b == e.filtered \/ shape.filters
           d == e.data
           m == e.modified
<1>0. /\ e = [data |-> d, filtered |-> e.filtered, modified |-> m]
      /\ d \in Values \cup {Fill, Garbage} /\ m \in BOOLEAN
  BY DEF Entries
<1>1. Encoded(e) = [e EXCEPT !.filtered = b] /\ b \in BOOLEAN
  BY ShapeIs DEF Encoded, Entries
<1>2. b <=> e.filtered \/ shape.filters
  OBVIOUS
<1> HIDE DEF b, d, m
<1>3. Encoded(e) = [data |-> d, filtered |-> b, modified |-> m]
  BY <1>0, <1>1
<1>4. Clean(e) = [data |-> d, filtered |-> b, modified |-> FALSE]
  <2> DEFINE g == Encoded(e)
             no == FALSE
  <2>1. Clean(e) = [g EXCEPT !.modified = no]
    BY DEF Clean
  <2>2. g = [data |-> d, filtered |-> b, modified |-> m]
    BY <1>3
  <2> HIDE DEF g, no
  <2>3. [g EXCEPT !.modified = no] = [data |-> d, filtered |-> b, modified |-> no]
    BY <2>2
  <2> QED
    BY <2>1, <2>3 DEF no
<1>5. Encoded(e) \in Entries /\ Clean(e) \in Entries
  BY <1>0, <1>1, <1>3, <1>4 DEF Entries
<1> QED
  BY <1>2, <1>3, <1>4, <1>5 DEF d, m

\* The store when the chunks of D have been written.
Stored(w, D) == [x \in Chunks |-> IF x \in D THEN Object(w.cache.entry[x]) ELSE w.store[x]]

Cleaned(w, D) == [x \in Chunks |-> IF x \in D THEN Clean(w.cache.entry[x]) ELSE w.cache.entry[x]]

\* A world where entries have changed and none has come or gone.
LEMMA Rewritten ==
    ASSUME NEW w \in Worlds, NEW f \in [Chunks -> Entries \cup {NoEntry}],
           \A x \in Chunks : f[x] = NoEntry <=> w.cache.entry[x] = NoEntry,
           NEW u \in Int, NEW s \in [Chunks -> Objects \cup {Absent}]
    PROVE  LET v == [cache |-> [entry |-> f, lru |-> w.cache.lru, mru |-> w.cache.mru, used |-> u],
                     store |-> s, faults |-> w.faults]
           IN  v \in Worlds /\ Present(v.cache) = Present(w.cache)
<1> DEFINE k == w.cache
           P == Present(k)
           d == [entry |-> f, lru |-> k.lru, mru |-> k.mru, used |-> u]
           v == [cache |-> d, store |-> s, faults |-> w.faults]
<1>0. k \in Caches /\ ListOf(k.lru, P) /\ ListOf(k.mru, P) /\ w.faults \in Nat
  BY WorldIs, CacheIs
<1>1. P = {x \in Chunks : f[x] # NoEntry}
  BY DEF Present
<1>2. d \in Caches /\ Present(d) = P
  <2> HIDE DEF P, k
  <2> QED
    BY <1>0, <1>1, MakeCache
<1> HIDE DEF d
<1>3. v \in Worlds
  BY <1>0, <1>2 DEF Worlds
<1> QED
  BY <1>2, <1>3 DEF d

LEMMA FlushedIs ==
    ASSUME NEW w \in Worlds, shape \in Shapes, NEW n \in 0 .. Len(w.cache.mru),
           NEW D, D = {w.cache.mru[i] : i \in 1 .. n} \cap Modified(w)
    PROVE  LET v == Flushed(w, n)
           IN  /\ v = [cache |-> [entry |-> Cleaned(w, D), lru |-> w.cache.lru,
                                  mru |-> w.cache.mru, used |-> w.cache.used],
                       store |-> Stored(w, D), faults |-> w.faults]
               /\ v \in Worlds /\ Present(v.cache) = Present(w.cache)
<1> DEFINE k == w.cache
           f == Cleaned(w, D)
           s == Stored(w, D)
           put == {x \in {k.mru[i] : i \in 1 .. n} : k.entry[x].modified}
           d == [entry |-> f, lru |-> k.lru, mru |-> k.mru, used |-> k.used]
           v == [cache |-> d, store |-> s, faults |-> w.faults]
<1>0. /\ w = [cache |-> k, store |-> w.store, faults |-> w.faults] /\ k \in Caches
      /\ k = [entry |-> k.entry, lru |-> k.lru, mru |-> k.mru, used |-> k.used]
      /\ k.entry \in [Chunks -> Entries \cup {NoEntry}] /\ k.used \in Int
      /\ w.store \in [Chunks -> Objects \cup {Absent}]
      /\ ListOf(k.mru, Present(k))
  BY WorldIs, CacheIs
<1>1. put = D
  <2>1. Modified(w) = {x \in Present(k) : k.entry[x].modified}
    BY ModifiedIs
  <2>2. \A i \in 1 .. n : k.mru[i] \in Present(k)
    BY <1>0 DEF ListOf, ToSet
  <2> QED
    BY <2>1, <2>2
<1>2. Flushed(w, n) = v
  <2>1. f = [x \in Chunks |-> IF x \in put THEN [Encoded(k.entry[x]) EXCEPT !.modified = FALSE]
                              ELSE k.entry[x]]
    BY <1>1 DEF Cleaned, Clean
  <2>2. s = [x \in Chunks |-> IF x \in put THEN Object(k.entry[x]) ELSE w.store[x]]
    BY <1>1 DEF Stored
  <2>3. Flushed(w, n) = [w EXCEPT
           !.cache.entry = [x \in Chunks |->
               IF x \in put THEN [Encoded(k.entry[x]) EXCEPT !.modified = FALSE] ELSE k.entry[x]],
           !.store = [x \in Chunks |-> IF x \in put THEN Object(k.entry[x]) ELSE w.store[x]]]
    BY DEF Flushed
  <2> HIDE DEF f, s, put
  <2>4. Flushed(w, n) = [w EXCEPT !.cache.entry = f, !.store = s]
    BY <2>1, <2>2, <2>3
  <2> DEFINE u == [w EXCEPT !.cache = d]
  <2>5. d = [k EXCEPT !.entry = f]
    <3> HIDE DEF k
    <3> QED
      BY <1>0
  <2>6. [w EXCEPT !.cache.entry = f, !.store = s] = [u EXCEPT !.store = s]
    <3>1. [w EXCEPT !.cache.entry = f] = [w EXCEPT !.cache = [k EXCEPT !.entry = f]]
      OBVIOUS
    <3>2. [w EXCEPT !.cache.entry = f] = u
      <4> HIDE DEF d
      <4> QED
        BY <2>5, <3>1
    <3>3. [w EXCEPT !.cache.entry = f, !.store = s]
             = [[w EXCEPT !.cache.entry = f] EXCEPT !.store = s]
      OBVIOUS
    <3> HIDE DEF u
    <3> QED
      BY <3>2, <3>3
  <2>7. u = [cache |-> d, store |-> w.store, faults |-> w.faults]
    <3> HIDE DEF d, k
    <3> QED
      BY <1>0
  <2> HIDE DEF u, d
  <2>8. [u EXCEPT !.store = s] = v
    BY <2>7
  <2> QED
    BY <2>4, <2>6, <2>8
<1>3. \A x \in D : x \in Chunks /\ k.entry[x] \in Entries
  BY ModifiedIs
<1>4. /\ f \in [Chunks -> Entries \cup {NoEntry}]
      /\ \A x \in Chunks : f[x] = NoEntry <=> k.entry[x] = NoEntry
  <2>1. \A x \in D : Clean(k.entry[x]) \in Entries
    BY <1>3, EncodedIs
  <2> QED
    BY <1>0, <1>3, <2>1, NoEntryIsNone DEF Cleaned
<1>5. s \in [Chunks -> Objects \cup {Absent}]
  <2>1. \A x \in D : Object(k.entry[x]) \in Objects
    BY <1>3, ObjectIs
  <2> QED
    BY <1>0, <2>1 DEF Stored
<1>6. v \in Worlds /\ Present(v.cache) = Present(k)
  <2> HIDE DEF f, s
  <2> QED
    BY <1>0, <1>4, <1>5, Rewritten
<1> QED
  BY <1>2, <1>6

\* Every modified chunk was written, and those left in the cache are clean.
Finished(w, o) ==
    /\ o \in Outcomes /\ o.ok /\ o.w.faults <= w.faults
    /\ o.w.store = Stored(w, Modified(w))
    /\ Modified(o.w) = {}
    /\ \A x \in Chunks : o.w.cache.entry[x] \in {NoEntry, Cleaned(w, Modified(w))[x]}

\* The chunks of D were written; writing x failed.
Broken(w, o, D, x) ==
    /\ o \in Outcomes /\ ~o.ok /\ w.faults > 0 /\ o.w.faults = w.faults - 1
    /\ x \in Modified(w) /\ D \in SUBSET (Modified(w) \ {x})
    /\ o.w.store = Stored(w, D)
    /\ o.w.cache.entry = [Cleaned(w, D) EXCEPT ![x] = Encoded(w.cache.entry[x])]
    /\ o.w.cache.used = w.cache.used /\ o.w.cache.mru = w.cache.mru

LEMMA FlushFinished ==
    ASSUME NEW w \in Worlds, shape \in Shapes,
           NEW o \in verifycache(Recomputed(Flushed(w, Len(w.cache.mru))))
    PROVE  Finished(w, o) /\ Sound(o.w)
<1> DEFINE n == Len(w.cache.mru)
           M == Modified(w)
           P == Present(w.cache)
           v == Flushed(w, n)
           f == Cleaned(w, M)
           z == Space(f, P)
           r == Recomputed(v)
<1>0. /\ w.cache \in Caches /\ ListOf(w.cache.mru, P) /\ w.faults \in Nat /\ n \in Nat
      /\ M \in SUBSET P /\ shape.nelems \in Nat /\ shape.size \in Nat
  BY WorldIs, CacheIs, ModifiedIs, ShapeIs DEF ListOf
<1>1. M = {w.cache.mru[i] : i \in 1 .. n} \cap M
  <2>1. P = {w.cache.mru[i] : i \in 1 .. n}
    BY <1>0 DEF ListOf, ToSet
  <2> HIDE DEF M, P
  <2> QED
    BY <1>0, <2>1
<1>2. /\ v = [cache |-> [entry |-> f, lru |-> w.cache.lru, mru |-> w.cache.mru,
                         used |-> w.cache.used],
              store |-> Stored(w, M), faults |-> w.faults]
      /\ v \in Worlds /\ Present(v.cache) = P
  <2>1. n \in 0 .. n
    BY <1>0
  <2> HIDE DEF M
  <2> QED
    BY <1>1, <2>1, FlushedIs DEF M
<1> HIDE DEF v, M
<1>3. ToSet(w.cache.mru) = P
  BY <1>0 DEF ListOf
<1>4. z \in Nat
  <2>1. v.cache \in Caches /\ v.cache.entry = f
    BY <1>2, WorldIs
  <2> QED
    BY <1>2, <2>1, EntriesSized
<1>5. r = Counts([w |-> v, ok |-> TRUE], z - w.cache.used).w
  <2> DEFINE k == [entry |-> f, lru |-> w.cache.lru, mru |-> w.cache.mru,
                   used |-> w.cache.used]
             d == [entry |-> f, lru |-> w.cache.lru, mru |-> w.cache.mru, used |-> z]
  <2>0. v.cache = k /\ k.entry = f /\ k.mru = w.cache.mru /\ k.used = w.cache.used
    BY <1>2
  <2>1. r = [v EXCEPT !.cache.used = z]
    <3>1. Space(v.cache.entry, ToSet(v.cache.mru)) = z
      BY <1>3, <2>0
    <3> HIDE DEF k, z
    <3> QED
      BY <3>1 DEF Recomputed
  <2>2. w.cache.used + (z - w.cache.used) = z
    <3>1. w.cache.used \in Int
      BY <1>0, CacheIs
    <3> HIDE DEF z
    <3> QED
      BY <1>4, <3>1
  <2> DEFINE t == [w |-> v, ok |-> TRUE]
             i == z - w.cache.used
  <2>3. t.w = v
    OBVIOUS
  <2>4. Counts(t, i) = [t EXCEPT !.w = [v EXCEPT !.cache = [v.cache EXCEPT !.used = v.cache.used + i]]]
    BY <2>3 DEF Counts
  <2>5. v.cache.used + i = z
    BY <2>0, <2>2
  <2>6. Counts(t, i).w = [v EXCEPT !.cache = [v.cache EXCEPT !.used = z]]
    <3> HIDE DEF i
    <3>1. Counts(t, i) = [t EXCEPT !.w = [v EXCEPT !.cache = [v.cache EXCEPT !.used = z]]]
      BY <2>4, <2>5
    <3> QED
      BY <3>1
  <2> HIDE DEF t, i, z, r
  <2>7. r = [v EXCEPT !.cache = [v.cache EXCEPT !.used = z]]
    BY <2>1
  <2> QED
    BY <2>6, <2>7 DEF t, i
<1>6. /\ r \in Worlds /\ r.store = Stored(w, M) /\ r.faults = w.faults
      /\ r.cache.entry = f /\ r.cache.mru = w.cache.mru
      /\ r.cache.used = z /\ Present(r.cache) = P
  <2> DEFINE t == [w |-> v, ok |-> TRUE]
             i == z - w.cache.used
  <2>0. w.cache.used \in Int
    BY <1>0, CacheIs
  <2>1. t \in Outcomes /\ t.w = v /\ i \in Int
    <3> HIDE DEF z
    <3> QED
      BY <1>2, <1>4, <2>0 DEF Outcomes
  <2>2. /\ v.store = Stored(w, M) /\ v.faults = w.faults /\ v.cache.entry = f
        /\ v.cache.mru = w.cache.mru /\ v.cache.used = w.cache.used
    BY <1>2
  <2>3. r = Counts(t, i).w
    BY <1>5
  <2> HIDE DEF t, i, r
  <2>4. /\ r \in Worlds /\ r.store = v.store /\ r.faults = v.faults
        /\ r.cache.entry = v.cache.entry /\ r.cache.mru = v.cache.mru
        /\ r.cache.used = v.cache.used + i
    BY <2>1, <2>3, CountsIs DEF Outcomes
  <2>5. Present(r.cache) = P
    BY <1>2, <2>4 DEF Present
  <2>6. w.cache.used + i = z
    <3> HIDE DEF z
    <3> QED
      BY <1>4, <2>0 DEF i
  <2> QED
    BY <2>2, <2>4, <2>5, <2>6
<1> HIDE DEF r
<1>7. Modified(r) = {}
  <2>1. \A x \in M : w.cache.entry[x] \in Entries
    BY ModifiedIs DEF M
  <2>2. \A x \in M : ~f[x].modified
    BY <1>0, <2>1, EncodedIs DEF Cleaned, Present
  <2>3. \A x \in Chunks \ M : f[x] = w.cache.entry[x]
    BY DEF Cleaned
  <2>4. \A x \in Chunks \ M : ~(f[x] # NoEntry /\ f[x].modified)
    BY <2>3 DEF M, Modified
  <2> QED
    BY <1>6, <2>2, <2>4 DEF Modified
<1>8. PICK G, F : Evicts(r, o, G, F) /\ Frees(r, o, G, shape.size) /\ (F = {} => o.ok)
  <2>1. o \in constraincache(r, shape.size)
    BY DEF verifycache, r, v
  <2> QED
    BY <1>6, <2>1, Constrains
<1>9. F = {} /\ G \cap Modified(r) = {} /\ o \in Outcomes /\ o.w \in Worlds
  BY <1>6, <1>7, <1>8, EvictsThen DEF Evicts
<1>10. /\ o.w.cache.entry = [x \in Chunks |-> IF x \in G THEN NoEntry ELSE f[x]]
       /\ o.w.store = Stored(w, M)
       /\ o.w.faults <= w.faults
  <2>1. o.w.cache.entry = [x \in Chunks |-> IF x \in G THEN NoEntry ELSE f[x]]
    BY <1>6, <1>8 DEF Evicts
  <2>2. \A x \in Chunks : x \notin (G \cap Modified(r)) \ F
    BY <1>9
  <2>3. o.w.store = [x \in Chunks |-> r.store[x]]
    BY <1>8, <2>2 DEF Evicts
  <2>4. o.w.store = Stored(w, M)
    BY <1>6, <2>3 DEF Stored
  <2>5. Cardinality(F) = 0 /\ Cardinality(F) <= r.faults - o.w.faults
    BY <1>8, <1>9, FS_EmptySet DEF Evicts
  <2>6. o.w.faults \in Nat
    BY <1>9, WorldIs
  <2>7. o.w.faults <= w.faults
    BY <1>0, <1>6, <2>5, <2>6
  <2> QED
    BY <2>1, <2>4, <2>7
<1>11. Modified(o.w) = {}
  BY <1>6, <1>7, <1>10 DEF Modified
<1>12. Finished(w, o)
  <2>1. o.ok
    BY <1>8, <1>9
  <2>2. \A x \in Chunks : o.w.cache.entry[x] \in {NoEntry, f[x]}
    <3> HIDE DEF f
    <3> QED
      BY <1>10
  <2> HIDE DEF f
  <2> QED
    BY <1>9, <1>10, <1>11, <2>1, <2>2 DEF Finished, f, M
<1>13. Sound(o.w)
  <2>1. Spare(r) = 0
    <3> HIDE DEF f, P
    <3> QED
      BY <1>4, <1>6 DEF Spare
  <2>2. Spare(o.w) = 0
    BY <1>6, <1>8, <2>1, FreesSpare
  <2>3. \/ o.w.cache.mru = <<>>
        \/ Len(o.w.cache.mru) <= shape.nelems /\ o.w.cache.used <= shape.size
        \/ r.cache.used = 0 /\ o.w = r
    BY <1>8 DEF Frees
  <2>4. ASSUME r.cache.used = 0, o.w = r
        PROVE  o.w.cache.mru = <<>>
    <3>1. P # {} => Space(r.cache.entry, P) > 0
      BY <1>6, SpareInt
    <3>2. P = {}
      <4> HIDE DEF f, P
      <4> QED
        BY <1>4, <1>6, <2>4, <3>1
    <3> QED
      BY <1>6, <2>4, <3>2, SpareInt
  <2>5. Len(o.w.cache.mru) \in Nat
    BY <1>9, SpareInt
  <2>6. o.w.cache.mru = <<>> => Len(o.w.cache.mru) = 0
    OBVIOUS
  <2> QED
    BY <1>0, <2>2, <2>3, <2>4, <2>5, <2>6 DEF Sound
<1> QED
  BY <1>12, <1>13

LEMMA FlushBroken ==
    ASSUME NEW w \in Worlds, shape \in Shapes, w.faults > 0,
           NEW n \in 1 .. Len(w.cache.mru), w.cache.entry[w.cache.mru[n]].modified
    PROVE  \E D, x : Broken(w, FlushFailed(w, n), D, x)
<1> DEFINE k == w.cache
           x == k.mru[n]
           done == {k.mru[i] : i \in 1 .. n - 1}
           D == done \cap Modified(w)
           v == Flushed(w, n - 1)
           f == Cleaned(w, D)
           e == Encoded(k.entry[x])
           g == [f EXCEPT ![x] = e]
           d == [entry |-> g, lru |-> k.lru, mru |-> k.mru, used |-> k.used]
           u == [cache |-> d, store |-> Stored(w, D), faults |-> w.faults]
<1>0. k \in Caches /\ ListOf(k.mru, Present(k)) /\ k.used \in Int /\ w.faults \in Nat
  BY WorldIs, CacheIs
<1>1. /\ x \in Present(k) /\ x \notin done
      /\ n - 1 \in 0 .. Len(k.mru)
  <2>1. /\ DOMAIN k.mru = 1 .. Len(k.mru) /\ Len(k.mru) \in Nat
        /\ \A i \in 1 .. Len(k.mru) : k.mru[i] \in Present(k)
        /\ \A i, j \in 1 .. Len(k.mru) : k.mru[i] = k.mru[j] => i = j
    BY <1>0 DEF ListOf, ToSet, IsInjective
  <2>2. \A i \in 1 .. n - 1 : i \in 1 .. Len(k.mru) /\ i # n
    BY <2>1
  <2> QED
    BY <2>1, <2>2
<1>2. x \in Modified(w) /\ D \in SUBSET (Modified(w) \ {x})
  BY <1>1, ModifiedIs
<1>3. /\ v = [cache |-> [entry |-> f, lru |-> k.lru, mru |-> k.mru, used |-> k.used],
              store |-> Stored(w, D), faults |-> w.faults]
      /\ v \in Worlds /\ Present(v.cache) = Present(k)
  <2> HIDE DEF D
  <2> QED
    BY <1>1, FlushedIs DEF D
<1>4. x \in Chunks /\ k.entry[x] \in Entries /\ f[x] = k.entry[x]
  BY <1>2, ModifiedIs DEF Cleaned
<1>5. e \in Entries
  BY <1>4, EncodedIs
<1> HIDE DEF D, x
<1>6. /\ v.cache = [entry |-> f, lru |-> k.lru, mru |-> k.mru, used |-> k.used]
      /\ v.store = Stored(w, D) /\ v.faults = w.faults /\ v.cache.entry = f
      /\ v.cache \in Caches /\ v.store \in [Chunks -> Objects \cup {Absent}]
      /\ f \in [Chunks -> Entries \cup {NoEntry}]
      /\ v.cache.lru = k.lru /\ v.cache.mru = k.mru /\ v.cache.used = k.used
  <2>1. /\ v.cache = [entry |-> f, lru |-> k.lru, mru |-> k.mru, used |-> k.used]
        /\ v.store = Stored(w, D) /\ v.faults = w.faults
    BY <1>3
  <2>2. /\ v.cache.lru = k.lru /\ v.cache.mru = k.mru /\ v.cache.used = k.used
        /\ v.cache.entry = f
    BY <2>1
  <2>3. v.cache \in Caches /\ v.store \in [Chunks -> Objects \cup {Absent}]
    BY <1>3, WorldIs
  <2>4. f \in [Chunks -> Entries \cup {NoEntry}]
    BY <2>2, <2>3, CacheIs
  <2> QED
    BY <2>1, <2>2, <2>3, <2>4
<1> HIDE DEF v, f, e
<1>7. FlushFailed(w, n) = Fault(u)
  <2>1. FlushFailed(w, n) = Fault([v EXCEPT !.cache.entry[x] = Encoded(@)])
    BY DEF FlushFailed, x, v
  <2>2. [v EXCEPT !.cache.entry[x] = Encoded(@)]
           = [v EXCEPT !.cache = [v.cache EXCEPT !.entry = [v.cache.entry EXCEPT ![x] = Encoded(v.cache.entry[x])]]]
    OBVIOUS
  <2>3. [v.cache.entry EXCEPT ![x] = Encoded(v.cache.entry[x])] = g
    BY <1>4, <1>6 DEF e
  <2>4. [v.cache EXCEPT !.entry = g] = d
    <3> HIDE DEF g, k
    <3> QED
      BY <1>6
  <2>5. [v EXCEPT !.cache = d] = u
    <3> HIDE DEF d
    <3>1. v = [cache |-> v.cache, store |-> v.store, faults |-> v.faults]
      BY <1>3, WorldIs
    <3>2. [v EXCEPT !.cache = d] = [cache |-> d, store |-> v.store, faults |-> v.faults]
      BY <3>1
    <3> QED
      BY <1>6, <3>2
  <2> HIDE DEF g, d, u
  <2> QED
    BY <2>1, <2>2, <2>3, <2>4, <2>5
<1>8. u \in Worlds
  <2>1. g \in [Chunks -> Entries \cup {NoEntry}]
    BY <1>4, <1>5, <1>6
  <2>2. \A y \in Chunks : g[y] = NoEntry <=> v.cache.entry[y] = NoEntry
    BY <1>4, <1>5, <1>6, NoEntryIsNone
  <2> DEFINE s == v.store
             t == [cache |-> [entry |-> g, lru |-> v.cache.lru, mru |-> v.cache.mru, used |-> k.used],
                   store |-> s, faults |-> v.faults]
  <2>3. t \in Worlds
    <3> HIDE DEF g, s
    <3> QED
      BY <1>0, <1>3, <1>6, <2>1, <2>2, Rewritten DEF s
  <2>4. u = t
    BY <1>6
  <2> HIDE DEF u, t
  <2> QED
    BY <2>3, <2>4
<1>9. /\ u.cache = d /\ u.store = Stored(w, D) /\ u.faults = w.faults
      /\ d.entry = g /\ d.used = k.used /\ d.mru = k.mru
  OBVIOUS
<1> DEFINE o == FlushFailed(w, n)
<1> HIDE DEF u, d
<1>10. /\ o \in Outcomes /\ ~o.ok
       /\ o.w.store = u.store /\ o.w.cache = u.cache /\ o.w.faults = u.faults - 1
  BY <1>7, <1>8, <1>9, FaultIs
<1> HIDE DEF o, g
<1>11. Broken(w, o, D, x)
  BY <1>2, <1>9, <1>10 DEF Broken, g, f, e
<1> QED
  BY <1>11 DEF o

\* NCZ_flush_chunk_cache
LEMMA FlushOutcome ==
    ASSUME NEW w \in Worlds, shape \in Shapes, NEW o \in NCZ_flush_chunk_cache(w)
    PROVE  \/ Finished(w, o) /\ (Sound(w) => Sound(o.w))
           \/ \E D, x : Broken(w, o, D, x)
<1> DEFINE n == Len(w.cache.mru)
<1>0. /\ w.cache \in Caches /\ w.faults \in Nat /\ n \in Nat
      /\ w.cache.entry \in [Chunks -> Entries \cup {NoEntry}]
      /\ w.store \in [Chunks -> Objects \cup {Absent}]
      /\ w.cache.mru \in Seq(Chunks)
  BY WorldIs, CacheIs DEF ListOf
<1>1. CASE n = 0
  <2>1. o = [w |-> w, ok |-> TRUE]
    BY <1>1 DEF NCZ_flush_chunk_cache
  <2>2. Present(w.cache) = {}
    <3>1. ListOf(w.cache.mru, Present(w.cache))
      BY <1>0, CacheIs
    <3>2. IsFiniteSet(Present(w.cache)) /\ Cardinality(Present(w.cache)) = 0
      BY <1>1, <3>1, ListSize
    <3> QED
      BY <3>2, FS_EmptySet
  <2>3. Modified(w) = {}
    BY <2>2, ModifiedIs
  <2>4. o.w = w /\ o.ok /\ o \in Outcomes
    BY <2>1 DEF Outcomes
  <2>5. Stored(w, {}) = w.store /\ \A x \in Chunks : Cleaned(w, {})[x] = w.cache.entry[x]
    BY <1>0 DEF Stored, Cleaned
  <2>6. Finished(w, o)
    BY <1>0, <2>3, <2>4, <2>5 DEF Finished
  <2> QED
    BY <2>4, <2>6
<1>2. CASE n # 0 /\ o \in verifycache(Recomputed(Flushed(w, n)))
  BY <1>2, FlushFinished
<1>3. CASE n # 0 /\ w.faults > 0 /\ \E i \in 1 .. n : /\ w.cache.entry[w.cache.mru[i]].modified
                                                      /\ o = FlushFailed(w, i)
  BY <1>3, FlushBroken
<1>4. \/ n = 0
      \/ o \in verifycache(Recomputed(Flushed(w, n)))
      \/ w.faults > 0 /\ \E i \in 1 .. n : /\ w.cache.entry[w.cache.mru[i]].modified
                                           /\ o = FlushFailed(w, i)
  BY DEF NCZ_flush_chunk_cache
<1> HIDE DEF n
<1> QED
  BY <1>1, <1>2, <1>3, <1>4

\* A flush that breaks off may have filtered an entry that stays in the cache; if
\* that makes it no larger, what is counted is still enough.
LEMMA BrokenSound ==
    ASSUME NEW w \in Worlds, shape \in Shapes, NEW o, NEW D, NEW x, Broken(w, o, D, x),
           shape.filters => shape.fsize <= ChunkSize,
           Sound(w)
    PROVE  Sound(o.w)
<1> DEFINE e == w.cache.entry
           f == o.w.cache.entry
           P == Present(w.cache)
<1>0. /\ w.cache \in Caches /\ o.w \in Worlds /\ o.w.cache \in Caches
      /\ e \in [Chunks -> Entries \cup {NoEntry}]
  BY WorldIs, CacheIs DEF Broken, Outcomes
<1>1. x \in Modified(w) /\ D \in SUBSET Modified(w)
      /\ f = [Cleaned(w, D) EXCEPT ![x] = Encoded(e[x])]
  BY DEF Broken
<1>2. \A y \in Modified(w) : y \in Chunks /\ e[y] \in Entries
  BY ModifiedIs
<1>3. \A y \in Modified(w) : f[y] = e[y] \/ f[y] = Clean(e[y]) \/ f[y] = Encoded(e[y])
  BY <1>1, <1>2 DEF Cleaned
<1>4. \A y \in Chunks \ Modified(w) : f[y] = e[y]
  BY <1>1 DEF Cleaned
<1>5. Present(o.w.cache) = P
  <2>1. \A y \in Modified(w) : f[y] # NoEntry /\ e[y] # NoEntry
    BY <1>2, <1>3, EncodedIs, NoEntryIsNone
  <2> QED
    BY <1>4, <2>1 DEF Present
<1>6. \A y \in P : SizeOf(f[y]) <= SizeOf(e[y])
  <2> SUFFICES ASSUME NEW y \in P PROVE SizeOf(f[y]) <= SizeOf(e[y])
    OBVIOUS
  <2>0. /\ y \in Chunks /\ e[y] \in Entries /\ e[y].filtered \in BOOLEAN
        /\ ChunkSize \in Nat /\ shape.fsize \in Nat
    BY <1>0, ShapeIs, ChunkCacheAssumption DEF Present, Entries
  <2>1. f[y] = e[y] \/ f[y] = Clean(e[y]) \/ f[y] = Encoded(e[y])
    BY <1>3, <1>4, <2>0
  <2>2. f[y] = e[y] \/ (f[y].filtered <=> e[y].filtered \/ shape.filters)
    BY <2>0, <2>1, EncodedIs
  <2> QED
    BY <2>0, <2>2 DEF SizeOf
<1>7. Sized(e, P) /\ Sized(f, P)
  BY <1>0, <1>5, EntriesSized
<1>8. Space(f, P) <= Space(e, P)
  <2> HIDE DEF e, f, P
  <2> QED
    BY <1>6, <1>7, SpaceGrows
<1>9. Space(f, P) \in Nat /\ Space(e, P) \in Nat
  BY <1>7, SpaceStep
<1>10. w.cache.used \in Int
  BY <1>0, CacheIs
<1>11. o.w.cache.used = w.cache.used /\ o.w.cache.mru = w.cache.mru
  BY DEF Broken
<1>12. Spare(w) = w.cache.used - Space(e, P) /\ Spare(o.w) = w.cache.used - Space(f, P)
  BY <1>5, <1>11 DEF Spare
<1>13. Spare(w) >= 0
  BY DEF Sound
<1>14. Spare(o.w) >= 0
  <2> HIDE DEF e, f, P
  <2> QED
    BY <1>8, <1>9, <1>10, <1>12, <1>13
<1> QED
  BY <1>11, <1>14 DEF Sound
----------------------------------------------------------------------------
(* What the calls of the cache keep *)

LEMMA ReadWorld ==
    ASSUME NEW w \in Worlds, shape \in Shapes, NEW c \in Chunks,
           NEW o \in NCZ_read_cache_chunk(w, c)
    PROVE  /\ o.w \in Worlds /\ o.w.faults <= w.faults
           /\ o.ok => o.w.cache.entry[c] # NoEntry
           /\ NoWrite /\ Modified(w) = {} => Modified(o.w) = {} /\ o.w.store = w.store
           /\ Sound(w) => Sound(o.w)
<1>0. w.store \in [Chunks -> Objects \cup {Absent}] /\ w.faults \in Nat
      /\ w.cache.entry \in [Chunks -> Entries \cup {NoEntry}]
  BY WorldIs, CacheIs
<1>1. CASE w.cache.entry[c] # NoEntry
  <2>1. o.ok /\ o.w = Touch(w, c)
    BY <1>1, ReadHit
  <2>2. /\ o.w \in Worlds /\ o.w.store = w.store /\ o.w.faults = w.faults
        /\ o.w.cache.entry = w.cache.entry /\ o.w.cache.used = w.cache.used
        /\ o.w.cache.mru = w.cache.mru
    BY <1>1, <2>1, TouchIs
  <2>3. Modified(o.w) = Modified(w) /\ Present(o.w.cache) = Present(w.cache)
    BY <2>2 DEF Modified, Present
  <2>4. Spare(o.w) = Spare(w)
    BY <2>2, <2>3 DEF Spare
  <2>5. Sound(w) => Sound(o.w)
    BY <2>2, <2>4 DEF Sound
  <2> QED
    BY <1>0, <1>1, <2>2, <2>3, <2>5
<1>2. CASE w.cache.entry[c] = NoEntry
  <2>1. PICK v, G, F : Missed(w, c, o, v, G, F)
    BY <1>2, ReadMiss
  <2>2. Sound(w) => Sound(o.w)
    BY <1>2, ReadMiss
  <2> DEFINE e == Fetched(w.store[c])
  <2>3. e \in Entries /\ (NoWrite => ~e.modified)
    <3>1. w.store[c] \in Objects \cup {Absent}
      BY <1>0
    <3> QED
      BY <3>1, FetchedIs
  <2>4. Evicts(w, v, G, F) /\ o.ok = v.ok /\ o.w = IF v.ok THEN Insert(v.w, c, e) ELSE v.w
    BY <2>1 DEF Missed
  <2> HIDE DEF e
  <2>5. /\ v \in Outcomes /\ v.w \in Worlds /\ v.ok \in BOOLEAN
        /\ Present(v.w.cache) = Present(w.cache) \ G
    BY <2>4, EvictsThen
  <2>6. v.w.faults \in Nat /\ v.w.faults <= w.faults
    <3>1. v.w.faults \in Nat
      BY <2>5, WorldIs
    <3>2. Cardinality(F) \in Nat /\ Cardinality(F) <= w.faults - v.w.faults
      BY <2>4, FS_CardinalityType DEF Evicts
    <3> QED
      BY <1>0, <3>1, <3>2
  <2>7. v.w.cache.entry[c] = NoEntry
    BY <1>2, <2>5 DEF Present
  <2>8. ASSUME Modified(w) = {}
        PROVE  Modified(v.w) = {} /\ v.w.store = w.store
    <3>1. Modified(v.w) = {}
      BY <2>4, <2>8 DEF Evicts, Modified
    <3>2. v.w.store = [x \in Chunks |-> w.store[x]]
      BY <2>4, <2>8 DEF Evicts
    <3> QED
      BY <1>0, <3>1, <3>2
  <2>9. CASE v.ok
    <3>1. o.w = Insert(v.w, c, e)
      BY <2>4, <2>9
    <3>2. /\ o.w \in Worlds /\ o.w.store = v.w.store /\ o.w.faults = v.w.faults
          /\ o.w.cache.entry = [v.w.cache.entry EXCEPT ![c] = e]
      <4> DEFINE u == v.w
                 i == Insert(u, c, e)
      <4>1. u \in Worlds /\ u.cache.entry[c] = NoEntry /\ e \in Entries
        BY <2>3, <2>5, <2>7
      <4> HIDE DEF u
      <4>2. /\ i \in Worlds /\ i.store = u.store /\ i.faults = u.faults
            /\ i.cache.entry = [u.cache.entry EXCEPT ![c] = e]
        BY <4>1, InsertIs
      <4>3. i = o.w
        BY <3>1 DEF u
      <4> HIDE DEF i
      <4> QED
        BY <4>2, <4>3 DEF u
    <3>3. v.w.cache.entry \in [Chunks -> Entries \cup {NoEntry}]
      BY <2>5, WorldIs, CacheIs
    <3>4. o.w.cache.entry[c] # NoEntry
      BY <2>3, <3>2, <3>3, NoEntryIsNone
    <3>5. ASSUME NoWrite, Modified(w) = {}
          PROVE  Modified(o.w) = {} /\ o.w.store = w.store
      BY <2>3, <2>8, <3>2, <3>3, <3>5 DEF Modified
    <3> QED
      BY <2>2, <2>6, <3>2, <3>4, <3>5
  <2>10. CASE ~v.ok
    BY <2>2, <2>4, <2>5, <2>6, <2>8, <2>10
  <2> QED
    BY <2>5, <2>9, <2>10
<1> QED
  BY <1>1, <1>2

LEMMA FlushWorld ==
    ASSUME NEW w \in Worlds, shape \in Shapes, NEW o \in NCZ_flush_chunk_cache(w)
    PROVE  /\ o \in Outcomes /\ o.w \in Worlds /\ o.ok \in BOOLEAN /\ o.w.faults <= w.faults
           /\ Modified(w) = {} => Finished(w, o) /\ o.w.store = w.store
           /\ o.ok => Finished(w, o)
           /\ ~o.ok => \E D, x : Broken(w, o, D, x)
           /\ (w.faults > 0 /\ shape.filters => shape.fsize <= ChunkSize) /\ Sound(w) => Sound(o.w)
<1>0. w.faults \in Nat /\ w.store \in [Chunks -> Objects \cup {Absent}]
  BY WorldIs
<1>1. CASE Finished(w, o) /\ (Sound(w) => Sound(o.w))
  <2>1. o \in Outcomes /\ o.ok /\ o.w.faults <= w.faults /\ o.w.store = Stored(w, Modified(w))
    BY <1>1 DEF Finished
  <2>2. Stored(w, {}) = w.store
    BY <1>0 DEF Stored
  <2>3. o.w \in Worlds
    BY <2>1 DEF Outcomes
  <2> QED
    BY <1>1, <2>1, <2>2, <2>3
<1>2. ASSUME NEW D, NEW x, Broken(w, o, D, x)
      PROVE  /\ o \in Outcomes /\ o.w \in Worlds /\ ~o.ok /\ o.w.faults <= w.faults
             /\ Modified(w) # {}
             /\ (w.faults > 0 /\ shape.filters => shape.fsize <= ChunkSize) /\ Sound(w)
                   => Sound(o.w)
  <2>1. /\ o \in Outcomes /\ ~o.ok /\ o.w.faults = w.faults - 1 /\ w.faults > 0
        /\ Modified(w) # {}
    BY <1>2 DEF Broken
  <2>2. o.w \in Worlds
    BY <2>1 DEF Outcomes
  <2>3. o.w.faults <= w.faults
    BY <1>0, <2>1
  <2>4. (w.faults > 0 /\ shape.filters => shape.fsize <= ChunkSize) /\ Sound(w) => Sound(o.w)
    BY <1>2, <2>1, BrokenSound
  <2> QED
    BY <2>1, <2>2, <2>3, <2>4
<1>3. ASSUME NEW D, NEW x, Broken(w, o, D, x)
      PROVE  o.ok \in BOOLEAN
  BY <1>3 DEF Broken, Outcomes
<1> QED
  BY <1>1, <1>2, <1>3, FlushOutcome
----------------------------------------------------------------------------
(* What each call of the user keeps *)

Modes == {"closed", "create", "write", "read"}

\* What a step does to the cache, the store and the faults left.
Steps(w) ==
    /\ w \in Worlds /\ Becomes(w) /\ w.faults <= faults
    /\ shape' = shape /\ mode' \in Modes /\ saved' \in BOOLEAN
    /\ mode' \in {"closed", "read"} => Modified(w) = {}
    /\ NoWrite => w.store = store
    /\ (faults > 0 /\ shape.filters => shape.fsize <= ChunkSize) /\ Sound(World) => Sound(w)

\* The lists and the table agree, and nothing is modified in a file that is open
\* for reading.
StructInv ==
    /\ shape \in Shapes /\ World \in Worlds /\ faults <= shape.faults
    /\ mode \in Modes /\ saved \in BOOLEAN
    /\ mode \in {"closed", "read"} => Modified(World) = {}

LEMMA EmptyIs ==
    ASSUME NEW w \in Worlds, shape \in Shapes, NEW s \in [Chunks -> Objects \cup {Absent}]
    PROVE  LET v == [cache |-> Empty, store |-> s, faults |-> w.faults]
           IN  v \in Worlds /\ Modified(v) = {} /\ Sound(v)
<1> DEFINE v == [cache |-> Empty, store |-> s, faults |-> w.faults]
           none == [c \in Chunks |-> NoEntry]
           nil == <<>>
<1>1. Empty = [entry |-> none, lru |-> nil, mru |-> nil, used |-> 0]
  BY DEF Empty
<1>2. none \in [Chunks -> Entries \cup {NoEntry}] /\ {x \in Chunks : none[x] # NoEntry} = {}
  OBVIOUS
<1>3. ListOf(nil, {})
  BY DEF ListOf, IsInjective, ToSet
<1>4. nil \in Seq(Chunks) /\ Len(nil) = 0
  OBVIOUS
<1> HIDE DEF none, nil
<1>5. Empty \in Caches /\ Present(Empty) = {}
  <2>1. 0 \in Int
    OBVIOUS
  <2> QED
    BY <1>1, <1>2, <1>3, <2>1, MakeCache
<1>6. v \in Worlds /\ v.cache = Empty
  BY <1>5, WithCache, WorldIs DEF Worlds
<1>7. Empty.used = 0 /\ Empty.mru = nil /\ Empty.entry = none
  BY <1>1
<1> HIDE DEF v
<1>8. Modified(v) = {}
  BY <1>5, <1>6 DEF Modified, Present
<1>9. Space(v.cache.entry, Present(v.cache)) = 0
  <2>1. Sized(v.cache.entry, {})
    BY FS_EmptySet DEF Sized
  <2> QED
    BY <1>5, <1>6, <2>1, SpaceStep
<1>10. Sound(v)
  BY <1>4, <1>6, <1>7, <1>9, ShapeIs DEF Sound, Spare
<1> QED
  BY <1>6, <1>8, <1>10 DEF v

LEMMA WorldOf == World.cache = cache /\ World.store = store /\ World.faults = faults
BY DEF World

LEMMA OpenSteps ==
    ASSUME StructInv, NEW how \in {"create", "write", "read"}, Open(how)
    PROVE  Steps(World)
<1>1. World \in Worlds /\ faults \in Nat /\ mode = "closed" /\ Modified(World) = {}
  BY WorldIs, WorldOf DEF StructInv, Open
<1>2. Becomes(World) /\ shape' = shape /\ saved' = FALSE /\ mode' = how
  BY WorldOf DEF Open, Becomes
<1>3. World.faults <= faults /\ World.store = store
  BY <1>1, WorldOf
<1>4. mode' \in Modes
  BY <1>2 DEF Modes
<1>5. saved' \in BOOLEAN
  BY <1>2
<1> QED
  BY <1>1, <1>2, <1>3, <1>4, <1>5 DEF Steps

LEMMA ReadSteps ==
    ASSUME StructInv, NEW c \in Chunks, Read(c)
    PROVE  \E w : Steps(w)
<1>1. PICK o \in NCZ_read_cache_chunk(World, c) : Becomes(o.w)
  BY DEF Read
<1>2. /\ World \in Worlds /\ shape \in Shapes /\ mode \in Modes
      /\ mode = "read" => Modified(World) = {}
  BY DEF StructInv
<1>3. /\ o.w \in Worlds /\ o.w.faults <= World.faults
      /\ NoWrite /\ Modified(World) = {} => Modified(o.w) = {} /\ o.w.store = World.store
      /\ Sound(World) => Sound(o.w)
  BY <1>2, ReadWorld
<1>4. mode # "closed" /\ mode' = mode /\ shape' = shape /\ saved' = FALSE
  BY DEF Read, Returns
<1>5. Steps(o.w)
  BY <1>1, <1>2, <1>3, <1>4, WorldOf DEF Steps, NoWrite
<1> QED
  BY <1>5

LEMMA WriteSteps ==
    ASSUME StructInv, NEW c \in Chunks, NEW x \in Values, Write(c, x)
    PROVE  \E w : Steps(w)
<1>1. PICK o \in NCZ_read_cache_chunk(World, c) : Becomes(IF o.ok THEN Modify(o.w, c, x) ELSE o.w)
  BY DEF Write
<1>2. World \in Worlds /\ shape \in Shapes /\ mode \in Modes
  BY DEF StructInv
<1>3. /\ o.w \in Worlds /\ o.w.faults <= World.faults
      /\ o.ok => o.w.cache.entry[c] # NoEntry
      /\ Sound(World) => Sound(o.w)
  BY <1>2, ReadWorld
<1>4. mode \in {"create", "write"} /\ mode' = mode /\ shape' = shape /\ saved' = FALSE
  BY DEF Write, Returns
<1>5. CASE o.ok
  <2> DEFINE v == Modify(o.w, c, x)
  <2>1. /\ v \in Worlds /\ v.faults = o.w.faults /\ v.cache.used = o.w.cache.used
        /\ v.cache.mru = o.w.cache.mru /\ Spare(v) = Spare(o.w)
    <3>1. o.w \in Worlds /\ shape \in Shapes /\ o.w.cache.entry[c] # NoEntry
      BY <1>2, <1>3, <1>5
    <3> QED
      BY <3>1, ModifyIs
  <2>2. Becomes(v)
    BY <1>1, <1>5
  <2> HIDE DEF v
  <2>3. Sound(o.w) => Sound(v)
    BY <2>1 DEF Sound
  <2>4. Steps(v)
    BY <1>2, <1>3, <1>4, <2>1, <2>2, <2>3, WorldOf DEF Steps, NoWrite
  <2> QED
    BY <2>4
<1>6. CASE ~o.ok
  <2>1. Becomes(o.w)
    BY <1>1, <1>6
  <2>2. Steps(o.w)
    BY <1>2, <1>3, <1>4, <2>1, WorldOf DEF Steps, NoWrite
  <2> QED
    BY <2>2
<1> QED
  BY <1>5, <1>6

LEMMA SyncSteps ==
    ASSUME StructInv, Sync
    PROVE  \E w : Steps(w)
<1>1. PICK o \in NCZ_flush_chunk_cache(World) : Becomes(o.w) /\ saved' = o.ok
  BY DEF Sync
<1>2. World \in Worlds /\ shape \in Shapes /\ mode \in Modes
  BY DEF StructInv
<1>3. /\ o.w \in Worlds /\ o.ok \in BOOLEAN /\ o.w.faults <= World.faults
      /\ (World.faults > 0 /\ shape.filters => shape.fsize <= ChunkSize) /\ Sound(World)
            => Sound(o.w)
  BY <1>2, FlushWorld
<1>4. mode \in {"create", "write"} /\ mode' = mode /\ shape' = shape
  BY DEF Sync
<1>5. Steps(o.w)
  BY <1>1, <1>2, <1>3, <1>4, WorldOf DEF Steps, NoWrite
<1> QED
  BY <1>5

\* NCZ_close of a file that is open for writing flushes twice, the second time
\* with nothing to write.
LEMMA CloseSteps ==
    ASSUME StructInv, Close
    PROVE  \E w : Steps(w)
<1>0. World \in Worlds /\ shape \in Shapes /\ mode \in Modes /\ mode # "closed"
      /\ (mode = "read" => Modified(World) = {}) /\ shape' = shape
      /\ faults \in Nat /\ World.faults = faults
  BY WorldIs, WorldOf DEF StructInv, Close
<1>p. PICK o \in NCZ_flush_chunk_cache(World) :
         \E p \in IF NoWrite \/ o.ok THEN NCZ_flush_chunk_cache(IF NoWrite THEN World ELSE o.w)
                                     ELSE {o} :
            /\ Becomes(IF p.ok THEN [p.w EXCEPT !.cache = Empty] ELSE p.w)
            /\ mode' = IF p.ok THEN "closed" ELSE mode
            /\ saved' = p.ok
  BY DEF Close
<1>1. PICK p \in IF NoWrite \/ o.ok THEN NCZ_flush_chunk_cache(IF NoWrite THEN World ELSE o.w)
                                    ELSE {o} :
         /\ Becomes(IF p.ok THEN [p.w EXCEPT !.cache = Empty] ELSE p.w)
         /\ mode' = IF p.ok THEN "closed" ELSE mode
         /\ saved' = p.ok
  BY <1>p
<1>2. /\ o \in Outcomes /\ o.w \in Worlds /\ o.ok \in BOOLEAN /\ o.w.faults <= World.faults
      /\ (World.faults > 0 /\ shape.filters => shape.fsize <= ChunkSize) /\ Sound(World)
            => Sound(o.w)
  BY <1>0, FlushWorld
<1>3. o.w.faults \in Nat
  BY <1>2, WorldIs
<1>4. /\ p.w \in Worlds /\ p.ok \in BOOLEAN /\ p.w.faults <= World.faults
      /\ (World.faults > 0 /\ shape.filters => shape.fsize <= ChunkSize) /\ Sound(World)
            => Sound(p.w)
      /\ NoWrite => p.ok /\ p.w.store = World.store
  <2>1. CASE NoWrite
    <3>1. p \in NCZ_flush_chunk_cache(World) /\ Modified(World) = {}
      BY <1>0, <1>1, <2>1 DEF NoWrite
    <3>2. Finished(World, p) /\ p.w.store = World.store
      BY <1>0, <3>1, FlushWorld
    <3>3. /\ p.w \in Worlds /\ p.ok \in BOOLEAN /\ p.w.faults <= World.faults
          /\ (World.faults > 0 /\ shape.filters => shape.fsize <= ChunkSize) /\ Sound(World)
                => Sound(p.w)
      BY <1>0, <3>1, FlushWorld
    <3>4. p.ok
      BY <3>2 DEF Finished
    <3> QED
      BY <3>2, <3>3, <3>4
  <2>2. CASE ~NoWrite /\ o.ok
    <3>1. p \in NCZ_flush_chunk_cache(o.w)
      BY <1>1, <2>2
    <3>2. /\ p.w \in Worlds /\ p.ok \in BOOLEAN /\ p.w.faults <= o.w.faults
          /\ (o.w.faults > 0 /\ shape.filters => shape.fsize <= ChunkSize) /\ Sound(o.w)
                => Sound(p.w)
      BY <1>0, <1>2, <3>1, FlushWorld
    <3>3. p.w.faults \in Nat
      BY <3>2, WorldIs
    <3>4. p.w.faults <= World.faults /\ (o.w.faults > 0 => World.faults > 0)
      BY <1>0, <1>2, <1>3, <3>2, <3>3
    <3> QED
      BY <1>2, <2>2, <3>2, <3>4
  <2>3. CASE ~NoWrite /\ ~o.ok
    <3>1. p = o
      BY <1>1, <2>3
    <3> QED
      BY <1>2, <2>3, <3>1
  <2> QED
    BY <2>1, <2>2, <2>3
<1>5. CASE p.ok
  <2> DEFINE v == [cache |-> Empty, store |-> p.w.store, faults |-> p.w.faults]
  <2>1. [p.w EXCEPT !.cache = Empty] = v
    <3>1. p.w = [cache |-> p.w.cache, store |-> p.w.store, faults |-> p.w.faults]
      BY <1>4, WorldIs
    <3> DEFINE k == p.w.cache
               s == p.w.store
               f == p.w.faults
               e == Empty
    <3>2. p.w = [cache |-> k, store |-> s, faults |-> f]
      BY <3>1
    <3> HIDE DEF k, s, f, e
    <3>3. [p.w EXCEPT !.cache = e] = [cache |-> e, store |-> s, faults |-> f]
      BY <3>2
    <3> QED
      BY <3>3 DEF s, f, e
  <2>2. p.w.store \in [Chunks -> Objects \cup {Absent}]
    BY <1>4, WorldIs
  <2>3. v \in Worlds /\ Modified(v) = {} /\ Sound(v)
    BY <1>0, <1>4, <2>2, EmptyIs
  <2>4. v.store = p.w.store /\ v.faults = p.w.faults
    OBVIOUS
  <2> HIDE DEF v
  <2>5. Becomes(v) /\ mode' = "closed"
    BY <1>1, <1>5, <2>1
  <2>6. Steps(v)
    <3>1. v.faults <= faults /\ saved' \in BOOLEAN /\ mode' \in Modes /\ (NoWrite => v.store = store)
      BY <1>0, <1>1, <1>4, <2>4, <2>5, WorldOf DEF Modes
    <3> QED
      BY <1>0, <2>3, <2>5, <3>1 DEF Steps
  <2> QED
    BY <2>6
<1>6. CASE ~p.ok
  <2>1. Becomes(p.w) /\ mode' = mode /\ saved' \in BOOLEAN /\ ~NoWrite
    BY <1>1, <1>4, <1>6
  <2>2. mode' \notin {"closed", "read"} /\ mode' \in Modes /\ p.w.faults <= faults
    BY <1>0, <1>4, <2>1 DEF NoWrite
  <2>3. Steps(p.w)
    BY <1>0, <1>4, <2>1, <2>2 DEF Steps
  <2> QED
    BY <2>3
<1> QED
  BY <1>4, <1>5, <1>6

LEMMA LostSteps ==
    ASSUME StructInv, Abort \/ Crash
    PROVE  \E w : Steps(w)
<1> DEFINE s == IF Abort /\ mode = "create" THEN [c \in Chunks |-> Absent] ELSE store
           v == [cache |-> Empty, store |-> s, faults |-> World.faults]
<1>0. /\ World \in Worlds /\ shape \in Shapes /\ store \in [Chunks -> Objects \cup {Absent}]
      /\ faults \in Nat /\ World.faults = faults
  BY WorldIs, WorldOf DEF StructInv
<1>1. s \in [Chunks -> Objects \cup {Absent}]
  BY <1>0
<1>2. /\ cache' = Empty /\ faults' = faults /\ shape' = shape
      /\ mode' = "closed" /\ saved' = FALSE
  BY DEF Abort, Crash
<1>3. store' = s
  BY DEF Abort, Crash
<1>4. NoWrite => s = store
  BY DEF NoWrite
<1> HIDE DEF s
<1>5. v \in Worlds /\ Modified(v) = {} /\ Sound(v)
  BY <1>0, <1>1, EmptyIs
<1>6. v.cache = Empty /\ v.store = s /\ v.faults = faults
  BY <1>0
<1> HIDE DEF v
<1>7. Becomes(v) /\ v.faults <= faults
  BY <1>0, <1>2, <1>3, <1>6 DEF Becomes
<1>8. mode' \in Modes
  BY <1>2 DEF Modes
<1>9. saved' \in BOOLEAN
  BY <1>2
<1>10. Steps(v)
  BY <1>2, <1>4, <1>5, <1>6, <1>7, <1>8, <1>9 DEF Steps
<1> QED
  BY <1>10

LEMMA NextSteps ==
    ASSUME StructInv, [Next]_vars
    PROVE  \E w : Steps(w)
<1>1. CASE UNCHANGED vars
  <2>1. World \in Worlds /\ faults \in Nat
    BY WorldIs, WorldOf DEF StructInv
  <2>2. /\ Becomes(World) /\ shape' = shape /\ mode' = mode /\ saved' = saved
        /\ World.faults <= faults /\ World.store = store
    BY <1>1, <2>1, WorldOf DEF Becomes, vars
  <2>3. mode \in Modes /\ saved \in BOOLEAN /\ (mode \in {"closed", "read"} => Modified(World) = {})
    BY DEF StructInv
  <2>4. Steps(World)
    BY <2>1, <2>2, <2>3 DEF Steps
  <2> QED
    BY <2>4
<1>2. CASE \E how \in {"create", "write", "read"} : Open(how)
  BY <1>2, OpenSteps
<1>3. CASE \E c \in Chunks : Read(c)
  BY <1>3, ReadSteps
<1>4. CASE \E c \in Chunks, v \in Values : Write(c, v)
  BY <1>4, WriteSteps
<1>5. CASE Sync
  BY <1>5, SyncSteps
<1>6. CASE Close
  BY <1>6, CloseSteps
<1>7. CASE Abort \/ Crash
  BY <1>7, LostSteps
<1> QED
  BY <1>1, <1>2, <1>3, <1>4, <1>5, <1>6, <1>7 DEF Next

LEMMA StructInit == Init => StructInv /\ Sound(World)
<1> SUFFICES ASSUME Init PROVE StructInv /\ Sound(World)
  OBVIOUS
<1>1. /\ shape \in Shapes /\ cache = Empty /\ store = [c \in Chunks |-> Absent]
      /\ faults = shape.faults /\ mode = "closed" /\ saved = FALSE
  BY DEF Init
<1>2. shape.faults \in Nat
  BY <1>1, ShapeIs
<1> DEFINE s == [c \in Chunks |-> Absent]
           none == [c \in Chunks |-> NoEntry]
<1>3. s \in [Chunks -> Objects \cup {Absent}]
  OBVIOUS
<1>4. World = [cache |-> Empty, store |-> s, faults |-> faults]
  BY <1>1 DEF World
<1> HIDE DEF s
<1>5. Empty \in Caches
  <2>1. Empty = [entry |-> none, lru |-> <<>>, mru |-> <<>>, used |-> 0]
    BY DEF Empty
  <2>2. none \in [Chunks -> Entries \cup {NoEntry}] /\ {x \in Chunks : none[x] # NoEntry} = {}
    OBVIOUS
  <2>3. ListOf(<<>>, {})
    BY DEF ListOf, IsInjective, ToSet
  <2> HIDE DEF none
  <2> QED
    BY <2>1, <2>2, <2>3, MakeCache
<1> DEFINE w == [cache |-> Empty, store |-> s, faults |-> shape.faults]
<1>6. w \in Worlds /\ w.faults = faults
  BY <1>1, <1>2, <1>3, <1>5 DEF Worlds
<1> HIDE DEF w
<1>7. World \in Worlds /\ Modified(World) = {} /\ Sound(World)
  BY <1>1, <1>3, <1>4, <1>6, EmptyIs
<1>8. mode \in Modes /\ faults <= shape.faults
  BY <1>1, <1>2 DEF Modes
<1>9. saved \in BOOLEAN
  BY <1>1
<1> QED
  BY <1>1, <1>7, <1>8, <1>9 DEF StructInv

LEMMA StructStep ==
    ASSUME StructInv, NEW w, Steps(w)
    PROVE  StructInv' /\ World' = w
<1>1. /\ w \in Worlds /\ Becomes(w) /\ w.faults <= faults
      /\ shape' = shape /\ mode' \in Modes /\ saved' \in BOOLEAN
      /\ mode' \in {"closed", "read"} => Modified(w) = {}
  BY DEF Steps
<1>2. World' = w
  <2>1. World' = [cache |-> w.cache, store |-> w.store, faults |-> w.faults]
    BY <1>1 DEF World, Becomes
  <2> QED
    BY <1>1, <2>1, WorldIs
<1>3. faults' <= shape'.faults
  <2>1. faults \in Nat /\ w.faults \in Nat /\ shape.faults \in Nat /\ faults <= shape.faults
    BY <1>1, WorldIs, WorldOf, ShapeIs DEF StructInv
  <2>2. faults' = w.faults
    BY <1>1 DEF Becomes
  <2> QED
    BY <1>1, <2>1, <2>2
<1>4. Modified(World)' = Modified(World')
  BY DEF Modified
<1> QED
  BY <1>1, <1>2, <1>3, <1>4 DEF StructInv

\* A file that is open for reading is not written, whatever the variable is like
\* and whichever calls of the store fail: no entry of its cache is ever marked
\* modified, so that neither an eviction nor NCZ_close has anything to put.
THEOREM ReadOnlyUntouched == Spec => ReadOnlyStays
<1>1. Init => StructInv
  BY StructInit
<1>2. StructInv /\ [Next]_vars => StructInv' /\ (NoWrite => store' = store)
  <2> SUFFICES ASSUME StructInv, [Next]_vars
               PROVE  StructInv' /\ (NoWrite => store' = store)
    OBVIOUS
  <2>1. PICK w : Steps(w)
    BY NextSteps
  <2>2. StructInv'
    BY <2>1, StructStep
  <2>3. NoWrite => store' = store
    BY <2>1 DEF Steps, Becomes
  <2> QED
    BY <2>2, <2>3
<1> QED
  BY <1>1, <1>2, PTL DEF Spec, ReadOnlyStays
----------------------------------------------------------------------------
(* The space that is counted *)

SizeFor(s, e) == IF e.filtered THEN s.fsize ELSE ChunkSize

SpaceFor(s, entry, S) == MapThenSumSet(LAMBDA x : SizeFor(s, entry[x]), S)

\* Sound, as a statement about a variable and its cache.
SoundFor(s, c) ==
    /\ c.used >= SpaceFor(s, c.entry, Present(c))
    /\ Len(c.mru) <= s.nelems + 1
    /\ c.used <= s.size \/ Len(c.mru) <= 1

LEMMA SpaceForIs ==
    ASSUME NEW e, NEW S
    PROVE  SpaceFor(shape, e, S) = Space(e, S)
BY DEF SpaceFor, Space, SizeFor, SizeOf

LEMMA SoundForIs ==
    ASSUME NEW w \in Worlds, shape \in Shapes
    PROVE  Sound(w) <=> SoundFor(shape, w.cache)
<1>1. SpaceFor(shape, w.cache.entry, Present(w.cache)) = Space(w.cache.entry, Present(w.cache))
  BY SpaceForIs
<1>2. /\ Space(w.cache.entry, Present(w.cache)) \in Nat /\ w.cache.used \in Int
  BY SpareInt
<1>3. Spare(w) = w.cache.used - Space(w.cache.entry, Present(w.cache))
  BY DEF Spare
<1>4. Spare(w) >= 0 <=> w.cache.used >= SpaceFor(shape, w.cache.entry, Present(w.cache))
  BY <1>1, <1>2, <1>3
<1> QED
  BY <1>4 DEF Sound, SoundFor

\* Where calls of the store fail, filters make a chunk no larger.  Otherwise a
\* flush that breaks off leaves larger entries than are counted.
Shrinks == \A s \in Shapes : s.filters /\ s.faults > 0 => s.fsize <= ChunkSize

CacheInv == StructInv /\ SoundFor(shape, cache)

LEMMA CacheInit == Init => CacheInv
<1> SUFFICES ASSUME Init PROVE CacheInv
  OBVIOUS
<1>1. StructInv /\ Sound(World)
  BY StructInit
<1>2. World \in Worlds /\ shape \in Shapes /\ World.cache = cache
  BY <1>1, WorldOf DEF StructInv
<1> QED
  BY <1>1, <1>2, SoundForIs DEF CacheInv

LEMMA CacheStep ==
    ASSUME Shrinks, CacheInv, [Next]_vars
    PROVE  CacheInv'
<1>1. StructInv /\ SoundFor(shape, cache)
  BY DEF CacheInv
<1>2. PICK w : Steps(w)
  BY <1>1, NextSteps
<1>3. StructInv' /\ World' = w
  BY <1>1, <1>2, StructStep
<1>4. World \in Worlds /\ shape \in Shapes /\ World.cache = cache
  BY <1>1, WorldOf DEF StructInv
<1>5. Sound(World)
  BY <1>1, <1>4, SoundForIs
<1>6. faults > 0 /\ shape.filters => shape.fsize <= ChunkSize
  <2>1. faults \in Nat /\ shape.faults \in Nat /\ faults <= shape.faults
    BY <1>1, <1>4, WorldIs, WorldOf, ShapeIs DEF StructInv
  <2>2. faults > 0 => shape.faults > 0
    BY <2>1
  <2> QED
    BY <1>4, <2>2 DEF Shrinks
<1>7. w \in Worlds /\ Sound(w) /\ cache' = w.cache /\ shape' = shape
  BY <1>2, <1>5, <1>6 DEF Steps, Becomes
<1>8. SoundFor(shape, w.cache)
  BY <1>4, <1>7, SoundForIs
<1>9. SoundFor(shape', cache')
  BY <1>7, <1>8
<1> QED
  BY <1>3, <1>9 DEF CacheInv

LEMMA CacheInvMeans ==
    ASSUME CacheInv
    PROVE  TypeOK /\ UsedCovers /\ Bounded
<1>1. StructInv /\ SoundFor(shape, cache)
  BY DEF CacheInv
<1>2. /\ World \in Worlds /\ shape \in Shapes /\ World.cache = cache /\ World.store = store
      /\ World.faults = faults /\ faults <= shape.faults
  BY <1>1, WorldOf DEF StructInv
<1>3. /\ cache \in Caches /\ store \in [Chunks -> Objects \cup {Absent}] /\ faults \in Nat
  BY <1>2, WorldIs
<1>4. /\ cache.entry \in [Chunks -> Entries \cup {NoEntry}]
      /\ ListOf(cache.lru, Present(cache)) /\ ListOf(cache.mru, Present(cache))
      /\ cache.used \in Int
  BY <1>3, CacheIs
<1>5. SpaceFor(shape, cache.entry, Present(cache)) = Space(cache.entry, Present(cache))
  BY SpaceForIs
<1>6. Space(cache.entry, Present(cache)) \in Nat
  BY <1>2, <1>3, EntriesSized
<1>7. cache.used >= Space(cache.entry, Present(cache)) /\ Bounded
  BY <1>1, <1>5 DEF SoundFor, Bounded
<1>8. ToSet(cache.mru) = Present(cache)
  BY <1>4 DEF ListOf
<1>9. UsedCovers
  BY <1>7, <1>8 DEF UsedCovers
<1>10. TypeOK
  <2>1. cache.used \in Nat
    BY <1>4, <1>6, <1>7
  <2>2. faults \in 0 .. shape.faults
    BY <1>2, <1>3, ShapeIs
  <2>3. \A list \in {cache.lru, cache.mru} :
          IsInjective(list) /\ ToSet(list) = {c \in Chunks : cache.entry[c] # NoEntry}
    BY <1>4 DEF ListOf, Present
  <2>4. mode \in {"closed", "create", "write", "read"} /\ saved \in BOOLEAN
    BY <1>1 DEF StructInv, Modes
  <2>5. store \in [Chunks -> [filtered : BOOLEAN, data : Values \cup {Fill, Garbage}] \cup {Absent}]
    BY <1>3 DEF Objects
  <2> QED
    BY <1>4, <2>1, <2>2, <2>3, <2>4, <2>5 DEF TypeOK
<1> QED
  BY <1>7, <1>9, <1>10

\* The table and both lists of the cache hold the same chunks, each once, and
\* what is counted is never negative.
THEOREM CacheTypeCorrect == Shrinks => (Spec => []TypeOK)
<1> SUFFICES ASSUME Shrinks PROVE Spec => []TypeOK
  OBVIOUS
<1>1. CacheInv /\ [Next]_vars => CacheInv'
  BY CacheStep
<1>2. CacheInv => TypeOK
  BY CacheInvMeans
<1> QED
  BY <1>1, <1>2, CacheInit, PTL DEF Spec

\* constraincache never subtracts more than is counted: also when a flush has
\* filtered entries in place, or has broken off, or a write-back has failed, used
\* is at least the space of the chunks in the cache.
THEOREM SpaceCovered == Shrinks => (Spec => []UsedCovers)
<1> SUFFICES ASSUME Shrinks PROVE Spec => []UsedCovers
  OBVIOUS
<1>1. CacheInv /\ [Next]_vars => CacheInv'
  BY CacheStep
<1>2. CacheInv => UsedCovers
  BY CacheInvMeans
<1> QED
  BY <1>1, <1>2, CacheInit, PTL DEF Spec

\* Whatever size and nelems are, the cache never holds more than nelems + 1 chunks,
\* and more than size only with a single chunk in it.
THEOREM SpaceBounded == Shrinks => (Spec => []Bounded)
<1> SUFFICES ASSUME Shrinks PROVE Spec => []Bounded
  OBVIOUS
<1>1. CacheInv /\ [Next]_vars => CacheInv'
  BY CacheStep
<1>2. CacheInv => Bounded
  BY CacheInvMeans
<1> QED
  BY <1>1, <1>2, CacheInit, PTL DEF Spec
----------------------------------------------------------------------------
(* The store of chunks.  What is stated here is about variables whose chunks *)
(* survive: no scalar, and with filters no failing store and no nc_sync.     *)

Survives(s) == ~s.scalar /\ (s.filters => s.faults = 0 /\ ~s.sync)

Held(o) == IF o = Absent THEN Fill ELSE o.data

SavedIn(w) == [c \in Chunks |-> Held(w.store[c])]

Seen(w) ==
    [c \in Chunks |-> IF w.cache.entry[c] # NoEntry THEN w.cache.entry[c].data
                                                   ELSE Held(w.store[c])]

\* The objects are filtered if the variable has filters, the entries are not, and
\* an entry that is not modified holds what is in the store.
StoreFaithful(f, w) == \A x \in Chunks : w.store[x] # Absent => w.store[x].filtered = f

Faithful(f, w) ==
    /\ StoreFaithful(f, w)
    /\ \A x \in Present(w.cache) :
          /\ ~w.cache.entry[x].filtered
          /\ ~w.cache.entry[x].modified => w.cache.entry[x].data = Held(w.store[x])

\* From world w to v the chunks of W are written back and those of D are lost.
Moves(w, v, W, D) ==
    /\ W \in SUBSET Chunks /\ D \in SUBSET Chunks /\ W \cap D = {}
    /\ v.faults \in 0 .. w.faults
    /\ Cardinality(D) <= w.faults - v.faults
    /\ SavedIn(v) = [c \in Chunks |-> IF c \in W THEN Seen(w)[c] ELSE SavedIn(w)[c]]
    /\ Seen(v) = [c \in Chunks |-> IF c \in D THEN SavedIn(w)[c] ELSE Seen(w)[c]]

LEMMA ObjectHeld ==
    ASSUME NEW e \in Entries, shape \in Shapes
    PROVE  /\ Object(e) # Absent /\ Held(Object(e)) = e.data
           /\ ~e.filtered => Object(e).filtered = shape.filters
<1>1. Object(e) \in Objects
  BY ObjectIs
<1>2. Object(e) # Absent
  BY <1>1, NoEntryIsNone
<1>3. Object(e) = [filtered |-> Encoded(e).filtered, data |-> e.data]
  BY DEF Object
<1>4. Object(e).data = e.data /\ Object(e).filtered = Encoded(e).filtered
  BY <1>3
<1>5. ASSUME ~e.filtered
      PROVE  Object(e).filtered = shape.filters
  <2>1. Encoded(e).filtered <=> shape.filters
    BY <1>5, EncodedIs
  <2>2. Encoded(e).filtered \in BOOLEAN /\ shape.filters \in BOOLEAN
    BY EncodedIs, ShapeIs DEF Entries
  <2> QED
    BY <1>4, <2>1, <2>2
<1> QED
  BY <1>2, <1>4, <1>5 DEF Held

\* A chunk that leaves the cache is in the store, unless writing it failed.
LEMMA EvictsMoves ==
    ASSUME NEW w \in Worlds, shape \in Shapes, Faithful(shape.filters, w),
           NEW o, NEW G, NEW F, Evicts(w, o, G, F)
    PROVE  /\ Moves(w, o.w, (G \cap Modified(w)) \ F, F)
           /\ Faithful(shape.filters, o.w)
<1> DEFINE e == w.cache.entry
           W == (G \cap Modified(w)) \ F
           v == o.w
<1>0. /\ v \in Worlds /\ Present(v.cache) = Present(w.cache) \ G
      /\ w.faults \in Nat /\ v.faults \in Nat
      /\ w.store \in [Chunks -> Objects \cup {Absent}]
      /\ e \in [Chunks -> Entries \cup {NoEntry}]
  BY EvictsThen, WorldIs, CacheIs
<1>1. /\ G \in SUBSET Present(w.cache) /\ F \in SUBSET (G \cap Modified(w)) /\ IsFiniteSet(F)
      /\ Cardinality(F) <= w.faults - v.faults
      /\ v.cache.entry = [x \in Chunks |-> IF x \in G THEN NoEntry ELSE e[x]]
      /\ v.store = [x \in Chunks |-> IF x \in W THEN Object(e[x]) ELSE w.store[x]]
  BY DEF Evicts
<1>2. Modified(w) = {x \in Present(w.cache) : e[x].modified}
      /\ \A x \in Present(w.cache) : x \in Chunks /\ e[x] \in Entries /\ e[x] # NoEntry
  BY <1>0, ModifiedIs, CacheIs, WorldIs, NoEntryIsNone
<1>3. v.faults \in 0 .. w.faults
  <2>1. Cardinality(F) \in Nat
    BY <1>1, FS_CardinalityType
  <2> QED
    BY <1>0, <1>1, <2>1
<1> HIDE DEF e, v
<1>4. \A x \in Chunks : x \in W => /\ Held(v.store[x]) = e[x].data /\ v.store[x] # Absent
                                   /\ v.store[x].filtered = shape.filters
  <2> SUFFICES ASSUME NEW x \in W
               PROVE  /\ Held(v.store[x]) = e[x].data /\ v.store[x] # Absent
                      /\ v.store[x].filtered = shape.filters
    OBVIOUS
  <2>1. x \in Present(w.cache) /\ x \in Chunks /\ e[x] \in Entries
    BY <1>2
  <2>2. ~e[x].filtered
    BY <2>1 DEF Faithful, e
  <2>3. v.store[x] = Object(e[x])
    BY <1>1, <2>1
  <2> QED
    BY <2>1, <2>2, <2>3, ObjectHeld
<1>5. \A x \in Chunks : x \notin W => v.store[x] = w.store[x]
  BY <1>1
<1>6. \A x \in Chunks : IF x \in G THEN v.cache.entry[x] = NoEntry ELSE v.cache.entry[x] = e[x]
  BY <1>1
<1>7. /\ SavedIn(v) = [c \in Chunks |-> Held(v.store[c])]
      /\ SavedIn(w) = [c \in Chunks |-> Held(w.store[c])]
      /\ Seen(w) = [c \in Chunks |-> IF e[c] # NoEntry THEN e[c].data ELSE Held(w.store[c])]
      /\ Seen(v) = [c \in Chunks |-> IF v.cache.entry[c] # NoEntry THEN v.cache.entry[c].data
                                     ELSE Held(v.store[c])]
  BY DEF SavedIn, Seen, e
<1>8. \A x \in W : x \in Chunks /\ e[x] # NoEntry /\ x \in G /\ x \notin F
  BY <1>1, <1>2
<1>9. \A x \in G : e[x] # NoEntry /\ x \in Chunks
  BY <1>1, <1>2
<1>10. \A x \in G : x \notin W /\ x \notin F => e[x].data = Held(w.store[x])
  BY <1>1, <1>2 DEF Faithful, e
<1>11. Faithful(shape.filters, v)
  <2>1. StoreFaithful(shape.filters, v)
    BY <1>4, <1>5 DEF Faithful, StoreFaithful
  <2>2. \A x \in Present(v.cache) : x \in Present(w.cache) /\ x \in Chunks
                                    /\ v.cache.entry[x] = e[x] /\ v.store[x] = w.store[x]
    BY <1>0, <1>2, <1>5, <1>6, <1>8
  <2> QED
    BY <2>1, <2>2 DEF Faithful, e
<1> HIDE DEF W
<1>12. SavedIn(v) = [c \in Chunks |-> IF c \in W THEN Seen(w)[c] ELSE SavedIn(w)[c]]
  BY <1>4, <1>5, <1>7, <1>8
<1>13. F \in SUBSET G /\ F \cap W = {} /\ W \in SUBSET Chunks /\ F \in SUBSET Chunks
  BY <1>1, <1>8, <1>9
<1>14. Seen(v) = [c \in Chunks |-> IF c \in F THEN SavedIn(w)[c] ELSE Seen(w)[c]]
  <2>1. ASSUME NEW c \in Chunks
        PROVE  Seen(v)[c] = IF c \in F THEN SavedIn(w)[c] ELSE Seen(w)[c]
    <3>1. CASE c \notin G
      <4>1. c \notin W /\ c \notin F
        BY <1>8, <1>13, <3>1
      <4> QED
        BY <1>5, <1>6, <1>7, <3>1, <4>1
    <3>2. CASE c \in W
      BY <1>4, <1>6, <1>7, <1>8, <3>2
    <3>3. CASE c \in G /\ c \notin W /\ c \notin F
      BY <1>5, <1>6, <1>7, <1>9, <1>10, <3>3
    <3>4. CASE c \in F
      BY <1>5, <1>6, <1>7, <1>13, <3>4
    <3> QED
      BY <3>1, <3>2, <3>3, <3>4
  <2>2. Seen(v) = [c \in Chunks |-> Seen(v)[c]]
    BY <1>7
  <2> QED
    BY <2>1, <2>2
<1>15. Moves(w, v, W, F)
  BY <1>1, <1>3, <1>12, <1>13, <1>14 DEF Moves, v
<1> QED
  BY <1>11, <1>15 DEF v, W

\* A chunk that is put into the cache is what the store holds.
LEMMA InsertMoves ==
    ASSUME NEW w \in Worlds, shape \in Shapes, Faithful(shape.filters, w),
           NEW c \in Chunks, w.cache.entry[c] = NoEntry,
           NEW v, v = Insert(w, c, Fetched(w.store[c]))
    PROVE  Seen(v) = Seen(w) /\ SavedIn(v) = SavedIn(w) /\ Faithful(shape.filters, v)
<1> DEFINE e == Fetched(w.store[c])
<1>0. /\ w.store \in [Chunks -> Objects \cup {Absent}]
      /\ w.cache.entry \in [Chunks -> Entries \cup {NoEntry}]
  BY WorldIs, CacheIs
<1>1. w.store[c] \in Objects \cup {Absent}
  BY <1>0
<1>2. /\ e \in Entries /\ ~e.filtered
      /\ e.data = IF w.store[c] = Absent THEN Fill ELSE Decoded(w.store[c])
  BY <1>1, FetchedIs
<1>3. e.data = Held(w.store[c])
  BY <1>2 DEF Held, Decoded, Faithful, StoreFaithful
<1>4. v = Insert(w, c, e)
  OBVIOUS
<1> HIDE DEF e
<1>5. v \in Worlds /\ v.store = w.store /\ v.cache.entry = [w.cache.entry EXCEPT ![c] = e]
  BY <1>2, <1>4, InsertIs
<1>6. /\ v.cache.entry[c] = e /\ e # NoEntry
      /\ \A x \in Chunks : x # c => v.cache.entry[x] = w.cache.entry[x]
  BY <1>0, <1>2, <1>5, NoEntryIsNone
<1>7. SavedIn(v) = SavedIn(w)
  BY <1>5 DEF SavedIn
<1>8. \A x \in Chunks :
         (IF v.cache.entry[x] # NoEntry THEN v.cache.entry[x].data ELSE Held(v.store[x]))
       = (IF w.cache.entry[x] # NoEntry THEN w.cache.entry[x].data ELSE Held(w.store[x]))
  BY <1>3, <1>5, <1>6
<1>9. Seen(v) = Seen(w)
  BY <1>8 DEF Seen
<1>10. Faithful(shape.filters, v)
  BY <1>2, <1>3, <1>5, <1>6 DEF Faithful, StoreFaithful, Present
<1> QED
  BY <1>7, <1>9, <1>10

\* NCZ_read_cache_chunk
LEMMA ReadMoves ==
    ASSUME NEW w \in Worlds, shape \in Shapes, Faithful(shape.filters, w),
           NEW c \in Chunks, NEW o \in NCZ_read_cache_chunk(w, c)
    PROVE  /\ \E W, D : Moves(w, o.w, W, D) /\ c \notin W \cup D
           /\ Faithful(shape.filters, o.w)
<1>1. CASE w.cache.entry[c] # NoEntry
  <2>1. o.ok /\ o.w = Touch(w, c)
    BY <1>1, ReadHit
  <2>2. /\ o.w \in Worlds /\ o.w.store = w.store /\ o.w.faults = w.faults
        /\ o.w.cache.entry = w.cache.entry
    BY <1>1, <2>1, TouchIs
  <2>3. Seen(o.w) = Seen(w) /\ SavedIn(o.w) = SavedIn(w)
    BY <2>2 DEF Seen, SavedIn
  <2>4. Faithful(shape.filters, o.w)
    BY <2>2 DEF Faithful, StoreFaithful, Present
  <2>5. Moves(w, o.w, {}, {})
    <3>1. w.faults \in Nat /\ Cardinality({}) = 0
      BY WorldIs, FS_EmptySet
    <3>2. /\ Seen(w) = [x \in Chunks |-> Seen(w)[x]]
          /\ SavedIn(w) = [x \in Chunks |-> SavedIn(w)[x]]
      BY DEF Seen, SavedIn
    <3> QED
      BY <2>2, <2>3, <3>1, <3>2 DEF Moves
  <2> QED
    BY <2>4, <2>5
<1>2. CASE w.cache.entry[c] = NoEntry
  <2>1. PICK v, G, F : Missed(w, c, o, v, G, F)
    BY <1>2, ReadMiss
  <2>2. Evicts(w, v, G, F) /\ o.w = IF v.ok THEN Insert(v.w, c, Fetched(w.store[c])) ELSE v.w
    BY <2>1 DEF Missed
  <2> DEFINE W == (G \cap Modified(w)) \ F
  <2>3. Moves(w, v.w, W, F) /\ Faithful(shape.filters, v.w)
    BY <2>2, EvictsMoves
  <2>4. v.w \in Worlds /\ v.ok \in BOOLEAN /\ Present(v.w.cache) = Present(w.cache) \ G
    BY <2>2, EvictsThen
  <2>5. v.w.cache.entry[c] = NoEntry
    BY <1>2, <2>4 DEF Present
  <2>6. c \notin G /\ c \notin F /\ c \notin W
    BY <1>2, <2>2 DEF Evicts, Present
  <2>7. v.w.store[c] = w.store[c]
    BY <2>2, <2>6 DEF Evicts
  <2> HIDE DEF W
  <2>8. CASE v.ok
    <3>1. o.w = Insert(v.w, c, Fetched(v.w.store[c]))
      BY <2>2, <2>7, <2>8
    <3>2. Seen(o.w) = Seen(v.w) /\ SavedIn(o.w) = SavedIn(v.w) /\ Faithful(shape.filters, o.w)
      BY <2>3, <2>4, <2>5, <3>1, InsertMoves
    <3>3. o.w.faults = v.w.faults
      <4>1. Fetched(v.w.store[c]) \in Entries
        <5>1. v.w.store[c] \in Objects \cup {Absent}
          BY <2>4, WorldIs
        <5> QED
          BY <5>1, FetchedIs
      <4> DEFINE e == Fetched(v.w.store[c])
      <4>2. e \in Entries /\ o.w = Insert(v.w, c, e)
        BY <3>1, <4>1
      <4>3. v.w \in Worlds /\ v.w.cache.entry[c] = NoEntry
        BY <2>4, <2>5
      <4> HIDE DEF e
      <4>4. Insert(v.w, c, e).faults = v.w.faults
        BY <4>2, <4>3, InsertIs
      <4> QED
        BY <4>2, <4>4
    <3>4. Moves(w, o.w, W, F)
      BY <2>3, <3>2, <3>3 DEF Moves
    <3> QED
      BY <2>6, <3>2, <3>4
  <2>9. CASE ~v.ok
    BY <2>2, <2>3, <2>6, <2>9
  <2> QED
    BY <2>4, <2>8, <2>9
<1> QED
  BY <1>1, <1>2

LEMMA ModifyMoves ==
    ASSUME NEW w \in Worlds, shape \in Shapes, Faithful(shape.filters, w), ~shape.scalar,
           NEW c \in Chunks, w.cache.entry[c] # NoEntry, NEW x \in Values,
           NEW v, v = Modify(w, c, x)
    PROVE  /\ Seen(v) = [Seen(w) EXCEPT ![c] = x] /\ SavedIn(v) = SavedIn(w)
           /\ v.faults = w.faults
           /\ Faithful(shape.filters, v)
<1> DEFINE e == Overwritten(w.cache.entry[c], x)
<1>0. w.cache.entry \in [Chunks -> Entries \cup {NoEntry}] /\ w.cache.entry[c] \in Entries
  BY WorldIs, CacheIs
<1>1. /\ v.store = w.store /\ v.cache.entry = [w.cache.entry EXCEPT ![c] = e]
      /\ v.faults = w.faults
  BY ModifyIs
<1>2. ~w.cache.entry[c].filtered
  BY DEF Faithful, Present
<1>3. e \in Entries /\ e.modified /\ ~e.filtered /\ e.data = x
  BY <1>0, <1>2, OverwrittenIs
<1> HIDE DEF e
<1>4. /\ v.cache.entry[c] = e /\ e # NoEntry
      /\ \A y \in Chunks : y # c => v.cache.entry[y] = w.cache.entry[y]
  BY <1>0, <1>1, <1>3, NoEntryIsNone
<1>5. SavedIn(v) = SavedIn(w)
  BY <1>1 DEF SavedIn
<1>6. Faithful(shape.filters, v)
  BY <1>1, <1>3, <1>4 DEF Faithful, StoreFaithful, Present
<1>7. Seen(v) = [Seen(w) EXCEPT ![c] = x]
  <2>1. \A y \in Chunks : Seen(v)[y] = IF y = c THEN x ELSE Seen(w)[y]
    BY <1>1, <1>3, <1>4 DEF Seen
  <2>2. Seen(v) = [y \in Chunks |-> Seen(v)[y]] /\ Seen(w) = [y \in Chunks |-> Seen(w)[y]]
    BY DEF Seen
  <2>3. DOMAIN Seen(v) = Chunks /\ DOMAIN Seen(w) = Chunks
    BY DEF Seen
  <2> QED
    BY <2>1, <2>2, <2>3
<1> QED
  BY <1>1, <1>5, <1>6, <1>7

\* Writing the modified chunks of D puts into the store what is seen of them.
LEMMA StoredMoves ==
    ASSUME NEW w \in Worlds, shape \in Shapes, Faithful(shape.filters, w),
           NEW D \in SUBSET Modified(w), NEW v, v.store = Stored(w, D)
    PROVE  /\ SavedIn(v) = [c \in Chunks |-> IF c \in D THEN Seen(w)[c] ELSE SavedIn(w)[c]]
           /\ StoreFaithful(shape.filters, v)
           /\ \A x \in D : Held(v.store[x]) = w.cache.entry[x].data
           /\ \A x \in Chunks \ D : v.store[x] = w.store[x]
<1> DEFINE e == w.cache.entry
<1>1. \A x \in D : x \in Chunks /\ e[x] \in Entries /\ x \in Present(w.cache) /\ e[x] # NoEntry
  BY ModifiedIs, NoEntryIsNone
<1>2. /\ \A x \in D : v.store[x] = Object(e[x])
      /\ \A x \in Chunks \ D : v.store[x] = w.store[x]
  BY <1>1 DEF Stored
<1> HIDE DEF e
<1>3. \A x \in D : /\ v.store[x] # Absent /\ Held(v.store[x]) = e[x].data
                   /\ v.store[x].filtered = shape.filters
  <2> SUFFICES ASSUME NEW x \in D
               PROVE  /\ v.store[x] # Absent /\ Held(v.store[x]) = e[x].data
                      /\ v.store[x].filtered = shape.filters
    OBVIOUS
  <2>1. e[x] \in Entries /\ ~e[x].filtered /\ v.store[x] = Object(e[x])
    BY <1>1, <1>2 DEF Faithful, e
  <2> QED
    BY <2>1, ObjectHeld
<1>4. StoreFaithful(shape.filters, v)
  BY <1>2, <1>3 DEF Faithful, StoreFaithful
<1>5. SavedIn(v) = [c \in Chunks |-> IF c \in D THEN Seen(w)[c] ELSE SavedIn(w)[c]]
  <2>1. \A c \in D : Seen(w)[c] = e[c].data
    BY <1>1 DEF Seen, e
  <2>2. \A c \in Chunks : Held(v.store[c]) = IF c \in D THEN Seen(w)[c] ELSE Held(w.store[c])
    BY <1>2, <1>3, <2>1
  <2>3. \A c \in Chunks : SavedIn(w)[c] = Held(w.store[c])
    BY DEF SavedIn
  <2>4. SavedIn(v) = [c \in Chunks |-> Held(v.store[c])]
    BY DEF SavedIn
  <2> QED
    BY <2>2, <2>3, <2>4
<1> QED
  BY <1>2, <1>3, <1>4, <1>5 DEF e

\* With everything written the store holds what is seen.
LEMMA SeenSaved ==
    ASSUME NEW w \in Worlds, NEW f, Faithful(f, w)
    PROVE  \A c \in Chunks : c \notin Modified(w) => Seen(w)[c] = SavedIn(w)[c]
<1>1. Modified(w) = {x \in Present(w.cache) : w.cache.entry[x].modified}
  BY ModifiedIs
<1> QED
  BY <1>1 DEF Seen, SavedIn, Faithful, Present

LEMMA FinishedMoves ==
    ASSUME NEW w \in Worlds, shape \in Shapes, Faithful(shape.filters, w),
           NEW o, Finished(w, o)
    PROVE  /\ SavedIn(o.w) = Seen(w) /\ StoreFaithful(shape.filters, o.w)
           /\ SavedIn(o.w) = [c \in Chunks |-> IF c \in Modified(w) THEN Seen(w)[c]
                                               ELSE SavedIn(w)[c]]
           /\ ~shape.filters => Seen(o.w) = Seen(w) /\ Faithful(shape.filters, o.w)
<1> DEFINE M == Modified(w)
           v == o.w
<1>0. v.store = Stored(w, M) /\ Modified(v) = {}
      /\ \A x \in Chunks : v.cache.entry[x] \in {NoEntry, Cleaned(w, M)[x]}
  BY DEF Finished
<1>1. v \in Worlds
  BY DEF Finished, Outcomes
<1>2. M \in SUBSET M /\ \A x \in M : x \in Chunks /\ w.cache.entry[x] \in Entries
  BY ModifiedIs
<1> HIDE DEF v
<1>3. /\ SavedIn(v) = [c \in Chunks |-> IF c \in M THEN Seen(w)[c] ELSE SavedIn(w)[c]]
      /\ StoreFaithful(shape.filters, v)
      /\ \A x \in M : Held(v.store[x]) = w.cache.entry[x].data
      /\ \A x \in Chunks \ M : v.store[x] = w.store[x]
  BY <1>0, <1>2, StoredMoves
<1>4. SavedIn(v) = Seen(w)
  <2>1. \A c \in Chunks : c \notin M => Seen(w)[c] = SavedIn(w)[c]
    BY SeenSaved
  <2>2. Seen(w) = [c \in Chunks |-> Seen(w)[c]]
    BY DEF Seen
  <2> HIDE DEF M
  <2> QED
    BY <1>3, <2>1, <2>2
<1>5. ASSUME ~shape.filters
      PROVE  Seen(v) = Seen(w) /\ Faithful(shape.filters, v)
  <2>1. ASSUME NEW x \in Present(v.cache)
        PROVE  /\ x \in Chunks /\ ~v.cache.entry[x].filtered
               /\ v.cache.entry[x].data = Held(v.store[x])
    <3>0. x \in Chunks /\ v.cache.entry[x] # NoEntry /\ v.cache.entry[x] = Cleaned(w, M)[x]
      BY <1>0, <2>1 DEF Present
    <3>1. CASE x \in M
      <4>1. v.cache.entry[x] = Clean(w.cache.entry[x])
        BY <3>0, <3>1 DEF Cleaned
      <4>2. ~w.cache.entry[x].filtered
        BY <3>1, ModifiedIs DEF Faithful
      <4>3. v.cache.entry[x].data = w.cache.entry[x].data /\ ~v.cache.entry[x].filtered
        BY <1>2, <1>5, <3>1, <4>1, <4>2, EncodedIs
      <4> QED
        BY <1>3, <3>0, <3>1, <4>3
    <3>2. CASE x \notin M
      <4>1. v.cache.entry[x] = w.cache.entry[x]
        BY <3>0, <3>2 DEF Cleaned
      <4>2. x \in Present(w.cache)
        BY <3>0, <4>1 DEF Present
      <4>3. ~w.cache.entry[x].modified
        BY <3>2, <4>2, ModifiedIs
      <4>4. v.store[x] = w.store[x]
        BY <1>3, <3>0, <3>2
      <4> QED
        BY <3>0, <4>1, <4>2, <4>3, <4>4 DEF Faithful
    <3> QED
      BY <3>1, <3>2
  <2>2. Faithful(shape.filters, v)
    BY <1>3, <2>1 DEF Faithful
  <2>3. Seen(v) = SavedIn(v)
    <3>1. \A x \in Chunks : (IF v.cache.entry[x] # NoEntry THEN v.cache.entry[x].data
                                ELSE Held(v.store[x])) = Held(v.store[x])
      BY <2>1 DEF Present
    <3> QED
      BY <3>1 DEF Seen, SavedIn
  <2> QED
    BY <1>4, <2>2, <2>3
<1> QED
  BY <1>3, <1>4, <1>5 DEF v

LEMMA BrokenMoves ==
    ASSUME NEW w \in Worlds, shape \in Shapes, Faithful(shape.filters, w), ~shape.filters,
           NEW o, NEW D, NEW x, Broken(w, o, D, x)
    PROVE  /\ Seen(o.w) = Seen(w) /\ Faithful(shape.filters, o.w)
           /\ SavedIn(o.w) = [c \in Chunks |-> IF c \in D THEN Seen(w)[c] ELSE SavedIn(w)[c]]
<1> DEFINE v == o.w
           e == w.cache.entry
<1>0. /\ D \in SUBSET Modified(w) /\ x \in Modified(w) /\ x \notin D /\ v.store = Stored(w, D)
      /\ v.cache.entry = [Cleaned(w, D) EXCEPT ![x] = Encoded(e[x])]
  BY DEF Broken
<1>1. \A y \in Modified(w) : /\ y \in Chunks /\ e[y] \in Entries /\ y \in Present(w.cache)
                             /\ e[y] # NoEntry /\ ~e[y].filtered
  BY ModifiedIs, NoEntryIsNone DEF Faithful
<1>2. /\ SavedIn(v) = [c \in Chunks |-> IF c \in D THEN Seen(w)[c] ELSE SavedIn(w)[c]]
      /\ StoreFaithful(shape.filters, v)
      /\ \A y \in D : Held(v.store[y]) = e[y].data
      /\ \A y \in Chunks \ D : v.store[y] = w.store[y]
  BY <1>0, StoredMoves
<1>3. /\ \A y \in D : v.cache.entry[y] = Clean(e[y])
      /\ \A y \in Chunks : y \notin D /\ y # x => v.cache.entry[y] = e[y]
      /\ v.cache.entry[x] = Encoded(e[x])
  BY <1>0, <1>1 DEF Cleaned
<1> HIDE DEF v, e
<1>4. ASSUME NEW y \in D
      PROVE  /\ y \in Chunks /\ v.cache.entry[y] # NoEntry /\ ~v.cache.entry[y].filtered
             /\ v.cache.entry[y].data = e[y].data
  <2>1. y \in Chunks /\ e[y] \in Entries /\ ~e[y].filtered /\ v.cache.entry[y] = Clean(e[y])
    BY <1>0, <1>1, <1>3
  <2> QED
    BY <2>1, EncodedIs, NoEntryIsNone
<1>5. /\ x \in Chunks /\ v.cache.entry[x] # NoEntry /\ ~v.cache.entry[x].filtered
      /\ v.cache.entry[x].modified /\ v.cache.entry[x].data = e[x].data
  <2>1. x \in Chunks /\ e[x] \in Entries /\ ~e[x].filtered /\ e[x].modified
    BY <1>0, <1>1, ModifiedIs DEF e
  <2> QED
    BY <1>3, <2>1, EncodedIs, NoEntryIsNone
<1>6. Seen(v) = Seen(w)
  <2>1. \A y \in Chunks : (IF v.cache.entry[y] # NoEntry THEN v.cache.entry[y].data
                               ELSE Held(v.store[y]))
                        = (IF e[y] # NoEntry THEN e[y].data ELSE Held(w.store[y]))
    BY <1>0, <1>1, <1>2, <1>3, <1>4, <1>5
  <2> QED
    BY <2>1 DEF Seen, e
<1>7. Faithful(shape.filters, v)
  <2>1. ASSUME NEW y \in Present(v.cache)
        PROVE  /\ ~v.cache.entry[y].filtered
               /\ ~v.cache.entry[y].modified => v.cache.entry[y].data = Held(v.store[y])
    <3>0. y \in Chunks /\ v.cache.entry[y] # NoEntry
      BY DEF Present
    <3>1. CASE y \in D
      BY <1>2, <1>4, <3>1
    <3>2. CASE y = x
      BY <1>5, <3>2
    <3>3. CASE y \notin D /\ y # x
      <4>1. v.cache.entry[y] = e[y] /\ v.store[y] = w.store[y]
        BY <1>2, <1>3, <3>0, <3>3
      <4>2. y \in Present(w.cache)
        BY <3>0, <4>1 DEF Present, e
      <4> QED
        BY <4>1, <4>2 DEF Faithful, e
    <3> QED
      BY <3>1, <3>2, <3>3
  <2> QED
    BY <1>2, <2>1 DEF Faithful
<1> QED
  BY <1>2, <1>6, <1>7 DEF v
----------------------------------------------------------------------------
(* The steps of the cache are steps of a store of chunks *)

Loses(a, b) == b.faults = a.faults /\ SavedIn(b) = SavedIn(a) /\ Seen(b) = SavedIn(a)

Deletes(a, b) ==
    b.faults = a.faults /\ SavedIn(b) = [c \in Chunks |-> Fill] /\ Seen(b) = SavedIn(b)

Puts(a, b, W, D, c, x) ==
    /\ c \notin W \cup D
    /\ \E u : /\ Moves(a, u, W, D) /\ b.faults = u.faults
              /\ SavedIn(b) = SavedIn(u) /\ Seen(b) = [Seen(u) EXCEPT ![c] = x]

\* A step of ChunkStore, from one world to another.
StoreStep(a, b) ==
    \/ \E W, D : Moves(a, b, W, D)
    \/ \E W, D : \E c \in Chunks, x \in Values : Puts(a, b, W, D, c, x)
    \/ Loses(a, b)
    \/ Deletes(a, b)

Keeps(w) ==
    /\ w \in Worlds /\ Becomes(w) /\ shape' = shape
    /\ Faithful(shape.filters, w)
    /\ StoreStep(World, w)
    /\ saved' => SavedIn(w) = Seen(World)

\* Every modification is in the cache or in the store.
FaithInv == StructInv /\ Survives(shape) /\ Faithful(shape.filters, World)

LEMMA FaithIs ==
    ASSUME FaithInv
    PROVE  /\ World \in Worlds /\ shape \in Shapes /\ Faithful(shape.filters, World)
           /\ ~shape.scalar /\ (shape.filters => faults = 0 /\ ~shape.sync)
           /\ faults \in Nat /\ World.faults = faults
<1>1. /\ World \in Worlds /\ shape \in Shapes /\ Faithful(shape.filters, World)
      /\ ~shape.scalar /\ (shape.filters => shape.faults = 0 /\ ~shape.sync)
      /\ faults <= shape.faults /\ World.faults = faults
  BY WorldOf DEF FaithInv, StructInv, Survives
<1>2. faults \in Nat
  BY <1>1, WorldIs
<1> QED
  BY <1>1, <1>2

LEMMA NoMove ==
    ASSUME NEW w \in Worlds
    PROVE  Moves(w, w, {}, {})
<1>1. w.faults \in Nat /\ Cardinality({}) = 0
  BY WorldIs, FS_EmptySet
<1>2. /\ Seen(w) = [x \in Chunks |-> Seen(w)[x]]
      /\ SavedIn(w) = [x \in Chunks |-> SavedIn(w)[x]]
  BY DEF Seen, SavedIn
<1> QED
  BY <1>1, <1>2 DEF Moves

\* Nothing is lost by a flush.
LEMMA FlushMoves ==
    ASSUME NEW w \in Worlds, NEW v, NEW W \in SUBSET Chunks, v.faults \in 0 .. w.faults,
           w.faults \in Nat, Seen(v) = Seen(w),
           SavedIn(v) = [c \in Chunks |-> IF c \in W THEN Seen(w)[c] ELSE SavedIn(w)[c]]
    PROVE  StoreStep(w, v)
<1>1. Cardinality({}) = 0
  BY FS_EmptySet
<1>2. Seen(w) = [x \in Chunks |-> Seen(w)[x]]
  BY DEF Seen
<1>3. Moves(w, v, W, {})
  BY <1>1, <1>2 DEF Moves
<1> QED
  BY <1>3 DEF StoreStep

LEMMA OpenKeeps ==
    ASSUME FaithInv, NEW how, Open(how)
    PROVE  Keeps(World)
<1>1. World \in Worlds /\ Faithful(shape.filters, World)
  BY FaithIs
<1>2. Moves(World, World, {}, {})
  BY <1>1, NoMove
<1>3. StoreStep(World, World)
  BY <1>2 DEF StoreStep
<1>4. Becomes(World) /\ shape' = shape /\ ~saved'
  BY WorldOf DEF Open, Becomes
<1> QED
  BY <1>1, <1>3, <1>4 DEF Keeps

LEMMA ReadKeeps ==
    ASSUME FaithInv, NEW c \in Chunks, Read(c)
    PROVE  \E w : Keeps(w)
<1>0. World \in Worlds /\ shape \in Shapes /\ Faithful(shape.filters, World)
  BY FaithIs
<1>1. PICK o \in NCZ_read_cache_chunk(World, c) : Becomes(o.w)
  BY DEF Read
<1>2. o.w \in Worlds
  BY <1>0, ReadWorld
<1>3. (\E W, D : Moves(World, o.w, W, D)) /\ Faithful(shape.filters, o.w)
  BY <1>0, ReadMoves
<1>4. shape' = shape /\ ~saved'
  BY DEF Read, Returns
<1>5. Keeps(o.w)
  BY <1>1, <1>2, <1>3, <1>4 DEF Keeps, StoreStep
<1> QED
  BY <1>5

LEMMA WriteKeeps ==
    ASSUME FaithInv, NEW c \in Chunks, NEW x \in Values, Write(c, x)
    PROVE  \E w : Keeps(w)
<1>0. World \in Worlds /\ shape \in Shapes /\ Faithful(shape.filters, World) /\ ~shape.scalar
  BY FaithIs
<1>1. PICK o \in NCZ_read_cache_chunk(World, c) : Becomes(IF o.ok THEN Modify(o.w, c, x) ELSE o.w)
  BY DEF Write
<1>2. o.w \in Worlds /\ (o.ok => o.w.cache.entry[c] # NoEntry)
  BY <1>0, ReadWorld
<1>3. (\E W, D : Moves(World, o.w, W, D) /\ c \notin W \cup D) /\ Faithful(shape.filters, o.w)
  BY <1>0, ReadMoves
<1>4. shape' = shape /\ ~saved'
  BY DEF Write, Returns
<1>5. CASE o.ok
  <2> DEFINE v == Modify(o.w, c, x)
  <2>1. o.w \in Worlds /\ shape \in Shapes /\ o.w.cache.entry[c] # NoEntry
    BY <1>0, <1>2, <1>5
  <2>2. v \in Worlds
    BY <2>1, ModifyIs
  <2>3. /\ Seen(v) = [Seen(o.w) EXCEPT ![c] = x] /\ SavedIn(v) = SavedIn(o.w)
        /\ v.faults = o.w.faults
        /\ Faithful(shape.filters, v)
    BY <1>0, <1>3, <2>1, ModifyMoves
  <2>4. Becomes(v)
    BY <1>1, <1>5
  <2> HIDE DEF v
  <2>5. PICK W, D : Moves(World, o.w, W, D) /\ c \notin W \cup D
    BY <1>3
  <2>6. Puts(World, v, W, D, c, x)
    BY <2>3, <2>5 DEF Puts
  <2>7. StoreStep(World, v)
    BY <2>6 DEF StoreStep
  <2>8. Keeps(v)
    BY <1>4, <2>2, <2>3, <2>4, <2>7 DEF Keeps
  <2> QED
    BY <2>8
<1>6. CASE ~o.ok
  <2>1. Becomes(o.w) /\ StoreStep(World, o.w)
    BY <1>1, <1>3, <1>6 DEF StoreStep
  <2>2. Keeps(o.w)
    BY <1>2, <1>3, <1>4, <2>1 DEF Keeps
  <2> QED
    BY <2>2
<1> QED
  BY <1>5, <1>6

\* A flush of a variable without filters.
LEMMA FlushKeeps ==
    ASSUME NEW w \in Worlds, shape \in Shapes, Faithful(shape.filters, w), ~shape.filters,
           NEW o \in NCZ_flush_chunk_cache(w)
    PROVE  /\ StoreStep(w, o.w) /\ Faithful(shape.filters, o.w)
           /\ o.ok => SavedIn(o.w) = Seen(w)
<1>0. /\ o.w \in Worlds /\ o.w.faults <= w.faults /\ o.ok \in BOOLEAN
      /\ o.ok => Finished(w, o)
      /\ ~o.ok => \E D, x : Broken(w, o, D, x)
  BY FlushWorld
<1>1. o.w.faults \in 0 .. w.faults /\ w.faults \in Nat
  <2>1. o.w.faults \in Nat /\ w.faults \in Nat
    BY <1>0, WorldIs
  <2> QED
    BY <1>0, <2>1
<1>2. CASE o.ok
  <2>1. Finished(w, o)
    BY <1>0, <1>2
  <2>2. /\ SavedIn(o.w) = Seen(w) /\ Seen(o.w) = Seen(w) /\ Faithful(shape.filters, o.w)
        /\ SavedIn(o.w) = [c \in Chunks |-> IF c \in Modified(w) THEN Seen(w)[c] ELSE SavedIn(w)[c]]
    BY <2>1, FinishedMoves
  <2>3. Modified(w) \in SUBSET Chunks
    BY DEF Modified
  <2>4. StoreStep(w, o.w)
    BY <1>1, <2>2, <2>3, FlushMoves
  <2> QED
    BY <2>2, <2>4
<1>3. CASE ~o.ok
  <2>1. PICK D, x : Broken(w, o, D, x)
    BY <1>0, <1>3
  <2>2. /\ Seen(o.w) = Seen(w) /\ Faithful(shape.filters, o.w)
        /\ SavedIn(o.w) = [c \in Chunks |-> IF c \in D THEN Seen(w)[c] ELSE SavedIn(w)[c]]
    BY <2>1, BrokenMoves
  <2>3. D \in SUBSET Chunks
    BY <2>1 DEF Broken, Modified
  <2>4. StoreStep(w, o.w)
    BY <1>1, <2>2, <2>3, FlushMoves
  <2> QED
    BY <1>3, <2>2, <2>4
<1> QED
  BY <1>0, <1>2, <1>3

LEMMA SyncKeeps ==
    ASSUME FaithInv, Sync
    PROVE  \E w : Keeps(w)
<1>0. /\ World \in Worlds /\ shape \in Shapes /\ Faithful(shape.filters, World)
      /\ ~shape.filters /\ shape' = shape
  BY FaithIs DEF Sync
<1>1. PICK o \in NCZ_flush_chunk_cache(World) : Becomes(o.w) /\ saved' = o.ok
  BY DEF Sync
<1>2. o.w \in Worlds
  BY <1>0, FlushWorld
<1>3. /\ StoreStep(World, o.w) /\ Faithful(shape.filters, o.w)
      /\ o.ok => SavedIn(o.w) = Seen(World)
  BY <1>0, FlushKeeps
<1>4. Keeps(o.w)
  BY <1>0, <1>1, <1>2, <1>3 DEF Keeps
<1> QED
  BY <1>4

LEMMA EmptyKeeps ==
    ASSUME NEW v, v.cache = Empty, NEW f, StoreFaithful(f, v)
    PROVE  Seen(v) = SavedIn(v) /\ Faithful(f, v)
<1>1. \A x \in Chunks : v.cache.entry[x] = NoEntry
  BY DEF Empty
<1> QED
  BY <1>1 DEF Seen, SavedIn, Faithful, Present

\* The cache is dropped after a flush that wrote everything.
LEMMA DropKeeps ==
    ASSUME NEW w \in Worlds, shape \in Shapes, Faithful(shape.filters, w),
           NEW o, Finished(w, o),
           NEW u \in Worlds, u.store = o.w.store, u.faults \in 0 .. w.faults, w.faults \in Nat,
           NEW v, v = [cache |-> Empty, store |-> u.store, faults |-> u.faults]
    PROVE  /\ v \in Worlds /\ Faithful(shape.filters, v) /\ StoreStep(w, v)
           /\ SavedIn(v) = Seen(w)
<1>0. /\ SavedIn(o.w) = Seen(w) /\ StoreFaithful(shape.filters, o.w)
      /\ SavedIn(o.w) = [c \in Chunks |-> IF c \in Modified(w) THEN Seen(w)[c] ELSE SavedIn(w)[c]]
  BY FinishedMoves
<1>1. u.store \in [Chunks -> Objects \cup {Absent}]
  BY WorldIs
<1>2. v \in Worlds
  BY <1>1, EmptyIs
<1>3. v.cache = Empty /\ v.store = o.w.store /\ v.faults = u.faults
  OBVIOUS
<1>4. SavedIn(v) = SavedIn(o.w) /\ StoreFaithful(shape.filters, v)
  BY <1>0, <1>3 DEF SavedIn, StoreFaithful
<1>5. Seen(v) = SavedIn(v) /\ Faithful(shape.filters, v)
  BY <1>3, <1>4, EmptyKeeps
<1>6. Modified(w) \in SUBSET Chunks
  BY DEF Modified
<1>7. /\ v.faults \in 0 .. w.faults /\ Seen(v) = Seen(w)
      /\ SavedIn(v) = [c \in Chunks |-> IF c \in Modified(w) THEN Seen(w)[c] ELSE SavedIn(w)[c]]
  BY <1>0, <1>3, <1>4, <1>5
<1>8. StoreStep(w, v)
  BY <1>6, <1>7, FlushMoves
<1> QED
  BY <1>0, <1>2, <1>4, <1>5, <1>8

LEMMA CloseKeeps ==
    ASSUME FaithInv, Close
    PROVE  \E w : Keeps(w)
<1>0. /\ World \in Worlds /\ shape \in Shapes /\ Faithful(shape.filters, World)
      /\ (shape.filters => faults = 0) /\ shape' = shape
      /\ (NoWrite => Modified(World) = {})
      /\ faults \in Nat /\ World.faults = faults
  BY FaithIs DEF Close, FaithInv, StructInv, NoWrite
<1>p. PICK o \in NCZ_flush_chunk_cache(World) :
         \E p \in IF NoWrite \/ o.ok THEN NCZ_flush_chunk_cache(IF NoWrite THEN World ELSE o.w)
                                     ELSE {o} :
            /\ Becomes(IF p.ok THEN [p.w EXCEPT !.cache = Empty] ELSE p.w)
            /\ saved' = p.ok
  BY DEF Close
<1>1. PICK p \in IF NoWrite \/ o.ok THEN NCZ_flush_chunk_cache(IF NoWrite THEN World ELSE o.w)
                                    ELSE {o} :
         /\ Becomes(IF p.ok THEN [p.w EXCEPT !.cache = Empty] ELSE p.w)
         /\ saved' = p.ok
  BY <1>p
<1>2. /\ o.w \in Worlds /\ o.ok \in BOOLEAN /\ o.w.faults <= World.faults
      /\ o.ok => Finished(World, o)
      /\ ~o.ok => \E D, x : Broken(World, o, D, x)
  BY <1>0, FlushWorld
<1>3. o.w.faults \in Nat
  BY <1>2, WorldIs
<1> DEFINE v == [cache |-> Empty, store |-> p.w.store, faults |-> p.w.faults]
<1>4. ASSUME p.w \in Worlds, p.ok, NEW q, Finished(World, q), p.w.store = q.w.store,
             p.w.faults <= World.faults
      PROVE  Keeps(v)
  <2>1. p.w.faults \in 0 .. World.faults
    <3>1. p.w.faults \in Nat
      BY <1>4, WorldIs
    <3> QED
      BY <1>0, <1>4, <3>1
  <2>2. Becomes(v)
    <3>1. [p.w EXCEPT !.cache = Empty] = v
      <4>1. p.w = [cache |-> p.w.cache, store |-> p.w.store, faults |-> p.w.faults]
        BY <1>4, WorldIs
      <4> DEFINE k == p.w.cache
                 s == p.w.store
                 f == p.w.faults
                 e == Empty
      <4>2. p.w = [cache |-> k, store |-> s, faults |-> f]
        BY <4>1
      <4> HIDE DEF k, s, f, e
      <4>3. [p.w EXCEPT !.cache = e] = [cache |-> e, store |-> s, faults |-> f]
        BY <4>2
      <4> QED
        BY <4>3 DEF s, f, e
    <3> QED
      BY <1>1, <1>4, <3>1
  <2>3. /\ v \in Worlds /\ Faithful(shape.filters, v) /\ StoreStep(World, v)
        /\ SavedIn(v) = Seen(World)
    BY <1>0, <1>4, <2>1, DropKeeps
  <2> HIDE DEF v
  <2> QED
    BY <1>0, <2>2, <2>3 DEF Keeps
<1> HIDE DEF v
<1>5. CASE NoWrite
  <2>1. p \in NCZ_flush_chunk_cache(World) /\ Modified(World) = {}
    BY <1>0, <1>1, <1>5
  <2>2. Finished(World, p) /\ p.w \in Worlds /\ p.w.faults <= World.faults
    BY <1>0, <2>1, FlushWorld
  <2>3. p.ok
    BY <2>2 DEF Finished
  <2>4. Keeps(v)
    BY <1>4, <2>2, <2>3
  <2> QED
    BY <2>4
<1>6. CASE ~NoWrite /\ o.ok
  <2>1. p \in NCZ_flush_chunk_cache(o.w) /\ Finished(World, o)
    BY <1>1, <1>2, <1>6
  <2>2. Modified(o.w) = {}
    BY <2>1 DEF Finished
  <2>3. /\ Finished(o.w, p) /\ p.w.store = o.w.store /\ p.w \in Worlds
        /\ p.w.faults <= o.w.faults
    BY <1>0, <1>2, <2>1, <2>2, FlushWorld
  <2>4. p.ok
    BY <2>3 DEF Finished
  <2>5. p.w.faults \in Nat
    BY <2>3, WorldIs
  <2>6. p.w.faults <= World.faults
    BY <1>0, <1>2, <1>3, <2>3, <2>5
  <2>7. Keeps(v)
    BY <1>4, <2>1, <2>3, <2>4, <2>6
  <2> QED
    BY <2>7
<1>7. CASE ~NoWrite /\ ~o.ok
  <2>1. p = o /\ ~p.ok /\ Becomes(o.w) /\ ~saved'
    BY <1>1, <1>7
  <2>2. World.faults > 0
    BY <1>2, <1>7 DEF Broken
  <2>3. ~shape.filters
    BY <1>0, <2>2
  <2>4. StoreStep(World, o.w) /\ Faithful(shape.filters, o.w)
    BY <1>0, <2>3, FlushKeeps
  <2>5. Keeps(o.w)
    BY <1>0, <1>2, <2>1, <2>4 DEF Keeps
  <2> QED
    BY <2>5
<1> QED
  BY <1>2, <1>5, <1>6, <1>7

LEMMA LostKeeps ==
    ASSUME FaithInv, Abort \/ Crash
    PROVE  \E w : Keeps(w)
<1> DEFINE none == [c \in Chunks |-> Absent]
           s == IF Abort /\ mode = "create" THEN none ELSE store
           v == [cache |-> Empty, store |-> s, faults |-> World.faults]
<1>0. /\ World \in Worlds /\ shape \in Shapes /\ Faithful(shape.filters, World)
      /\ World.store = store /\ store \in [Chunks -> Objects \cup {Absent}]
      /\ World.faults = faults
  BY FaithIs, WorldIs, WorldOf
<1>1. s \in [Chunks -> Objects \cup {Absent}] /\ s \in {none, store}
  BY <1>0
<1>2. cache' = Empty /\ faults' = faults /\ shape' = shape /\ ~saved' /\ store' = s
  BY DEF Abort, Crash
<1> HIDE DEF s
<1>3. v \in Worlds
  BY <1>0, <1>1, EmptyIs
<1>4. v.cache = Empty /\ v.store = s /\ v.faults = World.faults
  OBVIOUS
<1> HIDE DEF v
<1>5. StoreFaithful(shape.filters, v)
  BY <1>0, <1>1, <1>4 DEF Faithful, StoreFaithful
<1>6. Seen(v) = SavedIn(v) /\ Faithful(shape.filters, v)
  BY <1>4, <1>5, EmptyKeeps
<1>7. StoreStep(World, v)
  <2>1. CASE s = store
    <3>1. SavedIn(v) = SavedIn(World)
      BY <1>0, <1>4, <2>1 DEF SavedIn
    <3> QED
      BY <1>4, <1>6, <3>1 DEF StoreStep, Loses
  <2>2. CASE s = none
    <3>1. SavedIn(v) = [c \in Chunks |-> Fill]
      BY <1>4, <2>2 DEF SavedIn, Held
    <3> QED
      BY <1>4, <1>6, <3>1 DEF StoreStep, Deletes
  <2> QED
    BY <1>1, <2>1, <2>2
<1>8. Becomes(v)
  BY <1>0, <1>2, <1>4 DEF Becomes
<1>9. Keeps(v)
  BY <1>2, <1>3, <1>6, <1>7, <1>8 DEF Keeps
<1> QED
  BY <1>9

LEMMA NextKeeps ==
    ASSUME FaithInv, Next
    PROVE  \E w : Keeps(w)
<1>1. CASE \E how \in {"create", "write", "read"} : Open(how)
  BY <1>1, OpenKeeps
<1>2. CASE \E c \in Chunks : Read(c)
  BY <1>2, ReadKeeps
<1>3. CASE \E c \in Chunks, v \in Values : Write(c, v)
  BY <1>3, WriteKeeps
<1>4. CASE Sync
  BY <1>4, SyncKeeps
<1>5. CASE Close
  BY <1>5, CloseKeeps
<1>6. CASE Abort \/ Crash
  BY <1>6, LostKeeps
<1> QED
  BY <1>1, <1>2, <1>3, <1>4, <1>5, <1>6 DEF Next

LEMMA ViewIs ==
    ASSUME NEW w, Faithful(shape.filters, w)
    PROVE  /\ InStore(w.store) = SavedIn(w)
           /\ Seen(w) = [c \in Chunks |-> IF w.cache.entry[c] # NoEntry
                                          THEN Real(w.cache.entry[c]) ELSE SavedIn(w)[c]]
<1>1. \A c \in Chunks : w.store[c] # Absent => Decoded(w.store[c]) = w.store[c].data
  BY DEF Faithful, StoreFaithful, Decoded
<1>2. \A c \in Chunks : w.cache.entry[c] # NoEntry
                           => Real(w.cache.entry[c]) = w.cache.entry[c].data
  BY DEF Faithful, Present, Real
<1>3. InStore(w.store) = SavedIn(w)
  BY <1>1 DEF InStore, SavedIn, Held
<1> QED
  BY <1>2, <1>3 DEF Seen, SavedIn

LEMMA ContentIs ==
    ASSUME FaithInv
    PROVE  Content = Seen(World) /\ InStore(store) = SavedIn(World)
<1>1. Faithful(shape.filters, World) /\ World.store = store /\ World.cache = cache
  BY FaithIs, WorldOf
<1>2. /\ InStore(World.store) = SavedIn(World)
      /\ Seen(World) = [c \in Chunks |-> IF World.cache.entry[c] # NoEntry
                                     THEN Real(World.cache.entry[c]) ELSE SavedIn(World)[c]]
  BY <1>1, ViewIs
<1> QED
  BY <1>1, <1>2 DEF Content

LEMMA ContentNext ==
    ASSUME FaithInv, NEW w, Keeps(w)
    PROVE  /\ World' = w /\ Faithful(shape'.filters, World')
           /\ InStore(store') = SavedIn(w) /\ InStore(store)' = SavedIn(w) /\ Content' = Seen(w)
           /\ faults' = w.faults
<1>1. /\ w \in Worlds /\ cache' = w.cache /\ store' = w.store /\ faults' = w.faults
      /\ shape' = shape /\ Faithful(shape.filters, w)
  BY DEF Keeps, Becomes
<1>2. World' = w
  <2>1. World' = [cache |-> w.cache, store |-> w.store, faults |-> w.faults]
    BY <1>1 DEF World
  <2> QED
    BY <1>1, <2>1, WorldIs
<1>3. /\ InStore(w.store) = SavedIn(w)
      /\ Seen(w) = [c \in Chunks |-> IF w.cache.entry[c] # NoEntry
                                     THEN Real(w.cache.entry[c]) ELSE SavedIn(w)[c]]
  BY <1>1, ViewIs
<1>4. InStore(store)' = InStore(w.store)
  BY <1>1 DEF InStore, Decoded
<1>5. Content' = [c \in Chunks |-> IF cache'.entry[c] # NoEntry THEN Real(cache'.entry[c])
                                   ELSE InStore(store)'[c]]
  BY DEF Content, Real
<1>6. Content' = Seen(w)
  BY <1>1, <1>3, <1>4, <1>5
<1> QED
  BY <1>1, <1>2, <1>3, <1>4, <1>6

LEMMA FaithInit ==
    ASSUME \A s \in Shapes : Survives(s), Init
    PROVE  FaithInv /\ Content = [c \in Chunks |-> Fill] /\ InStore(store) = Content
<1>1. StructInv /\ shape \in Shapes /\ Survives(shape)
  BY StructInit DEF Init
<1>2. World.cache = Empty /\ World.store = [c \in Chunks |-> Absent]
  BY WorldOf DEF Init
<1>3. StoreFaithful(shape.filters, World)
  BY <1>2 DEF StoreFaithful
<1>4. Seen(World) = SavedIn(World) /\ Faithful(shape.filters, World)
  BY <1>2, <1>3, EmptyKeeps
<1>5. FaithInv
  BY <1>1, <1>4 DEF FaithInv
<1>6. SavedIn(World) = [c \in Chunks |-> Fill]
  BY <1>2 DEF SavedIn, Held
<1> QED
  BY <1>4, <1>5, <1>6, ContentIs

LEMMA FaithStep ==
    ASSUME FaithInv, [Next]_vars
    PROVE  FaithInv'
<1>1. StructInv /\ Survives(shape) /\ Faithful(shape.filters, World)
  BY DEF FaithInv
<1>2. StructInv'
  BY <1>1, NextSteps, StructStep
<1>3. CASE UNCHANGED vars
  <2>1. World' = World /\ shape' = shape
    BY <1>3 DEF vars, World
  <2> QED
    BY <1>1, <1>2, <2>1 DEF FaithInv
<1>4. CASE Next
  <2>1. PICK w : Keeps(w)
    BY <1>4, NextKeeps
  <2>2. Faithful(shape'.filters, World') /\ shape' = shape
    BY <2>1, ContentNext DEF Keeps
  <2> QED
    BY <1>1, <1>2, <2>2 DEF FaithInv
<1> QED
  BY <1>3, <1>4

\* When nc_sync or nc_close returns NC_NOERR the store holds every chunk as it was
\* seen before the call, also after write-backs and flushes that failed: for every
\* variable that is not a scalar and, with filters, sees no failing store and no
\* nc_sync before nc_close.
THEOREM SavesAll == (\A s \in Shapes : Survives(s)) => (Spec => SyncSaves)
<1> SUFFICES ASSUME \A s \in Shapes : Survives(s) PROVE Spec => SyncSaves
  OBVIOUS
<1>1. Init => FaithInv
  BY FaithInit
<1>2. FaithInv /\ [Next]_vars => FaithInv'
  BY FaithStep
<1>3. FaithInv /\ [Next]_vars => [saved' => InStore(store') = Content]_vars
  <2> SUFFICES ASSUME FaithInv, Next, saved' PROVE InStore(store') = Content
    BY DEF vars
  <2>1. PICK w : Keeps(w)
    BY NextKeeps
  <2>2. InStore(store') = SavedIn(w) /\ Content = Seen(World)
    BY <2>1, ContentNext, ContentIs
  <2>3. SavedIn(w) = Seen(World)
    BY <2>1 DEF Keeps
  <2> QED
    BY <2>2, <2>3
<1> QED
  BY <1>1, <1>2, <1>3, PTL DEF Spec, SyncSaves

\* One of finitely many variables has the most faults.
LEMMA MostFaults ==
    ASSUME IsFiniteSet(Shapes), NEW s \in Shapes
    PROVE  /\ Max({t.faults : t \in Shapes}) \in Nat
           /\ s.faults <= Max({t.faults : t \in Shapes})
<1> DEFINE A == {t.faults : t \in Shapes}
<1>0. A \in SUBSET Nat /\ s.faults \in A
  BY ChunkCacheAssumption
<1>1. PICK n \in Nat : ExistsSurjection(1 .. n, Shapes)
  BY FS_NatSurjection
<1>2. PICK f \in [1 .. n -> Shapes] : \A t \in Shapes : \E i \in 1 .. n : f[i] = t
  BY <1>1 DEF ExistsSurjection, Surjection
<1> DEFINE Ok(i) == i = 0 \/ \E j \in 1 .. i : \A k \in 1 .. i : f[k].faults <= f[j].faults
           S == {i \in 0 .. n : Ok(i)}
<1>3. \A i \in 1 .. n : f[i].faults \in Nat
  BY <1>2, ChunkCacheAssumption
<1>4. 0 \in S
  OBVIOUS
<1>5. ASSUME NEW i \in 1 .. n, i - 1 \in S
      PROVE  i \in S
  <2>1. CASE i = 1
    <3>1. \A k \in 1 .. i : f[k].faults <= f[1].faults
      BY <1>3, <2>1
    <3> QED
      BY <2>1, <3>1
  <2>2. CASE i # 1
    <3>1. PICK j \in 1 .. i - 1 : \A k \in 1 .. i - 1 : f[k].faults <= f[j].faults
      BY <1>5, <2>2
    <3> DEFINE m == IF f[i].faults > f[j].faults THEN i ELSE j
    <3>2. m \in 1 .. i /\ \A k \in 1 .. i : f[k].faults <= f[m].faults
      BY <1>3, <3>1
    <3> QED
      BY <3>2
  <2> QED
    BY <2>1, <2>2
<1>6. n \in S
  <2> HIDE DEF S
  <2>1. \A i \in 1 .. n : i - 1 \in S => i \in S
    BY <1>5
  <2> QED
    BY <1>4, <2>1, UpTo
<1>7. n # 0
  BY <1>2
<1>8. PICK j \in 1 .. n : \A k \in 1 .. n : f[k].faults <= f[j].faults
  BY <1>6, <1>7
<1>9. f[j].faults \in A /\ \A a \in A : f[j].faults >= a
  BY <1>2, <1>8
<1>10. Max(A) \in A /\ \A a \in A : Max(A) >= a
  <2>1. Max(A) = CHOOSE x \in A : \A y \in A : x >= y
    BY DEF Max
  <2> HIDE DEF A
  <2> QED
    BY <1>9, <2>1
<1> QED
  BY <1>0, <1>10

LEMMA SameCardinality == \A D : Abstract!Cardinality(D) = Cardinality(D)
BY DEF Cardinality, Abstract!Cardinality

LEMMA StoreNext ==
    ASSUME FaithInv, NEW w, Keeps(w)
    PROVE  Abstract!Next
<1>1. /\ InStore(store)' = SavedIn(w) /\ Content' = Seen(w) /\ faults' = w.faults
      /\ InStore(store) = SavedIn(World) /\ Content = Seen(World) /\ faults = World.faults
  BY ContentNext, ContentIs, WorldOf
<1>2. StoreStep(World, w)
  BY DEF Keeps
<1>3. ASSUME NEW W, NEW D, Moves(World, w, W, D)
      PROVE  Abstract!Next
  <2>1. W \in SUBSET Chunks /\ D \in SUBSET Chunks
    BY <1>3 DEF Moves
  <2>2. Abstract!Get(W, D)
    BY <1>1, <1>3, SameCardinality DEF Moves, Abstract!Get, Abstract!WriteBack, Abstract!Without
  <2> QED
    BY <2>1, <2>2 DEF Abstract!Next
<1>4. ASSUME NEW W, NEW D, NEW c \in Chunks, NEW x \in Values, Puts(World, w, W, D, c, x)
      PROVE  Abstract!Next
  <2>1. PICK u : /\ Moves(World, u, W, D) /\ w.faults = u.faults
                 /\ SavedIn(w) = SavedIn(u) /\ Seen(w) = [Seen(u) EXCEPT ![c] = x]
    BY <1>4 DEF Puts
  <2>2. W \in SUBSET Chunks /\ D \in SUBSET Chunks /\ c \notin W \cup D
    BY <1>4, <2>1 DEF Moves, Puts
  <2>3. Abstract!WriteBack(W, D)
    BY <1>1, <2>1, SameCardinality DEF Moves, Abstract!WriteBack
  <2>4. Seen(u) = Abstract!Without(D)
    BY <1>1, <2>1 DEF Moves, Abstract!Without
  <2>5. Abstract!Put(c, x, W, D)
    BY <1>1, <2>1, <2>2, <2>3, <2>4 DEF Abstract!Put
  <2> QED
    BY <2>2, <2>5 DEF Abstract!Next
<1>5. CASE Loses(World, w)
  <2>1. Abstract!Lose
    BY <1>1, <1>5 DEF Loses, Abstract!Lose
  <2> QED
    BY <2>1 DEF Abstract!Next
<1>6. CASE Deletes(World, w)
  <2>1. Abstract!Delete
    BY <1>1, <1>6 DEF Deletes, Abstract!Delete
  <2> QED
    BY <2>1 DEF Abstract!Next
<1> QED
  BY <1>2, <1>3, <1>4, <1>5, <1>6 DEF StoreStep

\* The cache implements a store of chunks: through misses, evictions, write-backs,
\* failed calls of the store, close, abort and crash a read returns what was
\* written last, unless writing that chunk back failed.
THEOREM CacheIsStore ==
    IsFiniteSet(Shapes) /\ (\A s \in Shapes : Survives(s)) => (Spec => IsStore)
<1> SUFFICES ASSUME IsFiniteSet(Shapes), \A s \in Shapes : Survives(s)
             PROVE  Spec => Abstract!Spec
  BY DEF IsStore
<1>1. Init => FaithInv
  BY FaithInit
<1>2. FaithInv /\ [Next]_vars => FaithInv'
  BY FaithStep
<1>3. Init => Abstract!Init
  <2> SUFFICES ASSUME Init PROVE Abstract!Init
    OBVIOUS
  <2>1. Content = [c \in Chunks |-> Fill] /\ InStore(store) = Content
    BY FaithInit
  <2>2. faults = shape.faults /\ shape \in Shapes
    BY DEF Init
  <2>3. faults \in 0 .. Max({s.faults : s \in Shapes})
    <3>1. shape.faults \in Nat
      BY <2>2, ShapeIs
    <3>2. /\ Max({s.faults : s \in Shapes}) \in Nat
          /\ shape.faults <= Max({s.faults : s \in Shapes})
      BY <2>2, MostFaults
    <3> QED
      BY <2>2, <3>1, <3>2
  <2> QED
    BY <2>1, <2>3 DEF Abstract!Init
<1>4. FaithInv /\ [Next]_vars => [Abstract!Next]_Abstract!vars
  <2> SUFFICES ASSUME FaithInv, [Next]_vars PROVE [Abstract!Next]_Abstract!vars
    OBVIOUS
  <2>1. CASE UNCHANGED vars
    <3>1. cache' = cache /\ store' = store /\ faults' = faults /\ shape' = shape
      BY <2>1 DEF vars
    <3>2. InStore(store)' = InStore(store)
      BY <3>1 DEF InStore, Decoded
    <3>3. Content' = Content
      BY <3>1, <3>2 DEF Content, Real
    <3> QED
      BY <3>1, <3>2, <3>3 DEF Abstract!vars
  <2>2. CASE Next
    BY <2>2, NextKeeps, StoreNext
  <2> QED
    BY <2>1, <2>2
<1> QED
  BY <1>1, <1>2, <1>3, <1>4, PTL DEF Spec, Abstract!Spec
=============================================================================
