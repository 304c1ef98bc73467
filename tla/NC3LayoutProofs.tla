-------------------------- MODULE NC3LayoutProofs --------------------------
(***************************************************************************)
(* Proofs about NC3Layout for every set of sizes, every bound and all the  *)
(* arguments of nc__enddef: the header can be read again and says what is  *)
(* in memory, and no redefinition, fill or write damages data.             *)
(***************************************************************************)
EXTENDS NC3Layout, Recursion, FiniteSetTheorems

----------------------------------------------------------------------------
(* Rounding *)

\* A number rounded up is not smaller, by less than the alignment larger,
\* and a multiple.
LEMMA Division ==
    ASSUME NEW y \in Nat, NEW m \in Nat \ {0}
    PROVE  /\ y \div m \in Nat
           /\ (y \div m) * m \in Nat
           /\ (y \div m) * m <= y
           /\ y < (y \div m) * m + m
  OBVIOUS

LEMMA RoundUp ==
    ASSUME NEW x \in Nat, NEW m \in Nat \ {0}
    PROVE  /\ D_RNDUP(x, m) \in Nat
           /\ x <= D_RNDUP(x, m)
           /\ D_RNDUP(x, m) < x + m
<1> DEFINE y == x + m - 1
<1>1. y \in Nat
  OBVIOUS
<1> HIDE DEF y
<1> DEFINE q == (y \div m) * m
<1>2. q \in Nat /\ q <= y /\ y < q + m
  BY <1>1, Division
<1>3. D_RNDUP(x, m) = q
  BY DEF D_RNDUP, y
<1> HIDE DEF q
<1>4. y = x + m - 1
  BY DEF y
<1> QED
  BY <1>2, <1>3, <1>4

\* The length of a variable: its size and less than X_ALIGN bytes of padding.
LEMMA VarLenSize ==
    ASSUME NEW v \in Var
    PROVE  /\ VarLen(v) \in Nat /\ v.size \in Nat \ {0}
           /\ v.size <= VarLen(v)
           /\ VarLen(v) < v.size + X_ALIGN
<1>1. v.size \in Nat \ {0} /\ X_ALIGN \in Nat \ {0}
  BY NC3LayoutAssumption DEF Var
<1> QED
  BY <1>1, RoundUp DEF VarLen

\* Products of a record size and a record number.
LEMMA ProductNat ==
    ASSUME NEW a \in Nat, NEW b \in Nat
    PROVE  a * b \in Nat
  OBVIOUS

LEMMA ProductNext ==
    ASSUME NEW a \in Nat, NEW r \in Nat
    PROVE  a * (r + 1) = a * r + a
  OBVIOUS

LEMMA ProductMonotone ==
    ASSUME NEW a \in Nat, NEW r \in Nat, NEW s \in Nat, r <= s
    PROVE  a * r <= a * s
<1>1. PICK d \in Nat : s = r + d
  <2>1. s - r \in Nat /\ s = r + (s - r)
    OBVIOUS
  <2> QED
    BY <2>1
<1>2. a * (r + d) = a * r + a * d
  OBVIOUS
<1>3. a * d \in Nat /\ a * r \in Nat
  BY ProductNat
<1> QED
  BY <1>1, <1>2, <1>3

\* Record r ends before a later record s begins.
LEMMA RecordsApart ==
    ASSUME NEW a \in Nat, NEW r \in Nat, NEW s \in Nat, r < s
    PROVE  /\ a * r \in Nat /\ a * s \in Nat
           /\ a * r + a <= a * s
<1>1. a * (r + 1) <= a * s
  BY ProductMonotone
<1> QED
  BY <1>1, ProductNext, ProductNat

----------------------------------------------------------------------------
(* Layouts and the lengths of their records *)

LEMMA LayoutVars ==
    ASSUME NEW l \in Layout
    PROVE  /\ Len(l.vars) \in Nat
           /\ DOMAIN l.vars = 1 .. Len(l.vars)
           /\ \A i \in 1 .. Len(l.vars) :
                 /\ l.vars[i] \in Var
                 /\ l.vars[i].rec \in BOOLEAN
                 /\ l.vars[i].begin \in Nat
                 /\ l.vars[i].size \in Nat
                 /\ VarLen(l.vars[i]) \in Nat
                 /\ l.vars[i].size <= VarLen(l.vars[i])
<1>1. l.vars \in Seq(Var)
  BY DEF Layout
<1> HIDE DEF Layout
<1>2. Len(l.vars) \in Nat /\ DOMAIN l.vars = 1 .. Len(l.vars)
  BY <1>1
<1>3. ASSUME NEW i \in 1 .. Len(l.vars)
      PROVE  l.vars[i] \in Var
  BY <1>1, <1>2
<1>4. ASSUME NEW v \in Var
      PROVE  v.rec \in BOOLEAN /\ v.begin \in Nat
  BY DEF Var
<1> QED
  BY <1>2, <1>3, <1>4, VarLenSize

LEMMA LayoutNumbers ==
    ASSUME NEW l \in Layout
    PROVE  /\ l.natts \in Nat /\ l.xsz \in Nat /\ l.begin_var \in Nat /\ l.begin_rec \in Nat
           /\ l.recsize \in Nat /\ l.numrecs \in Nat /\ l.numrecs \in 0 .. MaxRecs
  BY NC3LayoutAssumption DEF Layout

\* What variable i adds to the length of a record.
RecPart(l, i) == IF l.vars[i].rec THEN VarLen(l.vars[i]) ELSE 0

\* The recursive definition of RecSums is a function.
LEMMA RecSumsDef ==
    ASSUME NEW l \in Layout
    PROVE  /\ RecSums(l) \in [0 .. Len(l.vars) -> Nat]
           /\ RecSums(l)[0] = 0
           /\ \A i \in 1 .. Len(l.vars) :
                 /\ RecPart(l, i) \in Nat
                 /\ RecSums(l)[i] = RecSums(l)[i - 1] + RecPart(l, i)
<1> DEFINE n    == Len(l.vars)
           P(i) == RecPart(l, i)
           G    == [p \in (1 .. n) \X Nat |-> p[2] + P(p[1])]
           B(f) == [i \in 0 .. n |-> IF i = 0 THEN 0 ELSE f[i - 1] + P(i)]
           sum  == CHOOSE f : f = B(f)
<1>1. n \in Nat
  BY LayoutVars
<1>2. \A i \in 1 .. n : P(i) \in Nat
  BY LayoutVars DEF RecPart
<1>3. RecSums(l) = sum
  BY DEF RecSums, RecPart
<1> HIDE DEF P, n
<1>4. G \in [(1 .. n) \X Nat -> Nat]
  BY <1>2
<1>5. \A i \in 1 .. n, x \in Nat : G[<<i, x>>] = x + P(i)
  OBVIOUS
<1> HIDE DEF G
<1>6. PICK f : Computes(f, n, Nat, 0, G)
  BY <1>1, <1>4, Computation
<1>7. f \in [0 .. n -> Nat] /\ f[0] = 0 /\ \A i \in 1 .. n : f[i] = f[i - 1] + P(i)
  <2>1. f \in [0 .. n -> Nat] /\ f[0] = 0 /\ \A i \in 1 .. n : f[i] = G[<<i, f[i - 1]>>]
    BY <1>6 DEF Computes
  <2>2. ASSUME NEW i \in 1 .. n
        PROVE  f[i - 1] \in Nat
    BY <1>1, <2>1
  <2> QED
    BY <1>5, <2>1, <2>2
<1>8. f = B(f)
  <2>1. \A i \in 0 .. n : i # 0 => i \in 1 .. n
    BY <1>1
  <2>2. \A i \in 0 .. n : f[i] = IF i = 0 THEN 0 ELSE f[i - 1] + P(i)
    BY <1>7, <2>1
  <2> QED
    BY <1>7, <2>2
<1>9. sum = B(sum)
  BY <1>8
<1> HIDE DEF sum
<1>10. DOMAIN sum = 0 .. n /\ sum[0] = 0 /\ \A i \in 1 .. n : sum[i] = sum[i - 1] + P(i)
  <2>1. 0 \in 0 .. n /\ \A i \in 1 .. n : i \in 0 .. n /\ i # 0
    BY <1>1
  <2> QED
    BY <1>9, <2>1
<1>11. \A i \in 0 .. n : sum[i] \in Nat
  <2> DEFINE S == {i \in 0 .. n : sum[i] \in Nat}
  <2>1. 0 \in S
    BY <1>1, <1>10
  <2>2. ASSUME NEW i \in 1 .. n, i - 1 \in S
        PROVE  i \in S
    BY <1>1, <1>2, <1>10, <2>2
  <2>3. \A i \in 0 .. n : i \in S
    <3> HIDE DEF S
    <3> QED
      BY <1>1, <2>1, <2>2, UpTo
  <2> QED
    BY <2>3
<1>12. sum \in [0 .. n -> Nat]
  BY <1>9, <1>11
<1> QED
  BY <1>2, <1>3, <1>10, <1>12 DEF P, n

\* The sums grow.
LEMMA RecSumsMonotone ==
    ASSUME NEW l \in Layout, NEW i \in 0 .. Len(l.vars), NEW j \in 0 .. Len(l.vars), i <= j
    PROVE  RecSums(l)[i] <= RecSums(l)[j]
<1> DEFINE n == Len(l.vars)
           f == RecSums(l)
           S == {k \in 0 .. n : k >= i => f[i] <= f[k]}
<1>1. n \in Nat
  BY LayoutVars
<1>2. f \in [0 .. n -> Nat] /\ \A k \in 1 .. n : RecPart(l, k) \in Nat /\ f[k] = f[k - 1] + RecPart(l, k)
  BY RecSumsDef
<1> HIDE DEF f, n
<1>3. i \in 0 .. n /\ j \in 0 .. n
  BY DEF n
<1>4. 0 \in S
  BY <1>1, <1>2, <1>3
<1>5. ASSUME NEW k \in 1 .. n, k - 1 \in S
      PROVE  k \in S
  <2>1. k - 1 \in 0 .. n /\ k \in 0 .. n /\ f[k - 1] \in Nat /\ f[k] \in Nat /\ f[i] \in Nat
    BY <1>1, <1>2, <1>3
  <2>2. f[k - 1] <= f[k]
    BY <1>2, <2>1
  <2>3. CASE k = i
    BY <2>1, <2>3
  <2>4. CASE k # i
    BY <1>3, <1>5, <2>1, <2>2, <2>4
  <2> QED
    BY <2>3, <2>4
<1>6. \A k \in 0 .. n : k \in S
  <2> HIDE DEF S
  <2> QED
    BY <1>1, <1>4, <1>5, UpTo
<1> QED
  BY <1>3, <1>6 DEF f

\* Before the first record variable the sum is zero.
LEMMA RecSumsZero ==
    ASSUME NEW l \in Layout, NEW i \in 0 .. Len(l.vars),
           \A j \in 1 .. i : ~l.vars[j].rec
    PROVE  RecSums(l)[i] = 0
<1> DEFINE f == RecSums(l)
           S == {k \in 0 .. i : f[k] = 0}
<1>1. i \in Nat /\ i <= Len(l.vars) /\ Len(l.vars) \in Nat
  BY LayoutVars
<1>2. f[0] = 0 /\ \A k \in 1 .. Len(l.vars) : f[k] = f[k - 1] + RecPart(l, k)
  BY RecSumsDef
<1> HIDE DEF f
<1>3. 0 \in S
  BY <1>1, <1>2
<1>4. ASSUME NEW k \in 1 .. i, k - 1 \in S
      PROVE  k \in S
  <2>1. k \in 1 .. Len(l.vars)
    BY <1>1
  <2>2. RecPart(l, k) = 0
    BY DEF RecPart
  <2> QED
    BY <1>2, <1>4, <2>1, <2>2
<1>5. \A k \in 0 .. i : k \in S
  <2> HIDE DEF S
  <2> QED
    BY <1>1, <1>3, <1>4, UpTo
<1> QED
  BY <1>1, <1>5 DEF f

\* Every variable up to n has the shape it has in l.
SameShapes(l, m, n) ==
    \A i \in 1 .. n : m.vars[i].rec = l.vars[i].rec /\ m.vars[i].size = l.vars[i].size

\* The sums depend on the shapes of the variables only.
LEMMA RecSumsSame ==
    ASSUME NEW l \in Layout, NEW m \in Layout, NEW n \in Nat,
           n <= Len(l.vars), n <= Len(m.vars), SameShapes(l, m, n)
    PROVE  \A i \in 0 .. n : RecSums(m)[i] = RecSums(l)[i]
<1> DEFINE f == RecSums(l)
           g == RecSums(m)
           S == {i \in 0 .. n : f[i] = g[i]}
<1>1. Len(l.vars) \in Nat /\ Len(m.vars) \in Nat
  BY LayoutVars
<1>2. f[0] = 0 /\ \A k \in 1 .. Len(l.vars) : f[k] = f[k - 1] + RecPart(l, k)
  BY RecSumsDef
<1>3. g[0] = 0 /\ \A k \in 1 .. Len(m.vars) : g[k] = g[k - 1] + RecPart(m, k)
  BY RecSumsDef
<1> HIDE DEF f, g
<1>4. 0 \in S
  BY <1>2, <1>3
<1>5. ASSUME NEW k \in 1 .. n, k - 1 \in S
      PROVE  k \in S
  <2>1. k \in 1 .. Len(l.vars) /\ k \in 1 .. Len(m.vars)
    BY <1>1
  <2>2. RecPart(l, k) = RecPart(m, k)
    BY DEF RecPart, SameShapes, VarLen
  <2> QED
    BY <1>2, <1>3, <1>5, <2>1, <2>2
<1>6. \A i \in 0 .. n : i \in S
  <2> HIDE DEF S
  <2> QED
    BY <1>4, <1>5, UpTo
<1> QED
  BY <1>6 DEF f, g

----------------------------------------------------------------------------
(* What is known of a layout in use *)

LEMMA FirstIn ==
    ASSUME NEW S \in SUBSET Nat, S # {}
    PROVE  First(S) \in S /\ \A j \in S : First(S) <= j
<1>1. \E i \in S : \A j \in S : i <= j
  BY NatLeast
<1> QED
  BY <1>1 DEF First

LEMMA LastIn ==
    ASSUME NEW n \in Nat, NEW S \in SUBSET (1 .. n), S # {}
    PROVE  \E i \in S : \A j \in S : j <= i
<1> DEFINE T == {n - i : i \in S}
<1>1. T \in SUBSET Nat /\ T # {}
  <2>1. ASSUME NEW i \in S
        PROVE  n - i \in Nat
    <3>1. i \in 1 .. n
      OBVIOUS
    <3> QED
      BY <3>1
  <2> QED
    BY <2>1
<1>2. PICK x \in T : \A y \in T : x <= y
  BY <1>1, NatLeast
<1>3. PICK i \in S : x = n - i
  OBVIOUS
<1>4. ASSUME NEW j \in S
      PROVE  j <= i
  <2>1. x <= n - j
    BY <1>2
  <2>2. i \in 1 .. n /\ j \in 1 .. n
    OBVIOUS
  <2> QED
    BY <1>3, <2>1, <2>2
<1> QED
  BY <1>4

LEMMA VarSets ==
    ASSUME NEW l \in Layout
    PROVE  /\ RecVars(l) \subseteq 1 .. Len(l.vars)
           /\ FixVars(l) \subseteq 1 .. Len(l.vars)
           /\ RecVars(l) \in SUBSET Nat /\ FixVars(l) \in SUBSET Nat
           /\ \A i \in 1 .. Len(l.vars) :
                 /\ i \in RecVars(l) <=> l.vars[i].rec
                 /\ i \in FixVars(l) <=> ~l.vars[i].rec
           /\ IsFiniteSet(RecVars(l))
<1>1. DOMAIN l.vars = 1 .. Len(l.vars) /\ Len(l.vars) \in Nat
  BY LayoutVars
<1>2. RecVars(l) \subseteq 1 .. Len(l.vars) /\ FixVars(l) \subseteq 1 .. Len(l.vars)
  BY <1>1 DEF RecVars, FixVars
<1>3. IsFiniteSet(1 .. Len(l.vars))
  BY <1>1, FS_Interval
<1>4. IsFiniteSet(RecVars(l))
  BY <1>2, <1>3, FS_Subset
<1> QED
  BY <1>1, <1>2, <1>4 DEF RecVars, FixVars

\* Where the records are packed there is no other record variable.
LEMMA Packed ==
    ASSUME NEW l \in Layout, Cardinality(RecVars(l)) = 1, NEW i \in RecVars(l)
    PROVE  RecVars(l) = {i} /\ First(RecVars(l)) = i
<1>1. RecVars(l) = {i}
  <2>1. IsFiniteSet(RecVars(l))
    BY VarSets
  <2>2. PICK x : RecVars(l) = {x}
    BY <2>1, FS_Singleton
  <2> QED
    BY <2>2
<1>2. First(RecVars(l)) \in RecVars(l)
  BY VarSets, FirstIn
<1> QED
  BY <1>1, <1>2

\* After the last record variable the sum stays.
LEMMA RecSumsStay ==
    ASSUME NEW l \in Layout, NEW i \in 0 .. Len(l.vars),
           \A j \in i + 1 .. Len(l.vars) : ~l.vars[j].rec
    PROVE  RecSums(l)[Len(l.vars)] = RecSums(l)[i]
<1> DEFINE n == Len(l.vars)
           f == RecSums(l)
           S == {k \in 0 .. n : k >= i => f[k] = f[i]}
<1>1. n \in Nat /\ i \in 0 .. n
  BY LayoutVars
<1>2. f \in [0 .. n -> Nat] /\ \A k \in 1 .. n : f[k] = f[k - 1] + RecPart(l, k)
  BY RecSumsDef
<1>3. \A k \in 1 .. n : k > i => RecPart(l, k) = 0
  <2>1. ASSUME NEW k \in 1 .. n, k > i
        PROVE  k \in i + 1 .. Len(l.vars)
    BY <1>1, <2>1
  <2> QED
    BY <2>1 DEF RecPart
<1> HIDE DEF f, n
<1>4. 0 \in S
  BY <1>1
<1>5. ASSUME NEW k \in 1 .. n, k - 1 \in S
      PROVE  k \in S
  <2>1. k \in 0 .. n /\ k - 1 \in 0 .. n /\ f[k - 1] \in Nat
    BY <1>1, <1>2
  <2>2. CASE k > i
    BY <1>1, <1>2, <1>3, <1>5, <2>1, <2>2
  <2>3. CASE ~(k > i)
    BY <1>1, <2>1, <2>3
  <2> QED
    BY <2>2, <2>3
<1>6. \A k \in 0 .. n : k \in S
  <2> HIDE DEF S
  <2> QED
    BY <1>1, <1>4, <1>5, UpTo
<1>7. n \in S /\ n >= i
  BY <1>1, <1>6
<1> QED
  BY <1>7 DEF f, n

\* The test of NC_begins and of NC_computeshapes: a record variable is as long as
\* the whole record exactly if it is the only one.
LEMMA SoleRecord ==
    ASSUME NEW l \in Layout, NEW i \in RecVars(l)
    PROVE  RecSums(l)[Len(l.vars)] = VarLen(l.vars[i]) <=> RecVars(l) = {i}
<1> DEFINE n == Len(l.vars)
           f == RecSums(l)
           L(j) == VarLen(l.vars[j])
<1>1. n \in Nat /\ i \in 1 .. n
  BY LayoutVars, VarSets
<1>2. f \in [0 .. n -> Nat]
  BY RecSumsDef
<1>3. ASSUME NEW j \in RecVars(l)
      PROVE  j \in 1 .. n /\ L(j) \in Nat \ {0} /\ f[j] = f[j - 1] + L(j)
  <2>1. j \in 1 .. n /\ l.vars[j].rec
    BY VarSets
  <2>2. l.vars[j] \in Var /\ L(j) \in Nat /\ l.vars[j].size <= L(j)
    BY <2>1, LayoutVars
  <2>3. l.vars[j].size \in Nat \ {0}
    BY <2>2, NC3LayoutAssumption DEF Var
  <2>4. L(j) # 0
    <3> HIDE DEF L
    <3> QED
      BY <2>2, <2>3
  <2>5. f[j] = f[j - 1] + L(j)
    BY <2>1, RecSumsDef DEF RecPart
  <2> QED
    BY <2>1, <2>2, <2>4, <2>5
<1>4. ASSUME NEW a \in RecVars(l), NEW b \in RecVars(l), a < b
      PROVE  f[n] >= L(a) + L(b)
  <2>1. a \in 1 .. n /\ b \in 1 .. n /\ a \in 0 .. n /\ b - 1 \in 0 .. n /\ a - 1 \in 0 .. n
    BY <1>1, <1>3
  <2>2. a <= b - 1 /\ b <= n /\ b \in 0 .. n /\ n \in 0 .. n
    BY <1>1, <1>4, <2>1
  <2>3. f[a] <= f[b - 1] /\ f[b] <= f[n]
    BY <2>1, <2>2, RecSumsMonotone
  <2>4. f[a] = f[a - 1] + L(a) /\ f[b] = f[b - 1] + L(b) /\ L(a) \in Nat /\ L(b) \in Nat
    BY <1>3
  <2>5. f[a - 1] \in Nat /\ f[b - 1] \in Nat /\ f[a] \in Nat /\ f[b] \in Nat /\ f[n] \in Nat
    BY <1>2, <2>1, <2>2
  <2> HIDE DEF f, L
  <2> QED
    BY <2>3, <2>4, <2>5
<1>5. ASSUME f[n] = L(i), NEW j \in RecVars(l), j # i
      PROVE  FALSE
  <2>1. i < j \/ j < i
    BY <1>1, <1>3, <1>5
  <2>2. f[n] >= L(i) + L(j)
    <3>1. CASE i < j
      BY <1>4, <3>1
    <3>2. CASE j < i
      <4>1. f[n] >= L(j) + L(i)
        BY <1>4, <3>2
      <4>2. L(i) \in Nat /\ L(j) \in Nat
        BY <1>3
      <4> HIDE DEF f, L
      <4> QED
        BY <4>1, <4>2
    <3> QED
      BY <2>1, <3>1, <3>2
  <2>3. L(i) \in Nat /\ L(j) \in Nat \ {0}
    BY <1>3
  <2> HIDE DEF f, L
  <2> QED
    BY <1>5, <2>2, <2>3
<1>6. ASSUME RecVars(l) = {i}
      PROVE  f[n] = L(i)
  <2>1. \A j \in 1 .. n : j # i => ~l.vars[j].rec
    BY <1>6, VarSets
  <2>2. i - 1 \in 0 .. n /\ i \in 0 .. n
    BY <1>1
  <2>3. \A j \in 1 .. i - 1 : j \in 1 .. n /\ j # i
    BY <1>1
  <2>4. \A j \in i + 1 .. n : j \in 1 .. n /\ j # i
    BY <1>1
  <2>5. f[i - 1] = 0
    BY <2>1, <2>2, <2>3, RecSumsZero
  <2>6. f[n] = f[i]
    BY <2>1, <2>2, <2>4, RecSumsStay
  <2>7. f[i] = f[i - 1] + L(i) /\ L(i) \in Nat
    BY <1>3
  <2> HIDE DEF f, L
  <2> QED
    BY <2>5, <2>6, <2>7
<1> HIDE DEF f, L
<1>7. f[n] = L(i) <=> RecVars(l) = {i}
  BY <1>5, <1>6
<1> QED
  BY <1>7 DEF f, L

\* Both find the same size of a record: packed records are as long as the data of
\* their only variable, other ones as their variables with the padding.
LEMMA RecSizeIs ==
    ASSUME NEW l \in Layout
    PROVE  /\ RecSize(l) = IF Cardinality(RecVars(l)) = 1
                           THEN l.vars[First(RecVars(l))].size
                           ELSE RecSums(l)[Len(l.vars)]
           /\ ShapesRecSize(l) = RecSize(l)
<1> DEFINE R == RecVars(l)
           total == RecSums(l)[Len(l.vars)]
           sole(i) == total = VarLen(l.vars[i])
           size(i) == l.vars[i].size
<1>1. /\ RecSize(l) = IF R # {} /\ sole(LastOf(R)) THEN size(LastOf(R)) ELSE total
      /\ ShapesRecSize(l) = IF R # {} /\ sole(First(R)) THEN size(First(R)) ELSE total
  BY DEF RecSize, ShapesRecSize
<1>2. CASE R = {}
  <2>1. Cardinality(R) = 0
    BY <1>2, FS_EmptySet, Zenon
  <2> QED
    BY <1>1, <1>2, <2>1
<1>3. CASE R # {}
  <2>1. First(R) \in R
    BY <1>3, VarSets, FirstIn
  <2>2. LastOf(R) \in R
    <3>1. \E i \in R : \A j \in R : j <= i
      BY <1>3, VarSets, LayoutVars, LastIn
    <3> QED
      BY <3>1 DEF LastOf
  <2>3. \A i \in R : sole(i) <=> R = {i}
    BY SoleRecord
  <2> HIDE DEF sole, size, total
  <2>4. CASE Cardinality(R) = 1
    <3>1. R = {First(R)} /\ LastOf(R) = First(R)
      BY <2>1, <2>2, <2>4, Packed
    <3>2. sole(First(R)) /\ sole(LastOf(R))
      BY <2>1, <2>2, <2>3, <3>1
    <3> QED
      BY <1>1, <1>3, <2>4, <3>1, <3>2 DEF size
  <2>5. CASE Cardinality(R) # 1
    <3>1. \A i : R # {i}
      BY <2>5, FS_Singleton
    <3>2. ~sole(First(R)) /\ ~sole(LastOf(R))
      BY <2>1, <2>2, <2>3, <3>1
    <3> QED
      BY <1>1, <2>5, <3>2 DEF total
  <2> QED
    BY <2>4, <2>5
<1> QED
  BY <1>2, <1>3

\* Of a layout in use: NC_check_voffs holds, the header ends before the first
\* variable, sections begin with their first variable, and the record
\* variables follow one another without a gap.
Laid(l) ==
    /\ NC_check_voffs(l)
    /\ \A i \in RecVars(l) : l.vars[i].begin = l.begin_rec + RecSums(l)[i - 1]
    /\ Len(l.vars) > 0 =>
          /\ l.xsz <= l.begin_var
          /\ l.begin_var = IF FixVars(l) = {} THEN l.begin_rec
                           ELSE l.vars[First(FixVars(l))].begin
          /\ l.recsize = RecSize(l)

\* Packed records are as long as the data of their only variable.
LEMMA PackedPlace ==
    ASSUME NEW l \in Layout, Laid(l), Cardinality(RecVars(l)) = 1, NEW i \in RecVars(l)
    PROVE  l.recsize = l.vars[i].size /\ l.vars[i].begin = l.begin_rec
<1> DEFINE n == Len(l.vars)
<1>1. i \in 1 .. n /\ n \in Nat /\ l.begin_rec \in Nat
  BY LayoutVars, LayoutNumbers, VarSets
<1>2. RecVars(l) = {i} /\ First(RecVars(l)) = i
  BY Packed
<1>3. l.vars[i].begin = l.begin_rec + RecSums(l)[i - 1] /\ l.recsize = RecSize(l)
  BY <1>1 DEF Laid
<1>4. \A j \in 1 .. i - 1 : ~l.vars[j].rec
  <2>1. ASSUME NEW j \in 1 .. i - 1
        PROVE  j \in 1 .. n /\ j # i
    BY <1>1
  <2> QED
    BY <1>2, <2>1, VarSets
<1>5. RecSums(l)[i - 1] = 0
  <2>1. i - 1 \in 0 .. n
    BY <1>1
  <2> QED
    BY <1>4, <2>1, RecSumsZero
<1>6. RecSize(l) = l.vars[i].size
  BY <1>2, RecSizeIs
<1> QED
  BY <1>1, <1>3, <1>5, <1>6

\* A record variable lies within the record.
LEMMA InRecord ==
    ASSUME NEW l \in Layout, Laid(l), NEW i \in RecVars(l)
    PROVE  /\ FillLen(l, i) \in Nat
           /\ l.vars[i].size <= FillLen(l, i)
           /\ FillLen(l, i) <= VarLen(l.vars[i])
           /\ l.begin_rec <= l.vars[i].begin
           /\ l.vars[i].begin + FillLen(l, i) <= l.begin_rec + l.recsize
<1> DEFINE n == Len(l.vars)
           f == RecSums(l)
<1>1. i \in 1 .. n /\ n \in Nat /\ l.vars[i].rec
  BY LayoutVars, VarSets
<1>2. /\ l.vars[i].begin \in Nat /\ l.vars[i].size \in Nat /\ VarLen(l.vars[i]) \in Nat
      /\ l.vars[i].size <= VarLen(l.vars[i])
  BY <1>1, LayoutVars
<1>3. l.begin_rec \in Nat /\ l.recsize \in Nat
  BY LayoutNumbers
<1>4. f \in [0 .. n -> Nat] /\ f[i] = f[i - 1] + RecPart(l, i)
  BY <1>1, RecSumsDef
<1>5. l.vars[i].begin = l.begin_rec + f[i - 1] /\ l.recsize = RecSize(l)
  BY <1>1 DEF Laid
<1>6. f[i - 1] \in Nat /\ f[i] \in Nat /\ f[n] \in Nat
  BY <1>1, <1>4
<1>7. CASE Cardinality(RecVars(l)) = 1
  <2>1. l.recsize = l.vars[i].size /\ l.vars[i].begin = l.begin_rec
    BY <1>7, PackedPlace
  <2>2. FillLen(l, i) = l.recsize
    BY <1>1, <1>7 DEF FillLen
  <2> QED
    BY <1>2, <1>3, <2>1, <2>2
<1>8. CASE Cardinality(RecVars(l)) # 1
  <2>1. l.recsize = f[n]
    BY <1>5, <1>8, RecSizeIs
  <2>2. FillLen(l, i) = VarLen(l.vars[i])
    BY <1>8 DEF FillLen
  <2>3. f[i] <= f[n]
    <3>1. i \in 0 .. n /\ n \in 0 .. n /\ i <= n
      BY <1>1
    <3> QED
      BY <3>1, RecSumsMonotone
  <2>4. f[i] = f[i - 1] + VarLen(l.vars[i])
    BY <1>1, <1>4 DEF RecPart
  <2> HIDE DEF f
  <2> QED
    BY <1>2, <1>3, <1>5, <1>6, <2>1, <2>2, <2>3, <2>4
<1> QED
  BY <1>7, <1>8

\* A cell of the layout: one record of a record variable, or a fixed-size one.
IsCell(l, i, r) == i \in 1 .. Len(l.vars) /\ r \in Nat /\ (l.vars[i].rec \/ r = 0)

\* Where a cell lies.
LEMMA CellPlace ==
    ASSUME NEW l \in Layout, Laid(l), NEW i, NEW r, IsCell(l, i, r)
    PROVE  /\ Offset(l, i, r) \in Nat /\ FillLen(l, i) \in Nat /\ l.vars[i].size \in Nat
           /\ l.vars[i].size <= FillLen(l, i)
           /\ l.xsz <= Offset(l, i, r)
           /\ l.vars[i].rec =>
                 /\ l.recsize * r \in Nat
                 /\ l.begin_rec + l.recsize * r <= Offset(l, i, r)
                 /\ Offset(l, i, r) + FillLen(l, i) <= l.begin_rec + l.recsize * r + l.recsize
           /\ ~l.vars[i].rec =>
                 /\ Offset(l, i, r) = l.vars[i].begin
                 /\ FillLen(l, i) = VarLen(l.vars[i])
                 /\ Offset(l, i, r) + FillLen(l, i) <= l.begin_rec
<1> DEFINE n == Len(l.vars)
<1>1. i \in 1 .. n /\ n \in Nat /\ r \in Nat /\ n > 0
  BY LayoutVars DEF IsCell
<1>2. /\ l.vars[i].begin \in Nat /\ l.vars[i].size \in Nat /\ VarLen(l.vars[i]) \in Nat
      /\ l.vars[i].size <= VarLen(l.vars[i])
  BY <1>1, LayoutVars
<1>3. /\ l.begin_rec \in Nat /\ l.begin_var \in Nat /\ l.xsz \in Nat /\ l.recsize \in Nat
      /\ l.xsz <= l.begin_var
  BY <1>1, LayoutNumbers DEF Laid
<1>4. l.recsize * r \in Nat
  BY <1>1, <1>3, ProductNat
<1>5. l.begin_var <= l.begin_rec
  <2>1. CASE FixVars(l) = {}
    BY <1>1, <1>3, <2>1 DEF Laid
  <2>2. CASE FixVars(l) # {}
    <3> DEFINE k == First(FixVars(l))
    <3>1. k \in FixVars(l)
      BY <2>2, VarSets, FirstIn
    <3>2. l.begin_var = l.vars[k].begin
      BY <1>1, <2>2 DEF Laid
    <3> HIDE DEF k
    <3>3. l.vars[k].begin + VarLen(l.vars[k]) <= l.begin_rec
      BY <3>1 DEF Laid, NC_check_voffs
    <3>4. l.vars[k].begin \in Nat /\ VarLen(l.vars[k]) \in Nat
      BY <3>1, LayoutVars, VarSets
    <3> QED
      BY <1>3, <3>2, <3>3, <3>4
  <2> QED
    BY <2>1, <2>2
<1>6. CASE l.vars[i].rec
  <2>1. i \in RecVars(l)
    BY <1>1, <1>6, VarSets
  <2>2. Offset(l, i, r) = l.vars[i].begin + l.recsize * r
    BY <1>6 DEF Offset
  <2>3. /\ FillLen(l, i) \in Nat /\ l.vars[i].size <= FillLen(l, i)
        /\ l.begin_rec <= l.vars[i].begin
        /\ l.vars[i].begin + FillLen(l, i) <= l.begin_rec + l.recsize
    BY <2>1, InRecord
  <2> DEFINE p == l.recsize * r
  <2>4. p \in Nat /\ Offset(l, i, r) = l.vars[i].begin + p
    BY <1>4, <2>2
  <2> HIDE DEF p
  <2>5. /\ Offset(l, i, r) \in Nat /\ l.xsz <= Offset(l, i, r)
        /\ l.begin_rec + p <= Offset(l, i, r)
        /\ Offset(l, i, r) + FillLen(l, i) <= l.begin_rec + p + l.recsize
    BY <1>2, <1>3, <1>5, <2>3, <2>4
  <2> QED
    BY <1>2, <1>4, <1>6, <2>3, <2>5 DEF p
<1>7. CASE ~l.vars[i].rec
  <2>1. i \in FixVars(l)
    BY <1>1, <1>7, VarSets
  <2>2. Offset(l, i, r) = l.vars[i].begin /\ FillLen(l, i) = VarLen(l.vars[i])
    <3>1. Offset(l, i, r) = l.vars[i].begin + 0
      BY <1>7 DEF Offset
    <3>2. FillLen(l, i) = VarLen(l.vars[i])
      BY <1>7 DEF FillLen
    <3> QED
      BY <1>2, <3>1, <3>2
  <2>3. l.begin_var <= l.vars[i].begin /\ l.vars[i].begin + VarLen(l.vars[i]) <= l.begin_rec
    BY <2>1 DEF Laid, NC_check_voffs
  <2> QED
    BY <1>2, <1>3, <1>7, <2>2, <2>3
<1> QED
  BY <1>6, <1>7, LayoutVars, <1>1

\* Record cells lie in the order of the records, then of the variables.
LEMMA RecOrder ==
    ASSUME NEW l \in Layout, Laid(l), NEW i, NEW r, NEW j, NEW s,
           IsCell(l, i, r), IsCell(l, j, s), l.vars[i].rec, l.vars[j].rec,
           r < s \/ (r = s /\ i < j)
    PROVE  Offset(l, i, r) + FillLen(l, i) <= Offset(l, j, s)
<1>1. /\ Offset(l, i, r) \in Nat /\ FillLen(l, i) \in Nat /\ l.recsize * r \in Nat
  BY CellPlace
<1>2. Offset(l, j, s) \in Nat
  BY CellPlace
<1>3. CASE r = s /\ i < j
  <2>1. i \in RecVars(l) /\ j \in RecVars(l)
    BY VarSets DEF IsCell
  <2>2. l.vars[i].begin + VarLen(l.vars[i]) <= l.vars[j].begin
    BY <1>3, <2>1 DEF Laid, NC_check_voffs
  <2>3. l.vars[i].begin \in Nat /\ l.vars[j].begin \in Nat /\ VarLen(l.vars[i]) \in Nat
    BY LayoutVars DEF IsCell
  <2> DEFINE p == l.recsize * r
  <2>4. Offset(l, i, r) = l.vars[i].begin + p /\ Offset(l, j, s) = l.vars[j].begin + p /\ p \in Nat
    BY <1>1, <1>3 DEF Offset
  <2>5. FillLen(l, i) <= VarLen(l.vars[i])
    BY <2>1, InRecord
  <2> HIDE DEF p
  <2> QED
    BY <1>1, <2>2, <2>3, <2>4, <2>5
<1>4. CASE r < s
  <2>1. r \in Nat /\ s \in Nat /\ l.recsize \in Nat /\ l.begin_rec \in Nat
    BY LayoutNumbers DEF IsCell
  <2>2. Offset(l, i, r) + FillLen(l, i) <= l.begin_rec + l.recsize * r + l.recsize
    BY CellPlace
  <2>3. l.begin_rec + l.recsize * s <= Offset(l, j, s)
    BY CellPlace
  <2>4. l.recsize * r + l.recsize <= l.recsize * s /\ l.recsize * s \in Nat
    BY <1>4, <2>1, RecordsApart
  <2> DEFINE p == l.recsize * r
             q == l.recsize * s
  <2>5. /\ p \in Nat /\ q \in Nat /\ p + l.recsize <= q /\ l.begin_rec + q <= Offset(l, j, s)
        /\ Offset(l, i, r) + FillLen(l, i) <= l.begin_rec + p + l.recsize
    BY <1>1, <2>2, <2>3, <2>4
  <2> HIDE DEF p, q
  <2> QED
    BY <1>1, <1>2, <2>1, <2>5
<1> QED
  BY <1>3, <1>4

\* Different cells do not overlap.
LEMMA CellsApart ==
    ASSUME NEW l \in Layout, Laid(l), NEW i, NEW r, IsCell(l, i, r),
           NEW j, NEW s, IsCell(l, j, s), i # j \/ r # s
    PROVE  \/ Offset(l, i, r) + FillLen(l, i) <= Offset(l, j, s)
           \/ Offset(l, j, s) + FillLen(l, j) <= Offset(l, i, r)
<1> DEFINE Before(a, b, c, d) == Offset(l, a, b) + FillLen(l, a) <= Offset(l, c, d)
<1>1. ASSUME NEW a, NEW b, NEW c, NEW d, IsCell(l, a, b), IsCell(l, c, d),
             ~l.vars[a].rec, l.vars[c].rec
      PROVE  Before(a, b, c, d)
  <2>1. Offset(l, a, b) + FillLen(l, a) <= l.begin_rec
        /\ Offset(l, a, b) \in Nat /\ FillLen(l, a) \in Nat
    BY <1>1, CellPlace
  <2>2. /\ l.recsize * d \in Nat /\ Offset(l, c, d) \in Nat
        /\ l.begin_rec + l.recsize * d <= Offset(l, c, d)
    BY <1>1, CellPlace
  <2>3. l.begin_rec \in Nat
    BY LayoutNumbers
  <2> QED
    BY <2>1, <2>2, <2>3
<1>2. ASSUME NEW a, NEW b, NEW c, NEW d, IsCell(l, a, b), IsCell(l, c, d),
             ~l.vars[a].rec, ~l.vars[c].rec, a < c
      PROVE  Before(a, b, c, d)
  <2>1. a \in FixVars(l) /\ c \in FixVars(l)
    BY <1>2, VarSets DEF IsCell
  <2>2. l.vars[a].begin + VarLen(l.vars[a]) <= l.vars[c].begin
    BY <1>2, <2>1 DEF Laid, NC_check_voffs
  <2>3. Offset(l, a, b) = l.vars[a].begin /\ FillLen(l, a) = VarLen(l.vars[a])
    BY <1>2, CellPlace
  <2>4. Offset(l, c, d) = l.vars[c].begin
    BY <1>2, CellPlace
  <2> QED
    BY <2>2, <2>3, <2>4
<1>3. ASSUME NEW a, NEW b, NEW c, NEW d, IsCell(l, a, b), IsCell(l, c, d),
             l.vars[a].rec, l.vars[c].rec, b < d \/ (b = d /\ a < c)
      PROVE  Before(a, b, c, d)
  BY <1>3, RecOrder
<1> HIDE DEF Before
<1>4. Before(i, r, j, s) \/ Before(j, s, i, r)
  <2>1. i \in Nat /\ j \in Nat /\ r \in Nat /\ s \in Nat
        /\ (l.vars[i].rec \/ r = 0) /\ (l.vars[j].rec \/ s = 0)
    BY LayoutVars DEF IsCell
  <2>2. CASE l.vars[i].rec /\ ~l.vars[j].rec
    BY <1>1, <2>2
  <2>3. CASE ~l.vars[i].rec /\ l.vars[j].rec
    BY <1>1, <2>3
  <2>4. CASE ~l.vars[i].rec /\ ~l.vars[j].rec
    <3>1. i < j \/ j < i
      BY <2>1, <2>4
    <3> QED
      BY <1>2, <2>4, <3>1
  <2>5. CASE l.vars[i].rec /\ l.vars[j].rec
    <3>1. r < s \/ s < r \/ (r = s /\ i < j) \/ (r = s /\ j < i)
      BY <2>1
    <3> QED
      BY <1>3, <2>5, <3>1
  <2> QED
    BY <2>2, <2>3, <2>4, <2>5
<1> QED
  BY <1>4 DEF Before

----------------------------------------------------------------------------
(* Moving data out *)

\* After the cells D of the cells C have been moved from O to N, file h holds
\* in them what f held, and is still f below them.
Carried(h, f, D, N, O, size) ==
    /\ DOMAIN h = DOMAIN f
    /\ \A d \in D : \A k \in 0 .. size[d] - 1 : h[N[d] + k] = f[O[d] + k]
    /\ \A a \in DOMAIN f : (\A d \in D : a < N[d]) => h[a] = f[a]

\* Positions of the bytes of a move.
LEMMA Below ==
    ASSUME NEW m \in Nat, NEW k \in 0 .. m - 1
    PROVE  k \in Nat /\ k < m
  OBVIOUS

LEMMA SameDistance ==
    ASSUME NEW F \in Nat, NEW a \in 0 .. F - 1, NEW to \in Nat, NEW from \in Nat, from <= to,
           NEW n \in Nat, NEW o \in Nat, NEW k \in Nat, NEW len \in Nat,
           a = n + k, n + from = to + o, to <= a, a < to + len
    PROVE  /\ a - to + from = o + k
           /\ a - to + from \in 0 .. F - 1
           /\ a - to + from < from + len
  OBVIOUS

LEMMA Within ==
    ASSUME NEW F \in Nat, NEW to \in Nat, NEW from \in Nat, from <= to,
           NEW size \in Nat, NEW k \in 0 .. size - 1, NEW len \in Nat,
           size <= len, to + size <= F
    PROVE  /\ to + k \in 0 .. F - 1 /\ to <= to + k /\ to + k < to + len
           /\ from + k \in 0 .. F - 1
           /\ to + k - to + from = from + k
           /\ from + k < from + size
  OBVIOUS

\* One move, of len bytes for a cell of size[e].  It may not damage the cells
\* moved before: either it ends before them, or it has no effect, or they were
\* all moved by the same distance and what it reads is still in place.
LEMMA OneMove ==
    ASSUME NEW C, NEW N \in [C -> Nat], NEW O \in [C -> Nat], NEW size \in [C -> Nat],
           NEW F \in Nat, NEW f, NEW h, DOMAIN f = 0 .. F - 1,
           NEW D \in SUBSET C, NEW e \in C, NEW len \in Nat, size[e] <= len,
           O[e] <= N[e],
           \A c \in D \cup {e} : N[c] + size[c] <= F,
           \A d \in D : O[d] <= N[d] /\ O[e] + size[e] <= O[d] /\ N[e] + size[e] <= N[d],
           \/ \A d \in D : N[e] + len <= N[d]
           \/ N[e] = O[e]
           \/ \A d \in D : N[d] + O[e] = N[e] + O[d] /\ O[e] + len <= N[d],
           Carried(h, f, D, N, O, size)
    PROVE  Carried(ncio_move(h, N[e], O[e], len), f, D \cup {e}, N, O, size)
<1> DEFINE g == ncio_move(h, N[e], O[e], len)
<1>1. DOMAIN h = 0 .. F - 1 /\ DOMAIN g = 0 .. F - 1
  BY DEF Carried, ncio_move
<1>2. /\ N[e] \in Nat /\ O[e] \in Nat /\ size[e] \in Nat
      /\ \A d \in D : N[d] \in Nat /\ O[d] \in Nat /\ size[d] \in Nat
  OBVIOUS
<1>3. ASSUME NEW a \in 0 .. F - 1
      PROVE  g[a] = IF N[e] <= a /\ a < N[e] + len THEN h[a - N[e] + O[e]] ELSE h[a]
  <2>1. a \in N[e] .. N[e] + len - 1 <=> N[e] <= a /\ a < N[e] + len
    BY <1>2
  <2> QED
    BY <1>1, <2>1 DEF ncio_move
<1> HIDE DEF g
<1>4. ASSUME NEW d \in D, NEW k \in 0 .. size[d] - 1
      PROVE  h[N[d] + k] = f[O[d] + k] /\ k \in Nat /\ k < size[d]
  <2>1. h[N[d] + k] = f[O[d] + k]
    BY DEF Carried
  <2> QED
    BY <1>2, <2>1, Below
<1>5. ASSUME NEW a \in 0 .. F - 1, \A d \in D : a < N[d]
      PROVE  h[a] = f[a]
  BY <1>5 DEF Carried
<1>6. ASSUME NEW d \in D, NEW k \in 0 .. size[d] - 1
      PROVE  g[N[d] + k] = f[O[d] + k]
  <2> DEFINE a == N[d] + k
  <2>1. h[a] = f[O[d] + k] /\ k \in Nat /\ k < size[d]
    BY <1>4
  <2>2. N[d] + size[d] <= F /\ N[e] + size[e] <= N[d] /\ O[d] <= N[d]
    OBVIOUS
  <2>3. a \in 0 .. F - 1 /\ a \in Nat /\ N[d] <= a /\ a = N[d] + k
    BY <1>2, <2>1, <2>2
  <2> HIDE DEF a
  <2>4. CASE ~(N[e] <= a /\ a < N[e] + len)
    BY <1>3, <2>1, <2>3, <2>4
  <2>5. CASE N[e] <= a /\ a < N[e] + len
    <3>1. g[a] = h[a - N[e] + O[e]]
      BY <1>3, <2>3, <2>5
    <3>2. CASE N[e] = O[e]
      <4>1. a - N[e] + O[e] = a
        BY <1>2, <2>3, <3>2
      <4> QED
        BY <2>1, <2>3, <3>1, <4>1
    <3>3. CASE \A c \in D : N[e] + len <= N[c]
      <4>1. N[e] + len <= N[d]
        BY <3>3
      <4> QED
        BY <1>2, <2>3, <2>5, <4>1
    <3>4. CASE \A c \in D : N[c] + O[e] = N[e] + O[c] /\ O[e] + len <= N[c]
      <4> DEFINE x == a - N[e] + O[e]
      <4>1. N[d] + O[e] = N[e] + O[d]
        BY <3>4
      <4>2. x = O[d] + k /\ x \in 0 .. F - 1 /\ x < O[e] + len
        <5>1. N[d] \in Nat /\ O[d] \in Nat
          BY <1>2
        <5>2. /\ a - N[e] + O[e] = O[d] + k
              /\ a - N[e] + O[e] \in 0 .. F - 1
              /\ a - N[e] + O[e] < O[e] + len
          BY ONLY SameDistance, <1>2, <2>1, <2>3, <2>5, <4>1, <5>1, F \in Nat, len \in Nat,
                  O[e] <= N[e]
        <5> QED
          BY <5>2
      <4>3. g[a] = h[x]
        BY <3>1
      <4> HIDE DEF x
      <4>4. ASSUME NEW c \in D
            PROVE  x < N[c]
        <5>1. O[e] + len <= N[c] /\ N[c] \in Nat
          BY <1>2, <3>4
        <5>2. O[e] + len \in Nat /\ x \in Int /\ x < O[e] + len
          BY ONLY <1>2, <4>2, F \in Nat, len \in Nat
        <5> QED
          BY ONLY <5>1, <5>2
      <4>5. h[x] = f[x]
        BY <1>5, <4>2, <4>4
      <4> QED
        BY <2>3, <4>2, <4>3, <4>5
    <3> QED
      BY <3>2, <3>3, <3>4
  <2> QED
    BY <2>4, <2>5
<1>7. ASSUME NEW k \in 0 .. size[e] - 1
      PROVE  g[N[e] + k] = f[O[e] + k]
  <2> DEFINE a == N[e] + k
             x == O[e] + k
  <2>1. N[e] + size[e] <= F
    OBVIOUS
  <2>2. /\ a \in 0 .. F - 1 /\ N[e] <= a /\ a < N[e] + len /\ x \in 0 .. F - 1
        /\ a - N[e] + O[e] = x /\ x < O[e] + size[e]
    BY <1>2, <2>1, Within
  <2> HIDE DEF a, x
  <2>3. g[a] = h[x]
    BY <1>3, <2>2
  <2>4. ASSUME NEW d \in D
        PROVE  x < N[d]
    <3>1. O[d] <= N[d] /\ O[e] + size[e] <= O[d]
      OBVIOUS
    <3> QED
      BY <1>2, <2>2, <3>1
  <2>5. h[x] = f[x]
    BY <1>5, <2>2, <2>4
  <2> QED
    BY <2>3, <2>5 DEF a, x
<1>8. ASSUME NEW a \in 0 .. F - 1, \A d \in D \cup {e} : a < N[d]
      PROVE  g[a] = f[a]
  <2>1. a < N[e] /\ \A d \in D : a < N[d]
    BY <1>8
  <2>2. g[a] = h[a]
    BY <1>2, <1>3, <2>1
  <2> QED
    BY <1>5, <2>1, <2>2
<1>9. \A d \in D \cup {e} : \A k \in 0 .. size[d] - 1 : g[N[d] + k] = f[O[d] + k]
  BY <1>6, <1>7
<1> QED
  BY <1>1, <1>8, <1>9 DEF Carried, g

\* A move leaves the file a file of the same bytes.
LEMMA MoveBytes ==
    ASSUME NEW F \in Nat, NEW V, NEW h \in [0 .. F - 1 -> V],
           NEW to \in Nat, NEW from \in Nat, NEW len, from <= to
    PROVE  ncio_move(h, to, from, len) \in [0 .. F - 1 -> V]
<1>1. ASSUME NEW a \in 0 .. F - 1, a \in to .. to + len - 1
      PROVE  a - to + from \in 0 .. F - 1
  BY <1>1
<1> QED
  BY <1>1 DEF ncio_move

\* Nothing has been moved yet.
LEMMA NothingMoved ==
    ASSUME NEW f, NEW N, NEW O, NEW size
    PROVE  Carried(f, f, {}, N, O, size)
  BY DEF Carried

----------------------------------------------------------------------------
(* The loops of move_recs_r and move_vars_r *)

\* What move_recs_r and move_vars_r rely on: the old layout and the new one
\* are in use, share the old variables, and no cell moves towards the header.
\* Where the section of the fixed-size variables stays, so do they.
Movable(gnu) ==
    /\ old \in Layout /\ Laid(old)
    /\ gnu \in Layout /\ Laid(gnu) /\ InFile(gnu)
    /\ Len(old.vars) <= Len(gnu.vars) /\ SameShapes(old, gnu, Len(old.vars))
    /\ gnu.numrecs = old.numrecs
    /\ EndefAsserts(gnu)
    /\ \A i \in FixVars(old) : old.vars[i].begin <= gnu.vars[i].begin
    /\ gnu.begin_var = old.begin_var =>
          \A i \in FixVars(old) : gnu.vars[i].begin = old.vars[i].begin

\* Packed records, whose padding is moved along with them, stay where they are
\* or move by X_ALIGN at least.
FarMoved(gnu) ==
    Cardinality(RecVars(gnu)) = 1 =>
        gnu.begin_rec = old.begin_rec \/ old.begin_rec + X_ALIGN <= gnu.begin_rec

RecCells  == RecVars(old) \X (0 .. old.numrecs - 1)
RecSizes  == [c \in RecCells |-> old.vars[c[1]].size]
OldPlaces == [c \in RecCells |-> Offset(old, c[1], c[2])]
NewPlaces(gnu) == [c \in RecCells |-> Offset(gnu, c[1], c[2])]

\* The cells that were moved before variable i of record r.
MovedCells(r, i) == {c \in RecCells : c[2] > r \/ (c[2] = r /\ c[1] > i)}

LEMMA OldCell ==
    ASSUME NEW gnu, Movable(gnu), NEW i \in 1 .. Len(old.vars)
    PROVE  /\ i \in 1 .. Len(gnu.vars)
           /\ gnu.vars[i].rec = old.vars[i].rec
           /\ gnu.vars[i].size = old.vars[i].size
           /\ VarLen(gnu.vars[i]) = VarLen(old.vars[i])
           /\ \A r \in Nat : IsCell(old, i, r) <=> IsCell(gnu, i, r)
<1>1. Len(old.vars) \in Nat /\ Len(gnu.vars) \in Nat /\ Len(old.vars) <= Len(gnu.vars)
  BY LayoutVars DEF Movable
<1>2. i \in 1 .. Len(gnu.vars)
  BY <1>1
<1>3. gnu.vars[i].rec = old.vars[i].rec /\ gnu.vars[i].size = old.vars[i].size
  BY DEF Movable, SameShapes
<1> QED
  BY <1>2, <1>3 DEF VarLen, IsCell

\* The places of one record cell.
LEMMA RecCell ==
    ASSUME NEW gnu, Movable(gnu), NEW i \in RecVars(old), NEW r \in 0 .. old.numrecs - 1
    PROVE  /\ IsCell(old, i, r) /\ IsCell(gnu, i, r)
           /\ i \in 1 .. Len(old.vars) /\ r \in Nat
           /\ i \in RecVars(gnu) /\ old.vars[i].rec /\ gnu.vars[i].rec
           /\ Offset(old, i, r) \in Nat /\ Offset(gnu, i, r) \in Nat
           /\ Offset(old, i, r) <= Offset(gnu, i, r)
           /\ old.vars[i].size \in Nat /\ VarLen(old.vars[i]) \in Nat
           /\ old.vars[i].size <= VarLen(old.vars[i])
           /\ gnu.begin_rec <= Offset(gnu, i, r)
           /\ Offset(gnu, i, r) + old.vars[i].size <= FileSize
<1>1. old \in Layout /\ Laid(old) /\ gnu \in Layout /\ Laid(gnu) /\ InFile(gnu)
      /\ gnu.numrecs = old.numrecs
  BY DEF Movable
<1>2. i \in 1 .. Len(old.vars) /\ old.vars[i].rec
  BY <1>1, VarSets
<1>3. i \in 1 .. Len(gnu.vars) /\ gnu.vars[i].rec /\ gnu.vars[i].size = old.vars[i].size
  BY <1>2, OldCell
<1>4. i \in RecVars(gnu)
  BY <1>1, <1>3, VarSets
<1>5. old.numrecs \in Nat
  BY <1>1, LayoutNumbers
<1>6. r \in Nat /\ r + 1 <= old.numrecs
  BY <1>5
<1>7. IsCell(old, i, r) /\ IsCell(gnu, i, r)
  BY <1>2, <1>3, <1>6 DEF IsCell
<1>8. Offset(old, i, r) \in Nat
  BY <1>1, <1>7, CellPlace
<1>9. /\ Offset(gnu, i, r) \in Nat /\ FillLen(gnu, i) \in Nat
      /\ gnu.vars[i].size \in Nat /\ gnu.vars[i].size <= FillLen(gnu, i)
      /\ gnu.recsize * r \in Nat
      /\ gnu.begin_rec + gnu.recsize * r <= Offset(gnu, i, r)
      /\ Offset(gnu, i, r) + FillLen(gnu, i) <= gnu.begin_rec + gnu.recsize * r + gnu.recsize
  BY <1>1, <1>3, <1>7, CellPlace
<1>10. Offset(old, i, r) <= Offset(gnu, i, r)
  <2>1. old # NoLayout
    BY <1>1, NC3LayoutAssumption
  <2>2. Offset(gnu, i, r) >= Offset(old, i, r)
    BY <2>1 DEF Movable, EndefAsserts
  <2> QED
    BY <1>8, <1>9, <2>2
<1>11. old.vars[i].size \in Nat /\ VarLen(old.vars[i]) \in Nat /\ old.vars[i].size <= VarLen(old.vars[i])
  BY <1>1, <1>2, LayoutVars
<1>12. gnu.begin_rec \in Nat /\ gnu.recsize \in Nat
  BY <1>1, LayoutNumbers
<1>13. gnu.recsize * r + gnu.recsize <= gnu.recsize * old.numrecs
       /\ gnu.recsize * old.numrecs \in Nat
  <2>1. r < old.numrecs
    BY <1>5, <1>6
  <2> QED
    BY <1>5, <1>6, <1>12, <2>1, RecordsApart
<1>14. gnu.begin_rec + gnu.recsize * old.numrecs <= FileSize /\ FileSize \in Nat
  BY <1>1, NC3LayoutAssumption DEF InFile
<1> DEFINE p == gnu.recsize * r
           q == gnu.recsize * old.numrecs
<1>15. /\ p \in Nat /\ q \in Nat /\ p + gnu.recsize <= q /\ gnu.begin_rec + q <= FileSize
       /\ gnu.begin_rec + p <= Offset(gnu, i, r)
       /\ Offset(gnu, i, r) + FillLen(gnu, i) <= gnu.begin_rec + p + gnu.recsize
       /\ Offset(gnu, i, r) \in Nat /\ FillLen(gnu, i) \in Nat /\ FileSize \in Nat
       /\ old.vars[i].size <= FillLen(gnu, i)
  BY <1>3, <1>9, <1>13, <1>14
<1> HIDE DEF p, q
<1>16. /\ gnu.begin_rec <= Offset(gnu, i, r)
       /\ Offset(gnu, i, r) + old.vars[i].size <= FileSize
  BY <1>11, <1>12, <1>15
<1> QED
  BY <1>2, <1>3, <1>4, <1>6, <1>7, <1>8, <1>9, <1>10, <1>11, <1>16

\* Packed records are moved by the same distance, and the padding that is
\* moved along with one of them is read before it is overwritten.
LEMMA PackedMove ==
    ASSUME NEW gnu, Movable(gnu), FarMoved(gnu), Cardinality(RecVars(gnu)) = 1, NEW i \in RecVars(old),
           NEW r \in 0 .. old.numrecs - 1, NEW s \in 0 .. old.numrecs - 1, r < s
    PROVE  \/ Offset(gnu, i, r) = Offset(old, i, r)
           \/ /\ Offset(gnu, i, s) + Offset(old, i, r) = Offset(gnu, i, r) + Offset(old, i, s)
              /\ Offset(old, i, r) + VarLen(old.vars[i]) <= Offset(gnu, i, s)
<1> DEFINE z == old.vars[i].size
           o == old.begin_rec
           g == gnu.begin_rec
           len == VarLen(old.vars[i])
<1>1. old \in Layout /\ Laid(old) /\ gnu \in Layout /\ Laid(gnu)
  BY DEF Movable
<1>2. i \in 1 .. Len(old.vars) /\ i \in RecVars(gnu) /\ old.vars[i].rec /\ gnu.vars[i].rec
  BY RecCell
<1>3. gnu.vars[i].size = z
  BY <1>2, OldCell
<1>4. Cardinality(RecVars(old)) = 1
  <2>1. RecVars(gnu) = {i}
    BY <1>1, <1>2, Packed
  <2>2. ASSUME NEW j \in RecVars(old)
        PROVE  j = i
    BY <2>1, RecCell
  <2>3. RecVars(old) = {i}
    BY <2>2
  <2> QED
    BY <2>3, FS_Singleton
<1>5. gnu.recsize = z /\ gnu.vars[i].begin = g
  BY <1>1, <1>2, <1>3, PackedPlace
<1>6. old.recsize = z /\ old.vars[i].begin = o
  BY <1>1, <1>4, PackedPlace
<1>7. z \in Nat /\ len \in Nat /\ len < z + X_ALIGN /\ X_ALIGN \in Nat
  BY <1>1, <1>2, LayoutVars, VarLenSize, NC3LayoutAssumption
<1>8. o \in Nat /\ g \in Nat /\ old.numrecs \in Nat
  BY <1>1, LayoutNumbers
<1>9. r \in Nat /\ s \in Nat
  BY <1>8
<1>10. z * r \in Nat /\ z * s \in Nat /\ z * r + z <= z * s
  BY <1>7, <1>9, RecordsApart
<1> DEFINE p == z * r
           q == z * s
<1>11. /\ Offset(gnu, i, r) = g + p /\ Offset(gnu, i, s) = g + q
       /\ Offset(old, i, r) = o + p /\ Offset(old, i, s) = o + q
  BY <1>2, <1>5, <1>6 DEF Offset
<1>12. p \in Nat /\ q \in Nat /\ p + z <= q
  BY <1>10
<1>13. g = o \/ o + X_ALIGN <= g
  BY DEF FarMoved
<1> HIDE DEF p, q, z, o, g, len
<1>14. CASE g = o
  BY <1>11, <1>14
<1>15. CASE o + X_ALIGN <= g
  <2>1. (g + q) + (o + p) = (g + p) + (o + q)
    BY <1>8, <1>12
  <2>2. o + p + len <= g + q
    BY <1>7, <1>8, <1>12, <1>15
  <2> QED
    BY <1>11, <2>1, <2>2 DEF len
<1> QED
  BY <1>13, <1>14, <1>15

\* The cells that come before one that is moved, in both layouts.
LEMMA RecPair ==
    ASSUME NEW gnu, Movable(gnu), NEW i \in RecVars(old), NEW r \in 0 .. old.numrecs - 1,
           NEW j \in RecVars(old), NEW s \in 0 .. old.numrecs - 1,
           s > r \/ (s = r /\ j > i)
    PROVE  /\ Offset(old, i, r) + old.vars[i].size <= Offset(old, j, s)
           /\ Offset(gnu, i, r) + old.vars[i].size <= Offset(gnu, j, s)
           /\ Cardinality(RecVars(gnu)) # 1 =>
                 Offset(gnu, i, r) + VarLen(old.vars[i]) <= Offset(gnu, j, s)
           /\ Cardinality(RecVars(gnu)) = 1 => j = i /\ r < s
<1>1. old \in Layout /\ Laid(old) /\ gnu \in Layout /\ Laid(gnu)
  BY DEF Movable
<1>2. /\ IsCell(old, i, r) /\ IsCell(gnu, i, r) /\ i \in 1 .. Len(old.vars) /\ r \in Nat
      /\ i \in RecVars(gnu) /\ old.vars[i].rec /\ gnu.vars[i].rec
  BY RecCell
<1>3. /\ IsCell(old, j, s) /\ IsCell(gnu, j, s) /\ j \in 1 .. Len(old.vars) /\ s \in Nat
      /\ j \in RecVars(gnu) /\ old.vars[j].rec /\ gnu.vars[j].rec
  BY RecCell
<1>4. r < s \/ (r = s /\ i < j)
  BY <1>2, <1>3
<1>5. Offset(old, i, r) + FillLen(old, i) <= Offset(old, j, s)
  BY <1>1, <1>2, <1>3, <1>4, RecOrder
<1>6. Offset(gnu, i, r) + FillLen(gnu, i) <= Offset(gnu, j, s)
  BY <1>1, <1>2, <1>3, <1>4, RecOrder
<1>7. /\ Offset(old, i, r) \in Nat /\ FillLen(old, i) \in Nat
      /\ old.vars[i].size \in Nat /\ old.vars[i].size <= FillLen(old, i)
  BY <1>1, <1>2, CellPlace
<1>8. /\ Offset(gnu, i, r) \in Nat /\ FillLen(gnu, i) \in Nat
      /\ gnu.vars[i].size \in Nat /\ gnu.vars[i].size <= FillLen(gnu, i)
  BY <1>1, <1>2, CellPlace
<1>9. Offset(old, j, s) \in Nat /\ Offset(gnu, j, s) \in Nat
  BY RecCell
<1>10. gnu.vars[i].size = old.vars[i].size /\ VarLen(gnu.vars[i]) = VarLen(old.vars[i])
  BY <1>2, OldCell
<1>11. Offset(old, i, r) + old.vars[i].size <= Offset(old, j, s)
  BY <1>5, <1>7, <1>9
<1>12. Offset(gnu, i, r) + old.vars[i].size <= Offset(gnu, j, s)
  BY <1>6, <1>8, <1>9, <1>10
<1>13. ASSUME Cardinality(RecVars(gnu)) # 1
       PROVE  Offset(gnu, i, r) + VarLen(old.vars[i]) <= Offset(gnu, j, s)
  <2>1. FillLen(gnu, i) = VarLen(old.vars[i])
    BY <1>10, <1>13 DEF FillLen
  <2> QED
    BY <1>6, <2>1
<1>14. ASSUME Cardinality(RecVars(gnu)) = 1
       PROVE  j = i /\ r < s
  <2>1. RecVars(gnu) = {i}
    BY <1>1, <1>2, <1>14, Packed
  <2>2. j = i
    BY <1>3, <2>1
  <2> QED
    BY <1>2, <1>4, <2>2
<1> QED
  BY <1>11, <1>12, <1>13, <1>14

\* One step of the loop: variable i of record r is moved.
LEMMA RecStep ==
    ASSUME NEW gnu, Movable(gnu), FarMoved(gnu), NEW i \in RecVars(old), NEW r \in 0 .. old.numrecs - 1,
           NEW f, NEW h, DOMAIN f = 0 .. FileSize - 1,
           Carried(h, f, MovedCells(r, i), NewPlaces(gnu), OldPlaces, RecSizes)
    PROVE  Carried(ncio_move(h, Offset(gnu, i, r), Offset(old, i, r), VarLen(old.vars[i])), f,
                   MovedCells(r, i) \cup {<<i, r>>}, NewPlaces(gnu), OldPlaces, RecSizes)
<1> DEFINE C == RecCells
           N == NewPlaces(gnu)
           O == OldPlaces
           Z == RecSizes
           D == MovedCells(r, i)
           e == <<i, r>>
           len == VarLen(old.vars[i])
<1>1. ASSUME NEW c \in C
      PROVE  /\ c[1] \in RecVars(old) /\ c[2] \in 0 .. old.numrecs - 1
             /\ N[c] = Offset(gnu, c[1], c[2]) /\ O[c] = Offset(old, c[1], c[2])
             /\ Z[c] = old.vars[c[1]].size
  BY DEF RecCells, NewPlaces, OldPlaces, RecSizes
<1>2. ASSUME NEW c \in C
      PROVE  /\ N[c] \in Nat /\ O[c] \in Nat /\ Z[c] \in Nat /\ O[c] <= N[c]
             /\ N[c] + Z[c] <= FileSize
  <2> DEFINE j == c[1]
             s == c[2]
  <2>1. /\ j \in RecVars(old) /\ s \in 0 .. old.numrecs - 1
        /\ N[c] = Offset(gnu, j, s) /\ O[c] = Offset(old, j, s) /\ Z[c] = old.vars[j].size
    BY <1>1
  <2> HIDE DEF j, s, N, O, Z, C
  <2>2. /\ Offset(old, j, s) \in Nat /\ Offset(gnu, j, s) \in Nat
        /\ Offset(old, j, s) <= Offset(gnu, j, s)
        /\ old.vars[j].size \in Nat
        /\ Offset(gnu, j, s) + old.vars[j].size <= FileSize
    BY <2>1, RecCell
  <2> QED
    BY <2>1, <2>2
<1>3. N \in [C -> Nat] /\ O \in [C -> Nat] /\ Z \in [C -> Nat]
  <2>1. N = [c \in C |-> N[c]] /\ O = [c \in C |-> O[c]] /\ Z = [c \in C |-> Z[c]]
    BY DEF NewPlaces, OldPlaces, RecSizes
  <2> HIDE DEF N, O, Z, C
  <2> QED
    BY <1>2, <2>1
<1>4. e \in C /\ D \in SUBSET C /\ e[1] = i /\ e[2] = r
  BY DEF RecCells, MovedCells
<1>5. N[e] = Offset(gnu, i, r) /\ O[e] = Offset(old, i, r) /\ Z[e] = old.vars[i].size
  BY <1>1, <1>4
<1>6. len \in Nat /\ Z[e] <= len
  BY <1>5, RecCell
<1>7. ASSUME NEW d \in D
      PROVE  /\ d \in C /\ d[1] \in RecVars(old) /\ d[2] \in 0 .. old.numrecs - 1
             /\ d[2] > r \/ (d[2] = r /\ d[1] > i)
  BY <1>1 DEF MovedCells
<1>8. ASSUME NEW d \in D
      PROVE  /\ O[d] <= N[d] /\ O[e] + Z[e] <= O[d] /\ N[e] + Z[e] <= N[d]
             /\ Cardinality(RecVars(gnu)) # 1 => N[e] + len <= N[d]
             /\ Cardinality(RecVars(gnu)) = 1 =>
                   N[e] = O[e] \/ (N[d] + O[e] = N[e] + O[d] /\ O[e] + len <= N[d])
  <2> DEFINE j == d[1]
             s == d[2]
  <2>1. d \in C /\ j \in RecVars(old) /\ s \in 0 .. old.numrecs - 1 /\ (s > r \/ (s = r /\ j > i))
    BY <1>7
  <2>2. N[d] = Offset(gnu, j, s) /\ O[d] = Offset(old, j, s)
    BY <1>1, <2>1
  <2> HIDE DEF j, s, N, O, Z, D, C, e
  <2>3. /\ Offset(old, i, r) + old.vars[i].size <= Offset(old, j, s)
        /\ Offset(gnu, i, r) + old.vars[i].size <= Offset(gnu, j, s)
        /\ Cardinality(RecVars(gnu)) # 1 =>
              Offset(gnu, i, r) + VarLen(old.vars[i]) <= Offset(gnu, j, s)
        /\ Cardinality(RecVars(gnu)) = 1 => j = i /\ r < s
    BY <2>1, RecPair
  <2>4. ASSUME Cardinality(RecVars(gnu)) = 1
        PROVE  \/ Offset(gnu, i, r) = Offset(old, i, r)
               \/ /\ Offset(gnu, i, s) + Offset(old, i, r) = Offset(gnu, i, r) + Offset(old, i, s)
                  /\ Offset(old, i, r) + VarLen(old.vars[i]) <= Offset(gnu, i, s)
    BY <2>1, <2>3, <2>4, PackedMove
  <2> QED
    BY <1>2, <1>5, <2>1, <2>2, <2>3, <2>4
<1>9. \/ \A d \in D : N[e] + len <= N[d]
      \/ N[e] = O[e]
      \/ \A d \in D : N[d] + O[e] = N[e] + O[d] /\ O[e] + len <= N[d]
  <2> HIDE DEF N, O, Z, D, C, e, len
  <2> QED
    BY <1>8
<1>10. FileSize \in Nat
  BY NC3LayoutAssumption
<1>11. Carried(h, f, D, N, O, Z)
  OBVIOUS
<1> HIDE DEF N, O, Z, D, C, e, len
<1>12. O[e] <= N[e] /\ \A c \in D \cup {e} : N[c] + Z[c] <= FileSize
  BY <1>2, <1>4
<1>13. \A d \in D : O[d] <= N[d] /\ O[e] + Z[e] <= O[d] /\ N[e] + Z[e] <= N[d]
  BY <1>8
<1>14. Carried(ncio_move(h, N[e], O[e], len), f, D \cup {e}, N, O, Z)
  BY <1>3, <1>4, <1>6, <1>9, <1>10, <1>11, <1>12, <1>13, OneMove
<1> QED
  BY <1>5, <1>14 DEF N, O, Z, D, e, len

\* MoveRecord moves the cells of record r.
LEMMA RecordMoved ==
    ASSUME NEW gnu, Movable(gnu), NEW r \in 0 .. old.numrecs - 1, NEW V,
           NEW f \in [0 .. FileSize - 1 -> V], NEW h \in [0 .. FileSize - 1 -> V]
    PROVE  /\ MoveRecord(h, gnu, r) \in [0 .. FileSize - 1 -> V]
           /\ FarMoved(gnu) /\ Carried(h, f, MovedCells(r, Len(old.vars)), NewPlaces(gnu), OldPlaces, RecSizes)
                => Carried(MoveRecord(h, gnu, r), f, MovedCells(r, 0), NewPlaces(gnu), OldPlaces,
                           RecSizes)
<1> DEFINE T  == [0 .. FileSize - 1 -> V]
           nv == Len(old.vars)
           M(k, x) == IF ~gnu.vars[nv + 1 - k].rec THEN x
                      ELSE ncio_move(x, Offset(gnu, nv + 1 - k, r), Offset(old, nv + 1 - k, r),
                                     VarLen(old.vars[nv + 1 - k]))
           G  == [p \in (1 .. nv) \X T |-> M(p[1], p[2])]
           B(x) == [k \in 0 .. nv |-> IF k = 0 THEN h ELSE M(k, x[k - 1])]
           g  == CHOOSE x : x = B(x)
           Ok(x, i) == FarMoved(gnu) => Carried(x, f, MovedCells(r, i), NewPlaces(gnu), OldPlaces, RecSizes)
<1>1. MoveRecord(h, gnu, r) = g[nv]
  BY DEF MoveRecord
<1>2. nv \in Nat /\ old \in Layout /\ FileSize \in Nat
  BY LayoutVars, NC3LayoutAssumption DEF Movable
<1>3. ASSUME NEW k \in 1 .. nv, NEW x \in T
      PROVE  M(k, x) \in T
  <2> DEFINE i == nv + 1 - k
  <2>1. i \in 1 .. nv
    BY <1>2
  <2> HIDE DEF i
  <2>2. CASE ~gnu.vars[i].rec
    BY <2>2 DEF i
  <2>3. CASE gnu.vars[i].rec
    <3>1. i \in RecVars(old)
      BY <1>2, <2>1, <2>3, OldCell, VarSets
    <3>2. Offset(old, i, r) \in Nat /\ Offset(gnu, i, r) \in Nat /\ Offset(old, i, r) <= Offset(gnu, i, r)
      BY <3>1, RecCell
    <3>3. ncio_move(x, Offset(gnu, i, r), Offset(old, i, r), VarLen(old.vars[i])) \in T
      BY <1>2, <3>2, MoveBytes
    <3> QED
      BY <2>3, <3>3 DEF i
  <2> QED
    BY <2>2, <2>3
<1>4. ASSUME NEW k \in 1 .. nv, NEW x \in T, Ok(x, nv + 1 - k)
      PROVE  Ok(M(k, x), nv - k)
  <2> DEFINE i == nv + 1 - k
  <2>1. i \in 1 .. nv /\ nv - k = i - 1
    BY <1>2
  <2>2. Ok(x, i)
    BY <1>4
  <2> HIDE DEF i
  <2>3. CASE ~gnu.vars[i].rec
    <3>1. i \notin RecVars(old)
      BY <1>2, <2>1, <2>3, OldCell, VarSets
    <3>2. \A c \in RecCells : c[1] \in 1 .. nv /\ c[1] # i
      BY <1>2, <3>1, VarSets DEF RecCells
    <3>3. \A c \in RecCells : c[1] > i <=> c[1] > i - 1
      BY <2>1, <3>2
    <3>4. MovedCells(r, i - 1) = MovedCells(r, i)
      BY <3>3 DEF MovedCells
    <3>5. M(k, x) = x
      BY <2>3 DEF i
    <3> QED
      BY <2>1, <2>2, <3>4, <3>5
  <2>4. CASE gnu.vars[i].rec
    <3>1. i \in RecVars(old)
      BY <1>2, <2>1, <2>4, OldCell, VarSets
    <3>2. \A c \in RecCells : c[1] \in 1 .. nv /\ c = <<c[1], c[2]>>
      BY <1>2, VarSets DEF RecCells
    <3>3. \A c \in RecCells : c[1] > i - 1 <=> c[1] > i \/ c[1] = i
      BY <2>1, <3>2
    <3>4. <<i, r>> \in RecCells
      BY <3>1 DEF RecCells
    <3>5. MovedCells(r, i - 1) = MovedCells(r, i) \cup {<<i, r>>}
      <4>1. ASSUME NEW c \in MovedCells(r, i - 1)
            PROVE  c \in MovedCells(r, i) \cup {<<i, r>>}
        BY <3>2, <3>3 DEF MovedCells
      <4>2. ASSUME NEW c \in MovedCells(r, i)
            PROVE  c \in MovedCells(r, i - 1)
        BY <3>3 DEF MovedCells
      <4>3. <<i, r>> \in MovedCells(r, i - 1)
        <5>1. <<i, r>>[1] = i /\ <<i, r>>[2] = r /\ i > i - 1
          BY <2>1
        <5> QED
          BY <3>4, <5>1 DEF MovedCells
      <4> QED
        BY <4>1, <4>2, <4>3
    <3>6. DOMAIN f = 0 .. FileSize - 1
      OBVIOUS
    <3>7. FarMoved(gnu) =>
            Carried(ncio_move(x, Offset(gnu, i, r), Offset(old, i, r), VarLen(old.vars[i])), f,
                    MovedCells(r, i) \cup {<<i, r>>}, NewPlaces(gnu), OldPlaces, RecSizes)
      BY <2>2, <3>1, <3>6, RecStep
    <3>8. M(k, x) = ncio_move(x, Offset(gnu, i, r), Offset(old, i, r), VarLen(old.vars[i]))
      BY <2>4 DEF i
    <3> QED
      BY <2>1, <3>5, <3>7, <3>8
  <2> QED
    BY <2>3, <2>4
<1> HIDE DEF M, nv, Ok
<1>5. G \in [(1 .. nv) \X T -> T]
  BY <1>3
<1>6. \A k \in 1 .. nv, x \in T : G[<<k, x>>] = M(k, x)
  OBVIOUS
<1>7. g[0] = h /\ \A k \in 1 .. nv : g[k] = M(k, g[k - 1])
  <2> HIDE DEF G
  <2>1. PICK y : Computes(y, nv, T, h, G)
    BY <1>2, <1>5, Computation
  <2>2. y \in [0 .. nv -> T] /\ y[0] = h /\ \A k \in 1 .. nv : y[k] = M(k, y[k - 1])
    <3>1. y \in [0 .. nv -> T] /\ y[0] = h /\ \A k \in 1 .. nv : y[k] = G[<<k, y[k - 1]>>]
      BY <2>1 DEF Computes
    <3>2. \A k \in 1 .. nv : y[k - 1] \in T
      BY <1>2, <3>1
    <3> QED
      BY <1>6, <3>1, <3>2
  <2>3. y = B(y)
    <3>1. \A k \in 0 .. nv : k # 0 => k \in 1 .. nv
      BY <1>2
    <3>2. \A k \in 0 .. nv : y[k] = IF k = 0 THEN h ELSE M(k, y[k - 1])
      BY <2>2, <3>1
    <3> QED
      BY <2>2, <3>2
  <2>4. g = B(g)
    BY <2>3
  <2> HIDE DEF g
  <2>5. 0 \in 0 .. nv /\ \A k \in 1 .. nv : k \in 0 .. nv /\ k # 0
    BY <1>2
  <2> QED
    BY <2>4, <2>5
<1> HIDE DEF g, T
<1> DEFINE S == {k \in 0 .. nv : g[k] \in T /\ (Ok(h, nv) => Ok(g[k], nv - k))}
<1>8. 0 \in S
  <2>1. nv - 0 = nv /\ h \in T
    BY <1>2 DEF T
  <2> QED
    BY <1>2, <1>7, <2>1
<1>9. ASSUME NEW k \in 1 .. nv, k - 1 \in S
      PROVE  k \in S
  <2>1. g[k - 1] \in T /\ (Ok(h, nv) => Ok(g[k - 1], nv + 1 - k))
    <3>1. nv - (k - 1) = nv + 1 - k
      BY <1>2
    <3> QED
      BY <1>9, <3>1
  <2>2. M(k, g[k - 1]) \in T /\ (Ok(h, nv) => Ok(M(k, g[k - 1]), nv - k))
    BY <1>3, <1>4, <2>1
  <2>3. k \in 0 .. nv
    BY <1>2
  <2> QED
    BY <1>7, <2>2, <2>3
<1>10. \A k \in 0 .. nv : k \in S
  <2> HIDE DEF S
  <2> QED
    BY <1>2, <1>8, <1>9, UpTo
<1>11. g[nv] \in T /\ (Ok(h, nv) => Ok(g[nv], 0))
  <2>1. nv \in 0 .. nv /\ nv - nv = 0
    BY <1>2
  <2> QED
    BY <1>10, <2>1
<1> QED
  BY <1>1, <1>11 DEF Ok, T, nv

\* The records, and the fixed-size variables, of f are in h at their new places.
RecsCarried(h, f, gnu) ==
    \A i \in RecVars(old), r \in 0 .. old.numrecs - 1 : \A k \in 0 .. old.vars[i].size - 1 :
        h[Offset(gnu, i, r) + k] = f[Offset(old, i, r) + k]

VarsCarried(h, f, gnu) ==
    \A i \in FixVars(old) : \A k \in 0 .. old.vars[i].size - 1 :
        h[gnu.vars[i].begin + k] = f[old.vars[i].begin + k]

SameBelow(h, f, end)   == \A a \in 0 .. FileSize - 1 : a < end => h[a] = f[a]
SameFrom(h, f, begin)  == \A a \in 0 .. FileSize - 1 : begin <= a => h[a] = f[a]

\* move_recs_r leaves every record cell in its new place, and what is before
\* the new record section alone.
LEMMA RecordsMoved ==
    ASSUME NEW gnu, Movable(gnu), NEW V, NEW f \in [0 .. FileSize - 1 -> V]
    PROVE  /\ move_recs_r(f, gnu) \in [0 .. FileSize - 1 -> V]
           /\ FarMoved(gnu) =>
                 /\ RecsCarried(move_recs_r(f, gnu), f, gnu)
                 /\ SameBelow(move_recs_r(f, gnu), f, gnu.begin_rec)
<1> DEFINE T  == [0 .. FileSize - 1 -> V]
           nv == Len(old.vars)
           nr == old.numrecs
           Ok(x, i) == FarMoved(gnu) => Carried(x, f, MovedCells(i, 0), NewPlaces(gnu), OldPlaces, RecSizes)
           M(k, x) == MoveRecord(x, gnu, nr - k)
           G  == [p \in (1 .. nr) \X T |-> M(p[1], p[2])]
           B(x) == [k \in 0 .. nr |-> IF k = 0 THEN f ELSE M(k, x[k - 1])]
           g  == CHOOSE x : x = B(x)
<1>1. move_recs_r(f, gnu) = g[nr]
  BY DEF move_recs_r
<1>2. nv \in Nat /\ nr \in Nat /\ old \in Layout /\ FileSize \in Nat /\ gnu \in Layout
  BY LayoutVars, LayoutNumbers, NC3LayoutAssumption DEF Movable
<1>3. \A c \in RecCells : c[1] \in 1 .. nv /\ c[2] \in 0 .. nr - 1
  BY <1>2, VarSets DEF RecCells
<1>4. ASSUME NEW k \in 1 .. nr, NEW x \in T
      PROVE  M(k, x) \in T /\ (Ok(x, nr + 1 - k) => Ok(M(k, x), nr - k))
  <2> DEFINE r == nr - k
  <2>1. r \in 0 .. nr - 1 /\ nr + 1 - k = r + 1
    BY <1>2
  <2>2. M(k, x) = MoveRecord(x, gnu, r)
    OBVIOUS
  <2> HIDE DEF r, M
  <2>3. \A c \in RecCells : (c[2] > r + 1 \/ (c[2] = r + 1 /\ c[1] > 0))
                                <=> (c[2] > r \/ (c[2] = r /\ c[1] > nv))
    BY <1>2, <1>3, <2>1
  <2>4. MovedCells(r + 1, 0) = MovedCells(r, nv)
    BY <2>3 DEF MovedCells
  <2>5. MoveRecord(x, gnu, r) \in T /\ (Ok(x, r + 1) => Ok(MoveRecord(x, gnu, r), r))
    BY <2>1, <2>4, RecordMoved
  <2> QED
    BY <2>1, <2>2, <2>5 DEF r
<1>5. Ok(f, nr)
  <2>1. \A c \in RecCells : ~(c[2] > nr \/ (c[2] = nr /\ c[1] > 0))
    BY <1>2, <1>3
  <2>2. MovedCells(nr, 0) = {}
    BY <2>1 DEF MovedCells
  <2> QED
    BY <2>2, NothingMoved
<1>6. MovedCells(0, 0) = RecCells
  <2>1. \A c \in RecCells : c[2] > 0 \/ (c[2] = 0 /\ c[1] > 0)
    BY <1>2, <1>3
  <2> QED
    BY <2>1 DEF MovedCells
<1> HIDE DEF M, nv, nr, Ok
<1>7. G \in [(1 .. nr) \X T -> T]
  BY <1>4
<1>8. \A k \in 1 .. nr, x \in T : G[<<k, x>>] = M(k, x)
  OBVIOUS
<1>9. g[0] = f /\ \A k \in 1 .. nr : g[k] = M(k, g[k - 1])
  <2> HIDE DEF G
  <2>1. PICK y : Computes(y, nr, T, f, G)
    BY <1>2, <1>7, Computation
  <2>2. y \in [0 .. nr -> T] /\ y[0] = f /\ \A k \in 1 .. nr : y[k] = M(k, y[k - 1])
    <3>1. y \in [0 .. nr -> T] /\ y[0] = f /\ \A k \in 1 .. nr : y[k] = G[<<k, y[k - 1]>>]
      BY <2>1 DEF Computes
    <3>2. \A k \in 1 .. nr : y[k - 1] \in T
      BY <1>2, <3>1
    <3> QED
      BY <1>8, <3>1, <3>2
  <2>3. y = B(y)
    <3>1. \A k \in 0 .. nr : k # 0 => k \in 1 .. nr
      BY <1>2
    <3>2. \A k \in 0 .. nr : y[k] = IF k = 0 THEN f ELSE M(k, y[k - 1])
      BY <2>2, <3>1
    <3> QED
      BY <2>2, <3>2
  <2>4. g = B(g)
    BY <2>3
  <2> HIDE DEF g
  <2>5. 0 \in 0 .. nr /\ \A k \in 1 .. nr : k \in 0 .. nr /\ k # 0
    BY <1>2
  <2> QED
    BY <2>4, <2>5
<1> HIDE DEF g, T
<1> DEFINE S == {k \in 0 .. nr : g[k] \in T /\ Ok(g[k], nr - k)}
<1>10. 0 \in S
  <2>1. nr - 0 = nr /\ f \in T
    BY <1>2 DEF T
  <2> QED
    BY <1>2, <1>5, <1>9, <2>1
<1>11. ASSUME NEW k \in 1 .. nr, k - 1 \in S
       PROVE  k \in S
  <2>1. g[k - 1] \in T /\ Ok(g[k - 1], nr + 1 - k)
    <3>1. nr - (k - 1) = nr + 1 - k
      BY <1>2
    <3> QED
      BY <1>11, <3>1
  <2>2. M(k, g[k - 1]) \in T /\ Ok(M(k, g[k - 1]), nr - k)
    BY <1>4, <2>1
  <2>3. k \in 0 .. nr
    BY <1>2
  <2> QED
    BY <1>9, <2>2, <2>3
<1>12. \A k \in 0 .. nr : k \in S
  <2> HIDE DEF S
  <2> QED
    BY <1>2, <1>10, <1>11, UpTo
<1>13. g[nr] \in T /\ Ok(g[nr], 0)
  <2>1. nr \in 0 .. nr /\ nr - nr = 0
    BY <1>2
  <2> QED
    BY <1>12, <2>1
<1> DEFINE h == move_recs_r(f, gnu)
<1> HIDE DEF h
<1>14. h \in T /\ (FarMoved(gnu) => Carried(h, f, RecCells, NewPlaces(gnu), OldPlaces, RecSizes))
  BY <1>1, <1>6, <1>13 DEF Ok, h
<1>15. ASSUME FarMoved(gnu), NEW i \in RecVars(old), NEW r \in 0 .. old.numrecs - 1,
              NEW k \in 0 .. old.vars[i].size - 1
       PROVE  h[Offset(gnu, i, r) + k] = f[Offset(old, i, r) + k]
  <2> DEFINE c == <<i, r>>
  <2>1. c \in RecCells
    BY DEF RecCells
  <2>2. NewPlaces(gnu)[c] = Offset(gnu, i, r) /\ OldPlaces[c] = Offset(old, i, r)
        /\ RecSizes[c] = old.vars[i].size
    BY <2>1 DEF NewPlaces, OldPlaces, RecSizes
  <2> HIDE DEF c
  <2> QED
    BY <1>14, <1>15, <2>1, <2>2 DEF Carried
<1>16. ASSUME FarMoved(gnu), NEW a \in 0 .. FileSize - 1, a < gnu.begin_rec
       PROVE  h[a] = f[a]
  <2>1. gnu.begin_rec \in Nat
    BY <1>2, LayoutNumbers
  <2>2. ASSUME NEW c \in RecCells
        PROVE  a < NewPlaces(gnu)[c]
    <3> DEFINE i == c[1]
               r == c[2]
    <3>1. i \in RecVars(old) /\ r \in 0 .. old.numrecs - 1 /\ NewPlaces(gnu)[c] = Offset(gnu, i, r)
      BY DEF RecCells, NewPlaces
    <3> HIDE DEF i, r
    <3>2. gnu.begin_rec <= Offset(gnu, i, r) /\ Offset(gnu, i, r) \in Nat
      BY <3>1, RecCell
    <3> QED
      BY <1>16, <2>1, <3>1, <3>2
  <2>3. a \in DOMAIN f
    OBVIOUS
  <2> QED
    BY <1>14, <1>16, <2>2, <2>3 DEF Carried
<1> QED
  BY <1>14, <1>15, <1>16 DEF h, T, RecsCarried, SameBelow

FixLens    == [i \in FixVars(old) |-> VarLen(old.vars[i])]
OldBegins  == [i \in FixVars(old) |-> old.vars[i].begin]
NewBegins(gnu) == [i \in FixVars(old) |-> gnu.vars[i].begin]

\* The fixed-size variables that were moved before variable i.
MovedVars(i) == {j \in FixVars(old) : j > i}

\* A fixed-size variable ends before the record section of the new layout.
LEMMA FixCell ==
    ASSUME NEW gnu, Movable(gnu), NEW i \in FixVars(old)
    PROVE  /\ i \in 1 .. Len(old.vars) /\ i \in FixVars(gnu)
           /\ old.vars[i].begin \in Nat /\ gnu.vars[i].begin \in Nat
           /\ old.vars[i].begin <= gnu.vars[i].begin
           /\ VarLen(old.vars[i]) \in Nat /\ old.vars[i].size \in Nat
           /\ old.vars[i].size <= VarLen(old.vars[i])
           /\ gnu.vars[i].begin + VarLen(old.vars[i]) <= gnu.begin_rec
           /\ old.vars[i].begin + VarLen(old.vars[i]) <= old.begin_rec
           /\ gnu.vars[i].begin + VarLen(old.vars[i]) <= FileSize
<1>1. old \in Layout /\ Laid(old) /\ gnu \in Layout /\ Laid(gnu) /\ InFile(gnu)
  BY DEF Movable
<1>2. i \in 1 .. Len(old.vars) /\ ~old.vars[i].rec
  BY <1>1, VarSets
<1>3. /\ i \in 1 .. Len(gnu.vars) /\ ~gnu.vars[i].rec
      /\ VarLen(gnu.vars[i]) = VarLen(old.vars[i])
  BY <1>2, OldCell
<1>4. i \in FixVars(gnu)
  BY <1>1, <1>3, VarSets
<1>5. /\ old.vars[i].begin \in Nat /\ VarLen(old.vars[i]) \in Nat /\ old.vars[i].size \in Nat
      /\ old.vars[i].size <= VarLen(old.vars[i]) /\ gnu.vars[i].begin \in Nat
  BY <1>1, <1>2, <1>3, LayoutVars
<1>6. gnu.vars[i].begin + VarLen(old.vars[i]) <= gnu.begin_rec
  BY <1>1, <1>3, <1>4 DEF Laid, NC_check_voffs
<1>7. old.vars[i].begin + VarLen(old.vars[i]) <= old.begin_rec
  BY <1>1 DEF Laid, NC_check_voffs
<1>8. old.vars[i].begin <= gnu.vars[i].begin
  BY DEF Movable
<1>9. gnu.begin_rec \in Nat /\ gnu.begin_rec <= FileSize /\ FileSize \in Nat
  BY <1>1, NC3LayoutAssumption DEF InFile
<1>10. gnu.vars[i].begin + VarLen(old.vars[i]) <= FileSize
  BY <1>5, <1>6, <1>9
<1> QED
  BY <1>2, <1>4, <1>5, <1>6, <1>7, <1>8, <1>10

\* A move to where the data is.
LEMMA MoveNowhere ==
    ASSUME NEW F \in Nat, NEW V, NEW h \in [0 .. F - 1 -> V], NEW to \in Nat, NEW len
    PROVE  ncio_move(h, to, to, len) = h
<1>1. \A a \in 0 .. F - 1 : a - to + to = a
  OBVIOUS
<1> QED
  BY <1>1 DEF ncio_move

\* One step of the loop: variable i is moved.
LEMMA VarStep ==
    ASSUME NEW gnu, Movable(gnu), NEW i \in FixVars(old),
           NEW f, NEW h, DOMAIN f = 0 .. FileSize - 1,
           Carried(h, f, MovedVars(i), NewBegins(gnu), OldBegins, FixLens)
    PROVE  Carried(ncio_move(h, gnu.vars[i].begin, old.vars[i].begin, VarLen(old.vars[i])), f,
                   MovedVars(i) \cup {i}, NewBegins(gnu), OldBegins, FixLens)
<1> DEFINE C == FixVars(old)
           N == NewBegins(gnu)
           O == OldBegins
           Z == FixLens
           D == MovedVars(i)
<1>1. ASSUME NEW c \in C
      PROVE  /\ N[c] = gnu.vars[c].begin /\ O[c] = old.vars[c].begin
             /\ Z[c] = VarLen(old.vars[c])
  BY DEF NewBegins, OldBegins, FixLens
<1>2. ASSUME NEW c \in C
      PROVE  /\ N[c] \in Nat /\ O[c] \in Nat /\ Z[c] \in Nat /\ O[c] <= N[c]
             /\ N[c] + Z[c] <= FileSize
  BY <1>1, FixCell
<1>3. N \in [C -> Nat] /\ O \in [C -> Nat] /\ Z \in [C -> Nat]
  <2>1. N = [c \in C |-> N[c]] /\ O = [c \in C |-> O[c]] /\ Z = [c \in C |-> Z[c]]
    BY DEF NewBegins, OldBegins, FixLens
  <2> HIDE DEF N, O, Z, C
  <2> QED
    BY <1>2, <2>1
<1>4. D \in SUBSET C
  BY DEF MovedVars
<1>5. ASSUME NEW d \in D
      PROVE  O[d] <= N[d] /\ O[i] + Z[i] <= O[d] /\ N[i] + Z[i] <= N[d]
  <2>1. d \in C /\ i < d
    <3>1. d \in C /\ d > i
      BY DEF MovedVars
    <3>2. d \in Nat /\ i \in Nat
      BY <3>1, FixCell, LayoutVars DEF Movable
    <3> QED
      BY <3>1, <3>2
  <2>2. old.vars[i].begin + VarLen(old.vars[i]) <= old.vars[d].begin
    BY <2>1 DEF Movable, Laid, NC_check_voffs
  <2>3. i \in FixVars(gnu) /\ d \in FixVars(gnu) /\ VarLen(gnu.vars[i]) = VarLen(old.vars[i])
    BY <2>1, FixCell, OldCell
  <2>4. gnu.vars[i].begin + VarLen(old.vars[i]) <= gnu.vars[d].begin
    BY <2>1, <2>3 DEF Movable, Laid, NC_check_voffs
  <2> QED
    BY <1>1, <1>2, <2>1, <2>2, <2>4
<1>6. FileSize \in Nat
  BY NC3LayoutAssumption
<1>7. Carried(h, f, D, N, O, Z)
  OBVIOUS
<1>8. i \in C
  OBVIOUS
<1> HIDE DEF N, O, Z, D, C
<1>9. O[i] <= N[i] /\ Z[i] \in Nat /\ Z[i] <= Z[i] /\ \A c \in D \cup {i} : N[c] + Z[c] <= FileSize
  BY <1>2, <1>4, <1>8
<1>10. \A d \in D : N[i] + Z[i] <= N[d]
  BY <1>5
<1>11. Carried(ncio_move(h, N[i], O[i], Z[i]), f, D \cup {i}, N, O, Z)
  BY <1>3, <1>4, <1>5, <1>6, <1>7, <1>8, <1>9, <1>10, OneMove
<1> QED
  BY <1>1, <1>8, <1>11 DEF N, O, Z, D

\* move_vars_r leaves every fixed-size variable in its new place, and the new
\* record section alone.
LEMMA VarsMoved ==
    ASSUME NEW gnu, Movable(gnu), NEW V, NEW f \in [0 .. FileSize - 1 -> V]
    PROVE  /\ move_vars_r(f, gnu) \in [0 .. FileSize - 1 -> V]
           /\ VarsCarried(move_vars_r(f, gnu), f, gnu)
           /\ SameFrom(move_vars_r(f, gnu), f, gnu.begin_rec)
<1> DEFINE T  == [0 .. FileSize - 1 -> V]
           nv == Len(old.vars)
           M(k, x) == IF gnu.vars[nv + 1 - k].rec
                          \/ gnu.vars[nv + 1 - k].begin <= old.vars[nv + 1 - k].begin THEN x
                      ELSE ncio_move(x, gnu.vars[nv + 1 - k].begin, old.vars[nv + 1 - k].begin,
                                     VarLen(old.vars[nv + 1 - k]))
           G  == [p \in (1 .. nv) \X T |-> M(p[1], p[2])]
           B(x) == [k \in 0 .. nv |-> IF k = 0 THEN f ELSE M(k, x[k - 1])]
           g  == CHOOSE x : x = B(x)
           Ok(x, i) == /\ Carried(x, f, MovedVars(i), NewBegins(gnu), OldBegins, FixLens)
                       /\ \A a \in 0 .. FileSize - 1 : gnu.begin_rec <= a => x[a] = f[a]
<1>1. move_vars_r(f, gnu) = g[nv]
  BY DEF move_vars_r
<1>2. nv \in Nat /\ old \in Layout /\ FileSize \in Nat /\ gnu.begin_rec \in Nat
  BY LayoutVars, LayoutNumbers, NC3LayoutAssumption DEF Movable
<1>3. FixVars(old) \subseteq 1 .. nv
  BY <1>2, VarSets
<1>4. ASSUME NEW k \in 1 .. nv, NEW x \in T
      PROVE  M(k, x) \in T /\ (Ok(x, nv + 1 - k) => Ok(M(k, x), nv - k))
  <2> DEFINE i == nv + 1 - k
             y == ncio_move(x, gnu.vars[i].begin, old.vars[i].begin, VarLen(old.vars[i]))
  <2>1. i \in 1 .. nv /\ nv - k = i - 1
    BY <1>2
  <2>2. M(k, x) = IF gnu.vars[i].rec \/ gnu.vars[i].begin <= old.vars[i].begin THEN x ELSE y
    OBVIOUS
  <2> HIDE DEF i, M
  <2>3. CASE gnu.vars[i].rec
    <3>1. i \notin FixVars(old)
      BY <1>2, <2>1, <2>3, OldCell, VarSets
    <3>2. \A j \in FixVars(old) : j > i <=> j > i - 1
      BY <1>3, <2>1, <3>1
    <3>3. MovedVars(i - 1) = MovedVars(i)
      BY <3>2 DEF MovedVars
    <3>4. Ok(x, i) => Ok(x, i - 1)
      BY <3>3
    <3>5. M(k, x) = x
      BY <2>2, <2>3
    <3> HIDE DEF Ok
    <3> QED
      BY <2>1, <3>4, <3>5 DEF i
  <2>4. CASE ~gnu.vars[i].rec
    <3>1. i \in FixVars(old)
      BY <1>2, <2>1, <2>4, OldCell, VarSets
    <3>2. \A j \in FixVars(old) : j > i - 1 <=> j > i \/ j = i
      BY <1>3, <2>1
    <3>3. MovedVars(i - 1) = MovedVars(i) \cup {i}
      BY <3>1, <3>2 DEF MovedVars
    <3>4. /\ gnu.vars[i].begin \in Nat /\ old.vars[i].begin \in Nat /\ VarLen(old.vars[i]) \in Nat
          /\ old.vars[i].begin <= gnu.vars[i].begin
          /\ gnu.vars[i].begin + VarLen(old.vars[i]) <= gnu.begin_rec
      BY <3>1, FixCell
    <3>5. y \in T
      BY <1>2, <3>4, MoveBytes
    <3>6. \A a \in 0 .. FileSize - 1 : gnu.begin_rec <= a => y[a] = x[a]
      <4> DEFINE to   == gnu.vars[i].begin
                 from == old.vars[i].begin
                 len  == VarLen(old.vars[i])
                 end  == gnu.begin_rec
      <4>1. to \in Nat /\ from \in Nat /\ len \in Nat /\ end \in Nat /\ to + len <= end
        BY <1>2, <3>4
      <4> HIDE DEF to, from, len, end
      <4>2. ASSUME NEW a \in 0 .. FileSize - 1, end <= a
            PROVE  ncio_move(x, to, from, len)[a] = x[a]
        <5>1. a \notin to .. to + len - 1
          BY <4>1, <4>2
        <5>2. DOMAIN x = 0 .. FileSize - 1
          OBVIOUS
        <5> QED
          BY <5>1, <5>2 DEF ncio_move
      <4> QED
        BY <4>2 DEF to, from, len, end
    <3>7. M(k, x) = y
      <4>1. CASE gnu.vars[i].begin <= old.vars[i].begin
        <5>1. gnu.vars[i].begin = old.vars[i].begin
          BY <3>4, <4>1
        <5>2. y = x
          BY <1>2, <3>4, <5>1, MoveNowhere
        <5> QED
          BY <2>2, <5>2
      <4>2. CASE ~(gnu.vars[i].begin <= old.vars[i].begin)
        BY <2>2, <2>4, <4>2
      <4> QED
        BY <4>1, <4>2
    <3>8. ASSUME Ok(x, i)
          PROVE  Ok(y, i - 1)
      <4>1. Carried(y, f, MovedVars(i) \cup {i}, NewBegins(gnu), OldBegins, FixLens)
        <5>1. DOMAIN f = 0 .. FileSize - 1
          OBVIOUS
        <5> QED
          BY <3>1, <3>8, <5>1, VarStep
      <4> QED
        BY <3>3, <3>6, <3>8, <4>1
    <3> HIDE DEF y, Ok
    <3> QED
      BY <2>1, <3>5, <3>7, <3>8 DEF i
  <2> QED
    BY <2>3, <2>4
<1>5. Ok(f, nv)
  <2>1. \A j \in FixVars(old) : ~(j > nv)
    BY <1>2, <1>3
  <2>2. MovedVars(nv) = {}
    BY <2>1 DEF MovedVars
  <2> QED
    BY <2>2, NothingMoved
<1>6. MovedVars(0) = FixVars(old)
  <2>1. \A j \in FixVars(old) : j > 0
    BY <1>2, <1>3
  <2> QED
    BY <2>1 DEF MovedVars
<1> HIDE DEF M, nv, Ok
<1>7. G \in [(1 .. nv) \X T -> T]
  BY <1>4
<1>8. \A k \in 1 .. nv, x \in T : G[<<k, x>>] = M(k, x)
  OBVIOUS
<1>9. g[0] = f /\ \A k \in 1 .. nv : g[k] = M(k, g[k - 1])
  <2> HIDE DEF G
  <2>1. PICK y : Computes(y, nv, T, f, G)
    BY <1>2, <1>7, Computation
  <2>2. y \in [0 .. nv -> T] /\ y[0] = f /\ \A k \in 1 .. nv : y[k] = M(k, y[k - 1])
    <3>1. y \in [0 .. nv -> T] /\ y[0] = f /\ \A k \in 1 .. nv : y[k] = G[<<k, y[k - 1]>>]
      BY <2>1 DEF Computes
    <3>2. \A k \in 1 .. nv : y[k - 1] \in T
      BY <1>2, <3>1
    <3> QED
      BY <1>8, <3>1, <3>2
  <2>3. y = B(y)
    <3>1. \A k \in 0 .. nv : k # 0 => k \in 1 .. nv
      BY <1>2
    <3>2. \A k \in 0 .. nv : y[k] = IF k = 0 THEN f ELSE M(k, y[k - 1])
      BY <2>2, <3>1
    <3> QED
      BY <2>2, <3>2
  <2>4. g = B(g)
    BY <2>3
  <2> HIDE DEF g
  <2>5. 0 \in 0 .. nv /\ \A k \in 1 .. nv : k \in 0 .. nv /\ k # 0
    BY <1>2
  <2> QED
    BY <2>4, <2>5
<1> HIDE DEF g, T
<1> DEFINE S == {k \in 0 .. nv : g[k] \in T /\ Ok(g[k], nv - k)}
<1>10. 0 \in S
  <2>1. nv - 0 = nv /\ f \in T
    BY <1>2 DEF T
  <2> QED
    BY <1>2, <1>5, <1>9, <2>1
<1>11. ASSUME NEW k \in 1 .. nv, k - 1 \in S
       PROVE  k \in S
  <2>1. g[k - 1] \in T /\ Ok(g[k - 1], nv + 1 - k)
    <3>1. nv - (k - 1) = nv + 1 - k
      BY <1>2
    <3> QED
      BY <1>11, <3>1
  <2>2. M(k, g[k - 1]) \in T /\ Ok(M(k, g[k - 1]), nv - k)
    BY <1>4, <2>1
  <2>3. k \in 0 .. nv
    BY <1>2
  <2> QED
    BY <1>9, <2>2, <2>3
<1>12. \A k \in 0 .. nv : k \in S
  <2> HIDE DEF S
  <2> QED
    BY <1>2, <1>10, <1>11, UpTo
<1>13. g[nv] \in T /\ Ok(g[nv], 0)
  <2>1. nv \in 0 .. nv /\ nv - nv = 0
    BY <1>2
  <2> QED
    BY <1>12, <2>1
<1> DEFINE h == move_vars_r(f, gnu)
<1> HIDE DEF h
<1>14. /\ h \in T /\ Carried(h, f, FixVars(old), NewBegins(gnu), OldBegins, FixLens)
       /\ \A a \in 0 .. FileSize - 1 : gnu.begin_rec <= a => h[a] = f[a]
  BY <1>1, <1>6, <1>13 DEF Ok, h
<1>15. ASSUME NEW i \in FixVars(old), NEW k \in 0 .. old.vars[i].size - 1
       PROVE  h[gnu.vars[i].begin + k] = f[old.vars[i].begin + k]
  <2>1. NewBegins(gnu)[i] = gnu.vars[i].begin /\ OldBegins[i] = old.vars[i].begin
        /\ FixLens[i] = VarLen(old.vars[i])
    BY DEF NewBegins, OldBegins, FixLens
  <2>2. k \in 0 .. VarLen(old.vars[i]) - 1
    BY FixCell
  <2> QED
    BY <1>14, <2>1, <2>2 DEF Carried
<1> QED
  BY <1>14, <1>15 DEF h, T, VarsCarried, SameFrom

\* Records that are not moved have no other place in the new layout.
LEMMA RecordsStay ==
    ASSUME NEW gnu, Movable(gnu), gnu.begin_rec = old.begin_rec, ~(gnu.recsize > old.recsize),
           NEW i \in RecVars(old), NEW r \in 0 .. old.numrecs - 1
    PROVE  Offset(gnu, i, r) = Offset(old, i, r)
<1>1. /\ old \in Layout /\ Laid(old) /\ gnu \in Layout /\ Laid(gnu)
      /\ Len(old.vars) <= Len(gnu.vars) /\ SameShapes(old, gnu, Len(old.vars))
  BY DEF Movable
<1>2. /\ i \in 1 .. Len(old.vars) /\ r \in Nat /\ i \in RecVars(gnu)
      /\ old.vars[i].rec /\ gnu.vars[i].rec /\ Offset(old, i, r) <= Offset(gnu, i, r)
  BY RecCell
<1>3. Len(old.vars) \in Nat /\ old.vars[i].begin \in Nat
  BY <1>1, <1>2, LayoutVars
<1>4. RecSums(gnu)[i - 1] = RecSums(old)[i - 1]
  <2>1. i - 1 \in 0 .. Len(old.vars)
    BY <1>2, <1>3
  <2> QED
    BY <1>1, <1>3, <2>1, RecSumsSame
<1>5. gnu.vars[i].begin = old.vars[i].begin
  BY <1>1, <1>2, <1>4 DEF Laid
<1>6. gnu.recsize \in Nat /\ old.recsize \in Nat
  BY <1>1, LayoutNumbers
<1>7. gnu.recsize * r <= old.recsize * r
  <2>1. gnu.recsize <= old.recsize
    BY <1>6
  <2>2. r * gnu.recsize <= r * old.recsize
    BY <1>2, <1>6, <2>1, ProductMonotone
  <2>3. r * gnu.recsize = gnu.recsize * r /\ r * old.recsize = old.recsize * r
    BY <1>2, <1>6
  <2> QED
    BY <2>2, <2>3
<1>8. gnu.recsize * r \in Nat /\ old.recsize * r \in Nat
  BY <1>2, <1>6, ProductNat
<1> DEFINE p == gnu.recsize * r
           q == old.recsize * r
           b == old.vars[i].begin
<1>9. Offset(gnu, i, r) = b + p /\ Offset(old, i, r) = b + q
  BY <1>2, <1>5 DEF Offset
<1>10. p \in Nat /\ q \in Nat /\ b \in Nat /\ p <= q
  BY <1>3, <1>7, <1>8
<1> HIDE DEF p, q, b
<1>11. b + q <= b + p
  BY <1>2, <1>9
<1> QED
  BY <1>9, <1>10, <1>11

\* The data of every old variable is in h at its new place.
CellsCarried(h, f, gnu) ==
    \A i, r : IsCell(old, i, r) /\ (old.vars[i].rec => r < old.numrecs) =>
        \A k \in 0 .. old.vars[i].size - 1 : h[Offset(gnu, i, r) + k] = f[Offset(old, i, r) + k]

\* NC_endef moves the data of every old variable to its new place.
LEMMA AllMoved ==
    ASSUME NEW gnu, Movable(gnu), NEW V, NEW f \in [0 .. FileSize - 1 -> V]
    PROVE  /\ Moved(f, gnu) \in [0 .. FileSize - 1 -> V]
           /\ FarMoved(gnu) => CellsCarried(Moved(f, gnu), f, gnu)
<1> DEFINE T == [0 .. FileSize - 1 -> V]
           Vs(g) == IF gnu.begin_var > old.begin_var THEN move_vars_r(g, gnu) ELSE g
           h == Moved(f, gnu)
<1>1. old \in Layout /\ Laid(old) /\ gnu \in Layout /\ Laid(gnu) /\ old # NoLayout
  BY NC3LayoutAssumption DEF Movable
<1>2. /\ gnu.begin_rec \in Nat /\ old.begin_rec \in Nat /\ gnu.begin_var \in Nat
      /\ old.begin_var \in Nat /\ FileSize \in Nat
      /\ gnu.begin_rec >= old.begin_rec /\ gnu.begin_var >= old.begin_var
  BY <1>1, LayoutNumbers, NC3LayoutAssumption DEF Movable, EndefAsserts
<1>3. ASSUME NEW g \in T
      PROVE  /\ Vs(g) \in T /\ VarsCarried(Vs(g), g, gnu)
             /\ SameFrom(Vs(g), g, gnu.begin_rec)
  <2>1. CASE gnu.begin_var > old.begin_var
    BY <2>1, VarsMoved
  <2>2. CASE ~(gnu.begin_var > old.begin_var)
    <3>1. gnu.begin_var = old.begin_var
      BY <1>2, <2>2
    <3>2. \A i \in FixVars(old) : gnu.vars[i].begin = old.vars[i].begin
      BY <3>1 DEF Movable
    <3> QED
      BY <2>2, <3>2 DEF VarsCarried, SameFrom
  <2> QED
    BY <2>1, <2>2
<1>4. ASSUME NEW g \in T
      PROVE  /\ move_recs_r(g, gnu) \in T
             /\ FarMoved(gnu) => /\ RecsCarried(move_recs_r(g, gnu), g, gnu)
                                 /\ SameBelow(move_recs_r(g, gnu), g, gnu.begin_rec)
  BY RecordsMoved
<1> HIDE DEF Vs
<1>5. ASSUME NEW i \in FixVars(old), NEW k \in 0 .. old.vars[i].size - 1
      PROVE  /\ gnu.vars[i].begin + k \in 0 .. FileSize - 1 /\ gnu.vars[i].begin + k < gnu.begin_rec
             /\ old.vars[i].begin + k \in 0 .. FileSize - 1 /\ old.vars[i].begin + k < gnu.begin_rec
  <2>1. /\ old.vars[i].begin \in Nat /\ gnu.vars[i].begin \in Nat
        /\ old.vars[i].begin <= gnu.vars[i].begin
        /\ VarLen(old.vars[i]) \in Nat /\ old.vars[i].size \in Nat
        /\ old.vars[i].size <= VarLen(old.vars[i])
        /\ gnu.vars[i].begin + VarLen(old.vars[i]) <= gnu.begin_rec
        /\ gnu.vars[i].begin + VarLen(old.vars[i]) <= FileSize
    BY FixCell
  <2>2. k \in Nat /\ k < old.vars[i].size
    BY <2>1, Below
  <2>3. k < VarLen(old.vars[i])
    BY <2>1, <2>2
  <2> DEFINE n == gnu.vars[i].begin
             o == old.vars[i].begin
             z == VarLen(old.vars[i])
             e == gnu.begin_rec
  <2>4. n \in Nat /\ o \in Nat /\ o <= n /\ z \in Nat /\ n + z <= e /\ n + z <= FileSize /\ k < z /\ e \in Nat
    BY <1>2, <2>1, <2>3
  <2> HIDE DEF n, o, z, e
  <2>5. k \in Nat /\ FileSize \in Nat
    BY <1>2, <2>2
  <2>6. n + k \in 0 .. FileSize - 1 /\ n + k < e
    BY ONLY <2>4, <2>5
  <2>7. o + k \in 0 .. FileSize - 1 /\ o + k < e
    BY ONLY <2>4, <2>5
  <2> QED
    BY <2>6, <2>7 DEF n, o, e
<1>6. ASSUME NEW i \in RecVars(old), NEW r \in 0 .. old.numrecs - 1, NEW k \in 0 .. old.vars[i].size - 1
      PROVE  Offset(gnu, i, r) + k \in 0 .. FileSize - 1 /\ gnu.begin_rec <= Offset(gnu, i, r) + k
  <2>1. /\ Offset(gnu, i, r) \in Nat /\ old.vars[i].size \in Nat
        /\ gnu.begin_rec <= Offset(gnu, i, r)
        /\ Offset(gnu, i, r) + old.vars[i].size <= FileSize
    BY RecCell
  <2>2. k \in Nat /\ k < old.vars[i].size
    BY <2>1, Below
  <2> DEFINE p == Offset(gnu, i, r)
             e == gnu.begin_rec
             z == old.vars[i].size
  <2>3. p \in Nat /\ z \in Nat /\ e \in Nat /\ e <= p /\ p + z <= FileSize /\ k \in Nat /\ k < z
    BY <1>2, <2>1, <2>2
  <2> HIDE DEF p, e, z
  <2>4. p + k \in 0 .. FileSize - 1 /\ e <= p + k
    BY <1>2, <2>3
  <2> QED
    BY <2>4 DEF p, e
<1>7. CASE Len(gnu.vars) = 0
  <2>1. h = f
    BY <1>7 DEF Moved
  <2>2. \A i, r : ~IsCell(old, i, r)
    <3>1. Len(old.vars) = 0
      BY <1>1, <1>7, LayoutVars DEF Movable
    <3> QED
      BY <3>1 DEF IsCell
  <2> QED
    BY <2>1, <2>2 DEF CellsCarried
<1>8. CASE Len(gnu.vars) # 0
  <2>1. h \in T /\ (FarMoved(gnu) => RecsCarried(h, f, gnu) /\ VarsCarried(h, f, gnu))
    <3>1. CASE gnu.begin_rec > old.begin_rec
      <4> DEFINE g == move_recs_r(f, gnu)
      <4>1. h = Vs(g)
        <5>1. Len(gnu.vars) > 0
          BY <1>1, <1>8, LayoutVars
        <5> QED
          BY <1>1, <3>1, <5>1 DEF Moved, Vs
      <4>2. g \in T /\ (FarMoved(gnu) => RecsCarried(g, f, gnu) /\ SameBelow(g, f, gnu.begin_rec))
        BY <1>4
      <4> HIDE DEF g, h, T
      <4>3. /\ h \in T /\ VarsCarried(h, g, gnu)
            /\ SameFrom(h, g, gnu.begin_rec)
        BY <1>3, <4>1, <4>2
      <4>4. FarMoved(gnu) => VarsCarried(h, f, gnu)
        BY <1>5, <4>2, <4>3 DEF VarsCarried, SameBelow
      <4>5. FarMoved(gnu) => RecsCarried(h, f, gnu)
        BY <1>6, <4>2, <4>3 DEF RecsCarried, SameFrom
      <4> QED
        BY <4>3, <4>4, <4>5
    <3>2. CASE ~(gnu.begin_rec > old.begin_rec)
      <4> DEFINE g == Vs(f)
      <4>1. gnu.begin_rec = old.begin_rec
        BY <1>2, <3>2
      <4>2. h = IF gnu.recsize > old.recsize THEN move_recs_r(g, gnu) ELSE g
        BY <1>1, <1>8, <3>2 DEF Moved, Vs
      <4>3. /\ g \in T /\ VarsCarried(g, f, gnu)
            /\ SameFrom(g, f, gnu.begin_rec)
        BY <1>3
      <4> HIDE DEF g, h, T
      <4>4. ASSUME NEW i \in RecVars(old), NEW r \in 0 .. old.numrecs - 1,
                   NEW k \in 0 .. old.vars[i].size - 1
            PROVE  g[Offset(old, i, r) + k] = f[Offset(old, i, r) + k]
        <5>1. /\ IsCell(old, i, r) /\ r \in Nat /\ old.vars[i].rec
              /\ Offset(gnu, i, r) \in Nat /\ Offset(old, i, r) \in Nat
              /\ Offset(old, i, r) <= Offset(gnu, i, r)
              /\ old.vars[i].size \in Nat
              /\ Offset(gnu, i, r) + old.vars[i].size <= FileSize
          BY RecCell
        <5>2. old.recsize * r \in Nat /\ old.begin_rec + old.recsize * r <= Offset(old, i, r)
          BY <1>1, <5>1, CellPlace
        <5>3. gnu.begin_rec <= Offset(old, i, r)
          BY <1>2, <4>1, <5>1, <5>2
        <5>4. k \in Nat /\ k < old.vars[i].size
          BY <5>1, Below
        <5>5. Offset(old, i, r) + k \in 0 .. FileSize - 1 /\ gnu.begin_rec <= Offset(old, i, r) + k
          <6> DEFINE o == Offset(old, i, r)
                     n == Offset(gnu, i, r)
                     z == old.vars[i].size
          <6>1. n \in Nat /\ o \in Nat /\ o <= n /\ z \in Nat /\ n + z <= FileSize
                /\ k \in Nat /\ k < z /\ gnu.begin_rec <= o
            BY <5>1, <5>3, <5>4
          <6> HIDE DEF o, n, z
          <6>2. o + k \in 0 .. FileSize - 1 /\ gnu.begin_rec <= o + k
            BY <1>2, <6>1
          <6> QED
            BY <6>2 DEF o
        <5> QED
          BY <4>3, <5>5 DEF SameFrom
      <4>5. CASE gnu.recsize > old.recsize
        <5>1. h = move_recs_r(g, gnu)
          BY <4>2, <4>5
        <5>2. h \in T /\ (FarMoved(gnu) => RecsCarried(h, g, gnu) /\ SameBelow(h, g, gnu.begin_rec))
          BY <1>4, <4>3, <5>1
        <5>3. FarMoved(gnu) => RecsCarried(h, f, gnu)
          BY <4>4, <5>2 DEF RecsCarried
        <5>4. FarMoved(gnu) => VarsCarried(h, f, gnu)
          BY <1>5, <4>3, <5>2 DEF VarsCarried, SameBelow
        <5> QED
          BY <5>2, <5>3, <5>4
      <4>6. CASE ~(gnu.recsize > old.recsize)
        <5>1. h = g
          BY <4>2, <4>6
        <5>2. \A i \in RecVars(old), r \in 0 .. old.numrecs - 1 : Offset(gnu, i, r) = Offset(old, i, r)
          BY <4>1, <4>6, RecordsStay
        <5> QED
          BY <4>3, <4>4, <5>1, <5>2 DEF RecsCarried
      <4> QED
        BY <4>5, <4>6
    <3> QED
      BY <3>1, <3>2
  <2>2. ASSUME FarMoved(gnu), NEW i, NEW r, IsCell(old, i, r), old.vars[i].rec => r < old.numrecs,
               NEW k \in 0 .. old.vars[i].size - 1
        PROVE  h[Offset(gnu, i, r) + k] = f[Offset(old, i, r) + k]
    <3> HIDE DEF h
    <3>1. i \in 1 .. Len(old.vars) /\ r \in Nat /\ (old.vars[i].rec \/ r = 0)
      BY <2>2 DEF IsCell
    <3>2. CASE old.vars[i].rec
      <4>1. i \in RecVars(old)
        BY <1>1, <3>1, <3>2, VarSets
      <4>2. r \in 0 .. old.numrecs - 1
        BY <1>1, <2>2, <3>1, <3>2, LayoutNumbers
      <4> QED
        BY <2>1, <2>2, <4>1, <4>2 DEF RecsCarried
    <3>3. CASE ~old.vars[i].rec
      <4>1. i \in FixVars(old)
        BY <1>1, <3>1, <3>3, VarSets
      <4>2. ~gnu.vars[i].rec /\ old.vars[i].begin \in Nat /\ gnu.vars[i].begin \in Nat
        BY <3>1, <3>3, <4>1, OldCell, FixCell
      <4>3. Offset(gnu, i, r) = gnu.vars[i].begin /\ Offset(old, i, r) = old.vars[i].begin
        BY <3>3, <4>2 DEF Offset
      <4> QED
        BY <2>1, <2>2, <4>1, <4>3 DEF VarsCarried
    <3> QED
      BY <3>2, <3>3
  <2> QED
    BY <2>1, <2>2 DEF CellsCarried
<1> QED
  BY <1>7, <1>8

----------------------------------------------------------------------------
(* NC_begins *)

\* The layout before the redefinition, if there is one.
OldLayout == old = NoLayout \/ old \in Layout

OldVar == IF old = NoLayout THEN 0 ELSE old.begin_var
OldRec == IF old = NoLayout THEN 0 ELSE old.begin_rec

LEMMA OldNumbers ==
    ASSUME OldLayout
    PROVE  /\ OldVar \in Nat /\ OldRec \in Nat
           /\ \A i \in Nat \ {0} : OldBegin(i) \in Nat
<1>1. ASSUME NEW i \in Nat \ {0}
      PROVE  OldBegin(i) \in Nat
  <2>1. CASE old # NoLayout /\ i <= Len(old.vars)
    <3>1. old \in Layout /\ i \in 1 .. Len(old.vars)
      BY <2>1, LayoutVars DEF OldLayout
    <3>2. old.vars[i].begin \in Nat
      BY <3>1, LayoutVars
    <3> QED
      BY <2>1, <3>2 DEF OldBegin
  <2>2. CASE ~(old # NoLayout /\ i <= Len(old.vars))
    BY <2>2 DEF OldBegin
  <2> QED
    BY <2>1, <2>2
<1>2. OldVar \in Nat /\ OldRec \in Nat
  BY LayoutNumbers DEF OldLayout, OldVar, OldRec
<1> QED
  BY <1>1, <1>2

LEMMA LargerNat ==
    ASSUME NEW a \in Nat, NEW b \in Nat
    PROVE  /\ Larger(a, b) \in Nat /\ a <= Larger(a, b) /\ b <= Larger(a, b)
           /\ Larger(a, b) = a \/ Larger(a, b) = b
           /\ b <= a => Larger(a, b) = a
           /\ a <= b => Larger(a, b) = b
  BY DEF Larger

\* A section begins after what is before it.
LEMMA SectionAfter ==
    ASSUME NEW begin \in Nat, NEW index \in Nat, NEW minfree \in Nat, NEW align \in Nat \ {0}
    PROVE  /\ SectionBegin(begin, index, minfree, align) \in Nat
           /\ index <= SectionBegin(begin, index, minfree, align)
<1>1. index + minfree \in Nat
  OBVIOUS
<1>2. /\ D_RNDUP(index + minfree, align) \in Nat
      /\ index + minfree <= D_RNDUP(index + minfree, align)
  BY <1>1, RoundUp
<1>3. CASE begin < index + minfree \/ begin # D_RNDUP(begin, align)
  <2>1. SectionBegin(begin, index, minfree, align) = D_RNDUP(index + minfree, align)
    BY <1>3 DEF SectionBegin
  <2> QED
    BY <1>2, <2>1
<1>4. CASE ~(begin < index + minfree \/ begin # D_RNDUP(begin, align))
  <2>1. SectionBegin(begin, index, minfree, align) = begin
    BY <1>4 DEF SectionBegin
  <2> QED
    BY <1>4, <2>1
<1> QED
  BY <1>3, <1>4

\* What a pass adds for variable i, and where it leaves the index.
PassStep(l, S, raise, i, index) ==
    IF i \in S THEN VarLen(l.vars[i]) + (IF raise THEN Larger(index, OldBegin(i)) ELSE index)
    ELSE index

\* What a pass over the variables S returns.
PassIs(p, l, S, start, raise) ==
    /\ p.index \in [0 .. Len(l.vars) -> Nat]
    /\ p.index[0] = start
    /\ \A i \in 1 .. Len(l.vars) : p.index[i] = PassStep(l, S, raise, i, p.index[i - 1])
    /\ p.begin = [i \in S |-> Larger(p.index[i - 1], OldBegin(i))]

\* The recursive definition of a pass is a function.
LEMMA PassDef ==
    ASSUME NEW l \in Layout, OldLayout, NEW S \in SUBSET (1 .. Len(l.vars)), NEW start \in Nat,
           NEW raise \in BOOLEAN
    PROVE  PassIs(BeginsPass(l, S, start, raise), l, S, start, raise)
<1> DEFINE n == Len(l.vars)
           M(i, x) == PassStep(l, S, raise, i, x)
           G == [p \in (1 .. n) \X Nat |-> M(p[1], p[2])]
           B(f) == [i \in 0 .. n |->
                      CASE i = 0 -> start
                        [] i \in S -> VarLen(l.vars[i]) +
                              (IF raise THEN Larger(f[i - 1], OldBegin(i)) ELSE f[i - 1])
                        [] OTHER -> f[i - 1]]
           at == CHOOSE f : f = B(f)
           P == BeginsPass(l, S, start, raise)
<1>1. P.index = at /\ P.begin = [i \in S |-> Larger(at[i - 1], OldBegin(i))]
  BY DEF BeginsPass
<1>2. n \in Nat /\ 0 \notin S
  BY LayoutVars
<1>3. ASSUME NEW i \in 1 .. n, NEW x \in Nat
      PROVE  M(i, x) \in Nat
  <2>1. VarLen(l.vars[i]) \in Nat
    BY LayoutVars
  <2>2. OldBegin(i) \in Nat
    BY OldNumbers
  <2>3. Larger(x, OldBegin(i)) \in Nat
    BY <2>2, LargerNat
  <2> QED
    BY <2>1, <2>3 DEF PassStep
<1>4. ASSUME NEW f
      PROVE  /\ B(f)[0] = start /\ \A i \in 1 .. n : B(f)[i] = M(i, f[i - 1])
             /\ B(f) = [i \in 0 .. n |-> B(f)[i]]
  <2>1. 0 \in 0 .. n /\ \A i \in 1 .. n : i \in 0 .. n /\ i # 0
    BY <1>2
  <2> QED
    BY <1>2, <2>1 DEF PassStep
<1> HIDE DEF B, M, n
<1>5. G \in [(1 .. n) \X Nat -> Nat] /\ \A i \in 1 .. n, x \in Nat : G[<<i, x>>] = M(i, x)
  BY <1>3
<1> HIDE DEF G
<1>6. PICK y : Computes(y, n, Nat, start, G)
  BY <1>2, <1>5, Computation
<1>7. y \in [0 .. n -> Nat] /\ y[0] = start /\ \A i \in 1 .. n : y[i] = M(i, y[i - 1])
  <2>1. y \in [0 .. n -> Nat] /\ y[0] = start /\ \A i \in 1 .. n : y[i] = G[<<i, y[i - 1]>>]
    BY <1>6 DEF Computes
  <2>2. \A i \in 1 .. n : y[i - 1] \in Nat
    BY <1>2, <2>1
  <2> QED
    BY <1>5, <2>1, <2>2
<1>8. y = B(y)
  <2>1. \A i \in 0 .. n : y[i] = B(y)[i]
    <3>1. \A i \in 0 .. n : i # 0 => i \in 1 .. n
      BY <1>2
    <3> QED
      BY <1>4, <1>7, <3>1
  <2>2. y = [i \in 0 .. n |-> y[i]] /\ B(y) = [i \in 0 .. n |-> B(y)[i]]
    BY <1>4, <1>7
  <2> QED
    BY <2>1, <2>2
<1>9. at = B(at)
  BY <1>8
<1> HIDE DEF at
<1>10. /\ at = [i \in 0 .. n |-> at[i]] /\ at[0] = start
       /\ \A i \in 1 .. n : at[i] = M(i, at[i - 1])
  BY <1>4, <1>9
<1> DEFINE Q == {i \in 0 .. n : at[i] \in Nat}
<1>11. 0 \in Q
  BY <1>2, <1>10
<1>12. ASSUME NEW i \in 1 .. n, i - 1 \in Q
       PROVE  i \in Q
  <2>1. at[i - 1] \in Nat /\ at[i] = M(i, at[i - 1]) /\ i \in 0 .. n
    BY <1>2, <1>10, <1>12
  <2>2. at[i] \in Nat
    BY <1>3, <2>1
  <2> QED
    BY <2>1, <2>2
<1>13. \A i \in 0 .. n : i \in Q
  <2> HIDE DEF Q
  <2> QED
    BY <1>2, <1>11, <1>12, UpTo
<1>14. at \in [0 .. n -> Nat]
  BY <1>10, <1>13
<1> QED
  BY <1>1, <1>10, <1>14 DEF M, n, PassIs

\* The index does not fall.
LEMMA PassGrows ==
    ASSUME NEW l \in Layout, OldLayout, NEW S \in SUBSET (1 .. Len(l.vars)),
           NEW raise \in BOOLEAN, NEW at \in [0 .. Len(l.vars) -> Nat],
           \A i \in 1 .. Len(l.vars) : at[i] = PassStep(l, S, raise, i, at[i - 1])
    PROVE  \A i \in 0 .. Len(l.vars) : at[0] <= at[i]
<1> DEFINE n == Len(l.vars)
           Q == {i \in 0 .. n : at[0] <= at[i]}
<1>1. n \in Nat
  BY LayoutVars
<1>2. 0 \in Q
  BY <1>1
<1>3. ASSUME NEW i \in 1 .. n, i - 1 \in Q
      PROVE  i \in Q
  <2> DEFINE j == i - 1
  <2>1. i \in 0 .. n /\ at[0] \in Nat /\ at[i - 1] \in Nat /\ at[i] \in Nat /\ at[0] <= at[i - 1]
    <3>1. i \in 0 .. n /\ j \in 0 .. n /\ 0 \in 0 .. n
      BY <1>1
    <3>2. at[0] <= at[j]
      BY <1>3
    <3> HIDE DEF j
    <3>3. at[0] \in Nat /\ at[j] \in Nat /\ at[i] \in Nat
      BY <3>1
    <3> QED
      BY <3>1, <3>2, <3>3 DEF j
  <2>2. VarLen(l.vars[i]) \in Nat /\ OldBegin(i) \in Nat
    BY LayoutVars, OldNumbers
  <2>3. Larger(at[i - 1], OldBegin(i)) \in Nat /\ at[i - 1] <= Larger(at[i - 1], OldBegin(i))
    BY <2>1, <2>2, LargerNat
  <2>4. at[i] = PassStep(l, S, raise, i, at[i - 1])
    OBVIOUS
  <2>5. at[i - 1] <= at[i]
    BY <2>1, <2>2, <2>3, <2>4 DEF PassStep
  <2> QED
    BY <2>1, <2>5
<1>4. \A i \in 0 .. n : i \in Q
  <2> HIDE DEF Q
  <2> QED
    BY <1>1, <1>2, <1>3, UpTo
<1> QED
  BY <1>4

\* The second pass leaves no gaps.
LEMMA RecPass ==
    ASSUME NEW l \in Layout, OldLayout, NEW at \in [0 .. Len(l.vars) -> Nat],
           \A i \in 1 .. Len(l.vars) : at[i] = PassStep(l, RecVars(l), FALSE, i, at[i - 1])
    PROVE  \A i \in 0 .. Len(l.vars) : at[i] = at[0] + RecSums(l)[i]
<1> DEFINE n == Len(l.vars)
           f == RecSums(l)
           Q == {i \in 0 .. n : at[i] = at[0] + f[i]}
<1>1. n \in Nat
  BY LayoutVars
<1>2. f \in [0 .. n -> Nat] /\ f[0] = 0 /\ \A i \in 1 .. n : RecPart(l, i) \in Nat /\ f[i] = f[i - 1] + RecPart(l, i)
  BY RecSumsDef
<1> HIDE DEF f
<1>3. 0 \in Q
  BY <1>1, <1>2
<1>4. ASSUME NEW i \in 1 .. n, i - 1 \in Q
      PROVE  i \in Q
  <2>1. /\ i \in 0 .. n /\ i - 1 \in 0 .. n /\ at[0] \in Nat /\ at[i - 1] \in Nat
        /\ f[i - 1] \in Nat /\ at[i - 1] = at[0] + f[i - 1]
    BY <1>1, <1>2, <1>4
  <2>2. at[i] = at[i - 1] + RecPart(l, i)
    <3>1. at[i] = PassStep(l, RecVars(l), FALSE, i, at[i - 1])
      OBVIOUS
    <3>2. VarLen(l.vars[i]) \in Nat /\ (i \in RecVars(l) <=> l.vars[i].rec)
      BY LayoutVars, VarSets
    <3> QED
      BY <2>1, <3>1, <3>2 DEF PassStep, RecPart
  <2> QED
    BY <1>2, <2>1, <2>2
<1>5. \A i \in 0 .. n : i \in Q
  <2> HIDE DEF Q
  <2> QED
    BY <1>1, <1>3, <1>4, UpTo
<1> QED
  BY <1>5 DEF f

\* The parts of NC_begins for the arguments a of nc__enddef: where the first
\* pass starts, the index it leaves behind each variable, the beginning of the
\* record section and the offset of each variable.
Start(l, a) ==
    Larger(SectionBegin(l.begin_var, ncx_len_NC(l), a.h_minfree, a.v_align), OldVar)
FixIndex(l, a) == BeginsPass(l, FixVars(l), Start(l, a), TRUE).index
RecStart(l, a) ==
    SectionBegin(Larger(l.begin_rec, OldRec), FixIndex(l, a)[Len(l.vars)], a.v_minfree, a.r_align)
BeginOf(l, a, i) ==
    IF l.vars[i].rec THEN BeginsPass(l, RecVars(l), RecStart(l, a), FALSE).begin[i]
    ELSE BeginsPass(l, FixVars(l), Start(l, a), TRUE).begin[i]
NewVars(l, a) == [i \in DOMAIN l.vars |-> [l.vars[i] EXCEPT !.begin = BeginOf(l, a, i)]]
VarStart(l, a) ==
    IF FixVars(l) = {} THEN RecStart(l, a)
    ELSE BeginsPass(l, FixVars(l), Start(l, a), TRUE).begin[First(FixVars(l))]

Begins(a) == NC_begins(lay, a.h_minfree, a.v_align, a.v_minfree, a.r_align)

\* The outcomes of NC_begins.
LEMMA BeginsCases ==
    ASSUME NEW a
    PROVE  \/ /\ Len(lay.vars) = 0 /\ Begins(a).status = "NOERR"
              /\ Begins(a).lay = [lay EXCEPT !.xsz = ncx_len_NC(lay)]
           \/ /\ Begins(a).status = "EVARSIZE"
              /\ Begins(a).lay = [lay EXCEPT !.xsz = ncx_len_NC(lay)]
           \/ /\ Begins(a).status = "EVARSIZE"
              /\ Begins(a).lay = [lay EXCEPT !.xsz = ncx_len_NC(lay), !.begin_rec = RecStart(lay, a)]
           \/ /\ Len(lay.vars) # 0 /\ Begins(a).status = "NOERR"
              /\ Begins(a).lay = [lay EXCEPT !.xsz = ncx_len_NC(lay), !.vars = NewVars(lay, a),
                                             !.begin_var = VarStart(lay, a),
                                             !.begin_rec = RecStart(lay, a),
                                             !.recsize = RecSize(lay)]
<1> DEFINE fix  == BeginsPass(lay, FixVars(lay), Start(lay, a), TRUE)
           rec  == BeginsPass(lay, RecVars(lay), RecStart(lay, a), FALSE)
           x    == [lay EXCEPT !.xsz = ncx_len_NC(lay)]
           y    == [lay EXCEPT !.xsz = ncx_len_NC(lay), !.begin_rec = RecStart(lay, a)]
           done == [lay EXCEPT !.xsz = ncx_len_NC(lay), !.vars = NewVars(lay, a),
                               !.begin_var = VarStart(lay, a), !.begin_rec = RecStart(lay, a),
                               !.recsize = RecSize(lay)]
<1>1. Begins(a) =
        CASE Len(lay.vars) = 0 -> [status |-> "NOERR", lay |-> x]
          [] Len(lay.vars) > 0 /\ ~fix.fits -> [status |-> "EVARSIZE", lay |-> x]
          [] Len(lay.vars) > 0 /\ fix.fits /\ ~rec.fits -> [status |-> "EVARSIZE", lay |-> y]
          [] OTHER -> [status |-> "NOERR", lay |-> done]
  BY DEF Begins, NC_begins, NewVars, BeginOf, VarStart, RecStart, FixIndex, Start, OldVar, OldRec
<1> HIDE DEF fix, rec, x, y, done
<1>2. \/ Len(lay.vars) = 0 /\ Begins(a) = [status |-> "NOERR", lay |-> x]
      \/ Begins(a) = [status |-> "EVARSIZE", lay |-> x]
      \/ Begins(a) = [status |-> "EVARSIZE", lay |-> y]
      \/ Len(lay.vars) # 0 /\ Begins(a) = [status |-> "NOERR", lay |-> done]
  BY <1>1
<1>3. \/ Len(lay.vars) = 0 /\ Begins(a).status = "NOERR" /\ Begins(a).lay = x
      \/ Begins(a).status = "EVARSIZE" /\ Begins(a).lay = x
      \/ Begins(a).status = "EVARSIZE" /\ Begins(a).lay = y
      \/ Len(lay.vars) # 0 /\ Begins(a).status = "NOERR" /\ Begins(a).lay = done
  BY <1>2
<1> QED
  BY <1>3 DEF x, y, done

LEMMA HeaderLength ==
    ASSUME NEW l \in Layout
    PROVE  ncx_len_NC(l) \in Nat
<1>1. Len(l.vars) \in Nat /\ l.natts \in Nat /\ HBase \in Nat /\ HVar \in Nat /\ HAtt \in Nat
  BY LayoutVars, LayoutNumbers, NC3LayoutAssumption
<1>2. HVar * Len(l.vars) \in Nat /\ HAtt * l.natts \in Nat
  BY <1>1, ProductNat
<1> QED
  BY <1>1, <1>2 DEF ncx_len_NC

\* The numbers that NC_begins computes.
LEMMA BeginsNumbers ==
    ASSUME NEW l \in Layout, OldLayout, NEW a \in EndefArgs
    PROVE  /\ Start(l, a) \in Nat /\ ncx_len_NC(l) <= Start(l, a)
           /\ FixIndex(l, a) \in [0 .. Len(l.vars) -> Nat] /\ FixIndex(l, a)[0] = Start(l, a)
           /\ \A i \in 1 .. Len(l.vars) :
                 FixIndex(l, a)[i] = PassStep(l, FixVars(l), TRUE, i, FixIndex(l, a)[i - 1])
           /\ RecStart(l, a) \in Nat /\ FixIndex(l, a)[Len(l.vars)] <= RecStart(l, a)
           /\ \A i \in FixVars(l) :
                 /\ BeginOf(l, a, i) = Larger(FixIndex(l, a)[i - 1], OldBegin(i))
                 /\ BeginsPass(l, FixVars(l), Start(l, a), TRUE).begin[i] = BeginOf(l, a, i)
           /\ \A i \in RecVars(l) :
                 BeginOf(l, a, i) = Larger(RecStart(l, a) + RecSums(l)[i - 1], OldBegin(i))
           /\ \A i \in 1 .. Len(l.vars) : BeginOf(l, a, i) \in Nat
<1> DEFINE n == Len(l.vars)
           st == Start(l, a)
           at == FixIndex(l, a)
           rs == RecStart(l, a)
           rp == BeginsPass(l, RecVars(l), rs, FALSE)
<1>1. a.h_minfree \in Nat /\ a.v_align \in Nat \ {0} /\ a.v_minfree \in Nat /\ a.r_align \in Nat \ {0}
  <2>1. a \in [h_minfree : Nat, v_align : Nat \ {0}, v_minfree : Nat, r_align : Nat \ {0}]
    BY NC3LayoutAssumption
  <2> QED
    BY <2>1
<1>2. /\ l.begin_var \in Nat /\ l.begin_rec \in Nat /\ OldVar \in Nat /\ OldRec \in Nat
      /\ ncx_len_NC(l) \in Nat /\ n \in Nat
  BY LayoutNumbers, LayoutVars, OldNumbers, HeaderLength
<1>3. st \in Nat /\ ncx_len_NC(l) <= st
  <2> DEFINE sb == SectionBegin(l.begin_var, ncx_len_NC(l), a.h_minfree, a.v_align)
  <2>1. sb \in Nat /\ ncx_len_NC(l) <= sb
    BY <1>1, <1>2, SectionAfter
  <2>2. st = Larger(sb, OldVar)
    BY DEF Start
  <2> HIDE DEF sb, st
  <2>3. Larger(sb, OldVar) \in Nat /\ sb <= Larger(sb, OldVar)
    BY <1>2, <2>1, LargerNat
  <2> QED
    BY <1>2, <2>1, <2>2, <2>3
<1>4. FixVars(l) \in SUBSET (1 .. n) /\ RecVars(l) \in SUBSET (1 .. n)
  BY VarSets
<1> HIDE DEF st
<1>5. /\ at \in [0 .. n -> Nat] /\ at[0] = st
      /\ \A i \in 1 .. n : at[i] = PassStep(l, FixVars(l), TRUE, i, at[i - 1])
      /\ BeginsPass(l, FixVars(l), Start(l, a), TRUE).begin
            = [i \in FixVars(l) |-> Larger(at[i - 1], OldBegin(i))]
  <2> DEFINE fp == BeginsPass(l, FixVars(l), Start(l, a), TRUE)
  <2>1. Start(l, a) = st
    BY DEF st
  <2>2. PassIs(fp, l, FixVars(l), st, TRUE)
    BY <1>3, <1>4, <2>1, PassDef
  <2>3. at = fp.index
    BY DEF FixIndex
  <2> HIDE DEF fp, at
  <2> QED
    BY <2>2, <2>3 DEF fp, PassIs
<1> HIDE DEF at
<1>6. at[n] \in Nat
  BY <1>2, <1>5
<1>7. rs \in Nat /\ at[n] <= rs
  <2> DEFINE lr == Larger(l.begin_rec, OldRec)
  <2>1. lr \in Nat
    BY <1>2, LargerNat
  <2>2. rs = SectionBegin(lr, at[n], a.v_minfree, a.r_align)
    BY DEF RecStart, at
  <2> HIDE DEF lr, rs
  <2> QED
    BY <1>1, <1>6, <2>1, <2>2, SectionAfter
<1> HIDE DEF rs
<1>8. /\ rp.index \in [0 .. n -> Nat] /\ rp.index[0] = rs
      /\ \A i \in 1 .. n : rp.index[i] = PassStep(l, RecVars(l), FALSE, i, rp.index[i - 1])
      /\ rp.begin = [i \in RecVars(l) |-> Larger(rp.index[i - 1], OldBegin(i))]
  <2>1. PassIs(rp, l, RecVars(l), rs, FALSE)
    BY <1>4, <1>7, PassDef
  <2> HIDE DEF rp
  <2> QED
    BY <2>1 DEF PassIs
<1> DEFINE ri == rp.index
<1>9. \A i \in 0 .. n : ri[i] = rs + RecSums(l)[i]
  <2>1. ri \in [0 .. n -> Nat] /\ \A i \in 1 .. n : ri[i] = PassStep(l, RecVars(l), FALSE, i, ri[i - 1])
    BY <1>8
  <2>2. ri[0] = rs
    BY <1>8
  <2> HIDE DEF ri
  <2> QED
    BY <2>1, <2>2, RecPass
<1>10. ASSUME NEW i \in FixVars(l)
       PROVE  /\ BeginOf(l, a, i) = Larger(at[i - 1], OldBegin(i))
              /\ BeginsPass(l, FixVars(l), Start(l, a), TRUE).begin[i] = BeginOf(l, a, i)
  <2>1. ~l.vars[i].rec
    BY VarSets
  <2> QED
    BY <1>5, <2>1 DEF BeginOf
<1>11. ASSUME NEW i \in RecVars(l)
       PROVE  BeginOf(l, a, i) = Larger(rs + RecSums(l)[i - 1], OldBegin(i))
  <2>1. l.vars[i].rec /\ i - 1 \in 0 .. n
    BY <1>2, VarSets
  <2>2. BeginOf(l, a, i) = rp.begin[i]
    BY <2>1 DEF BeginOf, rs
  <2>3. rp.begin[i] = Larger(ri[i - 1], OldBegin(i))
    BY <1>8
  <2> QED
    BY <1>9, <2>1, <2>2, <2>3
<1>12. ASSUME NEW i \in 1 .. n
       PROVE  BeginOf(l, a, i) \in Nat
  <2>1. OldBegin(i) \in Nat /\ i - 1 \in 0 .. n
    BY <1>2, OldNumbers
  <2>2. at[i - 1] \in Nat /\ rs + RecSums(l)[i - 1] \in Nat
    <3>1. RecSums(l) \in [0 .. n -> Nat]
      BY RecSumsDef
    <3>2. RecSums(l)[i - 1] \in Nat
      BY <2>1, <3>1
    <3> QED
      BY <1>5, <1>7, <2>1, <3>2
  <2>3. i \in FixVars(l) \/ i \in RecVars(l)
    BY LayoutVars, VarSets
  <2>4. Larger(at[i - 1], OldBegin(i)) \in Nat
    BY <2>1, <2>2, LargerNat
  <2>5. Larger(rs + RecSums(l)[i - 1], OldBegin(i)) \in Nat
    BY <2>1, <2>2, LargerNat
  <2> QED
    BY <1>10, <1>11, <2>3, <2>4, <2>5
<1> QED
  BY <1>3, <1>5, <1>7, <1>10, <1>11, <1>12 DEF st, at, rs

----------------------------------------------------------------------------
(* What NC_begins returns *)

\* The sections and the record size depend on the shapes only.
LEMMA ShapeSets ==
    ASSUME NEW l \in Layout, NEW m \in Layout, Len(m.vars) = Len(l.vars),
           SameShapes(l, m, Len(l.vars))
    PROVE  /\ RecVars(m) = RecVars(l) /\ FixVars(m) = FixVars(l)
           /\ RecSize(m) = RecSize(l)
<1>1. DOMAIN m.vars = 1 .. Len(l.vars) /\ DOMAIN l.vars = 1 .. Len(l.vars) /\ Len(l.vars) \in Nat
  BY LayoutVars
<1>2. \A i \in 1 .. Len(l.vars) :
         m.vars[i].rec = l.vars[i].rec /\ m.vars[i].size = l.vars[i].size
  BY DEF SameShapes
<1>3. RecVars(m) = RecVars(l)
  BY <1>1, <1>2 DEF RecVars
<1>4. FixVars(m) = FixVars(l)
  BY <1>1, <1>3 DEF FixVars
<1>5. RecSums(m)[Len(m.vars)] = RecSums(l)[Len(l.vars)]
  BY <1>1, RecSumsSame
<1>6. CASE Cardinality(RecVars(l)) = 1
  <2>1. RecVars(l) # {}
    <3>1. RecVars(l) = {} => Cardinality(RecVars(l)) = 0
      BY FS_EmptySet, Zenon
    <3> QED
      BY <1>6, <3>1
  <2>2. First(RecVars(l)) \in RecVars(l)
    BY <2>1, VarSets, FirstIn
  <2>3. First(RecVars(l)) \in 1 .. Len(l.vars)
    BY <2>2, VarSets
  <2> QED
    BY <1>2, <1>3, <1>4, <1>6, <2>3, RecSizeIs
<1>7. CASE Cardinality(RecVars(l)) # 1
  BY <1>3, <1>4, <1>5, <1>7, RecSizeIs
<1> QED
  BY <1>6, <1>7

\* A layout in which the variables have other offsets.
LEMMA Rebegun ==
    ASSUME NEW l \in Layout, NEW at \in [1 .. Len(l.vars) -> Nat]
    PROVE  LET vs == [i \in DOMAIN l.vars |-> [l.vars[i] EXCEPT !.begin = at[i]]]
           IN  /\ vs \in Seq(Var) /\ Len(vs) = Len(l.vars)
               /\ \A i \in 1 .. Len(l.vars) :
                     /\ vs[i].rec = l.vars[i].rec /\ vs[i].size = l.vars[i].size
                     /\ vs[i].begin = at[i]
<1> DEFINE vs == [i \in DOMAIN l.vars |-> [l.vars[i] EXCEPT !.begin = at[i]]]
<1>1. DOMAIN l.vars = 1 .. Len(l.vars) /\ Len(l.vars) \in Nat
  BY LayoutVars
<1>2. ASSUME NEW i \in 1 .. Len(l.vars)
      PROVE  /\ vs[i] \in Var
             /\ vs[i].rec = l.vars[i].rec /\ vs[i].size = l.vars[i].size
             /\ vs[i].begin = at[i]
  <2>1. l.vars[i] \in Var /\ at[i] \in Nat
    BY LayoutVars
  <2>2. vs[i] = [l.vars[i] EXCEPT !.begin = at[i]]
    BY <1>1
  <2> HIDE DEF vs
  <2> QED
    BY <2>1, <2>2 DEF Var
<1>3. vs \in [1 .. Len(l.vars) -> Var]
  BY <1>1, <1>2
<1> HIDE DEF vs
<1>4. vs \in Seq(Var) /\ Len(vs) = Len(l.vars)
  BY <1>1, <1>3
<1> QED
  BY <1>2, <1>4 DEF vs

\* The size of a record.
LEMMA RecSizeNat ==
    ASSUME NEW l \in Layout
    PROVE  RecSize(l) \in Nat
<1>1. CASE Cardinality(RecVars(l)) = 1
  <2>1. RecVars(l) # {}
    <3>1. RecVars(l) = {} => Cardinality(RecVars(l)) = 0
      BY FS_EmptySet, Zenon
    <3> QED
      BY <1>1, <3>1
  <2>2. First(RecVars(l)) \in RecVars(l)
    BY <2>1, VarSets, FirstIn
  <2>3. l.vars[First(RecVars(l))].size \in Nat
    BY <2>2, VarSets, LayoutVars
  <2> QED
    BY <1>1, <2>3, RecSizeIs
<1>2. CASE Cardinality(RecVars(l)) # 1
  <2>1. RecSums(l)[Len(l.vars)] \in Nat
    BY RecSumsDef, LayoutVars
  <2> QED
    BY <1>2, <2>1, RecSizeIs
<1> QED
  BY <1>1, <1>2

\* Layout m has the variables and the records of l.
SameVars(l, m) ==
    Len(m.vars) = Len(l.vars) /\ SameShapes(l, m, Len(l.vars)) /\ m.numrecs = l.numrecs

\* Every offset of gnu is the one that NC_begins computes.
Computed(gnu, a) ==
    /\ gnu.xsz = ncx_len_NC(lay)
    /\ gnu.begin_var = VarStart(lay, a) /\ gnu.begin_rec = RecStart(lay, a)
    /\ gnu.recsize = RecSize(lay)
    /\ \A i \in 1 .. Len(lay.vars) : gnu.vars[i].begin = BeginOf(lay, a, i)

\* NC_begins sets offsets and nothing else.
LEMMA BeginsResult ==
    ASSUME lay \in Layout, OldLayout, NEW a \in EndefArgs
    PROVE  /\ Begins(a).lay \in Layout /\ SameVars(lay, Begins(a).lay)
           /\ Begins(a).status = "NOERR" /\ Len(lay.vars) > 0 => Computed(Begins(a).lay, a)
<1> DEFINE b  == Begins(a).lay
           n  == Len(lay.vars)
           hl == ncx_len_NC(lay)
           rs == RecStart(lay, a)
           vs == NewVars(lay, a)
           vb == VarStart(lay, a)
           sz == RecSize(lay)
<1>1. hl \in Nat /\ rs \in Nat /\ n \in Nat
  BY HeaderLength, BeginsNumbers, LayoutVars
<1>2. \A i \in 1 .. n : BeginOf(lay, a, i) \in Nat
  BY BeginsNumbers
<1>3. /\ vs \in Seq(Var) /\ Len(vs) = n
      /\ \A i \in 1 .. n :
            vs[i].rec = lay.vars[i].rec /\ vs[i].size = lay.vars[i].size
              /\ vs[i].begin = BeginOf(lay, a, i)
  <2> DEFINE at == [i \in 1 .. n |-> BeginOf(lay, a, i)]
             ws == [i \in DOMAIN lay.vars |-> [lay.vars[i] EXCEPT !.begin = at[i]]]
  <2>1. at \in [1 .. n -> Nat] /\ \A i \in 1 .. n : at[i] = BeginOf(lay, a, i)
    BY <1>2
  <2>2. DOMAIN lay.vars = 1 .. n
    BY LayoutVars
  <2>3. vs = ws
    BY <2>1, <2>2 DEF NewVars
  <2> HIDE DEF at
  <2>4. /\ ws \in Seq(Var) /\ Len(ws) = n
        /\ \A i \in 1 .. n :
              ws[i].rec = lay.vars[i].rec /\ ws[i].size = lay.vars[i].size /\ ws[i].begin = at[i]
    BY <2>1, Rebegun
  <2> HIDE DEF ws, vs
  <2> QED
    BY <2>1, <2>3, <2>4
<1>4. ASSUME n > 0
      PROVE  vb \in Nat /\ sz \in Nat
  <2>1. FixVars(lay) = {} => vb \in Nat
    BY <1>1 DEF VarStart
  <2>2. ASSUME FixVars(lay) # {}
        PROVE  vb \in Nat
    <3>1. First(FixVars(lay)) \in FixVars(lay)
      BY <2>2, VarSets, FirstIn
    <3>2. First(FixVars(lay)) \in 1 .. n
      BY <3>1, VarSets
    <3>3. vb = BeginOf(lay, a, First(FixVars(lay)))
      BY <2>2, <3>1, BeginsNumbers DEF VarStart
    <3> QED
      BY <1>2, <3>2, <3>3
  <2>3. sz \in Nat
    BY RecSizeNat
  <2> QED
    BY <2>1, <2>2, <2>3
<1>5. \/ n = 0 /\ Begins(a).status = "NOERR" /\ b = [lay EXCEPT !.xsz = hl]
      \/ Begins(a).status = "EVARSIZE" /\ b = [lay EXCEPT !.xsz = hl]
      \/ Begins(a).status = "EVARSIZE" /\ b = [lay EXCEPT !.xsz = hl, !.begin_rec = rs]
      \/ /\ n # 0 /\ Begins(a).status = "NOERR"
         /\ b = [lay EXCEPT !.xsz = hl, !.vars = vs, !.begin_var = vb, !.begin_rec = rs,
                            !.recsize = sz]
  BY BeginsCases
<1>6. ASSUME NEW x, x = [lay EXCEPT !.xsz = hl] \/ x = [lay EXCEPT !.xsz = hl, !.begin_rec = rs]
      PROVE  x \in Layout /\ SameVars(lay, x)
  <2> HIDE DEF hl, rs
  <2>1. x \in Layout /\ x.vars = lay.vars /\ x.numrecs = lay.numrecs
    BY <1>1, <1>6 DEF Layout
  <2> QED
    BY <2>1 DEF SameVars, SameShapes
<1>7. ASSUME NEW x, x = [lay EXCEPT !.xsz = hl, !.vars = vs, !.begin_var = vb, !.begin_rec = rs,
                                    !.recsize = sz],
             n > 0
      PROVE  x \in Layout /\ SameVars(lay, x) /\ Computed(x, a)
  <2>1. vb \in Nat /\ sz \in Nat
    BY <1>4, <1>7
  <2> HIDE DEF hl, rs, vs, vb, sz
  <2>2. /\ x \in Layout /\ x.vars = vs /\ x.numrecs = lay.numrecs
        /\ x.xsz = hl /\ x.begin_var = vb /\ x.begin_rec = rs /\ x.recsize = sz
    BY <1>1, <1>3, <1>7, <2>1 DEF Layout
  <2> HIDE DEF n
  <2>3. SameVars(lay, x)
    BY <1>3, <2>2 DEF SameVars, SameShapes, n
  <2>4. Computed(x, a)
    BY <1>3, <2>2 DEF Computed, hl, rs, vb, sz, n
  <2> QED
    BY <2>2, <2>3, <2>4
<1>8. n > 0 <=> n # 0
  BY <1>1
<1> HIDE DEF b, n, hl, rs, vs, vb, sz
<1>9. /\ b \in Layout /\ SameVars(lay, b)
      /\ Begins(a).status = "NOERR" /\ n > 0 => Computed(b, a)
  BY <1>5, <1>6, <1>7, <1>8
<1> QED
  BY <1>9 DEF b, n

\* What is known of the layout before the redefinition.
Redefines(o, l) ==
    o # NoLayout =>
        /\ o \in Layout /\ Laid(o)
        /\ Len(o.vars) <= Len(l.vars) /\ SameShapes(o, l, Len(o.vars))
        /\ l.numrecs = o.numrecs

Redefined == Redefines(old, lay)

\* No record variable keeps a begin that leaves a gap before it.
LEMMA RecBegins ==
    ASSUME lay \in Layout, OldLayout, Redefined, NEW a \in EndefArgs,
           NEW gnu \in Layout, SameVars(lay, gnu), Computed(gnu, a), EndefAsserts(gnu),
           NEW i \in RecVars(lay)
    PROVE  gnu.vars[i].begin = gnu.begin_rec + RecSums(gnu)[i - 1]
<1> DEFINE n == Len(lay.vars)
           s == RecSums(lay)[i - 1]
           g == gnu.begin_rec
<1>1. n \in Nat /\ i \in 1 .. n /\ i - 1 \in 0 .. n /\ lay.vars[i].rec
  BY LayoutVars, VarSets
<1>2. s \in Nat /\ g \in Nat
  BY <1>1, RecSumsDef, LayoutNumbers
<1>3. RecSums(gnu)[i - 1] = s
  <2>1. n <= Len(gnu.vars) /\ SameShapes(lay, gnu, n)
    BY <1>1 DEF SameVars
  <2>2. \A j \in 0 .. n : RecSums(gnu)[j] = RecSums(lay)[j]
    BY <1>1, <2>1, RecSumsSame
  <2> QED
    BY <1>1, <2>2
<1>4. g = RecStart(lay, a) /\ gnu.vars[i].begin = Larger(g + s, OldBegin(i))
  <2>1. g = RecStart(lay, a) /\ gnu.vars[i].begin = BeginOf(lay, a, i)
    BY <1>1 DEF Computed
  <2>2. BeginOf(lay, a, i) = Larger(RecStart(lay, a) + s, OldBegin(i))
    BY BeginsNumbers
  <2> HIDE DEF g, s
  <2> QED
    BY <2>1, <2>2
<1>5. OldBegin(i) \in Nat /\ OldBegin(i) <= g + s
  <2>1. CASE old # NoLayout /\ i <= Len(old.vars)
    <3> DEFINE m == Len(old.vars)
    <3>1. /\ old \in Layout /\ Laid(old) /\ m <= n /\ SameShapes(old, lay, m)
          /\ old.begin_rec <= g
      <4>1. g >= old.begin_rec
        BY <2>1 DEF EndefAsserts
      <4>2. old \in Layout /\ Laid(old) /\ m <= n /\ SameShapes(old, lay, m)
        BY <2>1 DEF Redefined, Redefines
      <4>3. old.begin_rec \in Nat
        BY <4>2, LayoutNumbers
      <4> QED
        BY <1>2, <4>1, <4>2, <4>3
    <3>2. m \in Nat /\ i \in 1 .. m /\ i - 1 \in 0 .. m
      BY <1>1, <2>1, <3>1, LayoutVars
    <3>3. RecSums(old)[i - 1] = s
      <4>1. \A j \in 0 .. m : RecSums(lay)[j] = RecSums(old)[j]
        BY <3>1, <3>2, RecSumsSame
      <4> QED
        BY <3>2, <4>1
    <3>4. i \in RecVars(old)
      <4>1. old.vars[i].rec
        BY <1>1, <3>1, <3>2 DEF SameShapes
      <4> QED
        BY <3>1, <3>2, <4>1, VarSets
    <3>5. old.vars[i].begin = old.begin_rec + s
      BY <3>1, <3>3, <3>4 DEF Laid
    <3>6. OldBegin(i) = old.vars[i].begin
      BY <2>1 DEF OldBegin
    <3>7. old.begin_rec \in Nat
      BY <3>1, LayoutNumbers
    <3> QED
      BY <1>2, <3>1, <3>5, <3>6, <3>7
  <2>2. CASE ~(old # NoLayout /\ i <= Len(old.vars))
    <3>1. OldBegin(i) = 0
      BY <2>2 DEF OldBegin
    <3> QED
      BY <1>2, <3>1
  <2> QED
    BY <2>1, <2>2
<1>6. g + s \in Nat
  BY <1>2
<1> HIDE DEF s, g
<1>7. Larger(g + s, OldBegin(i)) = g + s
  BY <1>5, <1>6, LargerNat
<1> QED
  BY <1>3, <1>4, <1>7 DEF g

\* The header ends before the first variable.
LEMMA HeaderBefore ==
    ASSUME lay \in Layout, OldLayout, NEW a \in EndefArgs, Len(lay.vars) > 0
    PROVE  ncx_len_NC(lay) <= VarStart(lay, a) /\ Start(lay, a) <= VarStart(lay, a)
<1> DEFINE n  == Len(lay.vars)
           at == FixIndex(lay, a)
           hl == ncx_len_NC(lay)
           st == Start(lay, a)
           vb == VarStart(lay, a)
<1>1. /\ n \in Nat /\ hl \in Nat /\ st \in Nat /\ hl <= st
      /\ at \in [0 .. n -> Nat] /\ at[0] = st
      /\ RecStart(lay, a) \in Nat /\ at[n] <= RecStart(lay, a)
  BY LayoutVars, HeaderLength, BeginsNumbers
<1>2. \A i \in 0 .. n : st <= at[i]
  <2>1. \A i \in 1 .. n : at[i] = PassStep(lay, FixVars(lay), TRUE, i, at[i - 1])
    BY BeginsNumbers
  <2>2. FixVars(lay) \in SUBSET (1 .. n)
    BY VarSets
  <2> HIDE DEF at, st
  <2>3. \A i \in 0 .. n : at[0] <= at[i]
    BY <1>1, <2>1, <2>2, PassGrows
  <2> QED
    BY <1>1, <2>3
<1>3. vb \in Nat /\ st <= vb
  <2>1. CASE FixVars(lay) = {}
    <3>1. vb = RecStart(lay, a)
      BY <2>1 DEF VarStart
    <3>2. st <= at[n] /\ at[n] \in Nat
      BY <1>1, <1>2
    <3> HIDE DEF at, st, vb
    <3> QED
      BY <1>1, <3>1, <3>2
  <2>2. CASE FixVars(lay) # {}
    <3> DEFINE f == First(FixVars(lay))
    <3>1. f \in FixVars(lay)
      BY <2>2, VarSets, FirstIn
    <3>2. f \in 1 .. n
      BY <3>1, VarSets
    <3>3. vb = Larger(at[f - 1], OldBegin(f))
      BY <2>2, <3>1, BeginsNumbers DEF VarStart
    <3>4. f - 1 \in 0 .. n /\ OldBegin(f) \in Nat
      BY <3>2, <1>1, OldNumbers
    <3> HIDE DEF f, at, st, vb
    <3>5. at[f - 1] \in Nat /\ st <= at[f - 1]
      BY <1>1, <1>2, <3>4
    <3>6. Larger(at[f - 1], OldBegin(f)) \in Nat /\ at[f - 1] <= Larger(at[f - 1], OldBegin(f))
      BY <3>4, <3>5, LargerNat
    <3> QED
      BY <1>1, <3>3, <3>5, <3>6
  <2> QED
    BY <2>1, <2>2
<1> HIDE DEF hl, st, vb
<1>4. hl <= vb /\ st <= vb
  BY <1>1, <1>3
<1> QED
  BY <1>4 DEF hl, st, vb

\* The layout that NC_begins computes, once NC_check_voffs and the assertions
\* of NC_endef accept it, is a layout in use.
LEMMA BeginsLaid ==
    ASSUME lay \in Layout, OldLayout, Redefined, NEW a \in EndefArgs, Len(lay.vars) > 0,
           NEW gnu \in Layout, SameVars(lay, gnu), Computed(gnu, a),
           NC_check_voffs(gnu), EndefAsserts(gnu)
    PROVE  Laid(gnu)
<1>1. /\ RecVars(gnu) = RecVars(lay) /\ FixVars(gnu) = FixVars(lay)
      /\ RecSize(gnu) = RecSize(lay)
  BY ShapeSets DEF SameVars
<1>2. \A i \in RecVars(gnu) : gnu.vars[i].begin = gnu.begin_rec + RecSums(gnu)[i - 1]
  BY <1>1, RecBegins
<1>3. gnu.xsz <= gnu.begin_var
  BY HeaderBefore DEF Computed
<1>4. gnu.begin_var = IF FixVars(gnu) = {} THEN gnu.begin_rec
                      ELSE gnu.vars[First(FixVars(gnu))].begin
  <2>1. CASE FixVars(lay) = {}
    BY <1>1, <2>1 DEF Computed, VarStart
  <2>2. CASE FixVars(lay) # {}
    <3>1. First(FixVars(lay)) \in FixVars(lay)
      BY <2>2, VarSets, FirstIn
    <3>2. First(FixVars(lay)) \in 1 .. Len(lay.vars)
      BY <3>1, VarSets
    <3>3. VarStart(lay, a) = BeginOf(lay, a, First(FixVars(lay)))
      BY <2>2, <3>1, BeginsNumbers DEF VarStart
    <3> QED
      BY <1>1, <2>2, <3>2, <3>3 DEF Computed
  <2> QED
    BY <2>1, <2>2
<1>5. gnu.recsize = RecSize(gnu)
  BY <1>1 DEF Computed
<1> QED
  BY <1>2, <1>3, <1>4, <1>5 DEF Laid

\* The fixed-size variables that were there before: they do not move towards
\* the header, and do not move at all if their section does not.
LEMMA FixBegins ==
    ASSUME lay \in Layout, old # NoLayout, OldLayout, Redefined, NEW a \in EndefArgs,
           Len(lay.vars) > 0, NEW gnu, Computed(gnu, a), NEW i \in FixVars(old)
    PROVE  /\ old.vars[i].begin <= gnu.vars[i].begin
           /\ gnu.begin_var = old.begin_var => gnu.vars[i].begin = old.vars[i].begin
<1> DEFINE n  == Len(lay.vars)
           m  == Len(old.vars)
           at == FixIndex(lay, a)
           ob(j) == old.vars[j].begin
<1>1. /\ old \in Layout /\ Laid(old) /\ m <= n /\ SameShapes(old, lay, m) /\ n \in Nat /\ m \in Nat
  BY LayoutVars DEF Redefined, Redefines, OldLayout
<1>2. /\ at \in [0 .. n -> Nat] /\ at[0] = Start(lay, a)
      /\ \A j \in 1 .. n : at[j] = PassStep(lay, FixVars(lay), TRUE, j, at[j - 1])
  BY BeginsNumbers
<1>3. ASSUME NEW j \in FixVars(old)
      PROVE  /\ j \in 1 .. m /\ j \in 1 .. n /\ j - 1 \in 0 .. n /\ j \in FixVars(lay)
             /\ ob(j) \in Nat /\ OldBegin(j) = ob(j) /\ at[j - 1] \in Nat
             /\ VarLen(lay.vars[j]) = VarLen(old.vars[j]) /\ VarLen(old.vars[j]) \in Nat
             /\ old.begin_var <= ob(j)
  <2>1. j \in 1 .. m /\ ~old.vars[j].rec
    BY <1>1, VarSets
  <2>2. j \in 1 .. n /\ j - 1 \in 0 .. n
    BY <1>1, <2>1
  <2>3. ~lay.vars[j].rec /\ lay.vars[j].size = old.vars[j].size
    BY <1>1, <2>1 DEF SameShapes
  <2>4. j \in FixVars(lay)
    BY <2>2, <2>3, VarSets
  <2>5. ob(j) \in Nat /\ VarLen(old.vars[j]) \in Nat
    BY <1>1, <2>1, LayoutVars
  <2>6. VarLen(lay.vars[j]) = VarLen(old.vars[j])
    BY <2>3 DEF VarLen
  <2>7. OldBegin(j) = ob(j)
    <3>1. j <= m
      BY <1>1, <2>1
    <3> QED
      BY <3>1 DEF OldBegin
  <2>8. at[j - 1] \in Nat
    BY <1>2, <2>2
  <2>9. old.begin_var <= ob(j)
    BY <1>1 DEF Laid, NC_check_voffs
  <2> QED
    BY <2>1, <2>2, <2>4, <2>5, <2>6, <2>7, <2>8, <2>9
<1>4. ASSUME NEW j \in FixVars(old)
      PROVE  gnu.vars[j].begin = Larger(at[j - 1], ob(j))
  <2>1. gnu.vars[j].begin = BeginOf(lay, a, j)
    BY <1>3 DEF Computed
  <2>2. BeginOf(lay, a, j) = Larger(at[j - 1], OldBegin(j))
    BY <1>3, BeginsNumbers
  <2> HIDE DEF at
  <2> QED
    BY <1>3, <2>1, <2>2
<1> HIDE DEF at
<1>5. ob(i) <= gnu.vars[i].begin
  <2>1. ob(i) \in Nat /\ at[i - 1] \in Nat
    BY <1>3
  <2> QED
    BY <1>4, <2>1, LargerNat
<1>6. ASSUME gnu.begin_var = old.begin_var
      PROVE  gnu.vars[i].begin = ob(i)
  <2> DEFINE S == {k \in 0 .. n : \A j \in FixVars(old) : k < j => at[k] <= ob(j)}
  <2>1. 0 \in S
    <3>1. Start(lay, a) <= old.begin_var
      <4>1. Start(lay, a) <= VarStart(lay, a)
        BY HeaderBefore
      <4>2. VarStart(lay, a) = old.begin_var
        BY <1>6 DEF Computed
      <4> QED
        BY <4>1, <4>2
    <3>2. Start(lay, a) \in Nat /\ old.begin_var \in Nat
      BY <1>1, BeginsNumbers, LayoutNumbers
    <3>3. \A j \in FixVars(old) : at[0] <= ob(j)
      <4>1. \A j \in FixVars(old) : ob(j) \in Nat /\ old.begin_var <= ob(j)
        BY <1>3
      <4> HIDE DEF ob
      <4>2. \A j \in FixVars(old) : Start(lay, a) <= ob(j)
        BY ONLY <3>1, <3>2, <4>1
      <4> QED
        BY <1>2, <4>2
    <3> QED
      BY <1>1, <3>3
  <2>2. ASSUME NEW k \in 1 .. n, k - 1 \in S
        PROVE  k \in S
    <3>1. k \in 0 .. n /\ k - 1 \in 0 .. n
      BY <1>1
    <3>2. at[k - 1] \in Nat /\ at[k] = PassStep(lay, FixVars(lay), TRUE, k, at[k - 1])
      BY <1>2, <3>1
    <3>3. \A j \in FixVars(old) : k - 1 < j => at[k - 1] <= ob(j)
      BY <2>2
    <3>4. ASSUME NEW j \in FixVars(old), k < j
          PROVE  at[k] <= ob(j)
      <4>1. j \in 1 .. m /\ k - 1 < j /\ k \in 1 .. m /\ k - 1 < k
        BY <1>1, <1>3, <3>4
      <4>2. CASE k \notin FixVars(lay)
        <5>1. at[k] = at[k - 1]
          BY <3>2, <4>2 DEF PassStep
        <5> QED
          BY <3>3, <4>1, <5>1
      <4>3. CASE k \in FixVars(lay)
        <5>1. k \in FixVars(old)
          <6>1. ~lay.vars[k].rec
            BY <4>3, VarSets
          <6>2. ~old.vars[k].rec
            BY <1>1, <4>1, <6>1 DEF SameShapes
          <6> QED
            BY <1>1, <4>1, <6>2, VarSets
        <5>2. at[k - 1] <= ob(k)
          BY <3>3, <4>1, <5>1
        <5>3. /\ ob(k) \in Nat /\ OldBegin(k) = ob(k)
              /\ VarLen(lay.vars[k]) = VarLen(old.vars[k]) /\ VarLen(old.vars[k]) \in Nat
          BY <1>3, <5>1
        <5>4. Larger(at[k - 1], ob(k)) = ob(k)
          BY <3>2, <5>2, <5>3, LargerNat
        <5>5. at[k] = VarLen(old.vars[k]) + ob(k)
          BY <3>2, <4>3, <5>3, <5>4 DEF PassStep
        <5>6. ob(k) + VarLen(old.vars[k]) <= ob(j)
          BY <1>1, <3>4, <5>1 DEF Laid, NC_check_voffs
        <5> QED
          BY <5>3, <5>5, <5>6
      <4> QED
        BY <4>2, <4>3
    <3> QED
      BY <3>1, <3>4
  <2>3. \A k \in 0 .. n : k \in S
    <3> HIDE DEF S
    <3> QED
      BY <1>1, <2>1, <2>2, UpTo
  <2>4. at[i - 1] \in Nat /\ ob(i) \in Nat /\ i - 1 \in 0 .. n /\ i - 1 < i
    BY <1>1, <1>3
  <2>5. at[i - 1] <= ob(i)
    BY <2>3, <2>4
  <2>6. Larger(at[i - 1], ob(i)) = ob(i)
    BY <2>4, <2>5, LargerNat
  <2> QED
    BY <1>4, <2>6
<1> QED
  BY <1>5, <1>6

\* What NC_endef goes on with is a layout in use, and the moves that make room
\* for it find what they rely on.
LEMMA EndefLaid ==
    ASSUME lay \in Layout, OldLayout, Redefined, NEW a \in EndefArgs,
           Begins(a).status = "NOERR", InFile(Begins(a).lay),
           NC_check_voffs(Begins(a).lay), EndefAsserts(Begins(a).lay)
    PROVE  Laid(Begins(a).lay) /\ (old # NoLayout => Movable(Begins(a).lay))
<1> DEFINE gnu == Begins(a).lay
<1>1. gnu \in Layout /\ SameVars(lay, gnu) /\ (Len(lay.vars) > 0 => Computed(gnu, a))
  BY BeginsResult
<1>2. InFile(gnu) /\ NC_check_voffs(gnu) /\ EndefAsserts(gnu)
  OBVIOUS
<1> HIDE DEF gnu
<1>3. /\ Len(gnu.vars) = Len(lay.vars) /\ SameShapes(lay, gnu, Len(lay.vars))
      /\ gnu.numrecs = lay.numrecs /\ Len(lay.vars) \in Nat
  BY <1>1, LayoutVars DEF SameVars
<1>4. Laid(gnu)
  <2>1. CASE Len(lay.vars) > 0
    BY <1>1, <1>2, <2>1, BeginsLaid
  <2>2. CASE ~(Len(lay.vars) > 0)
    <3>1. Len(gnu.vars) = 0
      BY <1>3, <2>2
    <3>2. 1 .. 0 = {}
      OBVIOUS
    <3>3. RecVars(gnu) \subseteq 1 .. 0
      BY <1>1, <3>1, VarSets
    <3>4. RecVars(gnu) = {} /\ ~(Len(gnu.vars) > 0)
      BY <3>1, <3>2, <3>3
    <3> QED
      BY <1>2, <3>4 DEF Laid
  <2> QED
    BY <2>1, <2>2
<1>5. ASSUME old # NoLayout
      PROVE  Movable(gnu)
  <2>1. /\ old \in Layout /\ Laid(old) /\ Len(old.vars) <= Len(lay.vars)
        /\ SameShapes(old, lay, Len(old.vars)) /\ lay.numrecs = old.numrecs
    BY <1>5 DEF Redefined, Redefines
  <2>2. Len(old.vars) \in Nat
    BY <2>1, LayoutVars
  <2>3. Len(old.vars) <= Len(gnu.vars) /\ gnu.numrecs = old.numrecs
    BY <1>3, <2>1
  <2>4. SameShapes(old, gnu, Len(old.vars))
    <3>1. \A i \in 1 .. Len(old.vars) : i \in 1 .. Len(lay.vars)
      BY <1>3, <2>1, <2>2
    <3> QED
      BY <1>3, <2>1, <3>1 DEF SameShapes
  <2>5. ASSUME NEW i \in FixVars(old)
        PROVE  /\ old.vars[i].begin <= gnu.vars[i].begin
               /\ gnu.begin_var = old.begin_var => gnu.vars[i].begin = old.vars[i].begin
    <3>1. Len(lay.vars) > 0
      <4>1. i \in 1 .. Len(old.vars)
        BY <2>1, VarSets
      <4> QED
        BY <1>3, <2>1, <2>2, <4>1
    <3> QED
      BY <1>1, <1>5, <3>1, FixBegins
  <2> QED
    BY <1>1, <1>2, <1>4, <2>1, <2>3, <2>4, <2>5 DEF Movable
<1> QED
  BY <1>4, <1>5 DEF gnu

----------------------------------------------------------------------------
(* Reading the header again *)

\* Layout m has the offsets of l.
Alike(l, m) ==
    /\ Len(m.vars) = Len(l.vars) /\ SameShapes(l, m, Len(l.vars))
    /\ \A i \in 1 .. Len(l.vars) : m.vars[i].begin = l.vars[i].begin
    /\ m.xsz = l.xsz /\ m.begin_var = l.begin_var
    /\ m.begin_rec = l.begin_rec /\ m.recsize = l.recsize

LEMMA AlikeCells ==
    ASSUME NEW l \in Layout, NEW m \in Layout, Alike(l, m)
    PROVE  /\ RecVars(m) = RecVars(l) /\ FixVars(m) = FixVars(l)
           /\ \A i, r : IsCell(m, i, r) <=> IsCell(l, i, r)
           /\ \A i \in 1 .. Len(l.vars) :
                 /\ VarLen(m.vars[i]) = VarLen(l.vars[i]) /\ FillLen(m, i) = FillLen(l, i)
                 /\ \A r \in Nat : Offset(m, i, r) = Offset(l, i, r)
<1>1. /\ Len(m.vars) = Len(l.vars) /\ m.recsize = l.recsize
      /\ \A i \in 1 .. Len(l.vars) :
            /\ m.vars[i].rec = l.vars[i].rec /\ m.vars[i].size = l.vars[i].size
            /\ m.vars[i].begin = l.vars[i].begin
  BY DEF Alike, SameShapes
<1>2. RecVars(m) = RecVars(l) /\ FixVars(m) = FixVars(l)
  BY ShapeSets DEF Alike
<1>3. ASSUME NEW i, NEW r
      PROVE  IsCell(m, i, r) <=> IsCell(l, i, r)
  BY <1>1 DEF IsCell
<1>4. ASSUME NEW i \in 1 .. Len(l.vars)
      PROVE  VarLen(m.vars[i]) = VarLen(l.vars[i])
  BY <1>1 DEF VarLen
<1>5. ASSUME NEW i \in 1 .. Len(l.vars)
      PROVE  FillLen(m, i) = FillLen(l, i)
  BY <1>1, <1>2, <1>4 DEF FillLen
<1>6. ASSUME NEW i \in 1 .. Len(l.vars), NEW r \in Nat
      PROVE  Offset(m, i, r) = Offset(l, i, r)
  BY <1>1 DEF Offset
<1> QED
  BY <1>2, <1>3, <1>4, <1>5, <1>6

LEMMA AlikeLaid ==
    ASSUME NEW l \in Layout, NEW m \in Layout, Alike(l, m), Laid(l)
    PROVE  Laid(m)
<1>1. RecVars(m) = RecVars(l) /\ FixVars(m) = FixVars(l) /\ RecSize(m) = RecSize(l)
  BY ShapeSets DEF Alike
<1>2. /\ RecVars(l) \subseteq 1 .. Len(l.vars) /\ FixVars(l) \subseteq 1 .. Len(l.vars)
      /\ RecVars(l) \in SUBSET Nat /\ FixVars(l) \in SUBSET Nat
      /\ Len(l.vars) \in Nat
  BY VarSets, LayoutVars
<1>3. \A i \in 1 .. Len(l.vars) : m.vars[i].begin = l.vars[i].begin /\ VarLen(m.vars[i]) = VarLen(l.vars[i])
  BY AlikeCells DEF Alike
<1>4. /\ Len(m.vars) = Len(l.vars) /\ m.xsz = l.xsz /\ m.begin_var = l.begin_var
      /\ m.begin_rec = l.begin_rec /\ m.recsize = l.recsize
  BY DEF Alike
<1>5. NC_check_voffs(m)
  BY <1>1, <1>2, <1>3, <1>4 DEF Laid, NC_check_voffs
<1>6. ASSUME NEW i \in RecVars(m)
      PROVE  m.vars[i].begin = m.begin_rec + RecSums(m)[i - 1]
  <2>1. i \in RecVars(l) /\ i \in 1 .. Len(l.vars) /\ i - 1 \in 0 .. Len(l.vars)
    BY <1>1, <1>2
  <2>2. \A j \in 0 .. Len(l.vars) : RecSums(m)[j] = RecSums(l)[j]
    BY <1>2, <1>4, RecSumsSame DEF Alike
  <2>3. l.vars[i].begin = l.begin_rec + RecSums(l)[i - 1]
    BY <2>1 DEF Laid
  <2> QED
    BY <1>3, <1>4, <2>1, <2>2, <2>3
<1>7. ASSUME Len(m.vars) > 0
      PROVE  /\ m.xsz <= m.begin_var
             /\ m.begin_var = IF FixVars(m) = {} THEN m.begin_rec ELSE m.vars[First(FixVars(m))].begin
             /\ m.recsize = RecSize(m)
  <2>1. /\ l.xsz <= l.begin_var
        /\ l.begin_var = IF FixVars(l) = {} THEN l.begin_rec ELSE l.vars[First(FixVars(l))].begin
        /\ l.recsize = RecSize(l)
    BY <1>4, <1>7 DEF Laid
  <2>2. FixVars(l) # {} => First(FixVars(l)) \in 1 .. Len(l.vars)
    BY <1>2, FirstIn
  <2> QED
    BY <1>1, <1>3, <1>4, <2>1, <2>2
<1> QED
  BY <1>5, <1>6, <1>7 DEF Laid

\* A layout in which the variables have another fill mode.
LEMMA Refilled ==
    ASSUME NEW l \in Layout, NEW b \in BOOLEAN
    PROVE  LET vs == [i \in DOMAIN l.vars |-> [l.vars[i] EXCEPT !.no_fill = b]]
           IN  /\ vs \in Seq(Var) /\ Len(vs) = Len(l.vars)
               /\ \A i \in 1 .. Len(l.vars) :
                     /\ vs[i].rec = l.vars[i].rec /\ vs[i].size = l.vars[i].size
                     /\ vs[i].begin = l.vars[i].begin
<1> DEFINE vs == [i \in DOMAIN l.vars |-> [l.vars[i] EXCEPT !.no_fill = b]]
<1>1. DOMAIN l.vars = 1 .. Len(l.vars) /\ Len(l.vars) \in Nat
  BY LayoutVars
<1>2. ASSUME NEW i \in 1 .. Len(l.vars)
      PROVE  /\ vs[i] \in Var
             /\ vs[i].rec = l.vars[i].rec /\ vs[i].size = l.vars[i].size
             /\ vs[i].begin = l.vars[i].begin
  <2>1. l.vars[i] \in Var
    BY LayoutVars
  <2>2. vs[i] = [l.vars[i] EXCEPT !.no_fill = b]
    BY <1>1
  <2> HIDE DEF vs
  <2> QED
    BY <2>1, <2>2 DEF Var
<1>3. vs \in [1 .. Len(l.vars) -> Var]
  BY <1>1, <1>2
<1> HIDE DEF vs
<1>4. vs \in Seq(Var) /\ Len(vs) = Len(l.vars)
  BY <1>1, <1>3
<1> QED
  BY <1>2, <1>4 DEF vs

\* Where the fixed-size variables end.
LEMMA FixEndPlace ==
    ASSUME NEW l \in Layout, Laid(l)
    PROVE  /\ FixEnd(l) \in Nat
           /\ FixVars(l) = {} => FixEnd(l) = l.xsz
           /\ FixVars(l) # {} =>
                 /\ FixEnd(l) <= l.begin_rec
                 /\ \E i \in FixVars(l) : FixEnd(l) = l.vars[i].begin + VarLen(l.vars[i])
           /\ \A i \in FixVars(l) : l.vars[i].begin + VarLen(l.vars[i]) <= FixEnd(l)
<1>1. CASE FixVars(l) = {}
  <2>1. FixEnd(l) = l.xsz
    BY <1>1 DEF FixEnd
  <2> QED
    BY <1>1, <2>1, LayoutNumbers
<1>2. CASE FixVars(l) # {}
  <2> DEFINE last == LastOf(FixVars(l))
  <2>1. FixVars(l) \in SUBSET (1 .. Len(l.vars)) /\ Len(l.vars) \in Nat
    BY VarSets, LayoutVars
  <2>2. \E i \in FixVars(l) : \A j \in FixVars(l) : j <= i
    BY <1>2, <2>1, LastIn
  <2>3. last \in FixVars(l) /\ \A j \in FixVars(l) : j <= last
    BY <2>2 DEF LastOf
  <2>4. FixEnd(l) = l.vars[last].begin + VarLen(l.vars[last])
    BY <1>2 DEF FixEnd
  <2> HIDE DEF last
  <2>5. FixEnd(l) \in Nat
    BY <2>1, <2>3, <2>4, LayoutVars
  <2>6. FixEnd(l) <= l.begin_rec
    BY <2>3, <2>4 DEF Laid, NC_check_voffs
  <2>7. ASSUME NEW i \in FixVars(l)
        PROVE  l.vars[i].begin + VarLen(l.vars[i]) <= FixEnd(l)
    <3>1. CASE i = last
      BY <2>4, <2>5, <3>1
    <3>2. CASE i # last
      <4>1. i < last
        BY <2>1, <2>3, <3>2
      <4>2. l.vars[i].begin + VarLen(l.vars[i]) <= l.vars[last].begin
        BY <2>3, <4>1 DEF Laid, NC_check_voffs
      <4>3. /\ l.vars[i].begin \in Nat /\ VarLen(l.vars[i]) \in Nat
            /\ l.vars[last].begin \in Nat /\ VarLen(l.vars[last]) \in Nat
        BY <2>1, <2>3, LayoutVars
      <4> QED
        BY <2>4, <4>2, <4>3
    <3> QED
      BY <3>1, <3>2
  <2> QED
    BY <1>2, <2>3, <2>4, <2>5, <2>6, <2>7
<1> QED
  BY <1>1, <1>2

\* The record section begins with its first variable.
LEMMA RecSection ==
    ASSUME NEW l \in Layout, Laid(l), RecVars(l) # {}
    PROVE  /\ First(RecVars(l)) \in RecVars(l)
           /\ l.vars[First(RecVars(l))].begin = l.begin_rec
           /\ Len(l.vars) > 0
<1> DEFINE f == First(RecVars(l))
<1>1. f \in RecVars(l) /\ \A j \in RecVars(l) : f <= j
  BY VarSets, FirstIn
<1> HIDE DEF f
<1>2. f \in 1 .. Len(l.vars) /\ Len(l.vars) \in Nat
  BY <1>1, VarSets, LayoutVars
<1>3. f - 1 \in 0 .. Len(l.vars) /\ Len(l.vars) > 0
  BY <1>2
<1>4. ASSUME NEW j \in 1 .. f - 1
      PROVE  ~l.vars[j].rec
  <2>1. j \in 1 .. Len(l.vars) /\ ~(f <= j)
    BY <1>2
  <2> QED
    BY <1>1, <2>1, VarSets
<1>5. RecSums(l)[f - 1] = 0
  BY <1>3, <1>4, RecSumsZero
<1>6. l.vars[f].begin = l.begin_rec + RecSums(l)[f - 1]
  BY <1>1 DEF Laid
<1>7. l.vars[f].begin = l.begin_rec
  BY <1>5, <1>6, LayoutNumbers
<1> QED
  BY <1>1, <1>3, <1>7 DEF f

\* Where there are record variables NC_computeshapes computes what is there.
LEMMA ShapesSame ==
    ASSUME NEW l \in Layout, Laid(l), RecVars(l) # {}
    PROVE  NC_computeshapes(l) = l
<1>1. l.vars[First(RecVars(l))].begin = l.begin_rec /\ Len(l.vars) > 0
  BY RecSection
<1>2. /\ l.begin_var = IF FixVars(l) = {} THEN l.begin_rec ELSE l.vars[First(FixVars(l))].begin
      /\ l.recsize = RecSize(l)
  BY <1>1 DEF Laid
<1>3. NC_computeshapes(l) = [l EXCEPT !.begin_rec = l.begin_rec, !.begin_var = l.begin_var,
                                      !.recsize = l.recsize]
  BY <1>1, <1>2, RecSizeIs DEF NC_computeshapes
<1> QED
  BY <1>3 DEF Layout

\* Where there are none the record section moves to the end of the variables,
\* and has no size.
LEMMA ShapesFixed ==
    ASSUME NEW l \in Layout, Laid(l), RecVars(l) = {}, NEW c, c = NC_computeshapes(l)
    PROVE  /\ c \in Layout /\ c.vars = l.vars /\ c.xsz = l.xsz /\ c.numrecs = l.numrecs
           /\ c.recsize = 0 /\ RecSize(l) = 0
           /\ c.begin_rec = FixEnd(l)
           /\ c.begin_var = IF FixVars(l) = {} THEN FixEnd(l) ELSE l.vars[First(FixVars(l))].begin
           /\ RecVars(c) = RecVars(l) /\ FixVars(c) = FixVars(l) /\ RecSize(c) = RecSize(l)
<1> DEFINE e == FixEnd(l)
           b == IF FixVars(l) = {} THEN FixEnd(l) ELSE l.vars[First(FixVars(l))].begin
           z == RecSize(l)
<1>1. c = [l EXCEPT !.begin_rec = e, !.begin_var = b, !.recsize = z]
  BY RecSizeIs DEF NC_computeshapes
<1>2. e \in Nat
  BY FixEndPlace
<1>3. b \in Nat
  <2>1. FixVars(l) # {} => l.vars[First(FixVars(l))].begin \in Nat
    BY VarSets, FirstIn, LayoutVars
  <2> QED
    BY <1>2, <2>1
<1>4. z = 0
  <2>1. Len(l.vars) \in Nat /\ Len(l.vars) \in 0 .. Len(l.vars)
    BY LayoutVars
  <2>2. \A j \in 1 .. Len(l.vars) : ~l.vars[j].rec
    BY VarSets
  <2>3. RecSums(l)[Len(l.vars)] = 0
    BY <2>1, <2>2, RecSumsZero
  <2>4. RecSize(l) = RecSums(l)[Len(l.vars)]
    BY DEF RecSize
  <2> QED
    BY <2>3, <2>4
<1> HIDE DEF e, b, z
<1>5. /\ c \in Layout /\ c.vars = l.vars /\ c.xsz = l.xsz /\ c.numrecs = l.numrecs
      /\ c.recsize = z /\ c.begin_rec = e /\ c.begin_var = b
  <2> DEFINE x == [l EXCEPT !.begin_rec = e, !.begin_var = b, !.recsize = z]
  <2>1. z \in Nat
    BY <1>4
  <2>2. x \in Layout
    BY <1>2, <1>3, <2>1 DEF Layout
  <2>3. /\ x.vars = l.vars /\ x.xsz = l.xsz /\ x.numrecs = l.numrecs
        /\ x.recsize = z /\ x.begin_rec = e /\ x.begin_var = b
    BY DEF Layout
  <2> HIDE DEF x
  <2> QED
    BY <1>1, <2>2, <2>3 DEF x
<1>6. RecVars(c) = RecVars(l) /\ FixVars(c) = FixVars(l) /\ RecSize(c) = RecSize(l)
  BY <1>5, ShapeSets DEF SameShapes
<1> QED
  BY <1>4, <1>5, <1>6 DEF e, b, z

\* The offsets that NC_computeshapes computes are those of a layout in use.
LEMMA ShapesLaid ==
    ASSUME NEW l \in Layout, Laid(l)
    PROVE  /\ NC_computeshapes(l) \in Layout /\ Laid(NC_computeshapes(l))
           /\ NC_computeshapes(l).xsz <= NC_computeshapes(l).begin_var
           /\ NC_computeshapes(l).begin_var <= NC_computeshapes(l).begin_rec
<1> DEFINE c == NC_computeshapes(l)
<1>1. CASE RecVars(l) # {}
  <2>1. c = l
    BY <1>1, ShapesSame
  <2>2. Len(l.vars) > 0
    BY <1>1, RecSection
  <2>3. /\ l.xsz <= l.begin_var
        /\ l.begin_var = IF FixVars(l) = {} THEN l.begin_rec ELSE l.vars[First(FixVars(l))].begin
    BY <2>2 DEF Laid
  <2>4. l.begin_var <= l.begin_rec
    <3>1. CASE FixVars(l) = {}
      BY <2>3, <3>1, LayoutNumbers
    <3>2. CASE FixVars(l) # {}
      <4> DEFINE f == First(FixVars(l))
      <4>1. f \in FixVars(l)
        BY <3>2, VarSets, FirstIn
      <4>2. l.vars[f].begin \in Nat /\ VarLen(l.vars[f]) \in Nat
        BY <4>1, VarSets, LayoutVars
      <4>3. l.vars[f].begin + VarLen(l.vars[f]) <= l.begin_rec
        BY <4>1 DEF Laid, NC_check_voffs
      <4>4. l.begin_var = l.vars[f].begin /\ l.begin_rec \in Nat
        BY <2>3, <3>2, LayoutNumbers
      <4> HIDE DEF f
      <4> QED
        BY <4>2, <4>3, <4>4
    <3> QED
      BY <3>1, <3>2
  <2> HIDE DEF c
  <2>5. c \in Layout /\ Laid(c) /\ c.xsz <= c.begin_var /\ c.begin_var <= c.begin_rec
    BY <2>1, <2>3, <2>4
  <2> QED
    BY <2>5 DEF c
<1>2. CASE RecVars(l) = {}
  <2>1. c = NC_computeshapes(l)
    OBVIOUS
  <2> HIDE DEF c
  <2>2. /\ c \in Layout /\ c.vars = l.vars /\ c.xsz = l.xsz
        /\ c.recsize = 0 /\ RecSize(l) = 0 /\ RecSize(c) = RecSize(l)
        /\ c.begin_rec = FixEnd(l)
        /\ c.begin_var = IF FixVars(l) = {} THEN FixEnd(l) ELSE l.vars[First(FixVars(l))].begin
        /\ RecVars(c) = RecVars(l) /\ FixVars(c) = FixVars(l)
    BY <1>2, <2>1, ShapesFixed
  <2>3. /\ FixEnd(l) \in Nat
        /\ FixVars(l) = {} => FixEnd(l) = l.xsz
        /\ \A i \in FixVars(l) : l.vars[i].begin + VarLen(l.vars[i]) <= FixEnd(l)
    BY FixEndPlace
  <2>4. l.xsz \in Nat /\ \A i \in FixVars(l) : l.vars[i].begin \in Nat /\ VarLen(l.vars[i]) \in Nat
    BY VarSets, LayoutVars, LayoutNumbers
  <2>5. c.xsz <= c.begin_var /\ c.begin_var <= c.begin_rec
    <3>1. CASE FixVars(l) = {}
      BY <2>2, <2>3, <2>4, <3>1
    <3>2. CASE FixVars(l) # {}
      <4> DEFINE f == First(FixVars(l))
      <4>1. f \in FixVars(l) /\ f \in 1 .. Len(l.vars) /\ Len(l.vars) \in Nat
        BY <3>2, VarSets, FirstIn, LayoutVars
      <4>2. l.xsz <= l.begin_var /\ l.begin_var = l.vars[f].begin
        <5>1. Len(l.vars) > 0
          BY <4>1
        <5> QED
          BY <3>2, <5>1 DEF Laid
      <4>3. c.begin_var = l.vars[f].begin
        BY <2>2, <3>2
      <4> HIDE DEF f
      <4> QED
        BY <2>2, <2>3, <2>4, <4>1, <4>2, <4>3
    <3> QED
      BY <3>1, <3>2
  <2>6. NC_check_voffs(c)
    <3>1. \A i \in FixVars(c) : c.begin_var <= c.vars[i].begin
      <4>1. ASSUME NEW i \in FixVars(l)
            PROVE  c.begin_var <= l.vars[i].begin
        <5> DEFINE f == First(FixVars(l))
        <5>1. i \in 1 .. Len(l.vars) /\ Len(l.vars) \in Nat
          BY VarSets, LayoutVars
        <5>2. l.begin_var <= l.vars[i].begin /\ l.begin_var = l.vars[f].begin
          <6>1. Len(l.vars) > 0
            BY <5>1
          <6> QED
            BY <6>1 DEF Laid, NC_check_voffs
        <5>3. c.begin_var = l.vars[f].begin
          BY <2>2
        <5> QED
          BY <5>2, <5>3
      <4> QED
        BY <2>2, <4>1
    <3>2. \A i, j \in FixVars(c) : i < j => c.vars[i].begin + VarLen(c.vars[i]) <= c.vars[j].begin
      BY <2>2 DEF Laid, NC_check_voffs
    <3>3. \A i \in FixVars(c) : c.vars[i].begin + VarLen(c.vars[i]) <= c.begin_rec
      BY <2>2, <2>3
    <3>4. RecVars(c) = {}
      BY <1>2, <2>2
    <3> QED
      BY <3>1, <3>2, <3>3, <3>4 DEF NC_check_voffs
  <2>7. Laid(c)
    BY <1>2, <2>2, <2>5, <2>6 DEF Laid
  <2> QED
    BY <2>2, <2>5, <2>7 DEF c
<1> QED
  BY <1>1, <1>2

\* nc_get_NC accepts the header of a layout in use.
LEMMA LaidReadable ==
    ASSUME NEW l \in Layout, Laid(l)
    PROVE  Readable(l)
<1>1. ASSUME RecVars(l) # {}
      PROVE  FixEnd(l) <= l.vars[First(RecVars(l))].begin
  <2>1. l.vars[First(RecVars(l))].begin = l.begin_rec /\ Len(l.vars) > 0
    BY <1>1, RecSection
  <2>2. CASE FixVars(l) # {}
    BY <2>1, <2>2, FixEndPlace
  <2>3. CASE FixVars(l) = {}
    <3>1. FixEnd(l) = l.xsz
      BY <2>3, FixEndPlace
    <3>2. l.xsz <= l.begin_rec
      BY <2>1, <2>3 DEF Laid
    <3> QED
      BY <2>1, <3>1, <3>2
  <2> QED
    BY <2>2, <2>3
<1> DEFINE c == NC_computeshapes(l)
<1>2. c.xsz <= c.begin_var /\ c.begin_var <= c.begin_rec /\ NC_check_voffs(c)
  BY ShapesLaid DEF Laid
<1> QED
  BY <1>1, <1>2 DEF Readable

\* The sections of c, as NC_computeshapes finds them from the variables of l.
Sections(l, c) ==
    /\ c.begin_var = IF FixVars(l) = {} THEN c.begin_rec ELSE l.vars[First(FixVars(l))].begin
    /\ \/ c.begin_rec = l.begin_rec
       \/ FixVars(l) = {} /\ c.begin_rec = l.xsz
       \/ \E i \in FixVars(l) : c.begin_rec = l.vars[i].begin + VarLen(l.vars[i])

\* What is in memory after the header of l, with n records, has been read.
HeaderRead(l, n) ==
    NC_computeshapes([l EXCEPT
        !.numrecs = n,
        !.vars = [i \in DOMAIN l.vars |-> [l.vars[i] EXCEPT !.no_fill = FALSE]]])

\* Every variable of c is where it was in l.
SamePlaces(l, c) ==
    /\ Len(c.vars) = Len(l.vars) /\ SameShapes(l, c, Len(l.vars))
    /\ \A i \in 1 .. Len(l.vars) : c.vars[i].begin = l.vars[i].begin
    /\ RecVars(l) # {} => c.begin_rec = l.begin_rec /\ c.recsize = l.recsize

LEMMA HeaderReadPlaces ==
    ASSUME NEW l \in Layout, Laid(l), InFile(l), NEW n \in Nat, n <= l.numrecs
    PROVE  /\ HeaderRead(l, n) \in Layout /\ Laid(HeaderRead(l, n)) /\ InFile(HeaderRead(l, n))
           /\ HeaderRead(l, n).numrecs = n /\ HeaderRead(l, n).xsz = l.xsz
           /\ l.xsz <= HeaderRead(l, n).begin_rec
           /\ SamePlaces(l, HeaderRead(l, n)) /\ Sections(l, HeaderRead(l, n))
<1> DEFINE vs == [i \in DOMAIN l.vars |-> [l.vars[i] EXCEPT !.no_fill = FALSE]]
           m  == [l EXCEPT !.numrecs = n, !.vars = vs]
           c  == HeaderRead(l, n)
<1>1. /\ vs \in Seq(Var) /\ Len(vs) = Len(l.vars)
      /\ \A i \in 1 .. Len(l.vars) :
            /\ vs[i].rec = l.vars[i].rec /\ vs[i].size = l.vars[i].size
            /\ vs[i].begin = l.vars[i].begin
  BY Refilled
<1>2. c = NC_computeshapes(m)
  BY DEF HeaderRead
<1>3. n \in 0 .. MaxRecs /\ FileSize \in Nat
  BY LayoutNumbers, NC3LayoutAssumption
<1> HIDE DEF vs, c
<1>4. /\ m \in Layout /\ m.vars = vs /\ m.numrecs = n /\ m.xsz = l.xsz
      /\ m.begin_var = l.begin_var /\ m.begin_rec = l.begin_rec /\ m.recsize = l.recsize
  BY <1>1, <1>3 DEF Layout
<1> HIDE DEF m
<1>5. Alike(l, m)
  BY <1>1, <1>4 DEF Alike, SameShapes
<1>6. Laid(m) /\ RecVars(m) = RecVars(l) /\ FixVars(m) = FixVars(l)
  BY <1>4, <1>5, AlikeLaid, AlikeCells
<1>7. c \in Layout /\ Laid(c) /\ c.xsz <= c.begin_var /\ c.begin_var <= c.begin_rec
  BY <1>2, <1>4, <1>6, ShapesLaid
<1>8. /\ c.xsz = l.xsz /\ c.numrecs = n /\ c.vars = m.vars
      /\ c.begin_rec <= FileSize /\ c.recsize <= FileSize
      /\ c.begin_rec + c.recsize * c.numrecs <= FileSize
      /\ RecVars(l) # {} => c.begin_rec = l.begin_rec /\ c.recsize = l.recsize
  <2>1. /\ l.begin_rec \in 0 .. FileSize /\ l.recsize \in 0 .. FileSize /\ l.xsz \in 0 .. FileSize
        /\ l.begin_rec + l.recsize * l.numrecs <= FileSize
    BY DEF InFile
  <2>2. CASE RecVars(l) # {}
    <3>1. c = m
      BY <1>2, <1>4, <1>6, <2>2, ShapesSame
    <3>2. l.recsize * n \in Nat /\ l.recsize * l.numrecs \in Nat /\ l.recsize * n <= l.recsize * l.numrecs
      BY LayoutNumbers, ProductNat, ProductMonotone
    <3> DEFINE p == l.recsize * n
               q == l.recsize * l.numrecs
    <3>3. p \in Nat /\ q \in Nat /\ p <= q /\ l.begin_rec + q <= FileSize /\ l.begin_rec \in Nat
      BY <2>1, <3>2
    <3>4. c.recsize * c.numrecs = p
      BY <1>4, <3>1
    <3> HIDE DEF p, q
    <3>5. l.begin_rec + p <= FileSize
      BY <1>3, <3>3
    <3> QED
      BY <1>3, <1>4, <2>1, <3>1, <3>4, <3>5
  <2>3. CASE RecVars(l) = {}
    <3>1. /\ c.vars = m.vars /\ c.xsz = m.xsz /\ c.numrecs = m.numrecs /\ c.recsize = 0
          /\ c.begin_rec = FixEnd(m)
      BY <1>2, <1>4, <1>6, <2>3, ShapesFixed
    <3>2. FixEnd(m) \in Nat /\ FixEnd(m) <= FileSize
      <4>1. /\ FixEnd(m) \in Nat
            /\ FixVars(m) = {} => FixEnd(m) = m.xsz
            /\ FixVars(m) # {} => FixEnd(m) <= m.begin_rec
        BY <1>4, <1>6, FixEndPlace
      <4> QED
        BY <1>3, <1>4, <2>1, <4>1
    <3>3. c.recsize * c.numrecs = 0
      BY <1>3, <1>4, <3>1
    <3> QED
      BY <1>3, <1>4, <2>3, <3>1, <3>2, <3>3
  <2> QED
    BY <2>2, <2>3
<1>9. SamePlaces(l, c)
  BY <1>1, <1>4, <1>8 DEF SamePlaces, SameShapes
<1>10. InFile(c)
  <2>1. {c.xsz, c.begin_var, c.begin_rec, c.recsize} \subseteq 0 .. FileSize
    <3>1. c.xsz \in Nat /\ c.begin_var \in Nat /\ c.begin_rec \in Nat /\ c.recsize \in Nat
      BY <1>7, LayoutNumbers
    <3> DEFINE x == c.xsz
               y == c.begin_var
               z == c.begin_rec
               w == c.recsize
    <3>2. x \in Nat /\ y \in Nat /\ z \in Nat /\ w \in Nat /\ x <= y /\ y <= z /\ z <= FileSize /\ w <= FileSize
      BY <1>7, <1>8, <3>1
    <3> HIDE DEF x, y, z, w
    <3>3. {x, y, z, w} \subseteq 0 .. FileSize
      BY <1>3, <3>2
    <3> QED
      BY <3>3 DEF x, y, z, w
  <2>2. ASSUME NEW i \in DOMAIN c.vars
        PROVE  c.vars[i].begin <= FileSize
    <3>1. DOMAIN c.vars = 1 .. Len(l.vars) /\ DOMAIN l.vars = 1 .. Len(l.vars)
      BY <1>1, <1>4, <1>7, <1>8, LayoutVars
    <3>2. l.vars[i].begin <= FileSize
      BY <3>1 DEF InFile
    <3> QED
      BY <1>1, <1>4, <1>8, <3>1, <3>2
  <2> QED
    BY <1>8, <2>1, <2>2 DEF InFile
<1>11. l.xsz <= c.begin_rec
  BY <1>7, <1>8, LayoutNumbers
<1>12. \A i \in FixVars(l) : m.vars[i].begin = l.vars[i].begin /\ VarLen(m.vars[i]) = VarLen(l.vars[i])
  BY <1>1, <1>4, <1>5, AlikeCells, VarSets
<1>13. FixVars(l) # {} => First(FixVars(l)) \in FixVars(l)
  BY VarSets, FirstIn
<1>14. Sections(l, c)
  <2>1. CASE RecVars(l) # {}
    <3>1. c = m
      BY <1>2, <1>4, <1>6, <2>1, ShapesSame
    <3>2. Len(m.vars) > 0
      BY <1>4, <1>6, <2>1, RecSection
    <3>3. m.begin_var = IF FixVars(m) = {} THEN m.begin_rec ELSE m.vars[First(FixVars(m))].begin
      BY <1>6, <3>2 DEF Laid
    <3> QED
      BY <1>4, <1>6, <1>12, <1>13, <3>1, <3>3 DEF Sections
  <2>2. CASE RecVars(l) = {}
    <3>1. /\ c.begin_rec = FixEnd(m)
          /\ c.begin_var = IF FixVars(m) = {} THEN FixEnd(m) ELSE m.vars[First(FixVars(m))].begin
      BY <1>2, <1>4, <1>6, <2>2, ShapesFixed
    <3>2. /\ FixVars(m) = {} => FixEnd(m) = m.xsz
          /\ FixVars(m) # {} => \E i \in FixVars(m) : FixEnd(m) = m.vars[i].begin + VarLen(m.vars[i])
      BY <1>4, <1>6, FixEndPlace
    <3> QED
      BY <1>4, <1>6, <1>12, <1>13, <3>1, <3>2 DEF Sections
  <2> QED
    BY <2>1, <2>2
<1> QED
  BY <1>7, <1>8, <1>9, <1>10, <1>11, <1>14 DEF c

----------------------------------------------------------------------------
(* Where the data is: the invariant *)

Bytes == {Hole, Hdr, Fill} \cup (Nat \X Nat \X Nat)

\* In data mode the layout in memory is in use.  In define mode the one before
\* the redefinition is, and the new one begins with its variables.
Placed ==
    /\ indef \in BOOLEAN /\ dofill \in BOOLEAN /\ aborted \in BOOLEAN
    /\ lay \in Layout /\ InFile(lay)
    /\ OldLayout /\ (old # NoLayout => InFile(old))
    /\ Redefined
    /\ ~indef => old = NoLayout /\ Laid(lay)
    /\ numrecs \in Nat /\ numrecs <= lay.numrecs
    /\ file \in [0 .. FileSize - 1 -> Bytes]

LEMMA PlacedInit == Init => Placed
<1> SUFFICES ASSUME Init PROVE Placed
  OBVIOUS
<1>1. /\ HBase \in Nat /\ FileSize \in Nat /\ HBase <= FileSize /\ MaxRecs \in Nat
  BY NC3LayoutAssumption
<1> DEFINE l == [vars |-> <<>>, natts |-> 0, xsz |-> HBase, begin_var |-> 0, begin_rec |-> 0,
                 recsize |-> 0, numrecs |-> 0]
<1>2. l \in Layout
  BY <1>1 DEF Layout
<1>3. InFile(l)
  <2>1. l.begin_rec + l.recsize * l.numrecs = 0
    OBVIOUS
  <2>2. {l.xsz, l.begin_var, l.begin_rec, l.recsize} \subseteq 0 .. FileSize
    BY <1>1
  <2>3. DOMAIN l.vars = {}
    OBVIOUS
  <2> QED
    BY <1>1, <2>1, <2>2, <2>3 DEF InFile
<1>4. lay = l
  BY DEF Init
<1> HIDE DEF l
<1>5. file \in [0 .. FileSize - 1 -> Bytes]
  BY DEF Init, Bytes
<1>6. numrecs \in Nat /\ numrecs <= lay.numrecs
  BY DEF Init
<1>7. OldLayout /\ Redefined /\ old = NoLayout
  BY DEF Init, OldLayout, Redefined, Redefines
<1> QED
  BY <1>2, <1>3, <1>4, <1>5, <1>6, <1>7 DEF Init, Placed

\* The redefinition goes on with the variables that were there.
LEMMA RedefinesMore ==
    ASSUME NEW o, NEW l \in Layout, NEW m \in Layout, Redefines(o, l),
           Len(l.vars) <= Len(m.vars), SameShapes(l, m, Len(l.vars)), m.numrecs = l.numrecs
    PROVE  Redefines(o, m)
<1> SUFFICES ASSUME o # NoLayout
             PROVE  /\ o \in Layout /\ Laid(o)
                    /\ Len(o.vars) <= Len(m.vars) /\ SameShapes(o, m, Len(o.vars))
                    /\ m.numrecs = o.numrecs
  BY DEF Redefines
<1>1. /\ o \in Layout /\ Laid(o) /\ Len(o.vars) <= Len(l.vars) /\ SameShapes(o, l, Len(o.vars))
      /\ l.numrecs = o.numrecs
  BY DEF Redefines
<1>2. Len(o.vars) \in Nat /\ Len(l.vars) \in Nat /\ Len(m.vars) \in Nat
  BY <1>1, LayoutVars
<1>3. \A i \in 1 .. Len(o.vars) : i \in 1 .. Len(l.vars)
  BY <1>1, <1>2
<1>4. SameShapes(o, m, Len(o.vars))
  BY <1>1, <1>3 DEF SameShapes
<1> QED
  BY <1>1, <1>2, <1>4

\* The header and the fills leave the file a file.
LEMMA FileType ==
    ASSUME NEW f \in [0 .. FileSize - 1 -> Bytes], NEW l, NEW S
    PROVE  /\ HeaderWritten(f, l) \in [0 .. FileSize - 1 -> Bytes]
           /\ Filled(f, l, S) \in [0 .. FileSize - 1 -> Bytes]
<1>1. Hdr \in Bytes /\ Fill \in Bytes
  BY DEF Bytes
<1> HIDE DEF Bytes, Hdr, Fill
<1>2. HeaderWritten(f, l) \in [0 .. FileSize - 1 -> Bytes]
  BY <1>1 DEF HeaderWritten
<1>3. Filled(f, l, S) \in [0 .. FileSize - 1 -> Bytes]
  BY <1>1 DEF Filled
<1> QED
  BY <1>2, <1>3

LEMMA PlacedEndef ==
    ASSUME Placed, NEW a \in EndefArgs,
           NC3__enddef(a.h_minfree, a.v_align, a.v_minfree, a.r_align)
    PROVE  Placed'
<1> DEFINE b == Begins(a)
           gnu == Begins(a).lay
<1>1. indef = TRUE /\ InFile(gnu)
  BY DEF NC3__enddef, Begins, Placed
<1>2. /\ lay \in Layout /\ InFile(lay) /\ OldLayout /\ (old # NoLayout => InFile(old))
      /\ Redefined /\ Redefines(old, lay)
      /\ numrecs \in Nat /\ numrecs <= lay.numrecs
      /\ file \in [0 .. FileSize - 1 -> Bytes]
      /\ dofill \in BOOLEAN /\ aborted \in BOOLEAN
  BY DEF Placed, Redefined
<1>3. gnu \in Layout /\ SameVars(lay, gnu)
  BY <1>2, BeginsResult
<1>4. CASE /\ b.status = "NOERR" /\ NC_check_voffs(gnu) /\ EndefAsserts(gnu)
           /\ lay' = gnu
           /\ file' = Filled(HeaderWritten(Moved(file, gnu), gnu), gnu, FilledByEndef(gnu))
           /\ numrecs' = gnu.numrecs
           /\ indef' = FALSE
           /\ old' = NoLayout
           /\ UNCHANGED <<dofill, aborted>>
  <2>1. Laid(gnu) /\ (old # NoLayout => Movable(gnu))
    BY <1>1, <1>2, <1>4, EndefLaid
  <2>2. Moved(file, gnu) \in [0 .. FileSize - 1 -> Bytes]
    <3>1. CASE old = NoLayout
      BY <1>2, <3>1 DEF Moved
    <3>2. CASE old # NoLayout
      BY <1>2, <2>1, <3>2, AllMoved
    <3> QED
      BY <3>1, <3>2
  <2> HIDE DEF b, gnu
  <2>3. HeaderWritten(Moved(file, gnu), gnu) \in [0 .. FileSize - 1 -> Bytes]
    BY <2>2, FileType
  <2>4. file' \in [0 .. FileSize - 1 -> Bytes]
    BY <1>4, <2>3, FileType
  <2>5. numrecs' \in Nat /\ numrecs' <= lay'.numrecs
    BY <1>3, <1>4, LayoutNumbers
  <2>6. lay' \in Layout /\ InFile(lay') /\ Laid(lay')
    BY <1>1, <1>3, <1>4, <2>1
  <2>7. indef' = FALSE /\ dofill' \in BOOLEAN /\ aborted' \in BOOLEAN /\ old' = NoLayout
    BY <1>2, <1>4
  <2> QED
    BY <2>4, <2>5, <2>6, <2>7 DEF Placed, OldLayout, Redefined, Redefines
<1>5. CASE /\ lay' = gnu
           /\ UNCHANGED <<indef, old, dofill, file, numrecs, aborted>>
  <2> HIDE DEF b, gnu
  <2>1. Redefines(old, gnu)
    <3>1. /\ Len(lay.vars) <= Len(gnu.vars) /\ SameShapes(lay, gnu, Len(lay.vars))
          /\ gnu.numrecs = lay.numrecs
      BY <1>2, <1>3, LayoutVars DEF SameVars
    <3> QED
      BY <1>2, <1>3, <3>1, RedefinesMore
  <2>2. numrecs <= gnu.numrecs
    BY <1>2, <1>3 DEF SameVars
  <2> QED
    BY <1>1, <1>2, <1>3, <1>5, <2>1, <2>2 DEF Placed, OldLayout, Redefined
<1>6. CASE /\ aborted' = TRUE
           /\ UNCHANGED <<indef, lay, old, dofill, file, numrecs>>
  BY <1>1, <1>2, <1>6 DEF Placed, OldLayout, Redefined
<1> QED
  BY <1>4, <1>5, <1>6 DEF NC3__enddef, Begins

LEMMA PlacedRedef ==
    ASSUME Placed, NC3_redef
    PROVE  Placed'
<1>1. /\ lay \in Layout /\ InFile(lay) /\ Laid(lay) /\ dofill \in BOOLEAN /\ aborted \in BOOLEAN
      /\ numrecs \in Nat /\ numrecs <= lay.numrecs /\ file \in [0 .. FileSize - 1 -> Bytes]
  BY DEF Placed, NC3_redef
<1>2. Len(lay.vars) \in Nat
  BY <1>1, LayoutVars
<1>3. Redefines(lay, lay)
  BY <1>1, <1>2 DEF Redefines, SameShapes
<1>4. indef' = TRUE /\ old' = lay /\ UNCHANGED <<lay, dofill, file, numrecs, aborted>>
  BY DEF NC3_redef
<1> QED
  BY <1>1, <1>3, <1>4 DEF Placed, OldLayout, Redefined

LEMMA PlacedReopened ==
    ASSUME Placed, NEW l \in Layout, Laid(l), InFile(l), NEW n \in Nat, n <= l.numrecs,
           Reopened(l, n), UNCHANGED aborted
    PROVE  Placed'
<1>1. aborted \in BOOLEAN /\ file \in [0 .. FileSize - 1 -> Bytes]
  BY DEF Placed
<1>2. /\ indef' = FALSE /\ lay' = HeaderRead(l, n) /\ old' = NoLayout /\ dofill' = TRUE
      /\ numrecs' = n
      /\ file' = [a \in DOMAIN file |->
                    IF a < HeaderRead(l, n).begin_rec + n * HeaderRead(l, n).recsize
                    THEN file[a] ELSE Hole]
  BY DEF Reopened, HeaderRead
<1> DEFINE c == HeaderRead(l, n)
<1>3. c \in Layout /\ Laid(c) /\ InFile(c) /\ c.numrecs = n
  BY HeaderReadPlaces
<1> HIDE DEF c
<1>4. file' \in [0 .. FileSize - 1 -> Bytes]
  <2>1. Hole \in Bytes
    BY DEF Bytes
  <2> HIDE DEF Bytes, Hole
  <2> QED
    BY <1>1, <1>2, <2>1
<1>5. lay' = c /\ numrecs' \in Nat /\ numrecs' <= lay'.numrecs
  BY <1>2, <1>3 DEF c
<1> QED
  BY <1>1, <1>2, <1>3, <1>4, <1>5 DEF Placed, OldLayout, Redefined, Redefines

LEMMA PlacedAbort ==
    ASSUME Placed, NC3_abort
    PROVE  Placed'
<1>1. old # NoLayout /\ Reopened(old, numrecs) /\ UNCHANGED aborted
  BY DEF NC3_abort
<1>2. old \in Layout /\ Laid(old) /\ InFile(old) /\ numrecs \in Nat /\ numrecs <= old.numrecs
  BY <1>1 DEF Placed, Redefined, Redefines
<1> QED
  BY <1>1, <1>2, PlacedReopened

LEMMA PlacedClose ==
    ASSUME Placed, NC3_close
    PROVE  Placed'
<1>1. Reopened(lay, lay.numrecs) /\ UNCHANGED aborted
  BY DEF NC3_close
<1>2. lay \in Layout /\ Laid(lay) /\ InFile(lay)
  BY DEF Placed, NC3_close
<1>3. lay.numrecs \in Nat /\ lay.numrecs <= lay.numrecs
  BY <1>2, LayoutNumbers
<1> QED
  BY <1>1, <1>2, <1>3, PlacedReopened

\* In define mode the layout may get more variables and a longer header.
LEMMA PlacedDefine ==
    ASSUME Placed, indef, lay' \in Layout, InFile(lay'),
           Len(lay.vars) <= Len(lay'.vars), SameShapes(lay, lay', Len(lay.vars)),
           lay'.numrecs = lay.numrecs,
           UNCHANGED <<indef, old, dofill, file, numrecs, aborted>>
    PROVE  Placed'
<1>1. /\ lay \in Layout /\ OldLayout /\ (old # NoLayout => InFile(old)) /\ Redefines(old, lay)
      /\ numrecs \in Nat /\ numrecs <= lay.numrecs /\ file \in [0 .. FileSize - 1 -> Bytes]
      /\ dofill \in BOOLEAN /\ aborted \in BOOLEAN
  BY DEF Placed, Redefined
<1>2. Redefines(old, lay')
  BY <1>1, RedefinesMore
<1> QED
  BY <1>1, <1>2 DEF Placed, OldLayout, Redefined

LEMMA PlacedDefVar ==
    ASSUME Placed, NEW rec \in BOOLEAN, NEW size \in Sizes, NC3_def_var(rec, size)
    PROVE  Placed'
<1> DEFINE v  == [rec |-> rec, size |-> size, begin |-> 0, no_fill |-> ~dofill]
           vs == Append(lay.vars, v)
<1>1. lay \in Layout /\ InFile(lay) /\ dofill \in BOOLEAN
  BY DEF Placed
<1>2. lay.vars \in Seq(Var) /\ Len(lay.vars) \in Nat /\ DOMAIN lay.vars = 1 .. Len(lay.vars)
  <2>1. lay.vars \in Seq(Var)
    BY <1>1 DEF Layout
  <2> QED
    BY <1>1, <2>1, LayoutVars
<1>3. v \in Var /\ v.begin = 0
  BY <1>1 DEF Var
<1>4. lay' = [lay EXCEPT !.vars = vs]
  BY DEF NC3_def_var
<1> HIDE DEF v
<1>5. /\ vs \in Seq(Var) /\ Len(vs) = Len(lay.vars) + 1 /\ DOMAIN vs = 1 .. Len(lay.vars) + 1
      /\ vs[Len(lay.vars) + 1] = v
      /\ \A i \in 1 .. Len(lay.vars) : vs[i] = lay.vars[i]
  BY <1>2, <1>3
<1> HIDE DEF vs
<1>6. /\ lay' \in Layout /\ lay'.vars = vs /\ lay'.numrecs = lay.numrecs
      /\ lay'.xsz = lay.xsz /\ lay'.begin_var = lay.begin_var
      /\ lay'.begin_rec = lay.begin_rec /\ lay'.recsize = lay.recsize
  BY <1>1, <1>4, <1>5 DEF Layout
<1>7. InFile(lay')
  <2>1. ASSUME NEW i \in DOMAIN lay'.vars
        PROVE  lay'.vars[i].begin <= FileSize
    <3>1. i \in 1 .. Len(lay.vars) \/ i = Len(lay.vars) + 1
      BY <1>2, <1>5, <1>6
    <3>2. i \in 1 .. Len(lay.vars) => lay.vars[i].begin <= FileSize
      BY <1>1, <1>2 DEF InFile
    <3>3. FileSize \in Nat
      BY NC3LayoutAssumption
    <3> QED
      BY <1>3, <1>5, <1>6, <3>1, <3>2, <3>3
  <2> QED
    BY <1>1, <1>6, <2>1 DEF InFile
<1>8. Len(lay.vars) <= Len(lay'.vars) /\ SameShapes(lay, lay', Len(lay.vars))
  BY <1>2, <1>5, <1>6 DEF SameShapes
<1> QED
  BY <1>6, <1>7, <1>8, PlacedDefine DEF NC3_def_var

LEMMA PlacedPutAtt ==
    ASSUME Placed, NC3_put_att
    PROVE  Placed'
<1>1. lay \in Layout /\ InFile(lay) /\ lay.natts \in Nat /\ Len(lay.vars) \in Nat
  BY LayoutNumbers, LayoutVars DEF Placed
<1>2. lay' = [lay EXCEPT !.natts = lay.natts + 1]
  BY DEF NC3_put_att
<1>3. /\ lay' \in Layout /\ lay'.vars = lay.vars /\ lay'.numrecs = lay.numrecs
      /\ lay'.xsz = lay.xsz /\ lay'.begin_var = lay.begin_var
      /\ lay'.begin_rec = lay.begin_rec /\ lay'.recsize = lay.recsize
  BY <1>1, <1>2 DEF Layout
<1>4. InFile(lay')
  BY <1>1, <1>3 DEF InFile
<1>5. Len(lay.vars) <= Len(lay'.vars) /\ SameShapes(lay, lay', Len(lay.vars))
  BY <1>1, <1>3 DEF SameShapes
<1> QED
  BY <1>3, <1>4, <1>5, PlacedDefine DEF NC3_put_att

\* A layout with the offsets of one that fits in the file fits too.
LEMMA AlikeInFile ==
    ASSUME NEW l \in Layout, NEW m \in Layout, Alike(l, m), m.numrecs = l.numrecs, InFile(l)
    PROVE  InFile(m)
<1>1. DOMAIN l.vars = 1 .. Len(l.vars) /\ DOMAIN m.vars = 1 .. Len(l.vars)
  BY LayoutVars DEF Alike
<1> QED
  BY <1>1 DEF InFile, Alike

\* NC3_set_fill changes the fill modes only.
LEMMA SetFillLay ==
    ASSUME lay \in Layout, NEW b \in BOOLEAN, NC3_set_fill(b)
    PROVE  lay' \in Layout /\ Alike(lay, lay') /\ lay'.numrecs = lay.numrecs
<1> DEFINE vs == [i \in DOMAIN lay.vars |-> [lay.vars[i] EXCEPT !.no_fill = ~b]]
<1>1. (~b) \in BOOLEAN
  OBVIOUS
<1>2. /\ vs \in Seq(Var) /\ Len(vs) = Len(lay.vars)
      /\ \A i \in 1 .. Len(lay.vars) :
            /\ vs[i].rec = lay.vars[i].rec /\ vs[i].size = lay.vars[i].size
            /\ vs[i].begin = lay.vars[i].begin
  BY <1>1, Refilled
<1>3. lay' = [lay EXCEPT !.vars = vs]
  BY DEF NC3_set_fill
<1> HIDE DEF vs
<1>4. /\ lay' \in Layout /\ lay'.vars = vs /\ lay'.numrecs = lay.numrecs
      /\ lay'.xsz = lay.xsz /\ lay'.begin_var = lay.begin_var
      /\ lay'.begin_rec = lay.begin_rec /\ lay'.recsize = lay.recsize
  BY <1>2, <1>3 DEF Layout
<1> QED
  BY <1>2, <1>4 DEF Alike, SameShapes

LEMMA PlacedSetFill ==
    ASSUME Placed, NEW b \in BOOLEAN, NC3_set_fill(b)
    PROVE  Placed'
<1>1. /\ lay \in Layout /\ InFile(lay) /\ OldLayout /\ (old # NoLayout => InFile(old))
      /\ Redefines(old, lay) /\ (~indef => old = NoLayout /\ Laid(lay))
      /\ numrecs \in Nat /\ numrecs <= lay.numrecs /\ file \in [0 .. FileSize - 1 -> Bytes]
      /\ indef \in BOOLEAN /\ aborted \in BOOLEAN
  BY DEF Placed, Redefined
<1>2. lay' \in Layout /\ Alike(lay, lay') /\ lay'.numrecs = lay.numrecs
  BY <1>1, SetFillLay
<1>3. InFile(lay') /\ (Laid(lay) => Laid(lay'))
  BY <1>1, <1>2, AlikeInFile, AlikeLaid
<1>4. Redefines(old, lay')
  <2>1. Len(lay.vars) <= Len(lay'.vars) /\ SameShapes(lay, lay', Len(lay.vars))
    BY <1>1, <1>2, LayoutVars DEF Alike
  <2> QED
    BY <1>1, <1>2, <2>1, RedefinesMore
<1>5. numrecs' \in Nat /\ numrecs' <= lay'.numrecs
  BY <1>1, <1>2, LayoutNumbers DEF NC3_set_fill
<1>6. dofill' \in BOOLEAN /\ UNCHANGED <<indef, old, file, aborted>>
  BY DEF NC3_set_fill
<1> QED
  BY <1>1, <1>2, <1>3, <1>4, <1>5, <1>6 DEF Placed, OldLayout, Redefined

\* NC3_put_vara changes the number of records only.
LEMMA PutVaraLay ==
    ASSUME lay \in Layout, NEW i \in DOMAIN lay.vars, NEW r \in 0 .. MaxRecs - 1, NC3_put_vara(i, r)
    PROVE  /\ lay' \in Layout /\ Alike(lay, lay')
           /\ lay'.numrecs \in Nat /\ lay.numrecs <= lay'.numrecs
           /\ lay.vars[i].rec => lay'.numrecs = Larger(lay.numrecs, r + 1)
           /\ ~lay.vars[i].rec => lay'.numrecs = lay.numrecs
<1> DEFINE n == IF lay.vars[i].rec THEN Larger(lay.numrecs, r + 1) ELSE lay.numrecs
<1>1. lay' = [lay EXCEPT !.numrecs = n]
  BY DEF NC3_put_vara
<1>2. n \in 0 .. MaxRecs /\ lay.numrecs \in Nat /\ n \in Nat /\ lay.numrecs <= n
  BY LayoutNumbers, NC3LayoutAssumption DEF Larger
<1>3. lay.vars[i].rec => n = Larger(lay.numrecs, r + 1)
  OBVIOUS
<1>4. ~lay.vars[i].rec => n = lay.numrecs
  OBVIOUS
<1> HIDE DEF n
<1>5. /\ lay' \in Layout /\ lay'.vars = lay.vars /\ lay'.numrecs = n
      /\ lay'.xsz = lay.xsz /\ lay'.begin_var = lay.begin_var
      /\ lay'.begin_rec = lay.begin_rec /\ lay'.recsize = lay.recsize
  BY <1>1, <1>2 DEF Layout
<1>6. Alike(lay, lay')
  BY <1>5 DEF Alike, SameShapes
<1> QED
  BY <1>2, <1>3, <1>4, <1>5, <1>6

LEMMA PlacedPutVara ==
    ASSUME Placed, NEW i \in DOMAIN lay.vars, NEW r \in 0 .. MaxRecs - 1, NC3_put_vara(i, r)
    PROVE  Placed'
<1>1. /\ lay \in Layout /\ old = NoLayout /\ Laid(lay) /\ ~indef
      /\ numrecs \in Nat /\ numrecs <= lay.numrecs /\ file \in [0 .. FileSize - 1 -> Bytes]
      /\ indef \in BOOLEAN /\ aborted \in BOOLEAN /\ dofill \in BOOLEAN
  BY DEF Placed, NC3_put_vara
<1>2. /\ lay' \in Layout /\ Alike(lay, lay') /\ lay'.numrecs \in Nat /\ lay.numrecs <= lay'.numrecs
  BY <1>1, PutVaraLay
<1>3. Laid(lay') /\ InFile(lay')
  BY <1>1, <1>2, AlikeLaid DEF NC3_put_vara
<1>4. lay.numrecs \in Nat /\ numrecs <= lay'.numrecs
  BY <1>1, <1>2, LayoutNumbers
<1>5. file' \in [0 .. FileSize - 1 -> Bytes]
  <2> DEFINE f  == Filled(file, lay, IF lay.vars[i].rec THEN Added(r) ELSE {})
             at == Offset(lay, i, r)
             z  == lay.vars[i].size
  <2>1. file' = [a \in DOMAIN f |-> IF a \in at .. at + z - 1 THEN <<i, r, a - at>> ELSE f[a]]
    BY DEF NC3_put_vara
  <2>2. f \in [0 .. FileSize - 1 -> Bytes]
    BY <1>1, FileType
  <2>3. i \in 1 .. Len(lay.vars) /\ i \in Nat /\ r \in Nat
    <3>1. i \in 1 .. Len(lay.vars) /\ Len(lay.vars) \in Nat /\ MaxRecs \in Nat
      BY <1>1, LayoutVars, NC3LayoutAssumption
    <3> QED
      BY <3>1
  <2>4. at \in Nat /\ z \in Nat
    <3>1. IsCell(lay, i, r)
      BY <2>3 DEF IsCell, NC3_put_vara
    <3> QED
      BY <1>1, <3>1, CellPlace
  <2> HIDE DEF f, at, z
  <2>5. ASSUME NEW a \in 0 .. FileSize - 1, a \in at .. at + z - 1
        PROVE  <<i, r, a - at>> \in Bytes
    <3>1. a - at \in Nat
      BY <2>4, <2>5
    <3> QED
      BY <2>3, <3>1 DEF Bytes
  <2> HIDE DEF Bytes
  <2> QED
    BY <2>1, <2>2, <2>5
<1>6. UNCHANGED <<indef, old, dofill, numrecs, aborted>>
  BY DEF NC3_put_vara
<1> QED
  BY <1>1, <1>2, <1>3, <1>4, <1>5, <1>6 DEF Placed, OldLayout, Redefined, Redefines

LEMMA PlacedNext == Placed /\ [Next]_vars => Placed'
<1> SUFFICES ASSUME Placed, [Next]_vars PROVE Placed'
  OBVIOUS
<1>1. CASE UNCHANGED vars
  BY <1>1 DEF vars, Placed, OldLayout, Redefined
<1>2. ASSUME NEW a \in EndefArgs, NC3__enddef(a.h_minfree, a.v_align, a.v_minfree, a.r_align)
      PROVE  Placed'
  BY <1>2, PlacedEndef
<1>3. ASSUME NEW rec \in BOOLEAN, NEW size \in Sizes, NC3_def_var(rec, size)
      PROVE  Placed'
  BY <1>3, PlacedDefVar
<1>4. ASSUME NEW b \in BOOLEAN, NC3_set_fill(b)
      PROVE  Placed'
  BY <1>4, PlacedSetFill
<1>5. ASSUME NEW i \in DOMAIN lay.vars, NEW r \in 0 .. MaxRecs - 1, NC3_put_vara(i, r)
      PROVE  Placed'
  BY <1>5, PlacedPutVara
<1> QED
  BY <1>1, <1>2, <1>3, <1>4, <1>5, PlacedRedef, PlacedAbort, PlacedClose, PlacedPutAtt DEF Next

LEMMA AlwaysPlaced == Spec => []Placed
<1> QED
  BY PlacedInit, PlacedNext, PTL DEF Spec

\* In every state that calls of the library reach, the offsets of the layout in
\* memory and of the one before the redefinition lie in the file.
THEOREM TypeCorrect == Spec => []TypeOK
<1>1. Placed => TypeOK
  <2> SUFFICES ASSUME Placed PROVE TypeOK
    OBVIOUS
  <2>1. \A l \in {lay, old} \ {NoLayout} : l \in Layout /\ InFile(l)
    BY DEF Placed, OldLayout
  <2>2. numrecs \in 0 .. MaxRecs
    <3>1. numrecs \in Nat /\ numrecs <= lay.numrecs /\ lay \in Layout
      BY DEF Placed
    <3>2. lay.numrecs \in 0 .. MaxRecs /\ MaxRecs \in Nat
      BY <3>1, LayoutNumbers, NC3LayoutAssumption
    <3> QED
      BY <3>1, <3>2
  <2>3. {indef, dofill, aborted} \subseteq BOOLEAN
    BY DEF Placed
  <2>4. DOMAIN file = 0 .. FileSize - 1
    BY DEF Placed
  <2> QED
    BY <2>1, <2>2, <2>3, <2>4 DEF TypeOK
<1> QED
  BY <1>1, AlwaysPlaced, PTL

\* A header that nc_enddef has written is accepted when it is read again,
\* whatever the arguments of nc__enddef were and however often the dataset was
\* redefined, closed or aborted.
THEOREM HeaderAccepted == Spec => []HeaderReadable
<1>1. Placed => HeaderReadable
  BY LaidReadable DEF Placed, HeaderReadable
<1> QED
  BY <1>1, AlwaysPlaced, PTL

\* The offsets that NC_computeshapes computes from the header are those that
\* NC_begins computed, where there is a record variable.
THEOREM OffsetsAgree == Spec => []ReopenAgrees
<1>1. Placed => ReopenAgrees
  BY ShapesSame DEF Placed, ReopenAgrees
<1> QED
  BY <1>1, AlwaysPlaced, PTL

----------------------------------------------------------------------------
(* Alignment *)

Multiple(x) == \E k \in Nat : x = k * X_ALIGN

LEMMA Remainder ==
    ASSUME NEW x \in Nat, x % X_ALIGN = 0
    PROVE  Multiple(x)
<1>1. X_ALIGN \in Nat \ {0}
  BY NC3LayoutAssumption
<1>2. x = (x \div X_ALIGN) * X_ALIGN
  BY <1>1
<1>3. x \div X_ALIGN \in Nat
  BY <1>1, Division
<1> QED
  BY <1>2, <1>3 DEF Multiple

LEMMA MultipleSum ==
    ASSUME NEW x, NEW y, Multiple(x), Multiple(y)
    PROVE  Multiple(x + y)
<1>1. PICK j \in Nat : x = j * X_ALIGN
  BY DEF Multiple
<1>2. PICK k \in Nat : y = k * X_ALIGN
  BY DEF Multiple
<1>3. X_ALIGN \in Nat
  BY NC3LayoutAssumption
<1>4. x + y = (j + k) * X_ALIGN /\ j + k \in Nat
  BY <1>1, <1>2, <1>3
<1> QED
  BY <1>4 DEF Multiple

LEMMA MultipleProduct ==
    ASSUME NEW n \in Nat, NEW x, Multiple(x)
    PROVE  Multiple(n * x)
<1>1. PICK j \in Nat : x = j * X_ALIGN
  BY DEF Multiple
<1>2. X_ALIGN \in Nat
  BY NC3LayoutAssumption
<1>3. n * x = (n * j) * X_ALIGN
  BY <1>1, <1>2
<1>4. n * j \in Nat
  BY ProductNat
<1> QED
  BY <1>3, <1>4 DEF Multiple

\* Two multiples are equal or X_ALIGN apart.
LEMMA MultiplesApart ==
    ASSUME NEW x, NEW y, Multiple(x), Multiple(y), x <= y
    PROVE  x = y \/ x + X_ALIGN <= y
<1>1. PICK j \in Nat : x = j * X_ALIGN
  BY DEF Multiple
<1>2. PICK k \in Nat : y = k * X_ALIGN
  BY DEF Multiple
<1>3. X_ALIGN \in Nat /\ X_ALIGN * j = j * X_ALIGN /\ X_ALIGN * k = k * X_ALIGN
  BY NC3LayoutAssumption
<1>4. CASE j = k
  BY <1>1, <1>2, <1>4
<1>5. CASE j < k
  <2>1. X_ALIGN * j + X_ALIGN <= X_ALIGN * k
    BY <1>3, <1>5, RecordsApart
  <2> QED
    BY <1>1, <1>2, <1>3, <2>1
<1>6. CASE k < j
  <2>1. /\ X_ALIGN * k \in Nat /\ X_ALIGN * j \in Nat
        /\ X_ALIGN * k + X_ALIGN <= X_ALIGN * j
    BY <1>3, <1>6, RecordsApart
  <2> DEFINE p == X_ALIGN * k
             q == X_ALIGN * j
  <2>2. p \in Nat /\ q \in Nat /\ p + X_ALIGN <= q /\ q <= p
    BY <1>1, <1>2, <1>3, <2>1
  <2> HIDE DEF p, q
  <2>3. FALSE
    BY <2>2, NC3LayoutAssumption
  <2> QED
    BY <2>3
<1> QED
  BY <1>4, <1>5, <1>6

LEMMA MultipleRound ==
    ASSUME NEW x \in Nat, NEW m \in Nat \ {0}, (m = 1 /\ Multiple(x)) \/ Multiple(m)
    PROVE  Multiple(D_RNDUP(x, m))
<1>1. CASE m = 1 /\ Multiple(x)
  <2>1. D_RNDUP(x, 1) = x
    BY DEF D_RNDUP
  <2> QED
    BY <1>1, <2>1
<1>2. CASE Multiple(m)
  <2> DEFINE q == (x + m - 1) \div m
  <2>1. x + m - 1 \in Nat
    OBVIOUS
  <2>2. q \in Nat
    BY <2>1, Division
  <2>3. D_RNDUP(x, m) = q * m
    BY DEF D_RNDUP
  <2> HIDE DEF q
  <2> QED
    BY <1>2, <2>2, <2>3, MultipleProduct
<1> QED
  BY <1>1, <1>2

\* X_ALIGN itself, and the length of a variable.
LEMMA MultipleVarLen ==
    ASSUME NEW v \in Var
    PROVE  Multiple(VarLen(v))
<1>1. X_ALIGN \in Nat \ {0} /\ v.size \in Nat
  BY NC3LayoutAssumption, VarLenSize
<1>2. X_ALIGN = 1 * X_ALIGN
  BY <1>1
<1>3. Multiple(X_ALIGN)
  BY <1>2 DEF Multiple
<1> QED
  BY <1>1, <1>3, MultipleRound DEF VarLen

LEMMA MultipleZero == Multiple(0)
<1>1. 0 = 0 * X_ALIGN
  BY NC3LayoutAssumption
<1> QED
  BY <1>1 DEF Multiple

\* The sections of a layout, and its fixed-size variables, are aligned.
AlignedLay(l) ==
    /\ Multiple(l.xsz) /\ Multiple(l.begin_var) /\ Multiple(l.begin_rec)
    /\ \A i \in FixVars(l) : Multiple(l.vars[i].begin)

LEMMA AlignedArgs ==
    ASSUME Aligned, NEW a \in EndefArgs
    PROVE  /\ a.h_minfree \in Nat /\ a.v_align \in Nat \ {0}
           /\ a.v_minfree \in Nat /\ a.r_align \in Nat \ {0}
           /\ Multiple(a.h_minfree) /\ Multiple(a.v_minfree)
           /\ a.v_align = 1 \/ Multiple(a.v_align)
           /\ a.r_align = 1 \/ Multiple(a.r_align)
           /\ Multiple(HBase) /\ Multiple(HVar) /\ Multiple(HAtt)
<1>1. a \in [h_minfree : Nat, v_align : Nat \ {0}, v_minfree : Nat, r_align : Nat \ {0}]
  BY NC3LayoutAssumption
<1>2. a.h_minfree \in Nat /\ a.v_align \in Nat \ {0} /\ a.v_minfree \in Nat /\ a.r_align \in Nat \ {0}
  BY <1>1
<1>3. HBase \in Nat /\ HVar \in Nat /\ HAtt \in Nat
  BY NC3LayoutAssumption
<1>4. /\ HBase % X_ALIGN = 0 /\ HVar % X_ALIGN = 0 /\ HAtt % X_ALIGN = 0
      /\ a.h_minfree % X_ALIGN = 0 /\ a.v_minfree % X_ALIGN = 0
      /\ a.v_align = 1 \/ a.v_align % X_ALIGN = 0
      /\ a.r_align = 1 \/ a.r_align % X_ALIGN = 0
  BY DEF Aligned
<1>5. Multiple(HBase) /\ Multiple(HVar) /\ Multiple(HAtt)
  BY <1>3, <1>4, Remainder
<1>6. Multiple(a.h_minfree) /\ Multiple(a.v_minfree)
  BY <1>2, <1>4, Remainder
<1>7. a.v_align = 1 \/ Multiple(a.v_align)
  BY <1>2, <1>4, Remainder
<1>8. a.r_align = 1 \/ Multiple(a.r_align)
  BY <1>2, <1>4, Remainder
<1> QED
  BY <1>2, <1>5, <1>6, <1>7, <1>8

LEMMA MultipleSection ==
    ASSUME NEW begin \in Nat, NEW index \in Nat, NEW minfree \in Nat, NEW align \in Nat \ {0},
           Multiple(begin), Multiple(index), Multiple(minfree), align = 1 \/ Multiple(align)
    PROVE  Multiple(SectionBegin(begin, index, minfree, align))
<1>1. index + minfree \in Nat
  OBVIOUS
<1>2. Multiple(index + minfree)
  BY MultipleSum, Zenon
<1>3. Multiple(D_RNDUP(index + minfree, align))
  BY <1>1, <1>2, MultipleRound
<1> QED
  BY <1>3 DEF SectionBegin

LEMMA MultipleLarger ==
    ASSUME NEW x, NEW y, Multiple(x), Multiple(y)
    PROVE  Multiple(Larger(x, y))
<1> QED
  BY DEF Larger

LEMMA MultipleHeader ==
    ASSUME NEW l \in Layout, Multiple(HBase), Multiple(HVar), Multiple(HAtt)
    PROVE  Multiple(ncx_len_NC(l))
<1> DEFINE nv == Len(l.vars)
           na == l.natts
<1>1. nv \in Nat /\ na \in Nat /\ HBase \in Nat /\ HVar \in Nat /\ HAtt \in Nat
  BY LayoutVars, LayoutNumbers, NC3LayoutAssumption
<1>2. Multiple(nv * HVar) /\ Multiple(na * HAtt)
  BY <1>1, MultipleProduct
<1>3. nv * HVar = HVar * nv /\ na * HAtt = HAtt * na
  BY <1>1
<1>4. Multiple(HVar * nv) /\ Multiple(HAtt * na)
  BY <1>2, <1>3
<1>5. Multiple(HBase + HVar * nv)
  BY <1>4, MultipleSum
<1>6. Multiple((HBase + HVar * nv) + HAtt * na)
  BY <1>4, <1>5, MultipleSum
<1> QED
  BY <1>6 DEF ncx_len_NC

\* Where the old layout has its sections and its fixed-size variables.
LEMMA OldAligned ==
    ASSUME lay \in Layout, OldLayout, Redefined, old # NoLayout => AlignedLay(old)
    PROVE  /\ Multiple(OldVar) /\ Multiple(OldRec)
           /\ \A i \in FixVars(lay) : Multiple(OldBegin(i))
<1>1. Multiple(0)
  BY MultipleZero
<1>2. Multiple(OldVar) /\ Multiple(OldRec)
  BY <1>1 DEF OldVar, OldRec, AlignedLay
<1>3. ASSUME NEW i \in FixVars(lay)
      PROVE  Multiple(OldBegin(i))
  <2>1. CASE old # NoLayout /\ i <= Len(old.vars)
    <3>1. old \in Layout /\ SameShapes(old, lay, Len(old.vars))
      BY <2>1 DEF Redefined, Redefines
    <3>2. i \in 1 .. Len(lay.vars) /\ ~lay.vars[i].rec /\ Len(old.vars) \in Nat /\ Len(lay.vars) \in Nat
      BY <3>1, VarSets, LayoutVars
    <3>3. i \in 1 .. Len(old.vars)
      BY <2>1, <3>2
    <3>4. ~old.vars[i].rec
      BY <3>1, <3>2, <3>3 DEF SameShapes
    <3>5. i \in FixVars(old)
      BY <3>1, <3>3, <3>4, VarSets
    <3>6. OldBegin(i) = old.vars[i].begin
      BY <2>1 DEF OldBegin
    <3> QED
      BY <2>1, <3>5, <3>6 DEF AlignedLay
  <2>2. CASE ~(old # NoLayout /\ i <= Len(old.vars))
    BY <1>1, <2>2 DEF OldBegin
  <2> QED
    BY <2>1, <2>2
<1> QED
  BY <1>2, <1>3

\* Every offset that NC_begins computes is aligned.
LEMMA BeginsAligned ==
    ASSUME Aligned, lay \in Layout, OldLayout, Redefined, AlignedLay(lay),
           old # NoLayout => AlignedLay(old), NEW a \in EndefArgs
    PROVE  /\ Multiple(ncx_len_NC(lay)) /\ Multiple(RecStart(lay, a))
           /\ \A i \in FixVars(lay) : Multiple(BeginOf(lay, a, i))
           /\ Multiple(VarStart(lay, a))
<1> DEFINE n  == Len(lay.vars)
           hl == ncx_len_NC(lay)
           st == Start(lay, a)
           at == FixIndex(lay, a)
           rs == RecStart(lay, a)
<1>1. /\ a.h_minfree \in Nat /\ a.v_align \in Nat \ {0}
      /\ a.v_minfree \in Nat /\ a.r_align \in Nat \ {0}
      /\ Multiple(a.h_minfree) /\ Multiple(a.v_minfree)
      /\ a.v_align = 1 \/ Multiple(a.v_align)
      /\ a.r_align = 1 \/ Multiple(a.r_align)
      /\ Multiple(HBase) /\ Multiple(HVar) /\ Multiple(HAtt)
  BY AlignedArgs
<1>2. hl \in Nat /\ Multiple(hl)
  BY <1>1, HeaderLength, MultipleHeader
<1>3. /\ OldVar \in Nat /\ OldRec \in Nat /\ lay.begin_var \in Nat /\ lay.begin_rec \in Nat /\ n \in Nat
      /\ Multiple(lay.begin_var) /\ Multiple(lay.begin_rec)
  BY OldNumbers, LayoutNumbers, LayoutVars DEF AlignedLay
<1>4. /\ Multiple(OldVar) /\ Multiple(OldRec)
      /\ \A i \in FixVars(lay) : Multiple(OldBegin(i))
  BY OldAligned
<1>5. Multiple(st)
  <2> DEFINE sb == SectionBegin(lay.begin_var, hl, a.h_minfree, a.v_align)
  <2>1. Multiple(sb)
    <3> HIDE DEF hl
    <3> QED
      BY <1>1, <1>2, <1>3, MultipleSection
  <2>2. st = Larger(sb, OldVar)
    BY DEF Start
  <2> HIDE DEF sb, st
  <2> QED
    BY <1>4, <2>1, <2>2, MultipleLarger
<1>6. /\ at \in [0 .. n -> Nat] /\ at[0] = st
      /\ \A i \in 1 .. n : at[i] = PassStep(lay, FixVars(lay), TRUE, i, at[i - 1])
      /\ \A i \in FixVars(lay) :
            /\ BeginOf(lay, a, i) = Larger(at[i - 1], OldBegin(i))
            /\ BeginsPass(lay, FixVars(lay), st, TRUE).begin[i] = BeginOf(lay, a, i)
  BY BeginsNumbers
<1> HIDE DEF st, at
<1>7. \A i \in 0 .. n : Multiple(at[i])
  <2> DEFINE S == {i \in 0 .. n : Multiple(at[i])}
  <2>1. 0 \in S
    BY <1>3, <1>5, <1>6
  <2>2. ASSUME NEW i \in 1 .. n, i - 1 \in S
        PROVE  i \in S
    <3>1. Multiple(at[i - 1]) /\ i \in 0 .. n
      BY <1>3, <2>2
    <3>2. at[i] = PassStep(lay, FixVars(lay), TRUE, i, at[i - 1])
      BY <1>6
    <3>3. CASE i \in FixVars(lay)
      <4>1. Multiple(Larger(at[i - 1], OldBegin(i)))
        BY <1>4, <3>1, <3>3, MultipleLarger
      <4>2. Multiple(VarLen(lay.vars[i]))
        BY LayoutVars, MultipleVarLen
      <4>3. at[i] = VarLen(lay.vars[i]) + Larger(at[i - 1], OldBegin(i))
        BY <3>2, <3>3 DEF PassStep
      <4>4. Multiple(at[i])
        BY <4>1, <4>2, <4>3, MultipleSum
      <4> QED
        BY <3>1, <4>4
    <3>4. CASE i \notin FixVars(lay)
      <4>1. at[i] = at[i - 1]
        BY <3>2, <3>4 DEF PassStep
      <4> QED
        BY <3>1, <4>1
    <3> QED
      BY <3>3, <3>4
  <2>3. \A i \in 0 .. n : i \in S
    <3> HIDE DEF S
    <3> QED
      BY <1>3, <2>1, <2>2, UpTo
  <2> QED
    BY <2>3
<1>8. Multiple(rs)
  <2> DEFINE lr == Larger(lay.begin_rec, OldRec)
  <2>1. lr \in Nat /\ Multiple(lr)
    BY <1>3, <1>4, LargerNat, MultipleLarger
  <2>2. at[n] \in Nat /\ Multiple(at[n])
    BY <1>3, <1>6, <1>7
  <2>3. rs = SectionBegin(lr, at[n], a.v_minfree, a.r_align)
    BY DEF RecStart, at
  <2> HIDE DEF lr, rs
  <2> QED
    BY <1>1, <2>1, <2>2, <2>3, MultipleSection
<1>9. ASSUME NEW i \in FixVars(lay)
      PROVE  Multiple(BeginOf(lay, a, i))
  <2>1. i - 1 \in 0 .. n
    BY <1>3, VarSets
  <2>2. Multiple(at[i - 1])
    BY <1>7, <2>1
  <2>3. Multiple(Larger(at[i - 1], OldBegin(i)))
    BY <1>4, <2>2, MultipleLarger
  <2> QED
    BY <1>6, <2>3
<1>10. Multiple(VarStart(lay, a))
  <2>1. CASE FixVars(lay) = {}
    BY <1>8, <2>1 DEF VarStart
  <2>2. CASE FixVars(lay) # {}
    <3>1. First(FixVars(lay)) \in FixVars(lay)
      BY <2>2, VarSets, FirstIn
    <3>2. VarStart(lay, a) = BeginOf(lay, a, First(FixVars(lay)))
      BY <1>6, <2>2, <3>1 DEF VarStart, st
    <3> QED
      BY <1>9, <3>1, <3>2
  <2> QED
    BY <2>1, <2>2
<1> QED
  BY <1>2, <1>8, <1>9, <1>10

LEMMA AlignedBegins ==
    ASSUME Aligned, lay \in Layout, OldLayout, Redefined, AlignedLay(lay),
           old # NoLayout => AlignedLay(old), NEW a \in EndefArgs
    PROVE  AlignedLay(Begins(a).lay)
<1> DEFINE b  == Begins(a).lay
           hl == ncx_len_NC(lay)
           rs == RecStart(lay, a)
<1>1. /\ Multiple(hl) /\ Multiple(rs) /\ Multiple(VarStart(lay, a))
      /\ \A i \in FixVars(lay) : Multiple(BeginOf(lay, a, i))
  BY BeginsAligned
<1>2. b \in Layout /\ SameVars(lay, b)
  BY BeginsResult
<1>3. FixVars(b) = FixVars(lay)
  BY <1>2, ShapeSets DEF SameVars
<1>4. FixVars(lay) \subseteq 1 .. Len(lay.vars) /\ Len(lay.vars) \in Nat
  BY VarSets, LayoutVars
<1>5. CASE Begins(a).status = "NOERR" /\ Len(lay.vars) > 0
  <2>1. Computed(b, a)
    BY <1>5, BeginsResult
  <2> HIDE DEF b
  <2> QED
    BY <1>1, <1>3, <1>4, <2>1 DEF AlignedLay, Computed, b
<1>6. ASSUME NEW x, x = [lay EXCEPT !.xsz = hl] \/ x = [lay EXCEPT !.xsz = hl, !.begin_rec = rs]
      PROVE  AlignedLay(x)
  <2> HIDE DEF hl, rs
  <2>1. /\ x.xsz = hl /\ x.begin_var = lay.begin_var /\ x.vars = lay.vars
        /\ x.begin_rec = lay.begin_rec \/ x.begin_rec = rs
    BY <1>6 DEF Layout
  <2>2. FixVars(x) = FixVars(lay)
    BY <2>1 DEF FixVars, RecVars
  <2> QED
    BY <1>1, <2>1, <2>2 DEF AlignedLay
<1>7. CASE ~(Begins(a).status = "NOERR" /\ Len(lay.vars) > 0)
  <2>1. Len(lay.vars) # 0 => Len(lay.vars) > 0
    BY <1>4
  <2>2. b = [lay EXCEPT !.xsz = hl] \/ b = [lay EXCEPT !.xsz = hl, !.begin_rec = rs]
    BY <1>7, <2>1, BeginsCases
  <2> HIDE DEF b, hl, rs
  <2> QED
    BY <1>6, <2>2 DEF b
<1> QED
  BY <1>5, <1>7

LEMMA AlikeAligned ==
    ASSUME NEW l \in Layout, NEW m \in Layout, Alike(l, m), AlignedLay(l)
    PROVE  AlignedLay(m)
<1>1. FixVars(m) = FixVars(l) /\ FixVars(l) \subseteq 1 .. Len(l.vars)
  BY AlikeCells, VarSets
<1> QED
  BY <1>1 DEF Alike, AlignedLay

LEMMA HeaderReadAligned ==
    ASSUME NEW l \in Layout, Laid(l), InFile(l), NEW n \in Nat, n <= l.numrecs, AlignedLay(l)
    PROVE  AlignedLay(HeaderRead(l, n))
<1> DEFINE c == HeaderRead(l, n)
<1>1. c \in Layout /\ c.xsz = l.xsz /\ SamePlaces(l, c) /\ Sections(l, c)
  BY HeaderReadPlaces
<1> HIDE DEF c
<1>2. FixVars(c) = FixVars(l)
  BY <1>1, ShapeSets DEF SamePlaces
<1>3. FixVars(l) \subseteq 1 .. Len(l.vars)
  BY VarSets
<1>4. \A i \in FixVars(l) : Multiple(l.vars[i].begin) /\ Multiple(VarLen(l.vars[i]))
  BY <1>3, LayoutVars, MultipleVarLen DEF AlignedLay
<1>5. Multiple(c.begin_rec)
  <2>1. ASSUME NEW i \in FixVars(l), c.begin_rec = l.vars[i].begin + VarLen(l.vars[i])
        PROVE  Multiple(c.begin_rec)
    <3>1. Multiple(l.vars[i].begin + VarLen(l.vars[i]))
      BY <1>4, MultipleSum
    <3> QED
      BY <2>1, <3>1
  <2> QED
    BY <1>1, <2>1 DEF Sections, AlignedLay
<1>6. Multiple(c.begin_var)
  <2>1. FixVars(l) # {} => First(FixVars(l)) \in FixVars(l)
    BY VarSets, FirstIn
  <2> QED
    BY <1>1, <1>4, <1>5, <2>1 DEF Sections
<1>7. \A i \in FixVars(c) : Multiple(c.vars[i].begin)
  BY <1>1, <1>2, <1>3, <1>4 DEF SamePlaces
<1> QED
  BY <1>1, <1>5, <1>6, <1>7 DEF AlignedLay, c

AlignedState == AlignedLay(lay) /\ (old # NoLayout => AlignedLay(old))

LEMMA AlignedInit == Aligned /\ Init => AlignedState
<1> SUFFICES ASSUME Aligned, Init PROVE AlignedState
  OBVIOUS
<1>1. HBase \in Nat /\ HBase % X_ALIGN = 0
  BY NC3LayoutAssumption DEF Aligned
<1>2. Multiple(HBase) /\ Multiple(0)
  BY <1>1, Remainder, MultipleZero
<1>3. lay.vars = <<>> /\ lay.xsz = HBase /\ lay.begin_var = 0 /\ lay.begin_rec = 0 /\ old = NoLayout
  BY DEF Init
<1>4. FixVars(lay) = {}
  BY <1>3 DEF FixVars, RecVars
<1> QED
  BY <1>2, <1>3, <1>4 DEF AlignedState, AlignedLay

LEMMA AlignedNext == Aligned /\ Placed /\ AlignedState /\ [Next]_vars => AlignedState'
<1> SUFFICES ASSUME Aligned, Placed, AlignedState, [Next]_vars PROVE AlignedState'
  OBVIOUS
<1>1. /\ lay \in Layout /\ OldLayout /\ Redefined /\ AlignedLay(lay) /\ (old # NoLayout => AlignedLay(old))
      /\ InFile(lay) /\ (old # NoLayout => InFile(old)) /\ dofill \in BOOLEAN
      /\ (~indef => old = NoLayout /\ Laid(lay)) /\ numrecs \in Nat /\ numrecs <= lay.numrecs
  BY DEF Placed, AlignedState
<1>2. CASE UNCHANGED vars
  BY <1>1, <1>2 DEF vars, AlignedState
<1>3. ASSUME NEW a \in EndefArgs, NC3__enddef(a.h_minfree, a.v_align, a.v_minfree, a.r_align)
      PROVE  AlignedState'
  <2>1. AlignedLay(Begins(a).lay)
    BY <1>1, AlignedBegins
  <2>2. \/ lay' = Begins(a).lay /\ old' = NoLayout
        \/ lay' = Begins(a).lay /\ old' = old
        \/ lay' = lay /\ old' = old
    BY <1>3 DEF NC3__enddef, Begins
  <2> QED
    BY <1>1, <2>1, <2>2 DEF AlignedState
<1>4. CASE NC3_redef
  BY <1>1, <1>4 DEF NC3_redef, AlignedState
<1>5. ASSUME NEW l \in Layout, Laid(l), InFile(l), NEW n \in Nat, n <= l.numrecs, AlignedLay(l),
             Reopened(l, n)
      PROVE  AlignedState'
  <2>1. lay' = HeaderRead(l, n) /\ old' = NoLayout
    BY <1>5 DEF Reopened, HeaderRead
  <2>2. AlignedLay(HeaderRead(l, n))
    BY <1>5, HeaderReadAligned
  <2> QED
    BY <2>1, <2>2 DEF AlignedState
<1>6. CASE NC3_abort
  <2>1. old # NoLayout /\ Reopened(old, numrecs)
    BY <1>6 DEF NC3_abort
  <2>2. old \in Layout /\ Laid(old) /\ numrecs <= old.numrecs
    BY <1>1, <2>1 DEF Redefined, Redefines
  <2> QED
    BY <1>1, <1>5, <2>1, <2>2
<1>7. CASE NC3_close
  <2>1. ~indef /\ Reopened(lay, lay.numrecs)
    BY <1>7 DEF NC3_close
  <2>2. lay.numrecs \in Nat /\ lay.numrecs <= lay.numrecs
    BY <1>1, LayoutNumbers
  <2> QED
    BY <1>1, <1>5, <2>1, <2>2
<1>8. ASSUME NEW rec \in BOOLEAN, NEW size \in Sizes, NC3_def_var(rec, size)
      PROVE  AlignedState'
  <2> DEFINE v  == [rec |-> rec, size |-> size, begin |-> 0, no_fill |-> ~dofill]
             vs == Append(lay.vars, v)
             n  == Len(lay.vars)
  <2>1. lay' = [lay EXCEPT !.vars = vs] /\ old' = old
    BY <1>8 DEF NC3_def_var
  <2>2. lay.vars \in Seq(Var) /\ n \in Nat /\ DOMAIN lay.vars = 1 .. n
    <3>1. lay.vars \in Seq(Var)
      BY <1>1 DEF Layout
    <3> QED
      BY <1>1, <3>1, LayoutVars
  <2>3. v \in Var /\ v.begin = 0
    BY <1>1 DEF Var
  <2> HIDE DEF v
  <2>4. DOMAIN vs = 1 .. n + 1 /\ vs[n + 1] = v /\ \A i \in 1 .. n : vs[i] = lay.vars[i]
    BY <2>2, <2>3
  <2> HIDE DEF vs, n
  <2>5. /\ lay'.vars = vs /\ lay'.xsz = lay.xsz /\ lay'.begin_var = lay.begin_var
        /\ lay'.begin_rec = lay.begin_rec
    BY <1>1, <2>1 DEF Layout
  <2>6. ASSUME NEW i \in FixVars(lay')
        PROVE  Multiple(lay'.vars[i].begin)
    <3>1. i \in DOMAIN vs /\ ~vs[i].rec
      BY <2>5 DEF FixVars, RecVars
    <3>2. i \in 1 .. n \/ i = n + 1
      BY <2>2, <2>4, <3>1
    <3>3. CASE i \in 1 .. n
      <4>1. i \in FixVars(lay)
        BY <2>2, <2>4, <3>1, <3>3 DEF FixVars, RecVars
      <4> QED
        BY <1>1, <2>4, <2>5, <3>3, <4>1 DEF AlignedLay
    <3>4. CASE i = n + 1
      BY <2>3, <2>4, <2>5, <3>4, MultipleZero
    <3> QED
      BY <3>2, <3>3, <3>4
  <2> QED
    BY <1>1, <2>1, <2>5, <2>6 DEF AlignedState, AlignedLay
<1>9. CASE NC3_put_att
  <2>1. lay' = [lay EXCEPT !.natts = lay.natts + 1] /\ old' = old
    BY <1>9 DEF NC3_put_att
  <2>2. /\ lay'.vars = lay.vars /\ lay'.xsz = lay.xsz /\ lay'.begin_var = lay.begin_var
        /\ lay'.begin_rec = lay.begin_rec
    BY <1>1, <2>1 DEF Layout
  <2>3. FixVars(lay') = FixVars(lay)
    BY <2>2 DEF FixVars, RecVars
  <2> QED
    BY <1>1, <2>1, <2>2, <2>3 DEF AlignedState, AlignedLay
<1>10. ASSUME NEW b \in BOOLEAN, NC3_set_fill(b)
       PROVE  AlignedState'
  <2>1. lay' \in Layout /\ Alike(lay, lay')
    BY <1>1, <1>10, SetFillLay
  <2>2. AlignedLay(lay') /\ old' = old
    BY <1>1, <1>10, <2>1, AlikeAligned DEF NC3_set_fill
  <2> QED
    BY <1>1, <2>2 DEF AlignedState
<1>11. ASSUME NEW i \in DOMAIN lay.vars, NEW r \in 0 .. MaxRecs - 1, NC3_put_vara(i, r)
       PROVE  AlignedState'
  <2>1. lay' \in Layout /\ Alike(lay, lay')
    BY <1>1, <1>11, PutVaraLay
  <2>2. AlignedLay(lay') /\ old' = old
    BY <1>1, <1>11, <2>1, AlikeAligned DEF NC3_put_vara
  <2> QED
    BY <1>1, <2>2 DEF AlignedState
<1> QED
  BY <1>2, <1>3, <1>4, <1>6, <1>7, <1>8, <1>9, <1>10, <1>11 DEF Next

\* Packed records stay where they are or move by X_ALIGN at least.
LEMMA EndefFar ==
    ASSUME NEW gnu, Movable(gnu), AlignedLay(gnu), AlignedLay(old)
    PROVE  FarMoved(gnu)
<1>1. old # NoLayout /\ old \in Layout /\ gnu \in Layout
  BY NC3LayoutAssumption DEF Movable
<1>2. old.begin_rec <= gnu.begin_rec
  BY <1>1, LayoutNumbers DEF Movable, EndefAsserts
<1>3. Multiple(old.begin_rec) /\ Multiple(gnu.begin_rec)
  BY DEF AlignedLay
<1> QED
  BY <1>2, <1>3, MultiplesApart DEF FarMoved

----------------------------------------------------------------------------
(* What the file holds *)

\* A cell of the first n records, or of a fixed-size variable.
IsData(l, n, s) ==
    /\ s \in Nat \X Nat /\ IsCell(l, s[1], s[2])
    /\ l.vars[s[1]].rec => s[2] < n

FitsRecs(l, n) == n \in Nat /\ l.begin_rec + l.recsize * n <= FileSize

\* The header is whole; the cells W read as written, and F as filled.
HeaderHolds(f, l) == \A a \in 0 .. l.xsz - 1 : f[a] = Hdr

CellsHold(f, l, W, F) ==
    /\ \A s \in W : \A k \in 0 .. l.vars[s[1]].size - 1 :
          f[Offset(l, s[1], s[2]) + k] = <<s[1], s[2], k>>
    /\ \A s \in F : \A k \in 0 .. l.vars[s[1]].size - 1 :
          f[Offset(l, s[1], s[2]) + k] = Fill

\* A cell lies in the file, after the header.
LEMMA DataPlace ==
    ASSUME NEW l \in Layout, Laid(l), NEW n, FitsRecs(l, n), NEW s, IsData(l, n, s)
    PROVE  /\ Offset(l, s[1], s[2]) \in Nat /\ FillLen(l, s[1]) \in Nat
           /\ l.vars[s[1]].size \in Nat /\ l.vars[s[1]].size <= FillLen(l, s[1])
           /\ l.xsz <= Offset(l, s[1], s[2])
           /\ l.recsize * n \in Nat
           /\ Offset(l, s[1], s[2]) + FillLen(l, s[1]) <= l.begin_rec + l.recsize * n
           /\ Offset(l, s[1], s[2]) + FillLen(l, s[1]) <= FileSize
<1> DEFINE i == s[1]
           r == s[2]
           o == Offset(l, i, r)
           z == FillLen(l, i)
           p == l.recsize * n
           q == l.recsize * r
           c == l.recsize
           b == l.begin_rec
<1>1. IsCell(l, i, r) /\ (l.vars[i].rec => r < n) /\ n \in Nat /\ r \in Nat /\ b + p <= FileSize
  BY DEF IsData, IsCell, FitsRecs
<1>2. /\ o \in Nat /\ z \in Nat /\ l.vars[i].size \in Nat /\ l.vars[i].size <= z /\ l.xsz <= o
      /\ l.vars[i].rec => o + z <= b + q + c
      /\ ~l.vars[i].rec => o + z <= b
  <2> HIDE DEF i, r
  <2> QED
    BY <1>1, CellPlace
<1>3. p \in Nat /\ b \in Nat /\ c \in Nat /\ FileSize \in Nat
  BY <1>1, LayoutNumbers, ProductNat, NC3LayoutAssumption
<1>4. l.vars[i].rec => q \in Nat /\ q + c <= p
  BY <1>1, <1>3, RecordsApart
<1>5. l.vars[i].rec \in BOOLEAN
  BY <1>1, LayoutVars DEF IsCell
<1> DEFINE rec == l.vars[i].rec
<1>6. /\ rec => o + z <= b + q + c /\ q \in Nat /\ q + c <= p
      /\ ~rec => o + z <= b
  BY <1>2, <1>4
<1> HIDE DEF i, r, o, z, p, q, c, b, rec
<1>7. o + z <= b + p /\ o + z <= FileSize
  <2>1. CASE rec
    BY <1>1, <1>2, <1>3, <1>6, <2>1
  <2>2. CASE ~rec
    BY <1>1, <1>2, <1>3, <1>6, <2>2
  <2> QED
    BY <2>1, <2>2
<1> QED
  BY <1>2, <1>3, <1>7 DEF i, r, o, z, p, b

\* Byte k of a cell.
LEMMA DataByte ==
    ASSUME NEW l \in Layout, Laid(l), NEW n, FitsRecs(l, n), NEW s, IsData(l, n, s),
           NEW k \in 0 .. l.vars[s[1]].size - 1
    PROVE  /\ Offset(l, s[1], s[2]) + k \in 0 .. FileSize - 1
           /\ l.xsz <= Offset(l, s[1], s[2]) + k
           /\ Offset(l, s[1], s[2]) + k \in
                 Offset(l, s[1], s[2]) .. Offset(l, s[1], s[2]) + l.vars[s[1]].size - 1
           /\ Offset(l, s[1], s[2]) + k \in
                 Offset(l, s[1], s[2]) .. Offset(l, s[1], s[2]) + FillLen(l, s[1]) - 1
           /\ Offset(l, s[1], s[2]) + k < l.begin_rec + l.recsize * n
           /\ Offset(l, s[1], s[2]) + k - Offset(l, s[1], s[2]) = k
<1> DEFINE o == Offset(l, s[1], s[2])
           z == FillLen(l, s[1])
           d == l.vars[s[1]].size
           p == l.recsize * n
<1>1. /\ o \in Nat /\ z \in Nat /\ d \in Nat /\ d <= z /\ l.xsz <= o
      /\ p \in Nat /\ o + z <= l.begin_rec + p /\ o + z <= FileSize
  BY DataPlace
<1>2. l.xsz \in Nat /\ l.begin_rec \in Nat /\ FileSize \in Nat
  BY LayoutNumbers, NC3LayoutAssumption
<1>3. k \in Nat /\ k < d
  BY <1>1, Below
<1> HIDE DEF o, z, d, p
<1>4. /\ o + k \in 0 .. FileSize - 1 /\ l.xsz <= o + k /\ o + k \in o .. o + d - 1
      /\ o + k \in o .. o + z - 1 /\ o + k < l.begin_rec + p /\ o + k - o = k
  BY <1>1, <1>2, <1>3
<1> QED
  BY <1>4 DEF o, z, d, p

\* A byte of one cell is not a byte of another.
LEMMA BytesApart ==
    ASSUME NEW l \in Layout, Laid(l), NEW n, FitsRecs(l, n), NEW s, IsData(l, n, s),
           NEW t, IsData(l, n, t), s # t,
           NEW a \in Offset(l, s[1], s[2]) .. Offset(l, s[1], s[2]) + FillLen(l, s[1]) - 1
    PROVE  a \notin Offset(l, t[1], t[2]) .. Offset(l, t[1], t[2]) + FillLen(l, t[1]) - 1
<1> DEFINE o == Offset(l, s[1], s[2])
           z == FillLen(l, s[1])
           p == Offset(l, t[1], t[2])
           y == FillLen(l, t[1])
<1>1. o \in Nat /\ z \in Nat /\ p \in Nat /\ y \in Nat
  BY DataPlace
<1>2. s[1] # t[1] \/ s[2] # t[2]
  <2>1. s = <<s[1], s[2]>> /\ t = <<t[1], t[2]>>
    BY DEF IsData
  <2> QED
    BY <2>1
<1>3. IsCell(l, s[1], s[2]) /\ IsCell(l, t[1], t[2])
  BY DEF IsData
<1>4. o + z <= p \/ p + y <= o
  BY <1>2, <1>3, CellsApart
<1>5. a \in o .. o + z - 1
  OBVIOUS
<1> HIDE DEF o, z, p, y
<1>6. a \notin p .. p + y - 1
  BY <1>1, <1>4, <1>5
<1> QED
  BY <1>6 DEF p, y

\* The header is written before every cell.
LEMMA HeaderKeeps ==
    ASSUME NEW l \in Layout, Laid(l), l.xsz <= FileSize, NEW n, FitsRecs(l, n),
           NEW V, NEW f \in [0 .. FileSize - 1 -> V],
           NEW W, NEW F, \A s \in W \cup F : IsData(l, n, s), CellsHold(f, l, W, F)
    PROVE  /\ HeaderHolds(HeaderWritten(f, l), l)
           /\ CellsHold(HeaderWritten(f, l), l, W, F)
<1> DEFINE h == HeaderWritten(f, l)
<1>1. FileSize \in Nat /\ l.xsz \in Nat
  BY NC3LayoutAssumption, LayoutNumbers
<1>2. \A a \in 0 .. FileSize - 1 : h[a] = IF a < l.xsz THEN Hdr ELSE f[a]
  BY DEF HeaderWritten
<1> HIDE DEF h, Hdr
<1>3. ASSUME NEW a \in 0 .. l.xsz - 1
      PROVE  h[a] = Hdr
  <2>1. a \in 0 .. FileSize - 1 /\ a < l.xsz
    BY <1>1
  <2> QED
    BY <1>2, <2>1
<1>4. ASSUME NEW s \in W \cup F, NEW k \in 0 .. l.vars[s[1]].size - 1
      PROVE  h[Offset(l, s[1], s[2]) + k] = f[Offset(l, s[1], s[2]) + k]
  <2> DEFINE a == Offset(l, s[1], s[2]) + k
  <2>1. a \in 0 .. FileSize - 1 /\ l.xsz <= a
    BY DataByte
  <2> HIDE DEF a
  <2>2. ~(a < l.xsz)
    BY <1>1, <2>1
  <2>3. h[a] = f[a]
    BY <1>2, <2>1, <2>2
  <2> QED
    BY <2>3 DEF a
<1>5. HeaderHolds(h, l)
  BY <1>3 DEF HeaderHolds
<1>6. CellsHold(h, l, W, F)
  BY <1>4 DEF CellsHold
<1> QED
  BY <1>5, <1>6 DEF h

\* Cells are filled that were not written.
LEMMA FillKeeps ==
    ASSUME NEW l \in Layout, Laid(l), l.xsz <= FileSize, NEW n, FitsRecs(l, n),
           NEW V, NEW f \in [0 .. FileSize - 1 -> V],
           NEW W, NEW F, NEW S, \A s \in W \cup F \cup S : IsData(l, n, s),
           \A s \in S : s \notin W,
           HeaderHolds(f, l), CellsHold(f, l, W, F)
    PROVE  /\ HeaderHolds(Filled(f, l, S), l)
           /\ CellsHold(Filled(f, l, S), l, W, F \cup S)
<1> DEFINE h == Filled(f, l, S)
           cells(s) == Offset(l, s[1], s[2]) .. Offset(l, s[1], s[2]) + FillLen(l, s[1]) - 1
<1>1. FileSize \in Nat /\ l.xsz \in Nat
  BY NC3LayoutAssumption, LayoutNumbers
<1>2. \A a \in 0 .. FileSize - 1 : h[a] = IF \E s \in S : a \in cells(s) THEN Fill ELSE f[a]
  BY DEF Filled
<1> HIDE DEF h, Fill, Hdr
<1>3. ASSUME NEW a \in 0 .. l.xsz - 1
      PROVE  h[a] = Hdr
  <2>1. a \in 0 .. FileSize - 1 /\ a < l.xsz
    BY <1>1
  <2>2. ASSUME NEW s \in S
        PROVE  a \notin cells(s)
    <3> DEFINE o == Offset(l, s[1], s[2])
               z == FillLen(l, s[1])
    <3>1. o \in Nat /\ z \in Nat /\ l.xsz <= o
      BY DataPlace
    <3> HIDE DEF o, z
    <3>2. a \notin o .. o + z - 1
      BY <1>1, <2>1, <3>1
    <3> QED
      BY <3>2 DEF o, z
  <2>3. h[a] = f[a]
    BY <1>2, <2>1, <2>2
  <2> QED
    BY <2>3 DEF HeaderHolds
<1>4. ASSUME NEW s \in W \cup F \cup S, NEW k \in 0 .. l.vars[s[1]].size - 1
      PROVE  /\ s \in S => h[Offset(l, s[1], s[2]) + k] = Fill
             /\ s \notin S => h[Offset(l, s[1], s[2]) + k] = f[Offset(l, s[1], s[2]) + k]
  <2> DEFINE a == Offset(l, s[1], s[2]) + k
  <2>1. a \in 0 .. FileSize - 1 /\ a \in cells(s)
    BY DataByte
  <2>2. ASSUME NEW t \in S, s # t
        PROVE  a \notin cells(t)
    <3>1. IsData(l, n, s) /\ IsData(l, n, t)
      OBVIOUS
    <3> HIDE DEF a
    <3> QED
      BY <2>1, <2>2, <3>1, BytesApart
  <2> HIDE DEF a, cells
  <2>3. s \in S => h[a] = Fill
    BY <1>2, <2>1
  <2>4. s \notin S => h[a] = f[a]
    BY <1>2, <2>1, <2>2
  <2> QED
    BY <2>3, <2>4 DEF a
<1>5. HeaderHolds(h, l)
  BY <1>3 DEF HeaderHolds
<1>6. CellsHold(h, l, W, F \cup S)
  <2>1. ASSUME NEW s \in W, NEW k \in 0 .. l.vars[s[1]].size - 1
        PROVE  h[Offset(l, s[1], s[2]) + k] = <<s[1], s[2], k>>
    BY <1>4 DEF CellsHold
  <2>2. ASSUME NEW s \in F \cup S, NEW k \in 0 .. l.vars[s[1]].size - 1
        PROVE  h[Offset(l, s[1], s[2]) + k] = Fill
    BY <1>4 DEF CellsHold
  <2> QED
    BY <2>1, <2>2 DEF CellsHold
<1> QED
  BY <1>5, <1>6 DEF h

\* NC3_put_vara writes one cell.
CellWritten(f, l, i, r) ==
    [a \in DOMAIN f |-> IF a \in Offset(l, i, r) .. Offset(l, i, r) + l.vars[i].size - 1
                        THEN <<i, r, a - Offset(l, i, r)>> ELSE f[a]]

LEMMA WriteKeeps ==
    ASSUME NEW l \in Layout, Laid(l), l.xsz <= FileSize, NEW n, FitsRecs(l, n),
           NEW V, NEW f \in [0 .. FileSize - 1 -> V],
           NEW W, NEW F, NEW i, NEW r, \A s \in W \cup F \cup {<<i, r>>} : IsData(l, n, s),
           HeaderHolds(f, l), CellsHold(f, l, W, F)
    PROVE  /\ HeaderHolds(CellWritten(f, l, i, r), l)
           /\ CellsHold(CellWritten(f, l, i, r), l, W \cup {<<i, r>>}, F \ {<<i, r>>})
<1> DEFINE h == CellWritten(f, l, i, r)
           e == <<i, r>>
           o == Offset(l, i, r)
           d == l.vars[i].size
           z == FillLen(l, i)
<1>1. FileSize \in Nat /\ l.xsz \in Nat /\ e[1] = i /\ e[2] = r /\ IsData(l, n, e)
  BY NC3LayoutAssumption, LayoutNumbers
<1>2. \A a \in 0 .. FileSize - 1 : h[a] = IF a \in o .. o + d - 1 THEN <<i, r, a - o>> ELSE f[a]
  BY DEF CellWritten
<1>3. o \in Nat /\ z \in Nat /\ d \in Nat /\ d <= z /\ l.xsz <= o
  <2> HIDE DEF e
  <2> QED
    BY <1>1, DataPlace
<1> HIDE DEF h, Fill, Hdr
<1>4. ASSUME NEW a \in 0 .. l.xsz - 1
      PROVE  h[a] = Hdr
  <2> HIDE DEF o, d, z
  <2>1. a \in 0 .. FileSize - 1 /\ a \notin o .. o + d - 1
    BY <1>1, <1>3
  <2>2. h[a] = f[a]
    BY <1>2, <2>1
  <2> QED
    BY <2>2 DEF HeaderHolds
<1>5. ASSUME NEW s \in W \cup F, s # e, NEW k \in 0 .. l.vars[s[1]].size - 1
      PROVE  h[Offset(l, s[1], s[2]) + k] = f[Offset(l, s[1], s[2]) + k]
  <2> DEFINE a == Offset(l, s[1], s[2]) + k
  <2>1. a \in 0 .. FileSize - 1
        /\ a \in Offset(l, s[1], s[2]) .. Offset(l, s[1], s[2]) + FillLen(l, s[1]) - 1
    BY DataByte
  <2>2. a \notin Offset(l, e[1], e[2]) .. Offset(l, e[1], e[2]) + FillLen(l, e[1]) - 1
    <3>1. IsData(l, n, s)
      OBVIOUS
    <3> HIDE DEF a, e
    <3> QED
      BY <1>1, <1>5, <2>1, <3>1, BytesApart
  <2> HIDE DEF a, e
  <2>3. a \notin o .. o + z - 1
    BY <1>1, <2>2
  <2> HIDE DEF o, d, z
  <2>4. a \notin o .. o + d - 1
    BY <1>3, <2>1, <2>3
  <2>5. h[a] = f[a]
    BY <1>2, <2>1, <2>4
  <2> QED
    BY <2>5 DEF a
<1>6. ASSUME NEW k \in 0 .. d - 1
      PROVE  h[o + k] = <<i, r, k>>
  <2>1. o + k \in 0 .. FileSize - 1 /\ o + k \in o .. o + d - 1 /\ o + k - o = k
    <3>1. k \in 0 .. l.vars[e[1]].size - 1
      BY <1>1
    <3> HIDE DEF e
    <3>2. /\ Offset(l, e[1], e[2]) + k \in 0 .. FileSize - 1
          /\ Offset(l, e[1], e[2]) + k \in
                Offset(l, e[1], e[2]) .. Offset(l, e[1], e[2]) + l.vars[e[1]].size - 1
          /\ Offset(l, e[1], e[2]) + k - Offset(l, e[1], e[2]) = k
      BY <1>1, <3>1, DataByte
    <3> QED
      BY <1>1, <3>2
  <2> HIDE DEF o, d
  <2> DEFINE a == o + k
  <2>2. a \in 0 .. FileSize - 1 /\ a \in o .. o + d - 1 /\ a - o = k
    BY <1>1, <1>3, <2>1
  <2> HIDE DEF a
  <2>3. h[a] = <<i, r, a - o>>
    BY <1>2, <2>2
  <2>4. h[a] = <<i, r, k>>
    BY <2>2, <2>3
  <2> QED
    BY <2>4 DEF a
<1>7. HeaderHolds(h, l)
  BY <1>4 DEF HeaderHolds
<1>8. CellsHold(h, l, W \cup {e}, F \ {e})
  <2>1. ASSUME NEW s \in W \cup {e}, NEW k \in 0 .. l.vars[s[1]].size - 1
        PROVE  h[Offset(l, s[1], s[2]) + k] = <<s[1], s[2], k>>
    <3>1. CASE s = e
      BY <1>1, <1>6, <3>1
    <3>2. CASE s # e
      <4>1. s \in W /\ s \in W \cup F
        BY <3>2
      <4> QED
        BY <1>5, <3>2, <4>1 DEF CellsHold
    <3> QED
      BY <3>1, <3>2
  <2>2. ASSUME NEW s \in F \ {e}, NEW k \in 0 .. l.vars[s[1]].size - 1
        PROVE  h[Offset(l, s[1], s[2]) + k] = Fill
    BY <1>5 DEF CellsHold
  <2> HIDE DEF e
  <2> QED
    BY <2>1, <2>2 DEF CellsHold
<1> QED
  BY <1>7, <1>8 DEF h, e

\* The cells of the old layout are moved to their places in the new one.
LEMMA MoveKeeps ==
    ASSUME NEW gnu, Movable(gnu), FarMoved(gnu), NEW V, NEW f \in [0 .. FileSize - 1 -> V],
           NEW W, NEW F, \A s \in W \cup F : IsData(old, old.numrecs, s), CellsHold(f, old, W, F)
    PROVE  /\ \A s \in W \cup F : IsData(gnu, gnu.numrecs, s) /\ s[1] <= Len(old.vars)
           /\ CellsHold(Moved(f, gnu), gnu, W, F)
<1> DEFINE h == Moved(f, gnu)
<1>1. gnu.numrecs = old.numrecs /\ old \in Layout
  BY DEF Movable
<1>2. \A i, r : IsCell(old, i, r) /\ (old.vars[i].rec => r < old.numrecs) =>
         \A k \in 0 .. old.vars[i].size - 1 : h[Offset(gnu, i, r) + k] = f[Offset(old, i, r) + k]
  <2>1. CellsCarried(h, f, gnu)
    BY AllMoved
  <2> HIDE DEF h
  <2> QED
    BY <2>1 DEF CellsCarried
<1> HIDE DEF h, Fill
<1>3. ASSUME NEW s \in W \cup F
      PROVE  /\ IsData(gnu, gnu.numrecs, s) /\ s[1] <= Len(old.vars)
             /\ gnu.vars[s[1]].size = old.vars[s[1]].size
             /\ \A k \in 0 .. old.vars[s[1]].size - 1 :
                   h[Offset(gnu, s[1], s[2]) + k] = f[Offset(old, s[1], s[2]) + k]
  <2>1. /\ s \in Nat \X Nat /\ IsCell(old, s[1], s[2]) /\ (old.vars[s[1]].rec => s[2] < old.numrecs)
    BY DEF IsData
  <2> DEFINE i == s[1]
             r == s[2]
  <2>2. i \in 1 .. Len(old.vars) /\ r \in Nat
    BY <2>1 DEF IsCell
  <2> HIDE DEF i, r
  <2>3. /\ gnu.vars[i].rec = old.vars[i].rec /\ gnu.vars[i].size = old.vars[i].size
        /\ IsCell(old, i, r) <=> IsCell(gnu, i, r)
    BY <2>2, OldCell
  <2>4. i <= Len(old.vars)
    BY <1>1, <2>2, LayoutVars
  <2>5. IsData(gnu, gnu.numrecs, s)
    BY <1>1, <2>1, <2>3 DEF IsData, i, r
  <2>6. \A k \in 0 .. old.vars[i].size - 1 : h[Offset(gnu, i, r) + k] = f[Offset(old, i, r) + k]
    BY <1>2, <2>1 DEF i, r
  <2> QED
    BY <2>3, <2>4, <2>5, <2>6 DEF i, r
<1>4. CellsHold(h, gnu, W, F)
  <2>1. ASSUME NEW s \in W, NEW k \in 0 .. gnu.vars[s[1]].size - 1
        PROVE  h[Offset(gnu, s[1], s[2]) + k] = <<s[1], s[2], k>>
    BY <1>3 DEF CellsHold
  <2>2. ASSUME NEW s \in F, NEW k \in 0 .. gnu.vars[s[1]].size - 1
        PROVE  h[Offset(gnu, s[1], s[2]) + k] = Fill
    BY <1>3 DEF CellsHold
  <2> QED
    BY <2>1, <2>2 DEF CellsHold
<1> QED
  BY <1>3, <1>4 DEF h

\* The cells that NC_endef fills belong to the variables that are new.
LEMMA EndefFills ==
    ASSUME NEW l \in Layout, OldLayout, old # NoLayout => l.numrecs = old.numrecs,
           NEW s \in FilledByEndef(l)
    PROVE  /\ IsData(l, l.numrecs, s)
           /\ old # NoLayout => s[1] > Len(old.vars)
<1> DEFINE first == IF old = NoLayout THEN 1 ELSE Len(old.vars) + 1
           new   == {i \in first .. Len(l.vars) : ~l.vars[i].no_fill}
           nrecs == IF old = NoLayout THEN 0 ELSE old.numrecs
<1>1. \/ s \in {<<i, 0>> : i \in new \cap FixVars(l)}
      \/ s \in (new \cap RecVars(l)) \X (0 .. nrecs - 1)
  BY DEF FilledByEndef
<1>2. Len(l.vars) \in Nat /\ (old # NoLayout => Len(old.vars) \in Nat /\ old.numrecs \in Nat)
  BY LayoutVars, LayoutNumbers DEF OldLayout
<1>3. first \in Nat /\ first >= 1 /\ nrecs \in Nat /\ (old # NoLayout => first > Len(old.vars))
  BY <1>2
<1>4. (old # NoLayout => nrecs = l.numrecs) /\ (old = NoLayout => nrecs = 0)
  BY DEF OldLayout
<1> HIDE DEF first, nrecs
<1>5. ASSUME NEW i \in new
      PROVE  i \in 1 .. Len(l.vars) /\ i \in Nat /\ (old # NoLayout => i > Len(old.vars))
  BY <1>2, <1>3
<1> HIDE DEF new
<1>6. CASE s \in {<<i, 0>> : i \in new \cap FixVars(l)}
  <2>1. PICK i \in new \cap FixVars(l) : s = <<i, 0>>
    BY <1>6
  <2>2. s \in Nat \X Nat /\ s[1] = i /\ s[2] = 0 /\ i \in 1 .. Len(l.vars)
    BY <1>5, <2>1
  <2>3. ~l.vars[i].rec
    BY VarSets
  <2> QED
    BY <1>5, <2>2, <2>3 DEF IsData, IsCell
<1>7. CASE s \in (new \cap RecVars(l)) \X (0 .. nrecs - 1)
  <2>1. s[1] \in new /\ s[1] \in RecVars(l) /\ s[2] \in 0 .. nrecs - 1 /\ s = <<s[1], s[2]>>
    BY <1>7
  <2>2. s[2] \in Nat /\ s[2] < nrecs
    BY <1>3, <2>1, Below
  <2>3. s \in Nat \X Nat /\ s[1] \in 1 .. Len(l.vars) /\ l.vars[s[1]].rec
    BY <1>5, <2>1, <2>2, VarSets
  <2>4. s[2] < l.numrecs
    <3>1. nrecs # 0
      BY <1>3, <2>2
    <3> QED
      BY <1>4, <2>2, <3>1
  <2> QED
    BY <1>5, <2>1, <2>2, <2>3, <2>4 DEF IsData, IsCell
<1> QED
  BY <1>1, <1>6, <1>7

\* The records that NCvnrecs adds are new ones.
LEMMA AddedCells ==
    ASSUME lay \in Layout, NEW r \in Nat, NEW n \in Nat, r < n, NEW s \in Added(r)
    PROVE  IsData(lay, n, s) /\ ~IsData(lay, lay.numrecs, s)
<1>1. s \in RecVars(lay) \X (lay.numrecs .. r)
  BY DEF Added
<1>2. s[1] \in RecVars(lay) /\ s[2] \in lay.numrecs .. r /\ s = <<s[1], s[2]>>
  BY <1>1
<1>3. lay.numrecs \in Nat /\ Len(lay.vars) \in Nat
  BY LayoutNumbers, LayoutVars
<1>4. s[1] \in 1 .. Len(lay.vars) /\ lay.vars[s[1]].rec
  BY <1>2, VarSets
<1>5. s[2] \in Nat /\ s[2] < n /\ ~(s[2] < lay.numrecs)
  BY <1>2, <1>3
<1>6. s \in Nat \X Nat
  BY <1>2, <1>3, <1>4, <1>5
<1> QED
  BY <1>4, <1>5, <1>6 DEF IsData, IsCell

\* What is left of the cells S after the dataset was opened with n records.
Kept(S, l, n) == {s \in S : l.vars[s[1]].rec => s[2] < n}

FileCut(f, c, n) ==
    [a \in DOMAIN f |-> IF a < c.begin_rec + n * c.recsize THEN f[a] ELSE Hole]

\* Nothing that is kept lies after the end of the last record.
LEMMA CutKeeps ==
    ASSUME NEW l \in Layout, Laid(l), InFile(l), NEW n \in Nat, n <= l.numrecs,
           NEW V, NEW f \in [0 .. FileSize - 1 -> V],
           NEW W, NEW F, \A s \in W \cup F : IsData(l, l.numrecs, s),
           HeaderHolds(f, l), CellsHold(f, l, W, F)
    PROVE  /\ \A s \in Kept(W, l, n) \cup Kept(F, l, n) : IsData(HeaderRead(l, n), n, s)
           /\ HeaderHolds(FileCut(f, HeaderRead(l, n), n), HeaderRead(l, n))
           /\ CellsHold(FileCut(f, HeaderRead(l, n), n), HeaderRead(l, n),
                        Kept(W, l, n), Kept(F, l, n))
<1> DEFINE c == HeaderRead(l, n)
           h == FileCut(f, c, n)
           p == c.recsize * n
           K == Kept(W, l, n) \cup Kept(F, l, n)
<1>1. /\ c \in Layout /\ Laid(c) /\ InFile(c) /\ c.numrecs = n /\ c.xsz = l.xsz
      /\ l.xsz <= c.begin_rec /\ SamePlaces(l, c)
  BY HeaderReadPlaces
<1> HIDE DEF c
<1>2. c.begin_rec \in Nat /\ c.recsize \in Nat /\ l.xsz \in Nat /\ FileSize \in Nat /\ l.xsz <= FileSize
  BY <1>1, LayoutNumbers, NC3LayoutAssumption DEF InFile
<1>3. p \in Nat /\ n * c.recsize = p
  BY <1>2, ProductNat
<1>4. FitsRecs(c, n)
  BY <1>1 DEF FitsRecs, InFile
<1>5. \A a \in 0 .. FileSize - 1 : a < c.begin_rec + p => h[a] = f[a]
  BY <1>3 DEF FileCut
<1> HIDE DEF h, Fill, Hdr
<1>6. ASSUME NEW a \in 0 .. c.xsz - 1
      PROVE  h[a] = Hdr
  <2>1. a \in 0 .. l.xsz - 1 /\ a \in 0 .. FileSize - 1
    BY <1>1, <1>2
  <2> HIDE DEF p
  <2>2. a < c.begin_rec + p
    BY <1>1, <1>2, <1>3, <2>1
  <2> QED
    BY <1>5, <2>1, <2>2 DEF HeaderHolds
<1>7. ASSUME NEW s \in K
      PROVE  /\ IsData(c, n, s)
             /\ c.vars[s[1]].size = l.vars[s[1]].size
             /\ Offset(c, s[1], s[2]) = Offset(l, s[1], s[2])
  <2>1. IsData(l, l.numrecs, s) /\ (l.vars[s[1]].rec => s[2] < n)
    BY DEF Kept
  <2> DEFINE i == s[1]
             r == s[2]
  <2>2. i \in 1 .. Len(l.vars) /\ r \in Nat /\ (l.vars[i].rec \/ r = 0) /\ s \in Nat \X Nat
    BY <2>1 DEF IsData, IsCell
  <2>3. /\ Len(c.vars) = Len(l.vars) /\ c.vars[i].rec = l.vars[i].rec /\ c.vars[i].size = l.vars[i].size
        /\ c.vars[i].begin = l.vars[i].begin
    BY <1>1, <2>2 DEF SamePlaces, SameShapes
  <2>4. IsData(c, n, s)
    BY <2>1, <2>2, <2>3 DEF IsData, IsCell
  <2>5. l.vars[i].rec => c.recsize = l.recsize
    BY <1>1, <2>2, VarSets DEF SamePlaces
  <2>6. Offset(c, i, r) = Offset(l, i, r)
    BY <2>3, <2>5 DEF Offset
  <2> QED
    BY <2>3, <2>4, <2>6
<1>8. ASSUME NEW s \in K, NEW k \in 0 .. c.vars[s[1]].size - 1
      PROVE  h[Offset(c, s[1], s[2]) + k] = f[Offset(l, s[1], s[2]) + k]
  <2> DEFINE a == Offset(c, s[1], s[2]) + k
  <2>1. IsData(c, n, s)
    BY <1>7
  <2>2. a \in 0 .. FileSize - 1 /\ a < c.begin_rec + p
    BY <1>1, <1>4, <2>1, DataByte
  <2> HIDE DEF a, p
  <2>3. h[a] = f[a]
    BY <1>5, <2>2
  <2>4. Offset(c, s[1], s[2]) = Offset(l, s[1], s[2])
    BY <1>7
  <2> QED
    BY <2>3, <2>4 DEF a
<1>9. CellsHold(h, c, Kept(W, l, n), Kept(F, l, n))
  <2>1. ASSUME NEW s \in Kept(W, l, n), NEW k \in 0 .. c.vars[s[1]].size - 1
        PROVE  h[Offset(c, s[1], s[2]) + k] = <<s[1], s[2], k>>
    <3>1. s \in K /\ s \in W
      BY DEF Kept
    <3>2. k \in 0 .. l.vars[s[1]].size - 1
      BY <1>7, <3>1
    <3>3. f[Offset(l, s[1], s[2]) + k] = <<s[1], s[2], k>>
      BY <3>1, <3>2 DEF CellsHold
    <3> QED
      BY <1>8, <3>1, <3>3
  <2>2. ASSUME NEW s \in Kept(F, l, n), NEW k \in 0 .. c.vars[s[1]].size - 1
        PROVE  h[Offset(c, s[1], s[2]) + k] = Fill
    <3>1. s \in K /\ s \in F
      BY DEF Kept
    <3>2. k \in 0 .. l.vars[s[1]].size - 1
      BY <1>7, <3>1
    <3>3. f[Offset(l, s[1], s[2]) + k] = Fill
      BY <3>1, <3>2 DEF CellsHold
    <3> QED
      BY <1>8, <3>1, <3>3
  <2> QED
    BY <2>1, <2>2 DEF CellsHold
<1>10. HeaderHolds(h, c)
  BY <1>6 DEF HeaderHolds
<1> QED
  BY <1>7, <1>9, <1>10 DEF c, h

\* What holds of a layout holds of one with the same offsets.
LEMMA AlikeHolds ==
    ASSUME NEW l \in Layout, NEW m \in Layout, Alike(l, m), NEW n, NEW f, NEW W, NEW F,
           \A s \in W \cup F : IsData(l, n, s), HeaderHolds(f, l), CellsHold(f, l, W, F)
    PROVE  /\ \A s \in W \cup F : IsData(m, n, s)
           /\ HeaderHolds(f, m) /\ CellsHold(f, m, W, F)
<1>1. ASSUME NEW s \in W \cup F
      PROVE  /\ IsData(m, n, s) /\ m.vars[s[1]].size = l.vars[s[1]].size
             /\ Offset(m, s[1], s[2]) = Offset(l, s[1], s[2])
  <2>1. s[1] \in 1 .. Len(l.vars) /\ s[2] \in Nat /\ IsCell(l, s[1], s[2]) /\ IsData(l, n, s)
    BY DEF IsData, IsCell
  <2> DEFINE i == s[1]
             r == s[2]
  <2>2. IsCell(m, i, r) /\ Offset(m, i, r) = Offset(l, i, r)
    <3>1. i \in 1 .. Len(l.vars) /\ r \in Nat /\ IsCell(l, i, r)
      BY <2>1
    <3> HIDE DEF i, r
    <3> QED
      BY <3>1, AlikeCells
  <2>3. m.vars[i].rec = l.vars[i].rec /\ m.vars[i].size = l.vars[i].size
    BY <2>1 DEF Alike, SameShapes
  <2> QED
    BY <2>1, <2>2, <2>3 DEF IsData
<1>2. HeaderHolds(f, m)
  BY DEF HeaderHolds, Alike
<1>3. CellsHold(f, m, W, F)
  BY <1>1 DEF CellsHold
<1> QED
  BY <1>1, <1>2, <1>3

\* The layout that the file follows: the old one during a redefinition.
InUse == IF old = NoLayout THEN lay ELSE old

\* The invariant: before the first nc_enddef there is no data; after it the file
\* holds the header and every cell that was written or filled.
Intact ==
    /\ indef /\ old = NoLayout => written = {} /\ filled = {}
    /\ ~(indef /\ old = NoLayout) =>
          /\ \A s \in written \cup filled : IsData(InUse, InUse.numrecs, s)
          /\ HeaderHolds(file, InUse) /\ CellsHold(file, InUse, written, filled)

LEMMA IntactInit == Init => Intact
<1> QED
  BY DEF Init, Intact

\* The layout that nc_enddef makes holds what was moved to it, and its fills.
LEMMA IntactEndef ==
    ASSUME Aligned, Placed, AlignedState, Intact, NEW a \in EndefArgs,
           NC3__enddef(a.h_minfree, a.v_align, a.v_minfree, a.r_align)
    PROVE  Intact'
<1> DEFINE b   == Begins(a)
           gnu == Begins(a).lay
           new == FilledByEndef(gnu)
           f   == Moved(file, gnu)
           h   == HeaderWritten(f, gnu)
<1>1. indef = TRUE /\ InFile(gnu)
  BY DEF NC3__enddef, Begins, Placed
<1>2. /\ lay \in Layout /\ OldLayout /\ Redefined /\ AlignedLay(lay)
      /\ (old # NoLayout => AlignedLay(old)) /\ file \in [0 .. FileSize - 1 -> Bytes]
  BY DEF Placed, AlignedState
<1>3. gnu \in Layout /\ AlignedLay(gnu)
  BY <1>2, BeginsResult, AlignedBegins
<1>4. gnu.xsz <= FileSize /\ FitsRecs(gnu, gnu.numrecs)
  <2> HIDE DEF gnu
  <2>1. gnu.xsz \in 0 .. FileSize /\ gnu.begin_rec + gnu.recsize * gnu.numrecs <= FileSize
    BY <1>1 DEF InFile
  <2>2. gnu.numrecs \in Nat /\ FileSize \in Nat
    BY <1>3, LayoutNumbers, NC3LayoutAssumption
  <2> QED
    BY <2>1, <2>2 DEF FitsRecs
<1>5. CASE /\ b.status = "NOERR" /\ NC_check_voffs(gnu) /\ EndefAsserts(gnu)
           /\ lay' = gnu
           /\ file' = Filled(h, gnu, new)
           /\ filled' = filled \cup new
           /\ indef' = FALSE /\ old' = NoLayout /\ written' = written
  <2>1. Laid(gnu) /\ (old # NoLayout => Movable(gnu))
    BY <1>1, <1>2, <1>5, EndefLaid
  <2>2. /\ f \in [0 .. FileSize - 1 -> Bytes] /\ CellsHold(f, gnu, written, filled)
        /\ \A s \in written \cup filled : IsData(gnu, gnu.numrecs, s)
        /\ old # NoLayout => \A s \in written : s[1] <= Len(old.vars)
    <3>1. CASE old = NoLayout
      <4>1. written = {} /\ filled = {}
        BY <1>1, <3>1 DEF Intact
      <4>2. f = file
        BY <3>1 DEF Moved
      <4> QED
        BY <1>2, <3>1, <4>1, <4>2 DEF CellsHold
    <3>2. CASE old # NoLayout
      <4>1. Movable(gnu) /\ FarMoved(gnu)
        BY <1>2, <1>3, <2>1, <3>2, EndefFar
      <4>2. /\ \A s \in written \cup filled : IsData(old, old.numrecs, s)
            /\ CellsHold(file, old, written, filled)
        BY <3>2 DEF Intact, InUse
      <4> HIDE DEF gnu
      <4>3. /\ \A s \in written \cup filled : IsData(gnu, gnu.numrecs, s) /\ s[1] <= Len(old.vars)
            /\ CellsHold(f, gnu, written, filled)
        BY <1>2, <4>1, <4>2, MoveKeeps
      <4>4. f \in [0 .. FileSize - 1 -> Bytes]
        BY <1>2, <4>1, AllMoved
      <4> QED
        BY <4>3, <4>4
    <3> QED
      BY <3>1, <3>2
  <2>3. ASSUME NEW s \in new
        PROVE  IsData(gnu, gnu.numrecs, s) /\ s \notin written
    <3>1. old # NoLayout => gnu.numrecs = old.numrecs
      BY <2>1 DEF Movable
    <3> HIDE DEF gnu
    <3>2. IsData(gnu, gnu.numrecs, s) /\ (old # NoLayout => s[1] > Len(old.vars))
      BY <1>2, <1>3, <3>1, EndefFills
    <3>3. CASE old = NoLayout
      BY <1>1, <3>2, <3>3 DEF Intact
    <3>4. CASE old # NoLayout
      <4>1. s[1] \in Nat /\ Len(old.vars) \in Nat
        BY <1>2, <3>2, <3>4, LayoutVars DEF IsData, OldLayout
      <4>2. ~(s[1] <= Len(old.vars))
        BY <3>2, <3>4, <4>1
      <4> QED
        BY <2>2, <3>2, <3>4, <4>2
    <3> QED
      BY <3>3, <3>4
  <2> HIDE DEF b, gnu, new, f
  <2>4. HeaderHolds(h, gnu) /\ CellsHold(h, gnu, written, filled)
    BY <1>3, <1>4, <2>1, <2>2, HeaderKeeps
  <2>5. h \in [0 .. FileSize - 1 -> Bytes]
    BY <2>2, FileType
  <2> HIDE DEF h
  <2>6. \A s \in written \cup filled \cup new : IsData(gnu, gnu.numrecs, s)
    BY <2>2, <2>3
  <2>7. HeaderHolds(file', gnu) /\ CellsHold(file', gnu, written, filled \cup new)
    BY <1>3, <1>4, <1>5, <2>1, <2>3, <2>4, <2>5, <2>6, FillKeeps
  <2>8. InUse' = gnu
    BY <1>5 DEF InUse
  <2> QED
    BY <1>5, <2>6, <2>7, <2>8 DEF Intact
<1>6. CASE UNCHANGED <<indef, old, file, written, filled>>
  <2>1. old # NoLayout => InUse' = InUse
    BY <1>6 DEF InUse
  <2> QED
    BY <1>1, <1>6, <2>1 DEF Intact
<1> QED
  BY <1>5, <1>6 DEF NC3__enddef, Begins

\* Opening the dataset again loses only records that are not in the header.
LEMMA IntactReopened ==
    ASSUME Placed, Intact, InUse \in Layout, Laid(InUse), InFile(InUse),
           ~(indef /\ old = NoLayout), NEW n \in Nat, n <= InUse.numrecs, Reopened(InUse, n)
    PROVE  Intact'
<1> DEFINE l == InUse
           c == HeaderRead(InUse, n)
<1>1. file \in [0 .. FileSize - 1 -> Bytes]
  BY DEF Placed
<1>2. /\ \A s \in written \cup filled : IsData(l, l.numrecs, s)
      /\ HeaderHolds(file, l) /\ CellsHold(file, l, written, filled)
  BY DEF Intact
<1>3. /\ indef' = FALSE /\ lay' = c /\ old' = NoLayout
      /\ file' = FileCut(file, c, n)
      /\ written' = Kept(written, l, n) /\ filled' = Kept(filled, l, n)
  BY DEF Reopened, HeaderRead, FileCut, Kept
<1>4. c.numrecs = n
  BY HeaderReadPlaces
<1> HIDE DEF l
<1>5. l \in Layout /\ Laid(l) /\ InFile(l) /\ n <= l.numrecs /\ c = HeaderRead(l, n)
  BY DEF l
<1> HIDE DEF c
<1>6. /\ \A s \in written' \cup filled' : IsData(c, n, s)
      /\ HeaderHolds(file', c) /\ CellsHold(file', c, written', filled')
  BY <1>1, <1>2, <1>3, <1>5, CutKeeps
<1>7. InUse' = c
  BY <1>3 DEF InUse
<1> QED
  BY <1>3, <1>4, <1>6, <1>7 DEF Intact

LEMMA IntactAbort ==
    ASSUME Placed, Intact, NC3_abort
    PROVE  Intact'
<1>1. old # NoLayout /\ Reopened(old, numrecs)
  BY DEF NC3_abort
<1>2. old \in Layout /\ Laid(old) /\ InFile(old) /\ numrecs \in Nat /\ numrecs <= old.numrecs
  BY <1>1 DEF Placed, Redefined, Redefines
<1>3. InUse = old
  BY <1>1 DEF InUse
<1> QED
  BY <1>1, <1>2, <1>3, IntactReopened

LEMMA IntactClose ==
    ASSUME Placed, Intact, NC3_close
    PROVE  Intact'
<1>1. ~indef /\ Reopened(lay, lay.numrecs)
  BY DEF NC3_close
<1>2. old = NoLayout /\ lay \in Layout /\ Laid(lay) /\ InFile(lay)
  BY <1>1 DEF Placed
<1>3. InUse = lay /\ lay.numrecs \in Nat /\ lay.numrecs <= lay.numrecs
  BY <1>2, LayoutNumbers DEF InUse
<1> QED
  BY <1>1, <1>2, <1>3, IntactReopened

\* A definition changes nothing in the file.
LEMMA IntactDefine ==
    ASSUME Intact, indef, UNCHANGED <<indef, old, file, written, filled>>
    PROVE  Intact'
<1>1. old # NoLayout => InUse' = InUse
  BY DEF InUse
<1> QED
  BY <1>1 DEF Intact

LEMMA IntactSetFill ==
    ASSUME Placed, Intact, NEW b \in BOOLEAN, NC3_set_fill(b)
    PROVE  Intact'
<1>1. UNCHANGED <<indef, old, file, written, filled>>
  BY DEF NC3_set_fill
<1>2. CASE indef
  BY <1>1, <1>2, IntactDefine
<1>3. CASE ~indef
  <2>1. old = NoLayout /\ lay \in Layout
    BY <1>3 DEF Placed
  <2>2. InUse = lay /\ InUse' = lay'
    BY <1>1, <2>1 DEF InUse
  <2>3. lay' \in Layout /\ Alike(lay, lay') /\ lay'.numrecs = lay.numrecs
    BY <2>1, SetFillLay
  <2>4. /\ \A s \in written \cup filled : IsData(lay, lay.numrecs, s)
        /\ HeaderHolds(file, lay) /\ CellsHold(file, lay, written, filled)
    BY <1>3, <2>2 DEF Intact
  <2>5. /\ \A s \in written \cup filled : IsData(lay', lay.numrecs, s)
        /\ HeaderHolds(file, lay') /\ CellsHold(file, lay', written, filled)
    BY <2>1, <2>3, <2>4, AlikeHolds
  <2> QED
    BY <1>1, <1>3, <2>2, <2>3, <2>5 DEF Intact
<1> QED
  BY <1>2, <1>3

LEMMA IntactRedef ==
    ASSUME Placed, Intact, NC3_redef
    PROVE  Intact'
<1>1. ~indef /\ old' = lay /\ UNCHANGED <<lay, file, written, filled>>
  BY DEF NC3_redef
<1>2. old = NoLayout /\ lay \in Layout
  BY <1>1 DEF Placed
<1>3. lay # NoLayout
  BY <1>2, NC3LayoutAssumption
<1>4. InUse = lay /\ InUse' = lay
  BY <1>1, <1>2, <1>3 DEF InUse
<1> QED
  BY <1>1, <1>3, <1>4 DEF Intact

\* A write puts the cell it writes in its place, the fills of the new records
\* in theirs, and nothing else.
LEMMA IntactPutVara ==
    ASSUME Placed, Intact, NEW i \in DOMAIN lay.vars, NEW r \in 0 .. MaxRecs - 1, NC3_put_vara(i, r)
    PROVE  Intact'
<1> DEFINE n   == lay'.numrecs
           new == IF lay.vars[i].rec THEN Added(r) ELSE {}
           f   == Filled(file, lay, new)
           e   == <<i, r>>
<1>1. /\ lay \in Layout /\ old = NoLayout /\ Laid(lay) /\ InFile(lay) /\ ~indef
      /\ file \in [0 .. FileSize - 1 -> Bytes]
  BY DEF Placed, NC3_put_vara
<1>2. /\ lay' \in Layout /\ Alike(lay, lay') /\ n \in Nat /\ lay.numrecs <= n /\ lay.numrecs \in Nat
      /\ lay.vars[i].rec => n = Larger(lay.numrecs, r + 1)
  BY <1>1, PutVaraLay, LayoutNumbers
<1>3. InUse = lay /\ InUse' = lay'
  BY <1>1 DEF InUse, NC3_put_vara
<1>4. /\ \A s \in written \cup filled : IsData(lay, lay.numrecs, s)
      /\ HeaderHolds(file, lay) /\ CellsHold(file, lay, written, filled)
  BY <1>1, <1>3 DEF Intact
<1>5. i \in 1 .. Len(lay.vars) /\ i \in Nat /\ r \in Nat
  <2>1. i \in 1 .. Len(lay.vars) /\ Len(lay.vars) \in Nat /\ MaxRecs \in Nat
    BY <1>1, LayoutVars, NC3LayoutAssumption
  <2> QED
    BY <2>1
<1>6. lay.vars[i].rec => r < n
  BY <1>2, <1>5 DEF Larger
<1>7. lay.xsz <= FileSize /\ FitsRecs(lay, n)
  <2>1. InFile(lay')
    BY DEF NC3_put_vara
  <2>2. lay'.begin_rec + lay'.recsize * n <= FileSize /\ lay'.xsz \in 0 .. FileSize
    BY <2>1 DEF InFile
  <2>3. lay'.begin_rec = lay.begin_rec /\ lay'.recsize = lay.recsize /\ lay'.xsz = lay.xsz
    BY <1>2 DEF Alike
  <2>4. FileSize \in Nat
    BY NC3LayoutAssumption
  <2> QED
    BY <1>2, <2>2, <2>3, <2>4 DEF FitsRecs
<1>8. /\ file' = CellWritten(f, lay, i, r)
      /\ written' = written \cup {e} /\ filled' = (filled \cup new) \ {e} /\ indef' = indef
  BY DEF NC3_put_vara, CellWritten
<1>9. IsData(lay, n, e)
  BY <1>5, <1>6 DEF IsData, IsCell, NC3_put_vara
<1> HIDE DEF n, f, e
<1>10. ASSUME NEW s, IsData(lay, lay.numrecs, s)
       PROVE  IsData(lay, n, s)
  <2>1. s \in Nat \X Nat /\ IsCell(lay, s[1], s[2]) /\ (lay.vars[s[1]].rec => s[2] < lay.numrecs)
    BY <1>10 DEF IsData
  <2>2. s[2] \in Nat
    BY <2>1
  <2>3. lay.vars[s[1]].rec => s[2] < n
    BY <1>2, <2>1, <2>2
  <2> QED
    BY <2>1, <2>3 DEF IsData
<1>11. ASSUME NEW s \in new
       PROVE  IsData(lay, n, s) /\ s \notin written
  <2>1. s \in Added(r) /\ r < n
    BY <1>6
  <2> QED
    BY <1>1, <1>2, <1>4, <1>5, <2>1, AddedCells
<1> HIDE DEF new
<1>12. \A s \in written \cup filled \cup new : IsData(lay, n, s)
  BY <1>4, <1>10, <1>11
<1>13. HeaderHolds(f, lay) /\ CellsHold(f, lay, written, filled \cup new)
  BY <1>1, <1>4, <1>7, <1>11, <1>12, FillKeeps DEF f
<1>14. f \in [0 .. FileSize - 1 -> Bytes]
  BY <1>1, FileType DEF f
<1>15. \A s \in written \cup (filled \cup new) \cup {<<i, r>>} : IsData(lay, n, s)
  BY <1>9, <1>12 DEF e
<1>16. HeaderHolds(file', lay) /\ CellsHold(file', lay, written', filled')
  BY <1>1, <1>7, <1>8, <1>13, <1>14, <1>15, WriteKeeps DEF e
<1>17. \A s \in written' \cup filled' : IsData(lay, n, s)
  BY <1>8, <1>9, <1>12
<1>18. /\ \A s \in written' \cup filled' : IsData(lay', n, s)
       /\ HeaderHolds(file', lay') /\ CellsHold(file', lay', written', filled')
  BY <1>1, <1>2, <1>16, <1>17, AlikeHolds
<1> QED
  BY <1>1, <1>3, <1>8, <1>18 DEF Intact, n

LEMMA IntactNext == Aligned /\ Placed /\ AlignedState /\ Intact /\ [Next]_vars => Intact'
<1> SUFFICES ASSUME Aligned, Placed, AlignedState, Intact, [Next]_vars PROVE Intact'
  OBVIOUS
<1>1. CASE UNCHANGED vars
  BY <1>1 DEF vars, Intact, InUse
<1>2. ASSUME NEW a \in EndefArgs, NC3__enddef(a.h_minfree, a.v_align, a.v_minfree, a.r_align)
      PROVE  Intact'
  BY <1>2, IntactEndef
<1>3. ASSUME NEW rec \in BOOLEAN, NEW size \in Sizes, NC3_def_var(rec, size)
      PROVE  Intact'
  BY <1>3, IntactDefine DEF NC3_def_var
<1>4. CASE NC3_put_att
  BY <1>4, IntactDefine DEF NC3_put_att
<1>5. ASSUME NEW b \in BOOLEAN, NC3_set_fill(b)
      PROVE  Intact'
  BY <1>5, IntactSetFill
<1>6. ASSUME NEW i \in DOMAIN lay.vars, NEW r \in 0 .. MaxRecs - 1, NC3_put_vara(i, r)
      PROVE  Intact'
  BY <1>6, IntactPutVara
<1> QED
  BY <1>1, <1>2, <1>3, <1>4, <1>5, <1>6, IntactRedef, IntactAbort, IntactClose DEF Next

\* In data mode the header is whole and every record that was written, or
\* filled, reads so, through any number of redefinitions that move variables
\* and records, provided that lengths, free space and alignments are multiples
\* of X_ALIGN.  (nc__enddef does not round them up; with an odd v_minfree
\* move_recs_r overwrites packed records.)
THEOREM ContentKept == Aligned => (Spec => []ContentIntact)
<1> SUFFICES ASSUME Aligned PROVE Spec => []ContentIntact
  OBVIOUS
<1> DEFINE Inv == Placed /\ AlignedState /\ Intact
<1>1. Init => Inv
  BY PlacedInit, AlignedInit, IntactInit
<1>2. Inv /\ [Next]_vars => Inv'
  BY PlacedNext, AlignedNext, IntactNext
<1>3. Inv => ContentIntact
  <2> SUFFICES ASSUME Inv, ~indef PROVE ContentIntact
    BY DEF ContentIntact
  <2>1. InUse = lay
    BY DEF InUse, Placed
  <2> QED
    BY <2>1 DEF Intact, ContentIntact, HeaderHolds, CellsHold
<1> HIDE DEF Inv
<1> QED
  BY <1>1, <1>2, <1>3, PTL DEF Spec
=============================================================================
