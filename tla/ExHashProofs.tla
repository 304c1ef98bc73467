---------------------------- MODULE ExHashProofs ----------------------------
(***************************************************************************)
(* The extensible hash table is a map, and a walk over it is complete:     *)
(* proofs for every number of keys, length of leaves and bound on the      *)
(* directory.                                                              *)
(***************************************************************************)
EXTENDS ExHash, Recursion, FiniteSetTheorems, SequenceTheorems

Entries == [hashkey : Keys, data : Data]

----------------------------------------------------------------------------
(* Powers of two and the leading bits of a key *)

LEMMA Powers ==
    /\ Pow2 \in [0 .. KeyBits -> Nat \ {0}] /\ Pow2[0] = 1
    /\ \A n \in 1 .. KeyBits : Pow2[n] = 2 * Pow2[n - 1]
<1> DEFINE B(f) == [n \in 0 .. KeyBits |-> IF n = 0 THEN 1 ELSE 2 * f[n - 1]]
           T == Nat \ {0}
           G == [p \in (1 .. KeyBits) \X T |-> 2 * p[2]]
           c == CHOOSE f : f = B(f)
<1>1. KeyBits \in Nat
  BY ExHashAssumption
<1>2. Pow2 = [n \in 0 .. KeyBits |-> c[n]]
  BY DEF Pow2
<1>3. G \in [(1 .. KeyBits) \X T -> T] /\ \A i \in 1 .. KeyBits, x \in T : G[<<i, x>>] = 2 * x
  OBVIOUS
<1>13. 1 \in T
  OBVIOUS
<1>4. PICK y : Computes(y, KeyBits, T, 1, G)
  <2> HIDE DEF G, T
  <2> QED
    BY <1>1, <1>13, <1>3, Computation
<1> HIDE DEF G
<1>5. y \in [0 .. KeyBits -> T] /\ y[0] = 1 /\ \A i \in 1 .. KeyBits : y[i] = 2 * y[i - 1]
  <2>1. y \in [0 .. KeyBits -> T] /\ y[0] = 1 /\ \A i \in 1 .. KeyBits : y[i] = G[<<i, y[i - 1]>>]
    BY <1>4 DEF Computes
  <2>2. \A i \in 1 .. KeyBits : y[i - 1] \in T
    <3>1. \A i \in 1 .. KeyBits : i - 1 \in 0 .. KeyBits
      BY <1>1
    <3> QED
      BY <2>1, <3>1
  <2> QED
    BY <1>3, <2>1, <2>2
<1>6. y = B(y)
  <2>1. \A i \in 0 .. KeyBits : i # 0 => i \in 1 .. KeyBits
    BY <1>1
  <2>2. \A i \in 0 .. KeyBits : y[i] = IF i = 0 THEN 1 ELSE 2 * y[i - 1]
    BY <1>5, <2>1
  <2> QED
    BY <1>5, <2>2
<1>7. c = B(c)
  BY <1>6
<1> HIDE DEF c
<1>8. c[0] = 1 /\ \A i \in 1 .. KeyBits : c[i] = 2 * c[i - 1]
  <2>1. 0 \in 0 .. KeyBits /\ \A i \in 1 .. KeyBits : i \in 0 .. KeyBits /\ i # 0
    BY <1>1
  <2> QED
    BY <1>7, <2>1
<1> DEFINE Q == {i \in 0 .. KeyBits : c[i] \in T}
<1>9. 0 \in Q
  BY <1>1, <1>8
<1>10. ASSUME NEW i \in 1 .. KeyBits, i - 1 \in Q
       PROVE  i \in Q
  <2>1. c[i - 1] \in T /\ c[i] = 2 * c[i - 1] /\ i \in 0 .. KeyBits
    BY <1>1, <1>8, <1>10
  <2> QED
    BY <2>1
<1>11. \A i \in 0 .. KeyBits : i \in Q
  <2> HIDE DEF Q
  <2> QED
    BY <1>1, <1>9, <1>10, UpTo
<1>12. \A i \in 1 .. KeyBits : i \in 0 .. KeyBits /\ i - 1 \in 0 .. KeyBits
  BY <1>1
<1> QED
  BY <1>1, <1>2, <1>8, <1>11, <1>12

\* Exponents add up.
LEMMA PowersProduct ==
    ASSUME NEW d \in 0 .. KeyBits
    PROVE  Pow2[KeyBits - d] * Pow2[d] = Pow2[KeyBits]
<1> DEFINE Q == {i \in 0 .. KeyBits : Pow2[KeyBits - i] * Pow2[i] = Pow2[KeyBits]}
<1>1. KeyBits \in Nat
  BY ExHashAssumption
<1>2. 0 \in Q
  BY <1>1, Powers
<1>3. ASSUME NEW i \in 1 .. KeyBits, i - 1 \in Q
      PROVE  i \in Q
  <2> DEFINE x == Pow2[KeyBits - i]
             y == Pow2[i - 1]
  <2>1. KeyBits - i \in 0 .. KeyBits /\ KeyBits - (i - 1) \in 1 .. KeyBits /\ i - 1 \in 0 .. KeyBits
        /\ KeyBits - (i - 1) - 1 = KeyBits - i /\ i \in 0 .. KeyBits
    BY <1>1
  <2>2. x \in Nat /\ y \in Nat /\ Pow2[KeyBits - (i - 1)] = 2 * x /\ Pow2[i] = 2 * y
    BY <2>1, Powers
  <2>3. Pow2[KeyBits - (i - 1)] * y = Pow2[KeyBits]
    BY <1>3
  <2> HIDE DEF x, y
  <2>4. (2 * x) * y = x * (2 * y)
    BY <2>2
  <2> QED
    BY <2>1, <2>2, <2>3, <2>4 DEF x, y
<1>4. \A i \in 0 .. KeyBits : i \in Q
  <2> HIDE DEF Q
  <2> QED
    BY <1>1, <1>2, <1>3, UpTo
<1> QED
  BY <1>4

LEMMA Quotients ==
    ASSUME NEW x \in Nat, NEW p \in Nat \ {0}
    PROVE  /\ x \div p \in Nat
           /\ (x \div p) \div 2 = x \div (2 * p)
           /\ \A q \in Nat : x < p * q => x \div p \in 0 .. q - 1
<1>1. x \div p \in Nat
  OBVIOUS
<1>2. (x \div p) \div 2 = x \div (2 * p)
  OBVIOUS
<1>3. ASSUME NEW q \in Nat, x < p * q
      PROVE  x \div p \in 0 .. q - 1
  BY <1>3
<1> QED
  BY <1>1, <1>2, <1>3

\* The leading d bits of a key index a directory of depth d, and a directory
\* that is doubled has a key where it was.
LEMMA LeadingBits ==
    ASSUME NEW k \in Keys, NEW d \in 0 .. KeyBits
    PROVE  /\ MSB(k, d) \in 0 .. Pow2[d] - 1
           /\ d < KeyBits => MSB(k, d + 1) \div 2 = MSB(k, d)
<1>1. KeyBits \in Nat /\ k \in 0 .. Pow2[KeyBits] - 1
  BY ExHashAssumption
<1> DEFINE p == Pow2[KeyBits - d]
           q == Pow2[d]
<1>2. p \in Nat \ {0} /\ q \in Nat /\ p * q = Pow2[KeyBits] /\ Pow2[KeyBits] \in Nat
  <2>1. KeyBits - d \in 0 .. KeyBits /\ KeyBits \in 0 .. KeyBits
    BY <1>1
  <2> QED
    BY <2>1, Powers, PowersProduct
<1>3. MSB(k, d) \in 0 .. q - 1
  <2>1. k \in Nat /\ k < p * q
    BY <1>1, <1>2
  <2>2. MSB(k, d) = k \div p
    BY DEF MSB
  <2> HIDE DEF p, q
  <2> QED
    BY <1>2, <2>1, <2>2, Quotients, ZenonT(40)
<1>4. ASSUME d < KeyBits
      PROVE  MSB(k, d + 1) \div 2 = MSB(k, d)
  <2> DEFINE r == Pow2[KeyBits - (d + 1)]
  <2>1. KeyBits - d \in 1 .. KeyBits /\ KeyBits - d - 1 = KeyBits - (d + 1) /\ KeyBits - (d + 1) \in 0 .. KeyBits
    BY <1>1, <1>4
  <2>2. r \in Nat \ {0} /\ p = 2 * r
    BY <2>1, Powers
  <2>3. k \in Nat
    BY <1>1, <1>2
  <2>4. MSB(k, d + 1) = k \div r /\ MSB(k, d) = k \div p
    BY DEF MSB
  <2> HIDE DEF p, r
  <2> QED
    BY <2>2, <2>3, <2>4, Quotients
<1> QED
  BY <1>3, <1>4 DEF q

----------------------------------------------------------------------------
(* The binary search of a leaf *)

\* The entries of a leaf, each key once and in order.
Chain(s) ==
    /\ s \in Seq(Entries)
    /\ \A i, j \in 1 .. Len(s) : i < j => s[i].hashkey < s[j].hashkey

Members(s) == {s[i] : i \in 1 .. Len(s)}

LEMMA ChainParts ==
    ASSUME NEW s, Chain(s)
    PROVE  /\ Len(s) \in Nat /\ DOMAIN s = 1 .. Len(s)
           /\ \A i \in 1 .. Len(s) : /\ s[i] \in Entries /\ s[i].hashkey \in Keys /\ s[i].hashkey \in Nat
                                     /\ s[i].data \in Data
                                     /\ s[i] = [hashkey |-> s[i].hashkey, data |-> s[i].data]
           /\ \A i, j \in 1 .. Len(s) : i < j => s[i].hashkey < s[j].hashkey
           /\ \A i, j \in 1 .. Len(s) : s[i].hashkey = s[j].hashkey => i = j
<1>1. Keys \subseteq Nat
  BY ExHashAssumption, Powers
<1>2. Len(s) \in Nat /\ DOMAIN s = 1 .. Len(s) /\ \A i \in 1 .. Len(s) : s[i] \in Entries
  BY DEF Chain
<1>3. \A e \in Entries : /\ e.hashkey \in Keys /\ e.hashkey \in Nat /\ e.data \in Data
                         /\ e = [hashkey |-> e.hashkey, data |-> e.data]
  <2>1. \A e \in Entries : /\ e.hashkey \in Keys /\ e.data \in Data
                           /\ e = [hashkey |-> e.hashkey, data |-> e.data]
    BY DEF Entries
  <2> QED
    BY <1>1, <2>1
<1>4. \A i, j \in 1 .. Len(s) : i < j => s[i].hashkey < s[j].hashkey
  BY DEF Chain
<1>5. ASSUME NEW i \in 1 .. Len(s), NEW j \in 1 .. Len(s), s[i].hashkey = s[j].hashkey
      PROVE  i = j
  <2>1. ~(i < j) /\ ~(j < i)
    BY <1>2, <1>3, <1>4, <1>5
  <2> QED
    BY <1>2, <2>1
<1> QED
  BY <1>2, <1>3, <1>4, <1>5

\* The place of a key between the smaller and the larger ones.
Cut(s, h, c) ==
    /\ c \in 0 .. Len(s)
    /\ \A i \in 1 .. Len(s) : s[i].hashkey <= h <=> i <= c

LEMMA CutExists ==
    ASSUME NEW s, Chain(s), NEW h \in Nat
    PROVE  \E c : Cut(s, h, c)
<1> DEFINE S == {i \in 0 .. Len(s) : \A j \in 1 .. Len(s) : j > i => s[j].hashkey > h}
<1>1. Len(s) \in Nat /\ Len(s) \in S
  BY ChainParts
<1>2. PICK c \in S : \A y \in S : c <= y
  <2>1. S \in SUBSET Nat /\ S # {}
    BY <1>1
  <2> HIDE DEF S
  <2> QED
    BY <2>1, NatLeast
<1>3. c \in 0 .. Len(s) /\ \A j \in 1 .. Len(s) : j > c => s[j].hashkey > h
  OBVIOUS
<1>4. ASSUME NEW i \in 1 .. Len(s), i <= c
      PROVE  s[i].hashkey <= h
  <2>1. c \in 1 .. Len(s) /\ c - 1 \in 0 .. Len(s)
    BY <1>1, <1>3, <1>4
  <2>2. c - 1 \notin S
    <3> HIDE DEF S
    <3>1. ~(c <= c - 1)
      BY <2>1
    <3> QED
      BY <1>2, <3>1
  <2>3. PICK j \in 1 .. Len(s) : j > c - 1 /\ ~(s[j].hashkey > h)
    BY <2>1, <2>2
  <2>4. j = c
    BY <1>1, <1>3, <2>1, <2>3
  <2>5. s[i].hashkey \in Nat /\ s[c].hashkey \in Nat /\ (i < c => s[i].hashkey < s[c].hashkey)
    BY <2>1, ChainParts
  <2> QED
    BY <1>1, <1>4, <2>1, <2>3, <2>4, <2>5
<1>5. \A i \in 1 .. Len(s) : s[i].hashkey <= h <=> i <= c
  <2> TAKE i \in 1 .. Len(s)
  <2>1. i \in Nat /\ c \in Nat
    BY <1>1, <1>3
  <2>2. s[i].hashkey \in Nat
    BY ChainParts
  <2> QED
    BY <1>3, <1>4, <2>1, <2>2
<1> QED
  BY <1>3, <1>5 DEF Cut

\* Where the search of the part L .. R ends.
Clamp(c, L, R) == IF c < L THEN L ELSE IF c > R THEN R ELSE c

LEMMA Halves ==
    ASSUME NEW c \in Nat, NEW L \in Nat, NEW R \in Nat, NEW m \in Nat, L < m, m <= R
    PROVE  /\ m > c => Clamp(c, L, m - 1) = Clamp(c, L, R)
           /\ m <= c => Clamp(c, m, R) = Clamp(c, L, R)
  BY DEF Clamp

LEMMA SearchIs ==
    ASSUME NEW s, Chain(s), NEW h \in Nat, NEW c, Cut(s, h, c), Len(s) > 0
    PROVE  exbinsearch(h, s) = IF c = 0 THEN 1 ELSE IF s[c].hashkey < h THEN c + 1 ELSE c
<1> DEFINE n == Len(s)
           D == (1 .. n) \X (1 .. n)
           M(w) == (w[1] + w[2] + 1) \div 2
           B(f) == [w \in D |-> IF w[1] = w[2] THEN w[1]
                                ELSE IF s[M(w)].hashkey > h THEN f[<<w[1], M(w) - 1>>]
                                ELSE f[<<M(w), w[2]>>]]
           f0 == CHOOSE f : f = B(f)
           g == [w \in D |-> IF w[1] > w[2] THEN 1 ELSE Clamp(c, w[1], w[2])]
<1>1. n \in Nat /\ n > 0 /\ c \in 0 .. n /\ \A i \in 1 .. n : s[i].hashkey \in Nat /\ (s[i].hashkey > h <=> i > c)
  <2>1. n \in Nat /\ \A i \in 1 .. n : s[i].hashkey \in Nat
    BY ChainParts
  <2>2. c \in 0 .. n /\ \A i \in 1 .. n : s[i].hashkey <= h <=> i <= c
    BY DEF Cut
  <2> HIDE DEF n
  <2>3. \A i \in 1 .. n : s[i].hashkey > h <=> i > c
    BY <2>1, <2>2
  <2>4. n > 0
    BY DEF n
  <2> QED
    BY <2>1, <2>2, <2>3, <2>4
<1>2. exbinsearch(h, s) = IF s[f0[<<1, n>>]].hashkey < h THEN f0[<<1, n>>] + 1 ELSE f0[<<1, n>>]
  <2>1. exbinsearch(h, s) = IF n = 0 THEN 1
                            ELSE IF s[f0[<<1, n>>]].hashkey < h THEN f0[<<1, n>>] + 1 ELSE f0[<<1, n>>]
    BY Zenon DEF exbinsearch
  <2> HIDE DEF n, f0
  <2>2. n # 0
    BY <1>1
  <2> QED
    BY <2>1, <2>2
<1>3. ASSUME NEW L \in 1 .. n, NEW R \in 1 .. n, L # R, NEW m, m = (L + R + 1) \div 2
      PROVE  /\ m \in 1 .. n /\ (m > c => <<L, m - 1>> \in D) /\ (m <= c => <<m, R>> \in D)
             /\ s[m].hashkey > h <=> m > c
  <2>3. L \in Nat /\ R \in Nat /\ c \in Nat
    BY <1>1
  <2>4. m \in Nat /\ (L < R => L < m /\ m <= R) /\ (L > R => R < m /\ m <= L)
    BY ONLY <1>3, <2>3
  <2>1. m \in 1 .. n /\ m - 1 \in Nat /\ (L < R => L <= m - 1) /\ (L > R => R <= m - 1)
    BY <1>1, <1>3, <2>4
  <2>2. m - 1 \in 1 .. n
    BY <1>1, <1>3, <2>1
  <2> QED
    BY <1>1, <2>1, <2>2
<1>4. g = B(g)
  <2> SUFFICES ASSUME NEW w \in D PROVE g[w] = B(g)[w]
    OBVIOUS
  <2> DEFINE L == w[1]
             R == w[2]
             m == (L + R + 1) \div 2
  <2>1. L \in 1 .. n /\ R \in 1 .. n /\ w = <<L, R>> /\ L \in Nat /\ R \in Nat
    BY <1>1
  <2>2. \A x \in 1 .. n, y \in 1 .. n : g[<<x, y>>] = IF x > y THEN 1 ELSE Clamp(c, x, y)
    OBVIOUS
  <2>3. g[w] = (IF L > R THEN 1 ELSE Clamp(c, L, R))
        /\ B(g)[w] = (IF L = R THEN L ELSE IF s[m].hashkey > h THEN g[<<L, m - 1>>] ELSE g[<<m, R>>])
    OBVIOUS
  <2> HIDE DEF g, B, L, R
  <2>4. CASE L = R
    BY <1>1, <2>1, <2>3, <2>4 DEF Clamp
  <2>5. CASE L # R
    <3>1. /\ m \in 1 .. n /\ (m > c => m - 1 \in 1 .. n) /\ (s[m].hashkey > h <=> m > c)
      BY <1>3, <2>1, <2>5
    <3>2. /\ L < R => L < m /\ m <= R
          /\ L > R => R < m /\ m <= L
          /\ L < R /\ m > c => Clamp(c, L, m - 1) = Clamp(c, L, R)
          /\ L < R /\ m <= c => Clamp(c, m, R) = Clamp(c, L, R)
      <4>1. c \in Nat
        BY <1>1
      <4>2. m = (L + R + 1) \div 2
        OBVIOUS
      <4> HIDE DEF m
      <4>3. m \in Nat /\ (L < R => L < m /\ m <= R) /\ (L > R => R < m /\ m <= L)
        BY ONLY <2>1, <4>2
      <4>4. ASSUME L < R
            PROVE  /\ m > c => Clamp(c, L, m - 1) = Clamp(c, L, R)
                   /\ m <= c => Clamp(c, m, R) = Clamp(c, L, R)
        <5>1. L \in Nat /\ R \in Nat /\ L < m /\ m <= R /\ m \in Nat
          BY <2>1, <4>3, <4>4
        <5> QED
          BY ONLY <4>1, <5>1 DEF Clamp
      <4> QED
        BY <4>3, <4>4
    <3> HIDE DEF m
    <3>3. CASE m > c
      <4>1. B(g)[w] = IF L > m - 1 THEN 1 ELSE Clamp(c, L, m - 1)
        BY <2>1, <2>2, <2>3, <2>5, <3>1, <3>3
      <4> QED
        BY <1>1, <2>1, <2>3, <2>5, <3>1, <3>2, <3>3, <4>1
    <3>4. CASE m <= c
      <4>1. B(g)[w] = IF m > R THEN 1 ELSE Clamp(c, m, R)
        BY <1>1, <2>1, <2>2, <2>3, <2>5, <3>1, <3>4
      <4> QED
        BY <1>1, <2>1, <2>3, <2>5, <3>1, <3>2, <3>4, <4>1
    <3> QED
      BY <1>1, <3>1, <3>3, <3>4
  <2> QED
    BY <2>4, <2>5
<1>5. f0 = B(f0)
  BY <1>4
<1> HIDE DEF f0, g
<1>6. ASSUME NEW L \in 1 .. n, NEW R \in 1 .. n, NEW m, m = (L + R + 1) \div 2
      PROVE  f0[<<L, R>>] = IF L = R THEN L ELSE IF s[m].hashkey > h THEN f0[<<L, m - 1>>] ELSE f0[<<m, R>>]
  <2>1. <<L, R>> \in D
    OBVIOUS
  <2> QED
    BY <1>5, <1>6, <2>1
<1> DEFINE Q == {d \in 0 .. n : \A L, R \in 1 .. n : L <= R /\ R - L <= d => f0[<<L, R>>] = Clamp(c, L, R)}
<1>7. 0 \in Q
  <2>1. ASSUME NEW L \in 1 .. n, NEW R \in 1 .. n, L <= R, R - L <= 0
        PROVE  f0[<<L, R>>] = Clamp(c, L, R)
    <3>1. L = R
      BY <2>1
    <3>2. f0[<<L, R>>] = L
      BY <1>6, <3>1
    <3> QED
      BY <1>1, <3>1, <3>2 DEF Clamp
  <2> QED
    BY <1>1, <2>1
<1>8. ASSUME NEW d \in 1 .. n, d - 1 \in Q
      PROVE  d \in Q
  <2>1. ASSUME NEW L \in 1 .. n, NEW R \in 1 .. n, L <= R, R - L <= d
        PROVE  f0[<<L, R>>] = Clamp(c, L, R)
    <3> DEFINE m == (L + R + 1) \div 2
    <3>1. CASE L = R
      <4>1. f0[<<L, R>>] = L
        BY <1>6, <3>1
      <4> QED
        BY <1>1, <3>1, <4>1 DEF Clamp
    <3>2. CASE L < R
      <4>7. L # R /\ L \in Nat /\ R \in Nat /\ c \in Nat
        BY <1>1, <3>2
      <4>1. /\ m \in 1 .. n /\ (s[m].hashkey > h <=> m > c)
        BY <1>3, <4>7
      <4>2. /\ L < m /\ m <= R
            /\ m > c => Clamp(c, L, m - 1) = Clamp(c, L, R)
            /\ m <= c => Clamp(c, m, R) = Clamp(c, L, R)
        <5>1. m = (L + R + 1) \div 2
          OBVIOUS
        <5> HIDE DEF m
        <5>2. m \in Nat /\ L < m /\ m <= R
          BY ONLY <3>2, <4>7, <5>1
        <5> QED
          BY <4>7, <5>2, Halves
      <4>3. f0[<<L, R>>] = IF m > c THEN f0[<<L, m - 1>>] ELSE f0[<<m, R>>]
        BY <1>6, <3>2, <4>1
      <4>4. \A x, y \in 1 .. n : x <= y /\ y - x <= d - 1 => f0[<<x, y>>] = Clamp(c, x, y)
        BY <1>8
      <4> HIDE DEF m
      <4>5. CASE m > c
        <5>1. m - 1 \in 1 .. n /\ L <= m - 1 /\ (m - 1) - L <= d - 1
          BY <2>1, <3>2, <4>1, <4>2
        <5>2. f0[<<L, m - 1>>] = Clamp(c, L, m - 1)
          BY <4>4, <5>1
        <5> QED
          BY <4>2, <4>3, <4>5, <5>2
      <4>6. CASE m <= c
        <5>1. m <= R /\ R - m <= d - 1
          BY <2>1, <3>2, <4>1, <4>2
        <5>2. f0[<<m, R>>] = Clamp(c, m, R)
          BY <4>1, <4>4, <5>1
        <5>3. ~(m > c)
          BY <1>1, <4>1, <4>6
        <5> QED
          BY <4>2, <4>3, <4>6, <5>2, <5>3
      <4> QED
        BY <1>1, <4>1, <4>5, <4>6
    <3> QED
      BY <2>1, <3>1, <3>2
  <2>2. d \in 0 .. n
    BY <1>1
  <2> QED
    BY <2>1, <2>2
<1>9. \A d \in 0 .. n : d \in Q
  <2> HIDE DEF Q
  <2> QED
    BY <1>1, <1>7, <1>8, UpTo
<1>10. f0[<<1, n>>] = Clamp(c, 1, n)
  <2>1. n \in 0 .. n /\ 1 \in 1 .. n /\ n \in 1 .. n /\ 1 <= n /\ n - 1 <= n
    BY <1>1
  <2>2. n \in Q
    BY <1>9, <2>1
  <2> HIDE DEF n
  <2> QED
    BY <2>1, <2>2
<1>11. CASE c = 0
  <2>1. f0[<<1, n>>] = 1 /\ 1 \in 1 .. n
    BY <1>1, <1>10, <1>11 DEF Clamp
  <2>2. s[1].hashkey \in Nat /\ s[1].hashkey > h
    BY <1>1, <1>11, <2>1
  <2>3. ~(s[1].hashkey < h)
    BY <2>2
  <2> QED
    BY <1>2, <1>11, <2>1, <2>3
<1>12. CASE c # 0
  <2>1. f0[<<1, n>>] = c
    BY <1>1, <1>10, <1>12 DEF Clamp
  <2> QED
    BY <1>2, <1>12, <2>1
<1> QED
  BY <1>11, <1>12

LEMMA KeyNat ==
    /\ \A k \in Keys : k \in Nat
    /\ \A e \in Entries : e.hashkey \in Keys /\ e.hashkey \in Nat /\ e.data \in Data
<1>1. Keys \subseteq Nat
  BY ExHashAssumption, Powers
<1>2. \A e \in Entries : e.hashkey \in Keys /\ e.data \in Data
  BY DEF Entries
<1> QED
  BY <1>1, <1>2

\* exbinsearch finds the place of a key.
LEMMA Place ==
    ASSUME NEW s, Chain(s), NEW h \in Keys, NEW at, at = exbinsearch(h, s)
    PROVE  /\ at \in 1 .. Len(s) + 1
           /\ \A i \in 1 .. Len(s) : (i < at => s[i].hashkey < h) /\ (i >= at => s[i].hashkey >= h)
<1>1. h \in Nat
  BY KeyNat
<1>2. Len(s) \in Nat /\ \A i \in 1 .. Len(s) : s[i].hashkey \in Nat
  BY ChainParts
<1>3. CASE Len(s) = 0
  <2>1. at = 1
    BY <1>3 DEF exbinsearch
  <2> QED
    BY <1>3, <2>1
<1>4. CASE Len(s) > 0
  <2>1. PICK c : Cut(s, h, c)
    BY <1>1, CutExists
  <2>2. at = IF c = 0 THEN 1 ELSE IF s[c].hashkey < h THEN c + 1 ELSE c
    BY <1>1, <1>4, <2>1, SearchIs
  <2>3. c \in 0 .. Len(s) /\ \A i \in 1 .. Len(s) : s[i].hashkey <= h <=> i <= c
    BY <2>1 DEF Cut
  <2>4. \A i, j \in 1 .. Len(s) : i < j => s[i].hashkey < s[j].hashkey
    BY ChainParts
  <2>5. CASE c = 0
    BY <1>1, <1>2, <1>4, <2>2, <2>3, <2>5
  <2>6. CASE c # 0
    <3>1. c \in 1 .. Len(s) /\ s[c].hashkey \in Nat /\ s[c].hashkey <= h
      BY <1>2, <2>3, <2>6
    <3>2. CASE s[c].hashkey < h
      BY <1>1, <1>2, <2>2, <2>3, <2>4, <2>6, <3>1, <3>2
    <3>3. CASE s[c].hashkey = h
      BY <1>1, <1>2, <2>2, <2>3, <2>4, <2>6, <3>1, <3>3
    <3> QED
      BY <1>1, <3>1, <3>2, <3>3
  <2> QED
    BY <2>5, <2>6
<1> QED
  BY <1>2, <1>3, <1>4

LEMMA HoldsIs ==
    ASSUME NEW s, Chain(s), NEW h \in Keys
    PROVE  /\ Holds(s, h) <=> \E i \in 1 .. Len(s) : s[i].hashkey = h
           /\ \A i \in 1 .. Len(s) : s[i].hashkey = h => exbinsearch(h, s) = i
           /\ Holds(s, h) => exbinsearch(h, s) \in 1 .. Len(s) /\ s[exbinsearch(h, s)].hashkey = h
<1> DEFINE at == exbinsearch(h, s)
<1>1. /\ at \in 1 .. Len(s) + 1
      /\ \A i \in 1 .. Len(s) : (i < at => s[i].hashkey < h) /\ (i >= at => s[i].hashkey >= h)
  BY Place
<1>2. /\ Len(s) \in Nat /\ h \in Nat /\ \A i \in 1 .. Len(s) : s[i].hashkey \in Nat
      /\ \A i, j \in 1 .. Len(s) : i < j => s[i].hashkey < s[j].hashkey
  BY ChainParts, KeyNat
<1>3. Holds(s, h) <=> at <= Len(s) /\ s[at].hashkey = h
  BY DEF Holds
<1> HIDE DEF at
<1>4. ASSUME NEW i \in 1 .. Len(s), s[i].hashkey = h
      PROVE  at = i
  <2>1. i >= at
    BY <1>1, <1>2, <1>4
  <2>2. CASE i > at
    <3>1. at \in 1 .. Len(s) /\ s[at].hashkey < s[i].hashkey
      BY <1>1, <1>2, <2>2
    <3> QED
      BY <1>1, <1>2, <1>4, <3>1
  <2> QED
    BY <1>1, <1>2, <2>1, <2>2
<1>5. ASSUME at <= Len(s), s[at].hashkey = h
      PROVE  at \in 1 .. Len(s)
  BY <1>1, <1>2, <1>5
<1> QED
  BY <1>2, <1>3, <1>4, <1>5 DEF at

\* What is found for a key in a leaf.
GetIn(s, h) == IF Holds(s, h) THEN s[exbinsearch(h, s)].data ELSE NoData

LEMMA GetIs ==
    ASSUME NEW s, Chain(s), NEW h \in Keys
    PROVE  /\ GetIn(s, h) \in Data \cup {NoData}
           /\ Holds(s, h) <=> GetIn(s, h) # NoData
           /\ \A d \in Data : GetIn(s, h) = d <=> [hashkey |-> h, data |-> d] \in Members(s)
<1> DEFINE at == exbinsearch(h, s)
<1>1. /\ Holds(s, h) <=> \E i \in 1 .. Len(s) : s[i].hashkey = h
      /\ \A i \in 1 .. Len(s) : s[i].hashkey = h => at = i
      /\ Holds(s, h) => at \in 1 .. Len(s) /\ s[at].hashkey = h
  BY HoldsIs
<1>2. \A i \in 1 .. Len(s) : s[i].data \in Data /\ s[i] = [hashkey |-> s[i].hashkey, data |-> s[i].data]
  BY ChainParts
<1>3. NoData \notin Data
  BY ExHashAssumption
<1>4. GetIn(s, h) = IF Holds(s, h) THEN s[at].data ELSE NoData
  BY DEF GetIn
<1> HIDE DEF at
<1>5. ASSUME NEW d \in Data, GetIn(s, h) = d
      PROVE  [hashkey |-> h, data |-> d] \in Members(s)
  <2>1. at \in 1 .. Len(s) /\ s[at].hashkey = h /\ s[at].data = d
    BY <1>1, <1>3, <1>4, <1>5
  <2>2. s[at] = [hashkey |-> h, data |-> d]
    BY <1>2, <2>1
  <2> QED
    BY <2>1, <2>2, Zenon DEF Members
<1>6. ASSUME NEW d \in Data, [hashkey |-> h, data |-> d] \in Members(s)
      PROVE  GetIn(s, h) = d
  <2>1. PICK i \in 1 .. Len(s) : s[i] = [hashkey |-> h, data |-> d]
    BY <1>6, Zenon DEF Members
  <2>2. s[i].hashkey = h /\ s[i].data = d
    BY <2>1
  <2> QED
    BY <1>1, <1>4, <2>2
<1> QED
  BY <1>1, <1>2, <1>3, <1>4, <1>5, <1>6

\* Leaves that have the same data for a key.
LEMMA SameGet ==
    ASSUME NEW s, Chain(s), NEW t, Chain(t), NEW h \in Keys,
           \A d \in Data : [hashkey |-> h, data |-> d] \in Members(s) <=> [hashkey |-> h, data |-> d] \in Members(t)
    PROVE  GetIn(s, h) = GetIn(t, h)
<1>1. /\ GetIn(s, h) \in Data \cup {NoData} /\ GetIn(t, h) \in Data \cup {NoData}
      /\ \A d \in Data : GetIn(s, h) = d <=> [hashkey |-> h, data |-> d] \in Members(s)
      /\ \A d \in Data : GetIn(t, h) = d <=> [hashkey |-> h, data |-> d] \in Members(t)
  BY GetIs
<1> QED
  BY <1>1

----------------------------------------------------------------------------
(* Changes of a leaf *)

\* e comes into s at a place; the entry of a place is taken out.
Splice(s, at, e) == SubSeq(s, 1, at - 1) \o <<e>> \o SubSeq(s, at, Len(s))
Without(s, at) == SubSeq(s, 1, at - 1) \o SubSeq(s, at + 1, Len(s))

\* The elements of two sequences in a row.
LEMMA Joined ==
    ASSUME NEW V, NEW u \in Seq(V), NEW v \in Seq(V), NEW a, NEW b, a = Len(u), b = Len(v)
    PROVE  /\ u \o v \in Seq(V) /\ Len(u \o v) = a + b /\ a \in Nat /\ b \in Nat
           /\ \A i \in 1 .. a + b : (u \o v)[i] = IF i <= a THEN u[i] ELSE v[i - a]
<1>1. a \in Nat /\ b \in Nat
  BY LenProperties
<1> QED
  BY <1>1, ConcatProperties

LEMMA Spliced ==
    ASSUME NEW V, NEW s \in Seq(V), NEW e \in V, NEW at \in 1 .. Len(s) + 1
    PROVE  /\ Splice(s, at, e) \in Seq(V) /\ Len(Splice(s, at, e)) = Len(s) + 1
           /\ \A i \in 1 .. Len(s) + 1 :
                 Splice(s, at, e)[i] = IF i < at THEN s[i] ELSE IF i = at THEN e ELSE s[i - 1]
<1> DEFINE n == Len(s)
           u == SubSeq(s, 1, at - 1)
           v == SubSeq(s, at, n)
           w == u \o <<e>>
<1>1. n \in Nat /\ at \in Nat /\ 1 <= at /\ at <= n + 1 /\ \A i \in 1 .. n : s[i] \in V
  OBVIOUS
<1>2. u \in Seq(V) /\ Len(u) = at - 1 /\ \A i \in 1 .. at - 1 : u[i] = s[i]
  OBVIOUS
<1>3. v \in Seq(V) /\ Len(v) = n - at + 1 /\ \A i \in 1 .. n - at + 1 : v[i] = s[at + i - 1]
  OBVIOUS
<1>4. Splice(s, at, e) = w \o v
  BY DEF Splice
<1> HIDE DEF u, v, n
<1>5. w \in Seq(V) /\ Len(w) = at /\ w[at] = e /\ \A i \in 1 .. at - 1 : w[i] = s[i]
  BY <1>1, <1>2, SMTT(30)
<1> HIDE DEF w
<1>6. /\ w \o v \in Seq(V) /\ Len(w \o v) = n + 1
      /\ \A i \in 1 .. n + 1 : (w \o v)[i] = IF i <= at THEN w[i] ELSE v[i - at]
  <2>1. /\ w \o v \in Seq(V) /\ Len(w \o v) = at + (n - at + 1)
        /\ \A i \in 1 .. at + (n - at + 1) : (w \o v)[i] = IF i <= at THEN w[i] ELSE v[i - at]
    BY <1>3, <1>5, Joined
  <2>2. at + (n - at + 1) = n + 1
    BY <1>1
  <2> QED
    BY <2>1, <2>2
<1>7. ASSUME NEW i \in 1 .. n + 1
      PROVE  (w \o v)[i] = IF i < at THEN s[i] ELSE IF i = at THEN e ELSE s[i - 1]
  <2>1. CASE i <= at
    <3>1. (w \o v)[i] = w[i]
      BY <1>6, <2>1
    <3>2. i = at \/ (i < at /\ i \in 1 .. at - 1)
      BY <1>1, <2>1
    <3>3. CASE i = at
      <4>1. ~(i < at)
        BY <1>1, <3>3
      <4> QED
        BY <1>5, <3>1, <3>3, <4>1
    <3>4. CASE i < at /\ i \in 1 .. at - 1
      BY <1>5, <3>1, <3>4
    <3> QED
      BY <3>2, <3>3, <3>4
  <2>2. CASE i > at
    <3>1. i - at \in 1 .. n - at + 1 /\ at + (i - at) - 1 = i - 1 /\ ~(i <= at) /\ i # at /\ ~(i < at)
      BY <1>1, <2>2
    <3>2. (w \o v)[i] = v[i - at]
      BY <1>6, <3>1
    <3>3. v[i - at] = s[i - 1]
      BY <1>3, <3>1
    <3> QED
      BY <3>1, <3>2, <3>3
  <2>3. i <= at \/ i > at
    BY <1>1
  <2> QED
    BY <2>1, <2>2, <2>3
<1>8. Splice(s, at, e) \in Seq(V) /\ Len(Splice(s, at, e)) = n + 1
  BY <1>4, <1>6
<1>9. \A i \in 1 .. n + 1 : Splice(s, at, e)[i] = IF i < at THEN s[i] ELSE IF i = at THEN e ELSE s[i - 1]
  BY <1>4, <1>7
<1> QED
  BY <1>8, <1>9 DEF n

LEMMA Inserted ==
    ASSUME NEW s, Chain(s), NEW e \in Entries, ~Holds(s, e.hashkey), NEW at, at = exbinsearch(e.hashkey, s),
           NEW t, t = Splice(s, at, e)
    PROVE  /\ Chain(t) /\ Len(t) = Len(s) + 1
           /\ \A x : x \in Members(t) <=> x \in Members(s) \/ x = e
<1> DEFINE n == Len(s)
           h == e.hashkey
<1>1. /\ n \in Nat /\ s \in Seq(Entries) /\ \A i \in 1 .. n : s[i] \in Entries /\ s[i].hashkey \in Nat
      /\ \A i, j \in 1 .. n : i < j => s[i].hashkey < s[j].hashkey
  BY ChainParts DEF Chain
<1>2. h \in Keys /\ h \in Nat
  BY KeyNat
<1>3. /\ at \in 1 .. n + 1
      /\ \A i \in 1 .. n : (i < at => s[i].hashkey < h) /\ (i >= at => s[i].hashkey >= h)
  BY <1>2, Place
<1>4. \A i \in 1 .. n : s[i].hashkey # h
  BY <1>2, HoldsIs
<1>5. /\ t \in Seq(Entries) /\ Len(t) = n + 1
      /\ \A i \in 1 .. n + 1 : t[i] = IF i < at THEN s[i] ELSE IF i = at THEN e ELSE s[i - 1]
  <2>1. at \in 1 .. Len(s) + 1 /\ s \in Seq(Entries)
    BY <1>1, <1>3
  <2> QED
    BY <2>1, Spliced, SMTT(30)
<1> HIDE DEF n
<1>6. ASSUME NEW i \in 1 .. n + 1, NEW j \in 1 .. n + 1, i < j
      PROVE  t[i].hashkey < t[j].hashkey
  <2> DEFINE K(x) == IF x < at THEN x ELSE x - 1
  <2>1. /\ i # at => K(i) \in 1 .. n /\ t[i] = s[K(i)] /\ (i < at => K(i) < at)
        /\ i = at => t[i] = e
    BY ONLY <1>1, <1>3, <1>5, i \in 1 .. n + 1
  <2>2. /\ j # at => K(j) \in 1 .. n /\ t[j] = s[K(j)] /\ (j > at => K(j) >= at)
        /\ j = at => t[j] = e
    BY ONLY <1>1, <1>3, <1>5, j \in 1 .. n + 1
  <2>3. i # at /\ j # at => K(i) < K(j)
    BY ONLY <1>1, <1>3, <1>6, i \in 1 .. n + 1, j \in 1 .. n + 1
  <2>4. (i = at => j > at) /\ (j = at => i < at)
    BY ONLY <1>1, <1>3, <1>6, i \in 1 .. n + 1, j \in 1 .. n + 1
  <2> DEFINE a == K(i)
             b == K(j)
  <2>5. /\ i # at => a \in 1 .. n /\ t[i] = s[a] /\ (i < at => a < at)
        /\ j # at => b \in 1 .. n /\ t[j] = s[b] /\ (j > at => b >= at)
        /\ i # at /\ j # at => a < b
    BY <2>1, <2>2, <2>3
  <2> HIDE DEF a, b, K
  <2>6. CASE i = at
    <3>1. t[i] = e /\ b \in 1 .. n /\ t[j] = s[b] /\ b >= at /\ s[b].hashkey \in Nat
      BY <1>1, <1>6, <2>1, <2>4, <2>5, <2>6
    <3>2. s[b].hashkey >= h /\ s[b].hashkey # h
      BY <1>3, <1>4, <3>1 DEF n
    <3> QED
      BY <1>2, <3>1, <3>2
  <2>7. CASE j = at
    <3>1. t[j] = e /\ i # at /\ i < at /\ a \in 1 .. n /\ t[i] = s[a] /\ a < at
      BY <1>1, <1>6, <2>2, <2>4, <2>5, <2>7
    <3> QED
      BY <1>3, <3>1
  <2>8. CASE i # at /\ j # at
    BY <1>1, <2>5, <2>8
  <2> QED
    BY <2>6, <2>7, <2>8
<1>7. Chain(t)
  BY <1>5, <1>6 DEF Chain
<1>8. ASSUME NEW x, x \in Members(t)
      PROVE  x \in Members(s) \/ x = e
  <2>1. PICK i \in 1 .. n + 1 : x = t[i]
    BY <1>5, <1>8 DEF Members
  <2>2. CASE i < at
    <3>1. x = s[i] /\ i \in 1 .. n
      BY <1>1, <1>3, <1>5, <2>1, <2>2
    <3> QED
      BY <3>1 DEF Members, n
  <2>3. CASE i = at
    BY <1>5, <2>1, <2>3
  <2>4. CASE i > at
    <3>1. x = s[i - 1] /\ i - 1 \in 1 .. n
      <4>1. ~(i < at) /\ i # at /\ i - 1 \in 1 .. n
        BY <1>1, <1>3, <2>4
      <4> QED
        BY <1>5, <2>1, <4>1
    <3> QED
      BY <3>1 DEF Members, n
  <2> QED
    BY <1>1, <1>3, <2>2, <2>3, <2>4
<1>9. ASSUME NEW x, x \in Members(s) \/ x = e
      PROVE  x \in Members(t)
  <2>1. CASE x = e
    <3>1. at \in 1 .. n + 1 /\ t[at] = e
      BY <1>1, <1>3, <1>5
    <3> QED
      BY <1>5, <2>1, <3>1 DEF Members
  <2>2. CASE x \in Members(s)
    <3>1. PICK i \in 1 .. n : x = s[i]
      BY <2>2 DEF Members, n
    <3>2. CASE i < at
      <4>1. i \in 1 .. n + 1 /\ t[i] = x
        BY <1>1, <1>3, <1>5, <3>1, <3>2
      <4> QED
        BY <1>5, <4>1 DEF Members
    <3>3. CASE i >= at
      <4>1. i + 1 \in 1 .. n + 1 /\ t[i + 1] = x
        <5>1. i + 1 \in 1 .. n + 1 /\ i + 1 > at /\ (i + 1) - 1 = i
          BY <1>1, <1>3, <3>3
        <5> QED
          BY <1>1, <1>3, <1>5, <3>1, <5>1
      <4> QED
        BY <1>5, <4>1 DEF Members
    <3> QED
      BY <1>1, <1>3, <3>2, <3>3
  <2> QED
    BY <1>9, <2>1, <2>2
<1> QED
  BY <1>5, <1>7, <1>8, <1>9 DEF n

LEMMA Shortened ==
    ASSUME NEW V, NEW s \in Seq(V), NEW at \in 1 .. Len(s)
    PROVE  /\ Without(s, at) \in Seq(V) /\ Len(Without(s, at)) = Len(s) - 1
           /\ \A i \in 1 .. Len(s) - 1 : Without(s, at)[i] = IF i < at THEN s[i] ELSE s[i + 1]
<1> DEFINE n == Len(s)
           u == SubSeq(s, 1, at - 1)
           v == SubSeq(s, at + 1, n)
<1>1. n \in Nat /\ at \in Nat /\ 1 <= at /\ at <= n /\ \A i \in 1 .. n : s[i] \in V
  OBVIOUS
<1>2. u \in Seq(V) /\ Len(u) = at - 1 /\ \A i \in 1 .. at - 1 : u[i] = s[i]
  OBVIOUS
<1>3. v \in Seq(V) /\ Len(v) = n - at /\ \A i \in 1 .. n - at : v[i] = s[at + i]
  OBVIOUS
<1>4. Without(s, at) = u \o v
  BY DEF Without
<1> HIDE DEF u, v, n
<1>5. /\ u \o v \in Seq(V) /\ Len(u \o v) = n - 1
      /\ \A i \in 1 .. n - 1 : (u \o v)[i] = IF i <= at - 1 THEN u[i] ELSE v[i - (at - 1)]
  <2>1. /\ u \o v \in Seq(V) /\ Len(u \o v) = (at - 1) + (n - at)
        /\ \A i \in 1 .. (at - 1) + (n - at) : (u \o v)[i] = IF i <= at - 1 THEN u[i] ELSE v[i - (at - 1)]
    BY <1>2, <1>3, Joined
  <2>2. (at - 1) + (n - at) = n - 1
    BY <1>1
  <2> QED
    BY <2>1, <2>2
<1>6. ASSUME NEW i \in 1 .. n - 1
      PROVE  (u \o v)[i] = IF i < at THEN s[i] ELSE s[i + 1]
  <2>1. CASE i < at
    <3>1. i \in 1 .. at - 1 /\ i <= at - 1
      BY <1>1, <2>1
    <3> QED
      BY <1>2, <1>5, <2>1, <3>1
  <2>2. CASE ~(i < at)
    <3>1. i - (at - 1) \in 1 .. n - at /\ at + (i - (at - 1)) = i + 1 /\ ~(i <= at - 1)
      BY <1>1, <2>2
    <3>2. (u \o v)[i] = v[i - (at - 1)]
      BY <1>5, <3>1
    <3>3. v[i - (at - 1)] = s[i + 1]
      BY <1>3, <3>1
    <3> QED
      BY <2>2, <3>2, <3>3
  <2> QED
    BY <2>1, <2>2
<1>7. Without(s, at) \in Seq(V) /\ Len(Without(s, at)) = n - 1
  BY <1>4, <1>5
<1>8. \A i \in 1 .. n - 1 : Without(s, at)[i] = IF i < at THEN s[i] ELSE s[i + 1]
  BY <1>4, <1>6
<1> QED
  BY <1>7, <1>8 DEF n

LEMMA Removed ==
    ASSUME NEW s, Chain(s), NEW h \in Keys, Holds(s, h), NEW t, t = Without(s, exbinsearch(h, s))
    PROVE  /\ Chain(t) /\ Len(t) = Len(s) - 1 /\ Len(s) > 0
           /\ \A x : x \in Members(t) <=> x \in Members(s) /\ x.hashkey # h
<1> DEFINE n == Len(s)
           at == exbinsearch(h, s)
<1>1. /\ n \in Nat /\ s \in Seq(Entries)
      /\ \A i, j \in 1 .. n : i < j => s[i].hashkey < s[j].hashkey
      /\ \A i, j \in 1 .. n : s[i].hashkey = s[j].hashkey => i = j
  BY ChainParts DEF Chain
<1>2. at \in 1 .. n /\ s[at].hashkey = h
  BY HoldsIs
<1>3. t = Without(s, at)
  OBVIOUS
<1> HIDE DEF at
<1>4. /\ t \in Seq(Entries) /\ Len(t) = n - 1
      /\ \A i \in 1 .. n - 1 : t[i] = IF i < at THEN s[i] ELSE s[i + 1]
  <2>1. s \in Seq(Entries) /\ at \in 1 .. Len(s)
    BY <1>1, <1>2
  <2>2. /\ Without(s, at) \in Seq(Entries) /\ Len(Without(s, at)) = Len(s) - 1
        /\ \A i \in 1 .. Len(s) - 1 : Without(s, at)[i] = IF i < at THEN s[i] ELSE s[i + 1]
    BY ONLY <2>1, Shortened
  <2> QED
    BY <1>3, <2>2
<1> HIDE DEF n
<1> DEFINE K(x) == IF x < at THEN x ELSE x + 1
<1>5. /\ \A i \in 1 .. n - 1 : K(i) \in 1 .. n /\ K(i) # at /\ t[i] = s[K(i)]
      /\ \A i, j \in 1 .. n - 1 : i < j => K(i) < K(j)
      /\ \A y \in 1 .. n : y # at => \E i \in 1 .. n - 1 : K(i) = y
  <2>1. \A i \in 1 .. n - 1 : K(i) \in 1 .. n /\ K(i) # at
    BY ONLY <1>1, <1>2
  <2>2. \A i \in 1 .. n - 1 : t[i] = s[K(i)]
    BY <1>4
  <2>3. \A i, j \in 1 .. n - 1 : i < j => K(i) < K(j)
    BY ONLY <1>1, <1>2
  <2>4. ASSUME NEW y \in 1 .. n, y # at
        PROVE  \E i \in 1 .. n - 1 : K(i) = y
    <3>1. CASE y < at
      <4>1. y \in 1 .. n - 1 /\ K(y) = y
        BY ONLY <1>1, <1>2, <3>1, y \in 1 .. n
      <4> QED
        BY <4>1
    <3>2. CASE ~(y < at)
      <4>1. y - 1 \in 1 .. n - 1 /\ K(y - 1) = y
        BY ONLY <1>1, <1>2, <2>4, <3>2, y \in 1 .. n
      <4> QED
        BY <4>1
    <3> QED
      BY <3>1, <3>2
  <2> QED
    BY <2>1, <2>2, <2>3, <2>4
<1> HIDE DEF K
<1>6. Chain(t)
  <2>1. ASSUME NEW i \in 1 .. n - 1, NEW j \in 1 .. n - 1, i < j
        PROVE  t[i].hashkey < t[j].hashkey
    <3>1. K(i) \in 1 .. n /\ K(j) \in 1 .. n /\ K(i) < K(j) /\ t[i] = s[K(i)] /\ t[j] = s[K(j)]
      BY <1>5, <2>1
    <3> QED
      BY <1>1, <3>1
  <2> QED
    BY <1>4, <2>1 DEF Chain
<1>7. Members(s) = {s[i] : i \in 1 .. n} /\ Members(t) = {t[i] : i \in 1 .. n - 1}
  BY <1>4 DEF Members, n
<1>8. ASSUME NEW x, x \in Members(t)
      PROVE  x \in Members(s) /\ x.hashkey # h
  <2>1. PICK i \in 1 .. n - 1 : x = t[i]
    BY <1>7, <1>8
  <2>2. K(i) \in 1 .. n /\ K(i) # at /\ x = s[K(i)]
    BY <1>5, <2>1
  <2> QED
    BY <1>1, <1>2, <1>7, <2>2
<1>9. ASSUME NEW x, x \in Members(s), x.hashkey # h
      PROVE  x \in Members(t)
  <2>1. PICK y \in 1 .. n : x = s[y]
    BY <1>7, <1>9
  <2>2. y # at
    BY <1>2, <1>9, <2>1
  <2>3. PICK i \in 1 .. n - 1 : K(i) = y
    BY <1>5, <2>2
  <2> QED
    BY <1>5, <1>7, <2>1, <2>3
<1>10. n > 0
  BY <1>1, <1>2
<1> QED
  BY <1>4, <1>6, <1>8, <1>9, <1>10 DEF n

Swap(s, e) == [s EXCEPT ![exbinsearch(e.hashkey, s)] = e]

LEMMA Replaced ==
    ASSUME NEW s, Chain(s), NEW e \in Entries, Holds(s, e.hashkey), NEW t, t = Swap(s, e)
    PROVE  /\ Chain(t) /\ Len(t) = Len(s)
           /\ \A i \in 1 .. Len(s) : t[i].hashkey = s[i].hashkey
           /\ \A x : x \in Members(t) <=> (x \in Members(s) /\ x.hashkey # e.hashkey) \/ x = e
<1> DEFINE n == Len(s)
           h == e.hashkey
           at == exbinsearch(h, s)
<1>1. /\ n \in Nat /\ s \in Seq(Entries)
      /\ \A i, j \in 1 .. n : i < j => s[i].hashkey < s[j].hashkey
      /\ \A i, j \in 1 .. n : s[i].hashkey = s[j].hashkey => i = j
  BY ChainParts DEF Chain
<1>2. h \in Keys
  BY KeyNat
<1>3. at \in 1 .. n /\ s[at].hashkey = h
  BY <1>2, HoldsIs
<1>4. t = [s EXCEPT ![at] = e]
  BY DEF Swap
<1> HIDE DEF at
<1>5. t \in Seq(Entries) /\ Len(t) = n /\ \A i \in 1 .. n : t[i] = IF i = at THEN e ELSE s[i]
  <2> DEFINE w == [s EXCEPT ![at] = e]
  <2>1. s \in Seq(Entries) /\ at \in 1 .. Len(s) /\ e \in Entries
    BY <1>1, <1>3
  <2>2. w \in Seq(Entries) /\ Len(w) = Len(s) /\ \A i \in 1 .. Len(s) : w[i] = IF i = at THEN e ELSE s[i]
    BY ONLY <2>1, ExceptSeq
  <2> HIDE DEF w
  <2> QED
    BY <1>4, <2>2 DEF w
<1> HIDE DEF n
<1>6. \A i \in 1 .. n : t[i].hashkey = s[i].hashkey
  BY <1>3, <1>5
<1>7. Chain(t)
  BY <1>1, <1>5, <1>6 DEF Chain
<1>8. Members(s) = {s[i] : i \in 1 .. n} /\ Members(t) = {t[i] : i \in 1 .. n}
  BY <1>5 DEF Members, n
<1>9. ASSUME NEW x, x \in Members(t)
      PROVE  (x \in Members(s) /\ x.hashkey # h) \/ x = e
  <2>1. PICK i \in 1 .. n : x = t[i]
    BY <1>8, <1>9
  <2>2. CASE i = at
    BY <1>5, <2>1, <2>2
  <2>3. CASE i # at
    <3>1. x = s[i] /\ x.hashkey # h
      BY <1>1, <1>3, <1>5, <2>1, <2>3
    <3> QED
      BY <1>8, <3>1
  <2> QED
    BY <2>2, <2>3
<1>10. ASSUME NEW x, (x \in Members(s) /\ x.hashkey # h) \/ x = e
       PROVE  x \in Members(t)
  <2>1. CASE x = e
    BY <1>3, <1>5, <1>8, <2>1
  <2>2. CASE x \in Members(s) /\ x.hashkey # h
    <3>1. PICK i \in 1 .. n : x = s[i]
      BY <1>8, <2>2
    <3>2. i # at
      BY <1>3, <2>2, <3>1
    <3> QED
      BY <1>5, <1>8, <3>1, <3>2
  <2> QED
    BY <1>10, <2>1, <2>2
<1> QED
  BY <1>5, <1>6, <1>7, <1>9, <1>10 DEF n

\* The first i entries of s that are in S, in their order.
Kept(L, s, S, i) ==
    /\ Chain(L)
    /\ \A x : x \in Members(L) <=> x \in S /\ \E j \in 1 .. i : x = s[j]

LEMMA KeptStep ==
    ASSUME NEW s, Chain(s), NEW S, NEW L, NEW i \in 1 .. Len(s), Kept(L, s, S, i - 1)
    PROVE  Kept(IF s[i] \in S THEN Append(L, s[i]) ELSE L, s, S, i)
<1>1. /\ Len(s) \in Nat /\ i \in Nat /\ s[i] \in Entries /\ s[i].hashkey \in Nat
      /\ \A j \in 1 .. i - 1 : s[j].hashkey \in Nat /\ s[j].hashkey < s[i].hashkey
  <2>1. Len(s) \in Nat /\ \A a, b \in 1 .. Len(s) : a < b => s[a].hashkey < s[b].hashkey
    BY ChainParts
  <2>2. s[i] \in Entries /\ \A j \in 1 .. Len(s) : s[j].hashkey \in Nat
    BY ChainParts
  <2>3. i \in Nat /\ \A j \in 1 .. i - 1 : j \in 1 .. Len(s) /\ j < i
    BY <2>1
  <2> QED
    BY <2>1, <2>2, <2>3
<1>2. /\ Chain(L) /\ L \in Seq(Entries) /\ Len(L) \in Nat
      /\ \A x : x \in Members(L) <=> x \in S /\ \E j \in 1 .. i - 1 : x = s[j]
  BY ChainParts DEF Kept, Chain
<1>3. \A j : j \in 1 .. i <=> j \in 1 .. i - 1 \/ j = i
  BY <1>1
<1>4. CASE s[i] \notin S
  <2>1. ASSUME NEW x
        PROVE  x \in Members(L) <=> x \in S /\ \E j \in 1 .. i : x = s[j]
    BY <1>2, <1>3, <1>4
  <2> QED
    BY <1>2, <1>4, <2>1 DEF Kept
<1>5. CASE s[i] \in S
  <2> DEFINE t == Append(L, s[i])
             n == Len(L)
  <2>1. t \in Seq(Entries) /\ Len(t) = n + 1 /\ t[n + 1] = s[i] /\ \A a \in 1 .. n : t[a] = L[a]
    BY <1>1, <1>2, AppendProperties
  <2>2. n \in Nat
    BY <1>2
  <2>3. Members(L) = {L[a] : a \in 1 .. n} /\ Members(t) = {t[a] : a \in 1 .. n + 1}
    BY <2>1 DEF Members
  <2>4. \A a, b \in 1 .. n : a < b => L[a].hashkey < L[b].hashkey
    BY <1>2, ChainParts
  <2> HIDE DEF t, n
  <2>5. \A a : a \in 1 .. n + 1 <=> a \in 1 .. n \/ a = n + 1
    BY <2>2
  <2>6. ASSUME NEW a \in 1 .. n + 1, NEW b \in 1 .. n + 1, a < b
        PROVE  t[a].hashkey < t[b].hashkey
    <3>1. a \in 1 .. n /\ t[a] = L[a]
      BY <2>1, <2>2, <2>6
    <3>2. CASE b = n + 1
      <4>1. L[a] \in Members(L)
        BY <2>3, <3>1
      <4>2. PICK j \in 1 .. i - 1 : L[a] = s[j]
        BY <1>2, <4>1
      <4> QED
        BY <1>1, <2>1, <3>1, <3>2, <4>2
    <3>3. CASE b # n + 1
      BY <2>1, <2>4, <2>5, <2>6, <3>1, <3>3
    <3> QED
      BY <3>2, <3>3
  <2>7. Chain(t)
    BY <2>1, <2>6 DEF Chain
  <2>8. \A x : x \in Members(t) <=> x \in Members(L) \/ x = s[i]
    BY <2>1, <2>3, <2>5
  <2>9. \A x : x \in Members(t) <=> x \in S /\ \E j \in 1 .. i : x = s[j]
    BY <1>2, <1>3, <1>5, <2>8
  <2>10. Kept(t, s, S, i)
    BY <2>7, <2>9 DEF Kept
  <2> QED
    BY <1>5, <2>10 DEF t
<1> QED
  BY <1>4, <1>5

\* What Goes leaves of a leaf.
LEMMA GoesIs ==
    ASSUME NEW s, Chain(s), NEW dir, NEW d, NEW uid
    PROVE  /\ Chain(Goes(s, dir, d, uid))
           /\ \A x : x \in Members(Goes(s, dir, d, uid)) <=> x \in Members(s) /\ LeafOf(dir, d, x.hashkey) = uid
<1> DEFINE n == Len(s)
           S == {x \in Entries : LeafOf(dir, d, x.hashkey) = uid}
           T == Seq(Entries)
           B(f) == [i \in 0 .. n |-> IF i = 0 THEN <<>>
                                     ELSE IF LeafOf(dir, d, s[i].hashkey) = uid THEN Append(f[i - 1], s[i])
                                     ELSE f[i - 1]]
           G == [p \in (1 .. n) \X T |-> IF s[p[1]] \in S THEN Append(p[2], s[p[1]]) ELSE p[2]]
           C == CHOOSE f : f = B(f)
<1>1. n \in Nat /\ \A i \in 1 .. n : s[i] \in Entries
  BY ChainParts
<1>2. Goes(s, dir, d, uid) = C[n]
  BY DEF Goes
<1>3. \A i \in 1 .. n : s[i] \in S <=> LeafOf(dir, d, s[i].hashkey) = uid
  BY <1>1
<1> HIDE DEF n, S
<1>4. /\ G \in [(1 .. n) \X T -> T]
      /\ \A i \in 1 .. n, x \in T : G[<<i, x>>] = IF s[i] \in S THEN Append(x, s[i]) ELSE x
  <2>1. \A x \in T, e \in Entries : Append(x, e) \in T
    BY AppendProperties
  <2> HIDE DEF T
  <2>2. ASSUME NEW p \in (1 .. n) \X T
        PROVE  (IF s[p[1]] \in S THEN Append(p[2], s[p[1]]) ELSE p[2]) \in T
    <3>1. p[1] \in 1 .. n /\ p[2] \in T
      OBVIOUS
    <3> QED
      BY <1>1, <2>1, <3>1
  <2>3. G \in [(1 .. n) \X T -> T]
    BY <2>2
  <2>4. ASSUME NEW i \in 1 .. n, NEW x \in T
        PROVE  G[<<i, x>>] = IF s[i] \in S THEN Append(x, s[i]) ELSE x
    OBVIOUS
  <2> QED
    BY <2>3, <2>4
<1>5. <<>> \in T
  OBVIOUS
<1> HIDE DEF G, T
<1>6. PICK y : Computes(y, n, T, <<>>, G)
  BY <1>1, <1>4, <1>5, Computation
<1>7. y \in [0 .. n -> T] /\ y[0] = <<>>
      /\ \A i \in 1 .. n : y[i] = IF s[i] \in S THEN Append(y[i - 1], s[i]) ELSE y[i - 1]
  <2>1. y \in [0 .. n -> T] /\ y[0] = <<>> /\ \A i \in 1 .. n : y[i] = G[<<i, y[i - 1]>>]
    BY <1>6 DEF Computes
  <2>2. \A i \in 1 .. n : i - 1 \in 0 .. n
    BY <1>1
  <2>3. \A i \in 1 .. n : y[i - 1] \in T
    BY <2>1, <2>2
  <2> QED
    BY <1>4, <2>1, <2>3
<1>8. \A i \in 0 .. n : i # 0 => i \in 1 .. n
  BY <1>1
<1>9. y = B(y)
  <2>1. \A i \in 0 .. n : y[i] = IF i = 0 THEN <<>>
                                 ELSE IF LeafOf(dir, d, s[i].hashkey) = uid THEN Append(y[i - 1], s[i])
                                 ELSE y[i - 1]
    BY <1>3, <1>7, <1>8
  <2> QED
    BY <1>7, <2>1
<1>10. C = B(C)
  BY <1>9
<1> HIDE DEF C
<1>11. /\ C[0] = <<>>
       /\ \A i \in 1 .. n : C[i] = IF s[i] \in S THEN Append(C[i - 1], s[i]) ELSE C[i - 1]
  <2>1. 0 \in 0 .. n /\ \A i \in 1 .. n : i \in 0 .. n /\ i # 0
    BY <1>1
  <2> QED
    BY <1>3, <1>10, <2>1
<1> DEFINE Q == {i \in 0 .. n : Kept(C[i], s, S, i)}
<1>12. 0 \in Q
  <2>1. Chain(<<>>) /\ Members(<<>>) = {}
    BY DEF Chain, Members
  <2>2. \A j \in 1 .. 0 : FALSE
    OBVIOUS
  <2>3. Kept(C[0], s, S, 0)
    BY <1>11, <2>1, <2>2, Zenon DEF Kept
  <2> QED
    BY <1>1, <2>3
<1>13. ASSUME NEW i \in 1 .. n, i - 1 \in Q
       PROVE  i \in Q
  <2>1. Kept(C[i - 1], s, S, i - 1) /\ i \in 1 .. Len(s)
    BY <1>13 DEF n
  <2>2. Kept(C[i], s, S, i)
    BY <1>11, <2>1, KeptStep
  <2> QED
    BY <1>1, <2>2
<1>14. n \in Q
  <2> HIDE DEF Q
  <2>1. \A i \in 0 .. n : i \in Q
    BY <1>1, <1>12, <1>13, UpTo
  <2> QED
    BY <1>1, <2>1
<1>15. Chain(C[n]) /\ \A x : x \in Members(C[n]) <=> x \in S /\ \E j \in 1 .. n : x = s[j]
  BY <1>14 DEF Kept
<1>16. \A x : x \in S /\ (\E j \in 1 .. n : x = s[j]) <=> x \in Members(s) /\ LeafOf(dir, d, x.hashkey) = uid
  BY <1>1 DEF S, n, Members
<1> QED
  BY <1>2, <1>15, <1>16

----------------------------------------------------------------------------
(* The table *)

\* n leaves under a directory: every entry is in the leaf its key leads to.
Structured(d, dir, lf, n) ==
    /\ d \in 1 .. KeyBits /\ n \in Nat
    /\ lf \in [0 .. n - 1 -> [depth : Nat, entries : Seq(Entries)]]
    /\ dir \in [0 .. Pow2[d] - 1 -> 0 .. n - 1]
    /\ \A u \in 0 .. n - 1 : Chain(lf[u].entries)
    /\ \A u \in 0 .. n - 1 : \A x \in Members(lf[u].entries) : LeafOf(dir, d, x.hashkey) = u

\* What the table has for a key.
Value(d, dir, lf, k) == GetIn(lf[LeafOf(dir, d, k)].entries, k)

\* The keys it has.
Stored(d, dir, lf) == {k \in Keys : Value(d, dir, lf, k) # NoData}

\* The chain of leaves has every leaf once, the newest first.
Chained(l, n) == l \in Seq(Nat) /\ Len(l) = n /\ \A i \in 1 .. n : l[i] = n - i

\* The keys of the entries up to a place of the chain of leaves.
Passed(lf, l, at, index) ==
    {k \in Keys : \E i \in 1 .. Len(l) : \E j \in 1 .. Len(lf[l[i]].entries) :
                      (i < at \/ (i = at /\ j <= index)) /\ k = lf[l[i]].entries[j].hashkey}

WalkInv ==
    \/ iterator = Idle /\ seen = {}
    \/ /\ iterator \in [walking : {TRUE}, at : 1 .. Len(leaves), index : Nat]
       /\ iterator.index \in 1 .. Len(leaf[leaves[iterator.at]].entries)
       /\ seen = Passed(leaf, leaves, iterator.at, iterator.index)
       /\ locating = NoEntry

\* The inductive invariant.
TableInv ==
    /\ use \in Uses /\ depth <= use.depth
    /\ Structured(depth, directory, leaf, Len(leaves))
    /\ Chained(leaves, Len(leaves))
    /\ IsFiniteSet(Stored(depth, directory, leaf))
    /\ nactive = Cardinality(Stored(depth, directory, leaf))
    /\ locating \in Entries \cup {NoEntry}
    /\ locating # NoEntry => Value(depth, directory, leaf, locating.hashkey) = NoData
    /\ WalkInv

LEMMA LeafHas ==
    ASSUME NEW d, NEW dir, NEW lf, NEW n, Structured(d, dir, lf, n), NEW k \in Keys
    PROVE  /\ LeafOf(dir, d, k) \in 0 .. n - 1
           /\ Chain(lf[LeafOf(dir, d, k)].entries)
<1>1. d \in 0 .. KeyBits
  BY ExHashAssumption DEF Structured
<1>2. MSB(k, d) \in 0 .. Pow2[d] - 1
  BY <1>1, LeadingBits
<1>3. LeafOf(dir, d, k) \in 0 .. n - 1
  BY <1>2 DEF Structured, LeafOf
<1> QED
  BY <1>3 DEF Structured

\* A key is found exactly if some leaf has an entry of it.
LEMMA ValueIs ==
    ASSUME NEW d, NEW dir, NEW lf, NEW n, Structured(d, dir, lf, n), NEW k \in Keys
    PROVE  /\ Value(d, dir, lf, k) \in Data \cup {NoData}
           /\ Value(d, dir, lf, k) # NoData <=>
                  \E u \in 0 .. n - 1 : \E j \in 1 .. Len(lf[u].entries) : lf[u].entries[j].hashkey = k
<1> DEFINE v == LeafOf(dir, d, k)
           s == lf[v].entries
<1>1. v \in 0 .. n - 1 /\ Chain(s)
  BY LeafHas
<1>2. Value(d, dir, lf, k) = GetIn(s, k)
  BY DEF Value
<1>3. GetIn(s, k) \in Data \cup {NoData} /\ (Holds(s, k) <=> GetIn(s, k) # NoData)
  BY <1>1, GetIs
<1>4. Holds(s, k) <=> \E j \in 1 .. Len(s) : s[j].hashkey = k
  BY <1>1, HoldsIs
<1> HIDE DEF v
<1>5. ASSUME NEW u \in 0 .. n - 1, NEW j \in 1 .. Len(lf[u].entries), lf[u].entries[j].hashkey = k
      PROVE  u = v
  <2>1. lf[u].entries[j] \in Members(lf[u].entries)
    BY DEF Members
  <2> QED
    BY <1>5, <2>1 DEF Structured, v
<1> QED
  BY <1>1, <1>2, <1>3, <1>4, <1>5

WithEntries(lf, u, t) == [lf EXCEPT ![u].entries = t]

SameOthers(s, t, k) == \A x : x.hashkey # k => (x \in Members(t) <=> x \in Members(s))

\* A change of one leaf that concerns one key.
LEMMA LeafChanged ==
    ASSUME NEW d, NEW dir, NEW lf, NEW n, Structured(d, dir, lf, n), NEW k \in Keys, NEW u, u = LeafOf(dir, d, k),
           NEW t, Chain(t), SameOthers(lf[u].entries, t, k), NEW lf2, lf2 = WithEntries(lf, u, t)
    PROVE  /\ Structured(d, dir, lf2, n)
           /\ \A l \in Keys : Value(d, dir, lf2, l) = IF l = k THEN GetIn(t, k) ELSE Value(d, dir, lf, l)
<1>1. u \in 0 .. n - 1 /\ Chain(lf[u].entries)
  BY LeafHas
<1>2. /\ d \in 1 .. KeyBits /\ n \in Nat /\ lf \in [0 .. n - 1 -> [depth : Nat, entries : Seq(Entries)]]
      /\ dir \in [0 .. Pow2[d] - 1 -> 0 .. n - 1]
      /\ \A v \in 0 .. n - 1 : Chain(lf[v].entries)
      /\ \A v \in 0 .. n - 1 : \A x \in Members(lf[v].entries) : LeafOf(dir, d, x.hashkey) = v
  BY DEF Structured
<1>3. t \in Seq(Entries)
  BY DEF Chain
<1>4. /\ lf2 \in [0 .. n - 1 -> [depth : Nat, entries : Seq(Entries)]]
      /\ lf2[u].entries = t
      /\ \A v \in 0 .. n - 1 : v # u => lf2[v] = lf[v]
  BY <1>1, <1>2, <1>3 DEF WithEntries
<1>5. \A v \in 0 .. n - 1 : Chain(lf2[v].entries)
  BY <1>2, <1>4
<1>6. ASSUME NEW v \in 0 .. n - 1, NEW x \in Members(lf2[v].entries)
      PROVE  LeafOf(dir, d, x.hashkey) = v
  <2>1. CASE v # u
    BY <1>2, <1>4, <1>6, <2>1
  <2>2. CASE v = u /\ x.hashkey = k
    BY <2>2
  <2>3. CASE v = u /\ x.hashkey # k
    <3>1. x \in Members(lf[u].entries)
      BY <1>4, <1>6, <2>3 DEF SameOthers
    <3> QED
      BY <1>2, <2>3, <3>1
  <2> QED
    BY <2>1, <2>2, <2>3
<1>7. Structured(d, dir, lf2, n)
  BY <1>2, <1>4, <1>5, <1>6 DEF Structured
<1>8. ASSUME NEW l \in Keys
      PROVE  Value(d, dir, lf2, l) = IF l = k THEN GetIn(t, k) ELSE Value(d, dir, lf, l)
  <2> DEFINE v == LeafOf(dir, d, l)
  <2>1. v \in 0 .. n - 1
    BY LeafHas
  <2>2. CASE l = k
    BY <1>4, <2>2 DEF Value
  <2>3. CASE l # k /\ v # u
    BY <1>4, <2>1, <2>3 DEF Value
  <2>4. CASE l # k /\ v = u
    <3>1. Value(d, dir, lf2, l) = GetIn(t, l) /\ Value(d, dir, lf, l) = GetIn(lf[u].entries, l)
      BY <1>4, <2>4 DEF Value
    <3>2. \A y \in Data : [hashkey |-> l, data |-> y] \in Members(t)
                            <=> [hashkey |-> l, data |-> y] \in Members(lf[u].entries)
      <4> TAKE y \in Data
      <4>1. [hashkey |-> l, data |-> y].hashkey # k
        BY <2>4
      <4> QED
        BY <4>1 DEF SameOthers
    <3>3. GetIn(t, l) = GetIn(lf[u].entries, l)
      BY <1>1, <3>2, SameGet
    <3> QED
      BY <2>4, <3>1, <3>3
  <2> QED
    BY <2>2, <2>3, <2>4
<1> QED
  BY <1>7, <1>8

----------------------------------------------------------------------------
(* Doubling and splitting *)

\* A doubled directory leads every key where the old one did.
LEMMA DoubledIs ==
    ASSUME NEW d \in 1 .. KeyBits - 1, NEW n \in Nat, NEW dir \in [0 .. Pow2[d] - 1 -> 0 .. n - 1]
    PROVE  /\ doubled(dir, d) \in [0 .. Pow2[d + 1] - 1 -> 0 .. n - 1]
           /\ \A k \in Keys : LeafOf(doubled(dir, d), d + 1, k) = LeafOf(dir, d, k)
<1>1. KeyBits \in Nat /\ d \in 0 .. KeyBits /\ d + 1 \in 0 .. KeyBits /\ d + 1 \in 1 .. KeyBits /\ d < KeyBits
      /\ (d + 1) - 1 = d
  BY ExHashAssumption
<1>2. Pow2[d] \in Nat /\ Pow2[d + 1] = 2 * Pow2[d]
  BY <1>1, Powers
<1> DEFINE p == Pow2[d]
           q == Pow2[d + 1]
<1>3. doubled(dir, d) = [i \in 0 .. q - 1 |-> dir[i \div 2]]
  BY DEF doubled
<1>4. p \in Nat /\ q = 2 * p /\ dir \in [0 .. p - 1 -> 0 .. n - 1]
  BY <1>2
<1>5. \A k \in Keys : MSB(k, d + 1) \in 0 .. q - 1 /\ MSB(k, d + 1) \div 2 = MSB(k, d)
  BY <1>1, LeadingBits
<1> HIDE DEF p, q
<1>6. \A i \in 0 .. q - 1 : i \div 2 \in 0 .. p - 1
  BY ONLY <1>4
<1>7. doubled(dir, d) \in [0 .. q - 1 -> 0 .. n - 1]
  BY <1>3, <1>4, <1>6
<1>8. \A k \in Keys : LeafOf(doubled(dir, d), d + 1, k) = LeafOf(dir, d, k)
  BY <1>3, <1>5 DEF LeafOf
<1> QED
  BY <1>7, <1>8 DEF q

\* The directory and the leaves after a split.
Redirected(was, old, n) == [i \in DOMAIN was |-> IF was[i] = old /\ i % 2 = 1 THEN n ELSE was[i]]
Parted(lf, n, old, ld, dir2, gd) ==
    [u \in 0 .. n |-> IF u \in {old, n}
        THEN [depth |-> ld, entries |-> Goes(lf[old].entries, dir2, gd, u)]
        ELSE lf[u]]

\* A leaf that splits: its entries go where the new directory has them.
LEMMA SplitIs ==
    ASSUME NEW d, NEW dir, NEW lf, NEW n, Structured(d, dir, lf, n),
           NEW gd \in 1 .. KeyBits, NEW was \in [0 .. Pow2[gd] - 1 -> 0 .. n - 1],
           \A k \in Keys : LeafOf(was, gd, k) = LeafOf(dir, d, k),
           NEW old \in 0 .. n - 1, NEW ld \in Nat,
           NEW dir2, dir2 = Redirected(was, old, n), NEW lf2, lf2 = Parted(lf, n, old, ld, dir2, gd)
    PROVE  /\ Structured(gd, dir2, lf2, n + 1)
           /\ \A k \in Keys : Value(gd, dir2, lf2, k) = Value(d, dir, lf, k)
<1> DEFINE s == lf[old].entries
           half(u) == Goes(s, dir2, gd, u)
<1>1. /\ d \in 1 .. KeyBits /\ n \in Nat /\ lf \in [0 .. n - 1 -> [depth : Nat, entries : Seq(Entries)]]
      /\ \A v \in 0 .. n - 1 : Chain(lf[v].entries)
      /\ \A v \in 0 .. n - 1 : \A x \in Members(lf[v].entries) : LeafOf(dir, d, x.hashkey) = v
  BY DEF Structured
<1>2. Chain(s)
  BY <1>1
<1>3. \A u : /\ Chain(half(u)) /\ half(u) \in Seq(Entries)
             /\ \A x : x \in Members(half(u)) <=> x \in Members(s) /\ LeafOf(dir2, gd, x.hashkey) = u
  <2> TAKE u
  <2> HIDE DEF s
  <2>1. /\ Chain(Goes(s, dir2, gd, u))
        /\ \A x : x \in Members(Goes(s, dir2, gd, u)) <=> x \in Members(s) /\ LeafOf(dir2, gd, x.hashkey) = u
    BY ONLY <1>2, GoesIs
  <2>2. Goes(s, dir2, gd, u) \in Seq(Entries)
    BY ONLY <2>1 DEF Chain
  <2> QED
    BY <2>1, <2>2
<1>4. /\ \A u \in {old, n} : lf2[u].entries = half(u) /\ lf2[u].depth = ld /\ lf2[u] = [depth |-> ld, entries |-> half(u)]
      /\ \A u \in 0 .. n - 1 : u # old => lf2[u] = lf[u]
      /\ DOMAIN lf2 = 0 .. n /\ lf2 = [u \in 0 .. n |-> lf2[u]]
  <2>1. \A u \in {old, n} : u \in 0 .. n
    BY <1>1
  <2>2. \A u \in 0 .. n - 1 : u \in 0 .. n /\ u # n
    BY <1>1
  <2> QED
    BY <2>1, <2>2 DEF Parted
<1> HIDE DEF half
<1>5. /\ (n + 1) - 1 = n /\ n + 1 \in Nat /\ n \in 0 .. n /\ old \in 0 .. n /\ n \notin 0 .. n - 1
      /\ \A u : u \in 0 .. n <=> u \in 0 .. n - 1 \/ u = n
      /\ \A u \in 0 .. n - 1 : u \in 0 .. n
  BY <1>1
<1>6. lf2 \in [0 .. n -> [depth : Nat, entries : Seq(Entries)]]
  <2> SUFFICES ASSUME NEW u \in 0 .. n PROVE lf2[u] \in [depth : Nat, entries : Seq(Entries)]
    BY <1>4
  <2>1. CASE u \in {old, n}
    BY <1>3, <1>4, <2>1
  <2>2. CASE u \notin {old, n}
    BY <1>1, <1>4, <1>5, <2>2, ZenonT(40)
  <2> QED
    BY <2>1, <2>2
<1>7. dir2 \in [0 .. Pow2[gd] - 1 -> 0 .. n]
  BY <1>5 DEF Redirected
<1>8. ASSUME NEW k \in Keys
      PROVE  /\ LeafOf(dir, d, k) \in 0 .. n - 1
             /\ LeafOf(dir, d, k) # old => LeafOf(dir2, gd, k) = LeafOf(dir, d, k)
             /\ LeafOf(dir, d, k) = old => LeafOf(dir2, gd, k) \in {old, n}
  <2>1. MSB(k, gd) \in 0 .. Pow2[gd] - 1
    <3>1. gd \in 0 .. KeyBits
      BY ExHashAssumption
    <3> QED
      BY <3>1, LeadingBits
  <2> DEFINE i == MSB(k, gd)
  <2>2. LeafOf(dir2, gd, k) = dir2[i] /\ LeafOf(was, gd, k) = was[i]
    BY DEF LeafOf
  <2>3. i \in DOMAIN was
    BY <2>1
  <2> HIDE DEF i
  <2>4. dir2[i] = IF was[i] = old /\ i % 2 = 1 THEN n ELSE was[i]
    BY <2>3 DEF Redirected
  <2>5. LeafOf(dir, d, k) = was[i]
    BY <2>2
  <2>6. LeafOf(dir, d, k) \in 0 .. n - 1
    BY LeafHas
  <2> QED
    BY <2>2, <2>4, <2>5, <2>6
<1>9. ASSUME NEW u \in 0 .. n
      PROVE  /\ Chain(lf2[u].entries)
             /\ \A x \in Members(lf2[u].entries) : LeafOf(dir2, gd, x.hashkey) = u
  <2>1. CASE u \in {old, n}
    BY <1>3, <1>4, <2>1
  <2>2. CASE u \notin {old, n}
    <3>1. lf2[u] = lf[u] /\ u \in 0 .. n - 1
      BY <1>4, <1>5, <2>2
    <3>2. ASSUME NEW x \in Members(lf[u].entries)
          PROVE  LeafOf(dir2, gd, x.hashkey) = u
      <4>1. x.hashkey \in Keys
        <5>1. Chain(lf[u].entries)
          BY <1>1, <3>1
        <5>2. PICK j \in 1 .. Len(lf[u].entries) : x = lf[u].entries[j]
          BY DEF Members
        <5> QED
          BY <5>1, <5>2, ChainParts
      <4>2. LeafOf(dir, d, x.hashkey) = u
        BY <1>1, <3>1, <3>2
      <4> QED
        BY <1>8, <2>2, <4>1, <4>2
    <3> QED
      BY <1>1, <3>1, <3>2
  <2> QED
    BY <2>1, <2>2
<1>10. Structured(gd, dir2, lf2, n + 1)
  BY <1>5, <1>6, <1>7, <1>9 DEF Structured
<1>11. ASSUME NEW k \in Keys
       PROVE  Value(gd, dir2, lf2, k) = Value(d, dir, lf, k)
  <2> DEFINE v == LeafOf(dir, d, k)
             w == LeafOf(dir2, gd, k)
  <2>1. v \in 0 .. n - 1 /\ (v # old => w = v) /\ (v = old => w \in {old, n})
    BY <1>8
  <2>2. Value(gd, dir2, lf2, k) = GetIn(lf2[w].entries, k) /\ Value(d, dir, lf, k) = GetIn(lf[v].entries, k)
    BY DEF Value
  <2>3. CASE v # old
    BY <1>4, <2>1, <2>2, <2>3
  <2>4. CASE v = old
    <3>1. lf2[w].entries = half(w) /\ lf[v].entries = s
      BY <1>4, <2>1, <2>4
    <3>2. \A y \in Data : [hashkey |-> k, data |-> y] \in Members(half(w)) <=> [hashkey |-> k, data |-> y] \in Members(s)
      <4> TAKE y \in Data
      <4>1. [hashkey |-> k, data |-> y].hashkey = k
        OBVIOUS
      <4> QED
        BY <1>3, <4>1
    <3> HIDE DEF s, v, w
    <3>3. GetIn(half(w), k) = GetIn(s, k)
      BY <1>2, <1>3, <3>2, SameGet
    <3> QED
      BY <2>2, <3>1, <3>3
  <2> QED
    BY <2>3, <2>4
<1> QED
  BY <1>10, <1>11

----------------------------------------------------------------------------
(* The walk *)

\* The leaves of the chain: every key has one place.
OnePlace(lf, l, n) ==
    /\ n \in Nat \ {0}
    /\ \A i \in 1 .. n : /\ l[i] \in 0 .. n - 1 /\ Chain(lf[l[i]].entries) /\ Len(lf[l[i]].entries) \in Nat
                         /\ \A j \in 1 .. Len(lf[l[i]].entries) : lf[l[i]].entries[j].hashkey \in Keys
    /\ \A u \in 0 .. n - 1 : \E i \in 1 .. n : u = l[i]
    /\ \A a, b \in 1 .. n : \A i \in 1 .. Len(lf[l[a]].entries), j \in 1 .. Len(lf[l[b]].entries) :
          lf[l[a]].entries[i].hashkey = lf[l[b]].entries[j].hashkey => a = b /\ i = j

LEMMA ChainOfLeaves ==
    ASSUME NEW d, NEW dir, NEW lf, NEW n, Structured(d, dir, lf, n), NEW l, Chained(l, n)
    PROVE  OnePlace(lf, l, n)
<1>1. /\ n \in Nat /\ \A v \in 0 .. n - 1 : Chain(lf[v].entries)
      /\ \A v \in 0 .. n - 1 : \A x \in Members(lf[v].entries) : LeafOf(dir, d, x.hashkey) = v
      /\ d \in 1 .. KeyBits /\ dir \in [0 .. Pow2[d] - 1 -> 0 .. n - 1]
  BY DEF Structured
<1>2. \A i \in 1 .. n : l[i] = n - i
  BY DEF Chained
<1>3. n # 0
  <2>1. d \in 0 .. KeyBits
    BY <1>1, ExHashAssumption
  <2>2. Pow2[d] \in Nat \ {0}
    BY <2>1, Powers
  <2>3. 0 \in 0 .. Pow2[d] - 1
    BY <2>2
  <2>4. dir[0] \in 0 .. n - 1
    BY <1>1, <2>3
  <2> QED
    BY <1>1, <2>4
<1>4. \A i \in 1 .. n : l[i] \in 0 .. n - 1
  BY <1>1, <1>2
<1>5. \A i \in 1 .. n : Chain(lf[l[i]].entries)
  BY <1>1, <1>4
<1>6. \A i \in 1 .. n : /\ Len(lf[l[i]].entries) \in Nat
                        /\ \A j \in 1 .. Len(lf[l[i]].entries) : lf[l[i]].entries[j].hashkey \in Keys
  BY <1>5, ChainParts
<1>7. \A u \in 0 .. n - 1 : \E i \in 1 .. n : u = l[i]
  <2> TAKE u \in 0 .. n - 1
  <2>1. n - u \in 1 .. n /\ n - (n - u) = u
    BY <1>1
  <2> QED
    BY <1>2, <2>1
<1>8. ASSUME NEW a \in 1 .. n, NEW b \in 1 .. n,
             NEW i \in 1 .. Len(lf[l[a]].entries), NEW j \in 1 .. Len(lf[l[b]].entries),
             lf[l[a]].entries[i].hashkey = lf[l[b]].entries[j].hashkey
      PROVE  a = b /\ i = j
  <2>1. lf[l[a]].entries[i] \in Members(lf[l[a]].entries) /\ lf[l[b]].entries[j] \in Members(lf[l[b]].entries)
    BY DEF Members
  <2>2. l[a] = l[b]
    <3>1. l[a] \in 0 .. n - 1 /\ l[b] \in 0 .. n - 1
      BY <1>4
    <3>2. LeafOf(dir, d, lf[l[a]].entries[i].hashkey) = l[a] /\ LeafOf(dir, d, lf[l[b]].entries[j].hashkey) = l[b]
      BY <1>1, <2>1, <3>1, Zenon
    <3> QED
      BY <1>8, <3>2
  <2>3. a = b
    BY <1>1, <1>2, <2>2
  <2>4. i = j
    <3> DEFINE s == lf[l[a]].entries
    <3>1. Chain(s) /\ i \in 1 .. Len(s) /\ j \in 1 .. Len(s) /\ s[i].hashkey = s[j].hashkey
      BY <1>5, <1>8, <2>3
    <3> HIDE DEF s
    <3> QED
      BY <3>1, ChainParts
  <2> QED
    BY <2>3, <2>4
<1> QED
  BY <1>1, <1>3, <1>4, <1>5, <1>6, <1>7, <1>8 DEF OnePlace

\* What NextPlace finds after the entries up to a place: the next entry, or that
\* these were all.
NextIs(d, dir, at, index) ==
    \/ /\ NextPlace(at, index) = NoLeaf
       /\ Passed(leaf, leaves, at, index) = Stored(d, dir, leaf)
    \/ \E i \in 1 .. Len(leaves) : \E j \in 1 .. Len(leaf[leaves[i]].entries) :
          /\ NextPlace(at, index) = <<i, j - 1>>
          /\ leaf[leaves[i]].entries[j].hashkey \notin Passed(leaf, leaves, at, index)
          /\ Passed(leaf, leaves, i, j) =
                Passed(leaf, leaves, at, index) \cup {leaf[leaves[i]].entries[j].hashkey}

LEMMA NextPlaceIs ==
    ASSUME NEW d, NEW dir, Structured(d, dir, leaf, Len(leaves)), Chained(leaves, Len(leaves)),
           NEW at \in 1 .. Len(leaves), NEW index \in Nat, index <= Len(leaf[leaves[at]].entries)
    PROVE  NextIs(d, dir, at, index)
<1> DEFINE n == Len(leaves)
           E(i) == leaf[leaves[i]].entries
           M == {i \in at .. n : (IF i = at THEN index ELSE 0) < Len(E(i))}
           c == CHOOSE i \in M : \A m \in M : i <= m
           Before(i, j) == i < at \/ (i = at /\ j <= index)
<1>1. /\ n \in Nat /\ \A i \in 1 .. n : Len(E(i)) \in Nat /\ \A j \in 1 .. Len(E(i)) : E(i)[j].hashkey \in Keys
      /\ \A u \in 0 .. n - 1 : \E i \in 1 .. n : u = leaves[i]
      /\ \A i \in 1 .. n : leaves[i] \in 0 .. n - 1
      /\ \A a, b \in 1 .. n : \A i \in 1 .. Len(E(a)), j \in 1 .. Len(E(b)) :
            E(a)[i].hashkey = E(b)[j].hashkey => a = b /\ i = j
  <2>1. OnePlace(leaf, leaves, n)
    BY ChainOfLeaves
  <2> HIDE DEF n
  <2> QED
    BY ONLY <2>1 DEF OnePlace
<1>2. NextPlace(at, index) = IF M = {} THEN NoLeaf ELSE <<c, IF c = at THEN index ELSE 0>>
  BY DEF NextPlace
<1>3. \A k : k \in Passed(leaf, leaves, at, index) <=>
                k \in Keys /\ \E i \in 1 .. n : \E j \in 1 .. Len(E(i)) : Before(i, j) /\ k = E(i)[j].hashkey
  BY DEF Passed
<1>4. \A k \in Keys : k \in Stored(d, dir, leaf) <=> \E i \in 1 .. n : \E j \in 1 .. Len(E(i)) : k = E(i)[j].hashkey
  <2> TAKE k \in Keys
  <2>1. k \in Stored(d, dir, leaf) <=>
            \E u \in 0 .. n - 1 : \E j \in 1 .. Len(leaf[u].entries) : leaf[u].entries[j].hashkey = k
    BY ValueIs DEF Stored
  <2>2. ASSUME NEW i \in 1 .. n, NEW j \in 1 .. Len(E(i)), k = E(i)[j].hashkey
        PROVE  k \in Stored(d, dir, leaf)
    <3>1. leaves[i] \in 0 .. n - 1
      BY <1>1
    <3> HIDE DEF n
    <3> QED
      BY <2>1, <2>2, <3>1, Zenon
  <2>3. ASSUME NEW u \in 0 .. n - 1, NEW j \in 1 .. Len(leaf[u].entries), leaf[u].entries[j].hashkey = k
        PROVE  \E i \in 1 .. n : \E jj \in 1 .. Len(E(i)) : k = E(i)[jj].hashkey
    <3>1. PICK i \in 1 .. n : u = leaves[i]
      BY <1>1
    <3> HIDE DEF n
    <3> QED
      BY <2>3, <3>1, Zenon
  <2> HIDE DEF E, n
  <2> QED
    BY <2>1, <2>2, <2>3, Zenon
<1>5. at \in 1 .. n /\ at \in Nat /\ index <= Len(E(at))
  BY <1>1
<1>6. Stored(d, dir, leaf) \subseteq Keys
  BY DEF Stored
<1>7. \A i \in 1 .. n : i \in M <=> i >= at /\ (IF i = at THEN index ELSE 0) < Len(E(i))
  BY <1>1, <1>5
<1> HIDE DEF n, E
<1>8. CASE M = {}
  <2>1. ASSUME NEW i \in 1 .. n, NEW j \in 1 .. Len(E(i))
        PROVE  Before(i, j)
    <3>1. ~(i >= at /\ (IF i = at THEN index ELSE 0) < Len(E(i)))
      BY <1>7, <1>8
    <3>2. i \in Nat /\ j \in Nat /\ j >= 1 /\ j <= Len(E(i)) /\ Len(E(i)) \in Nat
      BY <1>1
    <3> HIDE DEF M
    <3> QED
      BY <1>5, <3>1, <3>2
  <2> HIDE DEF Before, M
  <2>2. \A k : k \in Passed(leaf, leaves, at, index) <=> k \in Stored(d, dir, leaf)
    BY <1>3, <1>4, <1>6, <2>1
  <2>3. Passed(leaf, leaves, at, index) = Stored(d, dir, leaf)
    BY <2>2
  <2> QED
    BY <1>2, <1>8, <2>3 DEF NextIs
<1>9. CASE M # {}
  <2>1. c \in M /\ \A m \in M : c <= m
    <3>1. M \in SUBSET Nat
      BY <1>1, <1>5
    <3> HIDE DEF M
    <3>2. \E i \in M : \A m \in M : i <= m
      BY <1>9, <3>1, NatLeast
    <3> QED
      BY <3>2
  <2> DEFINE from == IF c = at THEN index ELSE 0
             j == from + 1
  <2>2. c \in 1 .. n /\ c >= at /\ from < Len(E(c))
    BY <1>1, <1>5, <2>1
  <2>3. NextPlace(at, index) = <<c, from>>
    BY <1>2, <1>9
  <2>4. \A m \in 1 .. n : m < c => ~(m >= at /\ (IF m = at THEN index ELSE 0) < Len(E(m)))
    <3> TAKE m \in 1 .. n
    <3> HIDE DEF M, c
    <3>1. m < c => m \notin M
      BY <1>1, <2>1, <2>2
    <3> QED
      BY <1>7, <3>1
  <2> HIDE DEF M, c
  <2>5. from \in Nat /\ Len(E(c)) \in Nat /\ c \in Nat /\ (c = at => from = index) /\ (c # at => from = 0)
    BY <1>1, <2>2
  <2> HIDE DEF from
  <2>6. j \in 1 .. Len(E(c)) /\ j - 1 = from /\ j \in Nat
    BY <2>2, <2>5
  <2> HIDE DEF j
  <2>7. ASSUME NEW i \in 1 .. n, NEW jj \in 1 .. Len(E(i))
        PROVE  i < c \/ (i = c /\ jj <= j) <=> Before(i, jj) \/ (i = c /\ jj = j)
    <3>1. i \in Nat /\ jj \in Nat /\ jj >= 1 /\ jj <= Len(E(i)) /\ Len(E(i)) \in Nat
      BY <1>1
    <3>2. i < c => ~(i >= at /\ (IF i = at THEN index ELSE 0) < Len(E(i)))
      BY <2>4
    <3>3. ASSUME i < c
          PROVE  Before(i, jj)
      BY <1>5, <3>1, <3>2, <3>3
    <3>4. ASSUME i = c
          PROVE  jj <= j <=> Before(i, jj) \/ jj = j
      BY <1>5, <2>2, <2>5, <2>6, <3>1, <3>4
    <3>5. ASSUME i > c
          PROVE  ~Before(i, jj)
      BY <1>5, <2>2, <2>5, <3>1, <3>5
    <3> HIDE DEF Before
    <3>6. (i < c /\ i # c) \/ i = c \/ (i > c /\ ~(i < c) /\ i # c)
      BY <2>5, <3>1
    <3> QED
      BY <3>3, <3>4, <3>5, <3>6
  <2>8. ~Before(c, j)
    BY <1>5, <2>2, <2>5, <2>6
  <2> HIDE DEF Before
  <2>9. E(c)[j].hashkey \in Keys
    BY <1>1, <2>2, <2>6
  <2>10. E(c)[j].hashkey \notin Passed(leaf, leaves, at, index)
    <3> SUFFICES ASSUME NEW i \in 1 .. n, NEW jj \in 1 .. Len(E(i)), Before(i, jj), E(c)[j].hashkey = E(i)[jj].hashkey
                 PROVE  FALSE
      BY <1>3
    <3>1. i = c /\ jj = j
      BY <1>1, <2>2, <2>6
    <3> QED
      BY <2>8, <3>1
  <2>11. \A k : k \in Passed(leaf, leaves, c, j) <=>
                 k \in Keys /\ \E i \in 1 .. n : \E jj \in 1 .. Len(E(i)) :
                                  (i < c \/ (i = c /\ jj <= j)) /\ k = E(i)[jj].hashkey
    BY DEF Passed, n, E
  <2>12. \A k : k \in Passed(leaf, leaves, c, j) <=>
                 k \in Passed(leaf, leaves, at, index) \/ k = E(c)[j].hashkey
    BY <1>3, <2>2, <2>6, <2>7, <2>9, <2>11
  <2>13. Passed(leaf, leaves, c, j) = Passed(leaf, leaves, at, index) \cup {E(c)[j].hashkey}
    BY <2>12
  <2> QED
    BY <2>2, <2>3, <2>6, <2>10, <2>13 DEF E, n, NextIs
<1> QED
  BY <1>8, <1>9

----------------------------------------------------------------------------
(* The steps *)

Has(k) == Value(depth, directory, leaf, k)

Becomes(k, v) == \A l \in Keys : Has(l)' = IF l = k THEN v ELSE Has(l)

LEMMA GetIsValue ==
    ASSUME Structured(depth, directory, leaf, Len(leaves)), NEW k \in Keys
    PROVE  /\ ncexhashget(k) = Has(k) /\ Found(k) = Holds(leaf[LeafOf(directory, depth, k)].entries, k)
           /\ Found(k) <=> Has(k) # NoData
<1>1. Chain(leaf[LeafOf(directory, depth, k)].entries)
  BY LeafHas
<1>2. ncexhashget(k) = Has(k) /\ Found(k) = Holds(leaf[LeafOf(directory, depth, k)].entries, k)
  BY DEF ncexhashget, Found, Mine, Has, Value, GetIn
<1>3. Found(k) <=> Has(k) # NoData
  BY <1>1, <1>2, GetIs DEF Has, Value
<1> QED
  BY <1>2, <1>3

\* The data of a key that is there are replaced.
LEMMA SetIs ==
    ASSUME NEW d, NEW dir, NEW lf, NEW n, Structured(d, dir, lf, n), NEW e \in Entries,
           NEW u, u = LeafOf(dir, d, e.hashkey), Holds(lf[u].entries, e.hashkey),
           NEW lf2, lf2 = WithEntries(lf, u, Swap(lf[u].entries, e))
    PROVE  /\ Structured(d, dir, lf2, n)
           /\ \A l \in Keys : Value(d, dir, lf2, l) = IF l = e.hashkey THEN e.data ELSE Value(d, dir, lf, l)
<1> DEFINE s == lf[u].entries
           k == e.hashkey
           t == Swap(s, e)
<1>1. k \in Keys /\ e.data \in Data /\ e = [hashkey |-> k, data |-> e.data]
  BY DEF Entries
<1>2. Chain(s) /\ Holds(s, k)
  BY <1>1, LeafHas
<1>3. lf2 = WithEntries(lf, u, t)
  OBVIOUS
<1> HIDE DEF s
<1>4. Chain(t) /\ \A x : x \in Members(t) <=> (x \in Members(s) /\ x.hashkey # k) \/ x = e
  BY <1>2, Replaced
<1> HIDE DEF t
<1>5. SameOthers(s, t, k)
  BY <1>4 DEF SameOthers
<1>6. GetIn(t, k) = e.data
  <2>1. [hashkey |-> k, data |-> e.data] \in Members(t)
    BY <1>1, <1>4
  <2> QED
    BY <1>1, <1>4, <2>1, GetIs
<1> HIDE DEF k
<1>7. /\ Structured(d, dir, lf2, n)
      /\ \A l \in Keys : Value(d, dir, lf2, l) = IF l = k THEN GetIn(t, k) ELSE Value(d, dir, lf, l)
  <2>1. u = LeafOf(dir, d, k)
    BY DEF k
  <2> QED
    BY <1>1, <1>3, <1>4, <1>5, <2>1, LeafChanged DEF s
<1> QED
  BY <1>6, <1>7 DEF k

\* A new entry.
LEMMA InsertIs ==
    ASSUME NEW d, NEW dir, NEW lf, NEW n, Structured(d, dir, lf, n), NEW e \in Entries,
           NEW u, u = LeafOf(dir, d, e.hashkey), ~Holds(lf[u].entries, e.hashkey),
           NEW lf2, lf2 = WithEntries(lf, u, Splice(lf[u].entries, exbinsearch(e.hashkey, lf[u].entries), e))
    PROVE  /\ Structured(d, dir, lf2, n)
           /\ \A l \in Keys : Value(d, dir, lf2, l) = IF l = e.hashkey THEN e.data ELSE Value(d, dir, lf, l)
<1> DEFINE s == lf[u].entries
           k == e.hashkey
           t == Splice(s, exbinsearch(k, s), e)
<1>1. k \in Keys /\ e.data \in Data /\ e = [hashkey |-> k, data |-> e.data]
  BY DEF Entries
<1>2. Chain(s) /\ ~Holds(s, k)
  BY <1>1, LeafHas
<1>3. lf2 = WithEntries(lf, u, t)
  OBVIOUS
<1> HIDE DEF s
<1>4. Chain(t) /\ \A x : x \in Members(t) <=> x \in Members(s) \/ x = e
  BY <1>2, Inserted
<1> HIDE DEF t
<1>5. SameOthers(s, t, k)
  BY <1>4 DEF SameOthers
<1>6. GetIn(t, k) = e.data
  <2>1. [hashkey |-> k, data |-> e.data] \in Members(t)
    BY <1>1, <1>4
  <2> QED
    BY <1>1, <1>4, <2>1, GetIs
<1> HIDE DEF k
<1>7. /\ Structured(d, dir, lf2, n)
      /\ \A l \in Keys : Value(d, dir, lf2, l) = IF l = k THEN GetIn(t, k) ELSE Value(d, dir, lf, l)
  <2>1. u = LeafOf(dir, d, k)
    BY DEF k
  <2> QED
    BY <1>1, <1>3, <1>4, <1>5, <2>1, LeafChanged DEF s
<1> QED
  BY <1>6, <1>7 DEF k

\* An entry goes.
LEMMA RemoveIs ==
    ASSUME NEW d, NEW dir, NEW lf, NEW n, Structured(d, dir, lf, n), NEW k \in Keys,
           NEW u, u = LeafOf(dir, d, k), Holds(lf[u].entries, k),
           NEW lf2, lf2 = WithEntries(lf, u, Without(lf[u].entries, exbinsearch(k, lf[u].entries)))
    PROVE  /\ Structured(d, dir, lf2, n)
           /\ \A l \in Keys : Value(d, dir, lf2, l) = IF l = k THEN NoData ELSE Value(d, dir, lf, l)
<1> DEFINE s == lf[u].entries
           t == Without(s, exbinsearch(k, s))
<1>1. Chain(s) /\ Holds(s, k)
  BY LeafHas
<1>2. lf2 = WithEntries(lf, u, t)
  OBVIOUS
<1> HIDE DEF s
<1>3. Chain(t) /\ \A x : x \in Members(t) <=> x \in Members(s) /\ x.hashkey # k
  BY <1>1, Removed
<1> HIDE DEF t
<1>4. SameOthers(s, t, k)
  BY <1>3 DEF SameOthers
<1>5. GetIn(t, k) = NoData
  <2>1. ASSUME NEW y \in Data
        PROVE  [hashkey |-> k, data |-> y] \notin Members(t)
    <3>1. [hashkey |-> k, data |-> y].hashkey = k
      OBVIOUS
    <3> QED
      BY <1>3, <3>1
  <2> QED
    BY <1>3, <2>1, GetIs
<1>6. /\ Structured(d, dir, lf2, n)
      /\ \A l \in Keys : Value(d, dir, lf2, l) = IF l = k THEN GetIn(t, k) ELSE Value(d, dir, lf, l)
  BY <1>2, <1>3, <1>4, LeafChanged DEF s
<1> QED
  BY <1>5, <1>6

\* The keys that are stored, and their number, when one key changes.
LEMMA StoredChange ==
    ASSUME NEW S, IsFiniteSet(S), NEW k, NEW T
    PROVE  /\ Cardinality(S) \in Nat
           /\ (k \notin S /\ T = S \cup {k}) => IsFiniteSet(T) /\ Cardinality(T) = Cardinality(S) + 1
           /\ (k \in S /\ T = S \ {k}) => IsFiniteSet(T) /\ Cardinality(T) = Cardinality(S) - 1
<1>1. Cardinality(S) \in Nat
  BY FS_CardinalityType
<1>2. /\ IsFiniteSet(S \cup {k})
      /\ Cardinality(S \cup {k}) = IF k \in S THEN Cardinality(S) ELSE Cardinality(S) + 1
  BY FS_AddElement
<1>3. /\ IsFiniteSet(S \ {k})
      /\ Cardinality(S \ {k}) = IF k \in S THEN Cardinality(S) - 1 ELSE Cardinality(S)
  BY FS_RemoveElement
<1> QED
  BY <1>1, <1>2, <1>3

StoredNow == Stored(depth, directory, leaf)

LEMMA StoredIs == StoredNow = {k \in Keys : Has(k) # NoData} /\ StoredNow' = {k \in Keys : Has(k)' # NoData}
  BY DEF StoredNow, Stored, Has

LEMMA StoredSteps ==
    ASSUME IsFiniteSet(StoredNow), NEW k \in Keys, NEW v, Becomes(k, v)
    PROVE  /\ Has(k) = NoData /\ v # NoData =>
                 IsFiniteSet(StoredNow') /\ Cardinality(StoredNow') = Cardinality(StoredNow) + 1
           /\ Has(k) # NoData /\ v = NoData =>
                 IsFiniteSet(StoredNow') /\ Cardinality(StoredNow') = Cardinality(StoredNow) - 1
           /\ Has(k) # NoData /\ v # NoData => StoredNow' = StoredNow
<1>1. \A l : l \in StoredNow <=> l \in Keys /\ Has(l) # NoData
  BY StoredIs
<1>2. \A l : l \in StoredNow' <=> l \in Keys /\ (IF l = k THEN v # NoData ELSE Has(l) # NoData)
  BY StoredIs DEF Becomes
<1>3. Has(k) = NoData /\ v # NoData => k \notin StoredNow /\ StoredNow' = StoredNow \cup {k}
  BY <1>1, <1>2
<1>4. Has(k) # NoData /\ v = NoData => k \in StoredNow /\ StoredNow' = StoredNow \ {k}
  BY <1>1, <1>2
<1>5. Has(k) # NoData /\ v # NoData => StoredNow' = StoredNow
  BY <1>1, <1>2
<1> DEFINE T == StoredNow'
<1>6. /\ (k \notin StoredNow /\ T = StoredNow \cup {k}) =>
             IsFiniteSet(T) /\ Cardinality(T) = Cardinality(StoredNow) + 1
      /\ (k \in StoredNow /\ T = StoredNow \ {k}) =>
             IsFiniteSet(T) /\ Cardinality(T) = Cardinality(StoredNow) - 1
  <2> HIDE DEF T
  <2> QED
    BY StoredChange
<1> QED
  BY <1>3, <1>4, <1>5, <1>6

\* What the invariant says, part by part.
LEMMA InvParts ==
    TableInv <=>
        /\ use \in Uses /\ depth <= use.depth
        /\ Structured(depth, directory, leaf, Len(leaves))
        /\ Chained(leaves, Len(leaves))
        /\ IsFiniteSet(StoredNow) /\ nactive = Cardinality(StoredNow)
        /\ locating \in Entries \cup {NoEntry}
        /\ locating # NoEntry => Has(locating.hashkey) = NoData
        /\ WalkInv
  BY DEF TableInv, StoredNow, Has

LEMMA NotAnEntry == NoEntry \notin Entries
<1>1. NoEntry.hashkey = -1
  BY DEF NoEntry
<1>2. -1 \notin Nat
  OBVIOUS
<1> QED
  BY <1>1, <1>2, KeyNat

LEMMA UseParts ==
    ASSUME use \in Uses
    PROVE  use.keys \subseteq Keys /\ use.data \subseteq Data /\ use.depth \in 1 .. KeyBits
  BY ExHashAssumption

\* A walk is not under way while a call of another operation runs.
LEMMA NotWalking ==
    ASSUME WalkInv, locating # NoEntry \/ ~iterator.walking
    PROVE  iterator = Idle /\ seen = {}
  BY DEF WalkInv

\* A step that changes one leaf.
LEMMA OneLeaf ==
    ASSUME TableInv, NEW k \in Keys, NEW v \in Data \cup {NoData},
           UNCHANGED <<depth, directory, leaves, iterator, seen, use>>,
           locating # NoEntry \/ ~iterator.walking, locating' = NoEntry,
           Structured(depth, directory, leaf', Len(leaves)),
           \A l \in Keys : Value(depth, directory, leaf', l) = IF l = k THEN v ELSE Has(l),
           Has(k) # NoData \/ v # NoData,
           nactive' = IF Has(k) = NoData THEN nactive + 1 ELSE IF v = NoData THEN nactive - 1 ELSE nactive
    PROVE  TableInv' /\ Becomes(k, v)
<1>1. Becomes(k, v)
  BY DEF Becomes, Has
<1>2. /\ use \in Uses /\ depth <= use.depth /\ Chained(leaves, Len(leaves))
      /\ IsFiniteSet(StoredNow) /\ nactive = Cardinality(StoredNow) /\ WalkInv
  BY InvParts
<1>3. iterator = Idle /\ seen = {}
  BY <1>2, NotWalking
<1>4. WalkInv'
  BY <1>3 DEF WalkInv, Idle
<1>5. Structured(depth, directory, leaf, Len(leaves))'
  OBVIOUS
<1>6. IsFiniteSet(StoredNow') /\ nactive' = Cardinality(StoredNow')
  BY <1>1, <1>2, StoredSteps
<1>7. (depth <= use.depth)' /\ Chained(leaves, Len(leaves))' /\ (use \in Uses)'
  BY <1>2
<1> QED
  BY <1>1, <1>4, <1>5, <1>6, <1>7 DEF TableInv, StoredNow

\* What a step does to the map the table stands for.
Moves ==
    \/ (\A l \in Keys : Has(l)' = Has(l)) /\ nactive' = nactive
    \/ \E k \in Keys, v \in Data :
          Becomes(k, v) /\ nactive' = IF Has(k) = NoData THEN nactive + 1 ELSE nactive
    \/ \E k \in Keys : Becomes(k, NoData) /\ Has(k) # NoData /\ nactive' = nactive - 1

\* ncexhashput of a key that is there, and ncexhashsetdata.
LEMMA SetStep ==
    ASSUME TableInv, NEW e \in Entries, Found(e.hashkey), SetEntry(e), locating = NoEntry, ~iterator.walking,
           UNCHANGED <<depth, directory, leaves, nactive, iterator, locating, seen, use>>
    PROVE  TableInv' /\ Moves
<1> DEFINE k == e.hashkey
           v == e.data
           u == LeafOf(directory, depth, k)
<1>1. k \in Keys /\ v \in Data /\ v # NoData
  BY KeyNat, ExHashAssumption
<1>2. Structured(depth, directory, leaf, Len(leaves))
  BY InvParts
<1>3. Holds(leaf[u].entries, k) /\ Has(k) # NoData
  BY <1>1, <1>2, GetIsValue
<1>4. leaf' = WithEntries(leaf, u, Swap(leaf[u].entries, e))
  BY DEF SetEntry, WithEntries, Swap
<1> HIDE DEF u
<1>5. /\ Structured(depth, directory, leaf', Len(leaves))
      /\ \A l \in Keys : Value(depth, directory, leaf', l) = IF l = k THEN v ELSE Value(depth, directory, leaf, l)
  <2>1. u = LeafOf(directory, depth, e.hashkey)
    BY DEF u
  <2> QED
    BY <1>2, <1>3, <1>4, <2>1, SetIs
<1>6. \A l \in Keys : Value(depth, directory, leaf', l) = IF l = k THEN v ELSE Has(l)
  BY <1>5 DEF Has
<1> HIDE DEF k, v
<1>7. TableInv' /\ Becomes(k, v)
  BY <1>1, <1>3, <1>5, <1>6, OneLeaf
<1> QED
  BY <1>1, <1>3, <1>7 DEF Moves

\* exhashnewentry.
LEMMA NewEntryStep ==
    ASSUME TableInv, exhashnewentry
    PROVE  TableInv' /\ Moves
<1> DEFINE e == locating
           k == e.hashkey
           v == e.data
           u == LeafOf(directory, depth, k)
<1>1. e \in Entries /\ locating # NoEntry /\ Has(k) = NoData
  BY InvParts DEF exhashnewentry
<1>2. k \in Keys /\ v \in Data /\ v # NoData
  BY <1>1, KeyNat, ExHashAssumption
<1>3. Structured(depth, directory, leaf, Len(leaves))
  BY InvParts
<1>4. ~Holds(leaf[u].entries, k)
  BY <1>1, <1>2, <1>3, GetIsValue
<1>5. leaf' = WithEntries(leaf, u, Splice(leaf[u].entries, exbinsearch(k, leaf[u].entries), e))
  BY DEF exhashnewentry, WithEntries, Splice, Mine
<1>6. /\ nactive' = nactive + 1 /\ locating' = NoEntry
      /\ UNCHANGED <<depth, directory, leaves, iterator, seen, use>>
  BY DEF exhashnewentry
<1> HIDE DEF u
<1>7. /\ Structured(depth, directory, leaf', Len(leaves))
      /\ \A l \in Keys : Value(depth, directory, leaf', l) = IF l = k THEN v ELSE Value(depth, directory, leaf, l)
  <2>1. u = LeafOf(directory, depth, e.hashkey)
    BY DEF u
  <2> HIDE DEF e
  <2> QED
    BY <1>1, <1>3, <1>4, <1>5, <2>1, InsertIs
<1>8. \A l \in Keys : Value(depth, directory, leaf', l) = IF l = k THEN v ELSE Has(l)
  BY <1>7 DEF Has
<1> HIDE DEF k, v, e
<1>9. TableInv' /\ Becomes(k, v)
  BY <1>1, <1>2, <1>6, <1>7, <1>8, OneLeaf
<1> QED
  BY <1>1, <1>2, <1>6, <1>9 DEF Moves

LEMMA RemoveStep ==
    ASSUME TableInv, NEW k \in Keys, ncexhashremove(k)
    PROVE  TableInv' /\ Moves
<1> DEFINE u == LeafOf(directory, depth, k)
<1>1. Structured(depth, directory, leaf, Len(leaves))
  BY InvParts
<1>2. /\ locating = NoEntry /\ ~iterator.walking /\ Found(k) /\ nactive' = nactive - 1
      /\ UNCHANGED <<depth, directory, leaves, iterator, locating, seen, use>>
  BY DEF ncexhashremove
<1>3. Holds(leaf[u].entries, k) /\ Has(k) # NoData
  BY <1>1, <1>2, GetIsValue
<1>4. leaf' = WithEntries(leaf, u, Without(leaf[u].entries, exbinsearch(k, leaf[u].entries)))
  BY DEF ncexhashremove, WithEntries, Without, Mine
<1> HIDE DEF u
<1>5. /\ Structured(depth, directory, leaf', Len(leaves))
      /\ \A l \in Keys : Value(depth, directory, leaf', l) = IF l = k THEN NoData ELSE Value(depth, directory, leaf, l)
  <2>1. u = LeafOf(directory, depth, k)
    BY DEF u
  <2> QED
    BY <1>1, <1>3, <1>4, <2>1, RemoveIs
<1>6. \A l \in Keys : Value(depth, directory, leaf', l) = IF l = k THEN NoData ELSE Has(l)
  BY <1>5 DEF Has
<1>7. TableInv' /\ Becomes(k, NoData)
  BY <1>2, <1>3, <1>5, <1>6, OneLeaf
<1> QED
  BY <1>2, <1>3, <1>7 DEF Moves

\* ncexhashput of a new key: nothing changes yet.
LEMMA BeginStep ==
    ASSUME TableInv, NEW e \in Entries, BeginLocate(e), ~iterator.walking
    PROVE  TableInv' /\ Moves
<1>1. /\ locating' = e /\ UNCHANGED <<depth, directory, leaf, leaves, nactive, iterator, seen, use>> /\ ~Found(e.hashkey)
  BY DEF BeginLocate
<1>2. Has(e.hashkey) = NoData
  BY <1>1, InvParts, KeyNat, GetIsValue
<1>3. iterator = Idle /\ seen = {}
  BY InvParts, NotWalking
<1>4. WalkInv'
  BY <1>1, <1>3 DEF WalkInv, Idle
<1>5. \A l : Has(l)' = Has(l)
  BY <1>1 DEF Has
<1>6. TableInv'
  BY <1>1, <1>2, <1>4 DEF TableInv, Has
<1> QED
  BY <1>1, <1>5, <1>6 DEF Moves

\* exhashdouble finds no memory.
LEMMA NoMemoryStep ==
    ASSUME TableInv, exhashsplitNoMemory
    PROVE  TableInv' /\ Moves
<1> DEFINE u == LeafOf(directory, depth, locating.hashkey)
           n == Len(leaves)
           g == IF leaf[u].depth > use.depth THEN leaf[u].depth ELSE leaf[u].depth + 1
<1>1. /\ locating # NoEntry /\ locating' = NoEntry /\ leaf' = [leaf EXCEPT ![u].depth = g]
      /\ UNCHANGED <<depth, directory, leaves, nactive, iterator, seen, use>>
  BY DEF exhashsplitNoMemory
<1>2. Structured(depth, directory, leaf, n)
  BY InvParts
<1>3. u \in 0 .. n - 1
  BY <1>1, <1>2, InvParts, KeyNat, LeafHas
<1>4. /\ depth \in 1 .. KeyBits /\ n \in Nat
      /\ leaf \in [0 .. n - 1 -> [depth : Nat, entries : Seq(Entries)]]
      /\ directory \in [0 .. Pow2[depth] - 1 -> 0 .. n - 1]
      /\ \A v \in 0 .. n - 1 : Chain(leaf[v].entries)
      /\ \A v \in 0 .. n - 1 : \A x \in Members(leaf[v].entries) : LeafOf(directory, depth, x.hashkey) = v
  BY <1>2 DEF Structured
<1>5. leaf[u].depth \in Nat
  BY <1>3, <1>4
<1> HIDE DEF u, n
<1>6. g \in Nat
  BY <1>5
<1> HIDE DEF g
<1>7. /\ leaf' \in [0 .. n - 1 -> [depth : Nat, entries : Seq(Entries)]]
      /\ \A v \in 0 .. n - 1 : leaf'[v].entries = leaf[v].entries
  BY <1>1, <1>3, <1>4, <1>6
<1>8. Structured(depth, directory, leaf', n)
  BY <1>4, <1>7 DEF Structured
<1>9. \A l \in Keys : Has(l)' = Has(l)
  <2> TAKE l \in Keys
  <2>1. LeafOf(directory, depth, l) \in 0 .. n - 1
    BY <1>2, LeafHas
  <2> QED
    BY <1>1, <1>7, <2>1 DEF Has, Value
<1>10. StoredNow' = StoredNow
  BY <1>9, StoredIs
<1>11. iterator = Idle /\ seen = {}
  BY <1>1, InvParts, NotWalking
<1>12. WalkInv'
  BY <1>1, <1>11 DEF WalkInv, Idle
<1>13. TableInv'
  <2>1. /\ use \in Uses /\ depth <= use.depth /\ Chained(leaves, Len(leaves))
        /\ IsFiniteSet(StoredNow) /\ nactive = Cardinality(StoredNow)
    BY InvParts
  <2>2. Structured(depth, directory, leaf, Len(leaves))'
    BY <1>1, <1>8 DEF n
  <2>3. IsFiniteSet(StoredNow') /\ nactive' = Cardinality(StoredNow')
    BY <1>1, <1>10, <2>1
  <2>4. (depth <= use.depth)' /\ Chained(leaves, Len(leaves))' /\ (use \in Uses)'
    BY <1>1, <2>1
  <2> QED
    BY <1>1, <1>12, <2>2, <2>3, <2>4 DEF TableInv, StoredNow
<1> QED
  BY <1>1, <1>9, <1>13 DEF Moves

\* A new leaf comes first.
Pushed(x, l) == <<x>> \o l

LEMMA PushedIs ==
    ASSUME NEW n \in Nat, NEW l, Chained(l, n)
    PROVE  Len(Pushed(n, l)) = n + 1 /\ Chained(Pushed(n, l), n + 1)
<1>1. l \in Seq(Nat) /\ Len(l) = n /\ \A i \in 1 .. n : l[i] = n - i
  BY DEF Chained
<1> DEFINE r == Pushed(n, l)
<1>2. /\ r \in Seq(Nat) /\ Len(r) = n + 1 /\ r[1] = n
      /\ \A i \in 2 .. n + 1 : r[i] = l[i - 1]
  BY <1>1 DEF Pushed
<1> HIDE DEF r
<1>3. ASSUME NEW i \in 1 .. n + 1
      PROVE  r[i] = (n + 1) - i
  <2>1. CASE i = 1
    BY <1>2, <2>1
  <2>2. CASE i # 1
    <3>1. i \in 2 .. n + 1 /\ i - 1 \in 1 .. n /\ n - (i - 1) = (n + 1) - i
      BY <2>2
    <3> QED
      BY <1>1, <1>2, <3>1
  <2> QED
    BY <2>1, <2>2
<1>4. Len(r) = n + 1 /\ Chained(r, n + 1)
  BY <1>2, <1>3 DEF Chained
<1> QED
  BY <1>4 DEF r

\* exhashsplit.
LEMMA SplitStep ==
    ASSUME TableInv, exhashsplit
    PROVE  TableInv' /\ Moves
<1> DEFINE n   == Len(leaves)
           old == LeafOf(directory, depth, locating.hashkey)
           ld  == leaf[old].depth + 1
           gd  == IF ld > depth THEN depth + 1 ELSE depth
           was == IF ld > depth THEN doubled(directory, depth) ELSE directory
<1>1. /\ use \in Uses /\ Structured(depth, directory, leaf, n) /\ Chained(leaves, n)
      /\ IsFiniteSet(StoredNow) /\ nactive = Cardinality(StoredNow)
      /\ locating \in Entries \cup {NoEntry} /\ Has(locating.hashkey) = NoData /\ locating # NoEntry
  BY InvParts DEF exhashsplit
<1>2. /\ depth \in 1 .. KeyBits /\ n \in Nat /\ directory \in [0 .. Pow2[depth] - 1 -> 0 .. n - 1]
      /\ leaf \in [0 .. n - 1 -> [depth : Nat, entries : Seq(Entries)]]
  BY <1>1 DEF Structured
<1>3. old \in 0 .. n - 1
  BY <1>1, KeyNat, LeafHas
<1>4. DOMAIN leaf = 0 .. n - 1 /\ Cardinality(DOMAIN leaf) = n /\ DOMAIN leaf \cup {n} = 0 .. n
  <2>1. DOMAIN leaf = 0 .. n - 1
    BY <1>2
  <2> HIDE DEF n
  <2>2. Cardinality(0 .. n - 1) = n
    <3>1. 0 \in Int /\ n - 1 \in Int
      BY <1>2
    <3>2. Cardinality(0 .. n - 1) = IF 0 > n - 1 THEN 0 ELSE (n - 1) - 0 + 1
      BY <3>1, FS_Interval
    <3>3. (IF 0 > n - 1 THEN 0 ELSE (n - 1) - 0 + 1) = n
      BY <1>2
    <3> QED
      BY <3>2, <3>3
  <2>3. (0 .. n - 1) \cup {n} = 0 .. n
    BY <1>2
  <2> QED
    BY <2>1, <2>2, <2>3
<1> DEFINE dir2 == Redirected(was, old, n)
           lf2 == Parted(leaf, n, old, ld, dir2, gd)
<1>5. /\ gd <= use.depth /\ depth' = gd /\ directory' = dir2 /\ leaf' = lf2 /\ leaves' = <<n>> \o leaves
      /\ UNCHANGED <<nactive, iterator, locating, seen, use>>
  <2>1. \A m, D : m = Cardinality(DOMAIN leaf) /\ D = DOMAIN leaf \cup {m} => m = n /\ D = 0 .. n
    BY <1>4
  <2> QED
    BY <1>4 DEF exhashsplit, Redirected, Parted
<1>6. use.depth \in 1 .. KeyBits /\ KeyBits \in Nat
  BY <1>1, UseParts, ExHashAssumption
<1>7. ld \in Nat
  BY <1>2, <1>3
<1> HIDE DEF n, old, ld
<1>8. /\ gd \in 1 .. KeyBits /\ was \in [0 .. Pow2[gd] - 1 -> 0 .. n - 1]
      /\ \A k \in Keys : LeafOf(was, gd, k) = LeafOf(directory, depth, k)
  <2>1. CASE ld > depth
    <3>1. gd = depth + 1 /\ was = doubled(directory, depth)
      BY <2>1
    <3> HIDE DEF gd, was
    <3>2. depth \in 1 .. KeyBits - 1 /\ depth + 1 \in 1 .. KeyBits
      BY <1>2, <1>5, <1>6, <3>1
    <3> QED
      BY <1>2, <3>1, <3>2, DoubledIs
  <2>2. CASE ~(ld > depth)
    <3>1. gd = depth /\ was = directory
      BY <2>2
    <3> HIDE DEF gd, was
    <3> QED
      BY <1>2, <3>1
  <2> QED
    BY <2>1, <2>2
<1> HIDE DEF gd, was
<1>9. /\ Structured(gd, dir2, lf2, n + 1)
      /\ \A k \in Keys : Value(gd, dir2, lf2, k) = Value(depth, directory, leaf, k)
  <2>1. dir2 = Redirected(was, old, n)
    OBVIOUS
  <2>2. lf2 = Parted(leaf, n, old, ld, dir2, gd)
    OBVIOUS
  <2> HIDE DEF dir2, lf2
  <2> QED
    BY <1>1, <1>3, <1>7, <1>8, <2>1, <2>2, SplitIs
<1> HIDE DEF dir2, lf2
<1>10. Len(leaves') = n + 1 /\ Chained(leaves', n + 1)
  <2>1. leaves' = Pushed(n, leaves)
    BY <1>5 DEF Pushed
  <2> QED
    BY <1>1, <1>2, <2>1, PushedIs
<1>11. \A l \in Keys : Has(l)' = Has(l)
  BY <1>5, <1>9 DEF Has
<1>12. StoredNow' = StoredNow
  BY <1>11, StoredIs
<1>13. iterator = Idle /\ seen = {}
  BY <1>1, InvParts, NotWalking
<1>14. WalkInv'
  BY <1>5, <1>13 DEF WalkInv, Idle
<1>15. TableInv'
  <2>1. Structured(depth, directory, leaf, Len(leaves))' /\ Chained(leaves, Len(leaves))'
    BY <1>5, <1>9, <1>10
  <2>2. IsFiniteSet(StoredNow') /\ nactive' = Cardinality(StoredNow')
    BY <1>1, <1>5, <1>12
  <2>3. (depth <= use.depth)' /\ (use \in Uses)'
    BY <1>1, <1>5
  <2>4. locating' \in Entries /\ Has(locating.hashkey)' = NoData
    BY <1>1, <1>5, <1>11, KeyNat
  <2> QED
    BY <1>14, <2>1, <2>2, <2>3, <2>4 DEF TableInv, StoredNow, Has
<1> QED
  BY <1>5, <1>11, <1>15 DEF Moves

\* What a call of ncexhashiterate does: it returns a key it has not returned, or
\* the walk has returned all.
LEMMA WalkStep ==
    ASSUME TableInv, ncexhashiterate
    PROVE  /\ TableInv' /\ Moves
           /\ IF iterator'.walking THEN seen' # seen ELSE seen = StoredNow
<1> DEFINE n     == Len(leaves)
           from  == IF iterator.walking THEN iterator ELSE [Idle EXCEPT !.at = 1]
           place == NextPlace(from.at, from.index)
<1>1. /\ use \in Uses /\ depth <= use.depth /\ Structured(depth, directory, leaf, n) /\ Chained(leaves, n)
      /\ IsFiniteSet(StoredNow) /\ nactive = Cardinality(StoredNow) /\ WalkInv
  BY InvParts
<1>2. /\ locating = NoEntry
      /\ \/ /\ place # NoLeaf
            /\ iterator' = [walking |-> TRUE, at |-> place[1], index |-> place[2] + 1]
            /\ seen' = seen \cup {leaf[leaves[place[1]]].entries[place[2] + 1].hashkey}
         \/ /\ place = NoLeaf
            /\ iterator' = Idle
            /\ seen' = {}
      /\ UNCHANGED <<depth, directory, leaf, leaves, nactive, locating, use>>
  BY DEF ncexhashiterate
<1>3. /\ n \in Nat \ {0}
      /\ \A i \in 1 .. n : Len(leaf[leaves[i]].entries) \in Nat
  BY <1>1, ChainOfLeaves DEF OnePlace
<1>4. /\ from.at \in 1 .. n /\ from.index \in Nat /\ from.index <= Len(leaf[leaves[from.at]].entries)
      /\ seen = Passed(leaf, leaves, from.at, from.index)
  <2>1. CASE iterator.walking
    <3>1. /\ from = iterator /\ iterator.at \in 1 .. n /\ iterator.index \in Nat
          /\ iterator.index \in 1 .. Len(leaf[leaves[iterator.at]].entries)
          /\ seen = Passed(leaf, leaves, iterator.at, iterator.index)
      <4>1. iterator # Idle
        BY <2>1 DEF Idle
      <4>2. /\ iterator \in [walking : {TRUE}, at : 1 .. n, index : Nat]
            /\ iterator.index \in 1 .. Len(leaf[leaves[iterator.at]].entries)
            /\ seen = Passed(leaf, leaves, iterator.at, iterator.index)
        BY <1>1, <4>1 DEF WalkInv
      <4>3. iterator.at \in 1 .. n /\ iterator.index \in Nat
        BY <4>2
      <4>4. from = iterator
        BY <2>1
      <4> QED
        BY <4>2, <4>3, <4>4
    <3> HIDE DEF from
    <3> QED
      BY <1>3, <3>1
  <2>2. CASE ~iterator.walking
    <3>1. from.at = 1 /\ from.index = 0 /\ seen = {}
      BY <1>1, <2>2, NotWalking DEF Idle
    <3> HIDE DEF from
    <3>2. 1 \in 1 .. n
      BY <1>3
    <3>3. 0 <= Len(leaf[leaves[1]].entries)
      BY <1>3, <3>2
    <3>4. ASSUME NEW k \in Passed(leaf, leaves, 1, 0)
          PROVE  FALSE
      <4>1. PICK i \in 1 .. n : \E j \in 1 .. Len(leaf[leaves[i]].entries) : i < 1 \/ (i = 1 /\ j <= 0)
        BY <3>4 DEF Passed
      <4> QED
        BY <1>3, <4>1
    <3>5. Passed(leaf, leaves, 1, 0) = {}
      BY <3>4
    <3> QED
      BY <3>1, <3>2, <3>3, <3>5
  <2> QED
    BY <2>1, <2>2
<1> HIDE DEF from, n
<1>5. \/ place = NoLeaf /\ seen = StoredNow
      \/ \E i \in 1 .. n : \E j \in 1 .. Len(leaf[leaves[i]].entries) :
            /\ place = <<i, j - 1>>
            /\ leaf[leaves[i]].entries[j].hashkey \notin seen
            /\ Passed(leaf, leaves, i, j) = seen \cup {leaf[leaves[i]].entries[j].hashkey}
  <2>1. Structured(depth, directory, leaf, Len(leaves)) /\ Chained(leaves, Len(leaves)) /\ from.at \in 1 .. Len(leaves)
    BY <1>1, <1>4 DEF n
  <2>2. NextIs(depth, directory, from.at, from.index)
    BY <1>4, <2>1, NextPlaceIs
  <2> DEFINE p == Passed(leaf, leaves, from.at, from.index)
  <2>3. seen = p
    BY <1>4
  <2>4. \/ place = NoLeaf /\ p = StoredNow
        \/ \E i \in 1 .. n : \E j \in 1 .. Len(leaf[leaves[i]].entries) :
              /\ place = <<i, j - 1>>
              /\ leaf[leaves[i]].entries[j].hashkey \notin p
              /\ Passed(leaf, leaves, i, j) = p \cup {leaf[leaves[i]].entries[j].hashkey}
    BY <2>2, Zenon DEF NextIs, StoredNow, n
  <2> HIDE DEF p, place
  <2> QED
    BY <2>3, <2>4, Zenon
<1>6. \A l \in Keys : Has(l)' = Has(l)
  BY <1>2 DEF Has
<1>7. StoredNow' = StoredNow
  BY <1>6, StoredIs
<1>8. Moves
  BY <1>2, <1>6 DEF Moves
<1>9. ASSUME WalkInv'
      PROVE  TableInv'
  <2>1. Structured(depth, directory, leaf, Len(leaves))' /\ Chained(leaves, Len(leaves))'
    BY <1>1, <1>2 DEF n
  <2>2. IsFiniteSet(StoredNow') /\ nactive' = Cardinality(StoredNow')
    BY <1>1, <1>2, <1>7
  <2>3. (depth <= use.depth)' /\ (use \in Uses)' /\ locating' = NoEntry
    BY <1>1, <1>2
  <2> QED
    BY <1>9, <2>1, <2>2, <2>3 DEF TableInv, StoredNow
<1> HIDE DEF place
<1>10. CASE place = NoLeaf
  <2>1. iterator' = Idle /\ seen' = {}
    BY <1>2, <1>10
  <2>2. seen = StoredNow
    <3>1. \A i, j : i \in Nat /\ j \in Nat => <<i, j>> # NoLeaf
      BY ExHashAssumption
    <3>2. \A i \in 1 .. n : \A j \in 1 .. Len(leaf[leaves[i]].entries) : i \in Nat /\ j - 1 \in Nat
      BY <1>3
    <3> QED
      BY <1>5, <1>10, <3>1, <3>2
  <2>3. WalkInv'
    BY <2>1 DEF WalkInv, Idle
  <2>4. ~iterator'.walking
    BY <2>1 DEF Idle
  <2> QED
    BY <1>8, <1>9, <2>2, <2>3, <2>4
<1>11. CASE place # NoLeaf
  <2>7. PICK i \in 1 .. n : \E j \in 1 .. Len(leaf[leaves[i]].entries) :
            /\ place = <<i, j - 1>>
            /\ leaf[leaves[i]].entries[j].hashkey \notin seen
            /\ Passed(leaf, leaves, i, j) = seen \cup {leaf[leaves[i]].entries[j].hashkey}
    BY <1>5, <1>11
  <2>1. PICK j \in 1 .. Len(leaf[leaves[i]].entries) :
            /\ place = <<i, j - 1>>
            /\ leaf[leaves[i]].entries[j].hashkey \notin seen
            /\ Passed(leaf, leaves, i, j) = seen \cup {leaf[leaves[i]].entries[j].hashkey}
    BY <2>7
  <2>2. j \in Nat /\ place[1] = i /\ place[2] + 1 = j
    <3>1. j \in Nat /\ (j - 1) + 1 = j
      BY <1>3
    <3>2. place[1] = i /\ place[2] = j - 1
      BY <2>1
    <3> QED
      BY <3>1, <3>2
  <2>3. iterator' = [walking |-> TRUE, at |-> i, index |-> j] /\ seen' = Passed(leaf, leaves, i, j)
    BY <1>2, <1>11, <2>1, <2>2
  <2>4. /\ iterator' \in [walking : {TRUE}, at : 1 .. n, index : Nat]
        /\ iterator'.index = j /\ iterator'.at = i /\ iterator'.walking
    BY <2>2, <2>3
  <2>5. WalkInv'
    BY <1>2, <2>3, <2>4 DEF WalkInv, n
  <2>6. seen' # seen
    BY <2>1, <2>3
  <2> QED
    BY <1>8, <1>9, <2>4, <2>5, <2>6
<1> QED
  BY <1>10, <1>11

LEMMA TableStep ==
    ASSUME TableInv, Next
    PROVE  TableInv' /\ Moves
<1>1. use.keys \subseteq Keys /\ use.data \subseteq Data
  BY InvParts, UseParts
<1>2. \A k \in use.keys, v \in use.data : /\ [hashkey |-> k, data |-> v] \in Entries
                                         /\ [hashkey |-> k, data |-> v].hashkey = k
  BY <1>1 DEF Entries
<1>3. ASSUME NEW k \in use.keys, NEW v \in use.data, ncexhashput([hashkey |-> k, data |-> v])
      PROVE  TableInv' /\ Moves
  <2> DEFINE e == [hashkey |-> k, data |-> v]
  <2>1. e \in Entries /\ locating = NoEntry /\ ~iterator.walking /\ (ReplaceData(e) \/ BeginLocate(e))
    BY <1>2, <1>3 DEF ncexhashput
  <2> HIDE DEF e
  <2>2. CASE ReplaceData(e)
    BY <2>1, <2>2, SetStep DEF ReplaceData
  <2>3. CASE BeginLocate(e)
    BY <2>1, <2>3, BeginStep
  <2> QED
    BY <2>1, <2>2, <2>3
<1>4. ASSUME NEW k \in use.keys, ncexhashremove(k)
      PROVE  TableInv' /\ Moves
  BY <1>1, <1>4, RemoveStep
<1>5. ASSUME NEW k \in use.keys, NEW v \in use.data, ncexhashsetdata(k, v)
      PROVE  TableInv' /\ Moves
  <2> DEFINE e == [hashkey |-> k, data |-> v]
  <2>1. /\ e \in Entries /\ locating = NoEntry /\ ~iterator.walking /\ Found(e.hashkey) /\ SetEntry(e)
        /\ UNCHANGED <<depth, directory, leaves, nactive, iterator, locating, seen, use>>
    BY <1>2, <1>5 DEF ncexhashsetdata
  <2> HIDE DEF e
  <2> QED
    BY <2>1, SetStep
<1>6. CASE exhashsplit
  BY <1>6, SplitStep
<1>7. CASE exhashsplitNoMemory
  BY <1>7, NoMemoryStep
<1>8. CASE exhashnewentry
  BY <1>8, NewEntryStep
<1>9. CASE ncexhashiterate
  BY <1>9, WalkStep
<1> QED
  BY <1>3, <1>4, <1>5, <1>6, <1>7, <1>8, <1>9 DEF Next

\* The table that ncexhashnew makes.
LEMMA TableInit == Init => TableInv /\ \A k \in Keys : Has(k) = NoData
<1> SUFFICES ASSUME Init PROVE TableInv /\ \A k \in Keys : Has(k) = NoData
  OBVIOUS
<1>1. /\ depth = 1 /\ directory = [i \in 0 .. 1 |-> i] /\ leaves = <<1, 0>> /\ nactive = 0
      /\ leaf = [u \in 0 .. 1 |-> [depth |-> 0, entries |-> <<>>]]
      /\ iterator = Idle /\ locating = NoEntry /\ seen = {} /\ use \in Uses
  BY DEF Init
<1>2. use.depth \in 1 .. KeyBits /\ KeyBits \in Nat
  BY <1>1, UseParts, ExHashAssumption
<1>3. Pow2[1] = 2 /\ 1 \in 1 .. KeyBits
  <2>1. 1 \in 1 .. KeyBits
    BY <1>2
  <2>2. Pow2[1] = 2 * Pow2[0] /\ Pow2[0] = 1
    BY <2>1, Powers
  <2> QED
    BY <2>1, <2>2
<1>4. leaves \in Seq(Nat) /\ Len(leaves) = 2 /\ Chained(leaves, 2)
  <2>1. leaves \in Seq(Nat) /\ Len(leaves) = 2 /\ leaves[1] = 1 /\ leaves[2] = 0
    BY <1>1
  <2>2. \A i \in 1 .. 2 : leaves[i] = 2 - i
    BY <2>1
  <2> QED
    BY <2>1, <2>2 DEF Chained
<1>5. Chain(<<>>) /\ Members(<<>>) = {} /\ <<>> \in Seq(Entries) /\ Len(<<>>) = 0
  BY DEF Chain, Members
<1>6. Structured(depth, directory, leaf, 2)
  <2>1. 0 .. 2 - 1 = 0 .. 1
    OBVIOUS
  <2>2. leaf \in [0 .. 1 -> [depth : Nat, entries : Seq(Entries)]] /\ \A u \in 0 .. 1 : leaf[u].entries = <<>>
    BY <1>1, <1>5
  <2>3. directory \in [0 .. 1 -> 0 .. 1]
    BY <1>1
  <2> QED
    BY <1>1, <1>3, <1>5, <2>1, <2>2, <2>3 DEF Structured
<1>7. \A u \in 0 .. 2 - 1 : Len(leaf[u].entries) = 0
  BY <1>1, <1>5
<1>8. ASSUME NEW k \in Keys
      PROVE  Has(k) = NoData
  <2>1. Value(depth, directory, leaf, k) # NoData <=>
            \E u \in 0 .. 2 - 1 : \E j \in 1 .. Len(leaf[u].entries) : leaf[u].entries[j].hashkey = k
    BY <1>6, ValueIs
  <2>2. \A u \in 0 .. 2 - 1 : \A j \in 1 .. Len(leaf[u].entries) : FALSE
    BY <1>7
  <2> QED
    BY <2>1, <2>2 DEF Has
<1>9. StoredNow = {}
  BY <1>8, StoredIs
<1>10. WalkInv
  BY <1>1 DEF WalkInv
<1>11. IsFiniteSet(StoredNow) /\ nactive = Cardinality(StoredNow)
  BY <1>1, <1>9, FS_EmptySet
<1>12. depth <= use.depth
  BY <1>1, <1>2
<1>13. Structured(depth, directory, leaf, Len(leaves)) /\ Chained(leaves, Len(leaves))
  BY <1>4, <1>6
<1>14. TableInv
  BY <1>1, <1>10, <1>11, <1>12, <1>13, InvParts
<1> QED
  BY <1>8, <1>14

LEMMA TableInvariant == Spec => []TableInv
<1>1. Init => TableInv
  BY TableInit
<1>2. TableInv /\ [Next]_vars => TableInv'
  <2> SUFFICES ASSUME TableInv, [Next]_vars PROVE TableInv'
    OBVIOUS
  <2>1. CASE Next
    BY <2>1, TableStep
  <2>2. CASE UNCHANGED vars
    BY <2>2 DEF TableInv, WalkInv, vars
  <2> QED
    BY <2>1, <2>2
<1> QED
  BY <1>1, <1>2, PTL DEF Spec

----------------------------------------------------------------------------
(* The theorems *)

\* Every state is well formed, for all keys, lengths of leaves and bounds on the
\* directory: the directory has 2^depth slots and each of them a leaf.
THEOREM TypeCorrect == Spec => []TypeOK
<1>1. TableInv => TypeOK
  <2> SUFFICES ASSUME TableInv PROVE TypeOK
    OBVIOUS
  <2> DEFINE n == Len(leaves)
  <2>1. /\ use \in Uses /\ depth <= use.depth /\ Structured(depth, directory, leaf, n) /\ Chained(leaves, n)
        /\ IsFiniteSet(StoredNow) /\ nactive = Cardinality(StoredNow)
        /\ locating \in Entries \cup {NoEntry} /\ WalkInv
    BY InvParts
  <2>2. /\ depth \in 1 .. KeyBits /\ n \in Nat /\ leaf \in [0 .. n - 1 -> [depth : Nat, entries : Seq(Entries)]]
        /\ directory \in [0 .. Pow2[depth] - 1 -> 0 .. n - 1]
    BY <2>1 DEF Structured
  <2>3. nactive \in Nat
    BY <2>1, FS_CardinalityType
  <2>4. use.depth \in 1 .. KeyBits /\ KeyBits \in Nat
    BY <2>1, UseParts, ExHashAssumption
  <2>5. depth \in 1 .. use.depth
    BY <2>1, <2>2, <2>4
  <2>6. leaves \in Seq(0 .. n - 1)
    <3>1. leaves \in Seq(Nat) /\ \A i \in 1 .. n : leaves[i] = n - i
      BY <2>1 DEF Chained
    <3>2. \A i \in 1 .. n : leaves[i] \in 0 .. n - 1
      BY <2>2, <3>1
    <3> QED
      BY <3>1, <3>2
  <2>7. seen \subseteq Keys
    BY <2>1 DEF WalkInv, Passed
  <2>8. DOMAIN leaf = 0 .. n - 1
    BY <2>2
  <2>9. \A u \in DOMAIN leaf : leaf[u].depth \in Nat /\ leaf[u].entries \in Seq(Entries)
    BY <2>2, <2>8
  <2> HIDE DEF n
  <2> QED
    BY <2>1, <2>2, <2>3, <2>5, <2>6, <2>7, <2>8, <2>9 DEF TypeOK, Entries
<1> QED
  BY <1>1, TableInvariant, PTL

\* The table is the map that ncexhash.h promises: what ncexhashget and
\* ncexhashcount return changes with every call as NameMap says, whichever leaves
\* split and however often the directory doubles on the way, for all keys, lengths
\* of leaves and bounds on the directory.
THEOREM ImplementsMap == Spec => IsMap
<1> SUFFICES Spec => Map!Spec
  BY DEF IsMap
<1>1. TableInv => \A k \in Keys : ncexhashget(k) = Has(k)
  BY InvParts, GetIsValue
<1>2. Init => Map!Init
  <2> SUFFICES ASSUME Init PROVE Map!Init
    OBVIOUS
  <2>1. \A k \in Keys : ncexhashget(k) = NoData
    BY <1>1, TableInit
  <2>2. nactive = 0
    BY DEF Init
  <2> QED
    BY <2>1, <2>2 DEF Map!Init
<1>3. TableInv /\ TableInv' /\ [Next]_vars => [Map!Next]_(Map!vars)
  <2> SUFFICES ASSUME TableInv, TableInv', [Next]_vars PROVE [Map!Next]_(Map!vars)
    OBVIOUS
  <2>1. \A k \in Keys : ncexhashget(k) = Has(k)
    BY <1>1
  <2>2. \A k \in Keys : ncexhashget(k)' = Has(k)'
    BY DEF ncexhashget, Found, Mine, Has, Value, GetIn
  <2> DEFINE m == [k \in Keys |-> ncexhashget(k)]
  <2>3. ASSUME NEW k \in Keys, NEW v, Becomes(k, v)
        PROVE  m' = [m EXCEPT ![k] = v] /\ m[k] = Has(k)
    <3>1. \A l \in Keys : ncexhashget(l)' = IF l = k THEN v ELSE ncexhashget(l)
      BY <2>1, <2>2, <2>3 DEF Becomes
    <3> QED
      BY <2>1, <3>1
  <2>4. ASSUME \A l \in Keys : Has(l)' = Has(l), nactive' = nactive
        PROVE  UNCHANGED Map!vars
    <3>1. \A k \in Keys : ncexhashget(k)' = ncexhashget(k)
      BY <2>1, <2>2, <2>4
    <3> QED
      BY <2>4, <3>1 DEF Map!vars
  <2>5. CASE UNCHANGED vars
    BY <2>4, <2>5 DEF vars, Has
  <2>6. ASSUME NEW k \in Keys, NEW v \in Data, Becomes(k, v),
               nactive' = IF Has(k) = NoData THEN nactive + 1 ELSE nactive
        PROVE  Map!Next
    <3>1. Map!Add(k, v)
      BY <2>3, <2>6 DEF Map!Add
    <3> QED
      BY <3>1 DEF Map!Next
  <2>7. ASSUME NEW k \in Keys, Becomes(k, NoData), Has(k) # NoData, nactive' = nactive - 1
        PROVE  Map!Next
    <3>1. Map!Remove(k)
      BY <2>3, <2>7 DEF Map!Remove
    <3> QED
      BY <3>1 DEF Map!Next
  <2>8. CASE Next
    <3>1. Moves
      BY <2>8, TableStep
    <3> QED
      BY <2>4, <2>6, <2>7, <3>1 DEF Moves
  <2> QED
    BY <2>5, <2>8
<1> QED
  BY <1>2, <1>3, TableInvariant, PTL DEF Spec, Map!Spec

\* A walk returns every key of the table before it ends and no key twice, for all
\* tables: the chain of leaves that ncexhashiterate follows and the directory that
\* ncexhashget follows have the same entries.
THEOREM WalksAreComplete == Spec => WalkComplete
<1>1. TableInv /\ [Next]_vars =>
          [ncexhashiterate => IF iterator'.walking THEN seen' # seen
                              ELSE seen = {k \in Keys : ncexhashget(k) # NoData}]_vars
  <2> SUFFICES ASSUME TableInv, ncexhashiterate
               PROVE  IF iterator'.walking THEN seen' # seen
                      ELSE seen = {k \in Keys : ncexhashget(k) # NoData}
    OBVIOUS
  <2>1. IF iterator'.walking THEN seen' # seen ELSE seen = StoredNow
    BY WalkStep
  <2>2. \A k \in Keys : ncexhashget(k) = Has(k)
    BY InvParts, GetIsValue
  <2>3. StoredNow = {k \in Keys : ncexhashget(k) # NoData}
    BY <2>2, StoredIs
  <2> QED
    BY <2>1, <2>3
<1> QED
  BY <1>1, TableInvariant, PTL DEF Spec, WalkComplete
=============================================================================
