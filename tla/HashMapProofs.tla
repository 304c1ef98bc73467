--------------------------- MODULE HashMapProofs ---------------------------
(***************************************************************************)
(* The hash table of nchashmap.c is a map from names to data: proofs for   *)
(* every set of names, every hash function and every table size; and       *)
(* findPrimeGreaterThan, which gives the table its size, returns the first *)
(* prime, for every table of primes and every size that is asked for.      *)
(***************************************************************************)
EXTENDS HashMap, PrimeTable, FiniteSetTheorems, Recursion

\* A prime between n and 2n: Bertrand's postulate, a theorem of number theory
\* on which findPrimeGreaterThan rests when it makes a table larger.
Bertrand == \A n \in Nat \ {0, 1} : \E p \in n .. 2 * n : Prime(p)

----------------------------------------------------------------------------
(* Tables *)

Entries == {Empty, Deleted} \cup {Active(k, d) : k \in Keys, d \in Data}

Tables(n) == [0 .. n - 1 -> Entries]

\* The key k is found by probing: x is reached before any empty slot.
Path(t, k, x) ==
    \E i \in 0 .. Alloc(t) - 1 :
        /\ x = Probe(t, k, i)
        /\ \A j \in 0 .. i - 1 : t[Probe(t, k, j)].flags # "EMPTY"

HasKey(t, x, k) == IsActive(t, x) /\ t[x].key = k

\* The inductive invariant of a table: no key is in two slots, and each is on
\* the probe path of its key.  The path is what a removal must not cut.
Good(t) ==
    /\ Alloc(t) \in Nat \ {0}
    /\ t \in Tables(Alloc(t))
    /\ \A x, y \in DOMAIN t : IsActive(t, x) /\ IsActive(t, y) /\ t[x].key = t[y].key => x = y
    /\ \A x \in DOMAIN t : IsActive(t, x) => Path(t, t[x].key, x)

\* The kinds of entries are told apart by their flags.
LEMMA EntryKinds ==
    /\ \A e \in Entries :
          /\ e.flags \in {"EMPTY", "DELETED", "ACTIVE"}
          /\ e.flags = "EMPTY" <=> e = Empty
          /\ e.flags = "DELETED" <=> e = Deleted
          /\ e.flags = "ACTIVE" => e.key \in Keys /\ e.data \in Data /\ e = Active(e.key, e.data)
    /\ \A k, d : /\ Active(k, d).flags = "ACTIVE"
                 /\ Active(k, d).key = k /\ Active(k, d).data = d
    /\ \A k \in Keys, d \in Data : Active(k, d) \in Entries
    /\ Empty \in Entries /\ Deleted \in Entries
    /\ Empty.flags = "EMPTY" /\ Deleted.flags = "DELETED"
<1>1. \A k, d : /\ Active(k, d).flags = "ACTIVE"
                /\ Active(k, d).key = k /\ Active(k, d).data = d
  BY DEF Active
<1>2. Empty.flags = "EMPTY" /\ Deleted.flags = "DELETED"
  BY DEF Empty, Deleted
<1>3. \A k \in Keys, d \in Data : Active(k, d) \in Entries
  BY DEF Entries
<1>4. Empty \in Entries /\ Deleted \in Entries
  BY DEF Entries
<1>5. ASSUME NEW e \in Entries
      PROVE  \/ e = Empty
             \/ e = Deleted
             \/ \E k \in Keys, d \in Data : e = Active(k, d)
  BY DEF Entries
<1>6. ASSUME NEW e \in Entries
      PROVE  /\ e.flags \in {"EMPTY", "DELETED", "ACTIVE"}
             /\ e.flags = "EMPTY" <=> e = Empty
             /\ e.flags = "DELETED" <=> e = Deleted
             /\ e.flags = "ACTIVE" => e.key \in Keys /\ e.data \in Data /\ e = Active(e.key, e.data)
  BY <1>1, <1>2, <1>5
<1> QED
  BY <1>1, <1>2, <1>3, <1>4, <1>6

\* The number of slots of a table.
LEMMA AllocIs ==
    ASSUME NEW n \in Nat, NEW t \in Tables(n)
    PROVE  Alloc(t) = n /\ DOMAIN t = 0 .. n - 1 /\ IsFiniteSet(DOMAIN t)
<1>1. DOMAIN t = 0 .. n - 1
  BY DEF Tables
<1>2. IsFiniteSet(0 .. n - 1) /\ Cardinality(0 .. n - 1) = n
  BY FS_Interval
<1> QED
  BY <1>1, <1>2 DEF Alloc

\* What a good table is made of.
LEMMA GoodParts ==
    ASSUME NEW t, Good(t)
    PROVE  /\ Alloc(t) \in Nat \ {0} /\ t \in Tables(Alloc(t))
           /\ DOMAIN t = 0 .. Alloc(t) - 1 /\ IsFiniteSet(DOMAIN t)
           /\ \A x \in DOMAIN t : t[x] \in Entries
           /\ None \notin DOMAIN t
<1>1. Alloc(t) \in Nat \ {0} /\ t \in Tables(Alloc(t))
  BY DEF Good
<1>2. DOMAIN t = 0 .. Alloc(t) - 1 /\ IsFiniteSet(DOMAIN t)
  BY <1>1, AllocIs
<1> QED
  BY <1>1, <1>2 DEF Tables, None

\* Adding a multiple of the modulus changes nothing.
LEMMA ModMultiple ==
    ASSUME NEW a \in Nat \ {0}, NEW q \in Nat, NEW y \in 0 .. a - 1
    PROVE  (q * a + y) % a = y
  OBVIOUS

\* The probes of a key are slots, and reach every slot.
LEMMA Probes ==
    ASSUME NEW t, Good(t), NEW k \in Keys
    PROVE  /\ \A i \in Nat : Probe(t, k, i) \in DOMAIN t
           /\ \A x \in DOMAIN t : \E i \in 0 .. Alloc(t) - 1 : Probe(t, k, i) = x
<1> DEFINE a == Alloc(t)
           h == Hash[k]
           q == h \div a
           r == h % a
<1>1. a \in Nat \ {0} /\ h \in Nat /\ DOMAIN t = 0 .. a - 1
  BY GoodParts, HashMapAssumption
<1>2. \A i \in Nat : Probe(t, k, i) = (h + i) % a
  BY DEF Probe
<1> HIDE DEF a, h
<1>3. \A i \in Nat : (h + i) % a \in 0 .. a - 1
  BY <1>1
<1>4. q \in Nat /\ r \in 0 .. a - 1 /\ h = q * a + r
  BY <1>1
<1> HIDE DEF q, r
<1>5. ASSUME NEW x \in 0 .. a - 1
      PROVE  \E i \in 0 .. a - 1 : (h + i) % a = x
  <2>1. CASE x >= r
    <3>1. x - r \in 0 .. a - 1 /\ h + (x - r) = q * a + x
      BY <1>1, <1>4, <2>1
    <3> QED
      BY <1>1, <1>4, <3>1, ModMultiple
  <2>2. CASE x < r
    <3>1. x - r + a \in 0 .. a - 1 /\ h + (x - r + a) = (q + 1) * a + x
      BY <1>1, <1>4, <2>2
    <3>2. ((q + 1) * a + x) % a = x
      <4>1. q + 1 \in Nat
        BY <1>4
      <4> QED
        BY <1>1, <4>1, ModMultiple
    <3> QED
      BY <3>1, <3>2
  <2> QED
    BY <1>1, <1>4, <2>1, <2>2
<1>6. \A i \in Nat : Probe(t, k, i) \in DOMAIN t
  BY <1>1, <1>2, <1>3
<1>7. \A x \in DOMAIN t : \E i \in 0 .. a - 1 : Probe(t, k, i) = x
  <2> TAKE x \in DOMAIN t
  <2>1. PICK i \in 0 .. a - 1 : (h + i) % a = x
    BY <1>1, <1>5
  <2>2. i \in Nat
    BY <1>1
  <2> QED
    BY <1>2, <2>1, <2>2
<1> QED
  BY <1>6, <1>7 DEF a

\* Least is the least.
LEMMA LeastIs ==
    ASSUME NEW S \in SUBSET Nat, S # {}
    PROVE  Least(S) \in S /\ \A j \in S : Least(S) <= j
  BY NatLeast DEF Least

\* What locate finds: the slot of the key if it has one, otherwise a slot on
\* its probe path that is free, and it finds one unless the table has none.
LEMMA Located ==
    ASSUME NEW t, Good(t), NEW k \in Keys, NEW b \in BOOLEAN
    PROVE  /\ \/ locate(t, k, b) = None
              \/ locate(t, k, b) \in DOMAIN t /\ Path(t, k, locate(t, k, b))
           /\ \A x \in DOMAIN t : HasKey(t, x, k) => locate(t, k, b) = x
           /\ locate(t, k, b) # None /\ IsActive(t, locate(t, k, b))
                 => HasKey(t, locate(t, k, b), k)
           /\ (\E x \in DOMAIN t : t[x].flags = "EMPTY") => locate(t, k, b) # None
<1> DEFINE a == Alloc(t)
           At(i) == Probe(t, k, i)
           tries == 0 .. a - 1
           stops == {i \in tries : LET e == t[At(i)] IN
                        e.flags = "EMPTY" \/ (e.flags = "ACTIVE" /\ e.key = k)}
           dels  == {i \in tries : t[At(i)].flags = "DELETED"}
           l == locate(t, k, b)
<1>1. a \in Nat \ {0} /\ DOMAIN t = 0 .. a - 1 /\ None \notin DOMAIN t
  BY GoodParts
<1>2. /\ stops # {} => l = At(Least(stops))
      /\ stops = {} /\ b /\ dels # {} => l = At(Least(dels))
      /\ stops = {} /\ ~(b /\ dels # {}) => l = None
  <2>1. l = CASE stops # {} -> At(Least(stops))
              [] stops = {} /\ b /\ dels # {} -> At(Least(dels))
              [] OTHER -> None
    BY Zenon DEF locate
  <2> HIDE DEF l, stops, dels, At
  <2>2. CASE stops # {}
    BY <2>1, <2>2
  <2>3. CASE stops = {} /\ b /\ dels # {}
    BY <2>1, <2>3
  <2>4. CASE stops = {} /\ ~(b /\ dels # {})
    BY <2>1, <2>4
  <2> QED
    BY <2>2, <2>3, <2>4
<1>3. /\ \A i \in tries : At(i) \in DOMAIN t
      /\ \A x \in DOMAIN t : \E i \in tries : At(i) = x
  <2>1. \A i \in tries : i \in Nat
    BY <1>1
  <2>2. /\ \A i \in Nat : At(i) \in DOMAIN t
        /\ \A x \in DOMAIN t : \E i \in tries : At(i) = x
    BY Probes
  <2> QED
    BY <2>1, <2>2, Zenon
<1>4. \A x \in DOMAIN t : HasKey(t, x, k) => Path(t, k, x)
  BY DEF Good, HasKey
<1>5. \A x, y \in DOMAIN t : HasKey(t, x, k) /\ HasKey(t, y, k) => x = y
  BY DEF Good, HasKey
<1>6. \A x : Path(t, k, x) <=> \E i \in tries : x = At(i) /\ \A j \in 0 .. i - 1 : t[At(j)].flags # "EMPTY"
  BY DEF Path
<1>7. \A i \in tries : i \in stops <=> t[At(i)].flags = "EMPTY" \/ HasKey(t, At(i), k)
  BY DEF HasKey, IsActive
<1>8. \A i \in tries : i \in dels <=> t[At(i)].flags = "DELETED"
  OBVIOUS
<1>9. stops \in SUBSET tries /\ dels \in SUBSET tries /\ tries \in SUBSET Nat
  BY <1>1
<1>10. \A x \in DOMAIN t : IsActive(t, x) => t[x].flags = "ACTIVE"
  BY DEF IsActive
<1>11. SUFFICES /\ l = None \/ (l \in DOMAIN t /\ Path(t, k, l))
                /\ \A x \in DOMAIN t : HasKey(t, x, k) => l = x
                /\ l # None /\ IsActive(t, l) => HasKey(t, l, k)
                /\ (\E x \in DOMAIN t : t[x].flags = "EMPTY") => l # None
  OBVIOUS
<1> HIDE DEF a, At, stops, dels, l
<1>12. CASE stops # {}
  <2> DEFINE i == Least(stops)
  <2>1. i \in stops /\ \A j \in stops : i <= j
    BY <1>9, <1>12, LeastIs
  <2> HIDE DEF i
  <2>2. i \in tries /\ l = At(i) /\ l \in DOMAIN t /\ l # None
    BY <1>1, <1>2, <1>3, <1>9, <1>12, <2>1 DEF i
  <2>3. \A j \in 0 .. i - 1 : j \in tries /\ t[At(j)].flags # "EMPTY"
    BY <1>1, <1>7, <2>1, <2>2
  <2>4. Path(t, k, l)
    BY <1>6, <2>2, <2>3
  <2>5. ASSUME NEW x \in DOMAIN t, HasKey(t, x, k)
        PROVE  l = x
    <3>1. PICK m \in tries : x = At(m) /\ \A j \in 0 .. m - 1 : t[At(j)].flags # "EMPTY"
      BY <1>4, <1>6, <2>5
    <3>2. i <= m
      BY <1>7, <2>1, <2>5, <3>1
    <3>3. CASE i = m
      BY <2>2, <3>1, <3>3
    <3>4. CASE i < m
      <4>1. t[At(i)].flags # "EMPTY"
        BY <1>1, <2>2, <3>1, <3>4
      <4>2. HasKey(t, At(i), k)
        BY <1>7, <2>1, <2>2, <4>1
      <4> QED
        BY <1>5, <2>2, <2>5, <4>2
    <3> QED
      BY <1>1, <2>2, <3>2, <3>3, <3>4
  <2>6. IsActive(t, l) => HasKey(t, l, k)
    BY <1>7, <1>10, <2>1, <2>2
  <2> QED
    BY <2>2, <2>4, <2>5, <2>6
<1>13. CASE stops = {}
  <2>1. \A x \in DOMAIN t : ~HasKey(t, x, k) /\ t[x].flags # "EMPTY"
    BY <1>3, <1>7, <1>13
  <2>2. CASE b /\ dels # {}
    <3> DEFINE i == Least(dels)
    <3>1. i \in dels
      BY <1>9, <2>2, LeastIs
    <3> HIDE DEF i
    <3>2. i \in tries /\ l = At(i) /\ l \in DOMAIN t /\ l # None
      BY <1>1, <1>2, <1>3, <1>9, <1>13, <2>2, <3>1 DEF i
    <3>3. \A j \in 0 .. i - 1 : t[At(j)].flags # "EMPTY"
      <4> TAKE j \in 0 .. i - 1
      <4>1. j \in tries
        BY <1>1, <3>2
      <4> QED
        BY <1>3, <2>1, <4>1
    <3>4. t[l].flags = "DELETED"
      BY <1>8, <3>1, <3>2
    <3> QED
      BY <1>6, <1>10, <2>1, <3>2, <3>3, <3>4
  <2>3. CASE ~(b /\ dels # {})
    BY <1>2, <1>13, <2>1, <2>3
  <2> QED
    BY <2>2, <2>3
<1> QED
  BY <1>12, <1>13

----------------------------------------------------------------------------
(* One slot changes *)

\* Two tables that differ in one slot at most.
Differ(t, u, x) ==
    /\ u \in Tables(Alloc(t)) /\ Alloc(u) = Alloc(t) /\ DOMAIN u = DOMAIN t
    /\ \A y \in DOMAIN t : y # x => u[y] = t[y]

\* A new entry in a slot changes the table in no other slot.
LEMMA PutSlot ==
    ASSUME NEW t, Good(t), NEW x \in DOMAIN t, NEW e \in Entries
    PROVE  Differ(t, [t EXCEPT ![x] = e], x) /\ [t EXCEPT ![x] = e][x] = e
<1> DEFINE u == [t EXCEPT ![x] = e]
<1>1. Alloc(t) \in Nat \ {0} /\ t \in Tables(Alloc(t)) /\ DOMAIN t = 0 .. Alloc(t) - 1
  BY GoodParts
<1>2. u \in Tables(Alloc(t))
  BY <1>1 DEF Tables
<1>3. Alloc(u) = Alloc(t) /\ DOMAIN u = DOMAIN t
  <2>1. Alloc(t) \in Nat
    BY <1>1
  <2> QED
    BY <1>1, <1>2, <2>1, AllocIs
<1>4. u[x] = e /\ \A y \in DOMAIN t : y # x => u[y] = t[y]
  BY <1>1 DEF Tables
<1> QED
  BY <1>2, <1>3, <1>4 DEF Differ

\* The probe sequences do not change with the entry of a slot, and no probe
\* path is cut if the new entry is not the empty one.
LEMMA PutPaths ==
    ASSUME NEW t, Good(t), NEW x \in DOMAIN t, NEW u, Differ(t, u, x), u[x].flags # "EMPTY"
    PROVE  \A k \in Keys : \A y \in DOMAIN t : Path(t, k, y) => Path(u, k, y)
<1>1. Alloc(t) \in Nat \ {0} /\ DOMAIN t = 0 .. Alloc(t) - 1
  BY GoodParts
<1>2. Alloc(u) = Alloc(t) /\ DOMAIN u = DOMAIN t
  BY DEF Differ
<1>3. \A y \in DOMAIN t : y # x => u[y] = t[y]
  BY DEF Differ
<1>4. ASSUME NEW k \in Keys, NEW y \in DOMAIN t, Path(t, k, y)
      PROVE  Path(u, k, y)
  <2>1. PICK i \in 0 .. Alloc(t) - 1 :
            /\ y = Probe(t, k, i)
            /\ \A j \in 0 .. i - 1 : t[Probe(t, k, j)].flags # "EMPTY"
    BY <1>4 DEF Path
  <2>2. \A j : Probe(u, k, j) = Probe(t, k, j)
    BY <1>2 DEF Probe
  <2>3. \A j \in 0 .. i - 1 : u[Probe(u, k, j)].flags # "EMPTY"
    <3> TAKE j \in 0 .. i - 1
    <3>1. j \in Nat
      BY <1>1
    <3>2. Probe(t, k, j) \in DOMAIN t
      BY <3>1, Probes
    <3> QED
      BY <1>3, <2>1, <2>2, <3>2
  <2> QED
    BY <1>2, <2>1, <2>2, <2>3 DEF Path
<1> QED
  BY <1>4

\* An entry that is not active can replace any other; an active one, one in a
\* slot on the path of its key if no other slot has that key.
LEMMA PutGood ==
    ASSUME NEW t, Good(t), NEW x \in DOMAIN t, NEW u, Differ(t, u, x), u[x].flags # "EMPTY",
           IsActive(u, x) =>
               Path(t, u[x].key, x) /\ \A y \in DOMAIN t : HasKey(t, y, u[x].key) => y = x
    PROVE  Good(u)
<1>1. /\ u \in Tables(Alloc(t)) /\ Alloc(u) = Alloc(t) /\ DOMAIN u = DOMAIN t
      /\ \A y \in DOMAIN t : y # x => u[y] = t[y]
  BY DEF Differ
<1>0. \A k \in Keys : \A y \in DOMAIN t : Path(t, k, y) => Path(u, k, y)
  BY PutPaths
<1>2. Alloc(u) \in Nat \ {0} /\ u \in Tables(Alloc(u))
  BY <1>1, GoodParts
<1>3. \A y \in DOMAIN u : u[y] \in Entries
  BY <1>2, AllocIs DEF Tables
<1>4. ASSUME NEW y \in DOMAIN u, NEW z \in DOMAIN u,
             IsActive(u, y), IsActive(u, z), u[y].key = u[z].key
      PROVE  y = z
  <2>1. CASE y # x /\ z # x
    <3>1. IsActive(t, y) /\ IsActive(t, z) /\ t[y].key = t[z].key
      BY <1>1, <1>4, <2>1 DEF IsActive
    <3> QED
      BY <1>1, <3>1 DEF Good
  <2>2. CASE y = x /\ z # x
    <3>1. HasKey(t, z, u[x].key)
      BY <1>1, <1>4, <2>2 DEF IsActive, HasKey
    <3> QED
      BY <1>1, <1>4, <2>2, <3>1
  <2>3. CASE y # x /\ z = x
    <3>1. HasKey(t, y, u[x].key)
      BY <1>1, <1>4, <2>3 DEF IsActive, HasKey
    <3> QED
      BY <1>1, <1>4, <2>3, <3>1
  <2> QED
    BY <2>1, <2>2, <2>3
<1>5. ASSUME NEW y \in DOMAIN u, IsActive(u, y)
      PROVE  Path(u, u[y].key, y)
  <2>1. u[y].key \in Keys
    BY <1>3, <1>5, EntryKinds DEF IsActive
  <2>2. Path(t, u[y].key, y)
    <3>1. CASE y = x
      BY <1>1, <1>5, <3>1 DEF IsActive
    <3>2. CASE y # x
      <4>1. u[y] = t[y] /\ IsActive(t, y) /\ y \in DOMAIN t
        BY <1>1, <1>5, <3>2 DEF IsActive
      <4>2. Path(t, t[y].key, y)
        BY <4>1 DEF Good
      <4> QED
        BY <4>1, <4>2
    <3> QED
      BY <3>1, <3>2
  <2> QED
    BY <1>0, <1>1, <2>1, <2>2
<1> QED
  BY <1>2, <1>4, <1>5 DEF Good

\* The slots of a table that are in use.
Used(t) == {y \in DOMAIN t : IsActive(t, y)}

\* Their number is NActive, and at most the number of slots.
LEMMA UsedNumber ==
    ASSUME NEW t, Good(t)
    PROVE  /\ IsFiniteSet(Used(t)) /\ NActive(t) = Cardinality(Used(t)) /\ NActive(t) \in Nat
           /\ NActive(t) = 0 <=> Used(t) = {}
           /\ NActive(t) <= Alloc(t)
           /\ NActive(t) = Alloc(t) => Used(t) = DOMAIN t
<1>1. IsFiniteSet(DOMAIN t) /\ Used(t) \in SUBSET DOMAIN t
  BY GoodParts DEF Used
<1>2. IsFiniteSet(Used(t)) /\ Cardinality(Used(t)) <= Cardinality(DOMAIN t)
  BY <1>1, FS_Subset
<1>3. Cardinality(Used(t)) = Cardinality(DOMAIN t) => Used(t) = DOMAIN t
  BY <1>1, FS_Subset
<1>4. Cardinality(Used(t)) \in Nat
  BY <1>2, FS_CardinalityType
<1>5. Cardinality(Used(t)) = 0 <=> Used(t) = {}
  BY <1>2, FS_EmptySet
<1> QED
  BY <1>2, <1>3, <1>4, <1>5 DEF NActive, Used, Alloc

\* How their number changes when the entry of one slot does.
LEMMA UsedChange ==
    ASSUME NEW t, Good(t), NEW x \in DOMAIN t, NEW u, Good(u), Differ(t, u, x)
    PROVE  NActive(u) = CASE IsActive(t, x) /\ ~IsActive(u, x) -> NActive(t) - 1
                          [] ~IsActive(t, x) /\ IsActive(u, x) -> NActive(t) + 1
                          [] OTHER -> NActive(t)
<1>1. /\ IsFiniteSet(Used(t)) /\ IsFiniteSet(Used(u))
      /\ NActive(t) = Cardinality(Used(t)) /\ NActive(u) = Cardinality(Used(u))
  BY UsedNumber
<1>2. CASE IsActive(t, x) /\ ~IsActive(u, x)
  <2>1. Used(u) = Used(t) \ {x} /\ x \in Used(t)
    BY <1>2 DEF Used, IsActive, Differ
  <2> QED
    BY <1>1, <1>2, <2>1, FS_RemoveElement
<1>3. CASE ~IsActive(t, x) /\ IsActive(u, x)
  <2>1. Used(u) = Used(t) \cup {x} /\ x \notin Used(t)
    BY <1>3 DEF Used, IsActive, Differ
  <2> QED
    BY <1>1, <1>3, <2>1, FS_AddElement
<1>4. CASE IsActive(t, x) <=> IsActive(u, x)
  <2>1. Used(u) = Used(t)
    BY <1>4 DEF Used, IsActive, Differ
  <2> QED
    BY <1>1, <1>4, <2>1
<1> QED
  BY <1>2, <1>3, <1>4

----------------------------------------------------------------------------
(* The map that a table represents *)

Holds(t, k, d) == \E x \in DOMAIN t : t[x] = Active(k, d)

\* What NC_hashmapget returns for a table.
Value(t, k) ==
    LET x == locate(t, k, FALSE)
    IN  IF NActive(t) # 0 /\ x # None /\ IsActive(t, x) THEN t[x].data ELSE NoData

\* NC_hashmapget finds a name exactly if the table holds it.
LEMMA ValueIs ==
    ASSUME NEW t, Good(t), NEW k \in Keys
    PROVE  /\ Value(t, k) \in Data \cup {NoData}
           /\ \A d \in Data : Value(t, k) = d <=> Holds(t, k, d)
           /\ Value(t, k) # NoData <=> \E x \in DOMAIN t : HasKey(t, x, k)
           /\ \A x \in DOMAIN t : HasKey(t, x, k) => Value(t, k) = t[x].data
<1>1. \A x \in DOMAIN t : t[x] \in Entries
  BY GoodParts
<1>2. \A x \in DOMAIN t : HasKey(t, x, k) <=> t[x] \in {Active(k, d) : d \in Data}
  BY <1>1, EntryKinds DEF HasKey, IsActive
<1>3. \A x \in DOMAIN t : HasKey(t, x, k) => t[x].data \in Data /\ t[x] = Active(k, t[x].data)
  BY <1>1, EntryKinds DEF HasKey, IsActive
<1>4. \A x, y \in DOMAIN t : HasKey(t, x, k) /\ HasKey(t, y, k) => x = y
  BY DEF Good, HasKey
<1>5. CASE \E x \in DOMAIN t : HasKey(t, x, k)
  <2>1. PICK x \in DOMAIN t : HasKey(t, x, k)
    BY <1>5
  <2>2. locate(t, k, FALSE) = x
    BY <2>1, Located
  <2>3. x \in Used(t) /\ IsActive(t, x)
    BY <2>1 DEF Used, HasKey
  <2>4. NActive(t) # 0
    BY <2>3, UsedNumber
  <2>5. x # None
    BY GoodParts
  <2>6. Value(t, k) = t[x].data
    BY <2>2, <2>3, <2>4, <2>5 DEF Value
  <2>7. t[x].data \in Data /\ t[x] = Active(k, t[x].data) /\ t[x].data # NoData
    BY <1>3, <2>1, HashMapAssumption
  <2>8. ASSUME NEW d \in Data
        PROVE  Value(t, k) = d <=> Holds(t, k, d)
    <3>1. ASSUME NEW y \in DOMAIN t, t[y] = Active(k, d)
          PROVE  t[x].data = d
      <4>1. HasKey(t, y, k) /\ t[y].data = d
        BY <3>1, EntryKinds DEF HasKey, IsActive
      <4> QED
        BY <1>4, <2>1, <4>1
    <3> QED
      BY <2>6, <2>7, <3>1 DEF Holds
  <2> QED
    BY <1>4, <1>5, <2>1, <2>6, <2>7, <2>8
<1>6. CASE ~ \E x \in DOMAIN t : HasKey(t, x, k)
  <2>1. locate(t, k, FALSE) = None \/ ~IsActive(t, locate(t, k, FALSE))
    BY <1>6, Located
  <2>2. Value(t, k) = NoData
    BY <2>1 DEF Value
  <2>3. \A d \in Data : ~Holds(t, k, d)
    BY <1>2, <1>6 DEF Holds
  <2> QED
    BY <1>6, <2>2, <2>3, HashMapAssumption
<1> QED
  BY <1>5, <1>6

\* Tables that hold the same data for a name give it the same value.
LEMMA SameValue ==
    ASSUME NEW t, Good(t), NEW u, Good(u), NEW k \in Keys,
           \A d \in Data : Holds(t, k, d) <=> Holds(u, k, d)
    PROVE  Value(t, k) = Value(u, k)
<1>1. /\ Value(t, k) \in Data \cup {NoData} /\ Value(u, k) \in Data \cup {NoData}
      /\ \A d \in Data : Value(t, k) = d <=> Value(u, k) = d
  BY ValueIs
<1> QED
  BY <1>1

\* What a table holds after a slot has changed.
LEMMA PutHolds ==
    ASSUME NEW t, Good(t), NEW x \in DOMAIN t, NEW u, Differ(t, u, x),
           NEW k \in Keys, NEW d \in Data
    PROVE  Holds(u, k, d) <=>
               \/ u[x] = Active(k, d)
               \/ \E y \in DOMAIN t : y # x /\ t[y] = Active(k, d)
  BY DEF Holds, Differ

\* An insertion: the table gets the data for the name, and keeps the others.
LEMMA InsertedIs ==
    ASSUME NEW t, Good(t), NEW k \in Keys, NEW d \in Data, locate(t, k, TRUE) # None
    PROVE  /\ Good(Inserted(t, k, d))
           /\ Alloc(Inserted(t, k, d)) = Alloc(t)
           /\ NActive(Inserted(t, k, d)) = IF IsActive(t, locate(t, k, TRUE))
                                           THEN NActive(t) ELSE NActive(t) + 1
           /\ IsActive(t, locate(t, k, TRUE)) <=> \E x \in DOMAIN t : HasKey(t, x, k)
           /\ \A e \in Data : Holds(Inserted(t, k, d), k, e) <=> e = d
           /\ \A l \in Keys \ {k}, e \in Data :
                 Holds(Inserted(t, k, d), l, e) <=> Holds(t, l, e)
<1> DEFINE x == locate(t, k, TRUE)
           u == Inserted(t, k, d)
<1>1. x \in DOMAIN t /\ Path(t, k, x)
  BY Located
<1>2. \A y \in DOMAIN t : HasKey(t, y, k) => y = x
  BY Located
<1>3. IsActive(t, x) => HasKey(t, x, k)
  BY Located
<1>4. Active(k, d) \in Entries /\ u = [t EXCEPT ![x] = Active(k, d)]
  BY EntryKinds DEF Inserted
<1> HIDE DEF x, u
<1>5. Differ(t, u, x) /\ u[x] = Active(k, d)
  BY <1>1, <1>4, PutSlot
<1>6. u[x].flags = "ACTIVE" /\ u[x].key = k /\ IsActive(u, x)
  BY <1>5, EntryKinds DEF IsActive
<1>7. Good(u)
  BY <1>1, <1>2, <1>5, <1>6, PutGood
<1>8. NActive(u) = IF IsActive(t, x) THEN NActive(t) ELSE NActive(t) + 1
  BY <1>1, <1>5, <1>6, <1>7, UsedChange
<1>9. IsActive(t, x) <=> \E y \in DOMAIN t : HasKey(t, y, k)
  BY <1>1, <1>2, <1>3 DEF HasKey
<1>10. \A l \in Keys, e \in Data : Holds(u, l, e) <=>
            \/ u[x] = Active(l, e)
            \/ \E y \in DOMAIN t : y # x /\ t[y] = Active(l, e)
  BY <1>1, <1>5, PutHolds
<1>11. \A l, e : u[x] = Active(l, e) <=> l = k /\ e = d
  BY <1>5, EntryKinds
<1>12. \A y \in DOMAIN t : \A e : t[y] = Active(k, e) => y = x
  BY <1>2, EntryKinds DEF HasKey, IsActive
<1>13. \A e \in Data : Holds(u, k, e) <=> e = d
  BY <1>10, <1>11, <1>12
<1>14. \A l \in Keys \ {k} : \A e : t[x] # Active(l, e)
  BY <1>3, EntryKinds DEF HasKey, IsActive
<1>15. \A l \in Keys \ {k}, e \in Data : Holds(u, l, e) <=> Holds(t, l, e)
  <2> TAKE l \in Keys \ {k}, e \in Data
  <2>1. Holds(u, l, e) <=> \E y \in DOMAIN t : y # x /\ t[y] = Active(l, e)
    BY <1>10, <1>11
  <2>2. t[x] # Active(l, e)
    BY <1>14
  <2> QED
    BY <2>1, <2>2 DEF Holds
<1>16. Alloc(u) = Alloc(t)
  BY <1>5 DEF Differ
<1> QED
  BY <1>7, <1>8, <1>9, <1>13, <1>15, <1>16 DEF x, u

\* A removal: the table loses the name that was in the slot.
LEMMA RemovedIs ==
    ASSUME NEW t, Good(t), NEW k \in Keys, NEW x \in DOMAIN t, HasKey(t, x, k)
    PROVE  /\ Good([t EXCEPT ![x] = Deleted])
           /\ NActive([t EXCEPT ![x] = Deleted]) = NActive(t) - 1
           /\ \A e \in Data : ~Holds([t EXCEPT ![x] = Deleted], k, e)
           /\ \A l \in Keys \ {k}, e \in Data :
                 Holds([t EXCEPT ![x] = Deleted], l, e) <=> Holds(t, l, e)
<1> DEFINE u == [t EXCEPT ![x] = Deleted]
<1>1. Differ(t, u, x) /\ u[x] = Deleted
  BY PutSlot, EntryKinds
<1> HIDE DEF u
<1>2. u[x].flags = "DELETED" /\ ~IsActive(u, x)
  BY <1>1, EntryKinds DEF IsActive
<1>3. Good(u)
  BY <1>1, <1>2, PutGood
<1>4. IsActive(t, x) /\ t[x].key = k
  BY DEF HasKey
<1>5. NActive(u) = NActive(t) - 1
  BY <1>1, <1>2, <1>3, <1>4, UsedChange
<1>6. \A l \in Keys, e \in Data : Holds(u, l, e) <=> \E y \in DOMAIN t : y # x /\ t[y] = Active(l, e)
  <2>1. \A l, e : u[x] # Active(l, e)
    BY <1>2, EntryKinds
  <2> QED
    BY <1>1, <2>1, PutHolds
<1>7. \A y \in DOMAIN t : \A e : t[y] = Active(k, e) => y = x
  <2> SUFFICES ASSUME NEW y \in DOMAIN t, NEW e, t[y] = Active(k, e) PROVE y = x
    OBVIOUS
  <2>1. IsActive(t, y) /\ t[y].key = k
    BY EntryKinds DEF IsActive
  <2> QED
    BY <1>4, <2>1 DEF Good
<1>8. \A l \in Keys \ {k} : \A e : t[x] # Active(l, e)
  BY <1>4, EntryKinds
<1>9. \A e \in Data : ~Holds(u, k, e)
  BY <1>6, <1>7
<1>10. \A l \in Keys \ {k}, e \in Data : Holds(u, l, e) <=> Holds(t, l, e)
  <2> TAKE l \in Keys \ {k}, e \in Data
  <2>1. t[x] # Active(l, e)
    BY <1>8
  <2> QED
    BY <1>6, <2>1 DEF Holds
<1> QED
  BY <1>3, <1>5, <1>9, <1>10 DEF u

\* Other data for a name that is there: as if it were inserted again.
LEMMA ChangedIs ==
    ASSUME NEW t, Good(t), NEW k \in Keys, NEW d \in Data, NEW x \in DOMAIN t, HasKey(t, x, k)
    PROVE  /\ [t EXCEPT ![x].data = d] = Inserted(t, k, d)
           /\ locate(t, k, TRUE) = x /\ x # None
<1>1. locate(t, k, TRUE) = x
  BY Located
<1>2. IsActive(t, x) /\ t[x] \in Entries /\ t[x].key = k
  BY GoodParts DEF HasKey
<1>3. t[x] = Active(k, t[x].data)
  BY <1>2, EntryKinds DEF IsActive
<1>4. [t[x] EXCEPT !.data = d] = Active(k, d)
  BY <1>3 DEF Active
<1>5. [t EXCEPT ![x].data = d] = Inserted(t, k, d)
  BY <1>1, <1>4 DEF Inserted
<1>6. x # None
  BY GoodParts
<1> QED
  BY <1>1, <1>5, <1>6

----------------------------------------------------------------------------
(* Rehashing *)

\* The larger table has at least twice as many slots.
LEMMA PrimeFound ==
    ASSUME Bertrand, NEW n \in Nat \ {0}
    PROVE  findPrimeGreaterThan(2 * n) \in Nat /\ findPrimeGreaterThan(2 * n) >= 2 * n
<1> DEFINE m == 2 * n
           S == {p \in m .. 2 * m : Prime(p)}
<1>1. m \in Nat \ {0, 1}
  OBVIOUS
<1> HIDE DEF m
<1>2. S # {} /\ S \in SUBSET Nat
  BY <1>1 DEF Bertrand
<1>3. Least(S) \in S
  BY <1>2, LeastIs
<1>4. findPrimeGreaterThan(m) \in S
  BY <1>3 DEF findPrimeGreaterThan
<1>5. findPrimeGreaterThan(m) \in Nat /\ findPrimeGreaterThan(m) >= m
  BY <1>1, <1>4
<1> QED
  BY <1>5 DEF m

\* A table of empty slots.
LEMMA EmptyGood ==
    ASSUME NEW n \in Nat \ {0}, NEW t, t = [x \in 0 .. n - 1 |-> Empty]
    PROVE  /\ Good(t) /\ Alloc(t) = n /\ NActive(t) = 0
           /\ \A k \in Keys, d \in Data : ~Holds(t, k, d)
<1>1. t \in Tables(n)
  BY EntryKinds DEF Tables
<1>2. Alloc(t) = n /\ DOMAIN t = 0 .. n - 1
  BY <1>1, AllocIs
<1>3. \A x \in DOMAIN t : t[x] = Empty
  BY <1>2
<1>4. \A x \in DOMAIN t : ~IsActive(t, x)
  BY <1>3, EntryKinds DEF IsActive
<1>5. Good(t)
  BY <1>1, <1>2, <1>4 DEF Good
<1>6. NActive(t) = 0
  <2>1. Used(t) = {}
    BY <1>4 DEF Used
  <2> QED
    BY <1>5, <2>1, UsedNumber
<1>7. \A k \in Keys, d \in Data : ~Holds(t, k, d)
  BY <1>3, EntryKinds DEF Holds
<1> QED
  BY <1>2, <1>5, <1>6, <1>7

\* What rehash computes, step by step: after i steps the entries of the last i
\* slots are in the new table.
RehashTrace(t, g) ==
    LET n == Alloc(t)
    IN  /\ g[0] = [x \in 0 .. findPrimeGreaterThan(2 * n) - 1 |-> Empty]
        /\ \A i \in 1 .. n :
              g[i] = IF IsActive(t, n - i)
                     THEN Inserted(g[i - 1], t[n - i].key, t[n - i].data)
                     ELSE g[i - 1]
        /\ rehash(t) = g[n]

\* The recursive function of rehash has the values of such a trace.
LEMMA RehashSteps ==
    ASSUME Bertrand, NEW t, Good(t)
    PROVE  \E g : RehashTrace(t, g)
<1> DEFINE n == Alloc(t)
           N == findPrimeGreaterThan(2 * n)
           T == Tables(N)
           init == [x \in 0 .. N - 1 |-> Empty]
           Move(i, u) == IF IsActive(t, n - i)
                         THEN Inserted(u, t[n - i].key, t[n - i].data)
                         ELSE u
           G == [p \in (1 .. n) \X T |-> Move(p[1], p[2])]
           Pass(g) == [i \in 0 .. n |-> IF i = 0 THEN init ELSE Move(i, g[i - 1])]
           after == CHOOSE g : g = Pass(g)
<1>1. n \in Nat \ {0} /\ DOMAIN t = 0 .. n - 1 /\ \A x \in DOMAIN t : t[x] \in Entries
  BY GoodParts
<1>2. N \in Nat
  BY <1>1, PrimeFound
<1>3. init \in T
  BY <1>2, EntryKinds DEF Tables
<1>4. ASSUME NEW i \in 1 .. n, NEW u \in T
      PROVE  Move(i, u) \in T
  <2>1. n - i \in DOMAIN t
    BY <1>1
  <2>2. IsActive(t, n - i) => Active(t[n - i].key, t[n - i].data) \in Entries
    BY <1>1, <2>1, EntryKinds DEF IsActive
  <2>3. IsActive(t, n - i) => Inserted(u, t[n - i].key, t[n - i].data) \in T
    BY <2>2 DEF Inserted, Tables
  <2> QED
    BY <2>3
<1>5. rehash(t) = after[n]
  BY Zenon DEF rehash
<1> HIDE DEF Move, T, init, n
<1>6. G \in [(1 .. n) \X T -> T]
  BY <1>4
<1>7. \A i \in 1 .. n, u \in T : G[<<i, u>>] = Move(i, u)
  OBVIOUS
<1> HIDE DEF G
<1>8. PICK f : Computes(f, n, T, init, G)
  <2>1. n \in Nat
    BY <1>1
  <2> QED
    BY <1>3, <1>6, <2>1, Computation, Zenon
<1> USE <1>8 DEF Computes
<1>9. f = Pass(f)
  <2>1. ASSUME NEW i \in 1 .. n
        PROVE  i - 1 \in 0 .. n /\ f[i] = Move(i, f[i - 1])
    <3>1. i - 1 \in 0 .. n
      BY <1>1
    <3>2. f[i - 1] \in T
      BY <1>8, <3>1
    <3>3. f[i] = G[<<i, f[i - 1]>>]
      BY <1>8
    <3>4. G[<<i, f[i - 1]>>] = Move(i, f[i - 1])
      BY <1>7, <3>2
    <3> QED
      BY <3>1, <3>3, <3>4
  <2> QED
    BY <1>1, <1>8, <2>1
<1>10. after = Pass(after)
  <2> HIDE DEF Pass
  <2> QED
    BY <1>9, Zenon
<1> HIDE DEF after
<1>11. after[0] = init /\ \A i \in 1 .. n : after[i] = Move(i, after[i - 1])
  BY <1>1, <1>10
<1> QED
  BY <1>5, <1>11 DEF Move, init, n, RehashTrace

\* No slot of a table that is being filled is DELETED, so that while one is not
\* in use locate finds one.
Fresh(t) == \A x \in DOMAIN t : t[x].flags # "DELETED"

\* An insertion in a table that is being filled finds a slot.
LEMMA InsertedFresh ==
    ASSUME NEW t, Good(t), Fresh(t), NEW k \in Keys, NEW d \in Data, NActive(t) < Alloc(t)
    PROVE  locate(t, k, TRUE) # None /\ Fresh(Inserted(t, k, d))
<1>1. Used(t) # DOMAIN t /\ Used(t) \in SUBSET DOMAIN t
  <2>1. Used(t) = DOMAIN t => NActive(t) = Alloc(t)
    BY DEF Used, NActive, Alloc
  <2>2. Alloc(t) \in Nat
    BY GoodParts
  <2> QED
    BY <2>1, <2>2, UsedNumber DEF Used
<1>2. PICK x \in DOMAIN t : ~IsActive(t, x)
  BY <1>1 DEF Used
<1>3. t[x].flags = "EMPTY"
  <2>1. t[x] \in Entries
    BY GoodParts
  <2> QED
    BY <1>2, <2>1, EntryKinds DEF Fresh, IsActive
<1>4. locate(t, k, TRUE) # None
  BY <1>3, Located
<1> DEFINE l == locate(t, k, TRUE)
           u == Inserted(t, k, d)
<1>5. l \in DOMAIN t
  BY <1>4, Located
<1>6. u = [t EXCEPT ![l] = Active(k, d)] /\ Active(k, d) \in Entries
  BY EntryKinds DEF Inserted
<1> HIDE DEF l, u
<1>7. Differ(t, u, l) /\ u[l] = Active(k, d)
  BY <1>5, <1>6, PutSlot
<1>8. Fresh(u)
  BY <1>7, EntryKinds DEF Fresh, Differ
<1> QED
  BY <1>4, <1>8 DEF u

\* The table u holds what the slots of t from m on hold.
Copied(t, m, n, u) ==
    /\ Good(u) /\ Fresh(u)
    /\ NActive(u) = Cardinality({x \in m .. n - 1 : IsActive(t, x)})
    /\ \A k \in Keys, d \in Data : Holds(u, k, d) <=> \E x \in m .. n - 1 : t[x] = Active(k, d)

\* One more slot is copied.
LEMMA CopyStep ==
    ASSUME NEW t, Good(t), NEW n, n = Alloc(t), NEW m \in 0 .. n - 1,
           NEW u, Copied(t, m + 1, n, u), NEW N \in Nat, Alloc(u) = N, n < N,
           NEW v, v = IF IsActive(t, m) THEN Inserted(u, t[m].key, t[m].data) ELSE u
    PROVE  Copied(t, m, n, v) /\ Alloc(v) = N
<1> DEFINE S == {x \in m + 1 .. n - 1 : IsActive(t, x)}
           Q == {x \in m .. n - 1 : IsActive(t, x)}
<1>1. n \in Nat \ {0} /\ DOMAIN t = 0 .. n - 1 /\ \A x \in DOMAIN t : t[x] \in Entries
  BY GoodParts
<1>2. /\ Good(u) /\ Fresh(u) /\ NActive(u) = Cardinality(S)
      /\ \A k \in Keys, d \in Data : Holds(u, k, d) <=> \E x \in m + 1 .. n - 1 : t[x] = Active(k, d)
  BY DEF Copied
<1>3. m .. n - 1 = (m + 1 .. n - 1) \cup {m}
  BY <1>1
<1>4. IsFiniteSet(S) /\ Cardinality(S) < N
  <2>1. IsFiniteSet(0 .. n - 1) /\ Cardinality(0 .. n - 1) = n
    BY <1>1, FS_Interval
  <2>2. S \in SUBSET (0 .. n - 1)
    BY <1>1
  <2>3. IsFiniteSet(S) /\ Cardinality(S) <= n
    BY <2>1, <2>2, FS_Subset
  <2>4. Cardinality(S) \in Nat
    BY <2>3, FS_CardinalityType
  <2> QED
    BY <1>1, <2>3, <2>4
<1>5. CASE ~IsActive(t, m)
  <2>1. v = u
    BY <1>5
  <2>2. Q = S
    BY <1>3, <1>5
  <2>3. ASSUME NEW k \in Keys, NEW d \in Data
        PROVE  Holds(v, k, d) <=> \E x \in m .. n - 1 : t[x] = Active(k, d)
    <3>1. t[m] # Active(k, d)
      BY <1>5, EntryKinds DEF IsActive
    <3> QED
      BY <1>2, <1>3, <2>1, <3>1
  <2> QED
    BY <1>2, <2>1, <2>2, <2>3 DEF Copied
<1>6. CASE IsActive(t, m)
  <2> DEFINE kk == t[m].key
             dd == t[m].data
  <2>1. kk \in Keys /\ dd \in Data /\ t[m] = Active(kk, dd) /\ v = Inserted(u, kk, dd)
    BY <1>1, <1>6, EntryKinds DEF IsActive
  <2>2. \A x \in m + 1 .. n - 1 : \A d : t[x] # Active(kk, d)
    <3> SUFFICES ASSUME NEW x \in m + 1 .. n - 1, NEW d, t[x] = Active(kk, d) PROVE FALSE
      OBVIOUS
    <3>1. IsActive(t, x) /\ t[x].key = kk
      BY EntryKinds DEF IsActive
    <3>2. x \in DOMAIN t /\ m \in DOMAIN t /\ x # m
      BY <1>1
    <3> QED
      BY <1>6, <3>1, <3>2 DEF Good
  <2> HIDE DEF kk, dd
  <2>3. locate(u, kk, TRUE) # None /\ Fresh(v)
    BY <1>2, <1>4, <2>1, InsertedFresh
  <2>4. /\ Good(v) /\ Alloc(v) = N
        /\ NActive(v) = IF IsActive(u, locate(u, kk, TRUE)) THEN NActive(u) ELSE NActive(u) + 1
        /\ IsActive(u, locate(u, kk, TRUE)) <=> \E x \in DOMAIN u : HasKey(u, x, kk)
        /\ \A e \in Data : Holds(v, kk, e) <=> e = dd
        /\ \A l \in Keys \ {kk}, e \in Data : Holds(v, l, e) <=> Holds(u, l, e)
    <3> HIDE DEF S, Q
    <3>1. ASSUME NEW w, w = Inserted(u, kk, dd)
          PROVE  /\ Good(w) /\ Alloc(w) = N
                 /\ NActive(w) = IF IsActive(u, locate(u, kk, TRUE)) THEN NActive(u) ELSE NActive(u) + 1
                 /\ IsActive(u, locate(u, kk, TRUE)) <=> \E x \in DOMAIN u : HasKey(u, x, kk)
                 /\ \A e \in Data : Holds(w, kk, e) <=> e = dd
                 /\ \A l \in Keys \ {kk}, e \in Data : Holds(w, l, e) <=> Holds(u, l, e)
      BY <1>2, <2>1, <2>3, <3>1, InsertedIs, ZenonT(40)
    <3> QED
      BY <2>1, <3>1
  <2>5. ~ \E x \in DOMAIN u : HasKey(u, x, kk)
    <3> SUFFICES ASSUME NEW x \in DOMAIN u, HasKey(u, x, kk) PROVE FALSE
      OBVIOUS
    <3>1. u[x] \in Entries
      BY <1>2, GoodParts
    <3>2. u[x].data \in Data /\ u[x] = Active(kk, u[x].data)
      BY <3>1, EntryKinds DEF HasKey, IsActive
    <3>3. Holds(u, kk, u[x].data)
      BY <3>2 DEF Holds
    <3> QED
      BY <1>2, <2>1, <2>2, <3>2, <3>3
  <2>6. NActive(v) = Cardinality(Q)
    <3>1. Q = S \cup {m} /\ m \notin S
      BY <1>3, <1>6
    <3> QED
      BY <1>2, <1>4, <2>4, <2>5, <3>1, FS_AddElement
  <2>7. ASSUME NEW k \in Keys, NEW d \in Data
        PROVE  Holds(v, k, d) <=> \E x \in m .. n - 1 : t[x] = Active(k, d)
    <3>1. CASE k = kk
      <4>1. t[m] = Active(kk, d) <=> d = dd
        BY <2>1, EntryKinds
      <4> QED
        BY <1>3, <2>2, <2>4, <3>1, <4>1
    <3>2. CASE k # kk
      <4>1. t[m] # Active(k, d)
        BY <2>1, <3>2, EntryKinds
      <4> QED
        BY <1>2, <1>3, <2>4, <3>2, <4>1
    <3> QED
      BY <3>1, <3>2
  <2> QED
    BY <2>3, <2>4, <2>6, <2>7 DEF Copied
<1> QED
  BY <1>5, <1>6

\* A rehashed table holds what the old one did, and has room for more.
LEMMA RehashIs ==
    ASSUME Bertrand, NEW t, Good(t)
    PROVE  /\ Good(rehash(t)) /\ Fresh(rehash(t))
           /\ NActive(rehash(t)) = NActive(t) /\ NActive(rehash(t)) < Alloc(rehash(t))
           /\ \A k \in Keys, d \in Data : Holds(rehash(t), k, d) <=> Holds(t, k, d)
<1> DEFINE n == Alloc(t)
           N == findPrimeGreaterThan(2 * n)
<1>1. n \in Nat \ {0} /\ DOMAIN t = 0 .. n - 1
  BY GoodParts
<1>2. N \in Nat \ {0} /\ n < N
  BY <1>1, PrimeFound
<1>3. PICK g : RehashTrace(t, g)
  BY RehashSteps
<1>0. /\ g[0] = [x \in 0 .. N - 1 |-> Empty]
      /\ \A i \in 1 .. n :
            g[i] = IF IsActive(t, n - i)
                   THEN Inserted(g[i - 1], t[n - i].key, t[n - i].data)
                   ELSE g[i - 1]
      /\ rehash(t) = g[n]
  BY <1>3, Zenon DEF RehashTrace
<1> HIDE DEF N
<1> DEFINE S == {i \in 0 .. n : Copied(t, n - i, n, g[i]) /\ Alloc(g[i]) = N}
<1>4. 0 \in S
  <2>1. /\ Good(g[0]) /\ Alloc(g[0]) = N /\ NActive(g[0]) = 0
        /\ \A k \in Keys, d \in Data : ~Holds(g[0], k, d)
    BY <1>0, <1>2, EmptyGood
  <2>2. Fresh(g[0])
    <3>1. DOMAIN g[0] = 0 .. N - 1 /\ \A x \in DOMAIN g[0] : g[0][x] = Empty
      BY <1>0
    <3> QED
      BY <3>1, EntryKinds DEF Fresh
  <2>3. n - 0 .. n - 1 = {}
    BY <1>1
  <2>4. NActive(g[0]) = Cardinality({x \in n - 0 .. n - 1 : IsActive(t, x)})
    <3>1. {x \in n - 0 .. n - 1 : IsActive(t, x)} = {}
      BY <2>3
    <3> QED
      BY <2>1, <3>1, FS_EmptySet
  <2>5. Copied(t, n - 0, n, g[0])
    <3> HIDE DEF n
    <3> QED
      BY <2>1, <2>2, <2>3, <2>4 DEF Copied
  <2> QED
    BY <1>1, <2>1, <2>5
<1>5. ASSUME NEW i \in 1 .. n, i - 1 \in S
      PROVE  i \in S
  <2>1. n - i \in 0 .. n - 1 /\ n - i + 1 = n - (i - 1) /\ i \in 0 .. n
    BY <1>1
  <2>2. Copied(t, n - i + 1, n, g[i - 1]) /\ Alloc(g[i - 1]) = N
    BY <1>5, <2>1
  <2>3. g[i] = IF IsActive(t, n - i)
               THEN Inserted(g[i - 1], t[n - i].key, t[n - i].data)
               ELSE g[i - 1]
    BY <1>0
  <2>4. N \in Nat
    BY <1>2
  <2>5. Copied(t, n - i, n, g[i]) /\ Alloc(g[i]) = N
    <3> HIDE DEF S
    <3> QED
      BY <1>2, <2>1, <2>2, <2>3, <2>4, CopyStep
  <2> QED
    BY <2>1, <2>5
<1>6. n \in S
  <2>1. \A i \in 0 .. n : i \in S
    <3>1. n \in Nat
      BY <1>1
    <3> HIDE DEF S, n
    <3> QED
      BY <1>4, <1>5, <3>1, UpTo
  <2> QED
    BY <1>1, <2>1
<1>7. Copied(t, n - n, n, g[n]) /\ Alloc(g[n]) = N
  BY <1>6
<1>8. n - n .. n - 1 = DOMAIN t
  BY <1>1
<1>9. Copied(t, 0, n, rehash(t)) /\ Alloc(rehash(t)) = N
  <2>1. n - n = 0
    BY <1>1
  <2> QED
    BY <1>0, <1>7, <2>1
<1> DEFINE r == rehash(t)
<1> HIDE DEF r
<1>10. /\ Good(r) /\ Fresh(r) /\ NActive(r) = Cardinality({x \in 0 .. n - 1 : IsActive(t, x)})
       /\ \A k \in Keys, d \in Data : Holds(r, k, d) <=> \E x \in 0 .. n - 1 : t[x] = Active(k, d)
       /\ Alloc(r) = N
  BY <1>9 DEF Copied, r
<1>11. NActive(r) = NActive(t)
  BY <1>1, <1>10 DEF NActive
<1>12. NActive(t) <= n /\ NActive(t) \in Nat
  BY UsedNumber
<1>13. NActive(r) < Alloc(r)
  BY <1>1, <1>2, <1>10, <1>11, <1>12
<1>14. \A k \in Keys, d \in Data : Holds(r, k, d) <=> Holds(t, k, d)
  BY <1>1, <1>10 DEF Holds
<1> QED
  BY <1>10, <1>11, <1>13, <1>14 DEF r

----------------------------------------------------------------------------
(* The calls *)

\* The inductive invariant: a good table, and the counter counts its entries.
\* NoDuplicates alone is not inductive: without the probe paths locate could
\* miss a name that is there, and NC_hashmapadd would add it a second time.
HashInv == Good(table) /\ active = NActive(table)

\* The step gives name k the value v, and no other name another one.
Becomes(k, v) ==
    \A l \in Keys : Value(table', l) = IF l = k THEN v ELSE Value(table, l)

\* NC_hashmapadd: before it inserts the name the table may be rehashed, once
\* because it is full and once because locate finds no slot.
LEMMA AddStep ==
    ASSUME Bertrand, HashInv, NEW k \in Keys, NEW d \in Data, NC_hashmapadd(k, d)
    PROVE  /\ HashInv' /\ Becomes(k, d)
           /\ active' = IF Value(table, k) = NoData THEN active + 1 ELSE active
<1> DEFINE t == IF (Alloc(table) * 3) \div 4 <= active THEN rehash(table) ELSE table
           u == IF locate(t, k, TRUE) = None THEN rehash(t) ELSE t
           n == IF u = table THEN active ELSE NActive(u)
           Same(v) == /\ Good(v) /\ NActive(v) = active
                      /\ \A l \in Keys, e \in Data : Holds(v, l, e) <=> Holds(table, l, e)
<1>1. Same(table)
  BY DEF HashInv
<1>2. Same(t)
  <2>1. Same(rehash(table))
    BY RehashIs DEF HashInv
  <2> HIDE DEF Same
  <2> QED
    BY <1>1, <2>1
<1>3. /\ table' = Inserted(u, k, d)
      /\ active' = IF IsActive(u, locate(u, k, TRUE)) THEN n ELSE n + 1
  BY DEF NC_hashmapadd
<1> HIDE DEF t
<1>4. Same(u) /\ locate(u, k, TRUE) # None
  <2>1. CASE locate(t, k, TRUE) = None
    <3>1. Same(rehash(t))
      BY <1>2, RehashIs
    <3>2. locate(rehash(t), k, TRUE) # None
      BY <1>2, RehashIs, InsertedFresh
    <3> HIDE DEF Same
    <3> QED
      BY <2>1, <3>1, <3>2
  <2>2. CASE locate(t, k, TRUE) # None
    <3> HIDE DEF Same
    <3> QED
      BY <1>2, <2>2
  <2> QED
    BY <2>1, <2>2
<1> HIDE DEF u
<1>5. n = NActive(u) /\ n = active
  BY <1>4
<1> HIDE DEF n
<1>6. /\ Good(table')
      /\ NActive(table') = IF IsActive(u, locate(u, k, TRUE)) THEN NActive(u) ELSE NActive(u) + 1
      /\ IsActive(u, locate(u, k, TRUE)) <=> \E x \in DOMAIN u : HasKey(u, x, k)
      /\ \A e \in Data : Holds(table', k, e) <=> e = d
      /\ \A l \in Keys \ {k}, e \in Data : Holds(table', l, e) <=> Holds(u, l, e)
  BY <1>3, <1>4, InsertedIs, ZenonT(40)
<1>7. HashInv'
  <2>1. active' = NActive(table')
    BY <1>3, <1>5, <1>6
  <2>2. Good(table')
    BY <1>6
  <2> QED
    BY <2>1, <2>2 DEF HashInv
<1>8. Value(u, k) = Value(table, k)
  BY <1>1, <1>4, SameValue
<1>9. Value(u, k) # NoData <=> \E x \in DOMAIN u : HasKey(u, x, k)
  BY <1>4, ValueIs
<1>10. active' = IF Value(table, k) = NoData THEN active + 1 ELSE active
  BY <1>3, <1>5, <1>6, <1>8, <1>9
<1>11. Value(table', k) = d
  BY <1>6, ValueIs
<1>12. ASSUME NEW l \in Keys, l # k
       PROVE  Value(table', l) = Value(table, l)
  <2>1. \A e \in Data : Holds(table', l, e) <=> Holds(table, l, e)
    BY <1>4, <1>6, <1>12
  <2> QED
    BY <1>1, <1>6, <2>1, SameValue
<1>13. Becomes(k, d)
  BY <1>11, <1>12 DEF Becomes
<1> QED
  BY <1>7, <1>10, <1>13

\* The slot that a call has located for a name that is there.
LEMMA FoundIs ==
    ASSUME HashInv, NEW k \in Keys, Found(k)
    PROVE  /\ locate(table, k, FALSE) \in DOMAIN table
           /\ HasKey(table, locate(table, k, FALSE), k)
           /\ Value(table, k) # NoData
<1>1. locate(table, k, FALSE) # None /\ IsActive(table, locate(table, k, FALSE))
  BY DEF Found
<1>2. locate(table, k, FALSE) \in DOMAIN table /\ HasKey(table, locate(table, k, FALSE), k)
  BY <1>1, Located DEF HashInv
<1> QED
  BY <1>2, ValueIs DEF HashInv

\* A slot in use becomes DELETED.
LEMMA RemoveStep ==
    ASSUME HashInv, NEW k \in Keys, NEW x \in DOMAIN table, HasKey(table, x, k),
           table' = [table EXCEPT ![x] = Deleted], active' = active - 1
    PROVE  HashInv' /\ Becomes(k, NoData) /\ Value(table, k) # NoData
<1>1. Good(table) /\ active = NActive(table)
  BY DEF HashInv
<1>2. /\ Good(table') /\ NActive(table') = NActive(table) - 1
      /\ \A e \in Data : ~Holds(table', k, e)
      /\ \A l \in Keys \ {k}, e \in Data : Holds(table', l, e) <=> Holds(table, l, e)
  BY <1>1, RemovedIs
<1>3. HashInv'
  BY <1>1, <1>2 DEF HashInv
<1>4. Value(table', k) = NoData
  <2>1. Value(table', k) \in Data \cup {NoData} /\ \A d \in Data : Value(table', k) # d
    BY <1>2, ValueIs
  <2> QED
    BY <2>1
<1>5. ASSUME NEW l \in Keys, l # k
      PROVE  Value(table', l) = Value(table, l)
  BY <1>1, <1>2, <1>5, SameValue
<1>6. Value(table, k) # NoData
  BY <1>1, ValueIs
<1> QED
  BY <1>3, <1>4, <1>5, <1>6 DEF Becomes

\* NC_hashmapsetdata of a name that is there.
LEMMA SetStep ==
    ASSUME HashInv, NEW k \in Keys, NEW d \in Data, Found(k),
           table' = [table EXCEPT ![locate(table, k, FALSE)].data = d], active' = active
    PROVE  HashInv' /\ Becomes(k, d) /\ Value(table, k) # NoData
<1> DEFINE x == locate(table, k, FALSE)
<1>1. Good(table) /\ active = NActive(table)
  BY DEF HashInv
<1>2. x \in DOMAIN table /\ HasKey(table, x, k) /\ Value(table, k) # NoData
  BY FoundIs
<1> HIDE DEF x
<1> DEFINE u == Inserted(table, k, d)
<1>3. [table EXCEPT ![x].data = d] = u /\ locate(table, k, TRUE) = x /\ x # None
  BY <1>1, <1>2, ChangedIs, Zenon
<1>4. locate(table, k, TRUE) # None /\ IsActive(table, locate(table, k, TRUE))
  <2>1. locate(table, k, TRUE) = x /\ x # None
    BY <1>3, Zenon
  <2> QED
    BY <1>2, <2>1 DEF HasKey
<1>5. /\ Good(u) /\ NActive(u) = NActive(table)
      /\ \A e \in Data : Holds(u, k, e) <=> e = d
      /\ \A l \in Keys \ {k}, e \in Data : Holds(u, l, e) <=> Holds(table, l, e)
  BY <1>1, <1>4, InsertedIs, ZenonT(40)
<1> HIDE DEF u
<1>6. table' = u
  BY <1>3 DEF x
<1>7. HashInv'
  <2>1. Good(table') /\ NActive(table') = active'
    BY <1>1, <1>5, <1>6, Zenon
  <2> QED
    BY <2>1 DEF HashInv
<1>8. Value(u, k) = d
  BY <1>5, ValueIs
<1>9. ASSUME NEW l \in Keys, l # k
      PROVE  Value(u, l) = Value(table, l)
  BY <1>1, <1>5, <1>9, SameValue
<1>10. ASSUME NEW l \in Keys
      PROVE  Value(table', l) = IF l = k THEN d ELSE Value(table, l)
  <2>1. Value(table', l) = Value(u, l)
    BY <1>6, Zenon
  <2> QED
    BY <1>8, <1>9, <2>1
<1> QED
  BY <1>2, <1>7, <1>10 DEF Becomes

\* NC_hashmapdeactivate removes the name in the first slot with the data.
LEMMA DeactivateStep ==
    ASSUME HashInv, NEW d \in Data, NC_hashmapdeactivate(d)
    PROVE  \E k \in Keys : /\ HashInv' /\ Becomes(k, NoData) /\ Value(table, k) # NoData
                           /\ active' = active - 1
<1> DEFINE S == {x \in DOMAIN table : IsActive(table, x) /\ table[x].data = d}
           x == Least(S)
           k == table[x].key
<1>1. /\ S # {} /\ table' = [table EXCEPT ![x] = Deleted] /\ active' = active - 1
  BY DEF NC_hashmapdeactivate
<1>2. S \in SUBSET Nat
  BY GoodParts DEF HashInv
<1>3. x \in S
  BY <1>1, <1>2, LeastIs
<1>4. x \in DOMAIN table /\ IsActive(table, x) /\ table[x] \in Entries
  BY <1>3, GoodParts DEF HashInv
<1> HIDE DEF x
<1>5. k \in Keys /\ HasKey(table, x, k)
  BY <1>4, EntryKinds DEF IsActive, HasKey
<1> HIDE DEF k
<1>6. HashInv' /\ Becomes(k, NoData) /\ Value(table, k) # NoData
  BY <1>1, <1>4, <1>5, RemoveStep
<1> QED
  BY <1>1, <1>5, <1>6

\* Every call keeps the invariant, and changes the map as NameMap says.
LEMMA HashStep ==
    ASSUME Bertrand, HashInv, Next
    PROVE  /\ HashInv'
           /\ \/ \E k \in Keys, d \in Data :
                    /\ Becomes(k, d)
                    /\ active' = IF Value(table, k) = NoData THEN active + 1 ELSE active
              \/ \E k \in Keys :
                    Becomes(k, NoData) /\ Value(table, k) # NoData /\ active' = active - 1
              \/ \E k \in Keys, d \in Data :
                    Becomes(k, d) /\ Value(table, k) # NoData /\ active' = active
              \/ table' = table /\ active' = active
<1>1. ASSUME NEW k \in Keys, NEW d \in Data, NC_hashmapadd(k, d)
      PROVE  /\ HashInv' /\ Becomes(k, d)
             /\ active' = IF Value(table, k) = NoData THEN active + 1 ELSE active
  BY <1>1, AddStep
<1>2. ASSUME NEW k \in Keys, NC_hashmapremove(k)
      PROVE  HashInv' /\ Becomes(k, NoData) /\ Value(table, k) # NoData /\ active' = active - 1
  <2> DEFINE x == locate(table, k, FALSE)
  <2>1. Found(k) /\ table' = [table EXCEPT ![x] = Deleted] /\ active' = active - 1
    BY <1>2 DEF NC_hashmapremove
  <2>2. x \in DOMAIN table /\ HasKey(table, x, k)
    BY <2>1, FoundIs
  <2> HIDE DEF x
  <2> QED
    BY <2>1, <2>2, RemoveStep
<1>3. ASSUME NEW k \in Keys, NEW d \in Data, NC_hashmapsetdata(k, d)
      PROVE  /\ HashInv'
             /\ \/ Becomes(k, d) /\ Value(table, k) # NoData /\ active' = active
                \/ table' = table /\ active' = active
  <2>1. CASE Found(k)
    <3>1. table' = [table EXCEPT ![locate(table, k, FALSE)].data = d] /\ active' = active
      BY <1>3, <2>1, Zenon DEF NC_hashmapsetdata
    <3>2. HashInv' /\ Becomes(k, d) /\ Value(table, k) # NoData
      BY <2>1, <3>1, SetStep, Zenon
    <3> QED
      BY <3>1, <3>2, Zenon
  <2>2. CASE ~Found(k)
    <3>1. table' = table /\ active' = active
      BY <1>3, <2>2, Zenon DEF NC_hashmapsetdata
    <3> QED
      BY <3>1 DEF HashInv
  <2> QED
    BY <2>1, <2>2
<1>4. ASSUME NEW d \in Data, NC_hashmapdeactivate(d)
      PROVE  \E k \in Keys : /\ HashInv' /\ Becomes(k, NoData) /\ Value(table, k) # NoData
                             /\ active' = active - 1
  BY <1>4, DeactivateStep
<1>5. CASE \E k \in Keys, d \in Data : NC_hashmapadd(k, d)
  BY <1>1, <1>5
<1>6. CASE \E k \in Keys : NC_hashmapremove(k)
  BY <1>2, <1>6
<1>7. CASE \E k \in Keys, d \in Data : NC_hashmapsetdata(k, d)
  BY <1>3, <1>7
<1>8. CASE \E d \in Data : NC_hashmapdeactivate(d)
  BY <1>4, <1>8
<1> QED
  BY <1>5, <1>6, <1>7, <1>8 DEF Next

\* The table that NC_hashmapnew makes.
LEMMA HashInit ==
    ASSUME Init
    PROVE  HashInv /\ \A k \in Keys : Value(table, k) = NoData
<1>1. MINTABLESIZE \in Nat \ {0} /\ table = [x \in 0 .. MINTABLESIZE - 1 |-> Empty] /\ active = 0
  BY HashMapAssumption DEF Init
<1>2. /\ Good(table) /\ NActive(table) = 0
      /\ \A k \in Keys, d \in Data : ~Holds(table, k, d)
  BY <1>1, EmptyGood, Zenon
<1>3. \A k \in Keys : Value(table, k) = NoData
  <2> TAKE k \in Keys
  <2>1. Value(table, k) \in Data \cup {NoData} /\ \A d \in Data : Value(table, k) # d
    BY <1>2, ValueIs
  <2> QED
    BY <2>1
<1> QED
  BY <1>1, <1>2, <1>3 DEF HashInv

\* No name is ever in two slots, for all hash functions and table sizes: a
\* name stays on its probe path through removals and rehashes.
THEOREM NamesInOneSlot == Bertrand => (Spec => []NoDuplicates)
<1> SUFFICES ASSUME Bertrand PROVE Spec => []NoDuplicates
  OBVIOUS
<1>1. Init => HashInv
  BY HashInit
<1>2. HashInv /\ [Next]_vars => HashInv'
  <2> SUFFICES ASSUME HashInv, [Next]_vars PROVE HashInv'
    OBVIOUS
  <2>1. CASE Next
    BY <2>1, HashStep
  <2>2. CASE UNCHANGED vars
    BY <2>2 DEF HashInv, vars
  <2> QED
    BY <2>1, <2>2
<1>3. HashInv => NoDuplicates
  BY DEF HashInv, Good, NoDuplicates
<1> QED
  BY <1>1, <1>2, <1>3, PTL DEF Spec

\* The hash table implements the map that nchashmap.h promises: what
\* NC_hashmapget and NC_hashmapcount return changes with every call as NameMap
\* says, for all names, hash functions and table sizes.
THEOREM ImplementsMap == Bertrand => (Spec => IsMap)
<1> SUFFICES ASSUME Bertrand PROVE Spec => Map!Spec
  BY DEF IsMap
<1>1. Init => HashInv
  BY HashInit
<1>2. HashInv /\ [Next]_vars => HashInv'
  <2> SUFFICES ASSUME HashInv, [Next]_vars PROVE HashInv'
    OBVIOUS
  <2>1. CASE Next
    BY <2>1, HashStep
  <2>2. CASE UNCHANGED vars
    BY <2>2 DEF HashInv, vars
  <2> QED
    BY <2>1, <2>2
<1>3. HashInv => \A k \in Keys : NC_hashmapget(k) = Value(table, k)
  BY DEF HashInv, NC_hashmapget, Value
<1>4. Init => Map!Init
  <2> SUFFICES ASSUME Init PROVE Map!Init
    OBVIOUS
  <2>1. \A k \in Keys : NC_hashmapget(k) = NoData
    BY <1>3, HashInit
  <2>2. active = 0
    BY DEF Init
  <2> QED
    BY <2>1, <2>2 DEF Map!Init
<1>5. HashInv /\ [Next]_vars => [Map!Next]_(Map!vars)
  <2> SUFFICES ASSUME HashInv, [Next]_vars PROVE [Map!Next]_(Map!vars)
    OBVIOUS
  <2>1. HashInv'
    BY <1>2
  <2>2. \A k \in Keys : NC_hashmapget(k) = Value(table, k)
    BY <1>3
  <2>3. \A k \in Keys : NC_hashmapget(k)' = Value(table', k)
    BY <2>1 DEF HashInv, NC_hashmapget, Value
  <2> DEFINE m == [k \in Keys |-> NC_hashmapget(k)]
  <2>4. ASSUME NEW k \in Keys, NEW v, Becomes(k, v)
        PROVE  m' = [m EXCEPT ![k] = v] /\ m[k] = Value(table, k)
    <3>1. \A l \in Keys : NC_hashmapget(l)' = IF l = k THEN v ELSE NC_hashmapget(l)
      BY <2>2, <2>3, <2>4 DEF Becomes
    <3> QED
      BY <2>2, <3>1
  <2>5. CASE UNCHANGED <<table, active>>
    <3>1. \A k \in Keys : NC_hashmapget(k)' = NC_hashmapget(k)
      BY <2>5 DEF NC_hashmapget
    <3> QED
      BY <2>5, <3>1 DEF Map!vars
  <2>6. CASE UNCHANGED vars
    BY <2>5, <2>6 DEF vars
  <2>7. ASSUME NEW k \in Keys, NEW d \in Data, Becomes(k, d),
               active' = IF Value(table, k) = NoData THEN active + 1 ELSE active
        PROVE  Map!Next
    <3>1. Map!Add(k, d)
      BY <2>4, <2>7 DEF Map!Add
    <3> QED
      BY <3>1 DEF Map!Next
  <2>8. ASSUME NEW k \in Keys, Becomes(k, NoData), Value(table, k) # NoData, active' = active - 1
        PROVE  Map!Next
    <3>1. Map!Remove(k)
      BY <2>4, <2>8 DEF Map!Remove
    <3> QED
      BY <3>1 DEF Map!Next
  <2>9. ASSUME NEW k \in Keys, NEW d \in Data, Becomes(k, d),
               Value(table, k) # NoData, active' = active
        PROVE  Map!Next
    <3>1. Map!SetData(k, d)
      BY <2>4, <2>9 DEF Map!SetData
    <3> QED
      BY <3>1 DEF Map!Next
  <2>10. CASE Next
    BY <2>5, <2>7, <2>8, <2>9, <2>10, HashStep
  <2> QED
    BY <2>6, <2>10
<1> QED
  BY <1>1, <1>2, <1>4, <1>5, PTL DEF Spec, Map!Spec

----------------------------------------------------------------------------
(* The size of the table *)

Last    == P(NC_nprimes - 2)      \* the last prime of the table
Flag    == P(NC_nprimes - 1)      \* the flag at its end
InTable == 1 .. NC_nprimes - 2    \* where the primes are

PrimeNumber(n) == n \in Nat /\ n >= 2 /\ \A i \in 2 .. n - 1 : n % i # 0

\* The hypothesis of the theorem.  The table holds the primes up to its last one,
\* each of them and nothing else; and the search beyond it ends before trial
\* division by the table would fail, which the comment on isPrime names
\* ("n > 180503 * 180503").
TrueTable ==
    /\ \A n \in Nat : n <= Last => (PrimeNumber(n) <=> \E i \in InTable : n = P(i))
    /\ \A v \in Vals : Last < v /\ v < Flag => \E q \in v + 1 .. Last * Last : PrimeNumber(q)

----------------------------------------------------------------------------
(* Divisors *)

\* Products of naturals.
LEMMA Products ==
    ASSUME NEW a \in Nat, NEW b \in Nat, NEW c \in Nat
    PROVE  /\ a * b \in Nat /\ a * b = b * a /\ a * (b * c) = (a * b) * c
           /\ (b <= c => a * b <= a * c)
<1>1. ASSUME b <= c
      PROVE  a * b <= a * c
  <2> DEFINE k == c - b
  <2>1. k \in Nat /\ c = b + k
    BY <1>1
  <2> HIDE DEF k
  <2>2. a * c = a * b + a * k
    BY <2>1
  <2>3. a * k \in Nat /\ a * b \in Nat
    BY <2>1
  <2> QED
    BY <2>2, <2>3
<1>2. a * b \in Nat /\ a * b = b * a
  OBVIOUS
<1>3. a * (b * c) = (a * b) * c
  OBVIOUS
<1> QED
  BY <1>1, <1>2, <1>3

\* i divides n if n is a multiple of i.
LEMMA Multiple ==
    ASSUME NEW n \in Nat, NEW i \in Nat \ {0}
    PROVE  n % i = 0 <=> \E k \in Nat : n = i * k
<1>1. ASSUME n % i = 0
      PROVE  \E k \in Nat : n = i * k
  <2> DEFINE k == n \div i
             r == n % i
  <2>1. k \in Int /\ r \in 0 .. i - 1 /\ n = i * k + r
    OBVIOUS
  <2>2. r = 0
    BY <1>1
  <2> HIDE DEF k, r
  <2>3. k \in Nat /\ n = i * k
    BY <2>1, <2>2
  <2> QED
    BY <2>3
<1>2. ASSUME NEW k \in Nat, n = i * k
      PROVE  n % i = 0
  BY <1>2
<1> QED
  BY <1>1, <1>2

\* The least divisor of a number that is not prime is prime, and its square is not
\* greater than the number.
LEMMA LeastDivisor ==
    ASSUME NEW n \in Nat, n >= 2, ~PrimeNumber(n)
    PROVE  \E d \in 2 .. n - 1 : n % d = 0 /\ PrimeNumber(d) /\ d * d <= n
<1> DEFINE S == {i \in 2 .. n - 1 : n % i = 0}
<1>1. S \in SUBSET Nat /\ S # {}
  <2>1. PICK i \in 2 .. n - 1 : ~(n % i # 0)
    BY Zenon DEF PrimeNumber
  <2>2. n % i = 0
    BY <2>1
  <2>3. i \in S /\ S \subseteq 2 .. n - 1
    BY <2>2
  <2> HIDE DEF S
  <2>4. 2 .. n - 1 \subseteq Nat
    OBVIOUS
  <2> QED
    BY <2>3, <2>4, Zenon
<1>2. PICK d \in S : \A y \in S : d <= y
  BY <1>1, NatLeast
<1>3. d \in Nat /\ 2 <= d /\ d < n /\ n % d = 0
  OBVIOUS
<1>4. PICK e \in Nat : n = d * e
  BY <1>3, Multiple
<1>5. e >= 2
  <2>1. e # 0
    BY <1>3, <1>4
  <2>2. e # 1
    BY <1>3, <1>4
  <2> QED
    BY <2>1, <2>2
<1>6. e \in S
  <2>1. n = e * d
    BY <1>3, <1>4, Products
  <2>2. n % e = 0
    BY <1>3, <1>5, <2>1, Multiple
  <2>3. e * 2 <= e * d
    BY <1>3, Products
  <2>4. e < n
    BY <1>5, <2>1, <2>3
  <2> QED
    BY <1>5, <2>2, <2>4
<1>7. d * d <= n
  BY <1>2, <1>3, <1>4, <1>6, Products
<1>8. PrimeNumber(d)
  <2> SUFFICES ASSUME NEW i \in 2 .. d - 1, d % i = 0 PROVE FALSE
    BY <1>3 DEF PrimeNumber
  <2>1. PICK k \in Nat : d = i * k
    BY <1>3, Multiple
  <2> DEFINE m == k * e
  <2>2. n = i * m /\ m \in Nat
    BY <1>4, <2>1, Products
  <2> HIDE DEF m
  <2>3. n % i = 0
    BY <2>2, Multiple
  <2>4. i \in 2 .. n - 1
    BY <1>3
  <2>5. i \in S
    BY <2>3, <2>4
  <2>6. d <= i
    BY <1>2, <2>5
  <2> QED
    BY <1>3, <2>6
<1> QED
  BY <1>3, <1>7, <1>8

----------------------------------------------------------------------------
(* The table *)

\* The table as C indexes it.
LEMMA Table ==
    /\ NC_nprimes \in Nat /\ NC_nprimes >= 4
    /\ \A i \in 0 .. NC_nprimes - 1 : P(i) \in Nat
    /\ \A i \in 0 .. NC_nprimes - 2 : P(i) < P(i + 1)
    /\ Last \in Nat /\ Flag \in Nat /\ Vals \subseteq Nat \ {0, 1}
<1>1. NC_nprimes \in Nat /\ NC_nprimes >= 4
  BY PrimeTableAssumption DEF NC_nprimes
<1>2. \A i \in 0 .. NC_nprimes - 1 : P(i) \in Nat
  BY <1>1, PrimeTableAssumption DEF P, NC_nprimes
<1>3. \A i \in 0 .. NC_nprimes - 2 : P(i) < P(i + 1)
  BY <1>1, PrimeTableAssumption DEF P, NC_nprimes
<1>4. NC_nprimes - 2 \in 0 .. NC_nprimes - 1 /\ NC_nprimes - 1 \in 0 .. NC_nprimes - 1
  BY <1>1
<1> QED
  BY <1>1, <1>2, <1>3, <1>4, PrimeTableAssumption DEF Last, Flag

\* It grows.
LEMMA Grows ==
    ASSUME NEW i \in 0 .. NC_nprimes - 1, NEW j \in 0 .. NC_nprimes - 1, i < j
    PROVE  P(i) < P(j)
<1> DEFINE S == {k \in i + 1 .. j : ~(P(i) < P(k))}
<1> SUFFICES ASSUME S # {} PROVE FALSE
  BY Table
<1>1. S \in SUBSET Nat
  OBVIOUS
<1>2. PICK k \in S : \A y \in S : k <= y
  BY <1>1, NatLeast
<1>3. k \in i + 1 .. j /\ ~(P(i) < P(k))
  OBVIOUS
<1>4. CASE k = i + 1
  <2>1. i \in 0 .. NC_nprimes - 2
    BY <1>3, <1>4, Table
  <2> QED
    BY <1>3, <1>4, <2>1, Table
<1>5. CASE k # i + 1
  <2> DEFINE h == k - 1
  <2>1. h \in i + 1 .. j /\ h < k /\ h \in 0 .. NC_nprimes - 2 /\ k = h + 1 /\ k \in 0 .. NC_nprimes - 1
        /\ h \in 0 .. NC_nprimes - 1
    BY <1>3, <1>5, Table
  <2>2. h \notin S
    BY <1>2, <2>1
  <2> HIDE DEF h
  <2>3. P(i) < P(h)
    BY <2>1, <2>2
  <2>4. P(h) < P(k)
    BY <2>1, Table
  <2>5. P(i) \in Nat /\ P(h) \in Nat /\ P(k) \in Nat
    BY <2>1, Table
  <2> QED
    BY <1>3, <2>3, <2>4, <2>5
<1> QED
  BY <1>4, <1>5

\* isPrime tells whether a number beyond the table is prime, up to the square of
\* the last prime of the table.
LEMMA isPrimeIs ==
    ASSUME TrueTable, NEW n \in Nat, Last < n, n <= Last * Last
    PROVE  isPrime(n) <=> PrimeNumber(n)
<1>1. \A i \in InTable : P(i) \in Nat /\ P(i) <= Last /\ PrimeNumber(P(i))
  <2> TAKE i \in InTable
  <2>1. i \in 0 .. NC_nprimes - 1 /\ NC_nprimes - 2 \in 0 .. NC_nprimes - 1
    BY Table DEF InTable
  <2>2. P(i) \in Nat
    BY <2>1, Table
  <2>3. P(i) <= Last
    <3>1. CASE i = NC_nprimes - 2
      BY <2>2, <3>1 DEF Last
    <3>2. CASE i # NC_nprimes - 2
      <4>1. i < NC_nprimes - 2
        BY <3>2, Table DEF InTable
      <4>2. P(i) < Last
        BY <2>1, <4>1, Grows DEF Last
      <4> QED
        BY <2>2, <4>2, Table
    <3> QED
      BY <3>1, <3>2
  <2>4. PrimeNumber(P(i))
    BY <2>2, <2>3 DEF TrueTable
  <2> QED
    BY <2>2, <2>3, <2>4
<1>2. n > 3
  <2>1. 2 \in InTable /\ 1 \in InTable /\ 1 \in 0 .. NC_nprimes - 1 /\ 2 \in 0 .. NC_nprimes - 1
    BY Table DEF InTable
  <2>2. P(1) \in Nat /\ P(2) \in Nat /\ P(1) >= 2 /\ P(2) <= Last
    BY <1>1, <2>1 DEF PrimeNumber
  <2>3. P(1) < P(2)
    BY <2>1, Grows
  <2> QED
    BY <2>2, <2>3, Table
<1>3. ASSUME PrimeNumber(n)
      PROVE  isPrime(n)
  <2>1. ASSUME NEW i \in InTable
        PROVE  n % P(i) # 0
    <3>1. P(i) \in 2 .. n - 1
      BY <1>1, Table DEF PrimeNumber
    <3> QED
      BY <1>3, <3>1 DEF PrimeNumber
  <2> QED
    BY <1>2, <2>1 DEF isPrime, InTable
<1>4. ASSUME ~PrimeNumber(n)
      PROVE  ~isPrime(n)
  <2>1. n >= 2
    BY <1>2
  <2>2. PICK d \in 2 .. n - 1 : n % d = 0 /\ PrimeNumber(d) /\ d * d <= n
    BY <1>4, <2>1, LeastDivisor
  <2>3. d \in Nat /\ d <= Last
    <3>1. d \in Nat
      OBVIOUS
    <3>2. CASE d > Last
      <4> DEFINE s == Last + 1
      <4>1. s \in Nat /\ s <= d /\ Last <= s
        BY <3>1, <3>2, Table
      <4>2. s * s <= s * d /\ d * s <= d * d /\ s * d = d * s
        BY <3>1, <4>1, Products
      <4>3. s * s = Last * Last + 2 * Last + 1
        BY Table
      <4> HIDE DEF s
      <4>4. s * s \in Nat /\ s * d \in Nat /\ d * d \in Nat /\ Last * Last \in Nat
        BY <3>1, <4>1, Table, Products
      <4> QED
        BY <2>2, <4>2, <4>3, <4>4, Table
    <3> QED
      BY <3>1, <3>2, Table
  <2>4. PICK i \in InTable : d = P(i)
    BY <2>2, <2>3 DEF TrueTable
  <2>5. ASSUME NEW j \in 1 .. i - 1
        PROVE  P(j) * P(j) <= n
    <3>1. j \in 0 .. NC_nprimes - 1 /\ i \in 0 .. NC_nprimes - 1 /\ j < i
      BY Table DEF InTable
    <3>2. P(j) < P(i) /\ P(j) \in Nat
      BY <3>1, Grows, Table
    <3> DEFINE p == P(j)
    <3>3. p \in Nat /\ p <= d
      BY <2>3, <2>4, <3>2
    <3> HIDE DEF p
    <3>4. p * p <= p * d /\ d * p <= d * d /\ p * d = d * p
      BY <2>3, <3>3, Products
    <3>5. p * p \in Nat /\ p * d \in Nat /\ d * d \in Nat
      BY <2>3, <3>3, Products
    <3>6. p * p <= n
      BY <2>2, <3>4, <3>5
    <3> QED
      BY <3>6 DEF p
  <2> QED
    BY <1>2, <2>2, <2>4, <2>5 DEF isPrime, InTable
<1> QED
  BY <1>3, <1>4 DEF isPrime, PrimeNumber

----------------------------------------------------------------------------
(* The search *)

\* The inductive invariant.  The binary search stays between the flags; nextPrime
\* is at an odd number, and there is no prime between val and it.
SearchInv ==
    /\ val \in Vals
    /\ pc \in {"search", "next", "done"}
    /\ pc = "search" => L \in Nat /\ R \in Nat /\ 1 <= L /\ R <= NC_nprimes - 2 /\ val <= Last
    /\ pc = "next" => /\ Last < val /\ val < Flag
                      /\ prime \in Nat /\ prime % 2 = 1 /\ prime >= val - 1
                      /\ \A q \in val + 1 .. prime : ~PrimeNumber(q)
    /\ FirstPrime

\* A number that is not prime has a divisor.
LEMMA Composite ==
    ASSUME NEW q \in Nat, q >= 2, ~PrimeNumber(q)
    PROVE  \E i \in 2 .. q - 1 : q % i = 0
  BY LeastDivisor

\* It holds when findPrimeGreaterThan is called.
LEMMA SearchInit == FindInit => SearchInv
<1> SUFFICES ASSUME FindInit PROVE SearchInv
  OBVIOUS
<1>1. val \in Vals /\ val \in Nat /\ val >= 2 /\ L = 1 /\ R = NC_nprimes - 2
  BY Table DEF FindInit
<1>2. pc = CASE TooBig -> "done"
             [] ~TooBig /\ val > Last -> "next"
             [] OTHER -> "search"
  BY DEF FindInit, Last
<1>3. TooBig <=> val >= Flag
  BY DEF TooBig, Flag
<1>4. pc \in {"search", "next", "done"}
  BY <1>2
<1>5. ASSUME pc = "search"
      PROVE  L \in Nat /\ R \in Nat /\ 1 <= L /\ R <= NC_nprimes - 2 /\ val <= Last
  BY <1>1, <1>2, <1>5, Table
<1>6. ASSUME pc = "next"
      PROVE  /\ Last < val /\ val < Flag
             /\ prime \in Nat /\ prime % 2 = 1 /\ prime >= val - 1
             /\ \A q \in val + 1 .. prime : ~PrimeNumber(q)
  <2>1. Last < val /\ val < Flag
    BY <1>1, <1>2, <1>3, <1>6, Table
  <2>2. prime = IF val % 2 = 0 THEN val - 1 ELSE val
    BY <1>6 DEF FindInit
  <2>3. prime \in Nat /\ prime % 2 = 1 /\ prime >= val - 1 /\ prime <= val
    BY <1>1, <2>2
  <2>4. \A q \in val + 1 .. prime : FALSE
    BY <1>1, <2>3
  <2> QED
    BY <2>1, <2>3, <2>4
<1>7. FirstPrime
  BY <1>2 DEF FirstPrime
<1> QED
  BY <1>1, <1>4, <1>5, <1>6, <1>7 DEF SearchInv

\* The binary search: what it returns is the first prime of the table from val on.
LEMMA SearchStep ==
    ASSUME TrueTable, SearchInv, Search
    PROVE  SearchInv'
<1> DEFINE m == (L + R) \div 2
<1>1. /\ pc = "search" /\ L < R /\ val' = val /\ val \in Vals /\ val \in Nat /\ val >= 2 /\ val <= Last
      /\ L \in Nat /\ R \in Nat /\ 1 <= L /\ R <= NC_nprimes - 2
  BY Table DEF Search, SearchInv
<1>2. \/ P(m - 1) < val /\ P(m) >= val /\ prime' = P(m) /\ pc' = "done" /\ L' = L /\ R' = R
      \/ R' = m /\ L' = L /\ pc' = pc
      \/ L' = m /\ R' = R /\ pc' = pc
  BY DEF Search
<1>3. m \in Nat /\ L <= m /\ m < R
  BY <1>1
<1> HIDE DEF m
<1>4. CASE pc' = pc
  <2>1. L' \in Nat /\ R' \in Nat /\ 1 <= L' /\ R' <= NC_nprimes - 2 /\ pc' = "search"
    BY <1>1, <1>2, <1>3, <1>4, Table
  <2>2. FirstPrime'
    BY <2>1 DEF FirstPrime
  <2> QED
    BY <1>1, <2>1, <2>2 DEF SearchInv, Last, P, NC_nprimes
<1>5. CASE pc' # pc
  <2>1. P(m - 1) < val /\ P(m) >= val /\ prime' = P(m) /\ pc' = "done"
    BY <1>2, <1>5
  <2>2. m \in InTable /\ m \in 0 .. NC_nprimes - 1 /\ m - 1 \in 0 .. NC_nprimes - 1
        /\ NC_nprimes - 2 \in 0 .. NC_nprimes - 1 /\ m < NC_nprimes - 2
    BY <1>1, <1>3, Table DEF InTable
  <2>3. P(m) \in Nat /\ P(m - 1) \in Nat /\ P(m) < Last
    BY <2>2, Table, Grows DEF Last
  <2>4. PrimeNumber(P(m))
    BY <2>2, <2>3, Table DEF TrueTable
  <2>5. ASSUME NEW q \in val .. P(m) - 1
        PROVE  \E i \in 2 .. q - 1 : q % i = 0
    <3>1. q \in Nat /\ q >= 2 /\ q <= Last /\ P(m - 1) < q /\ q < P(m)
      BY <1>1, <2>1, <2>3, Table
    <3>2. ASSUME NEW i \in InTable, q = P(i)
          PROVE  FALSE
      <4>1. i \in 0 .. NC_nprimes - 1 /\ i \in Nat
        BY Table DEF InTable
      <4>2. CASE i = m
        BY <2>3, <3>1, <3>2, <4>2
      <4>3. CASE i > m
        <5>1. P(m) < P(i)
          BY <2>2, <4>1, <4>3, Grows
        <5> QED
          BY <2>3, <3>1, <3>2, <5>1
      <4>4. CASE i = m - 1
        BY <2>3, <3>1, <3>2, <4>4
      <4>5. CASE i < m - 1
        <5>1. P(i) < P(m - 1)
          BY <2>2, <4>1, <4>5, Grows
        <5> QED
          BY <2>3, <3>1, <3>2, <5>1
      <4> QED
        BY <1>3, <4>1, <4>2, <4>3, <4>4, <4>5
    <3>3. ~PrimeNumber(q)
      BY <3>1, <3>2 DEF TrueTable
    <3> QED
      BY <3>1, <3>3, Composite
  <2>6. FirstPrime'
    <3>1. /\ prime' >= val' /\ \A i \in 2 .. prime' - 1 : prime' % i # 0
          /\ \A q \in val' .. prime' - 1 : \E i \in 2 .. q - 1 : q % i = 0
      BY <1>1, <2>1, <2>4, <2>5 DEF PrimeNumber
    <3> QED
      BY <3>1 DEF FirstPrime, P, NC_nprimes
  <2> QED
    BY <1>1, <2>1, <2>6 DEF SearchInv
<1> QED
  BY <1>4, <1>5

\* nextPrime: the even numbers it passes over are not prime, and it does not pass
\* over the prime that TrueTable promises.
LEMMA NextStep ==
    ASSUME TrueTable, SearchInv, nextPrime
    PROVE  SearchInv'
<1> DEFINE n == prime + 2
<1>1. /\ pc = "next" /\ prime' = n /\ pc' = (IF isPrime(n) THEN "done" ELSE "next") /\ val' = val
      /\ val \in Vals /\ val \in Nat /\ val >= 2 /\ Last < val /\ val < Flag
      /\ prime \in Nat /\ prime % 2 = 1 /\ prime >= val - 1
      /\ \A q \in val + 1 .. prime : ~PrimeNumber(q)
  BY Table DEF nextPrime, SearchInv
<1>2. n \in Nat /\ n % 2 = 1 /\ n >= val + 1 /\ n = prime + 2 /\ (prime + 1) % 2 = 0
  BY <1>1
<1>3. ASSUME NEW q \in Nat, val + 1 <= q, q <= n - 1
      PROVE  ~PrimeNumber(q)
  <2>1. CASE q = prime + 1
    <3>1. q % 2 = 0 /\ 2 \in 2 .. q - 1
      BY <1>1, <1>2, <1>3, <2>1
    <3> QED
      BY <3>1 DEF PrimeNumber
  <2>2. CASE q # prime + 1
    <3>1. q \in val + 1 .. prime
      BY <1>1, <1>2, <1>3, <2>2
    <3> QED
      BY <1>1, <3>1
  <2> QED
    BY <2>1, <2>2
<1>4. PICK w \in val + 1 .. Last * Last : PrimeNumber(w)
  BY <1>1 DEF TrueTable
<1>5. Last \in Nat /\ Last * Last \in Nat
  BY Table, Products
<1>6. n <= w /\ w \in Nat /\ w <= Last * Last
  <2> DEFINE sq == Last * Last
  <2>1. w \in val + 1 .. sq /\ sq \in Nat
    BY <1>5
  <2> HIDE DEF sq, n
  <2>2. w \in Nat /\ val + 1 <= w /\ w <= sq
    BY <1>1, <2>1
  <2>3. ~(w <= n - 1)
    BY <1>3, <1>4, <2>2
  <2> QED
    BY <1>2, <2>2, <2>3 DEF sq
<1> HIDE DEF n
<1>7. Last < n /\ n <= Last * Last
  <2> DEFINE sq == Last * Last
  <2>1. sq \in Nat /\ w <= sq
    BY <1>5, <1>6
  <2> HIDE DEF sq
  <2>2. Last < n /\ n <= sq
    BY <1>1, <1>2, <1>5, <1>6, <2>1
  <2> QED
    BY <2>2 DEF sq
<1>8. isPrime(n) <=> PrimeNumber(n)
  BY <1>2, <1>7, isPrimeIs
<1>9. CASE isPrime(n)
  <2>1. PrimeNumber(n) /\ pc' = "done"
    BY <1>1, <1>8, <1>9
  <2>2. \A q \in val .. n - 1 : q # val => \E i \in 2 .. q - 1 : q % i = 0
    <3> SUFFICES ASSUME NEW q \in val .. n - 1, q # val PROVE \E i \in 2 .. q - 1 : q % i = 0
      OBVIOUS
    <3>1. q \in Nat /\ q >= 2 /\ val + 1 <= q /\ q <= n - 1
      BY <1>1, <1>2
    <3>2. ~PrimeNumber(q)
      BY <1>3, <3>1
    <3> QED
      BY <3>1, <3>2, Composite
  <2>3. \A q \in val .. n - 1 : q > Last
    BY <1>1, <1>5
  <2>4. FirstPrime'
    <3>1. prime' >= val' /\ \A i \in 2 .. prime' - 1 : prime' % i # 0
      BY <1>1, <1>2, <2>1 DEF PrimeNumber
    <3>2. \A q \in val' .. prime' - 1 : (q > Last => q # val') => \E i \in 2 .. q - 1 : q % i = 0
      BY <1>1, <2>2, <2>3
    <3> QED
      BY <3>1, <3>2 DEF FirstPrime, Last, P, NC_nprimes
  <2> QED
    BY <1>1, <2>1, <2>4 DEF SearchInv
<1>10. CASE ~isPrime(n)
  <2>1. pc' = "next" /\ ~PrimeNumber(n)
    BY <1>1, <1>8, <1>10
  <2>2. ASSUME NEW q \in val + 1 .. n
        PROVE  ~PrimeNumber(q)
    <3>1. q \in Nat /\ val + 1 <= q /\ (q = n \/ q <= n - 1)
      BY <1>1, <1>2
    <3> QED
      BY <1>3, <2>1, <3>1
  <2>3. /\ Last < val' /\ val' < Flag /\ prime' \in Nat /\ prime' % 2 = 1 /\ prime' >= val' - 1
        /\ \A q \in val' + 1 .. prime' : ~PrimeNumber(q)
    BY <1>1, <1>2, <2>2
  <2>4. FirstPrime'
    BY <2>1 DEF FirstPrime
  <2> QED
    BY <1>1, <2>1, <2>3, <2>4 DEF SearchInv, Last, Flag, P, NC_nprimes, PrimeNumber
<1> QED
  BY <1>9, <1>10

\* findPrimeGreaterThan(val) returns the first prime from val on, or, beyond the
\* table, the first one after val: for every table of primes, whether the binary
\* search finds it or nextPrime does by trial division.
THEOREM ReturnsFirstPrime == TrueTable => (FindSpec => []FirstPrime)
<1> SUFFICES ASSUME TrueTable PROVE FindSpec => []FirstPrime
  OBVIOUS
<1>1. FindInit => SearchInv
  BY SearchInit
<1>2. SearchInv /\ [FindNext]_findVars => SearchInv'
  <2> SUFFICES ASSUME SearchInv, [FindNext]_findVars PROVE SearchInv'
    OBVIOUS
  <2>1. CASE Search
    BY <2>1, SearchStep
  <2>2. CASE nextPrime
    BY <2>2, NextStep
  <2>3. CASE UNCHANGED findVars
    BY <2>3 DEF SearchInv, FirstPrime, TooBig, Last, Flag, P, NC_nprimes, PrimeNumber, findVars
  <2> QED
    BY <2>1, <2>2, <2>3 DEF FindNext, FindStep, Returned
<1>3. SearchInv => FirstPrime
  BY DEF SearchInv
<1> QED
  BY <1>1, <1>2, <1>3, PTL DEF FindSpec
=============================================================================
