------------------------------ MODULE HashMap ------------------------------
(***************************************************************************)
(* The open-addressing hash table in which the classic library finds       *)
(* dimensions and variables by name, and libsrc4 the objects of its        *)
(* indices (libdispatch/nchashmap.c): linear probing, deleted slots that   *)
(* keep probe sequences whole, and rehashing into a larger table.          *)
(*                                                                         *)
(* Names with the same hash key are the interesting ones: NC_hashmapkey is *)
(* the function Hash, whatever it is.                                      *)
(***************************************************************************)
EXTENDS Integers, FiniteSets

CONSTANTS
    Keys, Data, NoKey, NoData,
    Hash,             \* NC_hashmapkey
    MINTABLESIZE      \* 131 in the code

VARIABLES
    table,     \* NC_hashmap.table: [0 .. alloc - 1 -> NC_hentry]
    active,    \* NC_hashmap.active
    aborted    \* an assertion has failed: the process is gone

vars == <<table, active, aborted>>

ASSUME HashMapAssumption ==
    /\ Hash \in [Keys -> Nat] /\ MINTABLESIZE \in Nat \ {0, 1, 2}
    /\ NoKey \notin Keys /\ NoData \notin Data

----------------------------------------------------------------------------
(* The table *)

Empty   == [flags |-> "EMPTY", key |-> NoKey, data |-> NoData]
Deleted == [flags |-> "DELETED", key |-> NoKey, data |-> NoData]
Active(k, d) == [flags |-> "ACTIVE", key |-> k, data |-> d]

IsActive(t, x) == t[x].flags = "ACTIVE"

Alloc(t) == Cardinality(DOMAIN t)

NActive(t) == Cardinality({x \in DOMAIN t : IsActive(t, x)})

Least(S) == CHOOSE i \in S : \A j \in S : i <= j

\* findPrimeGreaterThan
Prime(n) == n > 1 /\ \A i \in 2 .. n - 1 : n % i # 0
findPrimeGreaterThan(n) == Least({p \in n .. 2 * n : Prime(p)})

\* The ith slot that is tried for key k.
Probe(t, k, i) == (Hash[k] + i) % Alloc(t)

None == -1

\* Mutant: the first deleted slot is taken without looking for the key after it.
locateDeletedFirst(t, k, deletedok) ==
    LET tries == 0 .. Alloc(t) - 1
        stops == {i \in tries : LET e == t[Probe(t, k, i)] IN
                      \/ e = Empty
                      \/ e.flags = "ACTIVE" /\ e.key = k
                      \/ deletedok /\ e = Deleted}
    IN  IF stops # {} THEN Probe(t, k, Least(stops)) ELSE None

\* The slot of key k, or the one where it is to be placed: the first EMPTY
\* one; a DELETED one only if the table has no EMPTY one.
locate(t, k, deletedok) ==
    LET tries == 0 .. Alloc(t) - 1
        stops == {i \in tries : LET e == t[Probe(t, k, i)] IN
                      e.flags = "EMPTY" \/ (e.flags = "ACTIVE" /\ e.key = k)}
        dels  == {i \in tries : t[Probe(t, k, i)].flags = "DELETED"}
    IN  CASE stops # {} -> Probe(t, k, Least(stops))
          [] stops = {} /\ deletedok /\ dels # {} -> Probe(t, k, Least(dels))
          [] OTHER -> None

Inserted(t, k, d) == [t EXCEPT ![locate(t, k, TRUE)] = Active(k, d)]

\* Every active entry, from the last slot to the first, in a larger table.
\* (That table is never so full that NC_hashmapadd would rehash it again.  The
\* return for tables so large that findPrimeGreaterThan gives 0 is left out.)
rehash(t) ==
    LET n == Alloc(t)
        after[i \in 0 .. n] ==
            IF i = 0
            THEN [x \in 0 .. findPrimeGreaterThan(2 * n) - 1 |-> Empty]
            ELSE IF IsActive(t, n - i)
            THEN Inserted(after[i - 1], t[n - i].key, t[n - i].data)
            ELSE after[i - 1]
    IN  after[n]

----------------------------------------------------------------------------
(* The calls *)

NC_hashmapadd(k, d) ==
    LET t == IF (Alloc(table) * 3) \div 4 <= active THEN rehash(table) ELSE table
        u == IF locate(t, k, TRUE) = None THEN rehash(t) ELSE t
        n == IF u = table THEN active ELSE NActive(u)
    IN  /\ table' = Inserted(u, k, d)
        /\ active' = IF IsActive(u, locate(u, k, TRUE)) THEN n ELSE n + 1
        /\ UNCHANGED aborted

Found(k) ==
    LET x == locate(table, k, FALSE) IN x # None /\ IsActive(table, x)

\* Mutant: the slot of a removed entry becomes empty.
NC_hashmapremoveToEmpty(k) ==
    /\ Found(k)
    /\ table' = [table EXCEPT ![locate(table, k, FALSE)] = Empty]
    /\ active' = active - 1
    /\ UNCHANGED aborted

NC_hashmapremove(k) ==
    /\ Found(k)
    /\ table' = [table EXCEPT ![locate(table, k, FALSE)] = Deleted]
    /\ active' = active - 1
    /\ UNCHANGED aborted

\* NC_hashmapget: the data of key k, or NoData.
NC_hashmapget(k) ==
    LET x == locate(table, k, FALSE)
    IN  IF active # 0 /\ x # None /\ IsActive(table, x) THEN table[x].data ELSE NoData

\* NC_hashmapsetdata asserts that the slot it has located is active.
NC_hashmapsetdata(k, d) ==
    /\ active # 0 /\ locate(table, k, FALSE) # None
    /\ \/ /\ Found(k)
          /\ table' = [table EXCEPT ![locate(table, k, FALSE)].data = d]
          /\ UNCHANGED <<active, aborted>>
       \/ /\ ~Found(k)
          /\ aborted' = TRUE
          /\ UNCHANGED <<table, active>>

\* NC_hashmapdeactivate: the first active entry with data d.
NC_hashmapdeactivate(d) ==
    LET S == {x \in DOMAIN table : IsActive(table, x) /\ table[x].data = d}
    IN  /\ S # {}
        /\ table' = [table EXCEPT ![Least(S)] = Deleted]
        /\ active' = active - 1
        /\ UNCHANGED aborted

\* NC_hashmapnew(0)
Init ==
    /\ table = [x \in 0 .. MINTABLESIZE - 1 |-> Empty]
    /\ active = 0
    /\ aborted = FALSE

Next ==
    /\ ~aborted
    /\ \/ \E k \in Keys, d \in Data : NC_hashmapadd(k, d)
       \/ \E k \in Keys : NC_hashmapremove(k)
       \/ \E k \in Keys, d \in Data : NC_hashmapsetdata(k, d)
       \/ \E d \in Data : NC_hashmapdeactivate(d)

Spec == Init /\ [][Next]_vars

----------------------------------------------------------------------------
(* What is checked *)

Map == INSTANCE NameMap WITH
    map   <- [k \in Keys |-> NC_hashmapget(k)],
    count <- active

\* What NC_hashmapget returns for every name, and NC_hashmapcount, change with
\* every call as those of a map do, through any number of collisions, removals
\* and rehashes.
IsMap == Map!Spec

\* No name is in two slots: a second one would come back when the first is
\* removed.
NoDuplicates ==
    \A x, y \in DOMAIN table :
        IsActive(table, x) /\ IsActive(table, y) /\ table[x].key = table[y].key => x = y
=============================================================================
