------------------------------ MODULE NameMap ------------------------------
(***************************************************************************)
(* What libdispatch/nchashmap.h promises: a map from names to data, with   *)
(* the number of names in it.  HashMap is shown to implement it.           *)
(***************************************************************************)
EXTENDS Integers

CONSTANTS Keys, Data, NoData

VARIABLES
    map,      \* the data of every name, NoData for one that is not in the map
    count     \* NC_hashmapcount

vars == <<map, count>>

Init ==
    /\ map = [k \in Keys |-> NoData]
    /\ count = 0

\* NC_hashmapadd: a name that is there gets the new data.
Add(k, d) ==
    /\ map' = [map EXCEPT ![k] = d]
    /\ count' = IF map[k] = NoData THEN count + 1 ELSE count

\* NC_hashmapremove of a name that is there; otherwise nothing changes.
Remove(k) ==
    /\ map[k] # NoData
    /\ map' = [map EXCEPT ![k] = NoData]
    /\ count' = count - 1

\* NC_hashmapsetdata
SetData(k, d) ==
    /\ map[k] # NoData
    /\ map' = [map EXCEPT ![k] = d]
    /\ UNCHANGED count

Next == \E k \in Keys :
    \/ Remove(k)
    \/ \E d \in Data : Add(k, d) \/ SetData(k, d)

Spec == Init /\ [][Next]_vars
=============================================================================
