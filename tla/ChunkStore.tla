----------------------------- MODULE ChunkStore -----------------------------
(***************************************************************************)
(* What the chunk cache of an NCZarr variable promises: reads return what  *)
(* was last written, write-backs happen when the cache likes, and the only *)
(* thing that loses a written chunk while the file is open is a write to   *)
(* the store that fails.  ChunkCache is shown to implement it.             *)
(***************************************************************************)
EXTENDS Integers, FiniteSets

CONSTANTS Chunks, Values, Fill, MaxFaults

VARIABLES
    content,    \* what a read of each chunk returns
    saved,      \* what it would return if the process were lost
    faults      \* how many more calls of the store may fail

vars == <<content, saved, faults>>

Init ==
    /\ content = [c \in Chunks |-> Fill]
    /\ saved = content
    /\ faults \in 0 .. MaxFaults

\* The chunks of W are written back; those of D are lost to failed writes.
WriteBack(W, D) ==
    /\ W \cap D = {}
    /\ saved' = [c \in Chunks |-> IF c \in W THEN content[c] ELSE saved[c]]
    /\ faults' \in 0 .. faults
    /\ Cardinality(D) <= faults - faults'

Without(D) == [c \in Chunks |-> IF c \in D THEN saved[c] ELSE content[c]]

\* A call that reads, or that only synchronises.
Get(W, D) ==
    /\ WriteBack(W, D)
    /\ content' = Without(D)

\* A write of v to chunk c.
Put(c, v, W, D) ==
    /\ c \notin W \cup D
    /\ WriteBack(W, D)
    /\ content' = [Without(D) EXCEPT ![c] = v]

\* The process is lost, or the file is closed by nc_abort.
Lose ==
    /\ content' = saved
    /\ UNCHANGED <<saved, faults>>

\* nc_abort of a file that is being created.
Delete ==
    /\ saved' = [c \in Chunks |-> Fill]
    /\ content' = saved'
    /\ UNCHANGED faults

Next ==
    \/ \E W, D \in SUBSET Chunks :
          \/ Get(W, D)
          \/ \E c \in Chunks, v \in Values : Put(c, v, W, D)
    \/ Lose
    \/ Delete

Spec == Init /\ [][Next]_vars
=============================================================================
