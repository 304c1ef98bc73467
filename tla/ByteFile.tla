------------------------------ MODULE ByteFile ------------------------------
(***************************************************************************)
(* What libsrc/ncio.h promises the classic library of a file: an array of  *)
(* bytes with a memmove, of which a sync makes the present content survive *)
(* the process.  PosixIO, with its page buffers, is shown to implement it. *)
(*                                                                         *)
(* A byte nobody has written, or that an error has spoiled, is a Hole:     *)
(* nothing is promised of it.                                              *)
(***************************************************************************)
EXTENDS Integers

CONSTANTS
    Size,       \* bound: the offsets are 0 .. Size - 1
    Lens, MoveLens,   \* lengths of the regions
    Values,     \* what can be written to a byte
    Hole

VARIABLES
    bytes,      \* what a read returns
    synced      \* what is sure to be there if the process is lost

vars == <<bytes, synced>>

Region(offset, n) == offset .. offset + n - 1

Content == [0 .. Size - 1 -> Values \cup {Hole}]

Init ==
    /\ bytes = [a \in 0 .. Size - 1 |-> Hole]
    /\ synced = bytes

\* The bytes of R are written: whatever a sync had made of them is history.
Write(R, new) ==
    /\ bytes'  = [a \in 0 .. Size - 1 |-> IF a \in R THEN new[a] ELSE bytes[a]]
    /\ synced' = [a \in 0 .. Size - 1 |-> IF a \in R THEN Hole ELSE synced[a]]

\* ncio.get, a write of v to the region, ncio.rel.
Put(offset, n, v) == Write(Region(offset, n), [a \in Region(offset, n) |-> v])

\* ncio.move: like memmove, the regions may overlap.
Move(to, from, n) == Write(Region(to, n), [a \in Region(to, n) |-> bytes[a - to + from]])

\* ncio.move that returns an error.
MoveFailed(to, n) == Write(Region(to, n), [a \in Region(to, n) |-> Hole])

\* ncio.sync
Sync ==
    /\ synced' = bytes
    /\ UNCHANGED bytes

\* The process is lost, or ncio.close has failed.
Lose ==
    /\ bytes' = synced
    /\ UNCHANGED synced

Next ==
    \/ Sync
    \/ Lose
    \/ \E n \in Lens : \E offset \in 0 .. Size - n, v \in Values : Put(offset, n, v)
    \/ \E n \in MoveLens : \E to \in 0 .. Size - n :
          \/ \E from \in 0 .. Size - n : Move(to, from, n)
          \/ MoveFailed(to, n)

Spec == Init /\ [][Next]_vars
=============================================================================
