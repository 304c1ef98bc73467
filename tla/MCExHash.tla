------------------------------ MODULE MCExHash ------------------------------
(* Instances of ExHash for TLC: keys of four bits and leaves of two        *)
(* entries, so that leaves split and the directory doubles to its limit.   *)
EXTENDS ExHash

\* Keys that crowd into two corners of the directory, which may grow to the
\* width of a key; and fewer keys with two data, with no memory beyond four
\* slots.
MCUses == {[keys |-> {0, 1, 2, 3, 8, 10, 12, 14}, data |-> {1}, most |-> 8, depth |-> 4],
           [keys |-> {0, 1, 3, 8, 12}, data |-> {1, 2}, most |-> 5, depth |-> 2]}
=============================================================================
