---------------------------- MODULE MCNC3Layout ----------------------------
(* Instances of NC3Layout for TLC. *)
EXTENDS NC3Layout, TLC

Args(h, va, v, ra) == [h_minfree |-> h, v_align |-> va, v_minfree |-> v, r_align |-> ra]

\* nc_enddef, and nc__enddef with alignments and free space.
MCEndefArgs  == {Args(0, 1, 0, 1), Args(0, 4, 2, 4)}
MCUnaligned  == {Args(0, 1, 0, 1), Args(0, 1, 1, 1)}

Shape(nvars, natts, nrecs, sizes) ==
    [vars |-> nvars, atts |-> natts, recs |-> nrecs, sizes |-> sizes]

\* Three variables of one size that are moved; two of different sizes, with
\* more records.
MCShapes     == {Shape(3, 0, 1, {1}), Shape(2, 1, 1, {1}), Shape(2, 0, 2, {1, 2})}
MCOneVar     == {Shape(1, 0, 3, {1})}

\* The hypothesis under which ContentIntact is proved.
ASSUME MCAligned == EndefArgs = MCEndefArgs => Aligned
=============================================================================
