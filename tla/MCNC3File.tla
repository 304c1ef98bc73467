----------------------------- MODULE MCNC3File -----------------------------
(* Instances of NC3File for TLC: a short and a long name, attribute values *)
(* of two sizes, and headers of several shapes.                            *)
EXTENDS NC3File, TLC

MCName    == {"n", "nn"}
MCNameLen == [n \in Name |-> IF n = "n" THEN 1 ELSE 2]
MCValue   == {"short", "long"}
MCXlen    == [v \in Value |-> IF v = "short" THEN 1 ELSE 2]

Bound(dims, nvars, atts, recs, names, fvs) ==
    [dims |-> dims, vars |-> nvars, atts |-> atts, recs |-> recs, names |-> names, fvs |-> fvs]

Records == Bound(1, 1, 0, 2, {"n"}, {"none", "good", "bad"})

\* Two dimensions, two variables or two attributes, or a record variable.
MCBounds ==
    {Bound(2, 0, 0, 0, Name, {}), Bound(0, 2, 0, 0, Name, {"none"}),
     Bound(0, 0, 2, 0, Name, {}), Records}

MCRecords == {Records}
MCBadFill == {Bound(1, 1, 0, 2, {"n"}, {"none", "bad"})}
MCOneAtt  == {Bound(0, 0, 1, 0, Name, {})}
MCOneVar  == {Bound(1, 1, 0, 1, {"n"}, {"none"})}
=============================================================================
