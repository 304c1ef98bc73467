----------------------------- MODULE MCNC3Share -----------------------------
(* Instances of NC3Share for TLC. *)
EXTENDS NC3Share

Pair == {2}
OneOrTwo == {1, 2}
ReportedErrors == {"fill", "numrecs", "data"}
NoErrors == {}
Syncs == {"sync"}
Polls == {"again"}
=============================================================================
