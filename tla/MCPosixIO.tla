----------------------------- MODULE MCPosixIO -----------------------------
(* Instances of PosixIO for TLC. *)
EXTENDS PosixIO, TLC

Budget(puts, nm, lens, fails) == [puts |-> puts, moves |-> nm, lens |-> lens, fails |-> fails]

\* Reads and writes; and the moves of an NC_endef between them.
MCBudgets   == {Budget(2, 0, {1, 2}, {"out"}), Budget(1, 2, {1}, {"slave", "out"})}
MCVarsFirst == {Budget(1, 2, {1}, {})}
=============================================================================
