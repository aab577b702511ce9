---------------------------- MODULE MCPgRefresh ----------------------------
(* Instances of PgRefresh for TLC: two Refresh calls at a time. *)
EXTENDS PgRefresh, TLC

CONSTANTS c1, c2

TwoCallers == {c1, c2}

\* Calls are interchangeable; used for safety runs only.
CallSymmetry == Permutations(TwoCallers)

=============================================================================
