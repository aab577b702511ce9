----------------------------- MODULE MCRollover -----------------------------
(* An instance of Rollover for TLC: two replicas, and a cookie name with a *)
(* separator that collides with the redirect cookie of the other name.     *)
EXTENDS Rollover, TLC

CONSTANTS p1, p2

TwoReplicas == {p1, p2}
TwoRows == <<"r1", "r2">>
TwoNames == {<<"sess">>, <<"auth_redir", ":", "sess">>}

ReplicaSymmetry == Permutations(TwoReplicas)

=============================================================================
