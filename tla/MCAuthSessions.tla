-------------------------- MODULE MCAuthSessions --------------------------
(* Instances of AuthSessions for TLC: two requests, one or two replicas. *)
EXTENDS AuthSessions, TLC

CONSTANTS r1, r2, p1, p2

TwoRequests == {r1, r2}
OneReplica  == {p1}
TwoReplicas == {p1, p2}

\* Either store in front of either kind of provider.
EveryDeployment == [stored: BOOLEAN, rotates: BOOLEAN]
RotatingCookie == {[stored |-> FALSE, rotates |-> TRUE]}

\* Requests are interchangeable, and so are replicas up to the one an idle
\* request record names, which no action reads.
RequestSymmetry == Permutations(TwoRequests)

=============================================================================
