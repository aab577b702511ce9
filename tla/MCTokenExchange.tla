-------------------------- MODULE MCTokenExchange --------------------------
(* An instance of TokenExchange for TLC: stores with no deadline, with one *)
(* shorter than the timeout and with one longer, and lifetimes at and      *)
(* beyond the edges of int32 and of int64 nanoseconds, on both sides.      *)
EXTENDS TokenExchange

AllTimeouts == {NoDeadline, 1, 4}
EdgeLifetimes == {-5, -1, 0, 1, 3, 4, 9}

=============================================================================
