------------------------------ MODULE MCSweep ------------------------------
(* Instances of Sweep for TLC: two sweepers and one other writer. *)
EXTENDS Sweep

CONSTANTS s1, s2, w1

TwoSweepers == {s1, s2}
OneWriter   == {w1}

=============================================================================
