----------------------------- MODULE MCLoginFlow -----------------------------
(* Instances of LoginFlow for TLC: two attempts in one browser, one in   *)
(* another, and two callback requests at a time.                         *)
EXTENDS LoginFlow, TLC

CONSTANTS a1, a2, b1, v1, v2

TwoAttempts == {a1, a2}
OneForeign  == {b1}
TwoVisits   == {v1, v2}

\* Attempts are interchangeable, and so are callback requests.
LoginSymmetry ==
  Permutations(TwoAttempts) \cup Permutations(TwoVisits)

=============================================================================
