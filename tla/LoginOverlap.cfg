SPECIFICATION Spec
CONSTANTS
  a1 = a1
  a2 = a2
  b1 = b1
  v1 = v1
  v2 = v2
  Attempts <- TwoAttempts
  Foreign <- OneForeign
  Visits <- TwoVisits
  MaxVisits = 3
SYMMETRY LoginSymmetry
INVARIANTS OwnLogin LandsOnOwnTarget UncrossedIsAccepted
CHECK_DEADLOCK FALSE
