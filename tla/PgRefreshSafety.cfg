SPECIFICATION Spec
CONSTANTS
  c1 = c1
  c2 = c2
  Callers <- TwoCallers
  Nonces = {1, 2, 3, 4, 5, 6}
  MaxDuration = 3
  Stalls = {1, 4}
  Rotations = {TRUE, FALSE}
  MaxCalls = 2
  MaxIssued = 3
SYMMETRY CallSymmetry
INVARIANTS TypeOK NoNeedlessExchange ExclusiveExchange NoReplay
PROPERTIES OneAttemptPerFailure RecordedFailureIsOwn HonoursContract
