SPECIFICATION FairSpec
CONSTANTS
  c1 = c1
  c2 = c2
  Callers <- TwoCallers
  Nonces = {1, 2, 3, 4, 5, 6}
  MaxDuration = 3
  Stalls = {1}
  Rotations = {TRUE}
  MaxCalls = 2
  MaxIssued = 2
PROPERTY CallsEnd
