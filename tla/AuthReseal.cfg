SPECIFICATION Spec
CONSTANTS
  r1 = r1
  r2 = r2
  p1 = p1
  p2 = p2
  Requests <- TwoRequests
  Replicas <- OneReplica
  Deployments <- RotatingCookie
  MaxAge = 2
  MaxNow = 1
  MaxLogins = 1
  MaxIssued = 3
  MaxSends = 2
SYMMETRY RequestSymmetry
INVARIANT ResealClobbersNothing
CHECK_DEADLOCK FALSE
