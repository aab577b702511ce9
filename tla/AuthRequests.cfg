SPECIFICATION Spec
CONSTANTS
  r1 = r1
  r2 = r2
  p1 = p1
  p2 = p2
  Requests <- TwoRequests
  Replicas <- TwoReplicas
  Deployments <- EveryDeployment
  MaxAge = 2
  MaxNow = 2
  MaxLogins = 1
  MaxIssued = 3
  MaxSends = 2
SYMMETRY RequestSymmetry
INVARIANTS AuthTypeOK ClearOnlyWhenOver LogoutSticks
PROPERTIES AbsoluteExpiry StaleIsMigrated
CHECK_DEADLOCK FALSE
