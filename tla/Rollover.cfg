SPECIFICATION Spec
CONSTANTS
  p1 = p1
  p2 = p2
  Replicas <- TwoReplicas
  Names <- TwoNames
  RowIDs <- TwoRows
  MaxSkew = 1
  Lead = 2
  MaxAge = 2
  MaxKeys = 3
  MaxNow = 5
  MaxLogins = 1
  MaxIncidents = 1
SYMMETRY ReplicaSymmetry
INVARIANTS RolloverTypeOK NoneStranded NoCoinFlip NoFalseAlarm BoundToPlace
CHECK_DEADLOCK FALSE
