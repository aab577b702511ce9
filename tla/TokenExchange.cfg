SPECIFICATION FairSpec
CONSTANTS
  RefreshTimeout = 3
  RefreshMargin = 1
  AssumedLifetime = 2
  StoreTimeouts <- AllTimeouts
  MaxInt32 = 3
  MaxInt64 = 7
  Second = 2
  Lifetimes <- EdgeLifetimes
  MaxNow = 8
  MaxIssued = 3
INVARIANTS SessionSurvives WithinBudget ExpirySound
PROPERTY TripEnds
CHECK_DEADLOCK FALSE
