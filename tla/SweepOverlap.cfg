SPECIFICATION FairSpec
CONSTANTS
  s1 = s1
  s2 = s2
  w1 = w1
  Rows = {1, 2, 3, 4}
  Sweepers <- TwoSweepers
  Writers <- OneWriter
  Batch = 2
  MaxWrites = 2
  MaxAborts = 2
INVARIANTS SweepTypeOK CountsAddUp
PROPERTY SweepDrains
