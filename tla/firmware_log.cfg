CONSTANTS
  i1 = i1
  i2 = i2
  None = None
  Image = {i1, i2}
  Leaf <- MCLeaf
  MaxSize = 2
  MaxFaults = 1
SPECIFICATION FairSpec
INVARIANTS StatementsSound BundleSound FileSound
PROPERTIES FileExtends MonitorCatchesUp
CHECK_DEADLOCK TRUE
