CONSTANTS
  a = a
  b = b
  c = c
  d = d
  e = e
  p1 = p1
  p2 = p2
  None = None
  Leaf = {a, b, c}
  Sequencers = {p1}
  TileHeight = 1
  MaxSize = 3
  MaxFaults = 0
SPECIFICATION FairSpec
PROPERTIES EventuallyIntegrated
CHECK_DEADLOCK TRUE
