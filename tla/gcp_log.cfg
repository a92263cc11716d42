CONSTANTS
  a = a
  b = b
  p1 = p1
  p2 = p2
  None = None
  Leaf = {a, b}
  Uploads <- MCUploads
  Sequencers = {p1, p2}
  TileHeight = 2
  MaxFaults = 1
SPECIFICATION MCSpec
INVARIANTS SequenceSound PublishedProvable
PROPERTIES LogRefines EventuallyIntegrated
CHECK_DEADLOCK TRUE
