CONSTANTS
  a = a
  b = b
  c = c
  d = d
  e = e
  p1 = p1
  p2 = p2
  None = None
  Leaf = {a, b}
  Sequencers = {p1, p2}
  TileHeight = 1
  MaxSize = 3
  MaxFaults = 2
SPECIFICATION Spec
SYMMETRY MCSymmetry
INVARIANTS SequenceDense LeafIndexSound PublishedProvable StorageSound
PROPERTIES LogRefines
CHECK_DEADLOCK TRUE
