CONSTANTS
  a = a
  b = b
  w1 = w1
  w2 = w2
  d1 = d1
  d2 = d2
  c1 = c1
  u1 = u1
  u2 = u2
  None = None
  Leaf = {a, b}
  Signed <- MCForks
  Witnesses = {}
  Distributors = {}
  Clients = {c1}
  N = 0
SPECIFICATION MCSpec
INVARIANTS TrackedConsistent
CHECK_DEADLOCK TRUE
