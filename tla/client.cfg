CONSTANTS
  a = a
  b = b
  w1 = w1
  w2 = w2
  d1 = d1
  d2 = d2
  c1 = c1
  u1 = u1
  u2 = u2
  None = None
  Leaf = {a, b}
  Signed <- MCForks
  Witnesses = {w1, w2}
  Distributors = {d1, d2}
  Clients = {c1}
  N = 2
SPECIFICATION MCSpec
SYMMETRY MCSymmetry
INVARIANTS ConsensusBacked
 
CHECK_DEADLOCK TRUE
