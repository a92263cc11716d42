CONSTANTS
  l1 = l1
  l2 = l2
  a = a
  b = b
  r1 = r1
  r2 = r2
  r3 = r3
  None = None
  Leaf = {a, b}
  Logs = {l1, l2}
  UnknownLogs = {r3}
  SignedTrees <- MCForked
  Req = {r1, r2}
  InMemory = TRUE
SPECIFICATION MCSpec
INVARIANTS TypeOK CosignedConsistent AnswersSound
PROPERTIES WitnessRefines SQLRefines SQLAnswered
CHECK_DEADLOCK TRUE
