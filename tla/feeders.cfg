CONSTANTS
  l1 = l1
  a = a
  b = b
  r1 = r1
  r2 = r2
  f1 = f1
  f2 = f2
  None = None
  Leaf = {a, b}
  Logs = {l1}
  UnknownLogs = {}
  SignedTrees <- MCShort
  Req = {r1, r2}
  InMemory = FALSE
  Feeder = {f1, f2}
  FeedLog <- MCFeedLog
  Http = {f2}
  MaxFaults = 1
SPECIFICATION FSpec
INVARIANTS FeedersSound HonestNeverForked
PROPERTIES WitnessCatchesUp
CHECK_DEADLOCK TRUE
