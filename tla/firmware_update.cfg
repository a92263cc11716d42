CONSTANTS
  a = a
  b = b
  m1 = m1
  m2 = m2
  Leaf = {a, b}
  Absent = Absent
  Torn = Torn
  Unsigned = Unsigned
  MaxLog = 2
  MaxCrashes = 1
  Builder = {m1, m2}
  MaxEntries = 2
  MaxBuilds = 3
SYMMETRY Sym
SPECIFICATION Spec
INVARIANTS CrashSafe UpdateVerified MapSound
CHECK_DEADLOCK FALSE
