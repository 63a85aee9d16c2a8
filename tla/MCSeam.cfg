SPECIFICATION MCSpec
CONSTANTS
  t = t
  p1 = p1
  p2 = p2
  Tables = {t}
  Rows <- MCRows
  MaxBlock = 2
  Branches <- MCBalances
  AtomicInstall = FALSE
  Redelivered <- MCRedelivered
  Frac = 3
  ExpMax = 7
  Orders = 2
  Limit = 60
  CheckEvery = 2
  Values <- MCFloats
  Parts = {p1, p2}
  MaxGroups = 2
  MaxRows = 4
SYMMETRY MCSymmetry
CHECK_DEADLOCK FALSE
INVARIANTS
  CoherentAnswer
  RefusalHonest
  SealedOnce
  FloatsKept
  FloatsExact
