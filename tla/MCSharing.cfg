SPECIFICATION Spec
CONSTANTS
  r1 = r1
  r2 = r2
  r3 = r3
  r4 = r4
  r5 = r5
  NDefs = 2
  Readers = {r1, r2, r3, r4, r5}
  Reads <- MCReads
  Inside <- MCInside
  Early = {r4}
  Answers = {"a", "b"}
  Unread = Unread
  MaxRewrites = 2
  MaxFailures = 2
INVARIANTS
  CellInv
PROPERTIES
  OneAnswer
  EveryReaderEnds
