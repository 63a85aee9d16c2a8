SPECIFICATION FairSpec
CONSTANTS
  q1 = q1
  q2 = q2
  q3 = q3
  t1 = t1
  t2 = t2
  f1 = f1
  f2 = f2
  Threads = {t1, t2}
  Queries = {q1, q2}
  Cancellable = {q1}
  Timed = {q1}
  Width = 2
  Files = {f1, f2}
  Unreadable = {f2}
  Lens <- MCTwoMorsels
  MinBatch = 1
  MaxBatch = 2
  MaxBeyond = 2
CHECK_DEADLOCK FALSE
PROPERTIES
  EveryQueryEnds
