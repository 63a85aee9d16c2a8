SPECIFICATION FairSpec
CONSTANTS
  w1 = w1
  w2 = w2
  k1 = k1
  k2 = k2
  k3 = k3
  k4 = k4
  Half = 8
  HiHalf = 8
  Workers <- MCWorkers
  Keys <- MCKeys
  LongKeys = {k4}
  PartOf <- MCPartOf
  Parts = 2
  SumArity = 2
  DropZero = TRUE
  FlushRows = 2
  MemPool = 2
  Inputs <- MCInputs
CHECK_DEADLOCK FALSE
INVARIANTS
  RowsConserved
  AnswerHonest
  BudgetKept
PROPERTIES
  Ends
