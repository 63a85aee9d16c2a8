SPECIFICATION MCSpec
CONSTANTS
  t = t
  b1 = b1
  b2 = b2
  c1 = c1
  c2 = c2
  Relations <- MCOneRelation
  Bodies = {b1, b2}
  Columns = {c1, c2}
  ColumnsOf <- MCColumnsOf
  Nest <- MCNest
  NestBody = b1
  Failing = {b2}
  Unsealed = {b2}
  RegisterInTransaction = TRUE
  MaxExprDepth = 4
  MaxTerms = 5
  MaxSetDepth = 2
  Statements <- MCStatements
  KnownColumns <- MCKnownColumns
  Texts <- MCTexts
CHECK_DEADLOCK FALSE
INVARIANTS
  KnownIsCurrent
  CanUndo
  BoundsKept
  SubqueriesMean
