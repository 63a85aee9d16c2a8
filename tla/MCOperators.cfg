SPECIFICATION Spec
CONSTANTS
  s1 = s1
  s2 = s2
  p1 = p1
  p2 = p2
  Holders = {s1, s2}
  Inputs <- MCInputs
  Budget = 12
  BatchSize = 2
  GatherRows = 3
  GatherBytes = 4
  JoinCases <- MCJoinCases
  JoinCols = {"x", "y"}
  Partitions = {p1, p2}
  MaxOut = 2
  Steps = 2
  JoinPool = 7
  BoundCases <- MCBoundCases
  BoundCols = {"x", "y"}
  ListParts = {p1, p2}
  ListBatches <- MCListBatches
  MaxListRows = 4
  LimbBits = 4
  Chunk = 10
  Precision = 2
  SumParts = {p1, p2}
  SumInputs = {"int", "uint", "decimal", "wide decimal"}
  SumValues <- MCSumValues
  SumScale = 10
  SumRows = 4
  Refusal = Refusal
  NullSum = NullSum
  MaxExponent = 50
  MovedMost = 16
  MovedNull = MovedNull
  Overflow = Overflow
CHECK_DEADLOCK FALSE
INVARIANTS
  HeldInv
  JoinInv
  SkipsNothingNeeded
  ListAnswer
  SumsExact
  ArithmeticExact
  TextsRead
  ConstantsMove
PROPERTIES
  JoinEnds
