SPECIFICATION MCSpec
CONSTANTS
  Null = Null
  Failed = Failed
  Junk = Junk
  Odd = Odd
  Least <- MCLeast
  Most = 10
  DecimalMost = 9
  OddReads = 2
  IntMost = 4
  NestTables = {"f", "g"}
  Cases <- MCCases
  DataOf <- MCDataOf
  Queries <- MCQueries
  RowsOf <- MCRowsOf
  SumCases <- MCSumCases
  SumDataOf <- MCSumData
  TableColumns <- MCTableColumns
  MostRows = 2
  PageCases <- MCPageCases
  PageDataOf <- MCPageData
CHECK_DEADLOCK FALSE
INVARIANTS
  AnswerKept
  ShapeKept
  PlannedMeans
  ArithmeticRefuses
  PageAnswered
