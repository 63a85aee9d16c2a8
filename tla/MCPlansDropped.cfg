SPECIFICATION MCSpec
CONSTANTS
  Null = Null
  Failed = Failed
  Junk = Junk
  Odd = Odd
  Least <- MCLeast
  Most = 10
  DecimalMost = 9
  OddReads = 2
  IntMost = 4
  NestTables = {"f", "g"}
  Cases <- OrderCases
  DataOf <- MCDataOf
  Queries <- MCQueries
  RowsOf <- MCRowsOf
  SumCases = {}
  SumDataOf <- MCSumData
  TableColumns <- MCTableColumns
  MostRows = 2
  PageCases = {}
  PageDataOf <- MCPageData
CHECK_DEADLOCK FALSE
INVARIANTS
  NothingDropped
