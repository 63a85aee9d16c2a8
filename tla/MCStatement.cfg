SPECIFICATION Spec
CONSTANTS
  c1 = c1
  c2 = c2
  s1 = s1
  s2 = s2
  Calls = {c1, c2}
  Hosted = {c1}
  Width = 1
  Scans = {s1, s2}
  Plans <- MCPlans
  Capacity = 1
  MaxCancels = 1
INVARIANTS
  StatementInv
PROPERTIES
  StatementsEnd
