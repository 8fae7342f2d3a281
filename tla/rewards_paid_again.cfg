SPECIFICATION Spec
CONSTANTS
  NumUsers = 1
  Tokens = {"xlm"}
  StreamLimit = 1
  Rates = {1, 2}
  ShareCounts = {1}
  Unit = 10
  FeeBps = 5000
  Deadlines = {0, 1}
  Percentages = {5000}
  Funding = {2}
  MaxCalls = 6
  MaxTime = 3
INVARIANT PaidAtMostEarned
CHECK_DEADLOCK FALSE
