SPECIFICATION ContractsSpec
CONSTANTS
  NumUsers = 2
  Tokens = {"xlm"}
  StreamLimit = 2
  Rates = {1, 2}
  ShareCounts = {1}
  Unit = 10
  FeeBps = 5000
  Deadlines = {0, 1}
  Percentages = {5000}
  Funding = {2}
  MaxCalls = 5
  Pools = {"p", "q"}
  Vaults = {"v"}
  Amounts = {0, 1}
  HeldAtFirst = 3
  DefaultCooldown = 1
  Cooldowns = {2}
  DefaultThreshold = 1
  Thresholds = {0, 1}
  StopWindow = 2
  HistoryLimit = 3
  StrategyLimit = 1
  EngineCalls = 4
  PacingMax = 2
  PacingSeconds = 2
  NumTraded = 3
  XLM = 3
  Listings <- FivePools
  AddedAtFirst <- AllButOne
  Reserves = {4, 8}
  SwapAmounts = {4}
  MinOutputs = {1, 4}
  Paths <- TwoPaths
  Divisor = 4
  TreasuryBps = 1
  Funds = 5
  RouterCalls = 4
  Feeders = {"f"}
  Prices = {1, 2}
  Ages = {0, 1}
  DefaultFreshness = 2
  MaxObservations = 2
  OracleCalls = 5
  Owners = {"o"}
  NumReserveTokens = 2
  Coverages = {4, 5}
  Periods = {1}
  PremiumRates = {2}
  MaxRate = 3
  MinReserveRatio = 6
  InsuranceCalls = 4
  Creators = {"c", "d"}
  Values = {"low", "high"}
  HistoryKept = 2
  ApprovalsKept = 2
  RegistryCalls = 6
  MaxTime = 3
INVARIANTS
  
  FundingAccounted
  ContractsKeepTheirWord
  RecordsAreTrue
PROPERTIES
  TrippedUntilSuccess
CHECK_DEADLOCK FALSE
