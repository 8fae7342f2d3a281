SPECIFICATION ScreensSpec
CONSTANTS
  Accounts = {"a"}
  PropAddress = "u"
  KeyAddress = "k"
  Holders = {"a"}
  MaxReads = 2
  MaxChanges = 1
  MaxWrites = 2
  Lists <- TwoLists
  Tokens = {"A"}
  Targets = {"X", "Y"}
  HasQuotes = TRUE
  MaxAsked = 1
  Proposals = {1}
  States = {"Active", "Executed"}
  Weeks = {1}
  MaxAmount = 1
  RefreshesAtOnce = 1
  Strategies = {1, 2}
  MaxRuns = 2
  Registries = {"r", "s"}
  Records = {1, 2}
  Limit = 2
  MaxAnswer = 2
  MaxLoads = 2
  VaultLists <- TwoBoards
  Users = {"a", "b"}
  Rounds = {1, 2}
  Tracks = {1, 2}
  Keep = 2
  MaxClock = 2

  
PROPERTIES
  ActiveShownInTheEnd
CHECK_DEADLOCK FALSE
