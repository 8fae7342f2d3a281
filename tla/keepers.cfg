SPECIFICATION KeepersSpec
CONSTANTS
  Runs = {r1}
  Cooldown = 3
  MaxTime = 7
  MaxFaults = 3
  NumTasks = 5
  Throwing = {3}
  minIntervalMs = 2
  maxConcurrent = 2
  maxQueue = 2
  Ticks = {t1, t2}
  baseMs = 2
  maxMs = 5
  factor = 2
  startAfterFailures = 2
  JitterPercent = 50
  MaxFailures = 3
  MaxBack = 1
  BackoffFaults = 2
  StartLedger = 1
  PageSize = 2
  EventIds = TRUE
  MaxLedger = 2
  MaxPerLedger = 2
  ListenerFaults = 2
  MonitorLedger = 3
  warningLedgers = 1
  criticalLedgers = 2
  MaxErrors = 1
  Scans = {1, 2}
  Pools = {"p", "q"}
  Apys = {6}
  Risks = {1}
  Costs = {1}
  Amounts = {2, 4}
  MinDeltas = {1}
  VaultApy = 2
  Bp = 2
  cacheExpiry = 2
  ScanTime = 3
  Checks = {1, 2}
  harvestCooldown = 2
  Rate = 1
  minRewardThreshold = 1
  HarvestTime = 5
  MaxHarvests = 2
INVARIANTS
  CooldownKept
  NothingSkipped
  RepeatsOnlyAfterFaults
  LagNotUnderstated
  BotsKeepTheirWord
PROPERTIES
  StoreMonotone
  PacedInOrder
  EveryWriteSettles
  
  KeepsTrying
  DeliveredInOrder
  EveryEventHandled
