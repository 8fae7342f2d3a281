------------------------------ MODULE MCKeepers ------------------------------
(***************************************************************************)
(* The parts of the keepers, which meet only where one calls the other      *)
(* through an interface that is modelled as a choice: a behaviour is one of *)
(* a single part, while the others stay as they were made, so that their    *)
(* states add up instead of multiplying. The auto-rebalancer is extended,   *)
(* the others are instances beside it. Fairness is what each of them states,*)
(* for the part a behaviour is of.                                          *)
(***************************************************************************)
EXTENDS AutoRebalancer

CONSTANTS
  NumTasks, Throwing, minIntervalMs, maxConcurrent, maxQueue,
  Ticks, baseMs, maxMs, factor, startAfterFailures, JitterPercent, MaxFailures, MaxBack,
  StartLedger, PageSize, EventIds, MaxLedger, MaxPerLedger, ListenerFaults,
  MonitorLedger, warningLedgers, criticalLedgers, MaxErrors,
  Scans, Pools, Apys, Risks, Costs, Amounts, MinDeltas, VaultApy, Bp, cacheExpiry, ScanTime, BackoffFaults,
  Checks, harvestCooldown, Rate, minRewardThreshold, HarvestTime, MaxHarvests

VARIABLES
  part,
  queue, status, inFlight, sinceStart, drain, sleepLeft,
  failures, wait, loaded, up, tick, saving, stored, back,
  chain, poll, cursor, paging, restored, response, checkpoint, handled,
  recorded, processed, asked, report, persisting, file, temp, health,
  poolCache, lastScanTime, scan,
  isRunning, lastHarvest, checks, performance, totalHarvests, last_harvest, tooEarly, excuses

Limiter  == INSTANCE WriteRateLimiter
Backoff  == INSTANCE KeeperBackoff WITH pc <- tick, store <- stored, MaxFaults <- BackoffFaults
Listener == INSTANCE KeeperListener WITH
              pc <- poll, store <- checkpoint, MaxFaults <- ListenerFaults
Monitor  == INSTANCE KeeperMonitor WITH saving <- persisting, MaxLedger <- MonitorLedger
Scanner  == INSTANCE ArbitrageScanner WITH MaxTime <- ScanTime
Harvester == INSTANCE KeeperHarvester WITH tooSoon <- tooEarly, MaxTime <- HarvestTime

(* The instances meet what their modules assume.                            *)
ASSUME PartsAssumption ==
  Limiter!LimiterAssumption /\ Backoff!PolicyAssumption /\ Listener!ListenerAssumption
  /\ Scanner!ScannerAssumption /\ Harvester!HarvesterAssumption

(* faults and now are those of the part a behaviour is of.                  *)
rebalancerVars == <<memory, pc, payload, store, history>>
limiterVars  == <<queue, status, inFlight, sinceStart, drain, sleepLeft>>
backoffVars  == <<failures, wait, loaded, up, tick, saving, stored, back>>
listenerVars == <<chain, poll, cursor, paging, restored, response, checkpoint, handled>>
monitorVars  == <<recorded, processed, asked, report, persisting, file, temp, health>>
scannerVars  == <<poolCache, lastScanTime, scan>>
harvesterVars == <<isRunning, lastHarvest, checks, performance, totalHarvests, last_harvest,
                   tooEarly, excuses>>
keeperVars == <<part, now, faults, rebalancerVars, limiterVars, backoffVars, listenerVars,
                monitorVars, scannerVars, harvesterVars>>

(* Where the parts differ in how they begin, the others begin in one way.   *)
KeepersInit ==
  /\ part \in {"rebalancer", "limiter", "backoff", "listener", "monitor", "scanner",
              "harvester"}
  /\ lastExecutionTime = 0 /\ stateRestored = FALSE
  /\ pc = [r \in Runs |-> "idle"] /\ payload = [r \in Runs |-> 0] /\ store = NoCheckpoint
  /\ lastEffect = 0 /\ tooSoon = FALSE /\ forgotten = FALSE
  /\ now = CASE part = "scanner"   -> cacheExpiry
            [] part = "harvester" -> harvestCooldown
            [] OTHER              -> 1
  /\ Limiter!Init /\ Backoff!Init /\ Listener!Init /\ Monitor!Init
  /\ part # "monitor" => file = Monitor!NoFile
  /\ poolCache = {} /\ lastScanTime = 0
  /\ scan = [s \in Scans |-> Scanner!NoScan]
  /\ isRunning = FALSE /\ lastHarvest = 0 /\ last_harvest = 0
  /\ checks = [c \in Checks |-> "idle"]
  /\ performance = [harvestCount |-> 0, errors |-> 0] /\ totalHarvests = 0
  /\ tooEarly = FALSE /\ excuses = {}

(* A limiter without work may stop.                                         *)
LimiterRests ==
  /\ sinceStart = minIntervalMs /\ drain = "off"
  /\ \A t \in Limiter!Tasks : status[t] \in {"queued", "done", "rejected", "thrown"}
  /\ UNCHANGED limiterVars

RebalancerMoves ==
  /\ part = "rebalancer" /\ Next
  /\ UNCHANGED <<part, limiterVars, backoffVars, listenerVars, monitorVars, scannerVars,
                 harvesterVars>>

LimiterDoes(Step) ==
  /\ part = "limiter" /\ Step
  /\ UNCHANGED <<part, now, faults, rebalancerVars, backoffVars, listenerVars, monitorVars,
                 scannerVars, harvesterVars>>

BackoffDoes(Step) ==
  /\ part = "backoff" /\ Step
  /\ UNCHANGED <<part, now, rebalancerVars, limiterVars, listenerVars, monitorVars, scannerVars,
                 harvesterVars>>

ListenerDoes(Step) ==
  /\ part = "listener" /\ Step
  /\ UNCHANGED <<part, now, rebalancerVars, limiterVars, backoffVars, monitorVars, scannerVars,
                 harvesterVars>>

MonitorMoves ==
  /\ part = "monitor" /\ Monitor!Next
  /\ UNCHANGED <<part, now, faults, rebalancerVars, limiterVars, backoffVars, listenerVars,
                 scannerVars, harvesterVars>>

ScannerMoves ==
  /\ part = "scanner" /\ Scanner!Next
  /\ UNCHANGED <<part, faults, rebalancerVars, limiterVars, backoffVars, listenerVars,
                 monitorVars, harvesterVars>>

HarvesterMoves ==
  /\ part = "harvester" /\ Harvester!Next
  /\ UNCHANGED <<part, faults, rebalancerVars, limiterVars, backoffVars, listenerVars,
                 monitorVars, scannerVars>>

KeepersNext ==
  \/ RebalancerMoves \/ MonitorMoves \/ ScannerMoves \/ HarvesterMoves
  \/ LimiterDoes(Limiter!Next) \/ LimiterDoes(LimiterRests)
  \/ BackoffDoes(Backoff!Next) \/ ListenerDoes(Listener!Next)

KeepersSpec ==
  /\ KeepersInit /\ [][KeepersNext]_keeperVars
  /\ WF_keeperVars(LimiterDoes(Limiter!LimiterStep)) /\ WF_keeperVars(LimiterDoes(Limiter!Tick))
  /\ \A t \in Limiter!Tasks : /\ WF_keeperVars(LimiterDoes(Limiter!Settle(t)))
                              /\ WF_keeperVars(LimiterDoes(Limiter!Release(t)))
  /\ \A t \in Ticks : WF_keeperVars(BackoffDoes(Backoff!TickStep(t)))
  /\ WF_keeperVars(BackoffDoes(Backoff!Restart)) /\ WF_keeperVars(BackoffDoes(Backoff!Tick))
  /\ WF_keeperVars(ListenerDoes(Listener!PollStep))
  /\ WF_keeperVars(ListenerDoes(Listener!Restart))

-----------------------------------------------------------------------------
(* The properties of the parts, as their modules state them.                *)

(* Of the rate limiter: its pace and order, and that it settles writes.     *)
PacedInOrder == Limiter!PacedInOrder
EveryWriteSettles == Limiter!EveryWriteSettles

(* Of the backoff: no task starts early, and tasks go on being started.     *)
WaitRespected == Backoff!WaitRespected
KeepsTrying == part = "backoff" => Backoff!KeepsTrying

(* Of the listener: nothing is skipped, repeated without a fault or handled *)
(* out of order, and everything is handled in the end.                      *)
NothingSkipped == Listener!NothingSkipped
RepeatsOnlyAfterFaults == Listener!RepeatsOnlyAfterFaults
DeliveredInOrder == Listener!DeliveredInOrder
EveryEventHandled == part = "listener" => Listener!EveryEventHandled

(* Of the monitor: a lag is never reported smaller than it is.              *)
LagNotUnderstated == Monitor!LagNotUnderstated

(* Of the scanner, the harvest bot and the limiter they write through: the  *)
(* three estimates of an opportunity agree, harvests keep their distance    *)
(* and are reported, and no more writes are under way than are counted.     *)
BotsKeepTheirWord ==
  Scanner!EstimatesAgree /\ Harvester!BotKeepsItsWord /\ Limiter!InFlightBounded
=============================================================================
