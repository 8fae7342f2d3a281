--------------------------- MODULE KeeperHarvester ---------------------------
(***************************************************************************)
(* YieldHarvestBot (examples/yield-harvest-bot.ts), for one of its vaults:  *)
(* performHarvestCheck runs the vaults side by side and waits for nothing   *)
(* that one of them needs from another.                                     *)
(*                                                                          *)
(* The interval does not wait for the check before it, so that checks       *)
(* overlap, with one another and with forceHarvest. Each await of           *)
(* checkAndHarvestVault is a step boundary. The cooldown is kept in memory: *)
(* a restarted process begins without it.                                   *)
(***************************************************************************)
EXTENDS Integers

CONSTANTS
  Checks,              \* the calls of checkAndHarvestVault that may be under way
  harvestCooldown,
  Rate,                \* what the vault earns in a unit of time
  minRewardThreshold,
  MaxTime,             \* bound on now
  MaxHarvests          \* bound on what is counted

HarvesterAssumption == harvestCooldown \in Nat

VARIABLES
  now,          \* Date.now()
  isRunning,
  lastHarvest,  \* lastHarvestTimes of the vault, 0 when it has none
  checks,       \* what every call awaits: "idle", "paused", "metrics" or "harvest"
  performance,  \* [harvestCount, errors]
  totalHarvests,
  last_harvest, \* the vault's own time of its last harvest (external)
  tooSoon,      \* a harvest followed one within the cooldown, without excuse
  excuses       \* what happened since the last one that lets them come closer

vars == <<now, isRunning, lastHarvest, checks, performance, totalHarvests, last_harvest,
          tooSoon, excuses>>

Init ==
  /\ now = harvestCooldown /\ isRunning = FALSE
  /\ lastHarvest = 0 /\ last_harvest = 0
  /\ checks = [c \in Checks |-> "idle"]
  /\ performance = [harvestCount |-> 0, errors |-> 0] /\ totalHarvests = 0
  /\ tooSoon = FALSE /\ excuses = {}

Tick ==
  /\ now < MaxTime
  /\ now' = now + 1
  /\ UNCHANGED <<isRunning, lastHarvest, checks, performance, totalHarvests, last_harvest,
                 tooSoon, excuses>>

(* start throws when the bot is running; stop clears the interval and lets  *)
(* the checks that are under way go on.                                     *)
start == ~isRunning /\ isRunning' = TRUE
stop  == isRunning /\ isRunning' = FALSE

StartOrStop ==
  /\ start \/ stop
  /\ UNCHANGED <<now, lastHarvest, checks, performance, totalHarvests, last_harvest, tooSoon,
                 excuses>>

Overlapping(c) ==
  IF \E d \in Checks \ {c} : checks[d] # "idle" THEN {"overlap"} ELSE {}

Begins(c) ==
  /\ checks[c] = "idle" /\ performance.harvestCount < MaxHarvests
  /\ checks' = [checks EXCEPT ![c] = "paused"]

(* The interval.                                                            *)
performHarvestCheck(c) ==
  /\ isRunning
  /\ Begins(c)
  /\ excuses' = excuses \cup Overlapping(c)
  /\ UNCHANGED <<now, isRunning, lastHarvest, performance, totalHarvests, last_harvest, tooSoon>>

(* forceHarvest forgets the cooldown, and asks nobody whether the bot runs. *)
forceHarvest(c) ==
  /\ Begins(c)
  /\ lastHarvest' = 0
  /\ excuses' = excuses \cup {"forced"}
  /\ UNCHANGED <<now, isRunning, performance, totalHarvests, last_harvest, tooSoon>>

-----------------------------------------------------------------------------
(* checkAndHarvestVault.                                                    *)

Failed == performance' = [harvestCount |-> performance.harvestCount + 1,
                          errors       |-> performance.errors + 1]

(* Any of the awaits may throw.                                             *)
Throws(c) ==
  /\ checks[c] \in {"paused", "metrics", "harvest"}
  /\ checks' = [checks EXCEPT ![c] = "idle"]
  /\ Failed
  /\ UNCHANGED <<now, isRunning, lastHarvest, totalHarvests, last_harvest, tooSoon, excuses>>

(* Mutant: the cooldown ends one unit early.                                *)
CoolingOffByOne == now - lastHarvest < harvestCooldown - 1

InCooldown == now - lastHarvest < harvestCooldown

(* isPaused answered: the vault is paused, is cooling down, or its metrics  *)
(* are read.                                                                *)
PausedAnswered(c) ==
  /\ checks[c] = "paused"
  /\ \E isPaused \in BOOLEAN :
       checks' = [checks EXCEPT ![c] = IF isPaused \/ InCooldown THEN "idle" ELSE "metrics"]
  /\ UNCHANGED <<now, isRunning, lastHarvest, performance, totalHarvests, last_harvest, tooSoon,
                 excuses>>

(* From the time of the vault's last harvest, as its metrics tell it.       *)
estimatePendingRewards == Rate * (now - last_harvest)

MetricsAnswered(c) ==
  /\ checks[c] = "metrics"
  /\ checks' = [checks EXCEPT ![c] =
                  IF estimatePendingRewards < minRewardThreshold THEN "idle" ELSE "harvest"]
  /\ UNCHANGED <<now, isRunning, lastHarvest, performance, totalHarvests, last_harvest, tooSoon,
                 excuses>>

(* The vault's harvest (external), between its submission and the answer.   *)
InEffect(c) ==
  /\ checks[c] = "harvest"
  /\ checks' = [checks EXCEPT ![c] = "confirmed"]
  /\ last_harvest' = now
  /\ tooSoon' = (tooSoon \/ (/\ last_harvest # 0 /\ now - last_harvest < harvestCooldown
                             /\ excuses = {}))
  /\ excuses' = Overlapping(c)
  /\ UNCHANGED <<now, isRunning, lastHarvest, performance, totalHarvests>>

Succeeded(c) ==
  /\ checks[c] = "confirmed"
  /\ checks' = [checks EXCEPT ![c] = "idle"]
  /\ performance' = [performance EXCEPT !.harvestCount = @ + 1]
  /\ lastHarvest' = now
  /\ totalHarvests' = totalHarvests + 1
  /\ UNCHANGED <<now, isRunning, last_harvest, tooSoon, excuses>>

(* VaultClient.harvest throws though the harvest is in effect, as it does   *)
(* whenever it comes to confirmTransaction: no cooldown begins.             *)
ThrowsInEffect(c) ==
  /\ checks[c] = "confirmed"
  /\ checks' = [checks EXCEPT ![c] = "idle"]
  /\ Failed
  /\ excuses' = excuses \cup {"unreported"}
  /\ UNCHANGED <<now, isRunning, lastHarvest, totalHarvests, last_harvest, tooSoon>>

(* The harvest was refused: an answer without success.                      *)
Refused(c) ==
  /\ checks[c] = "harvest"
  /\ checks' = [checks EXCEPT ![c] = "idle"]
  /\ Failed
  /\ UNCHANGED <<now, isRunning, lastHarvest, totalHarvests, last_harvest, tooSoon, excuses>>

(* The process ends and is started again.                                   *)
Restart ==
  /\ isRunning' = FALSE /\ lastHarvest' = 0
  /\ checks' = [c \in Checks |-> "idle"]
  /\ performance' = [harvestCount |-> 0, errors |-> 0] /\ totalHarvests' = 0
  /\ excuses' = excuses \cup {"restart"}
  /\ UNCHANGED <<now, last_harvest, tooSoon>>

-----------------------------------------------------------------------------
CheckStep(c) ==
  \/ performHarvestCheck(c) \/ forceHarvest(c)
  \/ PausedAnswered(c) \/ MetricsAnswered(c) \/ InEffect(c)
  \/ Succeeded(c) \/ Refused(c) \/ Throws(c) \/ ThrowsInEffect(c)

Next == Tick \/ StartOrStop \/ Restart \/ \E c \in Checks : CheckStep(c)

Spec == Init /\ [][Next]_vars

-----------------------------------------------------------------------------
(* Properties.                                                             *)

(* Two harvests come within the cooldown only if checks overlapped, one was *)
(* forced, the answer to one was lost, or the process was restarted between *)
(* them: nothing else makes checkAndHarvestVault forget its cooldown.       *)
HarvestsPaced == ~tooSoon

(* What the report says adds up, however the checks overlap: every attempt  *)
(* is a success or an error, once.                                          *)
ReportAddsUp == performance.harvestCount = totalHarvests + performance.errors

(* The bot keeps its cooldown and its books.                                *)
BotKeepsItsWord == HarvestsPaced /\ ReportAddsUp
=============================================================================
