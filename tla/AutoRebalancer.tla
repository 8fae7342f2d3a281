--------------------------- MODULE AutoRebalancer ---------------------------
(***************************************************************************)
(* The auto-rebalancer keeper, sdk/src/bots/autoRebalancer.ts.              *)
(*                                                                          *)
(* A timer calls run. A run that may act (the cooldown since the last       *)
(* execution is over) writes its state to a store, looks for an             *)
(* opportunity, simulates it, executes it and writes the time of the        *)
(* execution. It is one step per await: between two of them the process may *)
(* die, and since nothing in run keeps a second call out, the steps of      *)
(* several runs may interleave. What an await answers (an error, no         *)
(* opportunity, no profit, a failed execution) is a choice; the pool data   *)
(* behind it is left out, and so are logs, notifications and the lag        *)
(* report, on which no decision depends.                                    *)
(*                                                                          *)
(* executeArbitrage submits a transaction and answers once it is confirmed  *)
(* (external): the transaction may be in effect before the keeper knows.    *)
(***************************************************************************)
EXTENDS Integers, FiniteSets

CONSTANTS
  Runs,          \* the calls of run that may be under way at once
  Cooldown,      \* config.cooldownHours, in steps of the clock
  MaxTime,       \* bound on the clock
  MaxFaults      \* bound on crashes and failures together

ASSUME RebalancerAssumption ==
  Cooldown \in Nat \ {0} /\ MaxTime \in Nat /\ MaxFaults \in Nat

VARIABLES
  lastExecutionTime,   \* 0 for never
  stateRestored,
  pc,                  \* of every run: the await it is in
  payload,             \* what a run is writing to the store
  store,               \* the stored lastExecutionTime, or NoCheckpoint
  now,
  lastEffect,          \* when a rebalance last took effect, 0 for never
  tooSoon,             \* a rebalance took effect within the cooldown of another
  forgotten,           \* a process died before its last rebalance was stored
  faults

memory == <<lastExecutionTime, stateRestored>>
history == <<lastEffect, tooSoon, forgotten>>
vars == <<memory, pc, payload, store, now, history, faults>>

NoCheckpoint == -1

Points == {"idle", "restoring", "lag", "savingSlot", "scanning", "simulating",
           "submitting", "confirming", "savingExecution"}

Init ==
  /\ lastExecutionTime = 0
  /\ stateRestored = FALSE
  /\ pc = [r \in Runs |-> "idle"]
  /\ payload = [r \in Runs |-> 0]
  /\ store = NoCheckpoint
  /\ now = 1                      \* Date.now() is never 0
  /\ lastEffect = 0 /\ tooSoon = FALSE /\ forgotten = FALSE
  /\ faults = 0

Fault == faults < MaxFaults /\ faults' = faults + 1

Goes(r, from, to) == pc[r] = from /\ pc' = [pc EXCEPT ![r] = to]

(* The head of run.                                                         *)
BeginRun(r) ==
  /\ Goes(r, "idle", IF stateRestored THEN "lag" ELSE "restoring")
  /\ UNCHANGED <<memory, payload, store, now, history, faults>>

(* Mutant: a state that cannot be read counts as none.                      *)
RestoreFailsOpen(r) ==
  /\ Goes(r, "restoring", "lag")
  /\ Fault
  /\ stateRestored' = TRUE
  /\ UNCHANGED <<lastExecutionTime, payload, store, now, history>>

(* restoreState: the run ends when the stored state cannot be read, and the *)
(* next one tries again.                                                    *)
RestoreFails(r) ==
  /\ Goes(r, "restoring", "idle")
  /\ Fault
  /\ UNCHANGED <<memory, payload, store, now, history>>

(* restoreState.                                                            *)
RestoreState(r) ==
  /\ Goes(r, "restoring", "lag")
  /\ stateRestored' = TRUE
  /\ lastExecutionTime' = IF store = NoCheckpoint THEN lastExecutionTime ELSE store
  /\ UNCHANGED <<payload, store, now, history, faults>>

(* Mutant: the cooldown is over one step early.                             *)
ReadyEarly == lastExecutionTime = 0 \/ now - lastExecutionTime >= Cooldown - 1

IsReadyForRebalance == lastExecutionTime = 0 \/ now - lastExecutionTime >= Cooldown

(* The lag report is in: check the cooldown and call persistState.          *)
CheckCooldown(r) ==
  /\ pc[r] = "lag"
  /\ IF IsReadyForRebalance
     THEN /\ Goes(r, "lag", "savingSlot")
          /\ payload' = [payload EXCEPT ![r] = lastExecutionTime]
     ELSE /\ Goes(r, "lag", "idle")
          /\ UNCHANGED payload
  /\ UNCHANGED <<memory, store, now, history, faults>>

(* persistState before any work. lastConsumedMinute is stored with it, but  *)
(* nothing sets or reads it: it stays -1 and is left out.                   *)
PersistSlot(r) ==
  /\ Goes(r, "savingSlot", "scanning")
  /\ store' = payload[r]
  /\ UNCHANGED <<memory, payload, now, history, faults>>

(* findOpportunities and the choice among them; simulateRebalance.          *)
FindOpportunity(r) ==
  /\ Goes(r, "scanning", "simulating") \/ Goes(r, "scanning", "idle")
  /\ UNCHANGED <<memory, payload, store, now, history, faults>>

Simulate(r) ==
  /\ Goes(r, "simulating", "submitting") \/ Goes(r, "simulating", "idle")
  /\ UNCHANGED <<memory, payload, store, now, history, faults>>

(* The transaction takes effect (external).                                 *)
TakeEffect(r) ==
  /\ Goes(r, "submitting", "confirming")
  /\ lastEffect' = now
  /\ tooSoon' = IF lastEffect # 0 /\ now - lastEffect < Cooldown THEN TRUE ELSE tooSoon
  /\ UNCHANGED <<memory, payload, store, now, forgotten, faults>>

(* The execution fails without effect.                                      *)
ExecutionFails(r) ==
  /\ Goes(r, "submitting", "idle")
  /\ UNCHANGED <<memory, payload, store, now, history, faults>>

(* The answer is in: the time is kept and persistState is called.           *)
Confirm(r) ==
  /\ Goes(r, "confirming", "savingExecution")
  /\ lastExecutionTime' = now
  /\ payload' = [payload EXCEPT ![r] = now]
  /\ UNCHANGED <<stateRestored, store, now, history, faults>>

PersistExecution(r) ==
  /\ Goes(r, "savingExecution", "idle")
  /\ store' = payload[r]
  /\ UNCHANGED <<memory, payload, now, history, faults>>

(* Any other await may fail; the error is logged and the run ends.          *)
RunFails(r) ==
  /\ pc[r] \in {"lag", "savingSlot", "scanning", "simulating", "savingExecution"}
  /\ Goes(r, pc[r], "idle")
  /\ Fault
  /\ UNCHANGED <<memory, payload, store, now, history>>

(* The process dies and is started again.                                   *)
Crash ==
  /\ Fault
  /\ lastExecutionTime' = 0
  /\ stateRestored' = FALSE
  /\ pc' = [r \in Runs |-> "idle"]
  /\ payload' = [r \in Runs |-> 0]
  /\ forgotten' = IF lastEffect # 0 /\ store < lastEffect THEN TRUE ELSE forgotten
  /\ UNCHANGED <<store, now, lastEffect, tooSoon>>

Tick ==
  /\ now < MaxTime
  /\ now' = now + 1
  /\ UNCHANGED <<memory, pc, payload, store, history, faults>>

-----------------------------------------------------------------------------
RunStep(r) ==
  \/ BeginRun(r) \/ RestoreState(r) \/ RestoreFails(r) \/ CheckCooldown(r)
  \/ PersistSlot(r) \/ FindOpportunity(r) \/ Simulate(r)
  \/ TakeEffect(r) \/ ExecutionFails(r) \/ Confirm(r) \/ PersistExecution(r)
  \/ RunFails(r)

Next == (\E r \in Runs : RunStep(r)) \/ Crash \/ Tick

Spec == Init /\ [][Next]_vars

-----------------------------------------------------------------------------
(* Properties.                                                             *)

(* Runs that do not overlap never rebalance twice within the cooldown,      *)
(* through restarts, unreadable state and failed writes, unless a process   *)
(* died before the store knew of its rebalance. A failed write alone is no  *)
(* excuse: memory still knows, and the next run writes it.                  *)
CooldownKept == forgotten \/ ~tooSoon

(* No write takes the stored time back to an earlier execution, neither the *)
(* one before the work nor one of a process that could not read the store.  *)
StoreMonotone == [][store' >= store]_vars
=============================================================================
