---------------------------- MODULE Keepers_proofs ----------------------------
(***************************************************************************)
(* Theorems about the keepers as MCKeepers composes them: each part has an  *)
(* invariant of its own, which holds while a behaviour is of that part, and *)
(* as the part was made otherwise.                                          *)
(*                                                                          *)
(* The event listener is the last of them, where events have the ids the    *)
(* node supplies: neither position passes an event no handler got, an event *)
(* is handled twice only after a fault, and a listener is an                *)
(* InOrderDelivery. Without ids a full page can end in a ledger whose rest  *)
(* the position by ledger then skips. The invariant ListenerInv says of     *)
(* both positions, the one in memory and the one of the store, that what    *)
(* they passed was handled (Position), of a page being handled that it is   *)
(* the first of what comes after the position and handled from the front,   *)
(* and that without a fault nothing before the position counts twice        *)
(* (OnceBefore).                                                            *)
(***************************************************************************)
EXTENDS MCKeepers, Sequences, SequencesExt, Sums_proofs, FiniteSetTheorems, TLAPS

(* A behaviour is one of a single part; the others stay as they were made.  *)
LEMMA OnePart ==
  ASSUME [KeepersNext]_keeperVars
  PROVE  /\ part' = part
         /\ IF part = "rebalancer" THEN Next \/ UNCHANGED vars ELSE UNCHANGED rebalancerVars
         /\ Limiter!Next \/ UNCHANGED limiterVars
         /\ Backoff!Next \/ UNCHANGED backoffVars
         /\ Monitor!Next \/ UNCHANGED monitorVars
         /\ IF part = "scanner" THEN Scanner!Next \/ UNCHANGED <<now, scannerVars>>
            ELSE UNCHANGED scannerVars
         /\ IF part = "harvester" THEN Harvester!Next \/ UNCHANGED <<now, harvesterVars>>
            ELSE UNCHANGED harvesterVars
<1> USE DEF rebalancerVars, limiterVars, backoffVars, monitorVars, scannerVars, harvesterVars
<1>1. part' = part
  BY DEF KeepersNext, keeperVars, RebalancerMoves, LimiterDoes, BackoffDoes, ListenerDoes,
    MonitorMoves,
         ScannerMoves, HarvesterMoves
<1>2. CASE RebalancerMoves
  BY <1>1, <1>2 DEF RebalancerMoves
<1>3. CASE MonitorMoves
  BY <1>1, <1>3 DEF MonitorMoves
<1>4. CASE ScannerMoves
  BY <1>1, <1>4 DEF ScannerMoves
<1>5. CASE HarvesterMoves
  BY <1>1, <1>5 DEF HarvesterMoves
<1>6. CASE LimiterDoes(Limiter!Next) \/ LimiterDoes(LimiterRests)
  BY <1>1, <1>6 DEF LimiterDoes, LimiterRests
<1>7. CASE BackoffDoes(Backoff!Next)
  BY <1>1, <1>7 DEF BackoffDoes
<1>8. CASE ListenerDoes(Listener!Next)
  BY <1>1, <1>8 DEF ListenerDoes
<1>9. CASE UNCHANGED keeperVars
  BY <1>1, <1>9 DEF keeperVars, vars, memory, history
<1> QED BY <1>2, <1>3, <1>4, <1>5, <1>6, <1>7, <1>8, <1>9 DEF KeepersNext

-----------------------------------------------------------------------------
(* The auto-rebalancer, with runs that do not overlap: the invariant says   *)
(* who knows of the last rebalance, the process that restored or the store  *)
(* it will restore from.                                                    *)

(* Runs do not overlap.                                                     *)
OneRun == \A r, s \in Runs : r = s

(* The types of all but the flags.                                          *)
Typed ==
  /\ lastExecutionTime \in 0..MaxTime
  /\ pc \in [Runs -> Points] /\ payload \in [Runs -> 0..MaxTime]
  /\ store \in {NoCheckpoint} \cup 0..MaxTime /\ now \in 1..MaxTime
  /\ lastEffect \in 0..MaxTime

(* Times that are recorded are past.                                        *)
Past == lastExecutionTime <= now /\ store <= now /\ lastEffect <= now

(* A process that restored knows at least what is stored.                   *)
Fresh == stateRestored => store <= lastExecutionTime

(* What is being written is what the process knows.                         *)
Writing ==
  \A r \in Runs : pc[r] \in {"savingSlot", "savingExecution"}
    => payload[r] = lastExecutionTime

(* A run restores only what is not restored, and acts only after that.      *)
Restored ==
  \A r \in Runs : /\ pc[r] # "idle" /\ pc[r] # "restoring" => stateRestored
                  /\ pc[r] = "restoring" => ~stateRestored

(* The last rebalance is known to the process, is about to be confirmed to  *)
(* it, or will be restored.                                                 *)
Known ==
  \/ forgotten
  \/ lastEffect = 0
  \/ stateRestored /\ (lastExecutionTime >= lastEffect \/ \E r \in Runs : pc[r] = "confirming")
  \/ ~stateRestored /\ store >= lastEffect

(* A run that passed the check of the cooldown may act.                     *)
Clear ==
  \A r \in Runs : pc[r] \in {"savingSlot", "scanning", "simulating", "submitting"}
    => forgotten \/ lastEffect = 0 \/ now - lastEffect >= Cooldown

RebalancerInv == Typed /\ Past /\ Fresh /\ Writing /\ Restored /\ Known /\ Clear /\ CooldownKept

(* The invariant holds when the keeper is started for the first time.       *)
LEMMA RebalancerStarts == ASSUME 1 <= MaxTime PROVE Init => RebalancerInv
<1> SUFFICES ASSUME Init PROVE RebalancerInv
  OBVIOUS
<1>1. Typed
  BY RebalancerAssumption DEF Init, Typed, Points, NoCheckpoint
<1>2. Past /\ Fresh /\ Known /\ CooldownKept
  BY DEF Init, Past, Fresh, Known, CooldownKept, NoCheckpoint
<1>3. Writing /\ Restored /\ Clear
  BY DEF Init, Writing, Restored, Clear
<1> QED BY <1>1, <1>2, <1>3 DEF RebalancerInv

(* A run past its start acts for a process that restored.                   *)
LEMMA ActsRestored ==
  ASSUME RebalancerInv, NEW r \in Runs, pc[r] # "idle", pc[r] # "restoring"
  PROVE  stateRestored
BY DEF RebalancerInv, Restored

(* Every step of a run keeps the invariant and takes no stored time back.   *)
LEMMA RunStepHolds ==
  ASSUME OneRun, RebalancerInv, NEW r \in Runs, RunStep(r)
  PROVE  RebalancerInv' /\ store' >= store
<1> USE RebalancerAssumption DEF RebalancerInv, Typed, Past, Fresh, Writing, Restored, Known, Clear,
        CooldownKept, Points, NoCheckpoint, Goes, memory, history, OneRun, Fault
<1>1. CASE BeginRun(r)
  BY <1>1 DEF BeginRun
<1>2. CASE RestoreState(r)
  BY <1>2 DEF RestoreState
<1>3. CASE RestoreFails(r)
  BY <1>3 DEF RestoreFails
<1>4. CASE CheckCooldown(r)
  <2>1. pc[r] = "lag" /\ stateRestored /\ \A q \in Runs : pc[q] # "confirming"
    <3>1. pc[r] = "lag" /\ \A q \in Runs : pc[q] # "confirming"
      BY <1>4 DEF CheckCooldown
    <3>2. stateRestored
      BY <3>1, ActsRestored
    <3> QED BY <3>1, <3>2
  <2>2. Typed' /\ Past' /\ Fresh' /\ store' >= store
    BY <1>4 DEF CheckCooldown
  <2>3. Writing' /\ Restored'
    BY <1>4 DEF CheckCooldown
  <2>4. Known'
    BY <1>4, <2>1 DEF CheckCooldown
  <2>5. IsReadyForRebalance => forgotten \/ lastEffect = 0 \/ now - lastEffect >= Cooldown
    BY <2>1 DEF IsReadyForRebalance
  <2>6. Clear' /\ CooldownKept'
    BY <1>4, <2>5 DEF CheckCooldown
  <2> QED BY <2>2, <2>3, <2>4, <2>6
<1>5. CASE PersistSlot(r)
  <2>1. pc[r] = "savingSlot" /\ payload[r] = lastExecutionTime /\ stateRestored
    <3>1. pc[r] = "savingSlot" /\ payload[r] = lastExecutionTime
      BY <1>5 DEF PersistSlot
    <3>2. stateRestored
      BY <3>1, ActsRestored
    <3> QED BY <3>1, <3>2
  <2>2. store' = lastExecutionTime /\ UNCHANGED <<memory, payload, now, lastEffect, tooSoon, forgotten>>
    BY <1>5, <2>1 DEF PersistSlot
  <2>3. pc' \in [Runs -> Points]
    BY <1>5 DEF PersistSlot
  <2>4. Typed' /\ Past' /\ Fresh' /\ store' >= store
    BY <2>1, <2>2, <2>3
  <2>5. Writing' /\ Restored'
    BY <1>5, <2>1 DEF PersistSlot
  <2>6. Known'
    <3>1. \A q \in Runs : pc[q] # "confirming"
      BY <2>1
    <3> QED BY <2>1, <2>2, <3>1 DEF Known
  <2>7. Clear' /\ CooldownKept'
    BY <1>5 DEF PersistSlot
  <2> QED BY <2>4, <2>5, <2>6, <2>7
<1>6. CASE FindOpportunity(r)
  BY <1>6 DEF FindOpportunity
<1>7. CASE Simulate(r)
  BY <1>7 DEF Simulate
<1>8. CASE TakeEffect(r)
  <2>1. Typed' /\ Past' /\ Fresh' /\ store' >= store
    BY <1>8 DEF TakeEffect
  <2>2. Writing' /\ Restored'
    BY <1>8 DEF TakeEffect
  <2>3. Known'
    <3>1. pc[r] = "submitting" /\ pc'[r] = "confirming" /\ stateRestored' = stateRestored
      BY <1>8 DEF TakeEffect
    <3>2. stateRestored
      BY <3>1, ActsRestored
    <3> QED BY <3>1, <3>2 DEF Known
  <2>4. Clear' /\ CooldownKept'
    BY <1>8 DEF TakeEffect
  <2> QED BY <2>1, <2>2, <2>3, <2>4
<1>9. CASE ExecutionFails(r)
  BY <1>9 DEF ExecutionFails
<1>10. CASE Confirm(r)
  BY <1>10 DEF Confirm
<1>11. CASE PersistExecution(r)
  <2>1. pc[r] = "savingExecution" /\ payload[r] = lastExecutionTime /\ stateRestored
    <3>1. pc[r] = "savingExecution" /\ payload[r] = lastExecutionTime
      BY <1>11 DEF PersistExecution
    <3>2. stateRestored
      BY <3>1, ActsRestored
    <3> QED BY <3>1, <3>2
  <2>2. store' = lastExecutionTime /\ UNCHANGED <<memory, payload, now, lastEffect, tooSoon, forgotten>>
    BY <1>11, <2>1 DEF PersistExecution
  <2>3. pc' \in [Runs -> Points]
    BY <1>11 DEF PersistExecution
  <2>4. Typed' /\ Past' /\ Fresh' /\ store' >= store
    BY <2>1, <2>2, <2>3
  <2>5. Writing' /\ Restored'
    BY <1>11, <2>1 DEF PersistExecution
  <2>6. Known'
    <3>1. \A q \in Runs : pc[q] # "confirming"
      BY <2>1
    <3> QED BY <2>1, <2>2, <3>1 DEF Known
  <2>7. Clear' /\ CooldownKept'
    BY <1>11 DEF PersistExecution
  <2> QED BY <2>4, <2>5, <2>6, <2>7
<1>12. CASE RunFails(r)
  BY <1>12 DEF RunFails
<1> QED BY <1>1, <1>2, <1>3, <1>4, <1>5, <1>6, <1>7, <1>8, <1>9, <1>10, <1>11, <1>12 DEF RunStep

(* A step of the keeper, the clock or a crash keeps the invariant.          *)
LEMMA RebalancerKeeps ==
  ASSUME OneRun, RebalancerInv, [Next]_vars
  PROVE  RebalancerInv' /\ store' >= store
<1> USE RebalancerAssumption DEF RebalancerInv, Typed, Past, Fresh, Writing, Restored, Known, Clear,
        CooldownKept, Points, NoCheckpoint, memory, history
<1>1. ASSUME NEW r \in Runs, RunStep(r) PROVE RebalancerInv' /\ store' >= store
  BY <1>1, RunStepHolds
<1>2. CASE Crash
  <2>1. Typed'
    BY <1>2 DEF Crash, Fault
  <2>2. Past' /\ Fresh' /\ CooldownKept' /\ store' >= store
    BY <1>2 DEF Crash
  <2>3. Writing' /\ Restored' /\ Clear'
    BY <1>2 DEF Crash
  <2>4. Known'
    BY <1>2 DEF Crash
  <2> QED BY <2>1, <2>2, <2>3, <2>4
<1>3. CASE Tick
  BY <1>3 DEF Tick
<1>4. CASE UNCHANGED vars
  BY <1>4 DEF vars
<1> QED BY <1>1, <1>2, <1>3, <1>4 DEF Next

(* The rebalancer of every behaviour of the keepers, and its steps.         *)
RebalancerHolds ==
  IF part = "rebalancer" THEN RebalancerInv ELSE ~tooSoon /\ store = NoCheckpoint

(* The rebalancer's invariant holds at the start and after every step of    *)
(* the keepers, whatever the other keepers do; the store never goes back.   *)
LEMMA RebalancerHoldsAlways ==
  ASSUME OneRun, 1 <= MaxTime
  PROVE  /\ KeepersInit => RebalancerHolds
         /\ RebalancerHolds /\ [KeepersNext]_keeperVars => RebalancerHolds' /\ store' >= store
<1>1. KeepersInit => RebalancerHolds
  <2> SUFFICES ASSUME KeepersInit PROVE RebalancerHolds
    OBVIOUS
  <2>1. part = "rebalancer" => Init
    BY DEF KeepersInit, Init, Backoff!Init
  <2> QED BY <2>1, RebalancerStarts DEF KeepersInit, RebalancerHolds
<1>2. ASSUME RebalancerHolds, [KeepersNext]_keeperVars
      PROVE  RebalancerHolds' /\ store' >= store
  <2>1. CASE part = "rebalancer"
    <3>1. [Next]_vars /\ RebalancerInv /\ part' = part
      BY <1>2, <2>1, OnePart DEF RebalancerHolds
    <3> QED BY <2>1, <3>1, RebalancerKeeps DEF RebalancerHolds
  <2>2. CASE part # "rebalancer"
    <3>1. UNCHANGED rebalancerVars /\ part' = part
      BY <1>2, <2>2, OnePart
    <3> QED BY <1>2, <2>2, <3>1 DEF RebalancerHolds, rebalancerVars, history, NoCheckpoint
  <2> QED BY <2>1, <2>2
<1> QED BY <1>1, <1>2

(* With runs that do not overlap, no rebalance follows another within the   *)
(* cooldown unless a process died before its rebalance was stored           *)
(* (autoRebalancer.ts 272-460, restoreState and persistState).              *)
THEOREM CooldownIsKept ==
  ASSUME OneRun, 1 <= MaxTime
  PROVE  KeepersSpec => []CooldownKept
<1>1. RebalancerHolds => CooldownKept
  BY DEF RebalancerHolds, RebalancerInv, CooldownKept
<1> QED BY <1>1, RebalancerHoldsAlways, PTL DEF KeepersSpec

(* With runs that do not overlap, the stored time of the last execution     *)
(* never goes back.                                                         *)
THEOREM StoreNeverGoesBack ==
  ASSUME OneRun, 1 <= MaxTime
  PROVE  KeepersSpec => StoreMonotone
<1>1. RebalancerHolds /\ [KeepersNext]_keeperVars => [store' >= store]_vars
  BY RebalancerHoldsAlways
<1> QED BY <1>1, RebalancerHoldsAlways, PTL DEF KeepersSpec, StoreMonotone

-----------------------------------------------------------------------------
(* The lag monitor: progress that is read back, stored or reported is       *)
(* progress that was made.                                                  *)

UpToNext == {n \in Int : n <= recorded + 1}

(* What the process knows is behind what it ever recorded; what is stored,  *)
(* or on its way into the store, is at most the ledger after it.            *)
Progress ==
  /\ recorded \in Nat /\ processed \in Nat /\ processed <= recorded
  /\ asked \in Int /\ asked <= recorded
  /\ {persisting, temp, file} \subseteq UpToNext

(* The report is of a head, and its lag is of a ledger that was recorded.   *)
Reported ==
  report # Monitor!NoReport => /\ report.head \in Int /\ report.lag \in Int
                       /\ report.lag >= report.head - recorded

MonitorInv == Progress /\ Reported

(* The monitor starts with no progress and no report.                       *)
LEMMA MonitorStarts == Monitor!Init => MonitorInv
  BY DEF Monitor!Init, MonitorInv, Progress, Reported, UpToNext, Monitor!NoLedger,
    Monitor!NoFile, Monitor!Newer

(* A ledger that is recorded, from the feed or from the store.              *)
LEMMA RecordKeeps ==
  ASSUME MonitorLedger \in Nat, MonitorInv, Monitor!Record
  PROVE  MonitorInv'
<1>1. PICK sequence \in 0..MonitorLedger :
        recorded' = Monitor!Larger(recorded, sequence) /\ processed' = Monitor!Larger(processed, sequence)
  BY DEF Monitor!Record, Monitor!recordProcessedLedger
<1>2. recorded' \in Nat /\ recorded' >= recorded /\ processed' \in Nat /\ processed' <= recorded'
  BY <1>1 DEF MonitorInv, Progress, Monitor!Larger
<1>3. UNCHANGED <<asked, report, persisting, file, temp>>
  BY DEF Monitor!Record
<1>4. Progress'
  <2>1. asked' \in Int /\ asked' <= recorded'
    BY <1>2, <1>3 DEF MonitorInv, Progress
  <2>2. {persisting', temp', file'} \subseteq UpToNext'
    BY <1>2, <1>3 DEF MonitorInv, Progress, UpToNext
  <2> QED BY <1>2, <2>1, <2>2 DEF Progress
<1>5. Reported'
  BY <1>2, <1>3 DEF MonitorInv, Progress, Reported, Monitor!NoReport
<1> QED BY <1>4, <1>5 DEF MonitorInv

(* What a restart reads back was recorded by an earlier process.            *)
LEMMA RestoreKeeps ==
  ASSUME MonitorInv, Monitor!Restore
  PROVE  MonitorInv'
<1>1. processed' \in Nat /\ processed' <= recorded
  BY DEF Monitor!Restore, Monitor!recordProcessedLedger, Monitor!lastProcessedLedger,
    Monitor!Larger, MonitorInv, Progress, UpToNext
<1>2. UNCHANGED <<recorded, asked, report, persisting, file, temp>>
  BY DEF Monitor!Restore
<1> QED BY <1>1, <1>2 DEF MonitorInv, Progress, Reported, UpToNext, Monitor!NoReport

(* The two writes of a save, its failure and the removal of the file.       *)
LEMMA SaveKeeps ==
  ASSUME MonitorInv, Monitor!Persist \/ Monitor!WriteTemp \/ Monitor!Rename \/ Monitor!SaveFails \/ Monitor!Clear
  PROVE  MonitorInv'
<1>1. UNCHANGED <<recorded, processed, asked, report>>
  BY DEF Monitor!Persist, Monitor!WriteTemp, Monitor!Rename, Monitor!SaveFails, Monitor!Clear
<1>2. {persisting', temp', file'} \subseteq UpToNext'
  BY DEF Monitor!Persist, Monitor!WriteTemp, Monitor!Rename, Monitor!SaveFails, Monitor!Clear,
    MonitorInv, Progress, UpToNext, Monitor!NoFile, Monitor!NoLedger
<1> QED BY <1>1, <1>2 DEF MonitorInv, Progress, Reported, Monitor!NoReport

(* The lag is taken from the ledger that was processed when the check began. *)
LEMMA CheckKeeps ==
  ASSUME MonitorLedger \in Nat, MonitorInv, Monitor!BeginCheck \/ Monitor!CheckAnswered \/ Monitor!CheckFails
  PROVE  MonitorInv'
<1>1. UNCHANGED <<recorded, processed, persisting, file, temp>>
  BY DEF Monitor!BeginCheck, Monitor!CheckAnswered, Monitor!CheckFails
<1>2. asked' \in Int /\ asked' <= recorded
  BY DEF Monitor!BeginCheck, Monitor!CheckAnswered, Monitor!CheckFails, MonitorInv, Progress,
    Monitor!NoLedger
<1>3. Reported'
  <2>1. CASE Monitor!CheckAnswered
    <3>1. PICK head \in 0..MonitorLedger :
            report' = [head |-> head, lag |-> Monitor!computeLedgerLag(asked, head)]
      BY <2>1 DEF Monitor!CheckAnswered
    <3>2. Monitor!computeLedgerLag(asked, head) \in Int /\ Monitor!computeLedgerLag(asked, head) >= head - recorded
      BY <3>1 DEF Monitor!computeLedgerLag, Monitor!Larger, MonitorInv, Progress
    <3> QED BY <1>1, <3>1, <3>2 DEF Reported
  <2>2. CASE Monitor!BeginCheck \/ Monitor!CheckFails
    BY <1>1, <2>2 DEF Monitor!BeginCheck, Monitor!CheckFails, MonitorInv, Reported,
      Monitor!NoReport
  <2> QED BY <2>1, <2>2
<1> QED BY <1>1, <1>2, <1>3 DEF MonitorInv, Progress, UpToNext

(* A death of the process loses what was not stored, and claims nothing.    *)
LEMMA CrashKeeps ==
  ASSUME MonitorInv, Monitor!Crash
  PROVE  MonitorInv'
  BY DEF Monitor!Crash, MonitorInv, Progress, Reported, UpToNext, Monitor!NoLedger,
    Monitor!NoReport

(* A report never makes the keeper look closer to the head than it is, and  *)
(* the stored position skips nothing that was not recorded.                 *)
THEOREM LagIsNotUnderstated ==
  ASSUME MonitorLedger \in Nat
  PROVE  KeepersSpec => []LagNotUnderstated
<1>1. KeepersInit => MonitorInv
  BY MonitorStarts DEF KeepersInit
<1>2. MonitorInv /\ [KeepersNext]_keeperVars => MonitorInv'
  <2> SUFFICES ASSUME MonitorInv, Monitor!Next \/ UNCHANGED monitorVars PROVE MonitorInv'
    BY OnePart
  <2>1. CASE UNCHANGED monitorVars
    BY <2>1 DEF monitorVars, MonitorInv, Progress, Reported, UpToNext, Monitor!NoReport
  <2> QED BY <2>1, RecordKeeps, RestoreKeeps, SaveKeeps, CheckKeeps, CrashKeeps DEF Monitor!Next
<1>3. MonitorInv => LagNotUnderstated
  BY DEF MonitorInv, Progress, Reported, UpToNext, LagNotUnderstated, Monitor!LagNotUnderstated,
         Monitor!NoReport, Monitor!NoFile
<1> QED BY <1>1, <1>2, <1>3, PTL DEF KeepersSpec

-----------------------------------------------------------------------------
(* The rate limiter: its count of places is that of the writes under way,   *)
(* and the check of a place before the sleep still holds after it, because  *)
(* only drain takes a place and only drain takes from the queue.            *)

LimiterTyped ==
  /\ status \in [Limiter!Tasks -> Limiter!Statuses]
  /\ queue \in Seq(Limiter!Tasks)
  /\ inFlight \in Nat /\ sinceStart \in 0..minIntervalMs /\ sleepLeft \in Nat
  /\ drain \in {"off", "loop", "sleeping"}

(* Every task that waits waits once.                                        *)
QueueIsOfQueued ==
  /\ \A i \in 1..Len(queue) : status[queue[i]] = "queued"
  /\ \A i, j \in 1..Len(queue) : i # j => queue[i] # queue[j]

(* While drain sleeps there is a task to take, a place for it, and the rest *)
(* of the interval to wait for.                                             *)
SleepsForATask ==
  drain = "sleeping" =>
    queue # <<>> /\ inFlight < maxConcurrent /\ sinceStart + sleepLeft >= minIntervalMs

LimiterInv ==
  LimiterTyped /\ QueueIsOfQueued /\ Limiter!InFlightBounded /\ SleepsForATask

(* The cardinality of the limiter's module is the usual one.                *)
LEMMA LimiterCardinality ==
  \A S : Limiter!Cardinality(S) = Cardinality(S)
  BY DEF Limiter!Cardinality, Cardinality

(* The limiter starts with an empty queue and nothing running.              *)
LEMMA LimiterStarts ==
  ASSUME Limiter!Init
  PROVE  LimiterInv
<1>1. LimiterTyped /\ QueueIsOfQueued /\ SleepsForATask
  BY PartsAssumption
  DEF Limiter!Init, LimiterTyped, QueueIsOfQueued, SleepsForATask, Limiter!Statuses,
    Limiter!LimiterAssumption
<1>2. Limiter!Running = {} /\ Limiter!Thrown = {}
  BY DEF Limiter!Init, Limiter!Running, Limiter!Thrown
<1>3. Cardinality({}) = 0
  BY FS_EmptySet
<1>4. Limiter!InFlightBounded
  BY <1>2, <1>3, LimiterCardinality, PartsAssumption
  DEF Limiter!InFlightBounded, Limiter!Init, Limiter!LimiterAssumption
<1> QED BY <1>1, <1>4 DEF LimiterInv

(* The sets whose sizes add up to inFlight are finite.                      *)
LEMMA UnderWayIsFinite ==
  /\ IsFiniteSet(Limiter!Running) /\ IsFiniteSet(Limiter!Thrown)
  /\ Cardinality(Limiter!Running) \in Nat /\ Cardinality(Limiter!Thrown) \in Nat
<1>1. IsFiniteSet(Limiter!Tasks)
  BY PartsAssumption, FS_Interval DEF Limiter!Tasks, Limiter!LimiterAssumption
<1>2. IsFiniteSet(Limiter!Running) /\ IsFiniteSet(Limiter!Thrown)
  BY <1>1, FS_Subset DEF Limiter!Running, Limiter!Thrown
<1> QED BY <1>2, FS_CardinalityType

(* A write that is added goes to the end of the queue.                      *)
LEMMA ScheduleKeeps ==
  ASSUME LimiterInv, NEW t \in Limiter!Tasks, Limiter!Schedule(t)
  PROVE  LimiterInv'
<1>1. /\ status \in [Limiter!Tasks -> Limiter!Statuses] /\ status[t] = "unsent"
      /\ UNCHANGED <<inFlight, sinceStart, sleepLeft>>
  BY DEF LimiterInv, LimiterTyped, Limiter!Schedule
<1>2. Limiter!Running' = Limiter!Running /\ Limiter!Thrown' = Limiter!Thrown
  BY <1>1 DEF Limiter!Schedule, Limiter!Running, Limiter!Thrown
<1>3. Limiter!InFlightBounded'
  BY <1>1, <1>2 DEF LimiterInv, Limiter!InFlightBounded
<1>4. CASE Len(queue) >= maxQueue /\ status' = [status EXCEPT ![t] = "rejected"] /\ UNCHANGED <<queue, drain>>
  <2>1. LimiterTyped' /\ SleepsForATask'
    BY <1>1, <1>4 DEF LimiterInv, LimiterTyped, Limiter!Statuses, SleepsForATask
  <2>2. QueueIsOfQueued'
    BY <1>1, <1>4 DEF LimiterInv, LimiterTyped, QueueIsOfQueued
  <2> QED BY <1>3, <2>1, <2>2 DEF LimiterInv
<1>5. CASE /\ Len(queue) < maxQueue /\ status' = [status EXCEPT ![t] = "queued"]
           /\ queue' = Append(queue, t) /\ Limiter!CallDrain
  <2>1. queue \in Seq(Limiter!Tasks) /\ Len(queue) \in Nat
    BY DEF LimiterInv, LimiterTyped
  <2>2. /\ queue' \in Seq(Limiter!Tasks) /\ Len(queue') = Len(queue) + 1 /\ queue' # <<>>
        /\ \A i \in 1..Len(queue) : queue'[i] = queue[i]
        /\ queue'[Len(queue) + 1] = t
    BY <1>5, <2>1
  <2>3. LimiterTyped' /\ SleepsForATask'
    BY <1>1, <1>5, <2>2
    DEF LimiterInv, LimiterTyped, Limiter!Statuses, SleepsForATask, Limiter!CallDrain
  <2>4. \A i \in 1..Len(queue) : queue[i] # t
    BY <1>1 DEF LimiterInv, QueueIsOfQueued
  <2>5. QueueIsOfQueued'
    <3>1. \A i \in 1..Len(queue') : i \in 1..Len(queue) \/ i = Len(queue) + 1
      BY <2>1, <2>2
    <3>2. \A i \in 1..Len(queue) : queue[i] \in Limiter!Tasks /\ status[queue[i]] = "queued"
      BY <2>1 DEF LimiterInv, QueueIsOfQueued
    <3>3. \A i \in 1..Len(queue') : status'[queue'[i]] = "queued"
      BY <1>1, <1>5, <2>2, <2>4, <3>1, <3>2
    <3>4. \A i, j \in 1..Len(queue') : i # j => queue'[i] # queue'[j]
      BY <2>2, <2>4, <3>1 DEF LimiterInv, QueueIsOfQueued
    <3> QED BY <3>3, <3>4 DEF QueueIsOfQueued
  <2> QED BY <1>3, <2>3, <2>5 DEF LimiterInv
<1> QED BY <1>4, <1>5 DEF Limiter!Schedule

(* A task is settled, and gives its place back.                             *)
LEMMA SettleAndReleaseKeep ==
  ASSUME LimiterInv, NEW t \in Limiter!Tasks, Limiter!Settle(t) \/ Limiter!Release(t)
  PROVE  LimiterInv'
<1>1. /\ status \in [Limiter!Tasks -> Limiter!Statuses] /\ status[t] \in {"running", "settled"}
      /\ status' = [status EXCEPT ![t] = status'[t]] /\ status'[t] \in {"settled", "done"}
      /\ UNCHANGED <<queue, sinceStart, sleepLeft>>
  BY DEF LimiterInv, LimiterTyped, Limiter!Settle, Limiter!Release
<1>2. Limiter!Thrown' = Limiter!Thrown
  BY <1>1 DEF Limiter!Thrown
<1>3. \A i \in 1..Len(queue) : queue[i] # t
  BY <1>1 DEF LimiterInv, QueueIsOfQueued
<1>4. QueueIsOfQueued'
  <2>1. \A i \in 1..Len(queue) : queue[i] \in Limiter!Tasks
    BY DEF LimiterInv, LimiterTyped
  <2> QED BY <1>1, <1>3, <2>1 DEF LimiterInv, QueueIsOfQueued
<1>5. CASE Limiter!Settle(t)
  <2>1. Limiter!Running' = Limiter!Running
    BY <1>1, <1>5 DEF Limiter!Running, Limiter!Settle
  <2>2. Limiter!InFlightBounded'
    BY <1>2, <1>5, <2>1 DEF LimiterInv, Limiter!InFlightBounded, Limiter!Settle
  <2> QED BY <1>1, <1>4, <1>5, <2>2 DEF LimiterInv, LimiterTyped, Limiter!Statuses,
      SleepsForATask, Limiter!Settle
<1>6. CASE Limiter!Release(t)
  <2>1. Limiter!Running' = Limiter!Running \ {t} /\ t \in Limiter!Running
    BY <1>1, <1>6 DEF Limiter!Running, Limiter!Release
  <2>2. Cardinality(Limiter!Running') = Cardinality(Limiter!Running) - 1
    BY <2>1, UnderWayIsFinite, FS_RemoveElement
  <2>3. inFlight' = inFlight - 1
    BY <1>6 DEF Limiter!Release
  <2>4. Cardinality(Limiter!Running) # 0
    BY <2>1, UnderWayIsFinite, FS_EmptySet
  <2>5. Limiter!InFlightBounded' /\ inFlight' \in Nat
    BY <1>2, <2>2, <2>3, <2>4, LimiterCardinality, UnderWayIsFinite, PartsAssumption
    DEF LimiterInv, LimiterTyped, Limiter!InFlightBounded, Limiter!LimiterAssumption
  <2>6. LimiterTyped' /\ SleepsForATask'
    BY <1>1, <1>6, <2>3, <2>5, PartsAssumption
    DEF LimiterInv, LimiterTyped, Limiter!Statuses, SleepsForATask, Limiter!Release,
      Limiter!CallDrain,
        Limiter!LimiterAssumption
  <2> QED BY <1>4, <2>5, <2>6 DEF LimiterInv
<1> QED BY <1>5, <1>6

(* The first of the queue takes a place; where the loop leaves off is the   *)
(* queue of those behind it.                                                *)
LEMMA StartNextKeeps ==
  ASSUME LimiterInv, queue # <<>>, inFlight < maxConcurrent, Limiter!StartNext, UNCHANGED sleepLeft
  PROVE  LimiterInv'
<1> DEFINE t == Head(queue)
<1>1. /\ queue \in Seq(Limiter!Tasks) /\ Len(queue) \in Nat \ {0} /\ t = queue[1] /\ t \in Limiter!Tasks
      /\ queue' \in Seq(Limiter!Tasks) /\ Len(queue') = Len(queue) - 1
      /\ \A i \in 1..Len(queue') : queue'[i] = queue[i + 1] /\ i + 1 \in 1..Len(queue)
  BY DEF LimiterInv, LimiterTyped, Limiter!StartNext
<1>2. /\ status \in [Limiter!Tasks -> Limiter!Statuses] /\ status[t] = "queued"
      /\ status' = [status EXCEPT ![t] = status'[t]] /\ status'[t] \in {"thrown", "running"}
      /\ inFlight' = inFlight + 1 /\ sinceStart' = 0 /\ drain' \in {"off", "loop"}
  BY <1>1 DEF LimiterInv, LimiterTyped, QueueIsOfQueued, Limiter!StartNext
<1>3. LimiterTyped' /\ SleepsForATask'
  BY SMTT(40), <1>1, <1>2, PartsAssumption
  DEF LimiterInv, LimiterTyped, Limiter!Statuses, SleepsForATask, Limiter!LimiterAssumption
<1>4. QueueIsOfQueued'
  <2>1. ASSUME NEW i \in 1..Len(queue')
        PROVE  queue'[i] # t /\ queue'[i] \in Limiter!Tasks /\ status[queue'[i]] = "queued"
    <3>1. /\ queue'[i] = queue[i + 1] /\ i + 1 \in 1..Len(queue) /\ 1 \in 1..Len(queue) /\ i + 1 # 1
          /\ t = queue[1]
      BY <1>1
    <3>2. queue[i + 1] # queue[1] /\ status[queue[i + 1]] = "queued" /\ queue[i + 1] \in Limiter!Tasks
      BY <1>1, <3>1 DEF LimiterInv, QueueIsOfQueued
    <3> QED BY <3>1, <3>2
  <2>2. \A i \in 1..Len(queue') : status'[queue'[i]] = "queued"
    BY <1>2, <2>1
  <2>3. \A i, j \in 1..Len(queue') : i # j => queue'[i] # queue'[j]
    BY <1>1 DEF LimiterInv, QueueIsOfQueued
  <2> QED BY <2>2, <2>3 DEF QueueIsOfQueued
<1>5. Limiter!InFlightBounded'
  <2>1. CASE status'[t] = "running"
    <3>1. Limiter!Running' = Limiter!Running \cup {t} /\ t \notin Limiter!Running /\ Limiter!Thrown' = Limiter!Thrown
      BY <1>1, <1>2, <2>1 DEF Limiter!Running, Limiter!Thrown
    <3>2. Cardinality(Limiter!Running') = Cardinality(Limiter!Running) + 1
      BY <3>1, UnderWayIsFinite, FS_AddElement
    <3> QED BY <1>2, <3>1, <3>2, LimiterCardinality, UnderWayIsFinite, PartsAssumption
        DEF LimiterInv, LimiterTyped, Limiter!InFlightBounded, Limiter!LimiterAssumption
  <2>2. CASE status'[t] = "thrown"
    <3>1. Limiter!Thrown' = Limiter!Thrown \cup {t} /\ t \notin Limiter!Thrown /\ Limiter!Running' = Limiter!Running
      BY <1>1, <1>2, <2>2 DEF Limiter!Running, Limiter!Thrown
    <3>2. Cardinality(Limiter!Thrown') = Cardinality(Limiter!Thrown) + 1
      BY <3>1, UnderWayIsFinite, FS_AddElement
    <3> QED BY <1>2, <3>1, <3>2, LimiterCardinality, UnderWayIsFinite, PartsAssumption
        DEF LimiterInv, LimiterTyped, Limiter!InFlightBounded, Limiter!LimiterAssumption
  <2> QED BY <1>2, <2>1, <2>2
<1> QED BY <1>3, <1>4, <1>5 DEF LimiterInv

(* Whatever the drain and its timers do, writes start in the order of the   *)
(* queue and a pace apart.                                                  *)
LEMMA DrainKeeps ==
  ASSUME LimiterInv, Limiter!LimiterStep \/ Limiter!Tick
  PROVE  LimiterInv'
<1>1. CASE (Limiter!DrainLoop \/ Limiter!DrainWakes) /\ Limiter!StartNext /\ UNCHANGED sleepLeft
  <2>1. queue # <<>> /\ inFlight < maxConcurrent
    <3>1. CASE drain = "loop"
      BY <1>1, <3>1
      DEF Limiter!DrainLoop, Limiter!DrainWakes, Limiter!MayStart, Limiter!StartNext,
        LimiterInv, LimiterTyped
    <3>2. CASE drain = "sleeping"
      BY <3>2 DEF LimiterInv, SleepsForATask
    <3> QED BY <1>1, <3>1, <3>2 DEF Limiter!DrainLoop, Limiter!DrainWakes
  <2> QED BY <1>1, <2>1, StartNextKeeps
<1>2. CASE /\ UNCHANGED <<queue, status, inFlight>> /\ sinceStart' \in 0..minIntervalMs /\ sleepLeft' \in Nat
           /\ drain' \in {"off", "loop", "sleeping"} /\ SleepsForATask'
  <2>1. LimiterTyped' /\ QueueIsOfQueued' /\ Limiter!InFlightBounded'
    BY <1>2 DEF LimiterInv, LimiterTyped, QueueIsOfQueued, Limiter!InFlightBounded,
      Limiter!Running, Limiter!Thrown
  <2> QED BY <1>2, <2>1 DEF LimiterInv
<1>3. ASSUME Limiter!DrainLoop, ~(Limiter!StartNext /\ UNCHANGED sleepLeft)
      PROVE  /\ UNCHANGED <<queue, status, inFlight>> /\ sinceStart' \in 0..minIntervalMs /\ sleepLeft' \in Nat
             /\ drain' \in {"off", "loop", "sleeping"} /\ SleepsForATask'
  BY <1>3, PartsAssumption DEF Limiter!DrainLoop, Limiter!MayStart, Limiter!Wait, LimiterInv,
    LimiterTyped, SleepsForATask, Limiter!LimiterAssumption
<1>4. ASSUME Limiter!DrainWakes, ~(Limiter!StartNext /\ UNCHANGED sleepLeft)
      PROVE  /\ UNCHANGED <<queue, status, inFlight>> /\ sinceStart' \in 0..minIntervalMs /\ sleepLeft' \in Nat
             /\ drain' \in {"off", "loop", "sleeping"} /\ SleepsForATask'
  BY <1>4 DEF Limiter!DrainWakes, LimiterInv, LimiterTyped, SleepsForATask
<1>5. ASSUME Limiter!Tick
      PROVE  /\ UNCHANGED <<queue, status, inFlight>> /\ sinceStart' \in 0..minIntervalMs /\ sleepLeft' \in Nat
             /\ drain' \in {"off", "loop", "sleeping"} /\ SleepsForATask'
  BY <1>5, PartsAssumption DEF Limiter!Tick, LimiterInv, LimiterTyped, SleepsForATask,
    Limiter!LimiterAssumption
<1> QED BY <1>1, <1>2, <1>3, <1>4, <1>5 DEF Limiter!LimiterStep

(* Every step keeps the invariant of the limiter, as do the other keepers.  *)
LEMMA LimiterKeeps ==
  ASSUME LimiterInv, [KeepersNext]_keeperVars
  PROVE  LimiterInv'
<1>1. CASE UNCHANGED limiterVars
  BY <1>1 DEF limiterVars, LimiterInv, LimiterTyped, QueueIsOfQueued, SleepsForATask,
    Limiter!InFlightBounded,
     Limiter!Running, Limiter!Thrown
<1>2. CASE Limiter!Next
  BY <1>2, ScheduleKeeps, SettleAndReleaseKeep, DrainKeeps DEF Limiter!Next
<1> QED BY <1>1, <1>2, OnePart

(* Writes start in the order they were submitted, at least minIntervalMs    *)
(* apart (rateLimiter.ts, drain).                                           *)
THEOREM WritesArePaced == KeepersSpec => PacedInOrder
<1> DEFINE Paced ==
      \A t \in Limiter!Tasks : status[t] = "queued" /\ status'[t] # "queued"
        => t = Head(queue) /\ sinceStart = minIntervalMs
<1>1. KeepersInit => LimiterInv
  BY LimiterStarts DEF KeepersInit
<1>2. LimiterInv /\ [KeepersNext]_keeperVars => LimiterInv'
  BY LimiterKeeps
<1>3. LimiterInv /\ [KeepersNext]_keeperVars => [Paced]_(Limiter!vars)
  <2> SUFFICES ASSUME LimiterInv, Limiter!Next, NEW t \in Limiter!Tasks, status[t] = "queued", status'[t] # "queued"
               PROVE  t = Head(queue) /\ sinceStart = minIntervalMs
    BY OnePart DEF limiterVars, Limiter!vars
  <2>1. status \in [Limiter!Tasks -> Limiter!Statuses]
    BY DEF LimiterInv, LimiterTyped
  <2>2. ASSUME NEW s \in Limiter!Tasks PROVE ~Limiter!Schedule(s) /\ ~Limiter!Settle(s) /\ ~Limiter!Release(s)
    BY <2>1 DEF Limiter!Schedule, Limiter!Settle, Limiter!Release
  <2>3. Limiter!LimiterStep /\ Limiter!StartNext
    BY <2>2 DEF Limiter!Next, Limiter!LimiterStep, Limiter!DrainLoop, Limiter!DrainWakes,
      Limiter!Tick
  <2>4. t = Head(queue)
    BY <2>1, <2>3 DEF Limiter!StartNext
  <2>5. sinceStart \in 0..minIntervalMs /\ sleepLeft \in Nat /\ minIntervalMs \in Nat
    BY PartsAssumption DEF LimiterInv, LimiterTyped, Limiter!LimiterAssumption
  <2>6. CASE Limiter!DrainWakes
    BY <2>4, <2>5, <2>6 DEF LimiterInv, SleepsForATask, Limiter!DrainWakes
  <2>7. CASE Limiter!DrainLoop
    <3>1. Limiter!Wait <= 0
      BY <2>7, <2>2 DEF Limiter!DrainLoop
    <3> QED BY <2>4, <2>5, <3>1 DEF Limiter!Wait
  <2> QED BY <2>3, <2>4, <2>6, <2>7 DEF Limiter!LimiterStep
<1> QED BY <1>1, <1>2, <1>3, PTL DEF KeepersSpec, PacedInOrder, Limiter!PacedInOrder

-----------------------------------------------------------------------------
(* The backoff: a task starts when the wait in memory is over, and memory   *)
(* holds what the store does once nothing is being loaded.                  *)

States == [failures : Int, wait : Int]

BackoffInv ==
  /\ failures \in Int /\ wait \in Int
  /\ tick \in [Ticks -> {"idle", "loading", "running", "saving"}]
  /\ saving \in [Ticks -> States] /\ stored \in States

(* The backoff starts without a failure to wait for.                        *)
LEMMA BackoffStarts ==
  ASSUME Backoff!Init
  PROVE  BackoffInv
<1>1. Backoff!Never \in Int
  BY PartsAssumption DEF Backoff!Never, Backoff!PolicyAssumption
<1>2. Backoff!Empty \in States /\ Backoff!NoState \in States
  BY <1>1 DEF Backoff!Empty, Backoff!NoState, States
<1> QED BY <1>1, <1>2 DEF Backoff!Init, BackoffInv

(* Delays and waits are whole numbers.                                      *)
LEMMA WaitsAreIntegers ==
  /\ Backoff!Never \in Int /\ maxMs \in Int /\ MaxFailures \in Int
  /\ \A n \in Int : Backoff!Delays(n) \subseteq Int
  /\ \A w \in Int : Backoff!Plausible(w) \in Int
  /\ \A w \in Int : Backoff!Moved(w, 1) \in Int /\ Backoff!Moved(w, -1) \in Int
  /\ \A a, b \in Int : Backoff!Least(a, b) \in Int
<1>1. Backoff!Never \in Int /\ maxMs \in Int /\ MaxFailures \in Int
  BY PartsAssumption DEF Backoff!Never, Backoff!PolicyAssumption
<1>2. \A a, b \in Int : Backoff!Least(a, b) \in Int
  BY DEF Backoff!Least
<1>3. ASSUME NEW n \in Int PROVE Backoff!Delays(n) \subseteq Int
  <2>1. CASE n < startAfterFailures
    BY <1>1, <2>1 DEF Backoff!Delays
  <2>2. CASE ~(n < startAfterFailures)
    <3>1. Backoff!Delays(n) \subseteq 1..Backoff!RawDelay(n)
      BY <2>2 DEF Backoff!Delays
    <3>2. \A d \in 1..Backoff!RawDelay(n) : d \in Int
      OBVIOUS
    <3> QED BY <3>1, <3>2
  <2> QED BY <2>1, <2>2
<1>4. \A w \in Int : Backoff!Plausible(w) \in Int
  BY <1>1, <1>2 DEF Backoff!Plausible
<1>5. \A w \in Int : Backoff!Moved(w, 1) \in Int /\ Backoff!Moved(w, -1) \in Int
  BY <1>1 DEF Backoff!Moved
<1> QED BY <1>1, <1>2, <1>3, <1>4, <1>5

(* Ticks, crashes, failures of the store and the clock keep the backoff's   *)
(* invariant.                                                               *)
LEMMA BackoffKeeps ==
  ASSUME BackoffInv, Backoff!Next
  PROVE  BackoffInv'
<1>1. Backoff!Empty \in States /\ Backoff!Never \in Int
  BY WaitsAreIntegers DEF Backoff!Empty, States
<1>2. ASSUME NEW t \in Ticks, Backoff!TickStep(t) PROVE BackoffInv'
  <2>1. CASE Backoff!BeginTick(t)
    BY <2>1 DEF BackoffInv, Backoff!BeginTick, Backoff!SkipOrRun, Backoff!memory
  <2>2. CASE Backoff!Load(t)
    <3>1. failures' \in Int /\ wait' \in Int /\ UNCHANGED <<saving, stored>>
      BY <2>2, WaitsAreIntegers DEF BackoffInv, Backoff!Load, Backoff!memory, States
    <3> QED BY <2>2, <3>1 DEF BackoffInv, Backoff!Load, Backoff!SkipOrRun
  <2>3. CASE Backoff!TaskSucceeds(t)
    <3>1. failures' \in Int /\ wait' \in Int /\ UNCHANGED stored
      BY <1>1, <2>3 DEF BackoffInv, Backoff!TaskSucceeds, Backoff!memory
    <3> QED BY <2>3, <3>1 DEF BackoffInv, Backoff!TaskSucceeds, Backoff!Save, States
  <2>4. CASE Backoff!TaskFails(t)
    <3>1. failures' \in Int /\ UNCHANGED stored
      BY <2>4, WaitsAreIntegers DEF BackoffInv, Backoff!TaskFails
    <3>2. wait' \in Int
      <4>1. failures + 1 \in Int /\ wait' \in Backoff!Delays(failures + 1)
        BY <2>4 DEF BackoffInv, Backoff!TaskFails
      <4> QED BY <4>1, WaitsAreIntegers
    <3> QED BY <2>4, <3>1, <3>2 DEF BackoffInv, Backoff!TaskFails, Backoff!Save, States
  <2>5. CASE Backoff!Persist(t)
    BY <1>1, <2>5 DEF BackoffInv, Backoff!Persist, Backoff!memory
  <2> QED BY <1>2, <2>1, <2>2, <2>3, <2>4, <2>5 DEF Backoff!TickStep
<1>3. ASSUME NEW t \in Ticks, Backoff!LoadFails(t) PROVE BackoffInv'
  BY <1>3 DEF BackoffInv, Backoff!LoadFails, Backoff!SkipOrRun, Backoff!memory
<1>4. ASSUME NEW t \in Ticks, Backoff!PersistFails(t) PROVE BackoffInv'
  BY <1>1, <1>4 DEF BackoffInv, Backoff!PersistFails, Backoff!memory
<1>5. CASE Backoff!Crash \/ Backoff!Restart
  BY <1>1, <1>5 DEF BackoffInv, Backoff!Crash, Backoff!Restart, Backoff!memory
<1>6. ASSUME NEW d \in {1, -1}, Backoff!ClockMoves(d) PROVE BackoffInv'
  <2>1. wait' \in Int /\ UNCHANGED <<failures, tick>>
    BY <1>6, WaitsAreIntegers DEF BackoffInv, Backoff!ClockMoves
  <2>2. stored' \in States
    BY <1>6, WaitsAreIntegers DEF BackoffInv, Backoff!ClockMoves, States
  <2>3. ASSUME NEW t \in Ticks PROVE [saving[t] EXCEPT !.wait = Backoff!Moved(saving[t].wait, d)] \in States
    BY WaitsAreIntegers DEF BackoffInv, States
  <2>4. saving' \in [Ticks -> States]
    BY <1>6, <2>3 DEF Backoff!ClockMoves
  <2> QED BY <2>1, <2>2, <2>4 DEF BackoffInv
<1>7. CASE Backoff!Tick \/ Backoff!ClockBack
  BY <1>6, <1>7 DEF Backoff!Tick, Backoff!ClockBack
<1> QED BY <1>2, <1>3, <1>4, <1>5, <1>7 DEF Backoff!Next

(* No task is started before the wait the last failure asked for is over    *)
(* (keeperBackoff.ts, tick), whoever asked and whatever happened since.     *)
THEOREM WaitsAreRespected == KeepersSpec => WaitRespected
<1> DEFINE Respected ==
      \A t \in Ticks : Backoff!Starting(t) /\ ~Backoff!Loading => Backoff!Owed <= 0
<1>1. KeepersInit => BackoffInv
  BY BackoffStarts DEF KeepersInit
<1>2. BackoffInv /\ [KeepersNext]_keeperVars => BackoffInv'
  <2>1. BackoffInv /\ UNCHANGED backoffVars => BackoffInv'
    BY DEF BackoffInv, backoffVars
  <2> QED BY <2>1, BackoffKeeps, OnePart
<1>3. BackoffInv /\ [KeepersNext]_keeperVars => [Respected]_(Backoff!vars)
  <2> SUFFICES ASSUME BackoffInv, [KeepersNext]_keeperVars, NEW t \in Ticks, Backoff!Starting(t), ~Backoff!Loading
               PROVE  Backoff!Owed <= 0
    OBVIOUS
  <2>1. /\ tick \in [Ticks -> {"idle", "loading", "running", "saving"}] /\ wait \in Int
        /\ tick[t] # "running" /\ tick'[t] = "running" /\ \A s \in Ticks : tick[s] # "loading"
    BY DEF BackoffInv, Backoff!Starting, Backoff!Loading
  <2>2. Backoff!Next
    BY <2>1, OnePart DEF backoffVars
  <2>3. Backoff!BeginTick(t)
    <3>1. ~Backoff!Crash /\ ~Backoff!Restart /\ ~Backoff!Tick /\ ~Backoff!ClockBack
      BY <2>1 DEF Backoff!Crash, Backoff!Restart, Backoff!Tick, Backoff!ClockBack,
        Backoff!ClockMoves
    <3>2. ASSUME NEW s \in Ticks
          PROVE  ~Backoff!LoadFails(s) /\ ~Backoff!Load(s) /\ ~Backoff!PersistFails(s) /\ ~Backoff!Persist(s)
                 /\ ~Backoff!TaskSucceeds(s) /\ ~Backoff!TaskFails(s)
      BY <2>1 DEF Backoff!LoadFails, Backoff!Load, Backoff!PersistFails, Backoff!Persist,
        Backoff!TaskSucceeds,
         Backoff!TaskFails, Backoff!Save
    <3>3. ASSUME NEW s \in Ticks, Backoff!BeginTick(s) PROVE s = t
      BY <2>1, <3>3 DEF Backoff!BeginTick, Backoff!SkipOrRun
    <3> QED BY <2>2, <3>1, <3>2, <3>3 DEF Backoff!Next, Backoff!TickStep
  <2>4. loaded /\ wait <= 0
    BY <2>1, <2>3 DEF Backoff!BeginTick, Backoff!SkipOrRun
  <2> QED BY <2>4 DEF Backoff!Owed
<1> QED BY <1>1, <1>2, <1>3, PTL DEF KeepersSpec, WaitRespected, Backoff!WaitRespected

-----------------------------------------------------------------------------
(* The harvest bot. Between two harvests, as long as nothing excuses it, at *)
(* most one check is under way, the time of the harvest before is known to  *)
(* the bot or about to be, and a check that goes on has waited from it.     *)

Active(c) == checks[c] # "idle"

Books ==
  /\ performance \in [harvestCount : Nat, errors : Nat] /\ totalHarvests \in Nat
  /\ ~tooEarly /\ Harvester!ReportAddsUp

HarvestTimes ==
  /\ now \in Int /\ lastHarvest \in Int /\ last_harvest \in Int /\ last_harvest <= now
  /\ checks \in [Checks -> {"idle", "paused", "metrics", "harvest", "confirmed"}]

Spaced ==
  excuses = {} =>
    /\ \A c, d \in Checks : Active(c) /\ Active(d) => c = d
    /\ last_harvest # 0 =>
         /\ lastHarvest >= last_harvest \/ \E c \in Checks : checks[c] = "confirmed"
         /\ \A c \in Checks : checks[c] \in {"metrics", "harvest"} => now - last_harvest >= harvestCooldown

HarvesterInv == Books /\ HarvestTimes /\ Spaced

(* The distance to a time that is past grows.                               *)
LEMMA LaterIsFurther ==
  ASSUME NEW t \in Int, NEW later \in Int, NEW past \in Int, NEW d \in Int,
         t - past >= d, later >= t
  PROVE  later - past >= d
  OBVIOUS

(* The bot starts with its books empty, and nothing harvested.              *)
LEMMA HarvesterStarts ==
  ASSUME KeepersInit
  PROVE  Books /\ (part = "harvester" => HarvesterInv)
<1>1. Books
  BY DEF KeepersInit, Books, Harvester!ReportAddsUp
<1>2. part = "harvester" => now = harvestCooldown
  BY DEF KeepersInit
<1>3. part = "harvester" => HarvestTimes
  BY <1>2, PartsAssumption DEF KeepersInit, HarvestTimes, Harvester!HarvesterAssumption
<1>4. Spaced
  BY DEF KeepersInit, Spaced, Active
<1> QED BY <1>1, <1>3, <1>4 DEF HarvesterInv

(* A check that begins while another is under way is an excuse.             *)
LEMMA OverlapExcuses ==
  ASSUME NEW c \in Checks
  PROVE  Harvester!Overlapping(c) = {} <=> \A d \in Checks : Active(d) => d = c
  BY DEF Harvester!Overlapping, Active

(* Every step of the harvest bot keeps its books and its cooldown.          *)
LEMMA HarvesterKeeps ==
  ASSUME HarvesterInv, Harvester!Next
  PROVE  HarvesterInv'
<1> USE DEF HarvesterInv
<1>1. CASE Harvester!Tick \/ Harvester!StartOrStop
  <2>1. now' \in {now, now + 1} /\ UNCHANGED <<lastHarvest, checks, performance, totalHarvests, last_harvest, tooEarly, excuses>>
    BY <1>1 DEF Harvester!Tick, Harvester!StartOrStop, HarvestTimes
  <2>2. Books' /\ HarvestTimes'
    BY <2>1 DEF Books, HarvestTimes, Harvester!ReportAddsUp
  <2>3. ASSUME excuses = {}, last_harvest # 0, NEW c \in Checks, checks[c] \in {"metrics", "harvest"}
        PROVE  now' - last_harvest >= harvestCooldown
    <3>1. now - last_harvest >= harvestCooldown
      BY <2>3 DEF Spaced
    <3>2. /\ now \in Int /\ last_harvest \in Int /\ harvestCooldown \in Int
          /\ now' \in Int /\ now' >= now
      BY <2>1, PartsAssumption DEF HarvestTimes, Harvester!HarvesterAssumption
    <3> QED BY <3>1, <3>2, LaterIsFurther
  <2>4. Spaced'
    BY <2>1, <2>3 DEF Spaced, Active
  <2> QED BY <2>2, <2>4
<1>2. CASE Harvester!Restart
  <2>1. Books'
    BY <1>2 DEF Harvester!Restart, Books, Harvester!ReportAddsUp
  <2>2. HarvestTimes'
    BY <1>2 DEF Harvester!Restart, HarvestTimes
  <2>3. Spaced'
    BY <1>2 DEF Harvester!Restart, Spaced
  <2> QED BY <2>1, <2>2, <2>3
<1>3. ASSUME NEW c \in Checks, Harvester!CheckStep(c)
      PROVE  HarvesterInv'
  <2>1. CASE Harvester!performHarvestCheck(c)
    <3>1. /\ checks' = [checks EXCEPT ![c] = "paused"] /\ checks[c] = "idle"
          /\ UNCHANGED <<now, lastHarvest, performance, totalHarvests, last_harvest, tooEarly>>
          /\ excuses' = {} => excuses = {} /\ \A d \in Checks : ~Active(d)
      BY <2>1, OverlapExcuses DEF Harvester!performHarvestCheck, Harvester!Begins, Active
    <3>2. Books' /\ HarvestTimes'
      BY <3>1 DEF Books, HarvestTimes, Harvester!ReportAddsUp
    <3>3. Spaced'
      BY <3>1 DEF HarvestTimes, Spaced, Active
    <3> QED BY <3>2, <3>3
  <2>2. CASE Harvester!forceHarvest(c)
    <3>1. Books'
      BY <2>2 DEF Harvester!forceHarvest, Books, Harvester!ReportAddsUp
    <3>2. HarvestTimes'
      BY <2>2 DEF Harvester!forceHarvest, Harvester!Begins, HarvestTimes
    <3> QED BY <2>2, <3>1, <3>2 DEF Harvester!forceHarvest, Spaced
  <2>3. CASE Harvester!PausedAnswered(c)
    <3> DEFINE to == checks'[c]
    <3>1. /\ checks' = [checks EXCEPT ![c] = to] /\ checks[c] = "paused" /\ to \in {"idle", "metrics"}
          /\ to = "metrics" => now - lastHarvest >= harvestCooldown
          /\ UNCHANGED <<now, lastHarvest, performance, totalHarvests, last_harvest, tooEarly, excuses>>
      BY <2>3, PartsAssumption
      DEF Harvester!PausedAnswered, Harvester!InCooldown, HarvestTimes,
        Harvester!HarvesterAssumption
    <3> HIDE DEF to
    <3>2. Books' /\ HarvestTimes'
      BY <3>1 DEF Books, HarvestTimes, Harvester!ReportAddsUp
    <3>3. ASSUME excuses = {}
          PROVE  /\ \A d, e \in Checks : Active(d)' /\ Active(e)' => d = e
                 /\ \A d \in Checks : d # c => checks[d] = "idle"
      BY <3>1, <3>3 DEF HarvestTimes, Spaced, Active
    <3>4. ASSUME excuses = {}, last_harvest # 0
          PROVE  /\ lastHarvest >= last_harvest
                 /\ \A d \in Checks : checks'[d] \in {"metrics", "harvest"} => now - last_harvest >= harvestCooldown
      <4>1. lastHarvest >= last_harvest
        BY <3>1, <3>3, <3>4 DEF Spaced
      <4>2. \A d \in Checks : checks'[d] \in {"metrics", "harvest"} => d = c /\ to = "metrics"
        BY <3>1, <3>3, <3>4 DEF HarvestTimes
      <4> QED BY <3>1, <4>1, <4>2, PartsAssumption DEF HarvestTimes, Harvester!HarvesterAssumption
    <3>5. Spaced'
      BY <3>1, <3>3, <3>4 DEF Spaced
    <3> QED BY <3>2, <3>5
  <2>4. CASE Harvester!MetricsAnswered(c)
    <3>1. PICK to \in {"idle", "harvest"} :
            /\ checks' = [checks EXCEPT ![c] = to] /\ checks[c] = "metrics"
            /\ UNCHANGED <<now, lastHarvest, performance, totalHarvests, last_harvest, tooEarly, excuses>>
      BY <2>4 DEF Harvester!MetricsAnswered
    <3>2. Books' /\ HarvestTimes'
      BY <3>1 DEF Books, HarvestTimes, Harvester!ReportAddsUp
    <3>3. Spaced'
      BY <3>1 DEF HarvestTimes, Spaced, Active
    <3> QED BY <3>2, <3>3
  <2>5. CASE Harvester!InEffect(c)
    <3>1. /\ checks' = [checks EXCEPT ![c] = "confirmed"] /\ checks[c] = "harvest"
          /\ last_harvest' = now /\ UNCHANGED <<now, lastHarvest, performance, totalHarvests>>
          /\ excuses' = {} => \A d \in Checks : Active(d) => d = c
      BY <2>5, OverlapExcuses DEF Harvester!InEffect
    <3>2. ~tooEarly'
      <4>1. excuses = {} /\ last_harvest # 0 => now - last_harvest >= harvestCooldown
        BY <3>1 DEF Spaced
      <4>2. now \in Int /\ last_harvest \in Int /\ harvestCooldown \in Int
        BY PartsAssumption DEF HarvestTimes, Harvester!HarvesterAssumption
      <4>3. ~(last_harvest # 0 /\ now - last_harvest < harvestCooldown /\ excuses = {})
        BY <4>1, <4>2
      <4>4. tooEarly' = (tooEarly \/ (last_harvest # 0 /\ now - last_harvest < harvestCooldown /\ excuses = {}))
        BY <2>5 DEF Harvester!InEffect
      <4>5. ~tooEarly
        BY DEF Books
      <4> QED BY <4>3, <4>4, <4>5
    <3>3. Books' /\ HarvestTimes'
      BY <3>1, <3>2 DEF Books, HarvestTimes, Harvester!ReportAddsUp
    <3>4. Spaced'
      BY <3>1 DEF HarvestTimes, Spaced, Active
    <3> QED BY <3>3, <3>4
  <2>6. CASE Harvester!Succeeded(c)
    <3>1. /\ checks' = [checks EXCEPT ![c] = "idle"] /\ checks[c] = "confirmed"
          /\ lastHarvest' = now /\ UNCHANGED <<now, last_harvest, tooEarly, excuses>>
      BY <2>6 DEF Harvester!Succeeded
    <3>2. Books'
      BY <2>6 DEF Harvester!Succeeded, Books, Harvester!ReportAddsUp
    <3>3. HarvestTimes'
      BY <3>1 DEF HarvestTimes
    <3>4. Spaced'
      BY <3>1 DEF HarvestTimes, Spaced, Active
    <3> QED BY <3>2, <3>3, <3>4
  <2>7. CASE Harvester!Refused(c) \/ Harvester!Throws(c)
    <3>1. /\ checks' = [checks EXCEPT ![c] = "idle"] /\ checks[c] \in {"paused", "metrics", "harvest"}
          /\ UNCHANGED <<now, lastHarvest, last_harvest, tooEarly, excuses, totalHarvests>> /\ Harvester!Failed
      BY <2>7 DEF Harvester!Refused, Harvester!Throws
    <3>2. Books'
      BY <3>1 DEF Harvester!Failed, Books, Harvester!ReportAddsUp
    <3>3. HarvestTimes'
      BY <3>1 DEF HarvestTimes
    <3>4. Spaced'
      BY <3>1 DEF HarvestTimes, Spaced, Active
    <3> QED BY <3>2, <3>3, <3>4
  <2>8. CASE Harvester!ThrowsInEffect(c)
    <3>1. Books' /\ HarvestTimes'
      BY <2>8 DEF Harvester!ThrowsInEffect, Harvester!Failed, Books, HarvestTimes,
        Harvester!ReportAddsUp
    <3> QED BY <2>8, <3>1 DEF Harvester!ThrowsInEffect, Spaced
  <2> QED BY <1>3, <2>1, <2>2, <2>3, <2>4, <2>5, <2>6, <2>7, <2>8 DEF Harvester!CheckStep
<1> QED BY <1>1, <1>2, <1>3 DEF Harvester!Next

(* The bot of every behaviour of the keepers.                               *)
HarvesterHolds == Books /\ (part = "harvester" => HarvesterInv)

(* So does every step of the keepers, whichever keeper it is of.            *)
LEMMA HarvesterHoldsAlways ==
  ASSUME HarvesterHolds, [KeepersNext]_keeperVars
  PROVE  HarvesterHolds'
<1>1. CASE part = "harvester" /\ Harvester!Next
  BY <1>1, OnePart, HarvesterKeeps DEF HarvesterHolds, HarvesterInv
<1>2. CASE part = "harvester" /\ UNCHANGED <<now, harvesterVars>>
  BY <1>2, OnePart DEF HarvesterHolds, HarvesterInv, harvesterVars, Books, HarvestTimes, Spaced,
    Active,
     Harvester!ReportAddsUp
<1>3. CASE part # "harvester"
  BY <1>3, OnePart DEF HarvesterHolds, harvesterVars, Books, Harvester!ReportAddsUp
<1> QED BY <1>1, <1>2, <1>3, OnePart

-----------------------------------------------------------------------------
(* The scanner: what is found was worked out from one rate, one amount and  *)
(* one cost, and sorting changes none of it.                                *)

Metrics == [pool : Pools, apy : Apys, il : Risks, parsed : Int]

Opportunities ==
  [pool_id : Pools, il_risk : Risks, apy_delta : Nat, gross_profit : Int, round_trip_cost : Nat,
   investment_amount : Amounts, net_profit : Int, recommended : BOOLEAN]

(* The profits are those of the rate.                                       *)
WorkedOut(o) ==
  /\ o.gross_profit = (o.investment_amount * o.apy_delta) \div Bp
  /\ o.net_profit = o.gross_profit - o.round_trip_cost

GoodOpportunities == {o \in Opportunities : WorkedOut(o)}

MetricSets == {M \in SUBSET Metrics : IsFiniteSet(M)}

Steps == {"idle", "fetch", "parse", "find", "found"}

ScanStates ==
  [step : Steps, began : Int, left : SUBSET Pools, metrics : MetricSets,
   found : Seq(GoodOpportunities)]

ScannerInv == scan \in [Scans -> ScanStates] /\ poolCache \in MetricSets

(* A scan that has not begun is one, and so is an empty set of metrics.     *)
LEMMA NoScanIsOne == Scanner!NoScan \in ScanStates /\ {} \in MetricSets
<1>1. {} \in MetricSets
  BY FS_EmptySet DEF MetricSets
<1>2. <<>> \in Seq(GoodOpportunities)
  OBVIOUS
<1>3. ASSUME NEW F, NEW f \in F, NEW M, NEW m \in M
      PROVE  [step |-> "idle", began |-> 0, left |-> {}, metrics |-> m, found |-> f]
               \in [step : Steps, began : Int, left : SUBSET Pools, metrics : M, found : F]
  BY DEF Steps
<1> QED BY <1>1, <1>2, <1>3 DEF Scanner!NoScan, ScanStates

(* Where a metric was parsed from a pool, with a volatility.                *)
LEMMA AddedMetricKeeps ==
  ASSUME NEW M \in MetricSets, NEW m \in Metrics
  PROVE  /\ M \cup {m} \in MetricSets
         /\ \A P \in SUBSET M : P \cup {m} \in MetricSets
<1>1. IsFiniteSet(M)
  BY DEF MetricSets
<1>2. ASSUME NEW P \in SUBSET M PROVE P \cup {m} \in MetricSets
  <2>1. IsFiniteSet(P)
    BY <1>1, FS_Subset
  <2>2. IsFiniteSet(P \cup {m})
    BY <2>1, FS_AddElement
  <2> QED BY <2>2 DEF MetricSets
<1>3. M \cup {m} \in MetricSets
  BY <1>2
<1> QED BY <1>2, <1>3

(* Sorting arranges what there is.                                          *)
LEMMA ArrangedIsOfTheSame ==
  ASSUME NEW S, IsFiniteSet(S), NEW q \in Scanner!SetToSeqs(S)
  PROVE  q \in Seq(S)
<1>1. q \in [1..Scanner!Cardinality(S) -> S]
  BY DEF Scanner!SetToSeqs
<1>2. Scanner!Cardinality(S) = Cardinality(S) /\ Cardinality(S) \in Nat
  BY FS_CardinalityType DEF Scanner!Cardinality, Cardinality
<1> QED BY <1>1, <1>2

(* What a metric makes, of an amount and a cost that were worthwhile.       *)
LEMMA OpportunityIsGood ==
  ASSUME NEW m \in Metrics, NEW amount \in Amounts, NEW cost \in Costs \cup {-1}, NEW min, NEW maxIl,
         Scanner!Worthwhile(m, amount, cost, min, maxIl)
  PROVE  Scanner!Opportunity(m, amount, cost, min) \in GoodOpportunities
<1> DEFINE delta == Scanner!Larger(0, m.apy - VaultApy)
           gross == (amount * delta) \div Bp
<1>0. /\ Apys \subseteq Int /\ Costs \subseteq Nat /\ Amounts \subseteq Nat \ {0}
      /\ VaultApy \in Int /\ Bp \in Nat \ {0}
  BY PartsAssumption DEF Scanner!ScannerAssumption
<1>1. /\ m.pool \in Pools /\ m.il \in Risks /\ m.apy \in Int /\ VaultApy \in Int
      /\ amount \in Nat \ {0} /\ Bp \in Nat \ {0} /\ cost \in Int
  <2>1. m.pool \in Pools /\ m.il \in Risks /\ m.apy \in Apys
    BY DEF Metrics
  <2>2. cost \in Costs \/ cost = -1
    OBVIOUS
  <2>3. m.apy \in Int
    BY <1>0, <2>1
  <2>4. amount \in Nat \ {0}
    BY <1>0
  <2>5. cost \in Int
    BY <1>0, <2>2
  <2> QED BY <1>0, <2>1, <2>3, <2>4, <2>5
<1>2. delta \in Nat
  BY <1>1 DEF Scanner!Larger
<1>3. gross \in Int
  <2>1. amount * delta \in Int
    BY <1>1, <1>2
  <2> HIDE DEF delta
  <2> QED BY <1>1, <2>1
<1>4. cost \in Nat
  BY <1>1 DEF Scanner!Worthwhile
<1> HIDE DEF delta, gross
<1>5. Scanner!Opportunity(m, amount, cost, min) =
        [pool_id |-> m.pool, il_risk |-> m.il, apy_delta |-> delta, gross_profit |-> gross,
         round_trip_cost |-> cost, investment_amount |-> amount, net_profit |-> gross - cost,
         recommended |-> ((gross - cost) * Bp) \div amount >= min * 2]
  BY DEF Scanner!Opportunity, delta, gross
<1> DEFINE good == ((gross - cost) * Bp) \div amount >= min * 2
<1>6. good \in BOOLEAN
  OBVIOUS
<1> HIDE DEF good
<1>7. Scanner!Opportunity(m, amount, cost, min) \in Opportunities
  BY <1>1, <1>2, <1>3, <1>4, <1>5, <1>6 DEF Opportunities, good
<1>8. WorkedOut(Scanner!Opportunity(m, amount, cost, min))
  BY <1>5 DEF WorkedOut, gross
<1> QED BY <1>7, <1>8 DEF GoodOpportunities

(* A step of a scan changes the state of that scan.                         *)
LEMMA ScanChanges ==
  ASSUME ScannerInv, NEW s \in Scans, NEW r \in ScanStates, scan' = [scan EXCEPT ![s] = r],
         poolCache' \in MetricSets
  PROVE  ScannerInv'
  BY DEF ScannerInv

(* Every step of a scan keeps what was found and ranked within the          *)
(* criteria.                                                                *)
LEMMA ScannerKeeps ==
  ASSUME ScannerInv, now \in Int, Scanner!Next
  PROVE  ScannerInv' /\ now' \in Int
<1> USE DEF ScannerInv
<1>1. now' \in Int
  <2>1. CASE Scanner!Tick
    BY <2>1 DEF Scanner!Tick
  <2>2. ASSUME NEW s \in Scans,
               \/ Scanner!BeginScan(s) \/ Scanner!FetchPools(s) \/ Scanner!ParsePool(s) \/ Scanner!ScanEnds(s)
               \/ Scanner!findOpportunities(s) \/ Scanner!rankOpportunities(s) \/ Scanner!Done(s)
        PROVE  now' = now
    <3>1. ~Scanner!rankOpportunities(s) => now' = now
      BY <2>2 DEF Scanner!BeginScan, Scanner!FetchPools, Scanner!ParsePool, Scanner!ScanEnds,
         Scanner!findOpportunities, Scanner!Done
    <3>2. Scanner!rankOpportunities(s) => now' = now
      BY Zenon DEF Scanner!rankOpportunities
    <3> QED BY <3>1, <3>2
  <2> QED BY <2>1, <2>2 DEF Scanner!Next
<1>2. CASE Scanner!Tick
  BY <1>1, <1>2 DEF Scanner!Tick
<1>3. ASSUME NEW s \in Scans, NEW step \in Steps, NEW M \in MetricSets,
             scan' = [scan EXCEPT ![s].step = step, ![s].metrics = M], UNCHANGED poolCache
      PROVE  ScannerInv'
  <2> DEFINE r == [scan[s] EXCEPT !.step = step, !.metrics = M]
  <2>1. r \in ScanStates
    BY DEF ScanStates
  <2>2. scan' = [scan EXCEPT ![s] = r]
    BY <1>3
  <2> QED BY <1>3, <2>1, <2>2, ScanChanges
<1>4. ASSUME NEW s \in Scans, Scanner!BeginScan(s)
      PROVE  ScannerInv'
  <2>1. CASE Scanner!CacheServes
    BY <1>3, <1>4, <2>1 DEF Scanner!BeginScan, Scanner!Served, Steps
  <2>2. CASE ~Scanner!CacheServes
    <3>1. [Scanner!NoScan EXCEPT !.step = "fetch", !.began = now] \in ScanStates
      BY NoScanIsOne DEF ScanStates, Steps
    <3> QED BY <1>4, <2>2, <3>1, ScanChanges DEF Scanner!BeginScan
  <2> QED BY <2>1, <2>2
<1>5. ASSUME NEW s \in Scans, Scanner!FetchPools(s)
      PROVE  ScannerInv'
  <2>1. CASE Scanner!Served(s, {}) /\ UNCHANGED poolCache
    BY <1>3, <2>1, NoScanIsOne DEF Scanner!Served, Steps
  <2>2. ASSUME NEW records \in SUBSET Pools, scan' = [scan EXCEPT ![s].step = "parse", ![s].left = records],
               UNCHANGED poolCache
        PROVE  ScannerInv'
    <3> DEFINE r == [scan[s] EXCEPT !.step = "parse", !.left = records]
    <3>1. r \in ScanStates
      BY DEF ScanStates, Steps
    <3> QED BY <2>2, <3>1, ScanChanges
  <2> QED BY <1>5, <2>1, <2>2 DEF Scanner!FetchPools
<1>6. ASSUME NEW s \in Scans, Scanner!ParsePool(s)
      PROVE  ScannerInv'
  <2>0. PICK p \in scan[s].left : \E m \in Scanner!parsePoolMetrics(p) :
          /\ scan' = [scan EXCEPT ![s].left = @ \ {p},
                                  ![s].metrics = IF m.il < 0 THEN @ ELSE @ \cup {m}]
          /\ poolCache' = IF m.il < 0 THEN poolCache
                          ELSE {c \in poolCache : c.pool # p} \cup {m}
    BY <1>6 DEF Scanner!ParsePool
  <2>1. PICK m \in Scanner!parsePoolMetrics(p) :
          /\ scan' = [scan EXCEPT ![s].left = @ \ {p},
                                  ![s].metrics = IF m.il < 0 THEN @ ELSE @ \cup {m}]
          /\ poolCache' = IF m.il < 0 THEN poolCache
                          ELSE {c \in poolCache : c.pool # p} \cup {m}
    BY <2>0
  <2> DEFINE M == IF m.il < 0 THEN scan[s].metrics ELSE scan[s].metrics \cup {m}
             r == [scan[s] EXCEPT !.left = @ \ {p}, !.metrics = M]
  <2>2. p \in Pools /\ scan[s] \in ScanStates /\ scan[s].metrics \in MetricSets /\ scan[s].left \subseteq Pools
    BY DEF ScanStates
  <2>3. ~(m.il < 0) => m \in Metrics
    <3>1. PICK apy \in Apys, il \in Risks \cup {-1} : m = [pool |-> p, apy |-> apy, il |-> il, parsed |-> now]
      BY <2>1 DEF Scanner!parsePoolMetrics, Scanner!estimatePoolAPY, Scanner!getVolatility
    <3> QED BY <2>2, <3>1 DEF Metrics
  <2>4. M \in MetricSets /\ poolCache' \in MetricSets
    <3>1. CASE m.il < 0
      BY <2>1, <2>2, <3>1
    <3>2. CASE ~(m.il < 0)
      <4>1. m \in Metrics /\ {c \in poolCache : c.pool # p} \in SUBSET poolCache
        BY <2>3, <3>2
      <4> QED BY <2>1, <2>2, <3>2, <4>1, AddedMetricKeeps
    <3> QED BY <3>1, <3>2
  <2> HIDE DEF M
  <2>5. r \in ScanStates
    BY <2>2, <2>4 DEF ScanStates
  <2>6. scan' = [scan EXCEPT ![s] = r]
    BY <2>1 DEF M
  <2> HIDE DEF r
  <2> QED BY <2>4, <2>5, <2>6, ScanChanges
<1>7. ASSUME NEW s \in Scans, Scanner!ScanEnds(s)
      PROVE  ScannerInv'
  <2>1. scan[s].metrics \in MetricSets
    BY DEF ScanStates
  <2> QED BY <1>3, <1>7, <2>1 DEF Scanner!ScanEnds, Scanner!Served, Steps
<1>8. ASSUME NEW s \in Scans, NEW q \in Seq(GoodOpportunities), Scanner!Found(s, q), UNCHANGED poolCache
      PROVE  ScannerInv'
  <2>1. [Scanner!NoScan EXCEPT !.step = "found", !.found = q] \in ScanStates
    BY NoScanIsOne DEF ScanStates, Steps
  <2> QED BY <1>8, <2>1, ScanChanges DEF Scanner!Found
<1>9. ASSUME NEW s \in Scans, Scanner!findOpportunities(s)
      PROVE  ScannerInv'
  <2>1. CASE Scanner!Found(s, <<>>)
    <3>1. <<>> \in Seq(GoodOpportunities) /\ UNCHANGED poolCache
      BY <1>9 DEF Scanner!findOpportunities
    <3> QED BY <1>8, <2>1, <3>1
  <2>2. ASSUME NEW cost \in [Pools -> Costs \cup {-1}], NEW amount \in Amounts, NEW min \in MinDeltas,
               NEW maxIl \in Risks,
               NEW found \in Scanner!SetToSeqs(
                 {Scanner!Opportunity(m, amount, cost[m.pool], min) :
                    m \in {n \in scan[s].metrics : Scanner!Worthwhile(n, amount, cost[n.pool], min, maxIl)}}),
               Scanner!Found(s, found)
        PROVE  ScannerInv'
    <3> DEFINE good == {n \in scan[s].metrics : Scanner!Worthwhile(n, amount, cost[n.pool], min, maxIl)}
               made == {Scanner!Opportunity(m, amount, cost[m.pool], min) : m \in good}
    <3>1. scan[s].metrics \in SUBSET Metrics /\ IsFiniteSet(scan[s].metrics)
      BY DEF ScanStates, MetricSets
    <3>2. IsFiniteSet(good)
      BY <3>1, FS_Subset
    <3>3. IsFiniteSet(made)
      <4> DEFINE f == [m \in good |-> Scanner!Opportunity(m, amount, cost[m.pool], min)]
      <4>1. f \in Surjection(good, made)
        BY DEF Surjection
      <4> HIDE DEF good, made, f
      <4> QED BY <3>2, <4>1, FS_Surjection
    <3>4. ASSUME NEW m \in good PROVE Scanner!Opportunity(m, amount, cost[m.pool], min) \in GoodOpportunities
      <4>1. m \in Metrics /\ cost[m.pool] \in Costs \cup {-1}
        BY <3>1 DEF Metrics
      <4> QED BY <4>1, OpportunityIsGood
    <3>5. found \in Seq(made) /\ made \subseteq GoodOpportunities
      BY <2>2, <3>3, <3>4, ArrangedIsOfTheSame
    <3> HIDE DEF made
    <3>6. found \in Seq(GoodOpportunities) /\ UNCHANGED poolCache
      BY <1>9, <3>5 DEF Scanner!findOpportunities
    <3> QED BY <1>8, <2>2, <3>6
  <2> QED BY ZenonT(60), <1>9, <2>1, <2>2 DEF Scanner!findOpportunities, Scanner!Arranged
<1>10. ASSUME NEW s \in Scans, Scanner!rankOpportunities(s)
       PROVE  ScannerInv'
  <2>1. PICK ranked \in Scanner!SetToSeqs(Scanner!ToSet(scan[s].found)) :
          scan' = [scan EXCEPT ![s].found = ranked]
    BY <1>10 DEF Scanner!rankOpportunities, Scanner!Arranged
  <2>2. scan[s] \in ScanStates /\ scan[s].found \in Seq(GoodOpportunities)
    BY DEF ScanStates
  <2>3. Scanner!ToSet(scan[s].found) \subseteq GoodOpportunities
    BY <2>2 DEF Scanner!ToSet
  <2>4. IsFiniteSet(Scanner!ToSet(scan[s].found))
    <3>1. Scanner!ToSet(scan[s].found) = {scan[s].found[k] : k \in 1..Len(scan[s].found)}
      BY <2>2 DEF Scanner!ToSet
    <3>2. IsFiniteSet(1..Len(scan[s].found))
      BY <2>2, FS_Interval
    <3>3. scan[s].found \in Surjection(1..Len(scan[s].found), Scanner!ToSet(scan[s].found))
      BY <2>2, <3>1 DEF Surjection
    <3> QED BY <3>2, <3>3, FS_Surjection
  <2>5. ranked \in Seq(Scanner!ToSet(scan[s].found))
    BY <2>1, <2>4, ArrangedIsOfTheSame
  <2>6. ranked \in Seq(GoodOpportunities)
    BY <2>3, <2>5
  <2> DEFINE r == [scan[s] EXCEPT !.found = ranked]
  <2>7. r \in ScanStates
    BY <2>2, <2>6 DEF ScanStates
  <2>8. scan' = [scan EXCEPT ![s] = r] /\ UNCHANGED poolCache
    BY <1>10, <2>1 DEF Scanner!rankOpportunities
  <2> QED BY <2>7, <2>8, ScanChanges
<1>11. ASSUME NEW s \in Scans, Scanner!Done(s)
       PROVE  ScannerInv'
  BY <1>11, NoScanIsOne, ScanChanges DEF Scanner!Done
<1> QED BY <1>1, <1>2, <1>4, <1>5, <1>6, <1>7, <1>9, <1>10, <1>11 DEF Scanner!Next

(* The scans of every behaviour of the keepers.                             *)
ScannerHolds == ScannerInv /\ (part = "scanner" => now \in Int)

(* So does every step of the keepers, from their initial states on.         *)
LEMMA ScannerHoldsAlways ==
  /\ KeepersInit => ScannerHolds
  /\ ScannerHolds /\ [KeepersNext]_keeperVars => ScannerHolds'
<1>1. ASSUME KeepersInit PROVE ScannerHolds
  <2>1. scan = [s \in Scans |-> Scanner!NoScan] /\ poolCache = {}
    BY <1>1 DEF KeepersInit
  <2>2. part = "scanner" => now = cacheExpiry
    BY <1>1 DEF KeepersInit
  <2> QED BY <2>1, <2>2, NoScanIsOne, PartsAssumption DEF ScannerHolds, ScannerInv,
      Scanner!ScannerAssumption
<1>2. ASSUME ScannerHolds, [KeepersNext]_keeperVars PROVE ScannerHolds'
  <2>1. CASE part = "scanner" /\ Scanner!Next
    BY <1>2, <2>1, OnePart, ScannerKeeps DEF ScannerHolds
  <2>2. CASE part = "scanner" /\ UNCHANGED <<now, scannerVars>>
    BY <1>2, <2>2, OnePart DEF ScannerHolds, ScannerInv, scannerVars
  <2>3. CASE part # "scanner"
    BY <1>2, <2>3, OnePart DEF ScannerHolds, ScannerInv, scannerVars
  <2> QED BY <1>2, <2>1, <2>2, <2>3, OnePart
<1> QED BY <1>1, <1>2

(* A part of an amount is not negative.                                     *)
LEMMA IlCostIsACost ==
  ASSUME NEW amount \in Nat, NEW risk \in Nat
  PROVE  (amount * risk) \div Bp \in Nat
<1>1. Bp \in Nat \ {0}
  BY PartsAssumption DEF Scanner!ScannerAssumption
<1>2. amount * risk \in Nat
  OBVIOUS
<1>3. ASSUME NEW n \in Nat PROVE n \div Bp \in Nat
  BY <1>1
<1> QED BY <1>2, <1>3

(* The three estimates are one.                                             *)
LEMMA EstimatesOfOne ==
  ASSUME NEW o \in GoodOpportunities, NEW amount \in Amounts
  PROVE  /\ Scanner!simulateRebalance(o, amount) = Scanner!calculateProfitability(o, amount)
         /\ Scanner!executeArbitrage(o, amount) <=>
              o.recommended /\ Scanner!simulateRebalance(o, amount).netProfit > 0
<1>1. /\ o.il_risk \in Nat /\ o.apy_delta \in Nat /\ o.gross_profit \in Int /\ o.round_trip_cost \in Nat
      /\ o.net_profit \in Int /\ amount \in Nat
      /\ o.gross_profit = (o.investment_amount * o.apy_delta) \div Bp
      /\ o.net_profit = o.gross_profit - o.round_trip_cost
  BY PartsAssumption DEF GoodOpportunities, Opportunities, WorkedOut, Scanner!ScannerAssumption
<1> DEFINE il == Scanner!IlCost(o, amount)
           has == Scanner!HasEstimate(o, amount)
<1>2. il \in Nat
  BY <1>1, IlCostIsACost DEF Scanner!IlCost
<1>3. has => o.gross_profit = (amount * o.apy_delta) \div Bp
  BY <1>1 DEF Scanner!HasEstimate
<1> HIDE DEF il, has
<1>4. /\ Scanner!simulateRebalance(o, amount) =
           IF ~has THEN Scanner!Unavailable
           ELSE [netProfit |-> o.gross_profit - (o.round_trip_cost + il), costEstimateAvailable |-> TRUE]
      /\ Scanner!calculateProfitability(o, amount) =
           IF ~has THEN Scanner!Unavailable
           ELSE [netProfit |-> (amount * o.apy_delta) \div Bp - o.round_trip_cost - il,
                 costEstimateAvailable |-> TRUE]
  BY DEF Scanner!simulateRebalance, Scanner!calculateProfitability, il, has
<1>5. o.gross_profit - (o.round_trip_cost + il) = o.gross_profit - o.round_trip_cost - il
  BY <1>1, <1>2
<1>6. Scanner!simulateRebalance(o, amount) = Scanner!calculateProfitability(o, amount)
  BY <1>3, <1>4, <1>5
<1>7. Scanner!executeArbitrage(o, amount) <=>
        o.recommended /\ has /\ o.net_profit > 0 /\ o.gross_profit - o.round_trip_cost - il > 0
  BY DEF Scanner!executeArbitrage, il, has
<1>8. o.gross_profit - o.round_trip_cost - il > 0 => o.net_profit > 0
  BY <1>1, <1>2
<1>9. ~has => ~(Scanner!simulateRebalance(o, amount).netProfit > 0)
  BY <1>4 DEF Scanner!Unavailable
<1>10. has => Scanner!simulateRebalance(o, amount).netProfit = o.gross_profit - o.round_trip_cost - il
  BY <1>4, <1>5
<1>11. Scanner!executeArbitrage(o, amount) <=>
         o.recommended /\ Scanner!simulateRebalance(o, amount).netProfit > 0
  <2>1. CASE has
    BY <1>7, <1>8, <1>10, <2>1
  <2>2. CASE ~has
    BY <1>7, <1>9, <2>2
  <2> QED BY <2>1, <2>2
<1> QED BY <1>6, <1>11

(* Whoever asks what an opportunity earns gets one answer (arbitrage.ts),   *)
(* harvests keep their distance and are reported (yield-harvest-bot.ts), and *)
(* no more writes are under way than are counted (rateLimiter.ts).          *)
THEOREM BotsKeepTheirs == KeepersSpec => []BotsKeepTheirWord
<1>1. KeepersInit => ScannerHolds /\ HarvesterHolds /\ LimiterInv
  BY ScannerHoldsAlways, HarvesterStarts, LimiterStarts DEF HarvesterHolds, KeepersInit
<1>2. ScannerHolds /\ HarvesterHolds /\ LimiterInv /\ [KeepersNext]_keeperVars
        => (ScannerHolds /\ HarvesterHolds /\ LimiterInv)'
  BY ScannerHoldsAlways, HarvesterHoldsAlways, LimiterKeeps
<1>3. ScannerHolds /\ HarvesterHolds /\ LimiterInv => BotsKeepTheirWord
  <2>1. ScannerHolds => Scanner!EstimatesAgree
    <3> SUFFICES ASSUME ScannerHolds, NEW s \in Scans, NEW k \in DOMAIN scan[s].found, NEW amount \in Amounts
                 PROVE  LET o == scan[s].found[k] IN
                        /\ Scanner!simulateRebalance(o, amount) = Scanner!calculateProfitability(o, amount)
                        /\ Scanner!executeArbitrage(o, amount) <=>
                             o.recommended /\ Scanner!simulateRebalance(o, amount).netProfit > 0
      BY DEF Scanner!EstimatesAgree
    <3>1. scan[s].found[k] \in GoodOpportunities
      BY DEF ScannerHolds, ScannerInv, ScanStates
    <3> QED BY <3>1, EstimatesOfOne
  <2>2. HarvesterHolds => Harvester!BotKeepsItsWord
    BY DEF HarvesterHolds, Books, Harvester!BotKeepsItsWord, Harvester!HarvestsPaced
  <2>3. LimiterInv => Limiter!InFlightBounded
    BY DEF LimiterInv
  <2> QED BY <2>1, <2>2, <2>3 DEF BotsKeepTheirWord
<1> QED BY <1>1, <1>2, <1>3, PTL DEF KeepersSpec


-----------------------------------------------------------------------------
(* The event listener.                                                      *)

(* Events are ordered.                                                      *)
LEMMA BeforeIsAnOrder ==
  ASSUME NEW e \in Nat \X Nat, NEW f \in Nat \X Nat, NEW g \in Nat \X Nat
  PROVE  /\ Listener!Before(e, f) /\ Listener!Before(f, g) => Listener!Before(e, g)
         /\ ~Listener!Before(e, e)
         /\ Listener!Before(e, f) \/ Listener!Before(f, e) \/ e = f
         /\ Listener!Before(e, f) => e[1] <= f[1]
<1>1. e = <<e[1], e[2]>> /\ f = <<f[1], f[2]>> /\ e[1] \in Nat /\ e[2] \in Nat /\ f[1] \in Nat
      /\ f[2] \in Nat /\ g[1] \in Nat /\ g[2] \in Nat
  OBVIOUS
<1> QED BY <1>1 DEF Listener!Before

(* There are finitely many places for an event.                             *)
LEMMA SlotsAreEvents ==
  /\ Listener!Slots \subseteq Nat \X Nat
  /\ Listener!NoEvent \in Nat \X Nat /\ Listener!NoEvent \notin Listener!Slots
  /\ IsFiniteSet(Listener!Slots)
<1>1. IsFiniteSet(1..MaxLedger) /\ IsFiniteSet(1..MaxPerLedger)
  BY PartsAssumption, FS_Interval DEF Listener!ListenerAssumption
<1>2. IsFiniteSet(Listener!Slots)
  BY <1>1, FS_Product DEF Listener!Slots
<1> QED BY <1>2 DEF Listener!Slots, Listener!NoEvent

(* The cardinality of the listener's module is the usual one.               *)
LEMMA ListenerCardinality ==
  \A S : Listener!Cardinality(S) = Cardinality(S)
  BY DEF Listener!Cardinality, Cardinality

(* The first and the last of some events.                                   *)
LEMMA FirstEvent ==
  ASSUME NEW S, S \subseteq Listener!Slots, S # {}
  PROVE  \E e \in S : \A f \in S : ~Listener!Before(f, e)
<1> DEFINE L == {e[1] : e \in S}
<1>1. PICK l \in L : \A k \in L : l <= k
  <2>1. L \subseteq Nat /\ L # {}
    BY SlotsAreEvents
  <2> QED BY <2>1, NatMinimum
<1>2. PICK e1 \in S : e1[1] = l
  OBVIOUS
<1> DEFINE I == {e[2] : e \in {f \in S : f[1] = l}}
<1>3. PICK i \in I : \A k \in I : i <= k
  <2>1. I \subseteq Nat /\ I # {}
    BY <1>2, SlotsAreEvents
  <2> QED BY <2>1, NatMinimum
<1>4. PICK e \in S : e[1] = l /\ e[2] = i
  OBVIOUS
<1>5. ASSUME NEW f \in S PROVE ~Listener!Before(f, e)
  <2>1. f \in Nat \X Nat /\ e \in Nat \X Nat
    BY SlotsAreEvents
  <2>2. l <= f[1] /\ (f[1] = l => i <= f[2])
    BY <1>1, <1>3
  <2> QED BY <1>4, <2>1, <2>2 DEF Listener!Before
<1> QED BY <1>5

(* The last of some events: no event of them comes after it.                *)
LEMMA LastOfEvents ==
  ASSUME NEW S, S \subseteq Listener!Slots, S # {}
  PROVE  \E e \in S : \A f \in S : ~Listener!Before(e, f)
<1> DEFINE L == {MaxLedger - e[1] : e \in S}
<1>0. MaxLedger \in Nat /\ MaxPerLedger \in Nat
      /\ \A e \in S : e \in Nat \X Nat /\ e[1] <= MaxLedger /\ e[2] <= MaxPerLedger
  BY PartsAssumption DEF Listener!Slots, Listener!ListenerAssumption
<1>1. PICK l \in L : \A k \in L : l <= k
  <2>1. L \subseteq Nat /\ L # {}
    BY <1>0
  <2> QED BY <2>1, NatMinimum
<1>2. PICK e1 \in S : MaxLedger - e1[1] = l
  OBVIOUS
<1> DEFINE I == {MaxPerLedger - e[2] : e \in {f \in S : f[1] = e1[1]}}
<1>3. PICK i \in I : \A k \in I : i <= k
  <2>1. I \subseteq Nat /\ I # {}
    BY <1>0
  <2> QED BY <2>1, NatMinimum
<1>4. PICK e \in S : e[1] = e1[1] /\ MaxPerLedger - e[2] = i
  OBVIOUS
<1>5. ASSUME NEW f \in S PROVE ~Listener!Before(e, f)
  <2>1. f[1] \in Nat /\ f[2] \in Nat /\ e[1] \in Nat /\ e[2] \in Nat /\ e1[1] \in Nat
    BY <1>0
  <2>2. l <= MaxLedger - f[1] /\ (f[1] = e1[1] => i <= MaxPerLedger - f[2])
    BY <1>1, <1>3
  <2>3. f[1] <= e[1] /\ (f[1] = e[1] => f[2] <= e[2])
    BY <1>0, <1>2, <1>4, <2>1, <2>2
  <2> QED BY <2>1, <2>3 DEF Listener!Before
<1> QED BY <1>5

(* A page holds the first of the events asked for, and all of them unless it *)
(* is full.                                                                 *)
LEMMA PageHoldsTheFirst ==
  ASSUME NEW M, M \subseteq Listener!Slots,
         NEW P, P = {e \in M : Cardinality({f \in M : Listener!Before(f, e)}) < PageSize}
  PROVE  /\ P \subseteq M /\ IsFiniteSet(P)
         /\ \A e \in P, f \in M : Listener!Before(f, e) => f \in P
         /\ Cardinality(P) < PageSize => P = M
<1> DEFINE Earlier(e) == {f \in M : Listener!Before(f, e)}
<1>0. PageSize \in Nat
  BY PartsAssumption DEF Listener!ListenerAssumption
<1>1. IsFiniteSet(M) /\ IsFiniteSet(P) /\ \A e \in M : IsFiniteSet(Earlier(e))
  <2>1. P \subseteq Listener!Slots /\ \A e \in M : Earlier(e) \subseteq Listener!Slots
    OBVIOUS
  <2> QED BY <2>1, SlotsAreEvents, FS_Subset
<1>2. ASSUME NEW e \in P, NEW f \in M, Listener!Before(f, e) PROVE f \in P
  <2>1. Earlier(f) \subseteq Earlier(e)
    BY <1>2, BeforeIsAnOrder, SlotsAreEvents
  <2>2. Cardinality(Earlier(f)) <= Cardinality(Earlier(e))
    BY <1>1, <2>1, FS_Subset
  <2>3. Cardinality(Earlier(f)) \in Nat /\ Cardinality(Earlier(e)) \in Nat
    BY <1>1, FS_CardinalityType
  <2>4. Cardinality(Earlier(e)) < PageSize
    OBVIOUS
  <2> QED BY <1>0, <2>2, <2>3, <2>4
<1>3. ASSUME Cardinality(P) < PageSize, P # M PROVE FALSE
  <2>1. PICK e \in M \ P : \A f \in M \ P : ~Listener!Before(f, e)
    <3>1. M \ P \subseteq Listener!Slots /\ M \ P # {}
      BY <1>3
    <3> QED BY <3>1, FirstEvent
  <2>2. Earlier(e) \subseteq P
    BY <2>1
  <2>3. Cardinality(Earlier(e)) <= Cardinality(P)
    BY <1>1, <2>2, FS_Subset
  <2>4. Cardinality(Earlier(e)) \in Nat /\ Cardinality(P) \in Nat
    BY <1>1, FS_CardinalityType
  <2> QED BY <1>0, <1>3, <2>1, <2>3, <2>4
<1> QED BY <1>1, <1>2, <1>3

-----------------------------------------------------------------------------
(* The invariant of the listener.                                           *)

Kinds == {"ours", "foreign"}

(* The chain, and counts of the events handled: of watched events only, and *)
(* none of them was passed over.                                            *)
ChainAndCounts ==
  /\ chain \in Seq(Seq(Kinds)) /\ handled \in [Listener!Slots -> Nat]
  /\ \A e \in Listener!Slots : handled[e] > 0 => e \in Listener!Ours
  /\ \A e, f \in Listener!Ours :
       f[1] >= StartLedger /\ handled[e] > 0 /\ Listener!Before(f, e) => handled[f] > 0

(* A position is in the chain, and what is before it was handled.           *)
Position(nextLedger, eventCursor) ==
  /\ nextLedger \in Nat /\ (nextLedger <= Len(chain) + 1 \/ nextLedger <= StartLedger)
  /\ eventCursor = Listener!NoEvent \/ eventCursor \in Listener!Emitted
  /\ \A e \in Listener!Passed(nextLedger, eventCursor) : handled[e] > 0

(* An answer that waits to be processed was the first of the events asked   *)
(* for in the chain as it was then, and is all of them unless it is full.   *)
Answer(head, events) ==
  /\ head \in Nat /\ head <= Len(chain)
  /\ cursor <= head + 1 \/ cursor <= StartLedger
  /\ paging # Listener!NoEvent => paging[1] <= head
  /\ events \subseteq Listener!Matching /\ IsFiniteSet(events)
  /\ \A e \in events : e[1] <= head
  /\ \A e \in events, f \in Listener!Matching : Listener!Before(f, e) => f \in events
  /\ Cardinality(events) < PageSize =>
       \A e \in Listener!Matching : e[1] <= head => e \in events

(* Without a fault, what was handled is before the position, once; and only *)
(* the first poll of all restores.                                          *)
OnceBefore ==
  /\ \A e \in Listener!Slots :
       /\ handled[e] <= 1
       /\ handled[e] > 0 =>
            IF paging # Listener!NoEvent THEN ~Listener!Before(paging, e) ELSE e[1] < cursor
  /\ ~restored \/ poll = "restoring" => checkpoint = Listener!NoCheckpoint
  /\ poll # "down" /\ (poll # "idle" => restored)

ListenerInv ==
  /\ ChainAndCounts
  /\ Position(cursor, paging)
  /\ checkpoint # Listener!NoCheckpoint => Position(checkpoint.nextLedger, checkpoint.eventCursor)
  /\ IF poll = "processing" THEN Answer(response.latestLedger, response.events)
     ELSE response.events = {}
  /\ faults \in Nat
  /\ faults = 0 => OnceBefore

(* Facts about a chain in the type of the invariant.                        *)
LEMMA EmittedAreSlots ==
  /\ Listener!Ours \subseteq Listener!Emitted /\ Listener!Emitted \subseteq Listener!Slots
  /\ Listener!Matching \subseteq Listener!Emitted
  /\ \A e \in Listener!Emitted : e \in Nat \X Nat /\ e[1] <= Len(chain)
  BY SlotsAreEvents DEF Listener!Ours, Listener!Emitted, Listener!Matching

(* What a closing ledger adds comes after all that was there.               *)
LEMMA ChainGrows ==
  ASSUME ChainAndCounts, Listener!CloseLedger
  PROVE  /\ chain' \in Seq(Seq(Kinds)) /\ Len(chain') = Len(chain) + 1
         /\ Listener!Emitted \subseteq Listener!Emitted'
         /\ \A e \in Listener!Emitted : e \in Listener!Ours <=> e \in Listener!Ours'
         /\ \A e \in Listener!Emitted' \ Listener!Emitted : e[1] = Len(chain) + 1
<1>1. PICK n \in 0..MaxPerLedger : \E content \in [1..n -> Kinds] : chain' = Append(chain, content)
  BY DEF Listener!CloseLedger, Kinds
<1>2. PICK content \in [1..n -> Kinds] : chain' = Append(chain, content)
  BY <1>1
<1>3. content \in Seq(Kinds)
  BY <1>2
<1>4. /\ chain' \in Seq(Seq(Kinds)) /\ Len(chain') = Len(chain) + 1 /\ Len(chain) \in Nat
      /\ \A i \in 1..Len(chain) : chain'[i] = chain[i]
  BY <1>2, <1>3 DEF ChainAndCounts
<1>5. \A e \in Listener!Slots : e[1] \in Nat \ {0}
  BY SlotsAreEvents DEF Listener!Slots
<1>6. \A e \in Listener!Slots : e[1] <= Len(chain) => chain'[e[1]] = chain[e[1]]
  BY <1>4, <1>5
<1>7. Listener!Emitted \subseteq Listener!Emitted'
  BY <1>4, <1>5, <1>6 DEF Listener!Emitted, Listener!Slots
<1>8. ASSUME NEW e \in Listener!Emitted' \ Listener!Emitted PROVE e[1] = Len(chain) + 1
  <2>1. e \in Listener!Slots /\ e[1] <= Len(chain) + 1
    BY <1>4 DEF Listener!Emitted, Listener!Slots
  <2>2. e[1] <= Len(chain) => e \in Listener!Emitted
    BY <1>6, <2>1 DEF Listener!Emitted, Listener!Slots
  <2> QED BY <1>4, <1>5, <2>1, <2>2
<1>9. \A e \in Listener!Emitted : e \in Listener!Ours <=> e \in Listener!Ours'
  BY <1>6, <1>7 DEF Listener!Ours, Listener!Emitted
<1> QED BY <1>4, <1>7, <1>8, <1>9

(* A ledger closes behind every position, so none passes its events.        *)
LEMMA CloseLedgerKeeps ==
  ASSUME ListenerInv, Listener!CloseLedger
  PROVE  ListenerInv'
<1>1. UNCHANGED <<poll, cursor, paging, restored, response, checkpoint, handled, faults>>
  BY DEF Listener!CloseLedger, Listener!procVars
<1>2. /\ chain' \in Seq(Seq(Kinds)) /\ Len(chain') = Len(chain) + 1 /\ Len(chain) \in Nat
      /\ Listener!Emitted \subseteq Listener!Emitted'
      /\ \A e \in Listener!Emitted : e \in Listener!Ours <=> e \in Listener!Ours'
      /\ \A e \in Listener!Emitted' \ Listener!Emitted : e[1] = Len(chain) + 1
  BY ChainGrows DEF ListenerInv, ChainAndCounts
<1>3. /\ \A e \in Listener!Emitted' : e \in Nat \X Nat
      /\ \A e \in Listener!Emitted : e[1] <= Len(chain) /\ e \in Nat \X Nat
      /\ Listener!Ours \subseteq Listener!Emitted /\ Listener!Ours' \subseteq Listener!Emitted'
      /\ Listener!Emitted' \subseteq Listener!Slots
  BY SlotsAreEvents, EmittedAreSlots DEF Listener!Ours, Listener!Emitted
<1>4. \A e \in Listener!Emitted, f \in Listener!Emitted' \ Listener!Emitted :
        Listener!Before(e, f) /\ ~Listener!Before(f, e)
  BY <1>2, <1>3 DEF Listener!Before
<1>5. ChainAndCounts'
  <2>1. \A e \in Listener!Slots : handled[e] > 0 => e \in Listener!Ours /\ e \in Listener!Ours'
    BY <1>2, <1>3 DEF ListenerInv, ChainAndCounts
  <2>2. ASSUME NEW e \in Listener!Ours', NEW f \in Listener!Ours', f[1] >= StartLedger,
               handled[e] > 0, Listener!Before(f, e)
        PROVE  handled[f] > 0
    <3>1. e \in Listener!Ours
      BY <1>3, <2>1, <2>2
    <3>2. f \in Listener!Ours
      BY <1>2, <1>3, <1>4, <2>2, <3>1
    <3> QED BY <2>2, <3>1, <3>2 DEF ListenerInv, ChainAndCounts
  <2> QED BY <1>1, <1>2, <2>1, <2>2 DEF ListenerInv, ChainAndCounts
<1>6. ASSUME NEW c, NEW q, Position(c, q)
      PROVE  /\ c \in Nat /\ (c <= Len(chain') + 1 \/ c <= StartLedger)
             /\ q = Listener!NoEvent \/ q \in Listener!Emitted'
             /\ \A e \in Listener!Ours' :
                  /\ e[1] >= StartLedger
                  /\ IF q # Listener!NoEvent THEN ~Listener!Before(q, e) ELSE e[1] < c
                  => handled[e] > 0
  <2>1. c \in Nat /\ StartLedger \in Nat
    BY <1>6, PartsAssumption DEF Position, Listener!ListenerAssumption
  <2>2. ASSUME NEW e \in Listener!Ours', e[1] >= StartLedger,
               IF q # Listener!NoEvent THEN ~Listener!Before(q, e) ELSE e[1] < c
        PROVE  handled[e] > 0
    <3>1. e \in Listener!Emitted
      BY <1>2, <1>3, <1>4, <1>6, <2>1, <2>2 DEF Position
    <3>2. e \in Listener!Passed(c, q)
      BY <1>2, <2>2, <3>1 DEF Listener!Passed
    <3> QED BY <1>6, <3>2 DEF Position
  <2> QED BY <1>2, <1>6, <2>1, <2>2 DEF Position
<1>7. Position(cursor, paging)'
  <2>1. Position(cursor, paging)
    BY DEF ListenerInv
  <2>2. /\ cursor \in Nat /\ (cursor <= Len(chain') + 1 \/ cursor <= StartLedger)
        /\ paging = Listener!NoEvent \/ paging \in Listener!Emitted'
        /\ \A e \in Listener!Ours' :
             /\ e[1] >= StartLedger
             /\ IF paging # Listener!NoEvent THEN ~Listener!Before(paging, e) ELSE e[1] < cursor
             => handled[e] > 0
    BY <1>6, <2>1
  <2> QED BY <1>1, <2>2 DEF Position, Listener!Passed
<1>8. (checkpoint # Listener!NoCheckpoint => Position(checkpoint.nextLedger, checkpoint.eventCursor))'
  BY <1>1, <1>6 DEF ListenerInv, Position, Listener!Passed
<1>9. ASSUME poll = "processing" PROVE Answer(response.latestLedger, response.events)'
  <2>1. Answer(response.latestLedger, response.events)
    BY <1>9 DEF ListenerInv
  <2>2. Listener!Matching \subseteq Listener!Matching'
    BY <1>1, <1>2 DEF Listener!Matching
  <2>3. \A e \in Listener!Matching' : e[1] <= Len(chain) => e \in Listener!Matching
    BY <1>1, <1>2 DEF Listener!Matching
  <2>4. \A e \in Listener!Matching' : e \in Nat \X Nat
    BY <1>3 DEF Listener!Matching
  <2>5. ASSUME NEW e \in response.events, NEW f \in Listener!Matching', Listener!Before(f, e)
        PROVE  f \in response.events
    <3>1. f[1] <= e[1] /\ e[1] <= Len(chain) /\ e[1] \in Nat /\ f[1] \in Nat
      BY <1>2, <2>1, <2>2, <2>4, <2>5, BeforeIsAnOrder DEF Answer
    <3>2. f \in Listener!Matching
      BY <1>2, <2>3, <3>1
    <3> QED BY <2>1, <2>5, <3>2 DEF Answer
  <2>6. ASSUME Cardinality(response.events) < PageSize, NEW e \in Listener!Matching',
               e[1] <= response.latestLedger
        PROVE  e \in response.events
    BY <1>2, <2>1, <2>3, <2>4, <2>6 DEF Answer
  <2> QED BY <1>1, <1>2, <2>1, <2>2, <2>5, <2>6 DEF Answer
<1> QED BY <1>1, <1>5, <1>7, <1>8, <1>9 DEF ListenerInv, OnceBefore

(* Events of the answer are handed to the handlers, none of them before one *)
(* that precedes it.                                                        *)
LEMMA HandingKeepsCounts ==
  ASSUME ListenerInv, poll = "processing", UNCHANGED chain,
         NEW E, E \subseteq response.events \cap Listener!Ours, Listener!HandTo(E),
         \A e \in E, f \in response.events \cap Listener!Ours : Listener!Before(f, e) => f \in E
  PROVE  /\ ChainAndCounts'
         /\ \A e \in Listener!Slots : handled[e] > 0 => handled'[e] > 0
         /\ \A e \in E : handled'[e] > 0
         /\ \A e \in Listener!Slots : handled'[e] <= handled[e] + 1
         /\ \A e \in Listener!Slots \ E : handled'[e] = handled[e]
<1>1. \A e \in Listener!Slots : handled[e] \in Nat
  BY DEF ListenerInv, ChainAndCounts
<1>2. handled' = [e \in Listener!Slots |-> IF e \in E /\ handled[e] < 2 THEN handled[e] + 1
                                           ELSE handled[e]]
  BY DEF Listener!HandTo
<1>3. /\ handled' \in [Listener!Slots -> Nat]
      /\ \A e \in Listener!Slots : handled[e] > 0 => handled'[e] > 0
      /\ \A e \in Listener!Slots : handled'[e] <= handled[e] + 1
      /\ \A e \in Listener!Slots \ E : handled'[e] = handled[e]
      /\ \A e \in Listener!Slots : e \in E => handled'[e] > 0
  BY <1>1, <1>2
<1>4. Listener!Ours' = Listener!Ours
  BY DEF Listener!Ours, Listener!Emitted
<1>5. E \subseteq Listener!Ours /\ Listener!Ours \subseteq Listener!Slots
  BY EmittedAreSlots
<1>6. ASSUME NEW e \in Listener!Ours, NEW f \in Listener!Ours, f[1] >= StartLedger,
             handled'[e] > 0, Listener!Before(f, e)
      PROVE  handled'[f] > 0
  <2>1. CASE handled[e] > 0
    BY <1>3, <1>5, <1>6, <2>1 DEF ListenerInv, ChainAndCounts
  <2>2. CASE e \in E
    <3>1. CASE f \in Listener!Matching
      BY <1>3, <1>5, <1>6, <2>2, <3>1 DEF ListenerInv, Answer
    <3>2. CASE f \notin Listener!Matching
      <4>1. f \in Listener!Emitted /\ f[1] \in Nat
        BY EmittedAreSlots
      <4>2. cursor \in Nat
        BY DEF ListenerInv, Position
      <4>3. f \in Listener!Passed(cursor, paging)
        BY <1>6, <3>2, <4>1, <4>2 DEF Listener!Matching, Listener!Passed
      <4> QED BY <1>3, <1>5, <4>3 DEF ListenerInv, Position
    <3> QED BY <3>1, <3>2
  <2> QED BY <1>1, <1>3, <1>5, <1>6, <2>1, <2>2
<1>7. \A e \in Listener!Slots : handled'[e] > 0 => e \in Listener!Ours
  BY <1>1, <1>3, <1>5 DEF ListenerInv, ChainAndCounts
<1>8. ChainAndCounts'
  BY <1>3, <1>4, <1>6, <1>7 DEF ListenerInv, ChainAndCounts
<1> QED BY <1>3, <1>5, <1>8

(* Before startLedger nothing was to be handled.                            *)
LEMMA StartIsAPosition ==
  Position(StartLedger, Listener!NoEvent)
  BY PartsAssumption, EmittedAreSlots
  DEF Position, Listener!Passed, Listener!ListenerAssumption

(* The steps of a poll that hand nothing to a handler and leave the answer. *)
LEMMA QuietStepsKeep ==
  ASSUME ListenerInv,
         \/ Listener!BeginPoll \/ Listener!Restore \/ Listener!RestoreFails
         \/ Listener!FetchFails \/ Listener!Persist \/ Listener!PersistFails \/ Listener!Restart
  PROVE  ListenerInv'
<1>1. UNCHANGED <<chain, handled, response>> /\ poll # "processing" /\ poll' # "processing"
  BY DEF Listener!BeginPoll, Listener!Restore, Listener!RestoreFails, Listener!FetchFails,
         Listener!Persist, Listener!PersistFails, Listener!Restart, Listener!procVars
<1>2. ChainAndCounts'
  BY <1>1 DEF ListenerInv, ChainAndCounts, Listener!Ours, Listener!Emitted
<1>3. faults' \in Nat /\ (faults' = 0 => faults = 0)
  BY DEF ListenerInv, Listener!BeginPoll, Listener!Restore, Listener!RestoreFails, Listener!FetchFails,
         Listener!Persist, Listener!PersistFails, Listener!Restart, Listener!Fault
<1>4. /\ Position(cursor, paging)
      /\ checkpoint # Listener!NoCheckpoint => Position(checkpoint.nextLedger, checkpoint.eventCursor)
      /\ Position(StartLedger, Listener!NoEvent)
  BY StartIsAPosition DEF ListenerInv
<1>5. /\ \/ cursor' = cursor /\ paging' = paging
         \/ cursor' = StartLedger /\ paging' = Listener!NoEvent
         \/ /\ checkpoint # Listener!NoCheckpoint
            /\ cursor' = checkpoint.nextLedger /\ paging' = checkpoint.eventCursor
      /\ \/ checkpoint' = checkpoint
         \/ checkpoint' = [nextLedger |-> cursor, eventCursor |-> paging]
  BY DEF Listener!BeginPoll, Listener!Restore, Listener!RestoreFails, Listener!FetchFails,
         Listener!Persist, Listener!PersistFails, Listener!Restart, Listener!procVars
<1>6. Listener!Ours' = Listener!Ours /\ Listener!Emitted' = Listener!Emitted
  BY <1>1 DEF Listener!Ours, Listener!Emitted
<1>7. Position(cursor, paging)'
  BY <1>1, <1>4, <1>5, <1>6 DEF Position, Listener!Passed
<1>8. (checkpoint # Listener!NoCheckpoint => Position(checkpoint.nextLedger, checkpoint.eventCursor))'
  BY <1>1, <1>4, <1>5, <1>6 DEF Position, Listener!Passed
<1>9. ASSUME faults' = 0 PROVE OnceBefore'
  <2>1. OnceBefore /\ UNCHANGED <<cursor, paging>>
    BY <1>3, <1>9 DEF ListenerInv, OnceBefore, Listener!BeginPoll, Listener!Restore,
       Listener!RestoreFails, Listener!FetchFails, Listener!Persist, Listener!PersistFails,
       Listener!Restart, Listener!procVars, Listener!Fault
  <2>2. /\ ~restored' \/ poll' = "restoring" => checkpoint' = Listener!NoCheckpoint
        /\ poll' # "down" /\ (poll' # "idle" => restored')
    BY <1>3, <1>9, <2>1 DEF ListenerInv, OnceBefore, Listener!BeginPoll, Listener!Restore,
       Listener!RestoreFails, Listener!FetchFails, Listener!Persist, Listener!PersistFails,
       Listener!Restart, Listener!procVars, Listener!Fault
  <2> QED BY <1>1, <2>1, <2>2 DEF OnceBefore
<1>10. (IF poll = "processing" THEN Answer(response.latestLedger, response.events)
        ELSE response.events = {})'
  BY <1>1 DEF ListenerInv
<1> QED BY <1>2, <1>3, <1>7, <1>8, <1>9, <1>10 DEF ListenerInv

(* The node answers with a page of the events asked for.                    *)
LEMMA FetchKeeps ==
  ASSUME ListenerInv, Listener!Fetch
  PROVE  ListenerInv'
<1>1. /\ UNCHANGED <<chain, cursor, paging, restored, checkpoint, handled, faults>>
      /\ poll = "fetching" /\ poll' = "processing"
      /\ response' = [events |-> Listener!Page, latestLedger |-> Len(chain)]
  BY DEF Listener!Fetch
<1>2. /\ ChainAndCounts' /\ Position(cursor, paging)'
      /\ (checkpoint # Listener!NoCheckpoint =>
             Position(checkpoint.nextLedger, checkpoint.eventCursor))'
      /\ faults' \in Nat /\ (faults' = 0 => OnceBefore')
  BY <1>1 DEF ListenerInv, ChainAndCounts, Position, OnceBefore, Listener!Passed, Listener!Ours,
              Listener!Emitted
<1>3. Listener!Matching' = Listener!Matching
  BY <1>1 DEF Listener!Matching, Listener!Emitted
<1>4. /\ Listener!Page \subseteq Listener!Matching /\ IsFiniteSet(Listener!Page)
      /\ \A e \in Listener!Page, f \in Listener!Matching : Listener!Before(f, e) => f \in Listener!Page
      /\ Cardinality(Listener!Page) < PageSize => Listener!Page = Listener!Matching
  <2>1. Listener!Matching \subseteq Listener!Slots
    BY EmittedAreSlots
  <2>2. Listener!Page = {e \in Listener!Matching :
                           Cardinality({f \in Listener!Matching : Listener!Before(f, e)}) < PageSize}
    BY ListenerCardinality DEF Listener!Page
  <2> QED BY <2>1, <2>2, PageHoldsTheFirst
<1>5. /\ Len(chain) \in Nat
      /\ cursor <= Len(chain) + 1 \/ cursor <= StartLedger
      /\ paging # Listener!NoEvent => paging[1] <= Len(chain)
      /\ \A e \in Listener!Matching : e[1] <= Len(chain)
  BY EmittedAreSlots DEF ListenerInv, ChainAndCounts, Position
<1>6. Answer(Len(chain), Listener!Page)
  BY <1>4, <1>5 DEF Answer
<1>7. Answer(response.latestLedger, response.events)'
  BY <1>1, <1>3, <1>6 DEF Answer
<1> QED BY <1>1, <1>2, <1>7 DEF ListenerInv

(* A crash, or a handler that throws: some of the answer was handled, the   *)
(* position is the same or startLedger again.                               *)
LEMMA FailuresKeep ==
  ASSUME ListenerInv, Listener!HandlerThrows \/ Listener!Crash
  PROVE  ListenerInv' /\ UNCHANGED chain
         /\ \A e \in Listener!Slots : handled[e] > 0 => handled'[e] > 0
<1>1. /\ UNCHANGED <<chain, checkpoint>> /\ poll' # "processing" /\ response'.events = {}
      /\ faults' \in Nat /\ faults' # 0
      /\ \/ cursor' = cursor /\ paging' = paging
         \/ cursor' = StartLedger /\ paging' = Listener!NoEvent
  BY DEF Listener!HandlerThrows, Listener!Crash, Listener!Fault, Listener!NoResponse, ListenerInv
<1>2. Listener!Ours' = Listener!Ours /\ Listener!Emitted' = Listener!Emitted
  BY <1>1 DEF Listener!Ours, Listener!Emitted
<1>3. ChainAndCounts' /\ \A e \in Listener!Slots : handled[e] > 0 => handled'[e] > 0
  <2>1. CASE UNCHANGED handled
    BY <1>1, <1>2, <2>1 DEF ListenerInv, ChainAndCounts
  <2>2. CASE ~UNCHANGED handled
    <3> DEFINE Given == response.events \cap Listener!Ours
    <3>1. PICK bad \in Given :
             \/ Listener!HandTo({e \in Given : Listener!Before(e, bad)})
             \/ Listener!HandTo({e \in Given : ~Listener!Before(bad, e)})
      BY <2>2 DEF Listener!HandlerThrows, Listener!Crash
    <3>2. poll = "processing"
      BY <3>1 DEF ListenerInv
    <3>3. Given \subseteq Nat \X Nat
      BY EmittedAreSlots, SlotsAreEvents
    <3>4. \A e, f \in Given : Listener!Before(f, e) =>
            /\ Listener!Before(e, bad) => Listener!Before(f, bad)
            /\ ~Listener!Before(bad, e) => ~Listener!Before(bad, f)
      BY <3>3, BeforeIsAnOrder
    <3>5. CASE Listener!HandTo({e \in Given : Listener!Before(e, bad)})
      <4> DEFINE E == {e \in Given : Listener!Before(e, bad)}
      <4>1. E \subseteq Given /\ \A e \in E, f \in Given : Listener!Before(f, e) => f \in E
        BY <3>4
      <4> QED BY <1>1, <3>2, <3>5, <4>1, HandingKeepsCounts
    <3>6. CASE Listener!HandTo({e \in Given : ~Listener!Before(bad, e)})
      <4> DEFINE E == {e \in Given : ~Listener!Before(bad, e)}
      <4>1. E \subseteq Given /\ \A e \in E, f \in Given : Listener!Before(f, e) => f \in E
        BY <3>4
      <4> QED BY <1>1, <3>2, <3>6, <4>1, HandingKeepsCounts
    <3> QED BY <3>1, <3>5, <3>6
  <2> QED BY <2>1, <2>2
<1>4. Position(cursor, paging)'
  <2>1. CASE cursor' = cursor /\ paging' = paging
    <3>1. ChainAndCounts /\ Position(cursor, paging)
      BY DEF ListenerInv
    <3> QED BY <1>1, <1>2, <1>3, <2>1, <3>1, EmittedAreSlots DEF Position, Listener!Passed
  <2>2. CASE cursor' = StartLedger /\ paging' = Listener!NoEvent
    BY <1>1, <1>2, <2>2, PartsAssumption, EmittedAreSlots
    DEF Position, Listener!Passed, Listener!ListenerAssumption
  <2> QED BY <1>1, <2>1, <2>2
<1>5. (checkpoint # Listener!NoCheckpoint => Position(checkpoint.nextLedger, checkpoint.eventCursor))'
  BY <1>1, <1>2, <1>3, EmittedAreSlots DEF ListenerInv, Position, Listener!Passed
<1> QED BY <1>1, <1>3, <1>4, <1>5 DEF ListenerInv

(* The position after a page: where events have ids, behind the last event  *)
(* of a full page, and behind the newest ledger of one that is not full.    *)
LEMMA Advanced ==
  ASSUME EventIds, ListenerInv, poll = "processing", Listener!AdvanceCursor
  PROVE  \/ /\ Cardinality(response.events) < PageSize
            /\ paging' = Listener!NoEvent
            /\ cursor' = IF response.latestLedger + 1 > cursor THEN response.latestLedger + 1
                         ELSE cursor
         \/ /\ ~(Cardinality(response.events) < PageSize)
            /\ paging' \in response.events
            /\ \A e \in response.events : ~Listener!Before(paging', e)
            /\ cursor' \in Nat /\ (cursor' = cursor \/ cursor' <= response.latestLedger + 1)
<1> DEFINE dispatched == {e[1] : e \in response.events \cap Listener!Ours}
           highest == IF dispatched = {} THEN -1
                      ELSE CHOOSE l \in dispatched : \A k \in dispatched : k <= l
<1>1. Answer(response.latestLedger, response.events) /\ cursor \in Nat
  BY DEF ListenerInv, Position
<1>2. response.events \subseteq Listener!Slots /\ PageSize \in Nat \ {0}
  BY <1>1, EmittedAreSlots, PartsAssumption DEF Answer, Listener!ListenerAssumption
<1>3. highest = -1 \/ (highest \in Nat /\ highest <= response.latestLedger)
  <2>1. CASE dispatched # {}
    <3>1. dispatched \subseteq Nat /\ \A l \in dispatched : l <= response.latestLedger
      BY <1>1, <1>2, SlotsAreEvents DEF Answer
    <3>2. response.events \cap Listener!Ours # {}
          /\ response.events \cap Listener!Ours \subseteq Listener!Slots
      BY <1>2, <2>1
    <3>3. PICK e \in response.events \cap Listener!Ours :
            \A f \in response.events \cap Listener!Ours : ~Listener!Before(e, f)
      BY <3>2, LastOfEvents
    <3>4. e[1] \in dispatched /\ \A k \in dispatched : k <= e[1]
      BY <3>1, <3>3 DEF Listener!Before
    <3> QED BY <2>1, <3>1, <3>4
  <2> QED BY <2>1
<1>4. Listener!ConsumedThrough = IF Listener!Drained /\ response.latestLedger > highest
                                 THEN response.latestLedger ELSE highest
  BY DEF Listener!ConsumedThrough
<1>5. Listener!Drained <=> Cardinality(response.events) < PageSize
  BY ListenerCardinality DEF Listener!Drained
<1>6. response.latestLedger \in Nat
  BY <1>1 DEF Answer
<1> HIDE DEF highest, dispatched
<1>7. CASE Listener!Drained
  <2>1. Listener!ConsumedThrough = response.latestLedger
    BY <1>3, <1>4, <1>6, <1>7
  <2>2. Cardinality(response.events) < PageSize
    BY <1>5, <1>7
  <2>3. paging' = Listener!NoEvent
    BY <1>7 DEF Listener!AdvanceCursor, Listener!NextPaging
  <2>4. cursor' = IF response.latestLedger + 1 > cursor THEN response.latestLedger + 1 ELSE cursor
    BY <1>1, <1>6, <2>1 DEF Listener!AdvanceCursor
  <2> QED BY <2>2, <2>3, <2>4
<1>8. CASE ~Listener!Drained
  <2>1. Listener!ConsumedThrough = highest
    BY <1>4, <1>8
  <2>2. response.events # {}
    <3>1. Cardinality(response.events) # 0
      BY <1>2, <1>5, <1>8
    <3>2. Cardinality({}) = 0
      BY FS_EmptySet
    <3> QED BY <3>1, <3>2
  <2>3. /\ Listener!LastEvent \in response.events
        /\ \A e \in response.events : ~Listener!Before(Listener!LastEvent, e)
    BY <1>2, <2>2, LastOfEvents DEF Listener!LastEvent
  <2>4. cursor' \in Nat /\ (cursor' = cursor \/ cursor' <= response.latestLedger + 1)
    BY <1>1, <1>3, <1>6, <2>1 DEF Listener!AdvanceCursor
  <2> QED BY <1>5, <1>8, <2>3, <2>4 DEF Listener!AdvanceCursor, Listener!NextPaging
<1> QED BY <1>7, <1>8

(* A page is handled and the position moved behind it.                      *)
LEMMA ProcessKeeps ==
  ASSUME EventIds, ListenerInv, Listener!ProcessResponse
  PROVE  ListenerInv' /\ UNCHANGED chain
         /\ \A e \in Listener!Slots : handled[e] > 0 => handled'[e] > 0
<1>1. /\ poll = "processing" /\ poll' = "saving" /\ response'.events = {}
      /\ Listener!HandTo(response.events \cap Listener!Ours) /\ Listener!AdvanceCursor
      /\ UNCHANGED <<chain, restored, checkpoint, faults>>
  BY DEF Listener!ProcessResponse, Listener!NoResponse
<1>2. Answer(response.latestLedger, response.events) /\ Position(cursor, paging) /\ ChainAndCounts
  BY <1>1 DEF ListenerInv
<1>3. Listener!Ours' = Listener!Ours /\ Listener!Emitted' = Listener!Emitted
  BY <1>1 DEF Listener!Ours, Listener!Emitted
<1>4. /\ ChainAndCounts'
      /\ \A e \in Listener!Slots : handled[e] > 0 => handled'[e] > 0
      /\ \A e \in response.events \cap Listener!Ours : handled'[e] > 0
      /\ \A e \in Listener!Slots : handled'[e] <= handled[e] + 1
      /\ \A e \in Listener!Slots \ (response.events \cap Listener!Ours) : handled'[e] = handled[e]
  BY <1>1, HandingKeepsCounts
<1>5. /\ cursor \in Nat /\ response.latestLedger \in Nat /\ StartLedger \in Nat /\ Len(chain) \in Nat
      /\ response.latestLedger <= Len(chain)
  BY <1>2, PartsAssumption DEF Answer, Position, Listener!ListenerAssumption, ChainAndCounts
<1>6. /\ \A e \in Listener!Emitted : e \in Nat \X Nat /\ e \in Listener!Slots
      /\ response.events \subseteq Listener!Emitted
      /\ paging \in Nat \X Nat
  BY <1>2, EmittedAreSlots, SlotsAreEvents DEF Answer, Position
(* Of the events before the new position, those that were not asked for are *)
(* before the old one.                                                      *)
<1>7. \A e \in Listener!Ours :
        e[1] >= StartLedger /\ e \notin Listener!Matching => handled[e] > 0
  BY <1>2, <1>5, <1>6 DEF Listener!Matching, Listener!Ours, Position, Listener!Passed
<1>8. Position(cursor, paging)'
  <2>1. cursor' \in Nat /\ (cursor' <= Len(chain) + 1 \/ cursor' <= StartLedger)
        /\ (paging' = Listener!NoEvent \/ paging' \in Listener!Emitted)
    BY <1>1, <1>2, <1>5, <1>6, Advanced DEF Position
  <2>2. ASSUME NEW e \in Listener!Ours, e[1] >= StartLedger, e \in Listener!Matching,
               IF paging' # Listener!NoEvent THEN ~Listener!Before(paging', e) ELSE e[1] < cursor'
        PROVE  e \in response.events
    <3>0. e \in Nat \X Nat
      BY <1>6, EmittedAreSlots
    <3>1. CASE Cardinality(response.events) < PageSize
      <4>1. paging' = Listener!NoEvent
            /\ (cursor' = response.latestLedger + 1
                \/ (cursor' = cursor /\ response.latestLedger + 1 <= cursor))
        BY <1>1, <1>5, <3>1, Advanced
      <4>2. e[1] <= response.latestLedger
        BY <1>2, <1>5, <2>2, <3>0, <4>1 DEF Answer
      <4> QED BY <1>2, <2>2, <3>1, <4>2 DEF Answer
    <3>2. CASE ~(Cardinality(response.events) < PageSize)
      <4>1. paging' \in response.events
        BY <1>1, <3>2, Advanced
      <4>2. paging' # Listener!NoEvent /\ paging' \in Nat \X Nat
        BY <1>6, <4>1, SlotsAreEvents
      <4>3. e = paging' \/ Listener!Before(e, paging')
        BY <2>2, <3>0, <4>2, BeforeIsAnOrder
      <4> QED BY <1>2, <2>2, <4>1, <4>3 DEF Answer
    <3> QED BY <3>1, <3>2
  <2>3. \A e \in Listener!Passed(cursor, paging)' : handled'[e] > 0
    BY <1>3, <1>4, <1>6, <1>7, <2>2 DEF Listener!Passed, Listener!Ours
  <2> QED BY <1>1, <1>3, <2>1, <2>3 DEF Position
<1>9. (checkpoint # Listener!NoCheckpoint => Position(checkpoint.nextLedger, checkpoint.eventCursor))'
  BY <1>1, <1>3, <1>4, EmittedAreSlots DEF ListenerInv, Position, Listener!Passed
<1>10. ASSUME faults' = 0 PROVE OnceBefore'
  <2>1. OnceBefore
    BY <1>1, <1>10 DEF ListenerInv
  <2>2. ASSUME NEW e \in Listener!Slots
        PROVE  /\ handled'[e] <= 1
               /\ handled'[e] > 0 =>
                    IF paging' # Listener!NoEvent THEN ~Listener!Before(paging', e) ELSE e[1] < cursor'
    <3>0. e \in Nat \X Nat /\ handled[e] \in Nat /\ handled'[e] \in Nat
      BY <1>2, <1>4, SlotsAreEvents DEF ChainAndCounts
    <3>1. CASE e \in response.events \cap Listener!Ours
      <4>1. ~(handled[e] > 0)
        BY <1>2, <1>5, <2>1, <3>0, <3>1 DEF Answer, OnceBefore, Listener!Matching
      <4>2. e[1] <= response.latestLedger
        BY <1>2, <3>1 DEF Answer
      <4>3. IF paging' # Listener!NoEvent THEN ~Listener!Before(paging', e) ELSE e[1] < cursor'
        BY <1>1, <1>5, <1>6, <3>0, <3>1, <4>2, Advanced, SlotsAreEvents
      <4> QED BY <1>4, <3>0, <4>1, <4>3
    <3>2. CASE e \notin response.events \cap Listener!Ours
      <4>1. handled'[e] = handled[e]
        BY <1>4, <3>2
      <4>2. ASSUME handled[e] > 0
            PROVE  IF paging' # Listener!NoEvent THEN ~Listener!Before(paging', e) ELSE e[1] < cursor'
        <5>1. IF paging # Listener!NoEvent THEN ~Listener!Before(paging, e) ELSE e[1] < cursor
          BY <2>1, <4>2 DEF OnceBefore
        <5>2. CASE Cardinality(response.events) < PageSize
          <6>1. paging' = Listener!NoEvent /\ cursor' >= cursor /\ cursor' > response.latestLedger
            BY <1>1, <1>5, <5>2, Advanced
          <6>2. paging # Listener!NoEvent => e[1] <= paging[1] /\ paging[1] <= response.latestLedger
            BY <1>2, <1>6, <3>0, <5>1, BeforeIsAnOrder DEF Answer
          <6>3. cursor' \in Nat /\ e[1] \in Nat /\ paging[1] \in Nat
            BY <1>1, <1>5, <1>6, <3>0, <5>2, Advanced
          <6> QED BY <1>5, <5>1, <6>1, <6>2, <6>3
        <5>3. CASE ~(Cardinality(response.events) < PageSize)
          <6>1. paging' \in response.events /\ paging' \in Listener!Matching
            BY <1>1, <1>2, <5>3, Advanced DEF Answer
          <6>2. paging' # Listener!NoEvent /\ paging' \in Nat \X Nat
            BY <1>6, <6>1, SlotsAreEvents
          <6>3. CASE paging # Listener!NoEvent
            <7>1. Listener!Before(paging, paging')
              BY <6>1, <6>3 DEF Listener!Matching
            <7> QED BY <1>6, <3>0, <5>1, <6>2, <6>3, <7>1, BeforeIsAnOrder
          <6>4. CASE paging = Listener!NoEvent
            <7>1. e[1] < cursor /\ cursor <= paging'[1]
              BY <5>1, <6>1, <6>4 DEF Listener!Matching
            <7> QED BY <1>5, <3>0, <6>2, <7>1 DEF Listener!Before
          <6> QED BY <6>3, <6>4
        <5> QED BY <5>2, <5>3
      <4>3. handled[e] <= 1
        BY <2>1 DEF OnceBefore
      <4> QED BY <4>1, <4>2, <4>3
    <3> QED BY <3>1, <3>2
  <2> QED BY <1>1, <2>1, <2>2 DEF OnceBefore
<1> QED BY <1>1, <1>4, <1>8, <1>9, <1>10 DEF ListenerInv

(* Every step of the listener keeps its invariant.                          *)
LEMMA ListenerNextKeeps ==
  ASSUME EventIds, ListenerInv, Listener!Next
  PROVE  ListenerInv'
  BY CloseLedgerKeeps, QuietStepsKeep, FetchKeeps, FailuresKeep, ProcessKeeps
  DEF Listener!Next, Listener!PollStep, Listener!FaultStep

(* A step of the listener is one of the delivery in order, or none.         *)
LEMMA ListenerDelivers ==
  ASSUME EventIds, ListenerInv, Listener!Next
  PROVE  [Listener!Delivery!Next]_(Listener!Delivery!dvars)
<1> DEFINE emitted == {e \in Listener!Ours : e[1] >= StartLedger}
           done    == {e \in Listener!Ours : e[1] >= StartLedger /\ handled[e] > 0}
<1>1. ListenerInv' /\ ChainAndCounts /\ ChainAndCounts'
  BY ListenerNextKeeps DEF ListenerInv
<1>2. CASE Listener!CloseLedger
  <2>1. /\ Listener!Emitted \subseteq Listener!Emitted'
        /\ \A e \in Listener!Emitted : e \in Listener!Ours <=> e \in Listener!Ours'
        /\ \A e \in Listener!Emitted' \ Listener!Emitted : e[1] = Len(chain) + 1
        /\ Len(chain) \in Nat
    BY <1>1, <1>2, ChainGrows DEF ChainAndCounts
  <2>2. UNCHANGED handled
    BY <1>2 DEF Listener!CloseLedger
  <2>3. /\ Listener!Ours \subseteq Listener!Emitted /\ Listener!Ours' \subseteq Listener!Emitted'
        /\ Listener!Emitted \subseteq Listener!Slots /\ Listener!Emitted' \subseteq Listener!Slots
        /\ \A e \in Listener!Emitted : e \in Nat \X Nat /\ e[1] <= Len(chain)
    BY EmittedAreSlots DEF Listener!Ours, Listener!Emitted
  <2>4. emitted \subseteq emitted'
    BY <2>1, <2>3
  <2>5. \A e \in emitted' \ emitted, f \in emitted : Listener!Delivery!Before(f, e)
    <3>1. \A e \in emitted' \ emitted : e[1] = Len(chain) + 1
      BY <2>1, <2>3
    <3> QED BY <2>1, <2>3, <3>1 DEF Listener!Delivery!Before
  <2>6. done' = done
    BY <1>1, <2>1, <2>2, <2>3 DEF ChainAndCounts
  <2> QED BY <2>4, <2>5, <2>6 DEF Listener!Delivery!Next, Listener!Delivery!Emit
<1>3. CASE ~Listener!CloseLedger
  <2>1. UNCHANGED chain /\ \A e \in Listener!Slots : handled[e] > 0 => handled'[e] > 0
    <3>1. CASE Listener!ProcessResponse \/ Listener!HandlerThrows \/ Listener!Crash
      BY <3>1, ProcessKeeps, FailuresKeep
    <3>2. CASE ~(Listener!ProcessResponse \/ Listener!HandlerThrows \/ Listener!Crash)
      BY <1>3, <3>2 DEF Listener!Next, Listener!PollStep, Listener!FaultStep, Listener!BeginPoll,
         Listener!Restore, Listener!RestoreFails, Listener!Fetch, Listener!FetchFails, Listener!Persist,
         Listener!PersistFails, Listener!Restart
    <3> QED BY <3>1, <3>2
  <2>2. Listener!Ours' = Listener!Ours /\ Listener!Ours \subseteq Listener!Slots
    BY <2>1, EmittedAreSlots DEF Listener!Ours, Listener!Emitted
  <2>3. emitted' = emitted /\ done \subseteq done' /\ done' \subseteq emitted
    BY <2>1, <2>2
  <2>4. \A e \in done', f \in emitted : Listener!Delivery!Before(f, e) => f \in done'
    BY <1>1, <2>2 DEF ChainAndCounts, Listener!Delivery!Before, Listener!Before
  <2> QED BY <2>3, <2>4 DEF Listener!Delivery!Next, Listener!Delivery!Handle
<1> QED BY <1>2, <1>3

-----------------------------------------------------------------------------
(* A behaviour is one of a single part.                                     *)

(* A step of the keepers is one of the part a behaviour is of; the listener *)
(* otherwise stays as it is.                                                *)
LEMMA OneOfAll ==
  ASSUME [KeepersNext]_keeperVars
  PROVE  /\ part' = part
         /\ IF part = "listener" THEN Listener!Next \/ UNCHANGED <<listenerVars, faults>>
            ELSE UNCHANGED listenerVars
  BY DEF KeepersNext, keeperVars, RebalancerMoves, LimiterDoes, BackoffDoes, ListenerDoes, MonitorMoves,
         ScannerMoves, HarvesterMoves

ListenerFresh ==
  /\ chain = <<>> /\ poll = "idle" /\ cursor = StartLedger /\ paging = Listener!NoEvent
  /\ restored = FALSE /\ response = Listener!NoResponse /\ checkpoint = Listener!NoCheckpoint
  /\ handled = [e \in Listener!Slots |-> 0]

ListenerHolds ==
  IF part = "listener" THEN ListenerInv ELSE ListenerFresh

(* A listener as it is made satisfies the invariant.                        *)
LEMMA FreshListenerHolds ==
  ASSUME ListenerFresh
  PROVE  /\ Listener!Emitted = {} /\ NothingSkipped /\ RepeatsOnlyAfterFaults
         /\ faults = 0 => ListenerInv
<1>1. Listener!Emitted = {}
  BY PartsAssumption, SlotsAreEvents DEF ListenerFresh, Listener!Emitted, Listener!Slots
<1>2. Listener!Ours = {} /\ Listener!Matching = {}
  BY <1>1, EmittedAreSlots
<1>3. NothingSkipped /\ RepeatsOnlyAfterFaults
  BY <1>2 DEF ListenerFresh, NothingSkipped, Listener!NothingSkipped, Listener!Passed,
       RepeatsOnlyAfterFaults, Listener!RepeatsOnlyAfterFaults
<1>4. ChainAndCounts
  BY <1>2 DEF ListenerFresh, ChainAndCounts
<1>5. Position(cursor, paging)
  BY StartIsAPosition DEF ListenerFresh
<1>6. OnceBefore
  BY DEF ListenerFresh, OnceBefore
<1> QED BY <1>1, <1>3, <1>4, <1>5, <1>6 DEF ListenerFresh, ListenerInv, Listener!NoResponse

(* The invariant, for the listener of every behaviour of the keepers.       *)
LEMMA ListenerInvariant ==
  ASSUME EventIds
  PROVE  KeepersSpec => []ListenerHolds
<1>1. KeepersInit => ListenerHolds
  BY FreshListenerHolds DEF KeepersInit, Listener!Init, ListenerHolds, ListenerFresh
<1>2. ListenerHolds /\ [KeepersNext]_keeperVars => ListenerHolds'
  <2> SUFFICES ASSUME ListenerHolds, [KeepersNext]_keeperVars PROVE ListenerHolds'
    OBVIOUS
  <2>1. CASE part # "listener"
    BY <2>1, OneOfAll DEF ListenerHolds, ListenerFresh, listenerVars
  <2>2. CASE part = "listener" /\ Listener!Next
    BY <2>2, OneOfAll, ListenerNextKeeps DEF ListenerHolds
  <2>3. CASE part = "listener" /\ UNCHANGED <<listenerVars, faults>>
    BY <2>3, OneOfAll DEF ListenerHolds, ListenerInv, ChainAndCounts, Position, Answer, OnceBefore,
       listenerVars, Listener!Ours, Listener!Emitted, Listener!Matching, Listener!Passed
  <2> QED BY <2>1, <2>2, <2>3, OneOfAll
<1> QED BY <1>1, <1>2, PTL DEF KeepersSpec

(* Neither position ever passes an event that no handler got.               *)
THEOREM NothingIsSkipped ==
  ASSUME EventIds
  PROVE  KeepersSpec => []NothingSkipped
<1>1. ListenerHolds => NothingSkipped
  BY FreshListenerHolds DEF ListenerHolds, ListenerInv, Position, NothingSkipped, Listener!NothingSkipped
<1> QED BY <1>1, ListenerInvariant, PTL

(* Without a fault no event is handled twice.                               *)
THEOREM RepeatsAreOfFaults ==
  ASSUME EventIds
  PROVE  KeepersSpec => []RepeatsOnlyAfterFaults
<1>1. ListenerHolds => RepeatsOnlyAfterFaults
  BY FreshListenerHolds
  DEF ListenerHolds, ListenerInv, OnceBefore, RepeatsOnlyAfterFaults, Listener!RepeatsOnlyAfterFaults
<1> QED BY <1>1, ListenerInvariant, PTL

(* The listener implements the delivery in order.                           *)
THEOREM ListenerDeliversInOrder ==
  ASSUME EventIds
  PROVE  KeepersSpec => DeliveredInOrder
<1>1. KeepersInit => Listener!Delivery!Init
  <2> SUFFICES ASSUME KeepersInit PROVE Listener!Delivery!Init
    OBVIOUS
  <2>1. ListenerFresh
    BY DEF KeepersInit, Listener!Init, ListenerFresh
  <2>2. Listener!Ours = {}
    BY <2>1, FreshListenerHolds, EmittedAreSlots
  <2> QED BY <2>2 DEF Listener!Delivery!Init
<1>2. ListenerHolds /\ [KeepersNext]_keeperVars => [Listener!Delivery!Next]_(Listener!Delivery!dvars)
  <2> SUFFICES ASSUME ListenerHolds, [KeepersNext]_keeperVars
               PROVE  [Listener!Delivery!Next]_(Listener!Delivery!dvars)
    OBVIOUS
  <2>1. CASE part = "listener" /\ Listener!Next
    BY <2>1, ListenerDelivers DEF ListenerHolds
  <2>2. CASE UNCHANGED listenerVars
    BY <2>2 DEF listenerVars, Listener!Delivery!dvars, Listener!Ours, Listener!Emitted
  <2> QED BY <2>1, <2>2, OneOfAll
<1> QED BY <1>1, <1>2, ListenerInvariant, PTL
    DEF KeepersSpec, DeliveredInOrder, Listener!DeliveredInOrder, Listener!Delivery!Spec
=============================================================================
