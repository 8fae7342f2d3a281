---------------------------- MODULE KeeperBackoff ----------------------------
(***************************************************************************)
(* The durable backoff of a keeper loop, sdk/src/keeperBackoff.ts.          *)
(*                                                                          *)
(* A keeper calls tick at an interval. A tick runs the task unless an       *)
(* earlier failure asked for a wait, and records how the task ended; the    *)
(* record goes to a store, from which a restarted process resumes. A tick   *)
(* is several steps, one per await, and ticks may overlap: nothing in tick  *)
(* keeps a second call out while the first one waits for its task.          *)
(*                                                                          *)
(* Times are kept relative to the clock: a wait is nextAttemptAt - now, so  *)
(* that the passing of time counts it down. Below Never it is forgotten:    *)
(* the clock is set back by at most MaxBack in all, and a time so long past *)
(* cannot lie ahead again. nextAttemptAt = 0 is Never as well.              *)
(*                                                                          *)
(* The texts of errors, updatedAt and the callbacks onBackoff and onRecover *)
(* are left out; callbacks are assumed not to throw.                        *)
(***************************************************************************)
EXTENDS Integers, FiniteSets

CONSTANTS
  Ticks,               \* the calls of tick that may be under way at once
  baseMs, maxMs, factor, startAfterFailures,   \* the policy
  JitterPercent,       \* 100 * jitterRatio
  MaxFailures,         \* the count of failures is not followed beyond this
  MaxBack,             \* bound on how far the clock is set back in all
  MaxFaults            \* bound on crashes and failures of the store together

(* validatePolicy, and a bound that the longest wait is reached within.     *)
PolicyAssumption ==
  /\ baseMs \in Nat \ {0} /\ maxMs \in Nat /\ maxMs >= baseMs
  /\ factor \in Nat \ {0} /\ startAfterFailures \in Nat \ {0}
  /\ JitterPercent \in 0..100
  /\ MaxFailures \in Nat /\ MaxFailures >= startAfterFailures
  /\ MaxBack \in Nat /\ MaxFaults \in Nat

Never == -MaxBack

VARIABLES
  failures,    \* state.consecutiveFailures
  wait,        \* state.nextAttemptAt, relative to the clock
  loaded,      \* init has begun
  up,          \* the process is alive
  pc,          \* of every tick: "idle", "loading", "running" or "saving"
  saving,      \* what a tick is writing to the store
  store,       \* the stored state, or NoState
  back,        \* how far the clock was set back
  faults       \* crashes and store failures so far

memory == <<failures, wait>>
vars == <<memory, loaded, up, pc, saving, store, back, faults>>

NoState == [failures |-> -1, wait |-> Never]
Empty   == [failures |-> 0, wait |-> Never]

Least(a, b) == IF a < b THEN a ELSE b

Init ==
  /\ failures = 0 /\ wait = Never
  /\ loaded = FALSE
  /\ up = TRUE
  /\ pc = [t \in Ticks |-> "idle"]
  /\ saving = [t \in Ticks |-> Empty]
  /\ store = NoState
  /\ back = 0
  /\ faults = 0

Fault == faults < MaxFaults /\ faults' = faults + 1

(* remainingMs > 0: the tick is skipped; otherwise the task is started.     *)
SkipOrRun(t, w) == pc' = [pc EXCEPT ![t] = IF w > 0 THEN "idle" ELSE "running"]

(* Mutant: the tick does not wait for the load.                             *)
BeginTickAtOnce(t) ==
  /\ up /\ pc[t] = "idle"
  /\ loaded' = TRUE
  /\ SkipOrRun(t, wait)
  /\ UNCHANGED <<memory, up, saving, store, back, faults>>

(* Mutant: a skipped tick asks for the longest wait again.                  *)
BeginTickCountsSkips(t) ==
  /\ up /\ pc[t] = "idle"
  /\ \/ /\ ~loaded
        /\ loaded' = TRUE
        /\ pc' = [pc EXCEPT ![t] = "loading"]
        /\ UNCHANGED memory
     \/ /\ loaded
        /\ SkipOrRun(t, wait)
        /\ wait' = IF wait > 0 THEN maxMs ELSE wait
        /\ UNCHANGED <<loaded, failures>>
  /\ UNCHANGED <<up, saving, store, back, faults>>

(* tick: the first one of a process loads the state. The flag is set before *)
(* the load has answered.                                                   *)
BeginTick(t) ==
  /\ up /\ pc[t] = "idle"
  /\ \/ /\ ~loaded
        /\ loaded' = TRUE
        /\ pc' = [pc EXCEPT ![t] = "loading"]
     \/ /\ loaded
        /\ SkipOrRun(t, wait)
        /\ UNCHANGED loaded
  /\ UNCHANGED <<memory, up, saving, store, back, faults>>

(* init: no wait beyond maxMs is believed.                                  *)
Plausible(w) == Least(w, maxMs)

(* init: the stored state replaces the one in memory.                       *)
Load(t) ==
  /\ pc[t] = "loading"
  /\ IF store = NoState
     THEN /\ SkipOrRun(t, wait)
          /\ UNCHANGED memory
     ELSE /\ failures' = store.failures
          /\ wait' = Plausible(store.wait)
          /\ SkipOrRun(t, Plausible(store.wait))
  /\ UNCHANGED <<loaded, up, saving, store, back, faults>>

(* An unreadable store does not stop the keeper.                            *)
LoadFails(t) ==
  /\ pc[t] = "loading"
  /\ Fault
  /\ SkipOrRun(t, wait)
  /\ UNCHANGED <<memory, loaded, up, saving, store, back>>

Save(t) ==
  /\ pc' = [pc EXCEPT ![t] = "saving"]
  /\ saving' = [saving EXCEPT ![t] = [failures |-> failures', wait |-> wait']]

(* recordSuccess: there is nothing to write when nothing was recorded.      *)
TaskSucceeds(t) ==
  /\ pc[t] = "running"
  /\ \/ /\ failures = 0 /\ wait = Never
        /\ pc' = [pc EXCEPT ![t] = "idle"]
        /\ UNCHANGED <<memory, saving>>
     \/ /\ ~(failures = 0 /\ wait = Never)
        /\ failures' = 0
        /\ wait' = Never
        /\ Save(t)
  /\ UNCHANGED <<loaded, up, store, back, faults>>

(* backoffDelayMs before jitter.                                            *)
RawDelay(n) == Least(maxMs, baseMs * factor ^ (n - startAfterFailures))

(* Jitter shortens a delay, never to nothing.                               *)
Delays(n) ==
  IF n < startAfterFailures THEN {Never}
  ELSE {d \in 1..RawDelay(n) : 100 * d >= RawDelay(n) * (100 - JitterPercent)}

(* recordFailure.                                                           *)
TaskFails(t) ==
  /\ pc[t] = "running"
  /\ failures' = Least(failures + 1, MaxFailures)
  /\ wait' \in Delays(failures + 1)
  /\ Save(t)
  /\ UNCHANGED <<loaded, up, store, back, faults>>

(* persist.                                                                 *)
Persist(t) ==
  /\ pc[t] = "saving"
  /\ store' = saving[t]
  /\ pc' = [pc EXCEPT ![t] = "idle"]
  /\ saving' = [saving EXCEPT ![t] = Empty]
  /\ UNCHANGED <<memory, loaded, up, back, faults>>

PersistFails(t) ==
  /\ pc[t] = "saving"
  /\ Fault
  /\ pc' = [pc EXCEPT ![t] = "idle"]
  /\ saving' = [saving EXCEPT ![t] = Empty]
  /\ UNCHANGED <<memory, loaded, up, store, back>>

Crash ==
  /\ up /\ Fault
  /\ up' = FALSE
  /\ failures' = 0 /\ wait' = Never
  /\ loaded' = FALSE
  /\ pc' = [t \in Ticks |-> "idle"]
  /\ saving' = [t \in Ticks |-> Empty]
  /\ UNCHANGED <<store, back>>

Restart ==
  /\ ~up
  /\ up' = TRUE
  /\ UNCHANGED <<memory, loaded, pc, saving, store, back, faults>>

(* The clock moves by d: every time recorded comes nearer or moves away.    *)
Moved(w, d) == IF w = Never THEN Never ELSE w - d

ClockMoves(d) ==
  /\ wait' = Moved(wait, d)
  /\ saving' = [t \in Ticks |-> [saving[t] EXCEPT !.wait = Moved(@, d)]]
  /\ store' = [store EXCEPT !.wait = Moved(@, d)]
  /\ UNCHANGED <<failures, loaded, up, pc, faults>>

Recorded == {wait, store.wait} \cup {saving[t].wait : t \in Ticks}

(* Time passes.                                                             *)
Tick ==
  /\ \E w \in Recorded : w # Never
  /\ ClockMoves(1)
  /\ UNCHANGED back

(* The clock is set back between two processes.                             *)
ClockBack ==
  /\ back < MaxBack
  /\ ~up
  /\ ClockMoves(-1)
  /\ back' = back + 1

-----------------------------------------------------------------------------
TickStep(t) == BeginTick(t) \/ Load(t) \/ TaskSucceeds(t) \/ TaskFails(t) \/ Persist(t)

Next ==
  \/ \E t \in Ticks : TickStep(t) \/ LoadFails(t) \/ PersistFails(t)
  \/ Crash \/ Restart \/ Tick \/ ClockBack

Spec == Init /\ [][Next]_vars

(* The keeper keeps calling tick, every await settles, a process that died  *)
(* is started again and time passes.                                        *)
FairSpec ==
  /\ Spec
  /\ \A t \in Ticks : WF_vars(TickStep(t))
  /\ WF_vars(Restart) /\ WF_vars(Tick)

-----------------------------------------------------------------------------
(* Properties.                                                             *)

(* The wait the keeper owes: of the store as long as a process has not      *)
(* taken over the stored state, of its own state afterwards.                *)
Loading == \E t \in Ticks : pc[t] = "loading"

Owed ==
  IF loaded /\ ~Loading THEN wait
  ELSE IF store = NoState THEN Never ELSE Plausible(store.wait)

Starting(t) == pc[t] # "running" /\ pc'[t] = "running" /\ ~LoadFails(t)

(* No task is started before the wait is over, not even by a process that   *)
(* was restarted in between or by a tick that overlaps with another; the    *)
(* excuses are a store that cannot be read and one still being read.        *)
WaitRespected == [][\A t \in Ticks : Starting(t) /\ ~Loading => Owed <= 0]_vars

(* The backoff never parks the keeper: it tries again and again.            *)
KeepsTrying == []<>(\E t \in Ticks : pc[t] = "running")
=============================================================================
