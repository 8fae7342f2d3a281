--------------------------- MODULE RebalanceEngine ---------------------------
(***************************************************************************)
(* The rebalance engine contract, src/rebalance_engine.rs: rebalances and   *)
(* flash rebalances between pools, the pacing of what leaves a pool, the    *)
(* cooldown of vaults, the exclusion of feeds and the three breakers. A     *)
(* call is one step; a call that panics is undone and is no step, and a     *)
(* call that returns false without a trace is none either.                  *)
(*                                                                          *)
(* Left out: the registry of APYs and what only reads it (the search for    *)
(* opportunities, the APYs in the history), slippage in basis points, which *)
(* compares amount_b with itself, cost estimates, time stamps nothing       *)
(* reads, and names and risk levels of strategies. A strategy is the set of *)
(* its pools; some split into 10000 basis points exists for every nonempty  *)
(* one.                                                                     *)
(***************************************************************************)
EXTENDS Sums, Sequences, FiniteSets

CONSTANTS
  Pools,            \* pools, each of them its own token contract
  Vaults,           \* vaults flash rebalances are made for
  PoolOf,           \* pool_id in the vault's own get_vault_info
  Amounts,          \* amount_a, amount_b and amount of calls
  HeldAtFirst,      \* tokens every pool, and the engine of it, hold at first
  PacingSettings,   \* [max, seconds] the admin sets
  DefaultCooldown,  \* cooldown_period until it is set
  Cooldowns,        \* cooldown_period the admin sets
  DefaultThreshold, \* DEFAULT_FEED_FAILURE_THRESHOLD
  Thresholds,       \* feed and breaker thresholds the admin sets
  StopWindow,       \* EMERGENCY_STOP_WINDOW
  HistoryLimit,     \* entries add_to_history keeps
  StrategyLimit,    \* bound on strategies
  MaxCalls,         \* bound on calls other than pauses
  MaxTime           \* bound on the ledger timestamp

(* What the theorems on the engine assume of an instance.                   *)
EngineAssumption ==
  /\ MaxTime \in Nat \ {0}
  /\ Amounts \subseteq Nat
  /\ \A v \in Vaults : PoolOf[v] \in Pools
  /\ \A s \in PacingSettings : s \in [max: Nat, seconds: Nat]
  /\ StopWindow \in Nat /\ HistoryLimit \in Nat /\ StopWindow <= HistoryLimit
  /\ Thresholds \subseteq Nat

VARIABLES
  held,             \* tokens of every pool that the pool holds
  in_transit,       \* tokens of every pool that the engine holds
  pacing,           \* rebalance_pacing
  windows,          \* rebalance_pool_windows
  history,          \* the pools and the result of every rebalance
  feeds,            \* feed_validation
  feed_threshold,   \* feed_failure_threshold
  last_rebalance,   \* vault_last_rebalance_times; 0 is none
  cooldown,         \* cooldown_period of the thresholds
  strategies,       \* the pools of every strategy, in order of creation
  breaker_threshold,\* pool_breaker_thresh and strat_breaker_thresh
  calls,            \* number of calls other than pauses
  outflow,          \* history: what left every pool at every time
  pacing_since,     \* history: when pacing was last set
  paused,
  now               \* ledger timestamp

tokenVars   == <<held, in_transit, outflow>>
pacingVars  == <<pacing, pacing_since>>
feedVars    == <<feeds, feed_threshold>>
breakerVars == <<strategies, breaker_threshold>>
vars == <<tokenVars, pacingVars, windows, history, feedVars, last_rebalance, cooldown,
          breakerVars, calls, paused, now>>

NoWindow == [active |-> FALSE, started |-> 0, moved |-> 0]
NoFailures == [failures |-> 0, excluded |-> FALSE]

(* A breaker watches one pool or the pools of one strategy.                 *)
Breakers == {<<"pool", p>> : p \in Pools} \cup {<<"strategy", id>> : id \in 1..StrategyLimit}

Init ==
  /\ held = [p \in Pools |-> HeldAtFirst]
  /\ in_transit = [p \in Pools |-> HeldAtFirst]
  /\ pacing = [max |-> 0, seconds |-> 0]
  /\ windows = [p \in Pools |-> NoWindow]
  /\ history = <<>>
  /\ feeds = [p \in Pools |-> NoFailures]
  /\ feed_threshold = DefaultThreshold
  /\ last_rebalance = [v \in Vaults |-> 0]
  /\ cooldown = DefaultCooldown
  /\ strategies = <<>>
  /\ breaker_threshold = [b \in Breakers |-> StopWindow]
  /\ calls = 0
  /\ outflow = [p \in Pools |-> [t \in 1..MaxTime |-> 0]]
  /\ pacing_since = 1
  /\ paused = FALSE
  /\ now = 1

-----------------------------------------------------------------------------
(* Pacing.                                                                 *)

PacingOn == pacing.max > 0 /\ pacing.seconds > 0

(* The window of pool p that a move now belongs to.                         *)
CurrentWindow(p) ==
  IF windows[p].active /\ now - windows[p].started < pacing.seconds
  THEN windows[p]
  ELSE [active |-> TRUE, started |-> now, moved |-> 0]

PacingAllows(p, amount) == PacingOn => CurrentWindow(p).moved + amount <= pacing.max

(* Mutant: the usage is added up and not stored.                            *)
RecordPacingNotStored(p, amount) == UNCHANGED windows

RecordPacing(p, amount) ==
  windows' = IF PacingOn
             THEN [windows EXCEPT ![p] = [CurrentWindow(p) EXCEPT !.moved = @ + amount]]
             ELSE windows

SetRebalancePacing(setting) ==
  /\ pacing' = setting
  /\ pacing_since' = now
  /\ UNCHANGED <<tokenVars, windows, history, feedVars, last_rebalance, cooldown, breakerVars,
                 paused, now>>

-----------------------------------------------------------------------------
(* Rebalances.                                                             *)

(* perform_rebalance: a tokens go from pool p to the engine, b tokens from  *)
(* the engine to pool q; a transfer that cannot be covered panics. In all,  *)
(* left leaves the pool p.                                                  *)
Transfers(p, q, a, b, left) ==
  LET ofP == [held |-> held[p] - a, in_transit |-> in_transit[p] + a]
  IN  /\ ofP.held >= 0
      /\ held' = [held EXCEPT ![p] = @ - a, ![q] = @ + b]
      /\ in_transit' = [in_transit EXCEPT ![p] = @ + a, ![q] = @ - b]
      /\ in_transit'[q] >= 0
      /\ outflow' = [outflow EXCEPT ![p][now] = @ + left]

Logged(touched, success) ==
  LET entries == Append(history, [pools |-> touched, success |-> success])
  IN  history' = IF Len(entries) > HistoryLimit THEN Tail(entries) ELSE entries

(* slippage_allows with a min_output the caller chooses: nothing else       *)
(* depends on it.                                                           *)
SlippageAllows(b) == b > 0

(* execute_rebalance. The history keeps failures as well, and the only one  *)
(* that is not undone is a move without an amount_a.                        *)
ExecuteRebalance(p, q, a, b) ==
  /\ ~paused
  /\ PacingAllows(p, a + b)
  /\ SlippageAllows(b)
  /\ Logged({p, q}, a > 0)
  /\ IF a > 0
     THEN Transfers(p, q, a, b, a) /\ RecordPacing(p, a + b)
     ELSE UNCHANGED <<tokenVars, windows>>
  /\ UNCHANGED <<pacingVars, feedVars, last_rebalance, cooldown, breakerVars, paused,
                 now>>

InCooldown(v) == last_rebalance[v] # 0 /\ now - last_rebalance[v] < cooldown

(* execute_flash_rebalance: amount leaves the vault's pool for the engine   *)
(* and comes back, then leaves it again for pool q. No history is kept.     *)
ExecuteFlashRebalance(v, q, amount) ==
  /\ ~paused
  /\ ~feeds[q].excluded
  /\ ~InCooldown(v)
  /\ PacingAllows(PoolOf[v], 2 * amount)
  /\ amount > 0
  /\ Transfers(PoolOf[v], q, amount, amount, 2 * amount)
  /\ RecordPacing(PoolOf[v], 2 * amount)
  /\ last_rebalance' = [last_rebalance EXCEPT ![v] = now]
  /\ UNCHANGED <<pacingVars, history, feedVars, cooldown, breakerVars, paused, now>>

SetRebalanceThresholds(period) ==
  /\ cooldown' = period
  /\ UNCHANGED <<tokenVars, pacingVars, windows, history, feedVars, last_rebalance, breakerVars,
                 paused, now>>

-----------------------------------------------------------------------------
(* Validation of feeds.                                                    *)

RecordFeedValidationFailure(p) ==
  /\ ~paused
  /\ LET failures == feeds[p].failures + 1
     IN  feeds' = [feeds EXCEPT ![p] =
           [failures |-> failures,
            excluded |-> @.excluded \/ (feed_threshold > 0 /\ failures >= feed_threshold)]]
  /\ UNCHANGED <<tokenVars, pacingVars, windows, history, feed_threshold, last_rebalance, cooldown,
                 breakerVars, paused, now>>

RecordFeedValidationSuccess(p) ==
  /\ ~paused
  /\ feeds[p] # NoFailures
  /\ feeds' = [feeds EXCEPT ![p] = NoFailures]
  /\ UNCHANGED <<tokenVars, pacingVars, windows, history, feed_threshold, last_rebalance, cooldown,
                 breakerVars, paused, now>>

SetFeedFailureThreshold(threshold) ==
  /\ feed_threshold' = threshold
  /\ UNCHANGED <<tokenVars, pacingVars, windows, history, feeds, last_rebalance, cooldown,
                 breakerVars, paused, now>>

-----------------------------------------------------------------------------
(* Strategies and breakers.                                                *)

SetStrategies(new) ==
  /\ ~paused
  /\ strategies' = new
  /\ UNCHANGED <<tokenVars, pacingVars, windows, history, feedVars, last_rebalance, cooldown,
                 breaker_threshold, paused, now>>

CreateStrategy(pools) ==
  /\ Len(strategies) < StrategyLimit
  /\ SetStrategies(Append(strategies, pools))

UpdateStrategy(id, pools) == SetStrategies([strategies EXCEPT ![id] = pools])

(* set_pool_breaker_threshold and set_strategy_breaker_threshold, which     *)
(* does not ask whether there is such a strategy.                           *)
SetBreakerThreshold(breaker, threshold) ==
  /\ threshold > 0
  /\ breaker_threshold' = [breaker_threshold EXCEPT ![breaker] = threshold]
  /\ UNCHANGED <<tokenVars, pacingVars, windows, history, feedVars, last_rebalance, cooldown,
                 strategies, paused, now>>

(* The newest threshold entries of a history are failures.                  *)
AllFailed(entries, threshold) ==
  /\ Len(entries) >= threshold
  /\ \A i \in Len(entries) - threshold + 1 .. Len(entries) : ~entries[i].success

(* Mutant: the newest entries count if they touch the pools, not the newest *)
(* of those that touch them.                                                *)
TripsOnNewest(pools, threshold) ==
  /\ AllFailed(history, threshold)
  /\ \A i \in Len(history) - threshold + 1 .. Len(history) : history[i].pools \cap pools # {}

(* What the pool breaker and the strategy breaker look at: the newest       *)
(* threshold entries of those that touch one of the pools.                  *)
Touching(pools) == {i \in DOMAIN history : history[i].pools \cap pools # {}}

Newest(indices, n) == {i \in indices : Cardinality({j \in indices : j >= i}) <= n}

Trips(pools, threshold) ==
  /\ Cardinality(Touching(pools)) >= threshold
  /\ \A i \in Newest(Touching(pools), threshold) : ~history[i].success

(* A strategy that does not exist has no pools, and its breaker does not    *)
(* trip.                                                                    *)
PoolsWatched(breaker) ==
  CASE breaker[1] = "pool" -> {breaker[2]}
    [] breaker[2] \in DOMAIN strategies -> strategies[breaker[2]]
    [] OTHER -> {}

BreakerTripped(breaker) == Trips(PoolsWatched(breaker), breaker_threshold[breaker])

(* is_emergency_stop_triggered.                                             *)
EmergencyStopTriggered == AllFailed(history, StopWindow)

SetPaused(flag) ==
  /\ paused # flag
  /\ paused' = flag
  /\ UNCHANGED <<tokenVars, pacingVars, windows, history, feedVars, last_rebalance, cooldown,
                 breakerVars, calls, now>>

CheckEmergencyStop == EmergencyStopTriggered /\ SetPaused(TRUE)

(* check_pool_emergency_stop and check_strategy_emergency_stop.             *)
CheckBreaker(breaker) == BreakerTripped(breaker) /\ SetPaused(TRUE)

(* Ledgers close.                                                           *)
Tick ==
  /\ now < MaxTime
  /\ now' = now + 1
  /\ UNCHANGED <<tokenVars, pacingVars, windows, history, feedVars, last_rebalance, cooldown,
                 breakerVars, calls, paused>>

-----------------------------------------------------------------------------
(* A setting that is already in force is no step.                           *)
Setting ==
  \/ \E s \in PacingSettings \ {pacing} : SetRebalancePacing(s)
  \/ \E period \in Cooldowns \ {cooldown} : SetRebalanceThresholds(period)
  \/ \E threshold \in Thresholds \ {feed_threshold} : SetFeedFailureThreshold(threshold)
  \/ \E b \in Breakers : \E threshold \in Thresholds \ {breaker_threshold[b]} :
       SetBreakerThreshold(b, threshold)
  \/ \E pools \in (SUBSET Pools) \ {{}} :
       \/ CreateStrategy(pools)
       \/ \E id \in {i \in DOMAIN strategies : strategies[i] # pools} : UpdateStrategy(id, pools)

Rebalance ==
  \/ \E p, q \in Pools, a, b \in Amounts : ExecuteRebalance(p, q, a, b)
  \/ \E v \in Vaults, q \in Pools, amount \in Amounts : ExecuteFlashRebalance(v, q, amount)

Feed == \E p \in Pools : RecordFeedValidationFailure(p) \/ RecordFeedValidationSuccess(p)

Stop ==
  \/ CheckEmergencyStop
  \/ \E b \in Breakers : CheckBreaker(b)
  \/ \E flag \in BOOLEAN : SetPaused(flag)

Call == calls < MaxCalls /\ calls' = calls + 1 /\ (Setting \/ Rebalance \/ Feed)

Next == Call \/ Stop \/ Tick

Spec == Init /\ [][Next]_vars

-----------------------------------------------------------------------------
(* Properties.                                                             *)

(* Once the pacing has been the same for one period, no more than two       *)
(* budgets leave a pool within any period of that length, wherever its      *)
(* windows begin, and whether moves are rebalances or flash rebalances,     *)
(* under one setting or across the change of it.                            *)
PoolOutflowPaced ==
  PacingOn /\ pacing_since <= now - pacing.seconds =>
    \A p \in Pools :
      LET recent == [t \in 1..MaxTime |->
                       IF t \in now - pacing.seconds + 1 .. now THEN outflow[p][t] ELSE 0]
      IN  SumTo(recent, MaxTime) <= 2 * pacing.max

(* A breaker that has tripped is not silenced by what happens elsewhere:    *)
(* only a successful rebalance of one of its pools, a new threshold or new  *)
(* pools for its strategy do that, or, of a breaker of its own pools, so    *)
(* many entries of others that its failures fall out of the history.        *)
TrippedUntilSuccess ==
  [][/\ EmergencyStopTriggered /\ ~EmergencyStopTriggered' =>
          history'[Len(history')].success
     /\ \A b \in Breakers :
          BreakerTripped(b) /\ ~BreakerTripped(b)' =>
            \/ breaker_threshold'[b] # breaker_threshold[b]
            \/ PoolsWatched(b)' # PoolsWatched(b)
            \/ Len(history) = HistoryLimit
            \/ /\ history'[Len(history')].success
               /\ history'[Len(history')].pools \cap PoolsWatched(b) # {}]_vars
=============================================================================
