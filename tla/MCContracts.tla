----------------------------- MODULE MCContracts -----------------------------
(***************************************************************************)
(* Contracts that neither call one another nor share state: a behaviour is  *)
(* one of a single contract, while the others stay as they were made, so    *)
(* that their states add up instead of multiplying. The reward distributor  *)
(* is extended, further contracts are instances beside it.                  *)
(***************************************************************************)
EXTENDS RewardDistributor

CONSTANTS
  \* RebalanceEngine
  Pools, Vaults, Amounts, HeldAtFirst, DefaultCooldown, Cooldowns, DefaultThreshold,
  Thresholds, StopWindow, HistoryLimit, StrategyLimit, EngineCalls,
  PacingMax, PacingSeconds,
  \* SwapRouter
  NumTraded, XLM, Listings, AddedAtFirst, Reserves, SwapAmounts, MinOutputs, Paths, Divisor,
  TreasuryBps, Funds, RouterCalls,
  \* OracleRegistry
  Feeders, Prices, Ages, DefaultFreshness, MaxObservations, OracleCalls,
  \* ILInsurance
  Owners, NumReserveTokens, Coverages, Periods, PremiumRates, MaxRate, MinReserveRatio,
  InsuranceCalls,
  \* StrategyRegistry
  Creators, Values, HistoryKept, ApprovalsKept, RegistryCalls

(* paused, calls and now are those of the contract that is called.          *)
VARIABLES
  contract,
  \* RebalanceEngine
  pool_held, in_transit, pacing, windows, history, feeds, feed_threshold, last_rebalance,
  cooldown, strategies, breaker_threshold, outflow, pacing_since,
  \* SwapRouter
  pools, oracle_paused, wallet, router_held, router_fees, total_swaps, total_volume,
  total_fees, last_swap,
  \* OracleRegistry
  price_feeds, newest,
  \* ILInsurance
  policies, reserve, reserve_held, payouts,
  \* StrategyRegistry
  registered, approvals, registry_paused, log

(* All vaults are in one pool. Pacing is off or on.                         *)
PoolOf == [v \in Vaults |-> CHOOSE p \in Pools : TRUE]
PacingSettings == {[max |-> 0, seconds |-> 0], [max |-> PacingMax, seconds |-> PacingSeconds]}

(* Two pools of dollar and euro, one of them with a fee, and legs through   *)
(* XLM: two of dollar and XLM, of which one, as the first pool, is added    *)
(* later.                                                                   *)
Dollar == 1
Euro   == 2
Listing(p, a, b, fee) == [pool |-> p, token_a |-> a, token_b |-> b, fee |-> fee]
FivePools == {Listing(1, Dollar, Euro, 0), Listing(2, Euro, Dollar, 2),
              Listing(3, Dollar, XLM, 0), Listing(4, Euro, XLM, 0), Listing(5, Dollar, XLM, 0)}
AllButOne == {l \in FivePools : l.pool # 1}
TwoPaths  == {<<Dollar, Euro>>, <<Dollar, XLM, Euro>>}

Engine    == INSTANCE RebalanceEngine WITH held <- pool_held, MaxCalls <- EngineCalls
Router    == INSTANCE SwapRouter WITH
               treasury <- router_fees, MaxCalls <- RouterCalls
Oracle    == INSTANCE OracleRegistry WITH
               feeds <- price_feeds, Thresholds <- Ages, MaxCalls <- OracleCalls
Insurance == INSTANCE ILInsurance WITH Rates <- PremiumRates, MaxCalls <- InsuranceCalls
Registry  == INSTANCE StrategyRegistry WITH
               strategies <- registered, MaxCalls <- RegistryCalls

(* The instance meets what the theorems on the contracts assume.            *)
ASSUME InstanceAssumption ==
  /\ RewardsAssumption /\ Engine!EngineAssumption /\ Router!RouterAssumption
  /\ Oracle!OracleAssumption /\ Insurance!InsuranceAssumption
  /\ Registry!RegistryAssumption

rewardsVars == <<streams, accumulated, pending, configs, tokenVars, emergency, emitted>>
engineVars == <<pool_held, in_transit, pacing, windows, history, feeds, feed_threshold,
                last_rebalance, cooldown, strategies, breaker_threshold, outflow, pacing_since>>
routerVars == <<pools, oracle_paused, wallet, router_held, router_fees, total_swaps,
                total_volume, total_fees, last_swap>>
oracleVars == <<price_feeds, newest>>
insuranceVars == <<policies, reserve, reserve_held, payouts>>
registryVars == <<registered, approvals, registry_paused, log>>
contractsVars == <<contract, paused, calls, now, rewardsVars, engineVars, routerVars,
                   oracleVars, insuranceVars, registryVars>>

ContractsInit ==
  /\ contract \in {"rewards", "engine", "router", "oracle", "insurance", "registry"}
  /\ Init /\ Engine!Init /\ Router!Init /\ Oracle!Init /\ Insurance!Init /\ Registry!Init

RewardsStep ==
  contract = "rewards" /\ Next
  /\ UNCHANGED <<contract, engineVars, routerVars, oracleVars, insuranceVars, registryVars>>

EngineStep ==
  contract = "engine" /\ Engine!Next
  /\ UNCHANGED <<contract, rewardsVars, routerVars, oracleVars, insuranceVars, registryVars>>

RouterStep ==
  contract = "router" /\ Router!Next
  /\ UNCHANGED <<contract, paused, now, rewardsVars, engineVars, oracleVars, insuranceVars,
                 registryVars>>

OracleStep ==
  contract = "oracle" /\ Oracle!Next
  /\ UNCHANGED <<contract, paused, rewardsVars, engineVars, routerVars, insuranceVars,
                 registryVars>>

InsuranceStep ==
  contract = "insurance" /\ Insurance!Next
  /\ UNCHANGED <<contract, paused, rewardsVars, engineVars, routerVars, oracleVars,
                 registryVars>>

RegistryStep ==
  contract = "registry" /\ Registry!Next
  /\ UNCHANGED <<contract, paused, now, rewardsVars, engineVars, routerVars, oracleVars,
                 insuranceVars>>

ContractsNext ==
  \/ RewardsStep \/ EngineStep \/ RouterStep
  \/ OracleStep \/ InsuranceStep \/ RegistryStep

ContractsSpec == ContractsInit /\ [][ContractsNext]_contractsVars

-----------------------------------------------------------------------------
(* The properties of the contracts, as their modules state them.            *)

(* No pool loses more than two budgets in a period, whatever moves it       *)
(* (rebalance_engine.rs), a route is found where there is one and a swap    *)
(* pays what it was accepted for (swap_router.rs), the price that is served *)
(* is the newest fresh one (oracle_registry.rs), the reserve is what came   *)
(* in and was not paid out (il_insurance.rs), and what is active was        *)
(* approved as it is (strategy_registry.rs).                                *)
ContractsKeepTheirWord ==
  /\ contract = "engine"    => Engine!PoolOutflowPaced
  /\ contract = "router"    => Router!RouterKeepsItsWord
  /\ contract = "oracle"    => Oracle!PriceIsNewest
  /\ contract = "insurance" => Insurance!InsuranceKeepsItsWord
  /\ contract = "registry"  => Registry!ActiveIsApproved

(* What the registry keeps and lists is what was decided and recorded       *)
(* (strategy_registry.rs).                                                  *)
RecordsAreTrue ==
  contract = "registry" => Registry!LogsKeepTheNewest /\ Registry!PagesAddUp

(* A tripped breaker stays tripped until a success, as RebalanceEngine      *)
(* states it for check_pool_emergency_stop and the others.                  *)
TrippedUntilSuccess == Engine!TrippedUntilSuccess
=============================================================================
