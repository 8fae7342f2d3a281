# A verification development for the Stellar liquidity yield engine

The repository holds Soroban contracts (`src/*.rs`), the SDK through which
keepers and clients use them (`sdk/src`), and a user interface (`ui/src`). This
directory models the parts whose correctness depends on the order of things,
checks small instances of them with TLC and proves the main results with TLAPS.
Line numbers below are those of the repository.

Contents: 1. inventory, 2. modules, 3. runs, 4. fairness, 5. proofs,
6. disagreements with the repository's texts, 7. observations,
8. what is not modelled, 9. plan.

## 1. Inventory

### How the parts interact

A contract call is atomic: it runs alone, and when it fails (an error, a panic,
a refused token transfer) everything it did is undone. So a contract is modelled
with one action per call, and a failing call is no step. What makes contracts
hard is the order of calls of several parties over time, and rounding.

A keeper is a JavaScript process. It runs to its next `await` without
interruption; at an `await` other callbacks of the same process run, the chain
grows, and the process may die. So a keeper is modelled with one action per
stretch between two awaits. Keepers keep a checkpoint in a store that outlives
them, and submit transactions whose effect they learn of only later.

- Users, the admin and the emergency signers call the **vault**; the token
  contracts move the tokens. The vault calls no other contract of the crate.
- The **listener** reads the events of the contracts from an RPC node and hands
  them to handlers; the **rebalancer** submits rebalances; both write a
  checkpoint through `persistence.ts`. The **backoff** wraps the task of a keeper
  loop, the **write limiter** wraps its submissions.
- The **governor** asks the **voting escrow** for power and the **governance
  token** for the supply; the escrow holds tokens.
- The router, the rebalance engine, the reward distributor, the oracle registry,
  the strategy registry and the insurance are contracts of their own; clients
  call them one by one.
- The **clients** of the SDK read from the contracts by simulated calls and write by
  transactions, which they build, have signed, send to a node and look for. The
  **calculators** repeat in the client what the contracts work out.
- The **screens** of the web application call the clients, one handler per click, and
  show what comes back.

A screen, like a keeper, is a JavaScript process: one action per stretch between two
awaits, with the user, the browser wallet and the page's properties as its environment.

### The components

| component | state | operations | hard behaviours | what makes it correct |
|---|---|---|---|---|
| YieldVault (`src/yield_vault.rs`) | positions, totals, tokens held, parameters and queued changes, pacing windows, pause flag and emergency signers | deposit, withdraw, harvest, set_withdraw_pacing, set_prices, propose / execute / cancel, pause, emergency_pause | rounding over long sequences; windows that expire at different times; a queue whose own delay can be changed through the queue | shares conserved, books match tokens, nobody diluted, exits possible, notice before changes, pause freezes the ledger |
| Event listener (`sdk/src/eventListener.ts`), checkpoint stores (`persistence.ts`) | cursor, paging cursor, restore flag, stored checkpoint | poll (restore, fetch, dispatch, advance, persist), start, stop | pages that end within a ledger, throwing handlers, death between dispatch and write, growing chain | no event skipped, order kept, repeats only after faults, every event handled |
| Write limiter (`sdk/src/utils/rateLimiter.ts`) | queue, count in flight, time of the last start, draining flag | schedule, drain, run | decisions taken before a sleep and used after it; lost wakeups | concurrency and pace kept, every write settles |
| Auto-rebalancer (`sdk/src/bots/autoRebalancer.ts`), with the executor of `arbitrage.ts` | last execution time, restore flag, stored checkpoint | run | a death between the effect and its record; failed reads and writes of the store | cooldown kept across restarts |
| Keeper backoff (`sdk/src/keeperBackoff.ts`) | failures, next attempt, load flag, stored state | tick, init, recordSuccess, recordFailure | overlapping ticks, restarts, clocks set back, failing stores | waits respected and bounded, the keeper keeps trying |
| Governance token, voting escrow (`src/governance.rs`) | balances, supply, locks, delegations | mint, burn, transfer, create / increase / extend lock, withdraw, delegate | locks that ended and were not withdrawn; durations that count from now | tokens conserved, locks covered and never cut |
| Governor (`src/governance.rs`) | proposals with counts, states and times | propose, vote, queue, execute, cancel, update_proposal_states | states that are only updated when somebody asks; power that changes between calls | majority, notice, finality |
| Reward distributor (`src/reward_distributor.rs`) | streams, accrual per user, pools of rewards, modes | streams, update_rewards, claim, emergency withdrawal, auto-compounding | accrual at changed rates, claims followed by updates | paid at most what accrued |
| Rebalance engine (`src/rebalance_engine.rs`) | strategies, allocations, pacing per pool, feed records, history, breakers | strategies, rebalance, flash rebalance, feed validation, breakers | several limits at once, failed legs, breakers that trip again | limits kept over time, history true |
| Swap router (`src/swap_router.rs`) | pools with reported reserves, oracle pause, tokens, statistics | pools, reserves, quote and route search, swap, swap_with_retry | pools and reserves that change between quote and swap, deep pools that lead nowhere, fees | a route is found where there is one, a swap pays its minimum less the fee, statistics match tokens |
| Strategy registry (`src/strategy_registry.rs`) | strategies with their performance, approvals, pause | register, approve, update, deactivate, record, pages | approvals of what was changed afterwards, logs that are trimmed | only what was approved last is active, logs keep the newest, pages add up |
| Insurance (`src/il_insurance.rs`) | policies, reserve | purchase, claim | claims of several tokens against one number, payouts cut to the reserve | the reserve is what came in and was not paid out |
| Oracle registry (`src/oracle_registry.rs`) | feeds with their feeders, windows of observations, fallbacks | register, publish, get_price, settings | windows, age limits and fallbacks that are changed under observations | the newest fresh price is served, and none that is stale |
| Staking, fee distributor, multisig (`src/governance.rs`) | stakes, weekly fees, confirmations | stake, claim_week, confirm | weeks claimed at changed stakes | claims within the week's fees |
| Engine contract (`src/lib.rs`), upgrade (`src/upgrade.rs`) | pause flag, emergency history, version | pause, trip, upgrade | - | - |
| Actuary, risk engine (`src/actuary.rs`, `src/risk_engine.rs`) | none | formulas | fixed-point ranges | - |
| RPC lag monitor (`sdk/src/rpcSync.ts`) | last processed ledger, stored position, health | record, check, save, restore, clear | ledgers recorded while a check or a save is under way, deaths between two writes | a lag is never understated |
| Arbitrage scanner (`sdk/src/arbitrage.ts`) | cache of pools, the scans under way | scan, rank, simulate, execute | overlapping scans over one cache; one profit worked out in three places | the estimates agree |
| Harvest bot (`examples/yield-harvest-bot.ts`) | time of the last harvest, performance | start, stop, check, forceHarvest | checks that overlap, lost answers, restarts | cooldown and books |
| Contract clients (`sdk/src/vaultClient.ts`, `rebalancer.ts`, `governance.ts`, `rewards.ts`, `insurance.ts`), retries (`utils/retry.ts`, `retryRpc.ts`) | the calls under way | writing and reading methods, lists, claims with conversions | lost answers, repeated requests, sequence numbers taken by another call, expiry, reads that fail half way | success and failure are true, calls end, lists are faithful |
| Calculators (`sdk/src/yieldCalculator.ts` and the helpers of the clients) | none | formulas | rounding | they agree with the contracts and with what they are named for |
| Strategy registry client (`sdk/src/strategyRegistryClient.ts`) | none | fetchActiveStrategies | an empty or failing registry | there is always a choice, and a single one |
| User interface (`ui/src`) | what each screen shows, its forms and the writes under way | clicks, refreshes, wallet changes | answers that come in another order, forms that close and reopen, addresses that change | a banner tells the truth, no second write beside the first, what is shown ends up current |
| Types, examples, tests | - | - | - | - |

`src/governance.rs` is not a module of the crate and does not compile
(`README.md` 457 and 638, `docs/GOVERNANCE_STATUS.md`). It is modelled as a
design that is written down in Rust: what its calls say they do. Contracts pass
amounts as `i128`; the models take them as nonnegative, since a negative transfer
is refused by the token contract, and leave the width out because the supplies of
the instances are far below it. The governance token is itself the token contract
and does not look at the sign of an amount; the model says what it does for
amounts that are not negative.

`PROJECT.json` lists the hazards of this code, each at its line with the
properties that watch it, and what is known about those that none watches.

## 2. Modules

Each source definition that is translated has an entry in `PROJECT.json` `map`,
with its lines. A definition whose comment begins with *Mutant* is a plausible
wrong version of the one after it, and no specification uses it. `PROJECT.json`
`mutants` pairs every checked property with one that breaks it; where a property of a
run joins those of several parts, the mutants of the other parts break it as well.

### YieldVault, YieldVaultHistory: the vault

`YieldVault.tla` has one action per call of `yield_vault.rs`: `Deposit`,
`Withdraw`, `Harvest`, `SetWithdrawPacing`, `SetPrices`, `Propose`,
`ExecutePendingAction`, `CancelPendingAction`, `SetPaused`,
`SetEmergencySigners`, `SetEmergencyThreshold`, `EmergencySetPaused`; `Tick` is
the ledger's clock. The arithmetic of the calls (`MintedShares`, `Redeemed`,
`WithdrawalFees`, `PerformanceFees`, `Payout`) keeps every division and its
direction of rounding; `Quotient` is Rust's division of an `i128`, which rounds
towards zero. `balance`, `wallet` and `treasury_balance` are the token
contracts' view (external) and exist so that books and tokens can be compared.
`ConsumeWithdrawPacing` is the two windows of withdrawal pacing with their
renewal. The queue of admin changes is `pending`, a function from ids.

The names of the vault, its USD valuation, the APY, `last_harvest` and the code
upgrade are left out: no guard reads them. `initialize` is the initial state.

`YieldVaultHistory.tla` adds two history variables that no guard reads: what the
shares a user holds have cost, and when the queue of changes was last empty.
`MCYieldVault` holds the small amounts and settings of the instances;
`MCYieldVaultHistory` joins them with the histories.

### InOrderDelivery, KeeperListener: the event feed

`InOrderDelivery.tla` says what a keeper wants of a feed in two actions: the
chain emits events after those it has emitted, and the keeper handles events
leaving no earlier one behind. `KeeperListener.tla` is `EventListener` at the
grain of its awaits: `BeginPoll`, `Restore`, `Fetch`, `ProcessResponse`,
`Persist`, each with the failure it can have, `Crash`, `Restart`, and
`CloseLedger` for the chain. It implements `InOrderDelivery` under the mapping
`emitted <- the watched events from startLedger on`, `handled <- those of them
that a handler got`; `DeliveredInOrder` is checked as a property.
An event is its place in the chain. `Page` is what the RPC node (external)
answers; `NextPaging` and `ConsumedThrough` are `advanceCursor`.

### WriteRateLimiter

`drain` is a loop with one await in its middle. `drain = "loop"` marks that its
synchronous part is running, during which nothing else of the process can move;
`"sleeping"` is the await, during which tasks settle, are released and are
submitted. `DrainWakes` takes a task without looking at the guards of the loop
again, as the code does. A task may throw before it returns a promise
(`Throwing`): its place is then never given back and `finally` turns draining off.

### KeeperBackoff

A tick is `BeginTick`, `Load`, the task (`TaskSucceeds`, `TaskFails`) and
`Persist`, and several ticks may be under way. Times are kept relative to the
clock, so that time passing is a countdown and no bound on the clock is needed;
the clock may be set back while the process is down. `Delays` is the policy with
its cap and jitter.

### AutoRebalancer

`run` with one action per await. `TakeEffect` (the transaction is in effect,
external) and `Confirm` (the keeper knows) are two actions: that is where the
record can be lost. `lastEffect`, `tooSoon` and `forgotten` are history.

### KeeperMonitor, KeeperHarvester, ArbitrageScanner

`KeeperMonitor.tla` is `RpcLagMonitor` and the health tracker of `rpcSync.ts` over the
file store, whose save is taken apart into `WriteTemp` and `Rename`: the process may
die between the two. A check reads the processed ledger (`BeginCheck`) before it awaits
the node's head (`CheckAnswered`), and ledgers are recorded in between. `recorded` is
history.

`KeeperHarvester.tla` is `checkAndHarvestVault` of the harvest bot with one action per
await, several checks and forced harvests at once. `excuses` is history: what happened
that the bot's cooldown does not see.

`ArbitrageScanner.tla` has the overlapping scans of `arbitrage.ts` with the cache they
share and, as operators, the three places that work out what an opportunity earns.

### MCKeepers

The parts of a keeper meet only where one calls the other through an interface that is
modelled as a choice: the backoff's task succeeds or fails, the limiter's write settles.
So `MCKeepers.tla` extends `AutoRebalancer` and instantiates the others beside it, and a
behaviour is one of a single part: the states add up instead of multiplying, and one run
asks for the properties of all of them. `PartsAssumption` has TLC evaluate what the
instantiated modules assume of their constants. `MCContracts`, `MCClients` and
`MCScreens` are built in the same way.

### VotingEscrow, ProtocolGovernor

`VotingEscrow.tla` is the token and the escrow of `governance.rs`;
`ProtocolGovernor.tla` extends it with proposals, since votes and quorum read
power and supply at the time of the call. `Updated` is one entry of
`update_proposal_states`, which works through all proposals in one call.

### RewardDistributor, RebalanceEngine: contracts that stand alone

`RewardDistributor.tla` has the calls of `reward_distributor.rs` on streams, accrual,
claims and modes. `UpdateRewards` accrues all streams for every caller; `Pay` is the
loop of `claim_rewards`, all or nothing, each stream with its own rounded fee.
`emitted` is history: what the streams emitted at the rates in force.

`RebalanceEngine.tla` has the calls of `rebalance_engine.rs` that move tokens or decide
whether they may move. `Transfers` are the transfers of `perform_rebalance`, for a
flash rebalance those of both legs; `RecordPacing` and `PacingAllows` are the budget
of a pool. The three breakers look at one history: `Trips` is what the pool breaker
and the strategy breaker have in common, and a breaker is named by the pool or the
strategy it watches. `outflow` and `pacing_since` are history that no guard reads.

### SwapRouter, OracleRegistry, ILInsurance, StrategyRegistry

`SwapRouter.tla` has the pools with the reserves somebody reports, the depth-first
search for a route (`Viable` are the routes there are, `Earlier` the order in which
the search meets them, `First` the one it returns), the hop through XLM, and the
swaps. A swap is worked out from the reported reserves and paid out of what the
router holds; `last_swap` is history. `OracleRegistry.tla` has the feeds, their
windows and `get_price` with its one fallback; `newest` is history.
`ILInsurance.tla` has the premium with its surcharge for a low reserve, purchase
and claim. `StrategyRegistry.tla` has the operations on a strategy, the two trimmed
logs and the pages; `log` is history.

`MCContracts.tla` joins the six contracts that stand alone into one model to check.
They neither call one another nor share state, so a behaviour picks one contract and
calls only that; the states of the contracts add up.

### ClientMethods, ClientCalls, ClientReads, RewardsClient, Calculators: the SDK's clients

`ClientMethods.tla` says of every writing method which awaits and checks it consists
of, how long its transaction is valid and what it makes of the node's answer (its
*ending*). `ClientCalls.tla` runs several of them for one account: `Ask`, `Build`,
`Sign`, `Submit`, `Send`, `Sleep`, `WaitEnds` and `Poll` are the awaits. A request or
its answer may be lost, before or after the node took the transaction. `Include` is
the chain, which consumes sequence numbers (external). `RetryRpcServer` is the ending
"retry", and `claimAllFees` is the case `batch`.

`ClientReads.tla` has the reading methods as the sequences of conversions they make,
with what each makes of a refused simulation, and `getAllProposals` with its probes and
its gap, while the chain moves on. `RewardsClient.tla` is `rewards.ts`: a claim and each
conversion is a transaction of its own, so that a call can do a part of its work and
fail. `Calculators.tla` holds the formulas of the SDK beside those of the contracts and
beside reference definitions; its one variable runs over all small arguments.
`MCClients.tla` joins these parts.

### VaultCard, RewardPanel, GovernanceScreen, RebalanceScreen, StrategyScreen, VaultsBoard, VaultHistory: the screens

One module per screen or hook of `ui/src`: its variables are what the state hooks of the
component hold, and it has one action per click, change of a property and settled
await. What a screen awaits (a client, the wallet) is a choice among its outcomes.
`VaultCard` has the card, `useYieldVault`, `useTxStatus` and the browser wallet, with any
number of refreshes in flight that settle in any order, each of whose reads may fail
alone. `RewardPanel` is `RewardDashboard.tsx`. `GovernanceScreen` is the panel with its
hook, the list, the voting form, the staking form and the fee share. `RebalanceScreen` is
`RebalancePanel.tsx`, `StrategyScreen` the selector over `StrategyRegistryClient`,
`VaultsBoard` and `VaultHistory` the hooks for several vaults and for the history of one.
`MCScreens.tla` joins them.

### Sums

`SumTo(f, n)` is the sum of `f[1] .. f[n]`, a recursive function so that theorems
may use it; `Sums_proofs.tla` states what changing one entry does to it.

## 3. Runs

| run | module | what it asks | states |
|---|---|---|---|
| `vault_books` | MCYieldVault | Do books, tokens and positions stay in step over every sequence of deposits, partial and full exits and a harvest of two users, and does rounding never favour the caller? | 400 000 |
| `vault_pacing` | MCYieldVault | Does the vault's window cover what users take, in whatever order windows expire, are renewed and re-limited, while a queued minimum comes into force? | 650 000 |
| `vault_admin` | MCYieldVaultHistory | Does every queued change get the notice that was in force, and does a pause, by admin or signers, freeze the ledger? | 720 000 |
| `governor` | MCProtocolGovernor | Are tokens, locks, counts, notice and finality kept over every order of token, lock and proposal calls? | 1 200 000 |
| `contracts` | MCContracts | Is no reward distributed that was not emitted, and is every token of the distributor accounted for? Does no pool lose more than two budgets in a period, does a tripped breaker stay tripped until a success, does a swap find its route and pay its minimum less the fee? Are prices, the insurance reserve, approvals and logs what was recorded? | 1 300 000 |
| `keepers` | MCKeepers | Through failures, crashes and restarts: does the rebalancer keep its cooldown, the limiter its pace and every promise, the backoff its waits; is the feed delivered in order and completely, a lag never understated, and do scanner and harvest bot keep their word? | 137 000 |
| `clients` | MCClients | Is what a write reports what happened, does every write end, is a list what the contract holds, is a claim that returned in effect, and do the calculators agree with the contracts? | 507 000 |
| `screens` | MCScreens | Does a banner tell of the last write only, does no button send a claim or a lock beside one under way, is a board that is not loading complete, and does the card end up with the connected account's position? | 431 000 |
| `vault_fee_at_cost`, `listener_replay`, `rewards_paid_again`, `fees_claimed_together` | | counterexamples, see 6 | |

The longest runs, `keepers` and `screens`, take between one and two minutes with two
workers. Of `contracts`, `DistributedWasEmitted` and `FundingAccounted` are about the reward
distributor and `TrippedUntilSuccess` about the engine; `ContractsKeepTheirWord` joins what
the engine, the swap router, the oracle registry, the insurance and the strategy registry
promise, and `RecordsAreTrue` is about the logs and pages of the strategy registry; both are
proved.

### Bounds, and why they are enough

*Vault.* Two users are enough for one to be diluted by, or to shelter behind,
the other: no call touches more than one position and the totals. Amounts are 1
to 5 units and the fees 20 % to 50 %, so that every division of the contract
leaves a remainder and every fee charges something; with realistic rates on such
amounts every fee would be 0. One harvest makes gains, and with them performance
fees, possible. `vault_pacing` gives each user four units, two settings of the
limits with different window lengths and four ticks, so that a user's window can
outlive the vault's and the reverse. In `vault_admin` three changes, two of them
of the delay itself, are queued, executed and cancelled in every order over five
ticks around a delay of two. `CHECK_DEADLOCK FALSE` where the bound on the clock
or on the amounts lets the model stop; the code can always be called again.

*Listener.* Pages of two events, ledgers of up to two and two ledgers: a page
can end inside a ledger, at its end, and be full with more to come, and foreign
events can fill a page. Two faults combine a failed write or a throwing handler
with a crash.

*Limiter.* Two places, a queue of two and five tasks fill both and overflow;
the third task throws.

*Backoff.* Base 2, factor 2, cap 5 reaches the cap at the third failure; the jitter
is 50 %; the clock is set back by one unit. Two ticks overlap in every way that matters, since a tick reads and
writes only the state they share; two faults.

*Rebalancer.* A cooldown of 3 and a clock to 7 leave room for two cooldowns and
three faults.

*Monitor, scanner, harvest bot.* A head of up to three ledgers passes both the warning
and the critical lag. Two scans of two pools overlap around a cache that expires in the
middle of one. Two checks of the bot and a clock to 5 around a cooldown of 2 let a
harvest come too early in every way the bot has.

*Governor.* Two users with two tokens each, locks of one or two units of time, one
proposal of one unit, a timelock and a grace period of one each and a clock to 4.
The proposals do not touch one another but through `update_proposal_states`,
which treats each alone.

*Contracts.* A number of calls bounds each. Five calls of the reward distributor are enough
to create and fund a stream, update it, change its rate and claim, or for two users to draw on
one pool; the rates 1 and 2 and a fee of half leave remainders. Four calls of the engine are
enough for two failures of a pool, as many as `StopWindow` looks at here, and two more results, which
overflow a history of three, or for a change of the pacing and three flash rebalances on both
sides of a window's end. Longer sequences of both contracts are covered by the theorems. Four calls of the
router, four pools of three tokens at first and one that is added: two pools of the same
pair, one of them with a fee, and two ways through XLM of which the deeper may lead
nowhere after a removal. Five calls of the oracle registry overflow a window of two while
ages and fallbacks of two pools change. Four calls of the insurance are two purchases in
two tokens and two claims, with a reserve below its ratio. Six calls of the strategy
registry push the oldest entry out of logs of two.

*Clients.* Two calls of one account are enough for one to take the other's sequence
number; each transaction is sent once or twice, a repeated request included, and every
method of `ClientMethods` may be either call. Four probes with a gap of two meet two
proposals, with reads that fail before, between and after them. The calculators are evaluated for
every choice of four arguments up to 6 with scales of 3 and 10 instead of 10, 1000 and
10000, so that every division leaves every remainder.

*Screens.* Two refreshes of the card, rounds of the board and loads of the selector overtake
each other in both orders; the wallet leaves its account once; two writes, one of
which the banner could mistake for the other. `CHECK_DEADLOCK FALSE` where the bound on
writes or calls lets a screen, a client or a contract come to rest.

## 4. Fairness

Contracts have none: nobody is bound to call them, and their properties are
safety. The liveness properties assume

- *listener*: the timer of `start` keeps calling `poll`, every await settles, and a
  dead process is started again. The number of faults is bounded, since under
  endless faults nothing can be promised. The chain need not grow.
- *limiter*: JavaScript runs what is ready, timers fire, time passes, and a write
  that was started ends (the RPC calls behind it have timeouts).
- *backoff*: the keeper keeps calling `tick`, awaits settle, the process is started
  again, and time passes. The task itself may fail for ever.
- *clients*: every await of a call settles, with an answer or an error (requests time
  out, a wallet's prompt is answered or closed), and time passes. Nobody has to submit a
  prepared transaction, and the chain need not include anything.
- *vault card*: the card's timer keeps refreshing (weak fairness), and a read of the
  position that is asked for again and again is answered sometime (strong fairness of
  the answer, the only one in the project: the answer of a single refresh can be lost,
  and a later refresh takes its place). The other reads may fail for ever.

All the rest is weak fairness: each of these actions stays enabled until it is taken.

## 5. Proofs

The theorems are proved for every number of users, every amount, rate, delay and
length of run; TLC's instances only showed that they are worth proving. Their
assumptions are those named in the modules (`FeesAssumption`, `EngineAssumption`, ...),
which TLC evaluates on its instances, and the ones stated in a theorem (`OneRun`,
`EventIds`). Each theorem about a part of a composition is one of the composed
specification (`KeepersSpec`, `ContractsSpec`, `ClientsSpec`): a step of another part
leaves the variables of this one alone.

*Sums* (`Sums_proofs`). Lemmas only: that the recursive function `SumTo` is what its
equation says, and what the sum does when an entry is set, when a sequence grows by one,
when every entry is within another's; an entry is at most the sum.

*Vault* (`YieldVault_proofs`). The inductive invariant is
`Ledger == TypeOK /\ SharesConserved`. Neither half is inductive alone: that a
withdrawal leaves no total negative needs `shares[u] <= total_shares`, which is
conservation together with the lemma that an entry is at most the sum;
conservation in turn needs the positions to be natural numbers.
The arithmetic rests on a lemma about integer division (`DivFloor`) from which
follow that a redemption is at most the total and that fees are at most what they
are charged on. From `Ledger` follow `BooksAlwaysMatch`, `DepositsNeverDilute` and
`WithdrawalsLeaveTheRest`, the latter two as action properties whose core is
`(x * t) \div y` being within one unit of its quotient, and `PauseFreezes`.

- `VaultWindowIsCharged` needs `WindowsOpened`: no window began in the future. Otherwise a
  renewed vault window, charged with one withdrawal only, could lie before the windows of
  users who took more.
- `ExitsAreFunded` is the half of `FullExitPossible` that holds for all constants: until the
  first harvest the vault holds what any exit redeems.
- `NoticeIsGiven` (over `YieldVaultHistory`): the invariant `Notice` says that the delay in
  force and the time at which each queued change may be executed are no earlier than the
  notice of the last quiet moment demands; a change of the delay that is itself queued
  cannot shorten what is queued beside it.

*Listener* (`Keepers_proofs`). `NothingIsSkipped`, `RepeatsAreOfFaults` and the refinement
`ListenerDeliversInOrder`, for chains, pages and ledgers of any length and any number of
faults. `ListenerInv` says that no handled event has an unhandled watched one before it
(`ChainAndCounts`); that what is before either position, in memory or in the store, was
handled (`Position`); that an answer under way is the first of what follows the position in
the chain as it was asked (`Answer`), for a full page no more than that; and that without a
fault every handled event is before the position and was handled once (`OnceBefore`). The
refinement then is that a step which handles events leaves none behind and adds none that
was not emitted. All three assume `EventIds`: the RPC node names its events. Without ids the
fallback of `advanceCursor` moves to the next ledger although a full page ended within one
(see 7), and TLC finds the skip at once.

*Keepers* (`Keepers_proofs`).

- `CooldownIsKept` and `StoreNeverGoesBack` assume `OneRun`, that runs do not overlap, which
  is what the callers are told (`autoRebalancer.ts` 270). `RebalancerInv` says what memory,
  store and payload know of the last effect at each await.
- `LagIsNotUnderstated`, for any number of deaths: what the process, a check under way, the
  file and the temporary file know is at most the ledger after the last one recorded
  (`Progress`), and a report is of a ledger that was recorded (`Reported`). `Reported` alone
  is not inductive, since a report is made from what a check read earlier, and that from
  what was read back from a file.
- `WritesArePaced`: starts follow the queue's order at least the interval apart. The guards
  of `drain` are read before its sleep, so the invariant (`SleepsForATask`) says that they
  still hold after it: while it sleeps there is a task and a place, and the time slept and
  passed make up the interval. `QueueIsOfQueued` has each task in the queue once.
- `WaitsAreRespected`: a task starts with its wait over, unless a tick is still loading
  (see 7).
- `BotsKeepTheirs`: of the harvest bot, `Spaced` says that unless something excuses it one
  check at most is under way, the last harvest is known or about to be, and a check past
  its guard has waited. Of the scanner, `ScannerInv` says that each opportunity's figures
  come from one rate, one amount and one cost, so that calculation, simulation and
  execution answer alike; of the limiter, that no more writes are under way than counted.

*Clients* (`Clients_proofs`). `SuccessIsTrue` and `FailureIsTrue`, for any number of
calls, deadlines and repeated requests: `CallsInv` adds that a call with steps before it has
begun (`Begun`) and that a transaction which was never sent is not on the chain (`Unsent`).
`FailureIsFinal` needs `Unsent` where the first answer is a refusal: only then is the
transaction known to be nowhere. `ListsAreFaithful`: `ListInv` says of a list being read
that everything before the probe was listed or failed, that the last misses are those
counted, and that the fields read of a proposal are of it, in the order it went through
them. `ClaimsThatReturnedHold`: `RewardsInv` follows a claim through its awaits; before the
claim nothing is in effect, after it what is left to convert and what was converted make
up what had to be, unless retries were asked for.

`CalculatorsAgree` assumes only that the scales are positive (`CalculatorsAssumption`) and
needs no more of a state than that the arguments are numbers (`ArgsTyped`); its work is in
lemmas about the formulas. What is defined by recursion is proved from a least
counterexample: the square root by `HalvingApproaches` (a step of Newton's method from above
stays above the root, and stops only at it), the digits of an amount by
`QuotientOfQuotient` and `DigitAt` (the first digits read back as the quotient they are of),
the drawdown by `DrawdownInv` (the loss recorded covers every fall so far, and some fall is
that large), which `DrawdownGoesOn` keeps from one value to the next. `ThreeFloors` bounds
a part of the fees by its exact value, and `EstimatesAreLow` follows because the client's
square root, of a number scaled up, is never below the contract's.

*Governance* (`Governance_proofs`). `EscrowInv` is types, `TokensConserved`,
`LocksCovered` and `LocksStarted` (a lock's start is past and its end lies no
further ahead than its duration), which `RunningLocksAreKept` needs because
`extend_lock` compares durations and not ends. `GovernorInv` adds that every
proposal is `Sound`: the votes on record are within the count, what passed has its
majority and its end behind it, what is queued has an eta of at least the end and
the whole delay.

*Reward distributor* (`RewardDistributor_proofs`). `NoTimeRewardedTwice` and
`FundingIsAccounted` assume `RewardsAssumption`; the one part of it that restricts the
contract is that rates are not negative, which the code leaves to the admin. The
invariant strengthens `DistributedWasEmitted`: what a stream has distributed *and would
distribute at an update now* is within its emission, which a tick keeps because both
grow by the rate, and a change of rate because it moves the stream's clock to now. The
accounts rest on `Net` and `Fees` adding up to `Due` and on the sum of one changed entry.

*Contracts* (`Contracts_proofs`). `PromisesAreKept` is `ContractsKeepTheirWord` as a whole;
the theorems before it are its parts.

- `EngineMovesAreBounded` (`EnginePaced`): while pacing is on, what a window has counted covers
  what left the pool since the window began, is within the budget, and so is what left in the
  period before it. Two budgets, because a window begins at the first move and not at a
  fixed time.
- `BreakersOutlast` (`EngineLogged`): the history is no longer than its limit. `EngineAssumption`
  has the stop window no longer than the history, as the constants of the code do.
- `RoutesAndSwapsAreFair` (`RouterInv`): addresses are numbers and the listings finite, so the
  depth of pools, equal depths by address, orders them (`DeepestIsThere`). That a first route
  exists needs that of two routes neither is the beginning of the other (`ViableAreApart`: a
  search that has arrived does not go on); then the routes are narrowed down by their first,
  second and third pools (`FirstIsThere`). The swap rests on the fee in basis points being a
  floor (`FeesAreFloors`), so that a larger output leaves no less after its fee
  (`NetOutputsGrow`), and on paths giving integers (`PathOutputsAreIntegers`, by the shortest
  beginning of the path that would not).
- `PricesAreNewest` (`OracleInv`): a window ends with the newest observation of its pool and
  holds none that is younger; what is served is fresh by the limit now in force.
- `ReserveIsKept` (`InsuranceInv`): that active coverage can be taken back needs that what was
  paid was claimed (`PaidWereClaimed`), so that no policy is paid twice.
- `OnlyApprovedAreActive` (`RegistryInv`): for every strategy some entry of the log is its last
  change, and it is active exactly if that was an approval. `RegistryAssumption` keeps the
  values of records apart from the names of changes in the log, which only the model has.
- `RegistryRecordsAreTrue` (`RecordsInv`): `RecordsAreTrue` as a whole. What the log tells of a
  strategy grows by one or stays (`OnlyOfAppend`, `ValuesGrow`), and a log that is cut whenever it
  grows keeps the newest of it (`GrownAndCut`), because the newest of the newest are the newest
  (`NewestOfNewest`). A new strategy starts with an empty history, which is right only because
  the log never tells of a strategy that is not registered. `AreNewest` speaks of suffixes,
  through reversed sequences; `NewestMeans` says it element by element. Pages make up a read
  because each goes on where the one before ended (`PageGoesOn`, `PagesAreAll`).

*Screens* (`Screens_proofs`). `ScreensAreTruthful` is `ScreensTellTheTruth` as a whole. Each
screen has an invariant of its own, and a step of one leaves the variables of the others
alone (`ScreenSteps`).

- `CardInv`: what the write under way awaits has a result, and it is the one its outcome
  tells; without that the banner of a write could be that of another.
- `PanelInv` is types and `OneClaimInFlight`; the latter is inductive because `isLoading` is
  true exactly while a claim is counted.
- `GovernanceInv`: a form awaits no more refreshes than it has writes, a refresh that is not
  under way is awaited by none, and the fee form awaits none. `OneWritePerForm` alone is not
  inductive: a refresh that ends ends the write that awaited it.
- `RebalanceInv`: a confirmation is shown with the run it is of, and a run that succeeded
  stays one that did, though a second one overlaps.
- `ChoiceIsSound` is inductive: a list is one answer cut off at the limit (`FetchedOfOnePlace`).
- `BoardInv`: a vault of the list was read for some user or is left to read in a round under
  way, and a board that is loading has a round.
- `PointsInv`: no point is of a time to come, so that a point of now is in order after the
  newest ones, which stay in theirs (`NewestProperties`).

Only model-checked:

- everything temporal (`EveryEventHandled`, `EveryWriteSettles`, `KeepsTrying`,
  `EveryCallSettles`, `ActiveShownInTheEnd`), because liveness is beyond the prover;
- the half of `FullExitPossible` that `ExitsAreFunded` leaves: that fees are never more than
  what is redeemed is false for arbitrary rates, because the recorded deposits of a position
  can become negative (see 6) and the performance fee is charged on the difference.

## 6. Disagreements with the repository's texts

Each is a run that TLC ends with a counterexample.

- `NoFeeAtCost` (`yield_vault.rs` 486). The comment at 1010 says that a withdrawal at
  or below cost pays no performance fee. `withdraw` takes the redeemed amounts, not
  their cost, off the recorded deposits: who leaves with a gain is left with
  negative recorded deposits, and his next deposit starts below its cost.
- `NeverHandledTwice` (`eventListener.ts` 626). `docs/KEEPER_RECOVERY.md` 41-42 says
  that resuming can neither skip nor replay. It cannot skip (`NothingSkipped`), but a
  page is handed out before the position is written, so it can replay.
- `PaidAtMostEarned` (`reward_distributor.rs` 424). The field `reward_debt` is described at
  41 as what the shares had accumulated when it was written. Nothing writes it, so what
  was claimed is pending again after the next update.
- `ClaimsDoNotCollide` (`sdk/src/governance.ts` 691). `claimAllFees` says that it claims
  all available fees (677-678). It prepares one transaction per week before any is
  submitted, all with the sequence number the account has at that time: the first that is
  included makes the others void.

## 7. Observations

Behaviour that the models reproduce, or that was met while they were written, and that no
checked property forbids.

Vault, keepers, governance, rewards and the engine:

- `harvest` records rewards for which no tokens come in (582); `BooksMatchTokens`
  states the exact difference, and `FullExitPossible` is only stated until the first
  harvest, after which the last holders' exits can lack tokens.
- `set_prices` writes prices at once (831) although `propose_set_prices` queues them.
- A raised minimum withdrawal above a small position keeps that position from being withdrawn.
- The multisig of the vault counts the entries of the list (1351), so one signer named
  twice counts twice.
- A keeper that dies after its rebalance took effect and before it stored the time
  (`autoRebalancer.ts` 454) rebalances again after the restart, while
  `docs/KEEPER_RECOVERY.md` 21 says that a restart cannot repeat a rebalance.
  `CooldownKept` excuses exactly that case.
- A second tick that begins while the first one is still loading the stored state finds
  no wait (`keeperBackoff.ts` 114), while `docs/KEEPER_RECOVERY.md` 219 says that a restart
  resumes the wait. `WaitRespected` excuses exactly that case.
- `claim_rewards` answers an empty map (`reward_distributor.rs` 455), whatever it paid.
- A change of rate drops what the old rate emitted since the last update (333), and
  the end of a stream does the same (359).
- Pending rewards follow the number of shares named in the call (372); nothing compares
  it with a position.
- `execute_rebalance` moves tokens to a pool whose feed is excluded and in a vault's
  cooldown: only flash rebalances look at either (`rebalance_engine.rs` 1550, 1555).
- A rebalance whose transfer fails is undone with its entry in the history, so the
  breakers see only moves without an `amount_a` (1181).
- After an unpause the entries that tripped a breaker trip it again at the next check
  (1647), until a rebalance succeeds.
- A listener whose RPC node supplies no event ids moves past the rest of a ledger that a
  full page ended in (`eventListener.ts` 777).
- A task that throws before it returns a promise is never settled and keeps its place
  in the limiter (`rateLimiter.ts` 144).
- `lastConsumedMinute` is stored and never set or read (`autoRebalancer.ts` 316).
- A clock that is set back under a running backoff lengthens the wait beyond `maxMs`
  (`keeperBackoff.ts` 141); only a restart clamps it.
- `create_lock` replaces a lock that has ended and was not withdrawn (`governance.rs` 975),
  whatever its panic text at 966 says: the escrow then holds tokens nobody can claim.
- `delegate` leaves the power of the delegator as it is (1112) and nothing takes it back.
- A second vote of the same voter is counted again (703), while the entry on record
  is replaced; `RecordedAreCounted` is what remains true.
- `execute` does not look at the grace period (738), only `update_proposal_states` does.

Contracts:

- The router compares the minimum with the output before its fee (`swap_router.rs` 401), so
  the user may receive up to the fee less, while `docs/SLIPPAGE_POLICY.md` 16 says that a swap
  is rejected if the actual output falls below the minimum. `SwapsAreFair` states the
  minimum less the fee.
- `swap_with_retry` puts a failed swap into its queue and answers an error, which undoes the
  entry: the queue is always empty and `retry_failed_swaps` retries nothing.
- The router's `get_quote` looks at the deepest pool of a pair, a swap takes the first pool of
  the map. Swaps leave the reserves as they are and are paid out of the router's own tokens.
  The path's ends are not compared with the tokens that are named. No call reads the pause flag.
- A policy whose claim pays nothing is closed and stays in the active coverage, which raises the
  premiums of others. The token of premium and claim is the caller's, the reserve one number.
  A policy bought at a start ratio of 0 can never be claimed (`il_insurance.rs` 310).
- `register_feed` takes an empty list of feeders although its comment (`oracle_registry.rs` 147)
  asks for one, and a threshold of 0 means the default only there.
- An approval is of a strategy's id. Approvals of type 2 (update) are never written, the sum of
  `offset` and `limit` (`strategy_registry.rs` 516) panics when it leaves a `u32`, and
  `record_performance` (341) names no caller.
- `MAX_BOOST_MULTIPLIER` is 2500 of 10 000 and its comment says 2.5x (`governance.rs` 49): every
  lock is boosted to a quarter. The SDK repeats it, and `ClientMirrorsContract` states it.

Clients and bots:

- `VaultClient` calls `confirmTransaction` (`vaultClient.ts` 86), which no class defines: each of
  its writes throws after the transaction was accepted. The harvest bot, which builds on it, never
  records a success by it and harvests at every check.
- The checks of the harvest bot overlap: both pass the cooldown. `forceHarvest` works while the
  bot is stopped, and a restart forgets the cooldown. `HarvestsPaced` excuses exactly these cases.
- `getClaimableAmount` scales its square root otherwise than the contract does
  (`sdk/src/insurance.ts` 174) and shows 0 where the contract pays.
- `getAllProposals` describes its bound as the highest id to probe (`sdk/src/governance.ts` 928)
  and stops before it (938). A state that could not be read is shown as Pending.
- With `enableAutoRetry` the rewards client goes on after a failed conversion, and nothing
  repeats it.

Screens:

- `RebalancePanel`'s Execute asks the wallet (106) before it says that a transaction is in flight
  (115): pressed twice, it sends two.
- `VaultCard` can show one address and sign as another; its error outlives a refresh that succeeds.
- The selection of `RewardDashboard` is a set of positions in a list that the page may replace, and
  a late quote overwrites a newer one.
- `GovernancePanel` gives its hook no key pair, so each of its writes fails; `runAction` swallows
  the failure, so the staking form clears as after a success. A `VotingPanel` that is closed and
  opened again allows a second vote while the first is under way. `ProposalList` asks a map with `in`
  whether the user voted (176), and sorts the state it was given in place (76).
- `FeeShareClaim`'s button for the selected weeks claims all weeks (97).
- `StrategySelector` shows the last record as the latest (148), and the built-in histories list the
  newest first (`strategyRegistryClient.ts` 174). An empty registry shows the built-in strategies;
  the late answer of an earlier registry replaces the list of the present one, and an id that was
  picked may be another strategy's there.
- `useMultipleVaults` counts vaults that have left the list in its totals and stops loading with the
  first of two overlapping rounds; `useVaultPerformance` records a read that failed as 0.

## 8. What is not modelled

The components with status `not_modelled` in `PROJECT.json`, each with its reason, and of
the others:

- *Contracts*: staking, weekly fees and the multisig of `governance.rs`; the engine contract,
  whose calls set one flag each; upgrade and migration, which are the host's; the actuary and the
  risk engine, which are formulas over fixed-point numbers; the registry of APYs and the search
  for opportunities of the rebalance engine. Storage lifetime and resource limits of the host.
- *Rewards client*: values in USD (310-338), lists over all streams (545-555), history and
  statistics (636-711), quotes and the search for a route (716-742, 809-841), an empty list of
  events (879-886), the shared instance (992-1004). They read and reshape, and keep nothing.
- *Other clients*: `getProposalsByState` and its kin (`governance.ts` 957-981) filter a list that
  is modelled; `purchasePolicy` builds a transaction and hands it back unsigned.
- *Formulas with real numbers*: compound rates, Sharpe ratios, correlations. They are shown and
  decide nothing.
- *Screens*: layout and charts, the CSV export (`RewardDashboard.tsx` 298-335), the card's
  `positionError`, `InsurancePanel` and `ImpermanentLossChart`, which show what they are given, and
  figures that are derived from others for display.

## 9. Plan

1. Staking, weekly fees and their clients: claims of a week at a stake that changed.
2. The registry of APYs and the search for opportunities of the rebalance engine, joined with
   the clients that update it.
3. Overlapping runs of the rebalancer, which its callers are told to avoid.
