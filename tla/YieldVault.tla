----------------------------- MODULE YieldVault -----------------------------
(***************************************************************************)
(* The share ledger contract, src/src/yield_vault.rs.                       *)
(*                                                                          *)
(* Users deposit two tokens (the legs "a" and "b") for shares and redeem    *)
(* shares for a proportional part of what the vault has recorded. One       *)
(* action is one contract call: a call runs alone and either commits all    *)
(* its effects or, on a failed guard, none of them, so a failing call is no *)
(* step. The vault also paces withdrawals per window, delays changes of its *)
(* economic parameters behind a timelock, and can be paused by its admin or *)
(* by an emergency multisig.                                                *)
(*                                                                          *)
(* Left out: names, the USD valuation and the APY (derived numbers that no  *)
(* guard reads), event records, last_harvest stamps and the code upgrade.   *)
(* Calls by someone who is not the admin fail and are no step.              *)
(***************************************************************************)
EXTENDS Sums, Sequences, FiniteSets

CONSTANTS
  NumUsers,             \* accounts that hold shares, numbered 1 .. NumUsers
  Treasuries,           \* addresses that may receive fees
  FirstTreasury,        \* treasury given to initialize
  InitialFunds,         \* tokens of each leg in every wallet at the start
  FeeRate,              \* performance fee on gains, in basis points
  WithdrawalFee,        \* in basis points
  HarvestFee,           \* in basis points
  PendingRewards,       \* what calculate_pending_rewards returns (1000)
  TimelockDelay,        \* DEFAULT_TIMELOCK_DELAY, in ticks of the model's clock
  DepositAmounts,       \* the deposits users try: a set of [Legs -> Nat]
  MinimumShares,        \* the minimum shares depositors ask for
  MinimumOuts,          \* the minimum amounts users ask for: a set of [Legs -> Nat]
  Proposals,            \* changes the admin may queue: records [kind, value]
  PriceUpdates,         \* prices the admin may set at once: a set of [Legs -> Nat]
  PacingSettings,       \* pacing limits the admin may set
  SignerSets,           \* emergency signer lists the admin may configure
  Thresholds,           \* emergency thresholds the admin may set
  ApprovalLists,        \* lists of signers an emergency call may carry
  MaxHarvests,          \* bound on harvests
  MaxTime,              \* bound on the ledger timestamp
  MaxActions            \* bound on queued changes

Users == 1..NumUsers
Legs  == {"a", "b"}
Kinds == {"Prices", "MinDepositAmounts", "MinWithdrawShares", "Treasury", "TimelockDelay"}

ASSUME NumUsersAssumption == NumUsers \in Nat \ {0}
ASSUME TreasuryAssumption == FirstTreasury \in Treasuries
ASSUME FeesAssumption ==
  /\ FeeRate \in 0..10000 /\ WithdrawalFee \in 0..10000 /\ HarvestFee \in 0..10000
  /\ PendingRewards \in Nat
ASSUME AmountsAssumption ==
  /\ InitialFunds \in Nat
  /\ DepositAmounts \subseteq [Legs -> Nat] /\ MinimumOuts \subseteq [Legs -> Nat]
  /\ MinimumShares \subseteq Nat
ASSUME TimelockAssumption ==
  /\ TimelockDelay \in Nat
  /\ \A p \in Proposals : /\ p.kind \in Kinds
                          /\ p.kind = "TimelockDelay" => p.value \in Nat
ASSUME BoundsAssumption == MaxHarvests \in Nat /\ MaxTime \in Nat /\ MaxActions \in Nat

DUST_THRESHOLD == 1

VARIABLES
  shares,            \* position.shares of every user
  deposited,         \* position.deposited_amount_a / _b of every user
  total_shares,      \* metrics.total_shares
  total_amount,      \* metrics.total_amount_a / _b: what the vault has recorded
  balance,           \* tokens the vault really holds
  wallet,            \* tokens every user holds
  treasury_balance,  \* tokens every treasury has received
  harvests,          \* number of harvests so far (bounded by MaxHarvests)
  params,            \* the parameters behind the timelock, by kind
  pending,           \* pending_actions: id -> [action, executable_at]
  next_action_id,
  pacing,            \* WithdrawPacing
  user_window,       \* withdraw_windows of every user
  vault_window,      \* vault_withdraw_window
  paused,
  emergency,         \* [signers, threshold] of the emergency multisig
  now                \* ledger timestamp

ledgerVars   == <<shares, deposited, total_shares, total_amount, balance, wallet, treasury_balance>>
timelockVars == <<params, pending, next_action_id>>
windowVars   == <<user_window, vault_window>>
pauseVars    == <<paused, emergency>>
vars == <<ledgerVars, harvests, timelockVars, pacing, windowVars, pauseVars, now>>

-----------------------------------------------------------------------------
(* Arithmetic of the contract.                                             *)

(* i128 division truncates towards zero.                                    *)
Quotient(x, y) == IF x >= 0 THEN x \div y ELSE -((-x) \div y)

Bps(x, rate) == (x * rate) \div 10000

Value(amounts) == amounts.a + amounts.b

(* Mutant: rounds for the depositor.                                        *)
MintedSharesRoundedUp(amounts) ==
  IF total_shares = 0 THEN Value(amounts)
  ELSE IF Value(total_amount) <= 0 THEN 0
  ELSE (Value(amounts) * total_shares + Value(total_amount) - 1) \div Value(total_amount)

(* Shares minted for a deposit: one per unit on an empty vault, then in     *)
(* proportion to the recorded value, rounded down.                          *)
MintedShares(amounts) ==
  IF total_shares = 0 THEN Value(amounts)
  ELSE IF Value(total_amount) <= 0 THEN 0
  ELSE (Value(amounts) * total_shares) \div Value(total_amount)

(* Mutant: a full exit sweeps whatever is left.                             *)
RedeemedWithAll(u, n) ==
  [l \in Legs |-> IF n = shares[u] THEN total_amount[l]
                  ELSE (n * total_amount[l]) \div total_shares]

(* What burning n shares of u takes off the recorded totals. A full exit    *)
(* also sweeps a remainder of at most DUST_THRESHOLD.                       *)
Redeemed(u, n) ==
  [l \in Legs |->
     LET due      == (n * total_amount[l]) \div total_shares
         leftover == total_amount[l] - due
     IN  IF n = shares[u] /\ leftover <= DUST_THRESHOLD THEN due + leftover ELSE due]

WithdrawalFees(redeemed) == [l \in Legs |-> Bps(redeemed[l], WithdrawalFee)]

(* The performance fee is charged on the redeemed value above the part of   *)
(* the recorded deposits that belongs to the burnt shares.                  *)
PerformanceFee(u, n, redeemed) ==
  LET cost == Quotient(deposited[u].a * n, shares[u]) + Quotient(deposited[u].b * n, shares[u])
      gain == Value(redeemed) - cost
  IN  IF gain > 0 THEN Bps(gain, FeeRate) ELSE 0

(* It is split between the legs in proportion to what they redeem.          *)
PerformanceFees(u, n, redeemed) ==
  LET fee   == PerformanceFee(u, n, redeemed)
      fee_a == IF Value(redeemed) > 0 THEN (fee * redeemed.a) \div Value(redeemed) ELSE 0
  IN  [l \in Legs |-> IF l = "a" THEN fee_a ELSE fee - fee_a]

(* What the user receives.                                                  *)
Payout(u, n) ==
  LET redeemed == Redeemed(u, n)
      perf     == PerformanceFees(u, n, redeemed)
  IN  [l \in Legs |-> redeemed[l] - WithdrawalFees(redeemed)[l] - perf[l]]

Plus(x, y)  == [l \in Legs |-> x[l] + y[l]]
Minus(x, y) == [l \in Legs |-> x[l] - y[l]]

-----------------------------------------------------------------------------
(* Withdrawal pacing.                                                      *)

NoWindow == [window_started_at |-> 0, shares_withdrawn |-> 0, window_start_shares |-> 0]

PacingOn(p) == p.window_seconds > 0 /\ (p.user_max_bps > 0 \/ p.vault_max_bps > 0)

(* The window a withdrawal is charged to: a fresh one, sized by what the    *)
(* party holds now, when none is open or the open one has expired.          *)
CurrentWindow(w, holding) ==
  IF w.window_start_shares = 0 \/ now - w.window_started_at >= pacing.window_seconds
  THEN [window_started_at |-> now, shares_withdrawn |-> 0, window_start_shares |-> holding]
  ELSE w

Charge(w, n) == [w EXCEPT !.shares_withdrawn = @ + n]

(* A limit of 0 is off; an allowance is rounded up.                         *)
WithinAllowance(w, max_bps) ==
  max_bps > 0 =>
    w.shares_withdrawn <= (w.window_start_shares * max_bps + 9999) \div 10000

(* Mutant: only the user's window is charged.                               *)
ConsumeUserPacing(u, n) ==
  LET user_charged  == Charge(CurrentWindow(user_window[u], shares[u]), n)
      vault_charged == CurrentWindow(vault_window, total_shares)
  IN  \/ /\ ~PacingOn(pacing)
         /\ UNCHANGED windowVars
      \/ /\ PacingOn(pacing)
         /\ WithinAllowance(user_charged, pacing.user_max_bps)
         /\ WithinAllowance(vault_charged, pacing.vault_max_bps)
         /\ user_window' = [user_window EXCEPT ![u] = user_charged]
         /\ vault_window' = vault_charged

ConsumeWithdrawPacing(u, n) ==
  LET user_charged  == Charge(CurrentWindow(user_window[u], shares[u]), n)
      vault_charged == Charge(CurrentWindow(vault_window, total_shares), n)
  IN  \/ /\ ~PacingOn(pacing)
         /\ UNCHANGED windowVars
      \/ /\ PacingOn(pacing)
         /\ WithinAllowance(user_charged, pacing.user_max_bps)
         /\ WithinAllowance(vault_charged, pacing.vault_max_bps)
         /\ user_window' = [user_window EXCEPT ![u] = user_charged]
         /\ vault_window' = vault_charged

-----------------------------------------------------------------------------
(* The state initialize leaves behind.                                     *)
Init ==
  /\ shares = [u \in Users |-> 0]
  /\ deposited = [u \in Users |-> [l \in Legs |-> 0]]
  /\ total_shares = 0
  /\ total_amount = [l \in Legs |-> 0]
  /\ balance = [l \in Legs |-> 0]
  /\ wallet = [u \in Users |-> [l \in Legs |-> InitialFunds]]
  /\ treasury_balance = [t \in Treasuries |-> [l \in Legs |-> 0]]
  /\ harvests = 0
  /\ params = [Prices            |-> [l \in Legs |-> 0],
               MinDepositAmounts |-> [l \in Legs |-> 0],
               MinWithdrawShares |-> 1,
               Treasury          |-> FirstTreasury,
               TimelockDelay     |-> TimelockDelay]
  /\ pending = [id \in {} |-> 0]
  /\ next_action_id = 1
  /\ pacing = [user_max_bps |-> 0, vault_max_bps |-> 0, window_seconds |-> 0]
  /\ user_window = [u \in Users |-> NoWindow]
  /\ vault_window = NoWindow
  /\ paused = FALSE
  /\ emergency = [signers |-> <<>>, threshold |-> 3]
  /\ now = 0

(* Mutant: nobody looks at the flag.                                        *)
NoPauseCheck == TRUE

RequireNotPaused == ~paused

(* Mutant: a second deposit overwrites the position instead of adding.      *)
BookOverwriting(u, amounts, minted) ==
  /\ shares' = [shares EXCEPT ![u] = minted]
  /\ deposited' = [deposited EXCEPT ![u] = amounts]
  /\ total_shares' = total_shares + minted
  /\ total_amount' = Plus(total_amount, amounts)

(* What deposit writes to the position and the metrics.                     *)
Book(u, amounts, minted) ==
  /\ shares' = [shares EXCEPT ![u] = @ + minted]
  /\ deposited' = [deposited EXCEPT ![u] = Plus(@, amounts)]
  /\ total_shares' = total_shares + minted
  /\ total_amount' = Plus(total_amount, amounts)

(* deposit: every guard runs before tokens move; the token contract refuses *)
(* to move more than the user has.                                          *)
Deposit(u, amounts, min_shares) ==
  LET minted == MintedShares(amounts)
  IN  /\ RequireNotPaused
      /\ \A l \in Legs : amounts[l] >= params.MinDepositAmounts[l]
      /\ Value(amounts) > 0
      /\ minted > 0
      /\ minted >= min_shares
      /\ \A l \in Legs : wallet[u][l] >= amounts[l]
      /\ wallet' = [wallet EXCEPT ![u] = Minus(@, amounts)]
      /\ balance' = Plus(balance, amounts)
      /\ Book(u, amounts, minted)
      /\ UNCHANGED <<treasury_balance, harvests, timelockVars, pacing, windowVars, pauseVars, now>>

(* Mutant: the fees leave the vault without leaving its books.              *)
RetirePayout(u, n, redeemed) ==
  /\ shares' = [shares EXCEPT ![u] = @ - n]
  /\ deposited' = [deposited EXCEPT ![u] = Minus(@, redeemed)]
  /\ total_shares' = total_shares - n
  /\ total_amount' = Minus(total_amount, Payout(u, n))

(* What withdraw writes to the position and the metrics.                    *)
Retire(u, n, redeemed) ==
  /\ shares' = [shares EXCEPT ![u] = @ - n]
  /\ deposited' = [deposited EXCEPT ![u] = Minus(@, redeemed)]
  /\ total_shares' = total_shares - n
  /\ total_amount' = Minus(total_amount, redeemed)

(* Mutant: nothing checks that the vault holds what it pays.                *)
PayUncovered(u, redeemed, payout) ==
  /\ \A l \in Legs : payout[l] >= 0
  /\ balance' = Minus(balance, redeemed)
  /\ wallet' = [wallet EXCEPT ![u] = Plus(@, payout)]
  /\ treasury_balance' =
       [treasury_balance EXCEPT ![params.Treasury] = Plus(@, Minus(redeemed, payout))]

(* The transfers to the user and, for both fees, to the treasury.           *)
Pay(u, redeemed, payout) ==
  /\ \A l \in Legs : payout[l] >= 0 /\ balance[l] >= redeemed[l]
  /\ balance' = Minus(balance, redeemed)
  /\ wallet' = [wallet EXCEPT ![u] = Plus(@, payout)]
  /\ treasury_balance' =
       [treasury_balance EXCEPT ![params.Treasury] = Plus(@, Minus(redeemed, payout))]

(* withdraw: the payout has to meet the caller's minima and to be covered   *)
(* by the vault's tokens (the token contract refuses negative or uncovered  *)
(* transfers, which rolls the call back, the window charge included).       *)
Withdraw(u, n, minimum) ==
  LET redeemed == Redeemed(u, n)
      payout   == Payout(u, n)
  IN  /\ RequireNotPaused
      /\ n > 0
      /\ n >= params.MinWithdrawShares
      /\ n <= shares[u]
      /\ total_shares > 0
      /\ n = shares[u] \/ Value(redeemed) > 0
      /\ \A l \in Legs : payout[l] >= minimum[l]
      /\ ConsumeWithdrawPacing(u, n)
      /\ Retire(u, n, redeemed)
      /\ Pay(u, redeemed, payout)
      /\ UNCHANGED <<harvests, timelockVars, pacing, pauseVars, now>>

(* Mutant: the totals grow by the rewards before the fee.                   *)
NetRewardsWithFee == PendingRewards

NetRewards == PendingRewards - Bps(PendingRewards, HarvestFee)

(* harvest: the rewards net of the fee are added to the recorded totals and *)
(* the fee is paid out; the claim of the rewards from the pool is a         *)
(* placeholder in the code, and no token comes in.                          *)
Harvest ==
  LET fee == Bps(PendingRewards, HarvestFee)
  IN  /\ RequireNotPaused
      /\ harvests < MaxHarvests
      /\ PendingRewards > 0
      /\ \A l \in Legs : balance[l] >= fee
      /\ total_amount' = [l \in Legs |-> total_amount[l] + NetRewards]
      /\ balance' = [l \in Legs |-> balance[l] - fee]
      /\ treasury_balance' =
           [treasury_balance EXCEPT ![params.Treasury] = [l \in Legs |-> @[l] + fee]]
      /\ harvests' = harvests + 1
      /\ UNCHANGED <<shares, deposited, total_shares, wallet, timelockVars, pacing,
                     windowVars, pauseVars, now>>

-----------------------------------------------------------------------------
(* Administration.                                                         *)

(* set_withdraw_pacing takes effect at once.                                *)
SetWithdrawPacing(p) ==
  /\ p.user_max_bps <= 10000 /\ p.vault_max_bps <= 10000
  /\ (p.user_max_bps > 0 \/ p.vault_max_bps > 0) => p.window_seconds > 0
  /\ p # pacing
  /\ pacing' = p
  /\ UNCHANGED <<ledgerVars, harvests, timelockVars, windowVars, pauseVars, now>>

(* set_prices writes the prices at once, without the queue.                 *)
SetPrices(prices) ==
  /\ \A l \in Legs : prices[l] >= 0
  /\ prices # params.Prices
  /\ params' = [params EXCEPT !.Prices = prices]
  /\ UNCHANGED <<ledgerVars, harvests, pending, next_action_id, pacing, windowVars, pauseVars, now>>

(* The guards of the propose_* functions on the proposed value.             *)
ValidProposal(action) ==
  CASE action.kind \in {"Prices", "MinDepositAmounts"} -> \A l \in Legs : action.value[l] >= 0
    [] action.kind = "MinWithdrawShares" -> action.value > 0
    [] OTHER -> TRUE

(* Mutant: a change of the delay is queued under the new delay.             *)
ExecutableAtNewDelay(action) ==
  now + (IF action.kind = "TimelockDelay" THEN action.value ELSE params.TimelockDelay)

ExecutableAt(action) == now + params.TimelockDelay

(* propose_*: enqueue under a fresh id; the delay in force now decides when *)
(* the change may be executed.                                              *)
Propose(action) ==
  /\ next_action_id <= MaxActions
  /\ ValidProposal(action)
  /\ pending' = [id \in DOMAIN pending \cup {next_action_id} |->
                   IF id = next_action_id
                   THEN [action |-> action, executable_at |-> ExecutableAt(action)]
                   ELSE pending[id]]
  /\ next_action_id' = next_action_id + 1
  /\ UNCHANGED <<ledgerVars, harvests, params, pacing, windowVars, pauseVars, now>>

Dequeue(id) == pending' = [i \in DOMAIN pending \ {id} |-> pending[i]]

ApplyAction(action) == params' = [params EXCEPT ![action.kind] = action.value]

ExecutePendingAction(id) ==
  /\ id \in DOMAIN pending
  /\ now >= pending[id].executable_at
  /\ Dequeue(id)
  /\ ApplyAction(pending[id].action)
  /\ UNCHANGED <<ledgerVars, harvests, next_action_id, pacing, windowVars, pauseVars, now>>

CancelPendingAction(id) ==
  /\ id \in DOMAIN pending
  /\ Dequeue(id)
  /\ UNCHANGED <<ledgerVars, harvests, params, next_action_id, pacing, windowVars, pauseVars, now>>

(* pause and unpause by the admin.                                          *)
SetPaused(flag) ==
  /\ paused # flag
  /\ paused' = flag
  /\ UNCHANGED <<ledgerVars, harvests, timelockVars, pacing, windowVars, emergency, now>>

SetEmergencySigners(list) ==
  /\ list # emergency.signers
  /\ emergency' = [emergency EXCEPT !.signers = list]
  /\ UNCHANGED <<ledgerVars, harvests, timelockVars, pacing, windowVars, paused, now>>

SetEmergencyThreshold(n) ==
  /\ n > 0
  /\ n # emergency.threshold
  /\ emergency' = [emergency EXCEPT !.threshold = n]
  /\ UNCHANGED <<ledgerVars, harvests, timelockVars, pacing, windowVars, paused, now>>

(* require_multisig counts the entries of the list that are authorized.     *)
Authorized(list) == {i \in DOMAIN list : \E j \in DOMAIN emergency.signers :
                                            emergency.signers[j] = list[i]}

RequireMultisig(list) == Cardinality(Authorized(list)) >= emergency.threshold

(* emergency_pause and emergency_unpause.                                   *)
EmergencySetPaused(list, flag) ==
  /\ RequireMultisig(list)
  /\ paused # flag
  /\ paused' = flag
  /\ UNCHANGED <<ledgerVars, harvests, timelockVars, pacing, windowVars, emergency, now>>

(* Ledgers close and their timestamp grows.                                 *)
Tick ==
  /\ now < MaxTime
  /\ now' = now + 1
  /\ UNCHANGED <<ledgerVars, harvests, timelockVars, pacing, windowVars, pauseVars>>

-----------------------------------------------------------------------------
UserStep ==
  \/ \E u \in Users, amounts \in DepositAmounts, min_shares \in MinimumShares :
       Deposit(u, amounts, min_shares)
  \/ \E u \in Users, minimum \in MinimumOuts : \E n \in 1..shares[u] : Withdraw(u, n, minimum)
  \/ Harvest

TimelockStep ==
  \/ \E action \in Proposals : Propose(action)
  \/ \E id \in DOMAIN pending : ExecutePendingAction(id) \/ CancelPendingAction(id)

AdminStep ==
  \/ \E p \in PacingSettings : SetWithdrawPacing(p)
  \/ \E prices \in PriceUpdates : SetPrices(prices)
  \/ \E flag \in BOOLEAN : SetPaused(flag)

EmergencyStep ==
  \/ \E list \in SignerSets : SetEmergencySigners(list)
  \/ \E n \in Thresholds : SetEmergencyThreshold(n)
  \/ \E list \in ApprovalLists, flag \in BOOLEAN : EmergencySetPaused(list, flag)

Next == UserStep \/ TimelockStep \/ AdminStep \/ EmergencyStep \/ Tick

Spec == Init /\ [][Next]_vars

-----------------------------------------------------------------------------
(* Properties.                                                             *)

Amounts == [Legs -> Int]
Windows == [window_started_at: Nat, shares_withdrawn: Nat, window_start_shares: Nat]

(* Every quantity the ledger keeps is a count: positions, totals, tokens    *)
(* held and paid are never negative. Only a position's recorded deposits    *)
(* may be, because withdraw takes the redeemed amounts off them.            *)
TypeOK ==
  /\ shares \in [Users -> Nat]
  /\ deposited \in [Users -> Amounts]
  /\ total_shares \in Nat
  /\ total_amount \in [Legs -> Nat]
  /\ balance \in [Legs -> Nat]
  /\ wallet \in [Users -> [Legs -> Nat]]
  /\ treasury_balance \in [Treasuries -> Amounts]
  /\ harvests \in Nat
  /\ user_window \in [Users -> Windows]
  /\ vault_window \in Windows
  /\ paused \in BOOLEAN
  /\ now \in Nat

(* The shares outstanding are the shares the users hold: no deposit, exit   *)
(* or rounding makes metrics.total_shares drift from the positions.         *)
SharesConserved == total_shares = SumTo(shares, NumUsers)

(* What the vault has recorded exceeds what it holds by exactly the rewards *)
(* its harvests recorded, fee included: every other call moves as many      *)
(* tokens as it books, whatever the fees and the rounding.                  *)
BooksMatchTokens ==
  \A l \in Legs : total_amount[l] = balance[l] + harvests * PendingRewards

(* As long as no harvest has run, a holder of enough shares can leave with  *)
(* everything in one call: neither rounding nor fees nor what others did    *)
(* before make the transfers of a full exit fail ("can never block a full   *)
(* exit", yield_vault.rs 427-428).                                          *)
FullExitPossible ==
  harvests = 0 => \A u \in Users :
    shares[u] > 0 => \A l \in Legs : /\ Payout(u, shares[u])[l] >= 0
                                     /\ Redeemed(u, shares[u])[l] <= balance[l]

(* A deposit into a vault with holders never lowers the recorded value      *)
(* behind a share: minting rounds against the depositor.                    *)
DepositKeepsShareValue ==
  [][total_shares > 0 /\ total_shares' > total_shares
       => Value(total_amount') * total_shares >= Value(total_amount) * total_shares']_vars

(* A withdrawal leaves the others, leg by leg, at least their part of the   *)
(* recorded amounts, but for the dust a full exit may sweep.                *)
WithdrawLeavesOthersShare ==
  [][total_shares' < total_shares
       => \A l \in Legs :
            (total_amount'[l] + DUST_THRESHOLD) * total_shares
              >= total_amount[l] * total_shares']_vars

(* Pacing: what users took in windows opened after the vault's window did   *)
(* is all charged to the vault's window too, so that the vault's limit      *)
(* bounds the sum of the users' withdrawals, whatever order the windows     *)
(* expired and were renewed in.                                             *)
VaultWindowCoversUsers ==
  LET taken == [u \in Users |->
                  IF user_window[u].window_started_at > vault_window.window_started_at
                  THEN user_window[u].shares_withdrawn ELSE 0]
  IN  SumTo(taken, NumUsers) <= vault_window.shares_withdrawn

(* While the vault is paused, by either path, no position, total or token   *)
(* balance changes.                                                         *)
PausedFreezesLedger == [][paused => UNCHANGED <<ledgerVars, harvests>>]_vars
=============================================================================
