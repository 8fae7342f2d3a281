-------------------------- MODULE RewardDistributor --------------------------
(***************************************************************************)
(* The reward distributor contract, src/reward_distributor.rs.              *)
(*                                                                          *)
(* Reward streams emit tokens at a rate. An update adds what was emitted    *)
(* since the last one to the stream's accumulator and notes what a user has *)
(* pending for its shares; a claim pays what is noted. A call is one step;  *)
(* a call that panics is undone as a whole and is no step.                  *)
(*                                                                          *)
(* Left out: slippage, the conversion of claims (execute_swap only          *)
(* publishes an event and always succeeds, so that nothing is ever queued), *)
(* prices and USD values, time stamps nothing reads, and the records of     *)
(* emergency withdrawals, which move nothing.                               *)
(***************************************************************************)
EXTENDS Sums, Sequences

CONSTANTS
  NumUsers,       \* accounts, numbered 1 .. NumUsers
  Tokens,         \* the tokens streams may pay
  StreamLimit,    \* MAX_REWARD_STREAMS
  Rates,          \* rate_per_second the admin sets
  ShareCounts,    \* user_shares callers name
  Unit,           \* 10^vault_share_decimals
  FeeBps,         \* TREASURY_FEE_BPS
  Deadlines,      \* claim deadlines the admin sets; 0 is none
  Percentages,    \* reinvest_percentage users set
  Funding,        \* what the admin pays in at a time
  MaxCalls,       \* bound on calls other than pauses and modes
  MaxTime         \* bound on the ledger timestamp

(* An instance has some number of users and streams; rates do not take      *)
(* rewards back.                                                            *)
RewardsAssumption ==
  /\ NumUsers \in Nat /\ StreamLimit \in Nat
  /\ Rates \subseteq Nat /\ Deadlines \subseteq Int
  /\ ShareCounts \subseteq Int /\ Funding \subseteq Int
  /\ Unit \in Nat \ {0} /\ FeeBps \in Nat

Users == 1..NumUsers
StreamIndices == 1..StreamLimit

VARIABLES
  streams,       \* the reward streams, in order of creation
  accumulated,   \* the accumulated reward per share of every stream
  pending,       \* pending_rewards of every user and stream
  configs,       \* the auto-compound settings of every user and token
  held,          \* tokens the contract holds
  pool,          \* pool_balance
  received,      \* tokens every user has received
  treasury,      \* tokens the treasury has received
  paused,
  emergency,     \* emergency_mode
  calls,         \* number of calls other than pauses and modes
  emitted,       \* history: what every stream has emitted at its rates
  now            \* ledger timestamp

tokenVars == <<held, pool, received, treasury>>
modeVars  == <<paused, emergency>>
vars == <<streams, accumulated, pending, configs, tokenVars, modeVars, calls, emitted, now>>

Init ==
  /\ streams = <<>>
  /\ accumulated = [i \in StreamIndices |-> 0]
  /\ pending = [u \in Users |-> [i \in StreamIndices |-> 0]]
  /\ configs = [u \in Users |-> [t \in Tokens |-> [percentage |-> 0, enabled |-> FALSE]]]
  /\ held = [t \in Tokens |-> 0]
  /\ pool = [t \in Tokens |-> 0]
  /\ received = [u \in Users |-> [t \in Tokens |-> 0]]
  /\ treasury = [t \in Tokens |-> 0]
  /\ paused = FALSE /\ emergency = FALSE
  /\ calls = 0
  /\ emitted = [i \in StreamIndices |-> 0]
  /\ now = 1

-----------------------------------------------------------------------------
(* Streams.                                                                *)

AddRewardStream(t, rate, deadline) ==
  /\ ~paused
  /\ Len(streams) < StreamLimit
  /\ streams' = Append(streams,
       [token |-> t, rate |-> rate, distributed |-> 0, last_update |-> now,
        active |-> TRUE, deadline |-> deadline])
  /\ UNCHANGED <<accumulated, pending, configs, tokenVars, modeVars, emitted, now>>

SetStream(i, s) ==
  /\ streams' = [streams EXCEPT ![i] = s]
  /\ UNCHANGED <<accumulated, pending, configs, tokenVars, modeVars, emitted, now>>

SetClaimDeadline(i, deadline) == SetStream(i, [streams[i] EXCEPT !.deadline = deadline])

(* Mutant: what the old rate emitted is later counted at the new one.       *)
AtNewRateSinceUpdate(s, rate) == [s EXCEPT !.rate = rate]

(* What the old rate emitted since the last update is not accrued: the time *)
(* stamp moves past it.                                                     *)
AtNewRate(s, rate) == [s EXCEPT !.rate = rate, !.last_update = now]

UpdateRewardRate(i, rate) == SetStream(i, AtNewRate(streams[i], rate))

(* The same holds for the end of a stream. A stream is not activated again. *)
DeactivateStream(i) ==
  SetStream(i, [streams[i] EXCEPT !.active = FALSE, !.last_update = now])

-----------------------------------------------------------------------------
(* Accrual.                                                                *)

(* Nothing records the shares of a vault: total_shares is 0 and is set to 1 *)
(* against a division by zero.                                              *)
VaultTotalShares == 1

(* reward_debt is 0 at first and nothing writes it.                         *)
RewardDebt == 0

Elapsed(s) == now - s.last_update

RewardDelta(s) == IF s.active THEN s.rate * Elapsed(s) ELSE 0

Accrued(s) ==
  IF s.active /\ Elapsed(s) > 0
  THEN [s EXCEPT !.distributed = @ + RewardDelta(s), !.last_update = now]
  ELSE s

AccumulatedNow(i) ==
  accumulated[i] + (RewardDelta(streams[i]) * Unit) \div VaultTotalShares

(* update_rewards: all active streams accrue, for every caller, and what    *)
(* the user has pending of them follows the shares named in the call.       *)
UpdateRewards(u, user_shares) ==
  LET acc == [i \in StreamIndices |->
                IF i \in DOMAIN streams THEN AccumulatedNow(i) ELSE accumulated[i]]
  IN  /\ ~emergency
      /\ streams' = [i \in DOMAIN streams |-> Accrued(streams[i])]
      /\ accumulated' = acc
      /\ pending' = [pending EXCEPT ![u] =
           [i \in StreamIndices |->
              IF i \in DOMAIN streams /\ streams[i].active
              THEN (user_shares * acc[i]) \div Unit - RewardDebt
              ELSE @[i]]]
      /\ UNCHANGED <<configs, tokenVars, modeVars, emitted, now>>

-----------------------------------------------------------------------------
(* Claims.                                                                 *)

TreasuryFee(amount) == (amount * FeeBps) \div 10000

PaidIn(t, i, amount) == IF streams[i].token = t THEN amount ELSE 0

(* What claiming the streams in chosen takes of token t in all, and the fee *)
(* within it.                                                               *)
Due(u, t, chosen) ==
  LET due == [i \in StreamIndices |-> IF i \in chosen THEN PaidIn(t, i, pending[u][i]) ELSE 0]
  IN  SumTo(due, StreamLimit)

Fees(u, t, chosen) ==
  LET fee == [i \in StreamIndices |->
                IF i \in chosen THEN PaidIn(t, i, TreasuryFee(pending[u][i])) ELSE 0]
  IN  SumTo(fee, StreamLimit)

Claimable(u, i) ==
  /\ streams[i].deadline # 0 => now <= streams[i].deadline
  /\ pending[u][i] > 0

(* Mutant: the fee is paid on top of the reward.                            *)
NetWithoutFee(u, t, chosen) == Due(u, t, chosen)

Net(u, t, chosen) == Due(u, t, chosen) - Fees(u, t, chosen)

(* require_not_emergency and require_not_paused.                            *)
NotStopped == ~emergency /\ ~paused

(* claim_rewards: one stream that has nothing to claim, is past its         *)
(* deadline or lacks tokens makes the whole claim fail, as does naming a    *)
(* stream twice.                                                            *)
Pay(u, chosen) ==
  /\ NotStopped
  /\ \A i \in chosen : Claimable(u, i)
  /\ \A t \in Tokens : held[t] >= Due(u, t, chosen)
  /\ held' = [t \in Tokens |-> held[t] - Due(u, t, chosen)]
  /\ received' = [received EXCEPT ![u] =
       [t \in Tokens |-> @[t] + Net(u, t, chosen)]]
  /\ treasury' = [t \in Tokens |-> treasury[t] + Fees(u, t, chosen)]
  /\ pending' = [pending EXCEPT ![u] =
       [i \in StreamIndices |-> IF i \in chosen THEN 0 ELSE @[i]]]

ClaimRewards(u, chosen) ==
  /\ Pay(u, chosen)
  /\ UNCHANGED <<streams, accumulated, configs, pool, modeVars, emitted, now>>

SetAutoCompoundConfig(u, t, percentage, enabled) ==
  /\ percentage <= 10000
  /\ configs' = [configs EXCEPT ![u][t] = [percentage |-> percentage, enabled |-> enabled]]
  /\ UNCHANGED <<streams, accumulated, pending, tokenVars, modeVars, emitted, now>>

ToClaim(u, i) ==
  LET config == configs[u][streams[i].token]
  IN  IF config.enabled /\ pending[u][i] > 0
      THEN pending[u][i] - (pending[u][i] * config.percentage) \div 10000
      ELSE 0

(* execute_auto_compound: as soon as one stream leaves something to claim,  *)
(* all streams named are claimed in full; otherwise nothing changes. What   *)
(* is to be reinvested is only returned.                                    *)
ExecuteAutoCompound(u, chosen) ==
  /\ \E i \in chosen : ToClaim(u, i) > 0
  /\ ClaimRewards(u, chosen)

-----------------------------------------------------------------------------
FundRewardPool(t, amount) ==
  /\ held' = [held EXCEPT ![t] = @ + amount]
  /\ pool' = [pool EXCEPT ![t] = @ + amount]
  /\ UNCHANGED <<streams, accumulated, pending, configs, received, treasury, modeVars,
                 emitted, now>>

(* pause and unpause; enable_ and disable_emergency_mode.                   *)
SetPaused(flag) ==
  /\ paused # flag
  /\ paused' = flag
  /\ UNCHANGED <<streams, accumulated, pending, configs, tokenVars, emergency, calls, emitted, now>>

SetEmergencyMode(flag) ==
  /\ emergency # flag
  /\ emergency' = flag
  /\ UNCHANGED <<streams, accumulated, pending, configs, tokenVars, paused, calls, emitted, now>>

(* Ledgers close. What a stream emits meanwhile is history only.            *)
Tick ==
  /\ now < MaxTime
  /\ now' = now + 1
  /\ emitted' = [i \in StreamIndices |->
       IF i \in DOMAIN streams /\ streams[i].active THEN emitted[i] + streams[i].rate
       ELSE emitted[i]]
  /\ UNCHANGED <<streams, accumulated, pending, configs, tokenVars, modeVars, calls>>

-----------------------------------------------------------------------------
AdminCall ==
  \/ \E t \in Tokens, rate \in Rates, d \in Deadlines : AddRewardStream(t, rate, d)
  \/ \E i \in DOMAIN streams :
       \/ \E d \in Deadlines : SetClaimDeadline(i, d)
       \/ \E rate \in Rates : UpdateRewardRate(i, rate)
       \/ DeactivateStream(i)
  \/ \E t \in Tokens, amount \in Funding : FundRewardPool(t, amount)

UserCall(u) ==
  \/ \E n \in ShareCounts : UpdateRewards(u, n)
  \/ \E chosen \in SUBSET (DOMAIN streams) :
       /\ chosen # {}
       /\ ClaimRewards(u, chosen) \/ ExecuteAutoCompound(u, chosen)
  \/ \E t \in Tokens, p \in Percentages, flag \in BOOLEAN :
       SetAutoCompoundConfig(u, t, p, flag)

Call ==
  /\ calls < MaxCalls
  /\ calls' = calls + 1
  /\ AdminCall \/ \E u \in Users : UserCall(u)

Stop == \E flag \in BOOLEAN : SetPaused(flag) \/ SetEmergencyMode(flag)

Next == Call \/ Stop \/ Tick

Spec == Init /\ [][Next]_vars

-----------------------------------------------------------------------------
(* Properties.                                                             *)

(* No time is rewarded twice: whatever rates were set, streams ended and    *)
(* calls made in whatever order, a stream never distributes more than it    *)
(* has emitted at the rates in force at the time, and its accumulator is    *)
(* exactly what it has distributed.                                         *)
DistributedWasEmitted ==
  \A i \in DOMAIN streams :
    /\ streams[i].distributed <= emitted[i]
    /\ accumulated[i] = streams[i].distributed * Unit

(* Every token that was ever paid in is held, with a user or with the       *)
(* treasury, though pool_balance is never debited and claims pay several    *)
(* streams of one token together, each with a fee rounded on its own.       *)
FundingAccounted ==
  \A t \in Tokens :
    LET paid == [u \in Users |-> received[u][t]]
    IN  pool[t] = held[t] + SumTo(paid, NumUsers) + treasury[t]

(* Nobody is paid more than its shares ever earned: the reward debt records *)
(* what was paid ("accumulated_reward_per_share * shares",                  *)
(* reward_distributor.rs 41).                                               *)
PaidAtMostEarned ==
  \A u \in Users, t \in Tokens :
    \E n \in ShareCounts :
      LET earned == [i \in StreamIndices |-> IF i \in DOMAIN streams
                                             THEN PaidIn(t, i, (n * accumulated[i]) \div Unit)
                                             ELSE 0]
      IN  received[u][t] <= SumTo(earned, StreamLimit)
=============================================================================
