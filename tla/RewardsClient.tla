---------------------------- MODULE RewardsClient ----------------------------
(***************************************************************************)
(* RewardsSDK (sdk/src/rewards.ts): what one user's calls do, one call at a *)
(* time, each a sequence of awaits, while the user's shares change and      *)
(* time goes on. A claim and every conversion is a transaction of its own,  *)
(* so that a call can do a part of its work and fail.                       *)
(*                                                                          *)
(* The streams are those getRewardStreamsFromContract lists, each with a    *)
(* token of its own; amounts are abstracted to whether there is any. The    *)
(* payments of 0 that stand for the contract calls are transactions like    *)
(* others.                                                                  *)
(***************************************************************************)
EXTENDS Integers, Sequences, FiniteSets

CONSTANT MaxTime      \* bound on the time

VARIABLES
  now,        \* the time
  shares,     \* whether the user has shares of the vault
  call,       \* the call under way, or the last one
  todo,       \* its awaits that are left, <<>> when it has ended
  pending,    \* the streams with a pending reward, as last read
  claimed,    \* the tokens of claimAmounts
  left,       \* those of them that are still to be converted
  reported,   \* the tokens executeAutoCompound counts as claimed
  effects,    \* the transactions of the call that took effect
  outcome     \* how the call ended: "none", "returned" or "thrown"

callVars == <<call, todo, pending, claimed, left, reported, effects, outcome>>
vars == <<now, shares, callVars>>

(* getRewardStreamsFromContract; a stream is known by its token.            *)
Tokens == {"USDC", "XLM", "GOV"}
RewardStreams == {[token |-> t, isActive |-> TRUE, claimDeadline |-> 0] : t \in Tokens}
None == "none"

getAllStreams == RewardStreams
getActiveStreams == {s \in getAllStreams : s.isActive}

isClaimDeadlinePassed(s, time) == s.claimDeadline # 0 /\ time > s.claimDeadline

(* Basis points, here in units of MAX_SLIPPAGE_BPS.                         *)
validateMaxSlippageBps(bps) == bps \in 0..1

NoCall == [method |-> "none", streams |-> {}, convertTo |-> None, enableAutoRetry |-> FALSE]

Init ==
  /\ now = 0 /\ shares \in BOOLEAN
  /\ call = NoCall /\ todo = <<>>
  /\ pending = {} /\ claimed = {} /\ left = {} /\ reported = {} /\ effects = {}
  /\ outcome = "none"

Idle == todo = <<>>
At(step) == ~Idle /\ Head(todo) = step
Passes == todo' = Tail(todo) /\ UNCHANGED outcome
Ends(result) == todo' = <<>> /\ outcome' = result

(* The awaits of a method. A "list" reads the pending rewards that stand    *)
(* for streams the caller did not name.                                     *)
claimRewards(list) == list \o <<"pending", "account", "claim", "convert">>
Transaction == <<"account", "submit">>

Begins(method, streams, convertTo, retry, steps) ==
  /\ Idle
  /\ call' = [method |-> method, streams |-> streams, convertTo |-> convertTo,
              enableAutoRetry |-> retry]
  /\ todo' = steps
  /\ pending' = {} /\ claimed' = {} /\ left' = {} /\ reported' = {} /\ effects' = {}
  /\ outcome' = "none"
  /\ UNCHANGED <<now, shares>>

(* A tolerance out of range throws before anything is read.                 *)
BeginClaim ==
  \E streams \in SUBSET Tokens, convertTo \in Tokens \cup {None}, retry \in BOOLEAN,
     bps \in -1..2 :
    /\ validateMaxSlippageBps(bps)
    /\ Begins("claimRewards", streams, convertTo, retry, claimRewards(<<>>))

claimAndConvert ==
  \E target \in Tokens :
    \/ \E streams \in SUBSET Tokens :
         Begins("claimAndConvert", streams, target, TRUE, claimRewards(<<>>))
    \/ Begins("claimAndConvert", {}, target, TRUE, claimRewards(<<"list">>))

(* It always reads what is pending first.                                   *)
executeAutoCompound ==
  \/ \E streams \in SUBSET Tokens :
       Begins("compoundNamed", streams, None, TRUE, claimRewards(<<"list">>))
  \/ Begins("compoundAll", {}, None, TRUE, claimRewards(<<"list">>))

(* The percentage is checked before; the transaction carries none of it.    *)
setAutoCompound   == Begins("setAutoCompound", {}, None, FALSE, Transaction)
emergencyWithdraw == Begins("emergencyWithdraw", {}, None, FALSE, Transaction)
swapTokens        == Begins("swapTokens", {}, None, FALSE, Transaction)
swapWithRetry     == Begins("swapWithRetry", {}, None, TRUE, Transaction)

(* calculatePendingRewards is positive for whoever has shares: every stream *)
(* was last updated an hour ago.                                            *)
getPendingRewards == IF shares THEN {s.token : s \in getActiveStreams} ELSE {}

(* getAutoCompoundConfig is never enabled, so that everything is claimed.   *)
(* The token is the one at the stream's place among the pending tokens,     *)
(* which are all or none; with nothing to claim there is no transaction.    *)
List ==
  /\ At("list")
  /\ pending' = getPendingRewards
  /\ call' = IF call.method = "compoundNamed" THEN call ELSE [call EXCEPT !.streams = pending']
  /\ IF call.method = "claimAndConvert" THEN Passes /\ UNCHANGED reported
     ELSE /\ reported' = IF pending' = {} THEN {} ELSE call'.streams
          /\ IF reported' = {} THEN Ends("returned") ELSE Passes
  /\ UNCHANGED <<now, shares, claimed, left, effects>>

ToConvert(tokens) == IF call.convertTo = None THEN {} ELSE tokens \ {call.convertTo}

(* The rewards are read again, and a stream whose deadline passed throws.   *)
ReadPending ==
  /\ At("pending")
  /\ pending' = getPendingRewards
  /\ LET taken == {s \in getAllStreams : s.token \in call.streams \cap pending'} IN
     IF \E s \in taken : isClaimDeadlinePassed(s, now)
     THEN Ends("thrown") /\ UNCHANGED <<claimed, left>>
     ELSE /\ claimed' = {s.token : s \in taken}
          /\ left' = ToConvert(claimed')
          /\ Passes
  /\ UNCHANGED <<now, shares, call, reported, effects>>

LoadAccount ==
  /\ At("account")
  /\ Passes
  /\ UNCHANGED <<now, shares, call, pending, claimed, left, reported, effects>>

(* A read or a transaction fails: all but swapWithRetry throw.              *)
Fails == Ends(IF call.method = "swapWithRetry" THEN "returned" ELSE "thrown")

ReadFails ==
  /\ At("list") \/ At("pending") \/ At("account")
  /\ Fails
  /\ UNCHANGED <<now, shares, call, pending, claimed, left, reported, effects>>

(* Horizon's submitTransaction answers when the transaction is in a ledger; *)
(* it throws when it was refused, or got no answer in time whether it is in *)
(* effect or not.                                                           *)
Accepted(id) == effects' = effects \cup {id}
Rejected(id) == effects' \in {effects, effects \cup {id}}

SubmitClaim ==
  /\ At("claim")
  /\ \/ Accepted("claim") /\ Passes
     \/ Rejected("claim") /\ Fails
  /\ UNCHANGED <<now, shares, call, pending, claimed, left, reported>>

SubmitSingle ==
  /\ At("submit")
  /\ \/ Accepted(call.method) /\ Ends("returned")
     \/ Rejected(call.method) /\ Fails
  /\ UNCHANGED <<now, shares, call, pending, claimed, left, reported>>

(* Mutant: every failed conversion is left for a retry.                     *)
GoesOnAlways == TRUE

(* Without retry a failed conversion throws; with it the loop goes on, and  *)
(* nothing repeats the conversion.                                          *)
GoesOn == call.enableAutoRetry

(* One conversion, with the reads and the transaction of swapTokens.        *)
Convert ==
  /\ At("convert")
  /\ \E token \in left :
       /\ left' = left \ {token}
       /\ \/ Accepted(token) /\ UNCHANGED <<todo, outcome>>
          \/ /\ Rejected(token)
             /\ IF GoesOn THEN UNCHANGED <<todo, outcome>> ELSE Fails
  /\ UNCHANGED <<now, shares, call, pending, claimed, reported>>

Return ==
  /\ At("convert") /\ left = {}
  /\ Ends("returned")
  /\ UNCHANGED <<now, shares, call, pending, claimed, left, reported, effects>>

(* Others: the user's shares change, time passes.                           *)
SharesChange ==
  /\ shares' = ~shares
  /\ UNCHANGED <<now, callVars>>

Tick ==
  /\ now < MaxTime
  /\ now' = now + 1
  /\ UNCHANGED <<shares, callVars>>

-----------------------------------------------------------------------------
Next ==
  \/ BeginClaim \/ claimAndConvert \/ executeAutoCompound
  \/ setAutoCompound \/ emergencyWithdraw \/ swapTokens \/ swapWithRetry
  \/ List \/ ReadPending \/ LoadAccount \/ ReadFails
  \/ SubmitClaim \/ SubmitSingle \/ Convert \/ Return
  \/ SharesChange \/ Tick

Spec == Init /\ [][Next]_vars

-----------------------------------------------------------------------------
(* Properties.                                                             *)

IsClaim == "claim" \in effects \/ claimed # {}

(* The caller gets what the call says: one that returns has its claim in    *)
(* effect and, without retry, every conversion it asked for; a conversion   *)
(* takes effect only after the claim did and only for a token of the claim. *)
(* The rewards are read twice, and either loop may stop half way.           *)
ReturnedIsInEffect ==
  /\ outcome = "returned" /\ IsClaim =>
       "claim" \in effects /\ (call.enableAutoRetry \/ ToConvert(claimed) \subseteq effects)
  /\ effects \cap Tokens # {} => "claim" \in effects /\ effects \cap Tokens \subseteq claimed
=============================================================================
