----------------------------- MODULE ClientReads -----------------------------
(***************************************************************************)
(* The reading methods of the contract clients: VaultClient,                *)
(* RebalancerClient, GovernanceSDK and insurance.ts. A read is a simulated  *)
(* call. Methods that show several fields read them one after the other     *)
(* while the chain moves on, and what they show when a simulation was       *)
(* refused depends on how the value is converted. getAllProposals probes    *)
(* identifiers until a gap is long enough.                                  *)
(*                                                                          *)
(* What the contract answers is external: an amount is where the contract   *)
(* stood when it answered, a number that only grows. A proposal goes from   *)
(* pending through votes and states to its end; identifiers start at 1.     *)
(***************************************************************************)
EXTENDS Integers, Sequences, FiniteSets

CONSTANTS
  MaxProposals,   \* bound on the proposals of the contract
  MaxStage,       \* bound on what happens to a proposal
  Probes,         \* maxProposals of getAllProposals
  GapLimit        \* the ten consecutive misses

(* What the theorem on the lists assumes of an instance.                    *)
ReadsAssumption == Probes \in Nat /\ GapLimit \in Nat

(* How a method converts a value, and what it makes of none:                *)
(*   "checked"  the status is checked, all but a success throws             *)
(*   "bigint", "struct"   null throws                                       *)
(*   "number"   Number(null) is 0                                           *)
(*   "state"    an unknown state is Pending                                 *)
(*   "flag"     shown as it is                                              *)
Checked == <<"checked">>

getVaultInfo    == Checked
getMetrics      == Checked
getUserPosition == Checked
getAPY          == Checked
getTVL          == Checked
isPaused        == Checked

analyzeRebalanceOpportunities == Checked
getStrategies            == Checked
getStrategy              == Checked
getHistory               == Checked
getHistoryPage           == Checked
getHistoryCount          == Checked
getCurrentAllocations    == Checked
isApyFresh               == Checked
calculateImpermanentLoss == Checked
simulateRebalance        == analyzeRebalanceOpportunities
getApyKeepers            == Checked
getPoolCurrentApy        == Checked
getPoolApyRecord         == Checked
getMaxApyAge             == Checked

calculatePremium         == Checked
getReserveStats          == Checked

getTokenBalance   == <<"bigint">>
getTotalSupply    == <<"bigint">>
getVotingPower    == <<"bigint">>
getBoostedBalance == <<"bigint">>
getBoostMultiplier == <<"number">>
getPendingRewards == <<"bigint">>
getStakeBalance   == <<"bigint">>
getClaimableFees  == <<"bigint">>
getTotalFeesCollected == <<"bigint">>

(* The lock, then three methods from above.                                 *)
getLockInfo == <<"struct">> \o getVotingPower \o getBoostedBalance \o getBoostMultiplier

(* Four reads at once.                                                      *)
getProtocolParameters == <<"number", "number", "number", "number">>

(* The proposal with its votes, its state, has_quorum and has_passed.       *)
getProposal == <<"struct", "state", "flag", "flag">>

ReadMethods ==
  {getVaultInfo, getMetrics, getUserPosition, getAPY, getTVL, isPaused,
   analyzeRebalanceOpportunities, getStrategies, getStrategy, getHistory, getHistoryPage,
   getHistoryCount, getCurrentAllocations, isApyFresh, calculateImpermanentLoss,
   simulateRebalance, getApyKeepers, getPoolCurrentApy, getPoolApyRecord, getMaxApyAge,
   calculatePremium, getReserveStats,
   getTokenBalance, getTotalSupply, getVotingPower, getBoostedBalance, getBoostMultiplier,
   getPendingRewards, getStakeBalance, getClaimableFees, getTotalFeesCollected,
   getLockInfo, getProtocolParameters}

VARIABLES
  chain,     \* how far every proposal of the contract has come
  reading,   \* the conversions of the reads that are left, <<>> when idle
  shown,     \* the fields read so far
  result,    \* how the last read ended: "none", "shown" or "thrown"
  probe,     \* the identifier getAllProposals is at, or NoProbe
  misses,    \* consecutiveMisses
  failed,    \* the identifiers whose probe threw
  listed     \* the proposals getAllProposals has got, by identifier

readVars == <<reading, shown, result>>
listVars == <<probe, misses, failed, listed>>
vars == <<chain, readVars, listVars>>

NoProbe == -1
Null    == -1

Exists(i) == i \in DOMAIN chain

Init ==
  /\ chain = <<>>
  /\ reading = <<>> /\ shown = <<>> /\ result = "none"
  /\ probe = NoProbe /\ misses = 0 /\ failed = {} /\ listed = <<>>

(* The contract (external).                                                 *)
Propose ==
  /\ Len(chain) < MaxProposals
  /\ chain' = Append(chain, 0)
  /\ UNCHANGED <<readVars, listVars>>

Proceed(i) ==
  /\ chain[i] < MaxStage
  /\ chain' = [chain EXCEPT ![i] = @ + 1]
  /\ UNCHANGED <<readVars, listVars>>

-----------------------------------------------------------------------------
Idle == reading = <<>> /\ probe = NoProbe

BeginRead ==
  /\ Idle
  /\ \E m \in ReadMethods : reading' = m
  /\ shown' = <<>> /\ result' = "none"
  /\ UNCHANGED <<chain, listVars>>

Now == IF Exists(probe) THEN chain[probe] ELSE MaxStage

(* simulateCall: null when the simulation was refused.                      *)
RefusedIs == Null

(* Mutant: an unknown state is shown as the last one.                       *)
UnknownStateIsLast(value) == IF value = Null THEN MaxStage ELSE value

(* mapProposalState.                                                        *)
MapState(value) == IF value = Null THEN 0 ELSE value

Shown(conversion, value) ==
  CASE conversion = "number" -> IF value = Null THEN 0 ELSE value
    [] conversion = "state"  -> MapState(value)
    [] OTHER                 -> value

ThrowsOn(conversion, value) ==
  conversion \in {"checked", "bigint", "struct"} /\ value = Null

(* One simulated call is answered with a value or refused. (getProposal     *)
(* notices a missing proposal after its four reads; it throws either way.)  *)
Answered ==
  /\ reading # <<>>
  /\ \E value \in (IF probe = NoProbe \/ Exists(probe) THEN {Now} ELSE {}) \cup {RefusedIs} :
       IF ThrowsOn(Head(reading), value)
       THEN reading' = <<>> /\ result' = "thrown" /\ UNCHANGED shown
       ELSE /\ reading' = Tail(reading)
            /\ shown' = Append(shown, Shown(Head(reading), value))
            /\ result' = IF Len(reading) = 1 THEN "shown" ELSE "none"
  /\ UNCHANGED <<chain, listVars>>

(* The account or the node cannot be reached: every method throws.          *)
Unreachable ==
  /\ reading # <<>>
  /\ reading' = <<>> /\ result' = "thrown"
  /\ UNCHANGED <<chain, shown, listVars>>

-----------------------------------------------------------------------------
(* getAllProposals.                                                        *)

BeginList ==
  /\ Idle
  /\ probe' = 0 /\ misses' = 0 /\ failed' = {} /\ listed' = <<>>
  /\ reading' = getProposal /\ shown' = <<>> /\ result' = "none"
  /\ UNCHANGED chain

(* Mutant: a hit does not end a gap.                                        *)
MissesKept == misses

MissesAfterHit == 0

Continue ==
  IF probe + 1 < Probes
  THEN probe' = probe + 1 /\ reading' = getProposal
  ELSE probe' = Probes /\ reading' = <<>>

(* A proposal is listed.                                                    *)
Hit ==
  /\ probe \in 0..Probes - 1 /\ reading = <<>> /\ result = "shown"
  /\ listed' = Append(listed, [id |-> probe, fields |-> shown])
  /\ misses' = MissesAfterHit
  /\ Continue
  /\ shown' = <<>> /\ result' = "none"
  /\ UNCHANGED <<chain, failed>>

(* A probe threw: the list ends when the gap is long enough.                *)
Miss ==
  /\ probe \in 0..Probes - 1 /\ reading = <<>> /\ result = "thrown"
  /\ misses' = misses + 1
  /\ failed' = failed \cup {probe}
  /\ IF misses' >= GapLimit THEN probe' = Probes /\ UNCHANGED reading ELSE Continue
  /\ shown' = <<>> /\ result' = "none"
  /\ UNCHANGED <<chain, listed>>

(* The list is shown until somebody reads again.                            *)
CloseList ==
  /\ probe = Probes
  /\ probe' = NoProbe
  /\ UNCHANGED <<chain, readVars, misses, failed, listed>>

-----------------------------------------------------------------------------
Next ==
  \/ Propose \/ \E i \in DOMAIN chain : Proceed(i)
  \/ BeginRead \/ Answered \/ Unreachable
  \/ BeginList \/ Hit \/ Miss \/ CloseList

Spec == Init /\ [][Next]_vars

-----------------------------------------------------------------------------
(* Properties.                                                             *)

Listed == {listed[k].id : k \in DOMAIN listed}

(* Nothing a listed proposal shows is ahead of the contract, and its votes  *)
(* are not newer than its state: the four reads are taken one after the     *)
(* other while votes and states go on, and a state that could not be read   *)
(* is shown as Pending.                                                     *)
ShownNotAhead ==
  \A k \in DOMAIN listed :
    LET p == listed[k] IN
    /\ p.fields[1] <= chain[p.id]
    /\ p.fields[2] \in {0} \cup p.fields[1]..chain[p.id]
    /\ \A f \in {3, 4} : p.fields[f] # Null => p.fields[f] \in p.fields[2]..chain[p.id]

(* A list that is complete lacks a proposal only if its own probe failed or *)
(* GapLimit probes in a row failed before it: a gap of fewer misses hides   *)
(* nothing behind it.                                                       *)
ListedUpToGap ==
  probe = Probes =>
    \A i \in 1..Probes - 1 :
      i \in Listed \cup failed \/ \E j \in 0..i - GapLimit : j..j + GapLimit - 1 \subseteq failed

(* What getAllProposals lists is what the contract holds, however the reads *)
(* interleave with votes, executions and refused simulations.               *)
ListIsFaithful == ShownNotAhead /\ ListedUpToGap
=============================================================================
