------------------------------ MODULE MCClients ------------------------------
(***************************************************************************)
(* The SDK's clients and calculators. They share no state: a behaviour is   *)
(* one of a single part, while the others stay as they were made, so that   *)
(* their states add up instead of multiplying. ClientCalls is extended, the *)
(* others are instances beside it; fairness is what ClientCalls states.     *)
(***************************************************************************)
EXTENDS ClientCalls

CONSTANTS
  MaxProposals, MaxStage, Probes, GapLimit,
  MaxTime,
  MaxArg, Bp, Kilo, Base, Decimals

VARIABLES
  part,
  chain, reading, shown, result, probe, misses, failed, listed,
  now, shares, call, awaits, pending, claimed, left, reported, effects, ending,
  args

Reads   == INSTANCE ClientReads
Rewards == INSTANCE RewardsClient WITH todo <- awaits, outcome <- ending
Calc    == INSTANCE Calculators

(* The instance meets what the theorems on the lists and the calculators    *)
(* assume.                                                                  *)
ASSUME InstanceAssumption == Reads!ReadsAssumption /\ Calc!CalculatorsAssumption

(* The methods of the clients, and a transaction sent with retries.         *)
AllMethods == Methods \cup {retriedSend}

readsVars   == <<chain, reading, shown, result, probe, misses, failed, listed>>
rewardsVars == <<now, shares, call, awaits, pending, claimed, left, reported, effects, ending>>
clientsVars == <<part, vars, readsVars, rewardsVars, args>>

(* Where a part may begin in several ways, the others begin in one.         *)
ClientsInit ==
  /\ part \in {"calls", "reads", "rewards", "calculators"}
  /\ Init /\ Reads!Init /\ Rewards!Init /\ Calc!Init
  /\ part # "calls" => ~batch
  /\ part # "rewards" => ~shares

CallsDo(Step) ==
  part = "calls" /\ Step /\ UNCHANGED <<part, readsVars, rewardsVars, args>>

ReadsMove ==
  part = "reads" /\ Reads!Next /\ UNCHANGED <<part, vars, rewardsVars, args>>

RewardsMove ==
  part = "rewards" /\ Rewards!Next /\ UNCHANGED <<part, vars, readsVars, args>>

CalculatorsMove ==
  part = "calculators" /\ Calc!Next /\ UNCHANGED <<part, vars, readsVars, rewardsVars>>

ClientsNext == CallsDo(Next) \/ ReadsMove \/ RewardsMove \/ CalculatorsMove

ClientsSpec ==
  /\ ClientsInit /\ [][ClientsNext]_clientsVars
  /\ (\A c \in Calls : WF_clientsVars(CallsDo(CallStep(c)))) /\ WF_clientsVars(CallsDo(Tick))

-----------------------------------------------------------------------------
(* The properties of the parts, as their modules state them.                *)

(* Of the reads: a list of proposals shows what the contract holds.         *)
ListIsFaithful == Reads!ListIsFaithful

(* Of the rewards client: what returned is in effect.                       *)
ReturnedIsInEffect == Rewards!ReturnedIsInEffect

(* Of the calculators: they agree with the contracts and their names.       *)
CalculationsAgree == Calc!CalculationsAgree
=============================================================================
