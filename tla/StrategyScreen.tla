---------------------------- MODULE StrategyScreen ----------------------------
(***************************************************************************)
(* The strategy selector of the web application (StrategySelector.tsx) on   *)
(* top of StrategyRegistryClient (sdk/src/strategyRegistryClient.ts).       *)
(*                                                                          *)
(* The page gives the selector a registry, or none; every change loads once *)
(* more, while loads for other registries may be under way and are answered *)
(* in any order. What the contract answers is external: the list of its     *)
(* active strategies, known here by their identifiers.                      *)
(***************************************************************************)
EXTENDS Naturals, Sequences, SequencesExt

CONSTANTS
  Registries,    \* the addresses of registries
  Records,       \* the identifiers a registry may give its strategies
  Limit,         \* limit of fetchActiveStrategies
  MaxAnswer,     \* bound on the strategies of a registry
  MaxLoads       \* bound on the loads of the same registry under way

NoRegistry == "none"
Given == Registries \cup {NoRegistry}

VARIABLES
  given,     \* registryAddress
  loads,     \* for every registry, the loads under way
  offers,    \* strategies
  offering,  \* loading
  picked     \* selectedStrategy of the page, or NoStrategy

vars == <<given, loads, offers, offering, picked>>

NoStrategy == [strategyId |-> 0, of |-> NoRegistry]

Init ==
  /\ given \in Given
  /\ loads = [r \in Given |-> IF r = given THEN 1 ELSE 0]
  /\ offers = <<>> /\ offering = TRUE
  /\ picked = NoStrategy

AtMost(seq, n) == SubSeq(seq, 1, IF Len(seq) < n THEN Len(seq) ELSE n)

(* The strategies that are built in, one of every level of risk. (Their     *)
(* histories are left out; the client lists the newest day first, while     *)
(* getLatestPerformance of the selector takes the last one.)                *)
defaultStrategies ==
  AtMost([i \in 1..3 |-> [strategyId |-> i, of |-> NoRegistry]], Limit)

(* Mutant: the list of a registry is shown as it is.                        *)
FetchedAsIs(r, answer) ==
  IF r = NoRegistry THEN defaultStrategies
  ELSE AtMost([i \in DOMAIN answer |-> [strategyId |-> answer[i], of |-> r]], Limit)

(* Without a registry, with one that does not answer, that answers no list  *)
(* or an empty one, the client gives the strategies that are built in; it   *)
(* never throws.                                                            *)
fetchActiveStrategies(r, answer) ==
  IF r = NoRegistry \/ answer = <<>> THEN defaultStrategies
  ELSE AtMost([i \in DOMAIN answer |-> [strategyId |-> answer[i], of |-> r]], Limit)

(* What a registry answers; <<>> stands for a refusal, too.                 *)
Answers == {s \in SeqOf(Records, MaxAnswer) : IsInjective(s)}

-----------------------------------------------------------------------------
(* loadStrategies: an effect of the network and the registry.               *)

GivesRegistry ==
  /\ \E r \in Given \ {given} :
       /\ loads[r] < MaxLoads
       /\ given' = r
       /\ loads' = [loads EXCEPT ![r] = @ + 1]
  /\ offering' = TRUE
  /\ UNCHANGED <<offers, picked>>

(* A load ends, whichever registry the page gives now.                      *)
Loaded(r) ==
  /\ loads[r] > 0
  /\ loads' = [loads EXCEPT ![r] = @ - 1]
  /\ \E answer \in IF r = NoRegistry THEN {<<>>} ELSE Answers :
       offers' = fetchActiveStrategies(r, answer)
  /\ offering' = FALSE
  /\ UNCHANGED <<given, picked>>

(* While it is loading the selector shows no list.                          *)
handleStrategySelect(i) ==
  /\ ~offering
  /\ picked' = offers[i]
  /\ UNCHANGED <<given, loads, offers, offering>>

Next ==
  \/ GivesRegistry
  \/ \E r \in Given : Loaded(r)
  \/ \E i \in DOMAIN offers : handleStrategySelect(i)

Spec == Init /\ [][Next]_vars

-----------------------------------------------------------------------------
(* Properties.                                                             *)

(* A selector that is not loading has strategies to choose from, whatever   *)
(* the registries answer and in whichever order.                            *)
AlwaysAChoice == ~offering => offers # <<>>

(* The list is of one place, and nothing but the page's registry or one     *)
(* that it gave before: no two lists are mixed, and no identifier is there  *)
(* twice, so that handleStrategySelect finds the strategy that was clicked. *)
OneList ==
  \A i, j \in DOMAIN offers :
    /\ offers[i].of = offers[j].of
    /\ offers[i].strategyId = offers[j].strategyId => i = j

(* The choice a page is given is one.                                       *)
ChoiceIsSound == AlwaysAChoice /\ OneList
=============================================================================
