-------------------------- MODULE StrategyRegistry --------------------------
(***************************************************************************)
(* The strategy registry, src/strategy_registry.rs: strategies that their   *)
(* creators register and change, that the admin approves and deactivates,   *)
(* and whose performance is recorded; two logs of limited length, and reads *)
(* page by page.                                                            *)
(*                                                                          *)
(* Left out: what a strategy consists of beside its creator (the bounds on  *)
(* it are guards on the arguments alone), times, and the averages of        *)
(* calculate_strategy_metrics. Strategies are numbered from 1 without gaps. *)
(***************************************************************************)
EXTENDS Integers, SequencesExt

CONSTANTS
  Creators, Values,    \* who registers, and what is recorded
  HistoryKept,         \* the 100 records of performance_history
  ApprovalsKept,       \* the 1000 entries of approvals
  MaxCalls             \* bound on calls

Decisions == {"approved", "deactivated"}
Changes == {"registered", "updated"} \cup Decisions

(* What is recorded of a strategy is none of the changes made to it.        *)
RegistryAssumption ==
  HistoryKept \in Nat /\ ApprovalsKept \in Nat /\ Values \cap Changes = {}

VARIABLES
  strategies,      \* by strategy_id
  approvals,
  registry_paused,
  log,             \* history: what was done to which strategy
  calls

registryVars == <<strategies, approvals, registry_paused, log, calls>>

Init ==
  /\ strategies = <<>> /\ approvals = <<>> /\ registry_paused = FALSE
  /\ log = <<>> /\ calls = 0

Called == calls < MaxCalls /\ calls' = calls + 1

Did(id, what) == log' = Append(log, [id |-> id, did |-> what])

(* Mutant: a full log keeps its oldest entries.                             *)
OldestOf(seq, kept) == SubSeq(seq, 1, kept)

LastOf(seq, kept) == SubSeq(seq, Len(seq) - kept + 1, Len(seq))

(* A log that grows past its limit loses its oldest entries.                *)
Kept(seq, kept) == IF Len(seq) > kept THEN LastOf(seq, kept) ELSE seq

-----------------------------------------------------------------------------
RegisterStrategy(creator) ==
  /\ Called
  /\ ~registry_paused
  /\ strategies' = Append(strategies, [creator |-> creator, is_active |-> FALSE,
                                       performance_history |-> <<>>])
  /\ Did(Len(strategies) + 1, "registered")
  /\ UNCHANGED <<approvals, registry_paused>>

(* The admin names an id, whatever is registered under it by now; a pause   *)
(* does not matter.                                                         *)
ApproveStrategy(id) ==
  /\ Called
  /\ strategies' = [strategies EXCEPT ![id].is_active = TRUE]
  /\ approvals' = Kept(Append(approvals, [id |-> id, did |-> "approved"]), ApprovalsKept)
  /\ Did(id, "approved")
  /\ UNCHANGED registry_paused

DeactivateStrategy(id) ==
  /\ Called
  /\ strategies' = [strategies EXCEPT ![id].is_active = FALSE]
  /\ approvals' = Kept(Append(approvals, [id |-> id, did |-> "deactivated"]), ApprovalsKept)
  /\ Did(id, "deactivated")
  /\ UNCHANGED registry_paused

(* Mutant: a change leaves the approval that was given before it.           *)
UpdatedInPlace(strategy) == strategy

Updated(strategy) == [strategy EXCEPT !.is_active = FALSE]

UpdateStrategy(creator, id) ==
  /\ Called
  /\ ~registry_paused
  /\ strategies[id].creator = creator
  /\ strategies' = [strategies EXCEPT ![id] = Updated(@)]
  /\ Did(id, "updated")
  /\ UNCHANGED <<approvals, registry_paused>>

RecordPerformance(id, value) ==
  /\ Called
  /\ ~registry_paused
  /\ strategies' =
       [strategies EXCEPT ![id].performance_history = Kept(Append(@, value), HistoryKept)]
  /\ Did(id, value)
  /\ UNCHANGED <<approvals, registry_paused>>

SetPaused(b) ==
  /\ Called
  /\ registry_paused = ~b
  /\ registry_paused' = b
  /\ UNCHANGED <<strategies, approvals, log>>

-----------------------------------------------------------------------------
(* Reads.                                                                   *)

(* The elements of seq that are in S, in their order: SelectSeq, as a       *)
(* function that can be reasoned about.                                     *)
Only(seq, S) ==
  LET chosen[i \in 0..Len(seq)] ==
        IF i = 0 THEN <<>>
        ELSE IF seq[i] \in S THEN Append(chosen[i - 1], seq[i]) ELSE chosen[i - 1]
  IN chosen[Len(seq)]

(* paginate_vec and get_performance_history_page.                           *)
Page(seq, limit, offset) ==
  IF limit = 0 \/ offset >= Len(seq) THEN <<>>
  ELSE SubSeq(seq, offset + 1, IF offset + limit < Len(seq) THEN offset + limit ELSE Len(seq))

get_active_strategies ==
  Only([id \in DOMAIN strategies |-> id], {id \in DOMAIN strategies : strategies[id].is_active})

get_performance_history(id, limit) == Kept(strategies[id].performance_history, limit)

get_approval_history(id) == Only(approvals, [id: {id}, did: Decisions])

-----------------------------------------------------------------------------
Next ==
  \/ \E creator \in Creators : RegisterStrategy(creator)
  \/ \E id \in DOMAIN strategies :
       \/ ApproveStrategy(id) \/ DeactivateStrategy(id)
       \/ \E creator \in Creators : UpdateStrategy(creator, id)
       \/ \E value \in Values : RecordPerformance(id, value)
  \/ \E b \in BOOLEAN : SetPaused(b)

Spec == Init /\ [][Next]_registryVars

-----------------------------------------------------------------------------
(* Properties.                                                             *)

(* Where the log has the changes of a strategy.                            *)
ChangesOf(id) == {i \in DOMAIN log : log[i].id = id /\ log[i].did \in Changes}

(* An active strategy is one whose last change was its approval: nothing    *)
(* its creator did since is in use without the admin ("Requires re-approval *)
(* after update", 317), whatever was recorded, paused or deactivated        *)
(* between.                                                                 *)
ActiveIsApproved ==
  \A id \in DOMAIN strategies :
    strategies[id].is_active <=> log[Max(ChangesOf(id))].did = "approved"

(* The newest of seq, in their order, and as many of them as there may be.  *)
AreNewest(kept, seq, limit) ==
  IsSuffix(kept, seq) /\ Len(kept) = IF Len(seq) < limit THEN Len(seq) ELSE limit

(* What the logs keep are the newest entries in their order, each strategy  *)
(* keeps its own whatever is recorded of the others.                        *)
LogsKeepTheNewest ==
  /\ AreNewest(approvals, Only(log, [id: Nat, did: Decisions]), ApprovalsKept)
  /\ \A id \in DOMAIN strategies :
       LET recorded == Only(log, [id: {id}, did: Values])
           values   == [i \in DOMAIN recorded |-> recorded[i].did]
       IN /\ AreNewest(strategies[id].performance_history, values, HistoryKept)
          /\ \A limit \in 1..HistoryKept : AreNewest(get_performance_history(id, limit), values, limit)

PagesOf(seq, limit) ==
  FlattenSeq([n \in 1..(Len(seq) + 1) |-> Page(seq, limit, (n - 1) * limit)])

(* Who reads page after page reads everything once and in order.            *)
PagesAddUp ==
  \A limit \in 1..(Len(strategies) + 1) :
    /\ PagesOf(get_active_strategies, limit) = get_active_strategies
    /\ \A id \in DOMAIN strategies :
         PagesOf(strategies[id].performance_history, limit) = strategies[id].performance_history
=============================================================================
