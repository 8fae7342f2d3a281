-------------------------- MODULE GovernanceScreen --------------------------
(* The governance screen of the web application: GovernancePanel with its     *)
(* hook useGovernance, and the components under it: ProposalList, VotingPanel *)
(* and StakingModal; also FeeShareClaim, the form of the fee share.           *)
(*                                                                            *)
(* The components stay mounted or not while what they await is under way:     *)
(* StakingModal keeps its state when it is closed, VotingPanel loses it.      *)
(* GovernancePanel gives the hook no keypair, so each of its writes fails at  *)
(* once; the hook's other users may give one.                                 *)
EXTENDS Naturals, Sequences, FiniteSets

CONSTANTS Accounts,    \* the addresses the browser wallet may give
          Proposals,   \* the proposals that exist
          States,      \* the states they may be in
          Weeks,       \* the weeks of the fee share
          MaxAmount,   \* bound: balances, powers and amounts
          MaxReads     \* bound: refreshes in flight at once

None == "none"
Roles == {"governance", "votingEscrow", "staking"}
Ids == 1 .. MaxReads
Amounts == 0 .. MaxAmount
Locks == {"none", "running", "expired"}
Tabs == {"create", "increase", "extend", "withdraw"}
Filters == {"all", "active", "pending", "executed", "defeated"}

VARIABLES form,        \* the form the user works with (a bound: one of them)
          keypair,     \* whether the hook was given a keypair
          configured,  \* the roles whose contract is configured
          walletAddress,
          reads,       \* per refresh in flight, {} or the set of its address
          after,       \* per refresh in flight, the form that awaits it
          loading,
          errors,      \* the roles whose read failed last, or "wallet"
          proposals,   \* as shown: per proposal its state and my vote
          account,     \* as shown: balance, voting power and lock
          selected,    \* selectedProposal
          vote,        \* the voting form: side, amount, isSubmitting
          modal,       \* the staking form
          writes,      \* the writes under way, per form
          actionError,
          weeks        \* the fee form: selectedWeeks and isClaiming

env == <<form, keypair, configured>>
reading == <<reads, after, loading, errors, proposals, account>>
vars == <<env, walletAddress, reading,
          selected, vote, modal, writes, actionError, weeks>>

Shown == [state: States, voted: BOOLEAN]
Forms == {"vote", "lock", "fees"}
NoForm == [side |-> None, amount |-> 0, submitting |-> FALSE]
Closed == [open |-> FALSE, tab |-> "create", amount |-> 0, submitting |-> FALSE]

TypeOK ==
  /\ keypair \in BOOLEAN /\ configured \subseteq Roles
  /\ walletAddress \in Accounts \cup {None}
  /\ reads \in [Ids -> SUBSET (Accounts \cup {None})]
  /\ after \in [Ids -> Forms \cup {None}]
  /\ loading \in BOOLEAN /\ errors \subseteq Roles \cup {"wallet"}
  /\ DOMAIN proposals \subseteq Proposals
  /\ \A p \in DOMAIN proposals : proposals[p] \in Shown
  /\ account \in [balance: Amounts, power: Amounts,
                  lock: Locks]
  /\ form \in Forms /\ selected \in Proposals \cup {0}
  /\ vote \in [side: {None, "for", "against"}, amount: Amounts,
               submitting: BOOLEAN]
  /\ modal \in [open: BOOLEAN, tab: Tabs, amount: Amounts, submitting: BOOLEAN]
  /\ writes \in [Forms -> 0 .. 2]
  /\ actionError \in BOOLEAN
  /\ weeks \in [selected: SUBSET Weeks, claiming: BOOLEAN]

Init ==
  /\ keypair \in BOOLEAN /\ configured \in {Roles, {"governance"}}
  /\ walletAddress = None
  /\ reads = [i \in Ids |-> IF i = 1 THEN {None} ELSE {}]
  /\ after = [i \in Ids |-> None]
  /\ loading = TRUE /\ errors = {}
  /\ proposals = <<>>
  /\ account = [balance |-> 0, power |-> 0, lock |-> "none"]
  /\ form \in Forms /\ selected = 0 /\ vote = NoForm /\ modal = Closed
  /\ writes = [f \in Forms |-> 0] /\ actionError = FALSE
  /\ weeks = [selected |-> {}, claiming |-> FALSE]

-----------------------------------------------------------------------------
(* useGovernance.                                                             *)

Free == {i \in Ids : reads[i] = {}}

(* refresh is made anew for a new address, and its effect runs it.            *)
Begin(i, address) ==
  /\ reads' = [reads EXCEPT ![i] = {address}]
  /\ loading' = TRUE

SetWallet(a) ==
  /\ walletAddress' = a
  /\ IF a = walletAddress THEN UNCHANGED <<reads, loading>>
     ELSE \E i \in Free : Begin(i, a)

Restored ==
  /\ walletAddress = None
  /\ \E a \in Accounts : SetWallet(a)
  /\ UNCHANGED <<env, after, errors, proposals, account, selected, vote, modal,
                 writes, actionError, weeks>>

connect ==
  /\ walletAddress = None
  /\ \/ /\ \E a \in Accounts : SetWallet(a)
        /\ UNCHANGED errors
     \/ /\ errors' \in {{"wallet"}, errors \cup {"wallet"}}
        /\ UNCHANGED <<walletAddress, reads, loading>>
  /\ UNCHANGED <<env, after, proposals, account, selected, vote, modal, writes,
                 actionError, weeks>>

disconnect ==
  /\ walletAddress # None
  /\ SetWallet(None)
  /\ UNCHANGED <<env, after, errors, proposals, account, selected, vote, modal,
                 writes, actionError, weeks>>

(* The roles a refresh reads: without an address only the governor's, and the *)
(* account's values stay as they were.                                        *)
Read(address) ==
  configured \cap IF address = None THEN {"governance"} ELSE Roles

(* Each read that was answered replaces what was shown; a role that is not    *)
(* configured is a problem like a read that failed.                           *)
Refreshed(i) ==
  \E address \in reads[i], failed \in {{}, {"governance"}, {"votingEscrow"}} :
     LET ok == Read(address) \ failed
     IN /\ reads' = [reads EXCEPT ![i] = {}]
        /\ loading' = FALSE
        /\ errors' = (IF address = None THEN {"governance"} ELSE Roles) \ ok
        /\ IF "governance" \in ok
           THEN proposals' \in {f \in [Proposals -> Shown] :
                  \A p \in DOMAIN proposals : proposals[p].voted => f[p].voted}
           ELSE UNCHANGED proposals
        /\ account' \in
             [balance: IF address # None /\ "governance" \in ok THEN Amounts
                       ELSE {account.balance},
              power:   IF "votingEscrow" \in ok THEN Amounts ELSE {account.power},
              lock:    IF "votingEscrow" \in ok THEN Locks ELSE {account.lock}]

(* What a form does when its write is over.  VotingPanel's flag is cleared    *)
(* only if the form that sent the vote is still the one on the screen.        *)
(* runAction does not throw: the amount is cleared after a failure too.       *)
Ended(f) ==
  /\ writes' = IF f = None THEN writes ELSE [writes EXCEPT ![f] = @ - 1]
  /\ IF f # "vote" THEN UNCHANGED vote
     ELSE \E mine \in IF ~vote.submitting THEN {FALSE}
                      ELSE IF writes[f] = 1 THEN {TRUE} ELSE BOOLEAN :
            vote' = [vote EXCEPT !.submitting = @ /\ ~mine]
  /\ IF f # "lock" THEN UNCHANGED modal
     ELSE modal' = [modal EXCEPT !.amount = 0, !.submitting = FALSE]

RefreshEnds ==
  /\ \E i \in Ids : /\ Refreshed(i)
                    /\ Ended(after[i])
                    /\ after' = [after EXCEPT ![i] = None]
  /\ UNCHANGED <<env, walletAddress, selected, actionError, weeks>>

runAction(f) ==
  /\ writes[f] < 2
  /\ writes' = [writes EXCEPT ![f] = @ + 1]
  /\ actionError' = FALSE

Unanswered(f) == writes[f] > Cardinality({i \in Ids : after[i] = f})

(* submit: without a keypair nothing is built or sent, and the call fails.    *)
(* runAction shows the failure, or awaits a refresh before it returns.        *)
ActionFails(f) ==
  /\ Unanswered(f)
  /\ Ended(f)
  /\ actionError' = TRUE
  /\ UNCHANGED <<env, walletAddress, reading, selected, weeks>>

ActionSucceeds(f) ==
  /\ keypair /\ Unanswered(f)
  /\ \E i \in Free : /\ Begin(i, walletAddress)
                     /\ after' = [after EXCEPT ![i] = f]
  /\ UNCHANGED <<env, walletAddress, errors, proposals, account, selected, vote,
                 modal, writes, actionError, weeks>>

-----------------------------------------------------------------------------
(* ProposalList.                                                              *)

Defeated == {"Defeated", "Expired", "Canceled"}

filteredProposals(f) ==
  {p \in DOMAIN proposals :
     CASE f = "all"      -> TRUE
       [] f = "active"   -> proposals[p].state = "Active"
       [] f = "pending"  -> proposals[p].state = "Pending"
       [] f = "executed" -> proposals[p].state = "Executed"
       [] f = "defeated" -> proposals[p].state \in Defeated}

(* A row is there only when nothing loads and no read failed.  The tab of the *)
(* list is the user's at any time, so it is chosen here.                      *)
Select ==
  /\ form = "vote" /\ ~loading /\ errors = {}
  /\ \E f \in Filters : \E p \in filteredProposals(f) \ {selected} :
        /\ selected' = p
        /\ IF selected # 0 THEN UNCHANGED vote
           ELSE \E side \in IF proposals[p].voted THEN {"for", "against"} ELSE {None} :
                  vote' = [NoForm EXCEPT !.side = side, !.amount = account.power]
  /\ UNCHANGED <<env, walletAddress, reading,
                 modal, writes, actionError, weeks>>

-----------------------------------------------------------------------------
(* VotingPanel.  Its state lives as long as a proposal is selected, and is    *)
(* the same when another one is selected in between.                          *)

CloseVoting ==
  /\ selected # 0
  /\ selected' = 0 /\ vote' = NoForm
  /\ UNCHANGED <<env, walletAddress, reading,
                 modal, writes, actionError, weeks>>

hasVoted == selected \in DOMAIN proposals /\ proposals[selected].voted

canVote ==
  /\ selected \in DOMAIN proposals /\ proposals[selected].state = "Active"
  /\ walletAddress # None /\ account.power > 0 /\ ~hasVoted

(* The amount typed is not held below the voting power shown; the slider's is.*)
EditVote ==
  /\ canVote
  /\ \/ /\ ~loading /\ ~vote.submitting
        /\ \E side \in {"for", "against"} : vote' = [vote EXCEPT !.side = side]
     \/ /\ vote.side # None
        /\ \E amount \in Amounts : vote' = [vote EXCEPT !.amount = amount]
  /\ UNCHANGED <<env, walletAddress, reading, selected, modal, writes,
                 actionError, weeks>>

SubmitVote ==
  /\ canVote
  /\ vote.side # None /\ vote.amount > 0 /\ ~vote.submitting
  /\ vote' = [vote EXCEPT !.submitting = TRUE]
  /\ runAction("vote")
  /\ UNCHANGED <<env, walletAddress, reading, selected, modal, weeks>>

-----------------------------------------------------------------------------
(* StakingModal.                                                              *)

(* Mutant: opening resets the flag together with the rest of the form.        *)
OpenFresh ==
  /\ form = "lock" /\ ~modal.open
  /\ modal' = [Closed EXCEPT !.open = TRUE]
  /\ UNCHANGED <<env, walletAddress, reading, selected, vote, writes,
                 actionError, weeks>>

(* The effect of isOpen resets the tab and the amount, not isSubmitting.      *)
OpenModal ==
  /\ form = "lock" /\ ~modal.open
  /\ modal' = [Closed EXCEPT !.open = TRUE, !.submitting = modal.submitting]
  /\ UNCHANGED <<env, walletAddress, reading, selected, vote, writes,
                 actionError, weeks>>

CloseModal ==
  /\ modal.open
  /\ modal' = [modal EXCEPT !.open = FALSE]
  /\ UNCHANGED <<env, walletAddress, reading, selected, vote, writes,
                 actionError, weeks>>

EditModal ==
  /\ modal.open
  /\ \/ \E tab \in IF account.lock = "none" THEN {"create"} ELSE Tabs :
           modal' = [modal EXCEPT !.tab = tab]
     \/ /\ modal.tab \in {"create", "increase"}
        /\ \E amount \in Amounts : modal' = [modal EXCEPT !.amount = amount]
  /\ UNCHANGED <<env, walletAddress, reading, selected, vote, writes,
                 actionError, weeks>>

(* The longest duration is preselected, so that extending is always valid.    *)
isFormValid ==
  CASE modal.tab \in {"create", "increase"} ->
         modal.amount > 0 /\ modal.amount <= account.balance
    [] modal.tab = "extend"   -> TRUE
    [] modal.tab = "withdraw" -> account.lock = "expired"

SubmitLock ==
  /\ modal.open /\ isFormValid /\ ~modal.submitting /\ ~loading
  /\ modal' = [modal EXCEPT !.submitting = TRUE]
  /\ runAction("lock")
  /\ UNCHANGED <<env, walletAddress, reading, selected, vote, weeks>>

-----------------------------------------------------------------------------
(* FeeShareClaim.  The button for the selected weeks claims all of them.      *)

toggleWeek ==
  /\ form = "fees"
  /\ \E s \in SUBSET Weeks : weeks' = [weeks EXCEPT !.selected = s]
  /\ weeks' # weeks
  /\ UNCHANGED <<env, walletAddress, reading, selected, vote, modal, writes,
                 actionError>>

handleClaim ==
  /\ form = "fees" /\ ~weeks.claiming
  /\ writes["fees"] < 2
  /\ writes' = [writes EXCEPT !["fees"] = @ + 1]
  /\ weeks' = [weeks EXCEPT !.claiming = TRUE]
  /\ UNCHANGED <<env, walletAddress, reading, selected, vote, modal,
                 actionError>>

ClaimEnds ==
  /\ writes["fees"] > 0
  /\ writes' = [writes EXCEPT !["fees"] = @ - 1]
  /\ weeks' \in {[weeks EXCEPT !.claiming = FALSE],
                 [selected |-> {}, claiming |-> FALSE]}
  /\ UNCHANGED <<env, walletAddress, reading, selected, vote, modal,
                 actionError>>

Next ==
  \/ Restored \/ connect \/ disconnect \/ RefreshEnds
  \/ Select \/ CloseVoting \/ EditVote \/ SubmitVote
  \/ OpenModal \/ CloseModal \/ EditModal \/ SubmitLock
  \/ \E f \in {"vote", "lock"} : ActionFails(f) \/ ActionSucceeds(f)
  \/ toggleWeek \/ handleClaim \/ ClaimEnds

Spec == Init /\ [][Next]_vars

-----------------------------------------------------------------------------
(* Neither closing and reopening the staking form nor any refresh in between  *)
(* lets a second lock be sent while the first is under way, which would lock  *)
(* the amount twice; and the weeks of the fee share are claimed one call at a *)
(* time.                                                                      *)
OneWritePerForm ==
  /\ writes["lock"] > 0 => modal.submitting /\ writes["lock"] = 1
  /\ writes["fees"] > 0 => weeks.claiming /\ writes["fees"] = 1

=============================================================================
