-------------------------- MODULE ProtocolGovernor --------------------------
(***************************************************************************)
(* The governor, src/governance.rs, module protocol_governor, on top of the *)
(* token and the escrow it asks for voting power and supply.                *)
(*                                                                          *)
(* A proposal is voted on until its end, then anybody may have the states   *)
(* updated; a proposal that passed is queued and may be executed when its   *)
(* timelock is over. Power is read when the vote is cast: between two calls *)
(* locks run out, power is delegated and tokens are minted and burned.      *)
(*                                                                          *)
(* Call data, descriptions and the fee parameters with their ranges are     *)
(* left out; executing a proposal only marks it, as in the code. The flags  *)
(* canceled, queued and executed repeat the state and are left out.         *)
(***************************************************************************)
EXTENDS VotingEscrow, Sequences

CONSTANTS
  ProposalThreshold,   \* PROPOSAL_THRESHOLD
  QuorumBps,           \* QUORUM_PERCENTAGE
  TimelockDelay,       \* TIMELOCK_DELAY
  GracePeriod,         \* the seven days after which a queued proposal expires
  Durations,           \* the voting durations proposers name
  MaxProposals,        \* bound on the proposals
  MaxVotes             \* bound on the votes counted on either side

ASSUME GovernorAssumption ==
  /\ ProposalThreshold \in Nat /\ QuorumBps \in Nat
  /\ TimelockDelay \in Nat /\ GracePeriod \in Nat
  /\ Durations \subseteq Nat /\ MaxProposals \in Nat /\ MaxVotes \in Nat

VARIABLES
  proposals    \* Proposal(1) .. Proposal(ProposalCount)

govVars == <<escrowVars, proposals>>

NoVotes == [u \in Users |-> 0]

GInit == Init /\ proposals = <<>>

Passed == {"Succeeded", "Queued", "Executed", "Expired"}

Propose(u, duration) ==
  /\ Len(proposals) < MaxProposals
  /\ VotingPower(u) >= ProposalThreshold
  /\ proposals' = Append(proposals,
       [state |-> "Pending", start |-> now, end |-> now + duration, eta |-> 0,
        for |-> 0, against |-> 0, forVoters |-> NoVotes, againstVoters |-> NoVotes])
  /\ UNCHANGED escrowVars

(* Mutant: a proposal takes votes in any state.                             *)
VotableAnyState(p) == now >= p.start

Votable(p) ==
  /\ p.state \in {"Pending", "Active"}
  /\ now >= p.start /\ now < p.end

(* The votes are added up, the voter's own entry is replaced.               *)
Counted(p, u, support, a) ==
  IF support
  THEN [p EXCEPT !.state = "Active", !.for = @ + a, !.forVoters[u] = a]
  ELSE [p EXCEPT !.state = "Active", !.against = @ + a, !.againstVoters[u] = a]

Vote(u, i, support, a) ==
  /\ Votable(proposals[i])
  /\ VotingPower(u) >= a
  /\ proposals[i].for + proposals[i].against + a <= MaxVotes
  /\ proposals' = [proposals EXCEPT ![i] = Counted(@, u, support, a)]
  /\ UNCHANGED escrowVars

(* Mutant: the timelock runs from the start of the vote.                    *)
EtaFromStart(p) == p.start + TimelockDelay

Eta(p) == now + TimelockDelay

Queue(i) ==
  /\ proposals[i].state = "Succeeded"
  /\ proposals' = [proposals EXCEPT ![i] = [@ EXCEPT !.state = "Queued", !.eta = Eta(proposals[i])]]
  /\ UNCHANGED escrowVars

(* The grace period is not looked at: only UpdateStates expires a proposal. *)
Execute(i) ==
  /\ proposals[i].state = "Queued"
  /\ now >= proposals[i].eta
  /\ proposals' = [proposals EXCEPT ![i].state = "Executed"]
  /\ UNCHANGED escrowVars

(* Anybody may cancel.                                                      *)
Cancel(i) ==
  /\ proposals[i].state \in {"Pending", "Active"}
  /\ proposals' = [proposals EXCEPT ![i].state = "Canceled"]
  /\ UNCHANGED escrowVars

(* has_quorum, against the supply at the time of the question.              *)
HasQuorum(p) == p.for + p.against >= (supply * QuorumBps) \div 10000

HasPassed(p) == HasQuorum(p) /\ p.for > p.against

(* Mutant: the end of the vote is not waited for.                           *)
UpdatedEarly(p) ==
  IF p.state = "Pending" THEN [p EXCEPT !.state = "Active"]
  ELSE IF p.state = "Active"
    THEN [p EXCEPT !.state = IF HasPassed(p) THEN "Succeeded" ELSE "Defeated"]
  ELSE p

(* A proposal found pending becomes active even when its end is past; it is *)
(* decided by the next update.                                              *)
Updated(p) ==
  IF p.state = "Pending" /\ now >= p.start
    THEN [p EXCEPT !.state = "Active"]
  ELSE IF p.state = "Active" /\ now >= p.end
    THEN [p EXCEPT !.state = IF HasPassed(p) THEN "Succeeded" ELSE "Defeated"]
  ELSE IF p.state = "Queued" /\ now >= p.eta + GracePeriod
    THEN [p EXCEPT !.state = "Expired"]
  ELSE p

UpdateStates ==
  /\ proposals' = [i \in DOMAIN proposals |-> Updated(proposals[i])]
  /\ UNCHANGED escrowVars

-----------------------------------------------------------------------------
GovernorStep ==
  \/ \E u \in Users, d \in Durations : Propose(u, d)
  \/ \E i \in DOMAIN proposals :
       \/ \E u \in Users, support \in BOOLEAN, a \in Amounts : Vote(u, i, support, a)
       \/ Queue(i) \/ Execute(i) \/ Cancel(i)
  \/ UpdateStates

GNext == (Next /\ UNCHANGED proposals) \/ GovernorStep

GSpec == GInit /\ [][GNext]_govVars

-----------------------------------------------------------------------------
(* Properties.                                                             *)

Proposals == {proposals[i] : i \in DOMAIN proposals}

(* A proposal p may become q.                                               *)
Final(p, q) ==
  /\ p.state \notin {"Pending", "Active"} =>
       /\ q.for = p.for /\ q.against = p.against
       /\ q.state \in Passed \cup {p.state}
  /\ p.state \in {"Defeated", "Canceled", "Executed", "Expired"} => q = p

(* A proposal that passed has the majority of all votes cast in its whole   *)
(* time: its vote is over and none was added after the count.               *)
PassedHaveMajority ==
  \A p \in Proposals : p.state \in Passed => p.for > p.against /\ now >= p.end

(* What was decided is final: no call opens the vote again or changes its   *)
(* count, and what was refused, withdrawn, executed or expired stays so.    *)
DecidedIsFinal ==
  [][\A i \in DOMAIN proposals : Final(proposals[i], proposals'[i])]_govVars

(* The timelock is a notice after the vote: between the end of the vote and *)
(* the execution of a proposal lies the whole delay.                        *)
NoticeBeforeExecution ==
  \A p \in Proposals : p.state = "Executed" => now >= p.end + TimelockDelay

(* No vote is lost: what the voters have on record is in the count.         *)
RecordedAreCounted ==
  \A p \in Proposals : /\ SumTo(p.forVoters, NumUsers) <= p.for
                       /\ SumTo(p.againstVoters, NumUsers) <= p.against
=============================================================================
