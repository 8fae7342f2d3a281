----------------------------- MODULE VotingEscrow -----------------------------
(***************************************************************************)
(* The governance token and the voting escrow, src/governance.rs, modules   *)
(* governance_token and voting_escrow.                                      *)
(*                                                                          *)
(* Users lock tokens for a time; a lock gives voting power that falls to    *)
(* zero at its end, and power can be delegated. A call is one step; a call  *)
(* that panics changes nothing and is no step.                              *)
(*                                                                          *)
(* Amounts are positive. Allowances and token delegates are written and     *)
(* read by nothing else, TotalSupplyAt and DelegatedFrom are read by        *)
(* nothing, and the boosted balance is a number no guard reads: they are    *)
(* left out. Tokens are sent to users only.                                 *)
(***************************************************************************)
EXTENDS Integers, Sums

CONSTANTS
  NumUsers,
  Genesis,         \* the balances initialize hands out
  MinDuration,     \* MIN_VOTE_DURATION
  MaxDuration,     \* MAX_VOTE_DURATION
  Amounts,         \* the amounts callers name
  MaxSupply,       \* bound on mint
  MaxDelegated,    \* bound on what is delegated to a user
  MaxTime          \* bound on the clock

Users == 1..NumUsers

ASSUME EscrowAssumption ==
  /\ NumUsers \in Nat
  /\ Genesis \in [Users -> Nat]
  /\ MinDuration \in Nat /\ MaxDuration \in Nat \ {0} /\ MinDuration <= MaxDuration
  /\ Amounts \subseteq Nat /\ MaxSupply \in Nat /\ MaxDelegated \in Nat /\ MaxTime \in Nat

VARIABLES
  balance,       \* GovTokenDataKey::Balance of the users
  escrow,        \* GovTokenDataKey::Balance of the escrow contract
  supply,        \* GovTokenDataKey::TotalSupply
  locked,        \* LockedAmount
  lockStart,     \* LockStart
  lockEnd,       \* LockEnd
  lockedSupply,  \* VotingEscrowDataKey::TotalSupply
  delegatedTo,   \* DelegatedTo
  now

tokenVars == <<balance, escrow, supply>>
lockVars == <<locked, lockStart, lockEnd, lockedSupply>>
escrowVars == <<tokenVars, lockVars, delegatedTo, now>>

Init ==
  /\ balance = Genesis
  /\ escrow = 0
  /\ supply = SumTo(Genesis, NumUsers)
  /\ locked = [u \in Users |-> 0]
  /\ lockStart = [u \in Users |-> 0]
  /\ lockEnd = [u \in Users |-> 0]
  /\ lockedSupply = 0
  /\ delegatedTo = [u \in Users |-> 0]
  /\ now = 1

-----------------------------------------------------------------------------
(* The token.                                                              *)

Mint(to, a) ==
  /\ supply + a <= MaxSupply
  /\ balance' = [balance EXCEPT ![to] = @ + a]
  /\ supply' = supply + a
  /\ UNCHANGED <<escrow, lockVars, delegatedTo, now>>

Burn(from, a) ==
  /\ balance[from] >= a
  /\ balance' = [balance EXCEPT ![from] = @ - a]
  /\ supply' = supply - a
  /\ UNCHANGED <<escrow, lockVars, delegatedTo, now>>

(* Mutant: both balances are read before one is written.                    *)
TransferReadingFirst(from, to, a) ==
  /\ balance[from] >= a
  /\ balance' = [balance EXCEPT ![from] = @ - a, ![to] = balance[to] + a]
  /\ UNCHANGED <<escrow, supply, lockVars, delegatedTo, now>>

Transfer(from, to, a) ==
  /\ balance[from] >= a
  /\ LET taken == [balance EXCEPT ![from] = @ - a]
     IN  balance' = [taken EXCEPT ![to] = @ + a]
  /\ UNCHANGED <<escrow, supply, lockVars, delegatedTo, now>>

-----------------------------------------------------------------------------
(* Locks.                                                                  *)

(* Tokens move between a user and the escrow.                               *)
PayIn(u, a) ==
  /\ balance[u] >= a
  /\ balance' = [balance EXCEPT ![u] = @ - a]
  /\ escrow' = escrow + a
  /\ UNCHANGED supply

PayOut(u, a) ==
  /\ escrow >= a
  /\ balance' = [balance EXCEPT ![u] = @ + a]
  /\ escrow' = escrow - a
  /\ UNCHANGED supply

(* A lock that has ended is replaced, whether or not it was withdrawn.      *)
CreateLock(u, a, duration) ==
  /\ duration \in MinDuration..MaxDuration
  /\ lockEnd[u] <= now
  /\ PayIn(u, a)
  /\ locked' = [locked EXCEPT ![u] = a]
  /\ lockStart' = [lockStart EXCEPT ![u] = now]
  /\ lockEnd' = [lockEnd EXCEPT ![u] = now + duration]
  /\ lockedSupply' = lockedSupply + a
  /\ UNCHANGED <<delegatedTo, now>>

IncreaseLock(u, a) ==
  /\ lockEnd[u] > now
  /\ PayIn(u, a)
  /\ locked' = [locked EXCEPT ![u] = @ + a]
  /\ lockedSupply' = lockedSupply + a
  /\ UNCHANGED <<lockStart, lockEnd, delegatedTo, now>>

(* Mutant: the new duration is compared with nothing.                       *)
ExtendLockUnchecked(u, duration) ==
  /\ duration \in MinDuration..MaxDuration
  /\ lockEnd' = [lockEnd EXCEPT ![u] = now + duration]
  /\ UNCHANGED <<tokenVars, locked, lockStart, lockedSupply, delegatedTo, now>>

(* The new duration counts from now and is compared with the old one; both  *)
(* the start and a lock of nothing stay as they are.                        *)
ExtendLock(u, duration) ==
  /\ duration \in MinDuration..MaxDuration
  /\ duration >= lockEnd[u] - lockStart[u]
  /\ lockEnd' = [lockEnd EXCEPT ![u] = now + duration]
  /\ UNCHANGED <<tokenVars, locked, lockStart, lockedSupply, delegatedTo, now>>

(* Mutant: the lock stays when it was paid out.                             *)
WithdrawKeepingLock(u) ==
  /\ lockEnd[u] <= now
  /\ PayOut(u, locked[u])
  /\ lockedSupply' = lockedSupply - locked[u]
  /\ UNCHANGED <<locked, lockStart, lockEnd, delegatedTo, now>>

Withdraw(u) ==
  /\ lockEnd[u] <= now
  /\ PayOut(u, locked[u])
  /\ locked' = [locked EXCEPT ![u] = 0]
  /\ lockStart' = [lockStart EXCEPT ![u] = 0]
  /\ lockEnd' = [lockEnd EXCEPT ![u] = 0]
  /\ lockedSupply' = lockedSupply - locked[u]
  /\ UNCHANGED <<delegatedTo, now>>

-----------------------------------------------------------------------------
(* Voting power.                                                           *)

HasPower(u) == lockEnd[u] > now /\ locked[u] # 0

(* get_voting_power: linear decay, and what was delegated to the user.      *)
VotingPower(u) ==
  IF HasPower(u)
  THEN (locked[u] * (lockEnd[u] - now)) \div MaxDuration + delegatedTo[u]
  ELSE 0

(* delegate: the power of from stays, and nothing takes it back from to.    *)
Delegate(from, to, a) ==
  /\ VotingPower(from) >= a
  /\ delegatedTo[to] + a <= MaxDelegated
  /\ delegatedTo' = [delegatedTo EXCEPT ![to] = @ + a]
  /\ UNCHANGED <<tokenVars, lockVars, now>>

Tick ==
  /\ now < MaxTime
  /\ now' = now + 1
  /\ UNCHANGED <<tokenVars, lockVars, delegatedTo>>

-----------------------------------------------------------------------------
UserStep(u) ==
  \/ \E a \in Amounts : Mint(u, a) \/ Burn(u, a) \/ IncreaseLock(u, a)
  \/ \E a \in Amounts, v \in Users : Transfer(u, v, a) \/ Delegate(u, v, a)
  \/ \E d \in MinDuration..MaxDuration : ExtendLock(u, d)
  \/ \E a \in Amounts, d \in MinDuration..MaxDuration : CreateLock(u, a, d)
  \/ Withdraw(u)

Next == (\E u \in Users : UserStep(u)) \/ Tick

Spec == Init /\ [][Next]_escrowVars

-----------------------------------------------------------------------------
(* Properties.                                                             *)

TypeOK ==
  /\ balance \in [Users -> Nat] /\ escrow \in Nat /\ supply \in Nat
  /\ locked \in [Users -> Nat] /\ lockStart \in [Users -> Nat] /\ lockEnd \in [Users -> Nat]
  /\ lockedSupply \in Nat /\ delegatedTo \in [Users -> Nat] /\ now \in Nat

(* The token's total supply is what users and escrow hold.                  *)
TokensConserved == supply = SumTo(balance, NumUsers) + escrow

(* The escrow's total is what it holds, and covers all locks together:      *)
(* whatever calls came before, every lock that has ended can be withdrawn.  *)
LocksCovered ==
  /\ lockedSupply = escrow
  /\ SumTo(locked, NumUsers) <= escrow

(* A lock that runs is never cut: no call brings its end nearer or takes    *)
(* from its amount ("cannot shorten lock duration", governance.rs 1018).    *)
RunningLockKept ==
  [][\A u \in Users : lockEnd[u] > now
       => lockEnd'[u] >= lockEnd[u] /\ locked'[u] >= locked[u]]_escrowVars
=============================================================================
