-------------------------- MODULE Governance_proofs --------------------------
(***************************************************************************)
(* What holds of the escrow and of the governor for any users, amounts,     *)
(* durations and delays.                                                    *)
(*                                                                          *)
(* For the escrow the invariant adds to the checked ones that no lock       *)
(* started in the future: extend_lock compares durations, and only with     *)
(* that does a longer duration from now mean a later end. For the governor  *)
(* it adds what the timelock of a queued proposal is.                       *)
(***************************************************************************)
EXTENDS ProtocolGovernor, Sums_proofs, TLAPS

LocksStarted == \A u \in Users : lockStart[u] <= now

EscrowInv == TypeOK /\ TokensConserved /\ LocksCovered /\ LocksStarted

-----------------------------------------------------------------------------
(* Entries and totals.                                                     *)

(* Adding to one entry adds to the total; taking from one that has enough   *)
(* leaves an amount.                                                        *)
LEMMA EntryChanged ==
  ASSUME NEW f \in [Users -> Nat], NEW u \in Users, NEW d \in Int, f[u] + d >= 0
  PROVE  /\ [f EXCEPT ![u] = f[u] + d] \in [Users -> Nat]
         /\ SumTo([f EXCEPT ![u] = f[u] + d], NumUsers) = SumTo(f, NumUsers) + d
<1>1. NumUsers \in Nat /\ Users = 1..NumUsers /\ f \in [1..NumUsers -> Int]
  BY EscrowAssumption DEF Users
<1>2. SumTo([f EXCEPT ![u] = f[u] + d], NumUsers) = SumTo(f, NumUsers) + d
  BY ZenonT(60), <1>1, SumToUpdate
<1>3. f[u] + d \in Nat
  OBVIOUS
<1> QED BY <1>2, <1>3

(* Taking from an entry takes from the total.                               *)
LEMMA EntryReduced ==
  ASSUME NEW f \in [Users -> Nat], NEW u \in Users, NEW d \in Int, f[u] - d >= 0
  PROVE  /\ [f EXCEPT ![u] = f[u] - d] \in [Users -> Nat]
         /\ SumTo([f EXCEPT ![u] = f[u] - d], NumUsers) = SumTo(f, NumUsers) - d
<1>1. PICK e \in Int : e = 0 - d
  OBVIOUS
<1>2. f[u] \in Nat /\ f[u] + e = f[u] - d
  BY <1>1
<1>3. /\ [f EXCEPT ![u] = f[u] + e] \in [Users -> Nat]
      /\ SumTo([f EXCEPT ![u] = f[u] + e], NumUsers) = SumTo(f, NumUsers) + e
  <2>1. f[u] + e >= 0
    BY <1>2
  <2> QED BY <2>1, EntryChanged
<1>4. SumTo(f, NumUsers) \in Int
  BY EscrowAssumption, SumToMember DEF Users
<1>5. [f EXCEPT ![u] = f[u] + e] = [f EXCEPT ![u] = f[u] - d]
  BY <1>2
<1>6. SumTo(f, NumUsers) + e = SumTo(f, NumUsers) - d
  BY <1>1, <1>4
<1> QED BY <1>3, <1>5, <1>6

(* An entry may be replaced by an amount.                                   *)
LEMMA EntryReplaced ==
  ASSUME NEW f \in [Users -> Nat], NEW u \in Users, NEW m \in Nat
  PROVE  /\ [f EXCEPT ![u] = m] \in [Users -> Nat]
         /\ SumTo([f EXCEPT ![u] = m], NumUsers) = SumTo(f, NumUsers) - f[u] + m
<1>1. f[u] \in Nat
  OBVIOUS
<1>2. PICK e \in Int : e = m - f[u]
  BY <1>1
<1>3. f[u] + e = m /\ f[u] + e >= 0
  BY <1>1, <1>2
<1>4. SumTo([f EXCEPT ![u] = f[u] + e], NumUsers) = SumTo(f, NumUsers) + e
  BY <1>3, EntryChanged
<1>5. [f EXCEPT ![u] = f[u] + e] = [f EXCEPT ![u] = m]
  BY <1>3
<1>6. SumTo(f, NumUsers) \in Int
  BY EscrowAssumption, SumToMember DEF Users
<1>7. SumTo(f, NumUsers) + e = SumTo(f, NumUsers) - f[u] + m
  BY <1>1, <1>2, <1>6
<1> QED BY <1>4, <1>5, <1>7

(* An entry is part of the total.                                           *)
LEMMA EntryInTotal ==
  ASSUME NEW f \in [Users -> Nat], NEW u \in Users
  PROVE  SumTo(f, NumUsers) \in Nat /\ f[u] <= SumTo(f, NumUsers)
BY EscrowAssumption, SumToMember DEF Users

-----------------------------------------------------------------------------
(* The escrow.                                                             *)

(* The contracts start with nothing locked.                                 *)
LEMMA EscrowInit == Init => EscrowInv
<1> SUFFICES ASSUME Init PROVE EscrowInv
  OBVIOUS
<1> USE EscrowAssumption DEF Init
<1>1. NumUsers \in Nat /\ Users = 1..NumUsers
  BY DEF Users
<1>2. SumTo(Genesis, NumUsers) \in Nat
  BY <1>1, SumToMember
<1>3. SumTo(locked, NumUsers) = 0
  <2>1. locked \in [1..NumUsers -> Int] /\ \A i \in 1..NumUsers : locked[i] = 0
    BY <1>1
  <2> QED BY <1>1, <2>1, SumToZero
<1>4. TypeOK
  BY <1>2 DEF TypeOK
<1>5. TokensConserved /\ LocksCovered /\ LocksStarted
  BY <1>2, <1>3 DEF TokensConserved, LocksCovered, LocksStarted
<1> QED BY <1>4, <1>5 DEF EscrowInv

(* Minting and burning take the same d, below zero or above, from supply and*)
(* a balance.                                                               *)
LEMMA SupplyStep ==
  ASSUME EscrowInv, NEW u \in Users, NEW d \in Int, balance[u] - d >= 0,
         balance' = [balance EXCEPT ![u] = balance[u] - d], supply' = supply - d,
         UNCHANGED <<escrow, lockVars, delegatedTo, now>>
  PROVE  EscrowInv'
<1>1. balance' \in [Users -> Nat] /\ SumTo(balance', NumUsers) = SumTo(balance, NumUsers) - d
  BY EntryReduced DEF EscrowInv, TypeOK
<1>2. SumTo(balance', NumUsers) \in Nat
  BY <1>1, EntryInTotal
<1>3. SumTo(balance, NumUsers) \in Nat
  BY EntryInTotal DEF EscrowInv, TypeOK
<1>4. supply' \in Nat /\ TokensConserved'
  BY <1>1, <1>2, <1>3 DEF EscrowInv, TypeOK, TokensConserved
<1> QED BY <1>1, <1>4 DEF EscrowInv, TypeOK, TokensConserved, LocksCovered, LocksStarted, lockVars

(* Between a user and the escrow move d tokens, from the user when d is     *)
(* positive, and the lock becomes m, by d more or less than it.             *)
LEMMA LockStep ==
  ASSUME EscrowInv, NEW u \in Users, NEW d \in Int, NEW m \in Nat,
         balance[u] - d >= 0, escrow + d >= 0, m <= locked[u] + d,
         balance' = [balance EXCEPT ![u] = balance[u] - d], escrow' = escrow + d,
         supply' = supply, locked' = [locked EXCEPT ![u] = m],
         lockedSupply' = lockedSupply + d, UNCHANGED delegatedTo,
         lockStart' \in [Users -> Nat], lockEnd' \in [Users -> Nat], LocksStarted', now' = now
  PROVE  EscrowInv'
<1> USE DEF EscrowInv, TypeOK, TokensConserved, LocksCovered
<1>1. balance' \in [Users -> Nat] /\ SumTo(balance', NumUsers) = SumTo(balance, NumUsers) - d
  BY EntryReduced
<1>2. locked' \in [Users -> Nat] /\ SumTo(locked', NumUsers) <= SumTo(locked, NumUsers) + d
  <2>1. /\ locked' \in [Users -> Nat]
        /\ SumTo(locked', NumUsers) = SumTo(locked, NumUsers) - locked[u] + m
    <3>1. locked \in [Users -> Nat]
      OBVIOUS
    <3> HIDE DEF EscrowInv, TypeOK, TokensConserved, LocksCovered
    <3> QED BY ZenonT(60), <3>1, EntryReplaced
  <2>2. SumTo(locked, NumUsers) \in Nat /\ locked[u] \in Nat
    BY EntryInTotal
  <2> QED BY <2>1, <2>2
<1>3. SumTo(balance, NumUsers) \in Nat /\ SumTo(locked, NumUsers) \in Nat
  BY EntryInTotal
<1>a. SumTo(locked', NumUsers) \in Nat
  BY <1>2, EntryInTotal
<1>4. TokensConserved' /\ LocksCovered'
  BY <1>1, <1>2, <1>3, <1>a
<1>5. TypeOK'
  BY <1>1, <1>2
<1> QED BY <1>4, <1>5

(* A transfer moves an amount between two entries, that may be the same.    *)
LEMMA TransferStep ==
  ASSUME EscrowInv, NEW u \in Users, NEW v \in Users, NEW a \in Nat, Transfer(u, v, a)
  PROVE  EscrowInv'
<1> DEFINE taken == [balance EXCEPT ![u] = balance[u] - a]
<1> USE DEF EscrowInv, TypeOK
<1>1. balance[u] - a >= 0
  BY DEF Transfer
<1>2. taken \in [Users -> Nat] /\ SumTo(taken, NumUsers) = SumTo(balance, NumUsers) - a
  <2>1. balance \in [Users -> Nat] /\ a \in Int
    OBVIOUS
  <2> HIDE DEF EscrowInv, TypeOK
  <2> QED BY <1>1, <2>1, EntryReduced
<1>3. /\ [taken EXCEPT ![v] = taken[v] + a] \in [Users -> Nat]
      /\ SumTo([taken EXCEPT ![v] = taken[v] + a], NumUsers) = SumTo(taken, NumUsers) + a
  <2> HIDE DEF taken
  <2>1. taken \in [Users -> Nat] /\ a \in Int
    BY <1>2
  <2>2. taken[v] + a >= 0
    BY <2>1
  <2> QED BY <2>1, <2>2, EntryChanged
<1>4. balance' = [taken EXCEPT ![v] = taken[v] + a]
  BY DEF Transfer
<1>5. SumTo(balance, NumUsers) \in Nat
  BY EntryInTotal
<1>6. balance' \in [Users -> Nat] /\ SumTo(balance', NumUsers) = SumTo(balance, NumUsers)
  <2> HIDE DEF taken
  <2> QED BY <1>2, <1>3, <1>4, <1>5
<1> QED BY <1>6 DEF Transfer, TokensConserved, LocksCovered, LocksStarted, lockVars

(* Each call of a user keeps the invariant, and keeps a running lock.       *)
LEMMA UserStepKeeps ==
  ASSUME EscrowInv, NEW u \in Users, UserStep(u)
  PROVE  EscrowInv'
<1> USE EscrowAssumption DEF EscrowInv, TypeOK
<1>1. ASSUME NEW a \in Amounts, Mint(u, a) PROVE EscrowInv'
  <2>1. PICK d \in Int : d = 0 - a
    OBVIOUS
  <2>2. /\ balance[u] \in Nat /\ balance[u] - d = balance[u] + a /\ balance[u] - d >= 0
        /\ supply - d = supply + a
    BY <2>1
  <2> QED BY <1>1, <2>2, SupplyStep DEF Mint
<1>2. ASSUME NEW a \in Amounts, Burn(u, a) PROVE EscrowInv'
  <2>1. /\ a \in Int /\ balance[u] - a >= 0
        /\ balance' = [balance EXCEPT ![u] = balance[u] - a]
    BY <1>2 DEF Burn
  <2> QED BY <1>2, <2>1, SupplyStep DEF Burn
<1>3. ASSUME NEW a \in Amounts, IncreaseLock(u, a) PROVE EscrowInv'
  <2>1. LocksStarted'
    BY <1>3 DEF IncreaseLock, LocksStarted
  <2>2. /\ locked[u] + a \in Nat /\ balance[u] - a >= 0
        /\ a \in Int /\ escrow + a >= 0 /\ locked[u] + a <= locked[u] + a
    BY <1>3 DEF IncreaseLock, PayIn
  <2>3. /\ balance' = [balance EXCEPT ![u] = balance[u] - a]
        /\ locked' = [locked EXCEPT ![u] = locked[u] + a]
    BY <1>3 DEF IncreaseLock, PayIn
  <2> QED BY <1>3, <2>1, <2>2, <2>3, LockStep DEF IncreaseLock, PayIn
<1>4. ASSUME NEW a \in Amounts, NEW v \in Users, Transfer(u, v, a) PROVE EscrowInv'
  BY <1>4, TransferStep
<1>5. ASSUME NEW a \in Amounts, NEW v \in Users, Delegate(u, v, a) PROVE EscrowInv'
  <2>1. delegatedTo' \in [Users -> Nat]
    BY <1>5 DEF Delegate
  <2> QED BY <1>5, <2>1 DEF Delegate, TokensConserved, LocksCovered, LocksStarted, tokenVars, lockVars
<1>6. ASSUME NEW d \in MinDuration..MaxDuration, ExtendLock(u, d) PROVE EscrowInv'
  <2>1. lockEnd' \in [Users -> Nat]
    BY <1>6 DEF ExtendLock
  <2> QED BY <1>6, <2>1 DEF ExtendLock, TokensConserved, LocksCovered, LocksStarted, tokenVars
<1>7. ASSUME NEW a \in Amounts, NEW d \in MinDuration..MaxDuration, CreateLock(u, a, d)
      PROVE EscrowInv'
  <2>1. /\ lockStart' \in [Users -> Nat] /\ lockEnd' \in [Users -> Nat] /\ LocksStarted'
    BY <1>7 DEF CreateLock, LocksStarted
  <2>2. /\ a \in Nat /\ a \in Int /\ balance[u] - a >= 0 /\ escrow + a >= 0
        /\ a <= locked[u] + a
    BY <1>7 DEF CreateLock, PayIn
  <2>3. balance' = [balance EXCEPT ![u] = balance[u] - a]
    BY <1>7 DEF CreateLock, PayIn
  <2> QED BY <1>7, <2>1, <2>2, <2>3, LockStep DEF CreateLock, PayIn
<1>8. CASE Withdraw(u)
  <2>0. PICK d \in Int : d = 0 - locked[u]
    OBVIOUS
  <2>a. /\ balance[u] - d = balance[u] + locked[u] /\ escrow + d = escrow - locked[u]
        /\ lockedSupply + d = lockedSupply - locked[u] /\ locked[u] + d = 0
    BY <2>0
  <2>1. lockStart' \in [Users -> Nat] /\ lockEnd' \in [Users -> Nat] /\ LocksStarted'
    BY <1>8 DEF Withdraw, LocksStarted
  <2>2. /\ d \in Int /\ 0 \in Nat /\ balance[u] - d >= 0 /\ escrow + d >= 0
        /\ 0 <= locked[u] + d
    BY <1>8, <2>a DEF Withdraw, PayOut
  <2>3. /\ balance' = [balance EXCEPT ![u] = balance[u] - d]
        /\ escrow' = escrow + d /\ lockedSupply' = lockedSupply + d
    BY <1>8, <2>a DEF Withdraw, PayOut
  <2>4. /\ supply' = supply /\ locked' = [locked EXCEPT ![u] = 0]
        /\ UNCHANGED delegatedTo /\ now' = now
    BY <1>8 DEF Withdraw, PayOut
  <2> QED BY <2>1, <2>2, <2>3, <2>4, LockStep
<1> QED BY <1>1, <1>2, <1>3, <1>4, <1>5, <1>6, <1>7, <1>8 DEF UserStep

(* Every step of the escrow keeps the invariant.                            *)
LEMMA EscrowStep == EscrowInv /\ [Next]_escrowVars => EscrowInv'
<1> SUFFICES ASSUME EscrowInv, [Next]_escrowVars PROVE EscrowInv'
  OBVIOUS
<1>1. ASSUME NEW u \in Users, UserStep(u) PROVE EscrowInv'
  BY <1>1, UserStepKeeps
<1>2. CASE Tick
  <2>1. now' \in Nat /\ LocksStarted'
    BY <1>2 DEF Tick, EscrowInv, TypeOK, LocksStarted, lockVars
  <2> QED BY <1>2, <2>1 DEF Tick, EscrowInv, TypeOK, TokensConserved, LocksCovered, tokenVars, lockVars
<1>3. CASE UNCHANGED escrowVars
  BY <1>3 DEF escrowVars, tokenVars, lockVars, EscrowInv, TypeOK, TokensConserved, LocksCovered, LocksStarted
<1> QED BY <1>1, <1>2, <1>3 DEF Next

(* What a step may do to locks that run.                                    *)
LockKept == \A u \in Users : lockEnd[u] > now
              => lockEnd'[u] >= lockEnd[u] /\ locked'[u] >= locked[u]

(* No step cuts a running lock.                                             *)
LEMMA LockKeptStep == EscrowInv /\ [Next]_escrowVars => [LockKept]_escrowVars
<1> SUFFICES ASSUME EscrowInv, Next PROVE LockKept
  OBVIOUS
<1> USE EscrowAssumption DEF EscrowInv, TypeOK, LockKept
<1>1. ASSUME NEW u \in Users, NEW a \in Amounts, Mint(u, a) \/ Burn(u, a) PROVE LockKept
  BY <1>1 DEF Mint, Burn, lockVars
<1>2. ASSUME NEW u \in Users, NEW a \in Amounts, IncreaseLock(u, a) PROVE LockKept
  BY <1>2 DEF IncreaseLock
<1>3. ASSUME NEW u \in Users, NEW v \in Users, NEW a \in Amounts,
             Transfer(u, v, a) \/ Delegate(u, v, a)
      PROVE LockKept
  BY <1>3 DEF Transfer, Delegate, lockVars
<1>4. ASSUME NEW u \in Users, NEW d \in MinDuration..MaxDuration, ExtendLock(u, d) PROVE LockKept
  <2>1. lockEnd' = [lockEnd EXCEPT ![u] = now + d] /\ locked' = locked
    BY <1>4 DEF ExtendLock
  <2>2. d \in Nat /\ d >= lockEnd[u] - lockStart[u] /\ lockStart[u] <= now
    BY <1>4 DEF ExtendLock, LocksStarted
  <2>3. now + d >= lockEnd[u]
    BY <2>2
  <2> QED BY <2>1, <2>3
<1>5. ASSUME NEW u \in Users, NEW a \in Amounts, NEW d \in MinDuration..MaxDuration,
             CreateLock(u, a, d)
      PROVE LockKept
  BY <1>5 DEF CreateLock
<1>6. ASSUME NEW u \in Users, Withdraw(u) PROVE LockKept
  BY <1>6 DEF Withdraw
<1>7. CASE Tick
  BY <1>7 DEF Tick, lockVars
<1> QED BY <1>1, <1>2, <1>3, <1>4, <1>5, <1>6, <1>7 DEF Next, UserStep

(* For any users and amounts, the token's supply is what users and escrow   *)
(* hold (governance.rs, mint, burn, transfer).                              *)
THEOREM TokensAreConserved == Spec => [](TypeOK /\ TokensConserved)
<1>1. EscrowInv => TypeOK /\ TokensConserved
  BY DEF EscrowInv
<1> QED BY <1>1, EscrowInit, EscrowStep, PTL DEF Spec

(* For any users and amounts, the escrow can pay out every lock             *)
(* (governance.rs, create_lock, increase_lock, withdraw).                   *)
THEOREM LocksAreCovered == Spec => []LocksCovered
<1>1. EscrowInv => LocksCovered
  BY DEF EscrowInv
<1> QED BY <1>1, EscrowInit, EscrowStep, PTL DEF Spec

(* For any durations, no call cuts a running lock (governance.rs,           *)
(* extend_lock).                                                            *)
THEOREM RunningLocksAreKept == Spec => RunningLockKept
<1>1. Spec => [][LockKept]_escrowVars
  BY EscrowInit, EscrowStep, LockKeptStep, PTL DEF Spec
<1> QED BY <1>1 DEF RunningLockKept, LockKept

-----------------------------------------------------------------------------
(* The governor.                                                           *)

ProposalType ==
  [state: Passed \cup {"Pending", "Active", "Canceled", "Defeated"},
   start: Nat, end: Nat, eta: Nat, for: Nat, against: Nat,
   forVoters: [Users -> Nat], againstVoters: [Users -> Nat]]

(* What is true of every proposal.                                          *)
Sound(p) ==
  /\ p.state \in Passed => p.for > p.against /\ now >= p.end
  /\ p.state \in {"Queued", "Executed", "Expired"} => p.eta >= p.end + TimelockDelay
  /\ p.state = "Executed" => now >= p.eta
  /\ SumTo(p.forVoters, NumUsers) <= p.for
  /\ SumTo(p.againstVoters, NumUsers) <= p.against

GovernorInv ==
  /\ EscrowInv
  /\ proposals \in Seq(ProposalType)
  /\ \A i \in DOMAIN proposals : Sound(proposals[i])

(* What a step may do to proposals.                                         *)
FinalStep == \A i \in DOMAIN proposals : Final(proposals[i], proposals'[i])

(* The governor starts without proposals.                                   *)
LEMMA GovernorInit == GInit => GovernorInv
BY EscrowInit DEF GInit, GovernorInv

(* A step that replaces one proposal.                                       *)
LEMMA Replaced ==
  ASSUME GovernorInv, UNCHANGED escrowVars, NEW i \in DOMAIN proposals, NEW q \in ProposalType,
         Sound(q), Final(proposals[i], q), proposals' = [proposals EXCEPT ![i] = q]
  PROVE  GovernorInv' /\ FinalStep
<1>1. EscrowInv'
  BY EscrowStep DEF GovernorInv
<1>2. proposals' \in Seq(ProposalType) /\ DOMAIN proposals' = DOMAIN proposals
  BY DEF GovernorInv
<1>3. now' = now
  BY DEF escrowVars
<1>4. \A j \in DOMAIN proposals : Sound(proposals'[j])
  BY DEF GovernorInv
<1>5. (\A j \in DOMAIN proposals : Sound(proposals[j]))'
  BY <1>2, <1>3, <1>4 DEF Sound
<1>6. FinalStep
  BY DEF FinalStep, Final
<1> QED BY <1>1, <1>2, <1>5, <1>6 DEF GovernorInv

(* A vote that is counted keeps a proposal sound.                           *)
LEMMA CountedSound ==
  ASSUME NEW p \in ProposalType, Sound(p), p.state \in {"Pending", "Active"},
         NEW u \in Users, NEW support \in BOOLEAN, NEW a \in Nat
  PROVE  LET q == Counted(p, u, support, a)
         IN  q \in ProposalType /\ Sound(q) /\ Final(p, q)
<1> DEFINE q == Counted(p, u, support, a)
<1> USE DEF ProposalType
<1>1. /\ SumTo([p.forVoters EXCEPT ![u] = a], NumUsers)
            = SumTo(p.forVoters, NumUsers) - p.forVoters[u] + a
      /\ [p.forVoters EXCEPT ![u] = a] \in [Users -> Nat]
  <2>1. p.forVoters \in [Users -> Nat]
    OBVIOUS
  <2> HIDE DEF ProposalType
  <2> QED BY <2>1, EntryReplaced
<1>2. /\ SumTo([p.againstVoters EXCEPT ![u] = a], NumUsers)
            = SumTo(p.againstVoters, NumUsers) - p.againstVoters[u] + a
      /\ [p.againstVoters EXCEPT ![u] = a] \in [Users -> Nat]
  <2>1. p.againstVoters \in [Users -> Nat]
    OBVIOUS
  <2> HIDE DEF ProposalType
  <2> QED BY <2>1, EntryReplaced
<1>3. SumTo(p.forVoters, NumUsers) \in Nat /\ SumTo(p.againstVoters, NumUsers) \in Nat
  <2>1. p.forVoters \in [Users -> Nat] /\ p.againstVoters \in [Users -> Nat]
    OBVIOUS
  <2> HIDE DEF ProposalType
  <2> QED BY <2>1, EntryInTotal
<1>4. q \in ProposalType /\ q.state = "Active"
  <2>1. p.for + a \in Nat /\ p.against + a \in Nat
    OBVIOUS
  <2>2. CASE support
    <3>1. q = [p EXCEPT !.state = "Active", !.for = p.for + a,
                        !.forVoters = [p.forVoters EXCEPT ![u] = a]]
      BY <2>2 DEF Counted
    <3> QED BY <1>1, <2>1, <3>1
  <2>3. CASE ~support
    <3>1. q = [p EXCEPT !.state = "Active", !.against = p.against + a,
                        !.againstVoters = [p.againstVoters EXCEPT ![u] = a]]
      BY <2>3 DEF Counted
    <3> QED BY <1>2, <2>1, <3>1
  <2> QED BY <2>2, <2>3
<1>5. /\ SumTo(q.forVoters, NumUsers) <= q.for
      /\ SumTo(q.againstVoters, NumUsers) <= q.against
  <2>1. CASE support
    <3>1. /\ q.forVoters = [p.forVoters EXCEPT ![u] = a] /\ q.for = p.for + a
          /\ q.againstVoters = p.againstVoters /\ q.against = p.against
      BY <2>1 DEF Counted
    <3>2. p.forVoters[u] \in Nat /\ p.for \in Nat
      OBVIOUS
    <3> HIDE DEF q
    <3> QED BY <3>1, <3>2, <1>1, <1>3 DEF Sound
  <2>2. CASE ~support
    <3>1. /\ q.againstVoters = [p.againstVoters EXCEPT ![u] = a] /\ q.against = p.against + a
          /\ q.forVoters = p.forVoters /\ q.for = p.for
      BY <2>2 DEF Counted
    <3>2. p.againstVoters[u] \in Nat /\ p.against \in Nat
      OBVIOUS
    <3> HIDE DEF q
    <3> QED BY <3>1, <3>2, <1>2, <1>3 DEF Sound
  <2> QED BY <2>1, <2>2
<1>6. Sound(q)
  BY <1>4, <1>5 DEF Sound, Passed
<1>7. Final(p, q)
  BY DEF Final
<1> QED BY <1>4, <1>6, <1>7

(* So does an update.                                                       *)
LEMMA UpdatedSound ==
  ASSUME NEW p \in ProposalType, Sound(p)
  PROVE  Updated(p) \in ProposalType /\ Sound(Updated(p)) /\ Final(p, Updated(p))
<1> USE DEF ProposalType, Passed
<1>1. Updated(p) \in ProposalType
  BY DEF Updated
<1>2. /\ Updated(p).forVoters = p.forVoters /\ Updated(p).for = p.for
      /\ Updated(p).againstVoters = p.againstVoters /\ Updated(p).against = p.against
      /\ Updated(p).eta = p.eta /\ Updated(p).end = p.end
  BY DEF Updated
<1>3. Sound(Updated(p))
  <2>1. CASE Updated(p).state = "Succeeded" /\ p.state # "Succeeded"
    <3>1. p.for > p.against /\ now >= p.end
      BY <2>1 DEF Updated, HasPassed
    <3> QED BY <2>1, <3>1, <1>2 DEF Sound
  <2>2. CASE Updated(p).state = "Expired" /\ p.state # "Expired"
    <3>1. p.state = "Queued"
      BY <2>2 DEF Updated
    <3> QED BY <2>2, <3>1, <1>2 DEF Sound
  <2>3. CASE Updated(p).state \in {"Active", "Defeated"}
    BY <2>3, <1>2 DEF Sound
  <2>4. CASE Updated(p) = p
    BY <2>4
  <2> QED BY <2>1, <2>2, <2>3, <2>4 DEF Updated
<1>4. Final(p, Updated(p))
  BY DEF Final, Updated
<1> QED BY <1>1, <1>3, <1>4

(* The governor's calls keep the invariant and what was decided.            *)
LEMMA GovernorStepKeeps ==
  ASSUME GovernorInv, GovernorStep
  PROVE  GovernorInv' /\ FinalStep
<1> USE GovernorAssumption, EscrowAssumption
<1>1. now \in Nat /\ TimelockDelay \in Nat
  BY DEF GovernorInv, EscrowInv, TypeOK
<1>2. \A i \in DOMAIN proposals : proposals[i] \in ProposalType /\ Sound(proposals[i])
  BY DEF GovernorInv
<1>3. ASSUME NEW u \in Users, NEW d \in Durations, Propose(u, d) PROVE GovernorInv' /\ FinalStep
  <2> DEFINE q == [state |-> "Pending", start |-> now, end |-> now + d, eta |-> 0, for |-> 0,
                   against |-> 0, forVoters |-> NoVotes, againstVoters |-> NoVotes]
  <2>1. NoVotes \in [Users -> Nat] /\ SumTo(NoVotes, NumUsers) = 0
    <3>1. /\ NumUsers \in Nat /\ NoVotes \in [1..NumUsers -> Int]
          /\ \A k \in 1..NumUsers : NoVotes[k] = 0
      BY DEF NoVotes, Users
    <3> QED BY <3>1, SumToZero DEF NoVotes
  <2>2. q \in ProposalType
    BY <1>1, <2>1 DEF ProposalType
  <2>3. Sound(q)
    BY <2>1 DEF Sound, Passed
  <2>4. proposals' = Append(proposals, q) /\ UNCHANGED escrowVars
    BY <1>3 DEF Propose
  <2>5. EscrowInv' /\ now' = now
    BY <2>4, EscrowStep DEF GovernorInv, escrowVars
  <2> HIDE DEF q
  <2>6. /\ proposals' \in Seq(ProposalType) /\ DOMAIN proposals' = 1..(Len(proposals) + 1)
        /\ DOMAIN proposals = 1..Len(proposals)
        /\ proposals'[Len(proposals) + 1] = q
        /\ \A i \in DOMAIN proposals : proposals'[i] = proposals[i]
    BY <2>2, <2>4 DEF GovernorInv
  <2>7. \A i \in DOMAIN proposals' : Sound(proposals'[i])
    BY <1>2, <2>3, <2>6
  <2>8. (\A i \in DOMAIN proposals : Sound(proposals[i]))'
    BY <2>5, <2>7 DEF Sound
  <2>9. FinalStep
    BY <2>6 DEF FinalStep, Final
  <2> QED BY <2>5, <2>6, <2>8, <2>9 DEF GovernorInv
<1>4. ASSUME NEW i \in DOMAIN proposals, NEW u \in Users, NEW support \in BOOLEAN,
             NEW a \in Amounts, Vote(u, i, support, a)
      PROVE GovernorInv' /\ FinalStep
  <2>1. proposals[i].state \in {"Pending", "Active"} /\ a \in Nat
    BY <1>4 DEF Vote, Votable
  <2>2. LET q == Counted(proposals[i], u, support, a)
        IN  q \in ProposalType /\ Sound(q) /\ Final(proposals[i], q)
    BY <1>2, <2>1, CountedSound
  <2>3. /\ proposals' = [proposals EXCEPT ![i] = Counted(proposals[i], u, support, a)]
        /\ UNCHANGED escrowVars
    BY <1>4 DEF Vote
  <2> QED BY <2>2, <2>3, Replaced
<1>5. ASSUME NEW i \in DOMAIN proposals, Queue(i) PROVE GovernorInv' /\ FinalStep
  <2> DEFINE p == proposals[i]
             q == [p EXCEPT !.state = "Queued", !.eta = Eta(p)]
  <2>1. p \in ProposalType /\ Sound(p) /\ p.state = "Succeeded"
    BY <1>2, <1>5 DEF Queue
  <2>a. Eta(p) \in Nat
    BY <1>1 DEF Eta
  <2>2. q \in ProposalType
    BY <2>1, <2>a DEF ProposalType, Passed
  <2>3. Sound(q) /\ Final(p, q)
    BY <1>1, <2>1 DEF ProposalType, Sound, Final, Passed, Eta
  <2>4. proposals' = [proposals EXCEPT ![i] = q] /\ UNCHANGED escrowVars
    BY <1>5 DEF Queue
  <2> QED BY <2>2, <2>3, <2>4, Replaced
<1>6. ASSUME NEW i \in DOMAIN proposals, Execute(i) PROVE GovernorInv' /\ FinalStep
  <2> DEFINE p == proposals[i]
             q == [p EXCEPT !.state = "Executed"]
  <2>1. p \in ProposalType /\ Sound(p) /\ p.state = "Queued" /\ now >= p.eta
    BY <1>2, <1>6 DEF Execute
  <2>2. q \in ProposalType
    BY <2>1 DEF ProposalType, Passed
  <2>3. Sound(q) /\ Final(p, q)
    BY <2>1 DEF ProposalType, Sound, Final, Passed
  <2>4. proposals' = [proposals EXCEPT ![i] = q] /\ UNCHANGED escrowVars
    BY <1>6 DEF Execute
  <2> QED BY <2>2, <2>3, <2>4, Replaced
<1>7. ASSUME NEW i \in DOMAIN proposals, Cancel(i) PROVE GovernorInv' /\ FinalStep
  <2> DEFINE p == proposals[i]
             q == [p EXCEPT !.state = "Canceled"]
  <2>1. p \in ProposalType /\ Sound(p) /\ p.state \in {"Pending", "Active"}
    BY <1>2, <1>7 DEF Cancel
  <2>2. q \in ProposalType
    BY <2>1 DEF ProposalType, Passed
  <2>3. Sound(q) /\ Final(p, q)
    BY <2>1 DEF ProposalType, Sound, Final, Passed
  <2>4. proposals' = [proposals EXCEPT ![i] = q] /\ UNCHANGED escrowVars
    BY <1>7 DEF Cancel
  <2> QED BY <2>2, <2>3, <2>4, Replaced
<1>8. CASE UpdateStates
  <2>1. \A i \in DOMAIN proposals :
          /\ Updated(proposals[i]) \in ProposalType /\ Sound(Updated(proposals[i]))
          /\ Final(proposals[i], Updated(proposals[i]))
    BY <1>2, UpdatedSound
  <2>2. /\ proposals' = [i \in DOMAIN proposals |-> Updated(proposals[i])]
        /\ UNCHANGED escrowVars
    BY <1>8 DEF UpdateStates
  <2>3. EscrowInv' /\ now' = now
    BY <2>2, EscrowStep DEF GovernorInv, escrowVars
  <2>4. proposals' \in Seq(ProposalType) /\ DOMAIN proposals' = DOMAIN proposals
    BY <2>1, <2>2 DEF GovernorInv
  <2>5. (\A i \in DOMAIN proposals : Sound(proposals[i]))'
    BY <2>1, <2>2, <2>3, <2>4 DEF Sound
  <2>6. FinalStep
    BY <2>1, <2>2 DEF FinalStep
  <2> QED BY <2>3, <2>4, <2>5, <2>6 DEF GovernorInv
<1> QED BY <1>3, <1>4, <1>5, <1>6, <1>7, <1>8 DEF GovernorStep

(* The clock never goes back.                                               *)
LEMMA TimePasses == EscrowInv /\ Next => now' \in Nat /\ now' >= now
BY EscrowAssumption DEF EscrowInv, TypeOK, Next, UserStep, Tick, Mint, Burn, Transfer, CreateLock,
   IncreaseLock, ExtendLock, Withdraw, Delegate

(* Every step keeps the invariant and what was decided.                     *)
LEMMA GovernorStepHolds ==
  GovernorInv /\ [GNext]_govVars => GovernorInv' /\ [FinalStep]_govVars
<1> SUFFICES ASSUME GovernorInv, [GNext]_govVars PROVE GovernorInv' /\ [FinalStep]_govVars
  OBVIOUS
<1>1. CASE GovernorStep
  BY <1>1, GovernorStepKeeps
<1>2. CASE Next /\ UNCHANGED proposals
  <2>1. EscrowInv' /\ now' \in Nat /\ now' >= now /\ now \in Nat
    BY <1>2, EscrowStep, TimePasses DEF GovernorInv, EscrowInv, TypeOK
  <2>a. \A i \in DOMAIN proposals : proposals[i] \in ProposalType
    BY DEF GovernorInv
  <2>2. \A i \in DOMAIN proposals : proposals[i].end \in Nat /\ proposals[i].eta \in Nat
    BY <2>a DEF ProposalType
  <2>3. (\A i \in DOMAIN proposals : Sound(proposals[i]))'
    BY <1>2, <2>1, <2>2 DEF GovernorInv, Sound
  <2>4. FinalStep
    BY <1>2 DEF FinalStep, Final
  <2> QED BY <1>2, <2>1, <2>3, <2>4 DEF GovernorInv
<1>3. CASE UNCHANGED govVars
  <2>1. EscrowInv'
    BY <1>3, EscrowStep DEF GovernorInv, govVars
  <2>2. now' = now /\ proposals' = proposals
    BY <1>3 DEF govVars, escrowVars
  <2> QED BY <1>3, <2>1, <2>2 DEF GovernorInv, Sound
<1> QED BY <1>1, <1>2, <1>3 DEF GNext

(* A proposal that passed has the majority of all votes cast and its vote   *)
(* is over (governance.rs, vote and update_proposal_states).                *)
THEOREM PassedHaveTheMajority == GSpec => []PassedHaveMajority
<1>1. GovernorInv => PassedHaveMajority
  BY DEF GovernorInv, PassedHaveMajority, Proposals, Sound
<1> QED BY <1>1, GovernorInit, GovernorStepHolds, PTL DEF GSpec

(* Execution comes the whole timelock after the end of the vote, for any    *)
(* delay and grace period (governance.rs, queue and execute).               *)
THEOREM NoticeIsGiven == GSpec => []NoticeBeforeExecution
<1>1. GovernorInv => NoticeBeforeExecution
  <2> SUFFICES ASSUME GovernorInv, NEW i \in DOMAIN proposals, proposals[i].state = "Executed"
               PROVE  now >= proposals[i].end + TimelockDelay
    BY DEF NoticeBeforeExecution, Proposals
  <2>a. proposals[i] \in ProposalType /\ now \in Nat /\ TimelockDelay \in Nat
    BY GovernorAssumption DEF GovernorInv, EscrowInv, TypeOK
  <2>1. proposals[i].eta \in Nat /\ proposals[i].end \in Nat
    BY <2>a DEF ProposalType
  <2> QED BY <2>1, <2>a DEF GovernorInv, Sound
<1> QED BY <1>1, GovernorInit, GovernorStepHolds, PTL DEF GSpec

(* Nothing that was voted is lost (governance.rs, vote).                    *)
THEOREM RecordedVotesAreCounted == GSpec => []RecordedAreCounted
<1>1. GovernorInv => RecordedAreCounted
  BY DEF GovernorInv, RecordedAreCounted, Proposals, Sound
<1> QED BY <1>1, GovernorInit, GovernorStepHolds, PTL DEF GSpec

(* What was decided is final (governance.rs, vote, queue, execute, cancel   *)
(* and update_proposal_states).                                             *)
THEOREM DecisionsAreFinal == GSpec => DecidedIsFinal
<1>1. GSpec => [][FinalStep]_govVars
  BY GovernorInit, GovernorStepHolds, PTL DEF GSpec
<1> QED BY <1>1 DEF DecidedIsFinal, FinalStep
=============================================================================
