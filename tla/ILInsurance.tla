----------------------------- MODULE ILInsurance -----------------------------
(***************************************************************************)
(* The insurance against impermanent loss, src/il_insurance.rs: premiums go *)
(* into one reserve, claims are paid out of it.                             *)
(*                                                                          *)
(* The rate of a period, a volatility and a correlation is a member of      *)
(* Rates; the compensation of a claim is any part of the coverage (how the  *)
(* prices give it is in Calculators). Left out: auto_renew, which no call   *)
(* reads, and what buyers hold.                                             *)
(***************************************************************************)
EXTENDS Integers, Sequences, Sums

CONSTANTS
  Owners, NumReserveTokens,
  Coverages, Periods, Rates,     \* what buyers ask for, and the rates before the reserve is looked at
  Divisor,                       \* 10000
  MaxRate,                       \* the cap of 500
  MinReserveRatio,               \* MIN_RESERVE_RATIO
  MaxTime, MaxCalls              \* bounds on now and calls

InsuranceAssumption ==
  /\ Coverages \subseteq Nat /\ Periods \subseteq Nat /\ Rates \subseteq Nat
  /\ Divisor \in Nat \ {0} /\ MaxRate \in Nat /\ MinReserveRatio \in Nat
  /\ NumReserveTokens \in Nat

ReserveTokens == 1..NumReserveTokens

VARIABLES
  policies,      \* by policy_id
  reserve,       \* [premiums, claims, current, active]
  reserve_held,  \* the tokens the contract holds (external)
  payouts,       \* history: what every policy was paid
  now, calls

insuranceVars == <<policies, reserve, reserve_held, payouts, now, calls>>

Init ==
  /\ policies = <<>> /\ payouts = <<>>
  /\ reserve = [premiums |-> 0, claims |-> 0, current |-> 0, active |-> 0]
  /\ reserve_held = [t \in ReserveTokens |-> 0]
  /\ now = 1 /\ calls = 0

Called == calls < MaxCalls /\ calls' = calls + 1

Smaller(a, b) == IF a < b THEN a ELSE b

-----------------------------------------------------------------------------
(* The rate rises by what the reserve lacks of its ratio, up to the cap.    *)
Shortage ==
  LET ratio == (reserve.current * Divisor) \div reserve.active
  IN IF reserve.active = 0 \/ ratio >= MinReserveRatio THEN 0 ELSE MinReserveRatio - ratio

calculate_premium(coverage, rate) ==
  (coverage * Smaller(rate + (rate * Shortage) \div Divisor, MaxRate)) \div Divisor

ReserveWith(premium, coverage) ==
  [reserve EXCEPT !.premiums = @ + premium, !.current = @ + premium, !.active = @ + coverage]

(* The token of the premium is the one of the payout, and any will do. A    *)
(* price ratio of 0 is taken, and never can be claimed on (310).            *)
PurchaseInsurance(owner, token, coverage, period, rate, start) ==
  LET premium == calculate_premium(coverage, rate)
  IN /\ Called
     /\ premium > 0
     /\ policies' = Append(policies, [owner |-> owner, token |-> token, coverage |-> coverage,
                                      premium |-> premium, start |-> start,
                                      expiry |-> now + period, claimed |-> FALSE])
     /\ payouts' = Append(payouts, 0)
     /\ reserve_held' = [reserve_held EXCEPT ![token] = @ + premium]
     /\ reserve' = ReserveWith(premium, coverage)
     /\ UNCHANGED now

Payout(compensation) == Smaller(compensation, reserve.current)

(* Mutant: a policy that was paid stays in the active coverage.             *)
ReserveAfterKeeping(i, payout) ==
  [reserve EXCEPT !.claims = @ + payout, !.current = @ - payout]

ReserveAfter(i, payout) ==
  [reserve EXCEPT !.claims = @ + payout, !.current = @ - payout,
                  !.active = @ - policies[i].coverage]

(* A policy that is paid nothing stays in the active coverage.              *)
ClaimIlCompensation(owner, i, compensation) ==
  LET payout == Payout(compensation)
      token  == policies[i].token
  IN /\ Called
     /\ ~policies[i].claimed
     /\ policies[i].owner = owner
     /\ now >= policies[i].expiry
     /\ policies[i].start > 0
     /\ policies' = [policies EXCEPT ![i].claimed = TRUE]
     /\ \/ payout = 0 /\ UNCHANGED <<reserve, reserve_held, payouts>>
        \/ /\ payout > 0 /\ reserve_held[token] >= payout
           /\ reserve_held' = [reserve_held EXCEPT ![token] = @ - payout]
           /\ payouts' = [payouts EXCEPT ![i] = payout]
           /\ reserve' = ReserveAfter(i, payout)
     /\ UNCHANGED now

Tick == now < MaxTime /\ now' = now + 1 /\ UNCHANGED <<policies, reserve, reserve_held, payouts, calls>>

-----------------------------------------------------------------------------
Next ==
  \/ Tick
  \/ \E owner \in Owners :
       \/ \E token \in ReserveTokens, coverage \in Coverages, period \in Periods, rate \in Rates,
             start \in 0..1 : PurchaseInsurance(owner, token, coverage, period, rate, start)
       \/ \E i \in DOMAIN policies : \E compensation \in 0..policies[i].coverage :
            ClaimIlCompensation(owner, i, compensation)

Spec == Init /\ [][Next]_insuranceVars

-----------------------------------------------------------------------------
(* Properties.                                                             *)

Premiums == [i \in DOMAIN policies |-> policies[i].premium]
Unpaid   == [i \in DOMAIN policies |-> IF payouts[i] = 0 THEN policies[i].coverage ELSE 0]

(* The reserve is there: it is the tokens that are held, what came in less  *)
(* what went out, and never overdrawn, whatever is claimed in whichever     *)
(* token. No policy is paid more than its coverage.                         *)
ReserveIsThere ==
  /\ reserve.current >= 0
  /\ reserve.current = reserve.premiums - reserve.claims
  /\ reserve.current = SumTo(reserve_held, NumReserveTokens)
  /\ reserve.premiums = SumTo(Premiums, Len(policies))
  /\ reserve.claims = SumTo(payouts, Len(policies))
  /\ \A i \in DOMAIN policies : payouts[i] <= policies[i].coverage

(* The active coverage, which prices premiums, is that of the policies that *)
(* may still claim and of those that were closed without a payout.          *)
ActiveIsCounted == reserve.active = SumTo(Unpaid, Len(policies))

InsuranceKeepsItsWord == ReserveIsThere /\ ActiveIsCounted
=============================================================================
