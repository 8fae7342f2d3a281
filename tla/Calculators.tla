------------------------------ MODULE Calculators ------------------------------
(***************************************************************************)
(* The pure functions of the SDK: the helpers of sdk/src/governance.ts,     *)
(* the insurance estimate (sdk/src/insurance.ts) and YieldCalculator        *)
(* (sdk/src/yieldCalculator.ts), beside what the contracts work out for the *)
(* same arguments and beside reference definitions.                         *)
(*                                                                          *)
(* A caller varies the arguments one at a time, as a slider or a feed does. *)
(* Scales are constants: 10000 basis points are Bp, 1e3 is Kilo and 1e6 its *)
(* square. Functions that need real powers are left out.                    *)
(***************************************************************************)
EXTENDS Integers, Sequences

CONSTANTS
  MaxArg,        \* bound on an argument
  Bp, Kilo,
  Base, Decimals \* of a printed amount

(* Nothing is divided by zero.                                              *)
CalculatorsAssumption ==
  /\ {MaxArg, Decimals} \subseteq Nat
  /\ {Bp, Kilo, Base} \subseteq Nat \ {0}

VARIABLE args    \* four numbers
vars == <<args>>

Init == args = <<0, 0, 0, 0>>
Vary(i) == \E n \in 0..MaxArg : args' = [args EXCEPT ![i] = n]
Next == \E i \in 1..4 : Vary(i)
Spec == Init /\ [][Next]_vars

LeastOf(a, b) == IF a < b THEN a ELSE b
MostOf(a, b) == IF a > b THEN a ELSE b

-----------------------------------------------------------------------------
(* Voting power, boost and votes, in the SDK and in governance.rs.          *)

calculateVotingPower(amount, lockEnd, time, maxDuration) ==
  IF lockEnd <= time THEN 0 ELSE (amount * (lockEnd - time)) \div maxDuration

get_voting_power(amount, lock_end, time, max_duration) ==
  IF lock_end <= time \/ amount = 0 THEN 0 ELSE (amount * (lock_end - time)) \div max_duration

(* Both caps are a quarter of the whole, so that no lock is worth more than *)
(* another.                                                                 *)
calculateBoostMultiplier(lockDuration, maxDuration) ==
  LeastOf(Bp + (((lockDuration * Bp) \div maxDuration) * 15) \div 100, Bp \div 4)

get_boost_multiplier(amount, duration, max_duration) ==
  LET boost   == Bp + (((duration * Bp) \div max_duration) * 15) \div 100
      boosted == LeastOf((amount * boost) \div Bp, (amount * (Bp \div 4)) \div Bp)
  IN IF amount = 0 THEN Bp ELSE (boosted * Bp) \div amount

Quorum(totalSupply, quorumPercentage) == (totalSupply * quorumPercentage) \div Bp

(* Mutant: a tie passes.                                                    *)
hasPassedOnTie(votesFor, votesAgainst, totalSupply, quorumPercentage) ==
  votesFor + votesAgainst >= Quorum(totalSupply, quorumPercentage) /\ votesFor >= votesAgainst

hasProposalPassed(votesFor, votesAgainst, totalSupply, quorumPercentage) ==
  votesFor + votesAgainst >= Quorum(totalSupply, quorumPercentage) /\ votesFor > votesAgainst

has_quorum(votes_for, votes_against, total_supply, quorum_percentage) ==
  votes_for + votes_against >= (total_supply * quorum_percentage) \div Bp

has_passed(votes_for, votes_against, total_supply, quorum_percentage) ==
  has_quorum(votes_for, votes_against, total_supply, quorum_percentage) /\ votes_for > votes_against

getTimeUntilExpiry(lockEnd, time) == MostOf(0, lockEnd - time)

-----------------------------------------------------------------------------
(* Amounts as text: a whole part and the digits behind the point.           *)

Pow[n \in 0..Decimals] == IF n = 0 THEN 1 ELSE Base * Pow[n - 1]

Padded(n) == [k \in 1..Decimals |-> (n \div Pow[Decimals - k]) % Base]

DropZeros(digits) ==
  LET last == {k \in DOMAIN digits : digits[k] # 0}
  IN SubSeq(digits, 1, IF last = {} THEN 0 ELSE CHOOSE k \in last : \A l \in last : l <= k)

formatVotingPower(amount) ==
  [whole |-> amount \div Pow[Decimals], fraction |-> Padded(amount % Pow[Decimals])]

formatAmount(amount) ==
  [whole |-> amount \div Pow[Decimals], fraction |-> DropZeros(Padded(amount % Pow[Decimals]))]

(* The fraction is cut after Decimals digits and padded with zeros.         *)
parseStroops(text) ==
  LET digit(k) == IF k \in DOMAIN text.fraction THEN text.fraction[k] ELSE 0
      value[k \in 0..Decimals] == IF k = 0 THEN 0 ELSE Base * value[k - 1] + digit(k)
  IN text.whole * Pow[Decimals] + value[Decimals]

-----------------------------------------------------------------------------
(* The insurance estimate. Prices are square roots times Kilo^2.            *)

(* Newton's method, from above.                                             *)
bigintSqrt(n) ==
  LET root[x \in 1..n] == LET y == (x + n \div x) \div 2 IN IF y < x THEN root[y] ELSE x
  IN IF n = 0 THEN 0 ELSE root[n]

Million == Kilo * Kilo

PriceRatio(start, current) == (current * current * Million) \div (start * start)

Payout(coverage, ilScaled) ==
  IF ilScaled >= Million THEN 0 ELSE (coverage * (Million - ilScaled)) \div Million

getClaimableAmount(coverage, start, current) ==
  IF start <= 0 THEN 0
  ELSE LET r     == PriceRatio(start, current)
           sqrtR == bigintSqrt(r * Million)
       IN Payout(coverage, (2 * sqrtR * Million) \div (Kilo + r \div Kilo))

(* il_insurance.rs: what the contract pays from a reserve that is large     *)
(* enough.                                                                  *)
claim_il_protection(coverage, start, current) ==
  LET r == PriceRatio(start, current)
  IN Payout(coverage, (2 * bigintSqrt(r) * Million) \div (Kilo + r \div Kilo))

-----------------------------------------------------------------------------
(* YieldCalculator.                                                        *)

(* Mutant: the trough stays where it was at a new peak.                     *)
DrawdownKeepsTrough(d, i, v) ==
  IF v > d.peak THEN [d EXCEPT !.peak = v]
  ELSE IF v >= d.trough THEN d
  ELSE IF (d.peak - v) * d.of > d.loss * d.peak
       THEN [peak |-> d.peak, trough |-> v, loss |-> d.peak - v, of |-> d.peak, end |-> i - 1]
       ELSE [d EXCEPT !.trough = v]

(* One turn of the loop over the values, from the state before it.          *)
Drawdown(d, i, v) ==
  IF v > d.peak THEN [d EXCEPT !.peak = v, !.trough = v]
  ELSE IF v >= d.trough THEN d
  ELSE IF (d.peak - v) * d.of > d.loss * d.peak
       THEN [peak |-> d.peak, trough |-> v, loss |-> d.peak - v, of |-> d.peak, end |-> i - 1]
       ELSE [d EXCEPT !.trough = v]

(* As a fraction, loss / of; the period's end counts from 0.                *)
calculateMaxDrawdown(values) ==
  LET first == [peak |-> values[1], trough |-> values[1], loss |-> 0, of |-> 1, end |-> 0]
      d[i \in 1..Len(values)] == IF i = 1 THEN first ELSE Drawdown(d[i - 1], i, values[i])
  IN d[Len(values)]

(* The four parts; a year is Bp.                                            *)
estimateFeeRevenue(tvl, rate, apy, years, threshold) ==
  LET yield(a) == (((tvl * a) \div Bp) * years) \div Bp
  IN (yield(apy) * rate) \div Bp
     + (((tvl * 10) \div 100) * rate) \div Bp
     + ((tvl * rate * years) \div Bp) \div Bp
     + (IF apy > threshold THEN (yield(apy - threshold) * rate) \div Bp ELSE 0)

calculateOptimalDeposit(reserveA, reserveB, target) ==
  LET ratio == (reserveA * Bp) \div reserveB IN
  IF reserveA > reserveB THEN [amountA |-> (target * Bp) \div ratio, amountB |-> target]
  ELSE [amountA |-> target, amountB |-> (target * ratio) \div Bp]

(* Impermanent loss for a price ratio p^2 / q^2: a fraction, never above 0. *)
calculateImpermanentLoss(p, q) ==
  IF p = 0 \/ q = 0 THEN [num |-> 0, den |-> 1]
  ELSE [num |-> 2 * p * q - (p * p + q * q), den |-> p * p + q * q]

computeHistoricalImpermanentLoss(q, history) ==
  [k \in DOMAIN history |-> calculateImpermanentLoss(history[k], q)]

Below(a, b) == a.num * b.den < b.num * a.den

(* An order of the places in which none is after a greater one.             *)
IsSorting(order, fractions) ==
  /\ \A i, j \in DOMAIN fractions : i # j => order[i] # order[j]
  /\ \A i, j \in DOMAIN fractions : i < j => ~Below(fractions[order[j]], fractions[order[i]])

Sorted(fractions) ==
  LET order == CHOOSE o \in [DOMAIN fractions -> DOMAIN fractions] : IsSorting(o, fractions)
  IN [i \in DOMAIN fractions |-> fractions[order[i]]]

(* The final ratios of the simulated paths, sorted by their loss.           *)
simulateImpermanentLoss(q, ratios) ==
  LET il == Sorted(computeHistoricalImpermanentLoss(q, ratios))
  IN [worstCaseIl |-> il[1], bestCaseIl |-> il[Len(ratios)]]

-----------------------------------------------------------------------------
(* Properties.                                                             *)

(* The client tells its user what the contract will do: votes that pass and *)
(* the quorum, the power of a lock, and that every lock has the same boost. *)
ClientMirrorsContract ==
  LET a == args[1] b == args[2] c == args[3] d == args[4] IN
  /\ hasProposalPassed(a, b, c, d) = has_passed(a, b, c, d)
  /\ calculateVotingPower(a, b, c, d + 1) = get_voting_power(a, b, c, d + 1)
  /\ getTimeUntilExpiry(b, c) = 0 <=> \A n \in 1..MaxArg : get_voting_power(n, b, c, 1) = 0
  /\ a > 0 => calculateBoostMultiplier(b, c + 1) >= get_boost_multiplier(a, b, c + 1)

(* The functions compute what they are named for, over all arguments: an    *)
(* amount survives being shown and typed in again; the square root is exact;*)
(* the drawdown is the largest relative fall to a later value and ends      *)
(* where it says; fees are no more than their exact value; a deposit stays  *)
(* within its target; the worst simulated loss is the loss of some path and *)
(* no path loses more.                                                      *)
MatchesReference ==
  LET a == args[1] b == args[2] c == args[3] d == args[4]
      n == a * MaxArg * MaxArg + b * MaxArg + c
      sqrt == bigintSqrt(n)
      values == [k \in 1..4 |-> args[k] + 1]
      max == calculateMaxDrawdown(values)
      sim == simulateImpermanentLoss(d + 1, <<a + 1, b + 1, c + 1>>)
      deposit == calculateOptimalDeposit(a + 1, b + 1, c)
  IN
  /\ parseStroops(formatAmount(n)) = n /\ parseStroops(formatVotingPower(n)) = n
  /\ sqrt * sqrt <= n /\ n < (sqrt + 1) * (sqrt + 1)
  /\ \A i, j \in 1..4 : i < j => (values[i] - values[j]) * max.of <= max.loss * values[i]
  /\ max.loss > 0 => \E i \in 1..max.end :
       values[i] = max.of /\ values[i] - values[max.end + 1] = max.loss
  /\ estimateFeeRevenue(n, a, b, c, d) * Bp * Bp * Bp * 10
       <= n * a * (20 * b * c + Bp * Bp + 10 * c * Bp)
  /\ deposit.amountA <= c /\ deposit.amountB <= c
  /\ \E k \in 1..3 : sim.worstCaseIl = calculateImpermanentLoss(args[k] + 1, d + 1)
  /\ \A k \in 1..3 :
       LET il == calculateImpermanentLoss(args[k] + 1, d + 1) IN
       /\ sim.worstCaseIl.num * il.den <= il.num * sim.worstCaseIl.den /\ il.num <= 0
       /\ il.num * sim.bestCaseIl.den <= sim.bestCaseIl.num * il.den

(* The insurance estimate never promises more than the contract pays.       *)
EstimateNotAbovePayout ==
  args[2] > 0 => getClaimableAmount(args[1], args[2], args[3])
                   <= claim_il_protection(args[1], args[2], args[3])

(* The SDK works out what its contracts work out and what its names promise.*)
CalculationsAgree == ClientMirrorsContract /\ MatchesReference /\ EstimateNotAbovePayout
=============================================================================
