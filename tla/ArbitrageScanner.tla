--------------------------- MODULE ArbitrageScanner ---------------------------
(***************************************************************************)
(* sdk/src/arbitrage.ts: scans of the pools, which may overlap and share a  *)
(* cache, the opportunities found in them, and the three places that work   *)
(* out what an opportunity earns: ArbitrageExecutor.simulateRebalance and   *)
(* executeArbitrage, and ArbitrageOptimizer.calculateProfitability.         *)
(*                                                                          *)
(* Horizon and the cost estimator are external: any answer or none. The     *)
(* statistics over prices and sample sizes are abstracted to their outcome, *)
(* a volatility or null. The limiter the execution goes through is          *)
(* WriteRateLimiter.                                                        *)
(***************************************************************************)
EXTENDS Integers, Sequences, FiniteSets, SequencesExt

CONSTANTS
  Scans,         \* scans under way at once
  Pools, Apys, Risks, Costs, Amounts, MinDeltas,
  VaultApy,      \* currentVaultApy
  Bp,            \* basis points in a whole
  cacheExpiry, MaxTime

VARIABLES
  now,
  poolCache,     \* the metrics last parsed of every pool, or none
  lastScanTime,  \* of the last scan that came to its end
  scan           \* of every scan: its step, when it began, what is left, what it has

vars == <<now, poolCache, lastScanTime, scan>>

(* Rates, amounts and costs are whole numbers of their smallest unit; an    *)
(* amount is positive, or the options are not valid.                        *)
ScannerAssumption ==
  /\ Apys \subseteq Int /\ Risks \subseteq Nat /\ Costs \subseteq Nat
  /\ Amounts \subseteq Nat \ {0} /\ VaultApy \in Int /\ Bp \in Nat \ {0}
  /\ cacheExpiry \in Nat

NoScan == [step |-> "idle", began |-> 0, left |-> {}, metrics |-> {}, found |-> <<>>]

Init ==
  /\ now = cacheExpiry            \* Date.now() is far from 0, where lastScanTime begins
  /\ poolCache = {} /\ lastScanTime = 0
  /\ scan = [s \in Scans |-> NoScan]

Served(s, metrics) == scan' = [scan EXCEPT ![s].step = "find", ![s].metrics = metrics]

CacheServes == now - lastScanTime < cacheExpiry /\ poolCache # {}

(* scanAllPools up to its first await.                                      *)
BeginScan(s) ==
  /\ scan[s].step = "idle"
  /\ IF CacheServes
     THEN Served(s, poolCache)
     ELSE scan' = [scan EXCEPT ![s] = [NoScan EXCEPT !.step = "fetch", !.began = now]]
  /\ UNCHANGED <<now, poolCache, lastScanTime>>

(* The pools of one page of Horizon, or an error: then nothing is served.   *)
FetchPools(s) ==
  /\ scan[s].step = "fetch"
  /\ \/ \E records \in SUBSET Pools :
          scan' = [scan EXCEPT ![s].step = "parse", ![s].left = records]
     \/ Served(s, {})
  /\ UNCHANGED <<now, poolCache, lastScanTime>>

(* getVolatility: null without enough trades in both windows or on an error.*)
getVolatility == Risks \cup {-1}

(* The APY of a pool is drawn at random.                                    *)
estimatePoolAPY == Apys

(* parsePoolMetrics: null without two reserves or a volatility.             *)
parsePoolMetrics(p) ==
  {[pool |-> p, apy |-> apy, il |-> il, parsed |-> now] :
     apy \in estimatePoolAPY, il \in getVolatility}

(* One turn of the loop.                                                    *)
ParsePool(s) ==
  /\ scan[s].step = "parse"
  /\ \E p \in scan[s].left : \E m \in parsePoolMetrics(p) :
       /\ scan' = [scan EXCEPT ![s].left = @ \ {p},
                               ![s].metrics = IF m.il < 0 THEN @ ELSE @ \cup {m}]
       /\ poolCache' = IF m.il < 0 THEN poolCache
                       ELSE {c \in poolCache : c.pool # p} \cup {m}
  /\ UNCHANGED <<now, lastScanTime>>

(* The time is that of the beginning; the cache keeps pools of older scans. *)
ScanEnds(s) ==
  /\ scan[s].step = "parse" /\ scan[s].left = {}
  /\ lastScanTime' = scan[s].began
  /\ Served(s, scan[s].metrics)
  /\ UNCHANGED <<now, poolCache>>

-----------------------------------------------------------------------------
Larger(a, b) == IF a > b THEN a ELSE b

(* An opportunity in a pool, given what a round trip costs (-1: no estimate,*)
(* or one in the wrong units).                                              *)
Opportunity(m, amount, cost, minApyDelta) ==
  LET apy_delta == Larger(0, m.apy - VaultApy)
      gross     == (amount * apy_delta) \div Bp
      net       == gross - cost
  IN [pool_id |-> m.pool, il_risk |-> m.il, apy_delta |-> apy_delta, gross_profit |-> gross,
      round_trip_cost |-> cost, investment_amount |-> amount, net_profit |-> net,
      recommended |-> (net * Bp) \div amount >= minApyDelta * 2]

Worthwhile(m, amount, cost, minApyDelta, maxIlTolerance) ==
  LET o == Opportunity(m, amount, cost, minApyDelta) IN
  /\ o.apy_delta >= minApyDelta /\ m.il <= maxIlTolerance
  /\ cost >= 0 /\ o.net_profit > 0

(* Sorted: none comes before one it must follow, those that tie in any order.*)
Arranged(opportunities, MustFollow(_, _)) ==
  {q \in SetToSeqs(opportunities) : \A i, j \in DOMAIN q : i < j => ~MustFollow(q[i], q[j])}

LessProfit(a, b) == a.net_profit < b.net_profit

Found(s, opportunities) ==
  scan' = [scan EXCEPT ![s] = [NoScan EXCEPT !.step = "found", !.found = opportunities]]

(* By net profit, the largest first; options that are not valid find        *)
(* nothing. (maxIlTolerance is in hundreds of basis points.)                *)
findOpportunities(s) ==
  /\ scan[s].step = "find"
  /\ \/ \E cost \in [Pools -> Costs \cup {-1}], amount \in Amounts, min \in MinDeltas,
           maxIl \in Risks :
          LET good == {m \in scan[s].metrics : Worthwhile(m, amount, cost[m.pool], min, maxIl)}
          IN \E found \in Arranged({Opportunity(m, amount, cost[m.pool], min) : m \in good},
                                  LessProfit) :
               Found(s, found)
     \/ Found(s, <<>>)
  /\ UNCHANGED <<now, poolCache, lastScanTime>>

(* rankOpportunities: ten times the score.                                  *)
Score(o, riskTolerance) ==
  10 * ((o.net_profit * Bp) \div o.investment_amount) - o.il_risk * (11 - riskTolerance)

rankOpportunities(s) ==
  /\ scan[s].step = "found" /\ Len(scan[s].found) > 1
  /\ \E riskTolerance \in {1, 10} :
       LET LowerScore(a, b) == Score(a, riskTolerance) < Score(b, riskTolerance) IN
       \E ranked \in Arranged(ToSet(scan[s].found), LowerScore) :
         scan' = [scan EXCEPT ![s].found = ranked]
  /\ UNCHANGED <<now, poolCache, lastScanTime>>

(* The caller has used what was found.                                      *)
Done(s) ==
  /\ scan[s].step = "found"
  /\ scan' = [scan EXCEPT ![s] = NoScan]
  /\ UNCHANGED <<now, poolCache, lastScanTime>>

Tick ==
  /\ now < MaxTime
  /\ now' = now + 1
  /\ UNCHANGED <<poolCache, lastScanTime, scan>>

Next ==
  \/ \E s \in Scans :
       \/ BeginScan(s) \/ FetchPools(s) \/ ParsePool(s) \/ ScanEnds(s)
       \/ findOpportunities(s) \/ rankOpportunities(s) \/ Done(s)
  \/ Tick

Spec == Init /\ [][Next]_vars

-----------------------------------------------------------------------------
(* What an opportunity earns, three times.                                  *)

HasEstimate(o, amount) ==
  o.round_trip_cost >= 0 /\ o.investment_amount = amount /\ o.gross_profit >= 0 /\ o.il_risk >= 0

IlCost(o, amount) == (amount * o.il_risk) \div Bp

Unavailable == [netProfit |-> 0, costEstimateAvailable |-> FALSE]

simulateRebalance(o, amount) ==
  IF ~HasEstimate(o, amount) THEN Unavailable
  ELSE [netProfit |-> o.gross_profit - (o.round_trip_cost + IlCost(o, amount)),
        costEstimateAvailable |-> TRUE]

(* Mutant: the impermanent loss is left out.                                *)
calculateWithoutIl(o, amount) ==
  IF ~HasEstimate(o, amount) THEN Unavailable
  ELSE [netProfit |-> (amount * o.apy_delta) \div Bp - o.round_trip_cost,
        costEstimateAvailable |-> TRUE]

calculateProfitability(o, amount) ==
  IF ~HasEstimate(o, amount) THEN Unavailable
  ELSE [netProfit |-> (amount * o.apy_delta) \div Bp - o.round_trip_cost - IlCost(o, amount),
        costEstimateAvailable |-> TRUE]

(* Whether executeArbitrage goes on to its transaction.                     *)
executeArbitrage(o, amount) ==
  /\ o.recommended
  /\ HasEstimate(o, amount) /\ o.net_profit > 0
  /\ o.gross_profit - o.round_trip_cost - IlCost(o, amount) > 0

-----------------------------------------------------------------------------
(* Properties.                                                             *)

(* Whoever asks gets one answer: the profit the caller is shown is the one  *)
(* the simulation finds, and what is executed is what is recommended and    *)
(* simulated as profitable. The same profit is worked out in three places,  *)
(* once from the rate and twice from the amount found in the scan.          *)
EstimatesAgree ==
  \A s \in Scans : \A k \in DOMAIN scan[s].found : \A amount \in Amounts :
    LET o == scan[s].found[k] IN
    /\ simulateRebalance(o, amount) = calculateProfitability(o, amount)
    /\ executeArbitrage(o, amount) <=>
         o.recommended /\ simulateRebalance(o, amount).netProfit > 0
=============================================================================
