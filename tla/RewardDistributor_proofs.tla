----------------------- MODULE RewardDistributor_proofs -----------------------
(***************************************************************************)
(* Proofs about the reward distributor: no more is distributed than was     *)
(* emitted, and all tokens paid in are accounted for, for every number of   *)
(* users and streams and all rates, shares and fees.                        *)
(***************************************************************************)
EXTENDS RewardDistributor, Sums_proofs, SequenceTheorems, TLAPS

StreamType == [token : Tokens, rate : Nat, distributed : Int, last_update : Int,
               active : BOOLEAN, deadline : Int]

(* Types, as far as the ledgers depend on them.                             *)
StreamsTyped == streams \in Seq(StreamType) /\ Len(streams) <= StreamLimit

LedgersTyped ==
  /\ accumulated \in [StreamIndices -> Int]
  /\ emitted \in [StreamIndices -> Int]
  /\ pending \in [Users -> [StreamIndices -> Int]]
  /\ received \in [Users -> [Tokens -> Int]]
  /\ held \in [Tokens -> Int]
  /\ pool \in [Tokens -> Int]
  /\ treasury \in [Tokens -> Int]
  /\ now \in Int

(* What a stream has distributed and would distribute at the next update is *)
(* within what it has emitted.                                              *)
WithinEmission(s, sum) ==
  /\ s.last_update <= now
  /\ s.distributed + RewardDelta(s) <= sum

StreamsSound ==
  /\ \A i \in DOMAIN streams :
       /\ WithinEmission(streams[i], emitted[i])
       /\ accumulated[i] = streams[i].distributed * Unit
  /\ \A i \in StreamIndices \ DOMAIN streams : accumulated[i] = 0 /\ emitted[i] = 0

Inv == StreamsTyped /\ LedgersTyped /\ StreamsSound /\ FundingAccounted

-----------------------------------------------------------------------------
(* The sum of integers is one, and equal entries have equal sums.           *)
LEMMA SumToInt ==
  ASSUME NEW n \in Nat, NEW f \in [1..n -> Int]
  PROVE  SumTo(f, n) \in Int
BY SumToDef

(* The fee on a whole number is a whole number.                             *)
LEMMA TreasuryFeeInt ==
  ASSUME RewardsAssumption, NEW x \in Int
  PROVE  TreasuryFee(x) \in Int
<1>1. x * FeeBps \in Int
  BY DEF RewardsAssumption
<1> QED BY <1>1, Z3 DEF TreasuryFee

(* A user's pending rewards are whole numbers again.                        *)
LEMMA PerUnitInt ==
  ASSUME RewardsAssumption, NEW x \in Int
  PROVE  x \div Unit \in Int
<1>1. Unit \in Nat \ {0}
  BY DEF RewardsAssumption
<1> QED BY <1>1, Z3

(* What a claim takes, and the fee within it, are integers.                 *)
LEMMA DueInt ==
  ASSUME RewardsAssumption, LedgersTyped, NEW u \in Users, NEW t \in Tokens, NEW chosen
  PROVE  Due(u, t, chosen) \in Int /\ Fees(u, t, chosen) \in Int
<1> DEFINE due == [i \in StreamIndices |-> IF i \in chosen THEN PaidIn(t, i, pending[u][i]) ELSE 0]
           fee == [i \in StreamIndices |->
                     IF i \in chosen THEN PaidIn(t, i, TreasuryFee(pending[u][i])) ELSE 0]
<1>1. \A i \in StreamIndices : pending[u][i] \in Int
  BY DEF LedgersTyped
<1>2. \A i \in StreamIndices : TreasuryFee(pending[u][i]) \in Int
  BY <1>1, TreasuryFeeInt
<1>3. due \in [1..StreamLimit -> Int] /\ fee \in [1..StreamLimit -> Int]
  BY <1>1, <1>2 DEF PaidIn, StreamIndices
<1>4. SumTo(due, StreamLimit) \in Int /\ SumTo(fee, StreamLimit) \in Int
  <2> HIDE DEF due, fee
  <2> QED BY <1>3, SumToInt DEF RewardsAssumption
<1> QED BY <1>4 DEF Due, Fees

-----------------------------------------------------------------------------
(* The accrual of one stream keeps it within its emission.                  *)
LEMMA AccruedSound ==
  ASSUME NEW s \in StreamType, NEW sum \in Int, now \in Int, WithinEmission(s, sum)
  PROVE  /\ Accrued(s) \in StreamType
         /\ WithinEmission(Accrued(s), sum)
         /\ Accrued(s).distributed = s.distributed + RewardDelta(s)
         /\ RewardDelta(s) \in Int
<1>1. now - s.last_update \in Nat /\ s.rate \in Nat /\ s.distributed \in Int
  BY DEF StreamType, WithinEmission
<1>2. s.rate * (now - s.last_update) \in Nat
  BY <1>1, Z3
<1>3. RewardDelta(s) \in Int
  BY <1>1, <1>2 DEF RewardDelta, Elapsed
<1>4. CASE s.active /\ Elapsed(s) > 0
  <2> DEFINE a == [s EXCEPT !.distributed = @ + RewardDelta(s), !.last_update = now]
  <2>1. Accrued(s) = a
    BY <1>4 DEF Accrued
  <2>2. /\ a \in StreamType /\ a.last_update = now /\ a.rate = s.rate
        /\ a.distributed = s.distributed + RewardDelta(s)
    <3>1. s.distributed + RewardDelta(s) \in Int
      BY <1>1, <1>3
    <3> DEFINE d == s.distributed + RewardDelta(s)
    <3>2. d \in Int
      BY <3>1
    <3> HIDE DEF d
    <3>3. LET b == [s EXCEPT !.distributed = d, !.last_update = now]
          IN  /\ b \in StreamType /\ b.last_update = now /\ b.rate = s.rate
              /\ b.distributed = d
      BY <3>2 DEF StreamType
    <3> QED BY <3>3 DEF d
  <2>3. RewardDelta(a) = 0
    BY <1>1, <2>2 DEF RewardDelta, Elapsed
  <2> HIDE DEF a
  <2> QED BY <1>1, <1>3, <2>1, <2>2, <2>3 DEF WithinEmission
<1>5. CASE ~(s.active /\ Elapsed(s) > 0)
  <2>1. RewardDelta(s) = 0
    BY <1>1, <1>5 DEF RewardDelta, Elapsed
  <2>2. Accrued(s) = s
    BY <1>5 DEF Accrued
  <2> QED BY <1>1, <2>1, <2>2
<1> QED BY <1>3, <1>4, <1>5

(* Time passing emits what an update would then distribute.                 *)
LEMMA TickSound ==
  ASSUME NEW s \in StreamType, NEW sum \in Int, now \in Int, now' = now + 1,
         WithinEmission(s, sum)
  PROVE  /\ s.last_update <= now + 1
         /\ s.distributed + (IF s.active THEN s.rate * (now + 1 - s.last_update) ELSE 0)
              <= (IF s.active THEN sum + s.rate ELSE sum)
<1>1. s.rate \in Nat /\ s.distributed \in Int /\ s.last_update \in Int /\ s.last_update <= now
  BY DEF StreamType, WithinEmission
<1>2. s.rate * (now + 1 - s.last_update) = s.rate * (now - s.last_update) + s.rate
  BY <1>1, Z3
<1>3. s.rate * (now - s.last_update) \in Nat
  BY <1>1, Z3
<1>4. CASE s.active
  BY <1>1, <1>2, <1>3, <1>4 DEF WithinEmission, RewardDelta, Elapsed
<1>5. CASE ~s.active
  BY <1>1, <1>5 DEF WithinEmission, RewardDelta, Elapsed
<1> QED BY <1>4, <1>5

-----------------------------------------------------------------------------
(* What the invariant says is said of the streams and ledgers alone: a step *)
(* that leaves them and the clock keeps it.                                 *)
ledgerVars == <<streams, accumulated, pending, tokenVars, emitted, now>>

(* A step that leaves streams, ledgers and clock alone keeps the invariant. *)
LEMMA LedgersUnchanged ==
  ASSUME Inv, UNCHANGED ledgerVars
  PROVE  Inv'
<1>0. /\ streams' = streams /\ accumulated' = accumulated /\ pending' = pending
      /\ held' = held /\ pool' = pool /\ received' = received /\ treasury' = treasury
      /\ emitted' = emitted /\ now' = now
  BY DEF ledgerVars, tokenVars
<1>1. StreamsTyped' /\ LedgersTyped'
  BY <1>0 DEF Inv, StreamsTyped, LedgersTyped
<1>2. StreamsSound'
  BY <1>0 DEF Inv, StreamsSound, WithinEmission, RewardDelta, Elapsed
<1>3. FundingAccounted'
  BY <1>0 DEF Inv, FundingAccounted
<1> QED BY <1>1, <1>2, <1>3 DEF Inv

(* The streams of the sequence, one by one.                                 *)
LEMMA StreamsAre ==
  ASSUME RewardsAssumption, StreamsTyped
  PROVE  /\ Len(streams) \in Nat
         /\ DOMAIN streams = 1..Len(streams)
         /\ \A i \in DOMAIN streams : streams[i] \in StreamType /\ i \in StreamIndices
<1>1. streams \in Seq(StreamType) /\ Len(streams) <= StreamLimit
  BY DEF StreamsTyped
<1>2. Len(streams) \in Nat /\ DOMAIN streams = 1..Len(streams)
  BY <1>1, LenProperties
<1>3. \A i \in 1..Len(streams) : streams[i] \in StreamType
  BY <1>1, ElementOfSeq
<1> QED BY <1>1, <1>2, <1>3 DEF StreamIndices, RewardsAssumption

(* A stream may be replaced by one that has distributed as much and is      *)
(* within the same emission.                                                *)
LEMMA SetStreamHolds ==
  ASSUME RewardsAssumption, Inv, NEW i \in DOMAIN streams, NEW s \in StreamType, SetStream(i, s),
         s.distributed = streams[i].distributed, WithinEmission(s, emitted[i])
  PROVE  Inv'
<1>1. streams \in Seq(StreamType) /\ Len(streams) <= StreamLimit /\ i \in 1..Len(streams)
  BY StreamsAre DEF Inv, StreamsTyped
<1>2. /\ streams' = [streams EXCEPT ![i] = s]
      /\ UNCHANGED <<accumulated, pending, tokenVars, emitted, now>>
  BY DEF SetStream
<1>3. streams' \in Seq(StreamType) /\ Len(streams') = Len(streams)
  BY <1>1, <1>2, ExceptSeq
<1>4. DOMAIN streams' = DOMAIN streams /\ \A j \in DOMAIN streams : streams'[j] = IF j = i THEN s ELSE streams[j]
  BY <1>2
<1>5. StreamsTyped' /\ LedgersTyped'
  BY <1>1, <1>2, <1>3 DEF Inv, StreamsTyped, LedgersTyped, tokenVars
<1>6. StreamsSound'
  BY <1>2, <1>4 DEF Inv, StreamsSound, WithinEmission, RewardDelta, Elapsed
<1>7. FundingAccounted'
  BY <1>2 DEF Inv, FundingAccounted, tokenVars
<1> QED BY <1>5, <1>6, <1>7 DEF Inv

(* A stream whose clock is set to now has nothing to distribute, whatever   *)
(* its rate.                                                                *)
LEMMA RestartedWithin ==
  ASSUME NEW s \in StreamType, NEW r \in StreamType, NEW sum \in Int, now \in Int,
         WithinEmission(s, sum), r.distributed = s.distributed, r.last_update = now
  PROVE  WithinEmission(r, sum)
<1>1. s.rate \in Nat /\ s.distributed \in Int /\ now - s.last_update \in Nat
  BY DEF StreamType, WithinEmission
<1>2. s.rate * (now - s.last_update) \in Nat
  BY <1>1, Z3
<1>3. s.distributed <= sum
  BY <1>1, <1>2 DEF WithinEmission, RewardDelta, Elapsed
<1>4. r.rate \in Nat
  BY DEF StreamType
<1>5. RewardDelta(r) = 0
  BY <1>4 DEF RewardDelta, Elapsed
<1> QED BY <1>1, <1>3, <1>5 DEF WithinEmission

-----------------------------------------------------------------------------
(* The invariant holds of the empty distributor.                            *)
LEMMA InitHolds == ASSUME RewardsAssumption, Init PROVE Inv
<1> USE DEF Init
<1>1. StreamsTyped
  <2>1. streams \in Seq(StreamType) /\ Len(streams) = 0
    BY EmptySeq
  <2> QED BY <2>1 DEF StreamsTyped, RewardsAssumption
<1>2. LedgersTyped
  BY DEF LedgersTyped
<1>3. StreamsSound
  <2>1. DOMAIN streams = {}
    OBVIOUS
  <2> QED BY <2>1 DEF StreamsSound
<1>4. FundingAccounted
  <2> SUFFICES ASSUME NEW t \in Tokens
               PROVE  pool[t] = held[t] + SumTo([u \in Users |-> received[u][t]], NumUsers)
                                + treasury[t]
    BY DEF FundingAccounted
  <2> DEFINE paid == [u \in Users |-> received[u][t]]
  <2>1. paid \in [1..NumUsers -> Int] /\ \A u \in 1..NumUsers : paid[u] = 0
    BY DEF Users
  <2> HIDE DEF paid
  <2>2. SumTo(paid, NumUsers) = 0
    BY <2>1, SumToZero DEF RewardsAssumption
  <2> QED BY <2>2 DEF paid
<1> QED BY <1>1, <1>2, <1>3, <1>4 DEF Inv

(* A new stream has distributed and emitted nothing.                        *)
LEMMA AddRewardStreamHolds ==
  ASSUME RewardsAssumption, Inv, NEW t \in Tokens, NEW rate \in Rates, NEW d \in Deadlines,
         AddRewardStream(t, rate, d)
  PROVE  Inv'
<1> DEFINE new == [token |-> t, rate |-> rate, distributed |-> 0, last_update |-> now,
                   active |-> TRUE, deadline |-> d]
<1>1. /\ streams' = Append(streams, new) /\ Len(streams) < StreamLimit
      /\ UNCHANGED <<accumulated, pending, tokenVars, emitted, now>>
  BY DEF AddRewardStream
<1>2. /\ new \in StreamType /\ new.distributed = 0 /\ new.last_update = now
      /\ new.rate \in Nat /\ now \in Int
  BY DEF StreamType, RewardsAssumption, Inv, LedgersTyped
<1> HIDE DEF new
<1>3. streams \in Seq(StreamType) /\ Len(streams) \in Nat /\ DOMAIN streams = 1..Len(streams)
  BY StreamsAre DEF Inv, StreamsTyped
<1> DEFINE n == Len(streams) + 1
<1>4. /\ streams' \in Seq(StreamType) /\ Len(streams') = n
      /\ DOMAIN streams' = 1..n
      /\ streams'[n] = new /\ \A i \in DOMAIN streams : streams'[i] = streams[i]
  BY <1>1, <1>2, <1>3, AppendProperties
<1>5. n \in StreamIndices \ DOMAIN streams
  BY <1>1, <1>3 DEF StreamIndices, RewardsAssumption
<1>6. accumulated[n] = 0 /\ emitted[n] = 0
  BY <1>5 DEF Inv, StreamsSound
<1>7. StreamsTyped' /\ LedgersTyped'
  <2>1. n <= StreamLimit
    BY <1>1, <1>3 DEF RewardsAssumption
  <2> QED BY <1>1, <1>4, <2>1 DEF Inv, StreamsTyped, LedgersTyped, tokenVars
<1>8. StreamsSound'
  <2>1. RewardDelta(new) = 0
    BY <1>2 DEF RewardDelta, Elapsed
  <2>2. WithinEmission(new, emitted[n]) /\ accumulated[n] = new.distributed * Unit
    BY <1>2, <1>6, <2>1 DEF WithinEmission, RewardsAssumption
  <2>3. \A i \in DOMAIN streams' : i = n \/ i \in DOMAIN streams
    BY <1>3, <1>4
  <2> QED BY <1>1, <1>3, <1>4, <2>2, <2>3
          DEF Inv, StreamsSound, WithinEmission, RewardDelta, Elapsed
<1>9. FundingAccounted'
  BY <1>1 DEF Inv, FundingAccounted, tokenVars
<1> QED BY <1>7, <1>8, <1>9 DEF Inv

(* The three calls on a stream replace it by one as sound.                  *)
LEMMA StreamCallsHold ==
  ASSUME RewardsAssumption, Inv, NEW i \in DOMAIN streams,
         \/ \E d \in Deadlines : SetClaimDeadline(i, d)
         \/ \E rate \in Rates : UpdateRewardRate(i, rate)
         \/ DeactivateStream(i)
  PROVE  Inv'
<1>1. /\ streams[i] \in StreamType /\ now \in Int /\ emitted[i] \in Int
      /\ WithinEmission(streams[i], emitted[i])
  BY StreamsAre DEF Inv, LedgersTyped, StreamsSound
<1>2. ASSUME NEW d \in Deadlines, SetClaimDeadline(i, d) PROVE Inv'
  <2> DEFINE s == [streams[i] EXCEPT !.deadline = d]
  <2>1. /\ s \in StreamType /\ s.distributed = streams[i].distributed
        /\ s.last_update = streams[i].last_update /\ s.rate = streams[i].rate
        /\ s.active = streams[i].active
    BY <1>1 DEF StreamType, RewardsAssumption
  <2>2. SetStream(i, s)
    BY <1>2 DEF SetClaimDeadline
  <2> HIDE DEF s
  <2>3. WithinEmission(s, emitted[i])
    BY <1>1, <2>1 DEF WithinEmission, RewardDelta, Elapsed
  <2> QED BY <2>1, <2>2, <2>3, SetStreamHolds
<1>3. ASSUME NEW rate \in Rates, UpdateRewardRate(i, rate) PROVE Inv'
  <2> DEFINE s == AtNewRate(streams[i], rate)
  <2>1. /\ s \in StreamType /\ s.distributed = streams[i].distributed /\ s.last_update = now
    BY <1>1 DEF StreamType, RewardsAssumption, AtNewRate
  <2>2. SetStream(i, s)
    BY <1>3 DEF UpdateRewardRate
  <2> HIDE DEF s
  <2>3. WithinEmission(s, emitted[i])
    BY <1>1, <2>1, RestartedWithin
  <2> QED BY <2>1, <2>2, <2>3, SetStreamHolds
<1>4. CASE DeactivateStream(i)
  <2> DEFINE s == [streams[i] EXCEPT !.active = FALSE, !.last_update = now]
  <2>1. /\ s \in StreamType /\ s.distributed = streams[i].distributed /\ s.last_update = now
    BY <1>1 DEF StreamType
  <2>2. SetStream(i, s)
    BY <1>4 DEF DeactivateStream
  <2> HIDE DEF s
  <2>3. WithinEmission(s, emitted[i])
    BY <1>1, <2>1, RestartedWithin
  <2> QED BY <2>1, <2>2, <2>3, SetStreamHolds
<1> QED BY <1>2, <1>3, <1>4

(* An update moves what the streams emitted into accumulators and pending.  *)
LEMMA UpdateRewardsHolds ==
  ASSUME RewardsAssumption, Inv, NEW u \in Users, NEW n \in ShareCounts, UpdateRewards(u, n)
  PROVE  Inv'
<1> DEFINE acc == [i \in StreamIndices |->
                     IF i \in DOMAIN streams THEN AccumulatedNow(i) ELSE accumulated[i]]
           line == [i \in StreamIndices |->
                      IF i \in DOMAIN streams /\ streams[i].active
                      THEN (n * acc[i]) \div Unit - RewardDebt
                      ELSE pending[u][i]]
<1>1. /\ streams' = [i \in DOMAIN streams |-> Accrued(streams[i])]
      /\ accumulated' = acc
      /\ pending' = [pending EXCEPT ![u] = line]
      /\ UNCHANGED <<tokenVars, emitted, now>>
  BY DEF UpdateRewards
<1>2. /\ Len(streams) \in Nat /\ Len(streams) <= StreamLimit
      /\ DOMAIN streams = 1..Len(streams) /\ now \in Int /\ Unit \in Int
  BY StreamsAre DEF Inv, StreamsTyped, LedgersTyped, RewardsAssumption
<1>3. \A i \in DOMAIN streams :
        /\ streams[i] \in StreamType /\ i \in StreamIndices /\ emitted[i] \in Int
        /\ WithinEmission(streams[i], emitted[i])
        /\ accumulated[i] = streams[i].distributed * Unit
        /\ streams[i].distributed \in Int
  <2> TAKE i \in DOMAIN streams
  <2>1. streams[i] \in StreamType /\ i \in StreamIndices
    BY StreamsAre DEF Inv
  <2>2. streams[i].distributed \in Int
    BY <2>1 DEF StreamType
  <2> QED BY <2>1, <2>2 DEF Inv, LedgersTyped, StreamsSound
<1>4. \A i \in DOMAIN streams :
        /\ Accrued(streams[i]) \in StreamType
        /\ WithinEmission(Accrued(streams[i]), emitted[i])
        /\ Accrued(streams[i]).distributed = streams[i].distributed + RewardDelta(streams[i])
        /\ RewardDelta(streams[i]) \in Int
  BY <1>2, <1>3, AccruedSound
<1>5. /\ DOMAIN streams' = DOMAIN streams
      /\ \A i \in DOMAIN streams : streams'[i] = Accrued(streams[i])
      /\ streams' \in [1..Len(streams) -> StreamType]
  BY <1>1, <1>2, <1>4
<1>6. streams' \in Seq(StreamType) /\ Len(streams') = Len(streams)
  BY <1>2, <1>5
<1>7. \A i \in DOMAIN streams :
        AccumulatedNow(i) = Accrued(streams[i]).distributed * Unit /\ AccumulatedNow(i) \in Int
  <2> TAKE i \in DOMAIN streams
  <2> DEFINE d == RewardDelta(streams[i])
             s == streams[i].distributed
  <2>1. d \in Int /\ s \in Int /\ accumulated[i] = s * Unit
    BY <1>3, <1>4
  <2>2. Accrued(streams[i]).distributed = s + d
    BY <1>4
  <2>3. AccumulatedNow(i) = accumulated[i] + (d * Unit) \div 1
    BY DEF AccumulatedNow, VaultTotalShares
  <2> HIDE DEF d, s
  <2>4. d * Unit \in Int
    BY <1>2, <2>1
  <2>5. (d * Unit) \div 1 = d * Unit
    BY <2>4, Z3
  <2>6. s * Unit + d * Unit = (s + d) * Unit /\ (s + d) * Unit \in Int
    BY <1>2, <2>1, Z3
  <2> QED BY <2>1, <2>2, <2>3, <2>5, <2>6
<1>8. acc \in [StreamIndices -> Int]
  BY <1>7 DEF Inv, LedgersTyped
<1>9. line \in [StreamIndices -> Int]
  <2>1. \A i \in StreamIndices : n * acc[i] \in Int
    <3> HIDE DEF acc
    <3> QED BY <1>8 DEF RewardsAssumption
  <2>2. \A i \in StreamIndices : (n * acc[i]) \div Unit \in Int
    <3> HIDE DEF acc
    <3> QED BY <2>1, PerUnitInt
  <2>3. \A i \in StreamIndices : (n * acc[i]) \div Unit - RewardDebt \in Int
    <3> HIDE DEF acc
    <3> QED BY <2>2 DEF RewardDebt
  <2>4. \A i \in StreamIndices : pending[u][i] \in Int
    BY DEF Inv, LedgersTyped
  <2> HIDE DEF acc
  <2> QED BY <2>3, <2>4
<1>10. StreamsTyped' /\ LedgersTyped'
  <2> HIDE DEF acc, line
  <2> QED BY <1>1, <1>2, <1>6, <1>8, <1>9 DEF Inv, StreamsTyped, LedgersTyped, tokenVars
<1>11. StreamsSound'
  <2>1. \A i \in DOMAIN streams : accumulated'[i] = streams'[i].distributed * Unit
    BY <1>1, <1>3, <1>5, <1>7
  <2>2. \A i \in DOMAIN streams : WithinEmission(streams'[i], emitted[i])
    BY <1>4, <1>5
  <2>3. \A i \in StreamIndices \ DOMAIN streams : accumulated'[i] = 0 /\ emitted[i] = 0
    BY <1>1 DEF Inv, StreamsSound
  <2> QED BY <1>1, <1>5, <2>1, <2>2, <2>3 DEF StreamsSound, WithinEmission, RewardDelta, Elapsed
<1>12. FundingAccounted'
  BY <1>1 DEF Inv, FundingAccounted, tokenVars
<1> QED BY <1>10, <1>11, <1>12 DEF Inv

(* A claim divides what it takes between the user and the treasury.         *)
LEMMA ClaimRewardsHolds ==
  ASSUME RewardsAssumption, Inv, NEW u \in Users, NEW chosen, ClaimRewards(u, chosen)
  PROVE  Inv'
<1>1. /\ UNCHANGED <<streams, accumulated, pool, emitted, now>>
      /\ held' = [t \in Tokens |-> held[t] - Due(u, t, chosen)]
      /\ received' = [received EXCEPT ![u] =
           [t \in Tokens |-> received[u][t] + Net(u, t, chosen)]]
      /\ treasury' = [t \in Tokens |-> treasury[t] + Fees(u, t, chosen)]
      /\ pending' = [pending EXCEPT ![u] =
           [i \in StreamIndices |-> IF i \in chosen THEN 0 ELSE pending[u][i]]]
  BY DEF ClaimRewards, Pay
<1>2. \A t \in Tokens : /\ Due(u, t, chosen) \in Int /\ Fees(u, t, chosen) \in Int
                        /\ Net(u, t, chosen) = Due(u, t, chosen) - Fees(u, t, chosen)
  BY DueInt DEF Inv, Net
<1>3. StreamsTyped' /\ LedgersTyped'
  BY <1>1, <1>2 DEF Inv, StreamsTyped, LedgersTyped
<1>4. StreamsSound'
  BY <1>1 DEF Inv, StreamsSound, WithinEmission, RewardDelta, Elapsed
<1>5. ASSUME NEW t \in Tokens
      PROVE  pool'[t] = held'[t] + SumTo([v \in Users |-> received'[v][t]], NumUsers) + treasury'[t]
  <2> DEFINE paid == [v \in Users |-> received[v][t]]
             net == Net(u, t, chosen)
             after == [v \in Users |-> received'[v][t]]
  <2>1. net \in Int /\ paid \in [1..NumUsers -> Int] /\ u \in 1..NumUsers
    BY <1>2 DEF Inv, LedgersTyped, Users
  <2>2. after = [paid EXCEPT ![u] = paid[u] + net]
    BY <1>1 DEF Inv, LedgersTyped
  <2>3. pool[t] = held[t] + SumTo(paid, NumUsers) + treasury[t]
    BY DEF Inv, FundingAccounted
  <2>4. held[t] \in Int /\ treasury[t] \in Int /\ pool[t] \in Int
    BY DEF Inv, LedgersTyped
  <2>5. /\ held'[t] = held[t] - Due(u, t, chosen)
        /\ treasury'[t] = treasury[t] + Fees(u, t, chosen)
        /\ pool'[t] = pool[t]
    BY <1>1
  <2>6. /\ net = Due(u, t, chosen) - Fees(u, t, chosen)
        /\ Due(u, t, chosen) \in Int /\ Fees(u, t, chosen) \in Int
    BY <1>2
  <2> HIDE DEF paid, net, after
  <2>7. SumTo(after, NumUsers) = SumTo(paid, NumUsers) + net /\ SumTo(paid, NumUsers) \in Int
    <3>1. NumUsers \in Nat
      BY DEF RewardsAssumption
    <3>2. SumTo([paid EXCEPT ![u] = paid[u] + net], NumUsers) = SumTo(paid, NumUsers) + net
      BY <2>1, <3>1, SumToUpdate
    <3>3. SumTo(paid, NumUsers) \in Int
      BY <2>1, <3>1, SumToInt
    <3> QED BY <2>2, <3>2, <3>3
  <2>8. pool'[t] = held'[t] + SumTo(after, NumUsers) + treasury'[t]
    BY <2>3, <2>4, <2>5, <2>6, <2>7
  <2> QED BY <2>8 DEF after
<1>6. FundingAccounted'
  BY <1>5 DEF FundingAccounted
<1> QED BY <1>3, <1>4, <1>6 DEF Inv

(* Funding adds to the pool what it takes from the funder.                  *)
LEMMA FundRewardPoolHolds ==
  ASSUME RewardsAssumption, Inv, NEW t \in Tokens, NEW amount \in Funding,
         FundRewardPool(t, amount)
  PROVE  Inv'
<1>1. /\ UNCHANGED <<streams, accumulated, pending, received, treasury, emitted, now>>
      /\ held' = [held EXCEPT ![t] = held[t] + amount]
      /\ pool' = [pool EXCEPT ![t] = pool[t] + amount]
      /\ amount \in Int
  BY DEF FundRewardPool, RewardsAssumption
<1>2. StreamsTyped' /\ LedgersTyped'
  BY <1>1 DEF Inv, StreamsTyped, LedgersTyped
<1>3. StreamsSound'
  BY <1>1 DEF Inv, StreamsSound, WithinEmission, RewardDelta, Elapsed
<1>4. ASSUME NEW k \in Tokens
      PROVE  pool'[k] = held'[k] + SumTo([v \in Users |-> received'[v][k]], NumUsers) + treasury'[k]
  <2> DEFINE paid == [v \in Users |-> received[v][k]]
  <2>1. paid \in [1..NumUsers -> Int] /\ received' = received
    BY <1>1 DEF Inv, LedgersTyped, Users
  <2>2. pool[k] = held[k] + SumTo(paid, NumUsers) + treasury[k]
    BY DEF Inv, FundingAccounted
  <2>3. held[k] \in Int /\ treasury[k] \in Int /\ pool[k] \in Int
    BY DEF Inv, LedgersTyped
  <2>4. /\ held'[k] = IF k = t THEN held[k] + amount ELSE held[k]
        /\ pool'[k] = IF k = t THEN pool[k] + amount ELSE pool[k]
        /\ treasury'[k] = treasury[k]
    BY <1>1 DEF Inv, LedgersTyped
  <2> HIDE DEF paid
  <2>5. SumTo(paid, NumUsers) \in Int
    BY <2>1, SumToInt DEF RewardsAssumption
  <2>6. pool'[k] = held'[k] + SumTo(paid, NumUsers) + treasury'[k]
    BY <1>1, <2>2, <2>3, <2>4, <2>5
  <2> QED BY <2>1, <2>6 DEF paid
<1>5. FundingAccounted'
  BY <1>4 DEF FundingAccounted
<1> QED BY <1>2, <1>3, <1>5 DEF Inv

(* With the clock grows what running streams have emitted.                  *)
LEMMA TickHolds ==
  ASSUME RewardsAssumption, Inv, Tick
  PROVE  Inv'
<1> DEFINE sums == [i \in StreamIndices |->
                      IF i \in DOMAIN streams /\ streams[i].active
                      THEN emitted[i] + streams[i].rate ELSE emitted[i]]
<1>1. /\ UNCHANGED <<streams, accumulated, pending, tokenVars>>
      /\ now' = now + 1 /\ emitted' = sums
  BY DEF Tick
<1>2. \A i \in DOMAIN streams :
        /\ streams[i] \in StreamType /\ i \in StreamIndices /\ emitted[i] \in Int
        /\ WithinEmission(streams[i], emitted[i]) /\ streams[i].rate \in Int
  <2> TAKE i \in DOMAIN streams
  <2>1. streams[i] \in StreamType /\ i \in StreamIndices
    BY StreamsAre DEF Inv
  <2>2. streams[i].rate \in Int
    BY <2>1 DEF StreamType
  <2> QED BY <2>1, <2>2 DEF Inv, LedgersTyped, StreamsSound
<1>3. sums \in [StreamIndices -> Int]
  BY <1>2 DEF Inv, LedgersTyped
<1>4. StreamsTyped' /\ LedgersTyped'
  <2> HIDE DEF sums
  <2> QED BY <1>1, <1>3 DEF Inv, StreamsTyped, LedgersTyped, tokenVars
<1>5. \A i \in DOMAIN streams :
        /\ streams[i].last_update <= now + 1
        /\ streams[i].distributed +
             (IF streams[i].active THEN streams[i].rate * (now + 1 - streams[i].last_update) ELSE 0)
             <= sums[i]
  <2> TAKE i \in DOMAIN streams
  <2>1. now \in Int
    BY DEF Inv, LedgersTyped
  <2>2. sums[i] = IF streams[i].active THEN emitted[i] + streams[i].rate ELSE emitted[i]
    BY <1>2
  <2> HIDE DEF sums
  <2> QED BY <1>1, <1>2, <2>1, <2>2, TickSound
<1>6. StreamsSound'
  <2>1. \A i \in StreamIndices \ DOMAIN streams : accumulated[i] = 0 /\ sums[i] = 0
    BY DEF Inv, StreamsSound
  <2> HIDE DEF sums
  <2>2. streams' = streams /\ accumulated' = accumulated /\ emitted' = sums /\ now' = now + 1
    BY <1>1
  <2>3. ASSUME NEW i \in DOMAIN streams
        PROVE  /\ WithinEmission(streams[i], emitted[i])'
               /\ accumulated[i] = streams[i].distributed * Unit
    <3>1. accumulated[i] = streams[i].distributed * Unit
      BY DEF Inv, StreamsSound
    <3> DEFINE s == streams[i]
               delta == IF s.active THEN s.rate * (now + 1 - s.last_update) ELSE 0
    <3>2. s.last_update <= now + 1 /\ s.distributed + delta <= sums[i]
      BY <1>5
    <3>3. RewardDelta(streams[i])' = delta
      <4>1. streams'[i] = s
        BY <2>2
      <4>2. Elapsed(streams[i])' = now' - streams'[i].last_update
        BY DEF Elapsed
      <4>3. Elapsed(streams[i])' = now + 1 - s.last_update
        <5>1. now \in Int /\ s.last_update \in Int
          BY <1>2 DEF Inv, LedgersTyped, StreamType
        <5> QED BY <2>2, <4>1, <4>2, <5>1
      <4>4. RewardDelta(streams[i])' =
              IF s.active THEN s.rate * Elapsed(streams[i])' ELSE 0
        BY <4>1 DEF RewardDelta
      <4> QED BY <4>3, <4>4 DEF delta
    <3> HIDE DEF delta
    <3>4. WithinEmission(streams[i], emitted[i])'
      BY <2>2, <3>2, <3>3 DEF WithinEmission
    <3> QED BY <3>1, <3>4
  <2> QED BY <2>1, <2>2, <2>3 DEF StreamsSound
<1>7. FundingAccounted'
  BY <1>1 DEF Inv, FundingAccounted, tokenVars
<1> QED BY <1>4, <1>6, <1>7 DEF Inv

-----------------------------------------------------------------------------
(* Every call keeps the invariant.                                          *)
LEMMA StepHolds == ASSUME RewardsAssumption, Inv, [Next]_vars PROVE Inv'
<1>1. CASE Call
  <2>1. ASSUME NEW t \in Tokens, NEW rate \in Rates, NEW d \in Deadlines,
               AddRewardStream(t, rate, d)
        PROVE  Inv'
    BY <2>1, AddRewardStreamHolds
  <2>2. ASSUME NEW i \in DOMAIN streams,
               \/ \E d \in Deadlines : SetClaimDeadline(i, d)
               \/ \E rate \in Rates : UpdateRewardRate(i, rate)
               \/ DeactivateStream(i)
        PROVE  Inv'
    BY <2>2, StreamCallsHold
  <2>3. ASSUME NEW t \in Tokens, NEW amount \in Funding, FundRewardPool(t, amount) PROVE Inv'
    BY <2>3, FundRewardPoolHolds
  <2>4. ASSUME NEW u \in Users, NEW n \in ShareCounts, UpdateRewards(u, n) PROVE Inv'
    BY <2>4, UpdateRewardsHolds
  <2>5. ASSUME NEW u \in Users, NEW chosen, ClaimRewards(u, chosen) PROVE Inv'
    BY <2>5, ClaimRewardsHolds
  <2>6. ASSUME NEW u \in Users, NEW chosen, ExecuteAutoCompound(u, chosen) PROVE Inv'
    BY <2>5, <2>6 DEF ExecuteAutoCompound
  <2>7. ASSUME NEW u \in Users, NEW t \in Tokens, NEW p \in Percentages, NEW flag \in BOOLEAN,
               SetAutoCompoundConfig(u, t, p, flag)
        PROVE  Inv'
    BY <2>7, LedgersUnchanged DEF SetAutoCompoundConfig, ledgerVars
  <2>8. ASSUME AdminCall PROVE Inv'
    BY <2>1, <2>2, <2>3, <2>8 DEF AdminCall
  <2>9. ASSUME NEW u \in Users, UserCall(u) PROVE Inv'
    BY <2>4, <2>5, <2>6, <2>7, <2>9 DEF UserCall
  <2> QED BY <1>1, <2>8, <2>9 DEF Call
<1>2. CASE Stop
  BY <1>2, LedgersUnchanged DEF Stop, SetPaused, SetEmergencyMode, ledgerVars
<1>3. CASE Tick
  BY <1>3, TickHolds
<1>4. CASE UNCHANGED vars
  BY <1>4, LedgersUnchanged DEF vars, ledgerVars
<1> QED BY <1>1, <1>2, <1>3, <1>4 DEF Next

(* A sound stream has distributed no more than it has emitted.              *)
LEMMA SoundDistributes == ASSUME RewardsAssumption, Inv PROVE DistributedWasEmitted
<1> SUFFICES ASSUME NEW i \in DOMAIN streams
             PROVE  /\ streams[i].distributed <= emitted[i]
                    /\ accumulated[i] = streams[i].distributed * Unit
  BY DEF DistributedWasEmitted
<1>1. /\ streams[i] \in StreamType /\ i \in StreamIndices
      /\ WithinEmission(streams[i], emitted[i]) /\ emitted[i] \in Int /\ now \in Int
      /\ accumulated[i] = streams[i].distributed * Unit
  BY StreamsAre DEF Inv, StreamsSound, LedgersTyped
<1>2. /\ streams[i].rate \in Nat /\ streams[i].distributed \in Int
      /\ now - streams[i].last_update \in Nat
  BY <1>1 DEF StreamType, WithinEmission
<1>3. streams[i].rate * (now - streams[i].last_update) \in Nat
  BY <1>2, Z3
<1>4. RewardDelta(streams[i]) \in Nat
  BY <1>3 DEF RewardDelta, Elapsed
<1> QED BY <1>1, <1>2, <1>4 DEF WithinEmission

(* Whatever rates are set, streams ended and calls made, a stream           *)
(* distributes no more than it has emitted (reward_distributor.rs 320-436). *)
THEOREM NoTimeRewardedTwice == ASSUME RewardsAssumption PROVE Spec => []DistributedWasEmitted
<1>1. Init => Inv
  BY InitHolds
<1>2. Inv /\ [Next]_vars => Inv'
  BY StepHolds
<1>3. Inv => DistributedWasEmitted
  BY SoundDistributes
<1> QED BY <1>1, <1>2, <1>3, PTL DEF Spec

(* Every token paid in is held, with a user or with the treasury            *)
(* (reward_distributor.rs 440-548, 885-900).                                *)
THEOREM FundingIsAccounted == ASSUME RewardsAssumption PROVE Spec => []FundingAccounted
<1>1. Init => Inv
  BY InitHolds
<1>2. Inv /\ [Next]_vars => Inv'
  BY StepHolds
<1>3. Inv => FundingAccounted
  BY DEF Inv
<1> QED BY <1>1, <1>2, <1>3, PTL DEF Spec
=============================================================================
