--------------------------- MODULE Contracts_proofs ---------------------------
(***************************************************************************)
(* What holds of the contracts composed in MCContracts.tla, for any pools,  *)
(* amounts, settings and bounds.                                            *)
(***************************************************************************)
EXTENDS MCContracts, Sums_proofs, FiniteSetTheorems, SequenceTheorems, TLAPS

(* The operators the instances bring along are those of this module.        *)
LEMMA EngineSums == \A f, n : Engine!SumTo(f, n) = SumTo(f, n)
  BY DEF Engine!SumTo, SumTo

(* The same of cardinalities.                                               *)
LEMMA EngineCardinality == \A S : Engine!Cardinality(S) = Cardinality(S)
  BY DEF Engine!Cardinality, Cardinality

-----------------------------------------------------------------------------
(* The pacing of the rebalance engine.                                     *)
(*                                                                          *)
(* What left a pool since the pacing was set, within [from, below). All of  *)
(* it was charged to some window, and the windows of a pool begin at least  *)
(* a period apart, so that a period meets the current window and the one    *)
(* before it, and no other: each of them is within one budget.              *)

Left(p, from, below) ==
  [t \in 1..MaxTime |-> IF pacing_since < t /\ from <= t /\ t < below
                        THEN outflow[p][t] ELSE 0]

Total(p, from, below) == SumTo(Left(p, from, below), MaxTime)

EngineTyped ==
  /\ now \in 1..MaxTime
  /\ outflow \in [Pools -> [1..MaxTime -> Nat]]
  /\ pacing \in [max: Nat, seconds: Nat]
  /\ pacing_since \in Nat /\ pacing_since <= now
  /\ windows \in [Pools -> [active: BOOLEAN, started: Nat, moved: Nat]]
  /\ \A p \in Pools : windows[p].started <= now

NothingAhead == \A p \in Pools : \A t \in 1..MaxTime : t > now => outflow[p][t] = 0

(* A window w accounts for what left the pool p: nothing left after it, no  *)
(* more in it than was charged, and no more than a budget in it and in the  *)
(* period before it.                                                        *)
Accounts(w, p) ==
  /\ \A t \in 1..MaxTime : pacing_since < t /\ outflow[p][t] # 0 =>
       w.active /\ t < w.started + pacing.seconds
  /\ Total(p, w.started, MaxTime + 1) <= w.moved
  /\ Total(p, w.started, MaxTime + 1) <= pacing.max
  /\ Total(p, w.started - pacing.seconds + 1, w.started) <= pacing.max

EnginePaced ==
  /\ EngineTyped /\ NothingAhead
  /\ Engine!PacingOn => \A p \in Pools : Accounts(windows[p], p)

(* What left a pool is counted in integers.                                 *)
LEMMA LeftTyped ==
  ASSUME EngineTyped, NEW p \in Pools, NEW from \in Int, NEW below \in Int
  PROVE  /\ MaxTime \in Nat
         /\ Left(p, from, below) \in [1..MaxTime -> Int]
         /\ Total(p, from, below) \in Int
<1>1. MaxTime \in Nat /\ \A t \in 1..MaxTime : outflow[p][t] \in Int
  BY InstanceAssumption DEF Engine!EngineAssumption, EngineTyped
<1>2. Left(p, from, below) \in [1..MaxTime -> Int]
  BY <1>1 DEF Left
<1> QED
  BY <1>1, <1>2, SumToDef DEF Total

(* Where nothing left, the total is 0.                                      *)
LEMMA NothingLeft ==
  ASSUME EngineTyped, NEW p \in Pools, NEW from \in Int, NEW below \in Int,
         \A t \in 1..MaxTime : pacing_since < t /\ from <= t /\ t < below => outflow[p][t] = 0
  PROVE  Total(p, from, below) = 0
<1>1. \A t \in 1..MaxTime : Left(p, from, below)[t] = 0
  BY DEF Left
<1> QED
  BY <1>1, LeftTyped, SumToZero DEF Total

(* A new setting starts the account afresh.                                 *)
LEMMA SettingAccounts ==
  ASSUME EngineTyped', NothingAhead', pacing_since' = now', NEW p \in Pools
  PROVE  Accounts(windows[p], p)'
<1>1. PICK s \in Nat, m \in Nat, d \in Nat, x \in Nat :
         s = windows'[p].started /\ m = windows'[p].moved /\ d = pacing'.seconds
         /\ x = pacing'.max
  BY DEF EngineTyped
<1>2. now' \in Nat /\ MaxTime \in Nat
  BY InstanceAssumption DEF EngineTyped, Engine!EngineAssumption
<1>3. \A t \in 1..MaxTime : pacing_since' < t => outflow'[p][t] = 0
  BY <1>2 DEF NothingAhead
<1>4. \A from, below \in Int : Total(p, from, below)' = 0
  <2> SUFFICES ASSUME NEW from \in Int, NEW below \in Int
               PROVE  Total(p, from, below)' = 0
    OBVIOUS
  <2> DEFINE f == Left(p, from, below)'
  <2>1. \A t \in 1..MaxTime : f[t] = 0
    BY <1>3 DEF Left
  <2>2. f = [t \in 1..MaxTime |-> f[t]]
    BY DEF Left
  <2>3. Total(p, from, below)' = SumTo(f, MaxTime)
    BY DEF Total
  <2> HIDE DEF f
  <2>4. f \in [1..MaxTime -> Int]
    BY <2>1, <2>2
  <2> QED
    BY <1>2, <2>1, <2>3, <2>4, SumToZero
<1>5. /\ Total(p, windows[p].started, MaxTime + 1)' = 0
      /\ Total(p, windows[p].started - pacing.seconds + 1, windows[p].started)' = 0
  <2>1. s \in Int /\ MaxTime + 1 \in Int /\ s - d + 1 \in Int
    BY <1>1, <1>2
  <2>2. Total(p, s, MaxTime + 1)' = 0 /\ Total(p, s - d + 1, s)' = 0
    BY <1>4, <2>1
  <2>3. windows'[p].started = s /\ pacing'.seconds = d
    BY <1>1
  <2> QED
    BY <2>2, <2>3
<1>6. 0 <= windows'[p].moved /\ 0 <= pacing'.max
  BY <1>1
<1> QED
  BY <1>3, <1>5, <1>6 DEF Accounts

(* The window a move belongs to accounts for the moves before it, whether   *)
(* it is kept or opened by the move.                                        *)
LEMMA CurrentAccounts ==
  ASSUME EnginePaced, Engine!PacingOn, NEW p \in Pools
  PROVE  /\ Engine!CurrentWindow(p) \in [active: BOOLEAN, started: Nat, moved: Nat]
         /\ Engine!CurrentWindow(p).active
         /\ Engine!CurrentWindow(p).started <= now
         /\ now < Engine!CurrentWindow(p).started + pacing.seconds
         /\ Accounts(Engine!CurrentWindow(p), p)
<1> DEFINE w == windows[p]
           fresh == [active |-> TRUE, started |-> now, moved |-> 0]
<1>1. /\ EngineTyped /\ NothingAhead /\ Accounts(w, p)
      /\ now \in Nat /\ w \in [active: BOOLEAN, started: Nat, moved: Nat] /\ w.started <= now
      /\ w.started \in Nat
      /\ pacing.seconds \in Nat /\ pacing.seconds > 0 /\ pacing.max \in Nat /\ MaxTime \in Nat
  BY InstanceAssumption DEF EnginePaced, EngineTyped, Engine!EngineAssumption, Engine!PacingOn
<1>2. Engine!CurrentWindow(p) = IF w.active /\ now - w.started < pacing.seconds THEN w ELSE fresh
  BY DEF Engine!CurrentWindow
<1>3. CASE w.active /\ now - w.started < pacing.seconds
  BY <1>1, <1>2, <1>3
<1>4. CASE ~(w.active /\ now - w.started < pacing.seconds)
  <2>1. /\ fresh \in [active: BOOLEAN, started: Nat, moved: Nat]
        /\ fresh.active /\ fresh.started = now /\ fresh.moved = 0
    BY <1>1
  <2>2. \A t \in 1..MaxTime : pacing_since < t /\ outflow[p][t] # 0 =>
          w.active /\ t < w.started + pacing.seconds /\ t < now /\ t <= now
    <3>1. \A t \in 1..MaxTime : pacing_since < t /\ outflow[p][t] # 0 =>
            w.active /\ t < w.started + pacing.seconds
      BY <1>1 DEF Accounts
    <3>2. w.active => w.started + pacing.seconds <= now
      BY <1>1, <1>4
    <3> HIDE DEF w
    <3> QED
      BY <1>1, <3>1, <3>2
  <2>3. Total(p, now, MaxTime + 1) = 0
    <3>1. \A t \in 1..MaxTime : pacing_since < t /\ now <= t /\ t < MaxTime + 1
            => outflow[p][t] = 0
      BY <1>1, <2>2
    <3>2. now \in Int /\ MaxTime + 1 \in Int
      BY <1>1
    <3> QED
      BY <1>1, <3>1, <3>2, NothingLeft
  <2>4. Total(p, now - pacing.seconds + 1, now) <= pacing.max
    <3> DEFINE before == Left(p, now - pacing.seconds + 1, now)
               last   == Left(p, w.started, MaxTime + 1)
    <3>1. \A t \in 1..MaxTime : outflow[p][t] \in Nat
      BY <1>1 DEF EngineTyped
    <3>2. \A t \in 1..MaxTime : before[t] <= last[t]
      <4> SUFFICES ASSUME NEW t \in 1..MaxTime PROVE before[t] <= last[t]
        OBVIOUS
      <4>0. outflow[p][t] \in Nat /\ t \in Nat /\ t < MaxTime + 1
        BY <1>1, <3>1
      <4>1. before[t] = IF pacing_since < t /\ now - pacing.seconds + 1 <= t /\ t < now
                        THEN outflow[p][t] ELSE 0
        BY DEF Left
      <4>2. last[t] = IF pacing_since < t /\ w.started <= t /\ t < MaxTime + 1
                      THEN outflow[p][t] ELSE 0
        BY DEF Left
      <4> HIDE DEF before, last
      <4>3. ASSUME pacing_since < t, now - pacing.seconds + 1 <= t, outflow[p][t] # 0
            PROVE  w.started <= t
        <5>1. w.active
          BY <2>2, <4>3
        <5>2. ~(now - w.started < pacing.seconds)
          BY <1>4, <5>1
        <5> HIDE DEF w
        <5> QED
          BY <1>1, <4>0, <4>3, <5>2
      <4> HIDE DEF w
      <4>4. CASE outflow[p][t] = 0
        BY <4>1, <4>2, <4>4
      <4>5. CASE outflow[p][t] # 0
        BY <4>0, <4>1, <4>2, <4>3, <4>5
      <4> QED
        BY <4>4, <4>5
    <3>3. /\ before \in [1..MaxTime -> Int] /\ last \in [1..MaxTime -> Int]
          /\ SumTo(before, MaxTime) \in Int /\ SumTo(last, MaxTime) \in Int
      <4>1. now - pacing.seconds + 1 \in Int /\ now \in Int /\ w.started \in Int /\ MaxTime + 1 \in Int
        BY <1>1
      <4> QED
        BY <1>1, <4>1, LeftTyped DEF Total
    <3>4. SumTo(last, MaxTime) <= pacing.max
      BY <1>1 DEF Accounts, Total
    <3> HIDE DEF before, last
    <3>5. SumTo(before, MaxTime) <= SumTo(last, MaxTime)
      BY <1>1, <3>2, <3>3, SumToMonotone
    <3>6. SumTo(before, MaxTime) <= pacing.max
      BY <1>1, <3>3, <3>4, <3>5
    <3> QED
      BY <3>6 DEF Total, before
  <2>5. Accounts(fresh, p)
    <3>1. \A t \in 1..MaxTime : pacing_since < t /\ outflow[p][t] # 0 => t < now + pacing.seconds
      BY <1>1, <2>2
    <3> HIDE DEF fresh
    <3> QED
      BY <1>1, <2>1, <2>3, <2>4, <3>1 DEF Accounts
  <2>6. now < now + pacing.seconds
    BY <1>1
  <2> HIDE DEF fresh
  <2> QED
    BY <1>1, <1>2, <1>4, <2>1, <2>5, <2>6
<1> QED
  BY <1>3, <1>4


(* SumToUpdate for what left at every time.                                 *)
LEMMA TimeSumUpdate ==
  ASSUME NEW f \in [1..MaxTime -> Int], NEW t \in 1..MaxTime, NEW d \in Int
  PROVE  SumTo([f EXCEPT ![t] = f[t] + d], MaxTime) = SumTo(f, MaxTime) + d
<1>1. MaxTime \in Nat
  BY InstanceAssumption DEF Engine!EngineAssumption
<1> QED
  BY <1>1, SumToUpdate

(* A move now adds to the window that has begun, and to none before it.     *)
LEMMA MoveTotals ==
  ASSUME EngineTyped, EngineTyped', NEW p \in Pools, NEW left \in Nat,
         UNCHANGED <<now, pacing_since>>,
         outflow' = [outflow EXCEPT ![p][now] = outflow[p][now] + left],
         NEW s \in Nat, s <= now
  PROVE  /\ Total(p, s, MaxTime + 1)' \in Int
         /\ Total(p, s, MaxTime + 1)' <= Total(p, s, MaxTime + 1) + left
         /\ \A x \in Int : Total(p, x, s)' = Total(p, x, s)
<1>1. /\ now \in 1..MaxTime /\ MaxTime \in Nat /\ MaxTime + 1 \in Int /\ pacing_since \in Nat
      /\ \A t \in 1..MaxTime : outflow[p][t] \in Nat
  BY SMTT(40), InstanceAssumption DEF EngineTyped, Engine!EngineAssumption
<1>2. \A t \in 1..MaxTime : outflow'[p][t] = IF t = now THEN outflow[p][now] + left
                                             ELSE outflow[p][t]
  BY <1>1 DEF EngineTyped
<1>3. /\ Total(p, s, MaxTime + 1)' \in Int
      /\ Total(p, s, MaxTime + 1)' <= Total(p, s, MaxTime + 1) + left
  <2> DEFINE before == Left(p, s, MaxTime + 1)
             after  == Left(p, s, MaxTime + 1)'
             d == IF pacing_since < now THEN left ELSE 0
  <2>1. before \in [1..MaxTime -> Int] /\ SumTo(before, MaxTime) \in Int
    BY <1>1, LeftTyped DEF Total
  <2>2. d \in Int /\ d <= left
    OBVIOUS
  <2>3. \A t \in 1..MaxTime : after[t] = IF t = now THEN before[now] + d ELSE before[t]
    <3> SUFFICES ASSUME NEW t \in 1..MaxTime
                 PROVE  after[t] = IF t = now THEN before[now] + d ELSE before[t]
      OBVIOUS
    <3>1. CASE t = now
      <4>1. s <= now /\ now < MaxTime + 1
        BY <1>1
      <4>2. /\ after[now] = IF pacing_since < now THEN outflow[p][now] + left ELSE 0
            /\ before[now] = IF pacing_since < now THEN outflow[p][now] ELSE 0
        BY <1>1, <1>2, <4>1 DEF Left
      <4> QED
        BY <1>1, <3>1, <4>2
    <3>2. CASE t # now
      BY <1>2, <3>2 DEF Left
    <3> QED
      BY <3>1, <3>2
  <2>4. /\ after = [t \in 1..MaxTime |-> after[t]]
        /\ before = [t \in 1..MaxTime |-> before[t]]
    BY DEF Left
  <2>5. /\ Total(p, s, MaxTime + 1) = SumTo(before, MaxTime)
        /\ Total(p, s, MaxTime + 1)' = SumTo(after, MaxTime)
    BY DEF Total
  <2> HIDE DEF before, after, d
  <2>6. after = [before EXCEPT ![now] = before[now] + d]
    BY <2>3, <2>4
  <2>7. SumTo([before EXCEPT ![now] = before[now] + d], MaxTime) = SumTo(before, MaxTime) + d
    BY <1>1, <2>1, <2>2, TimeSumUpdate
  <2> QED
    BY <2>1, <2>2, <2>5, <2>6, <2>7
<1>4. ASSUME NEW x \in Int PROVE Total(p, x, s)' = Total(p, x, s)
  <2>1. \A t \in 1..MaxTime : t < s => outflow'[p][t] = outflow[p][t]
    BY <1>1, <1>2
  <2>2. Left(p, x, s)' = Left(p, x, s)
    BY <2>1 DEF Left
  <2> QED
    BY <2>2 DEF Total
<1> QED
  BY <1>3, <1>4

(* A move that the pacing allows is charged to its window, which accounts   *)
(* for it as well.                                                          *)
LEMMA MoveAccounts ==
  ASSUME EnginePaced, Engine!PacingOn, NEW p \in Pools, NEW amount \in Nat, NEW left \in Nat,
         left <= amount, Engine!PacingAllows(p, amount),
         EngineTyped', UNCHANGED <<now, pacing, pacing_since>>,
         outflow' = [outflow EXCEPT ![p][now] = outflow[p][now] + left],
         windows' = [windows EXCEPT ![p] =
                       [Engine!CurrentWindow(p) EXCEPT !.moved = @ + amount]]
  PROVE  Accounts(windows[p], p)'
<1> DEFINE c == Engine!CurrentWindow(p)
<1>1. /\ EngineTyped /\ now \in 1..MaxTime
      /\ c \in [active: BOOLEAN, started: Nat, moved: Nat] /\ c.active /\ c.started <= now
      /\ now < c.started + pacing.seconds /\ Accounts(c, p)
      /\ pacing.seconds \in Nat /\ pacing.max \in Nat /\ MaxTime \in Nat
      /\ pacing_since \in Nat
  BY InstanceAssumption, CurrentAccounts DEF EnginePaced, EngineTyped, Engine!EngineAssumption
<1>2. c.moved + amount <= pacing.max
  BY DEF Engine!PacingAllows
<1>3. windows'[p] = [c EXCEPT !.moved = @ + amount]
  BY <1>1 DEF EngineTyped
<1> HIDE DEF c
<1>4. PICK s \in Nat, m \in Nat : s = c.started /\ m = c.moved
  BY <1>1
<1>5. windows'[p].active /\ windows'[p].started = s /\ windows'[p].moved = m + amount
  BY <1>1, <1>3, <1>4
<1>6. \A t \in 1..MaxTime : outflow'[p][t] = IF t = now THEN outflow[p][now] + left
                                             ELSE outflow[p][t]
  BY <1>1 DEF EngineTyped
<1>7. /\ s <= now /\ now < s + pacing.seconds /\ m + amount <= pacing.max
      /\ \A t \in 1..MaxTime : pacing_since < t /\ outflow[p][t] # 0 => t < s + pacing.seconds
      /\ Total(p, s, MaxTime + 1) <= m
      /\ Total(p, s - pacing.seconds + 1, s) <= pacing.max
  BY <1>1, <1>2, <1>4 DEF Accounts
<1>8. \A t \in 1..MaxTime : pacing_since < t /\ outflow'[p][t] # 0 => t < s + pacing.seconds
  BY <1>1, <1>6, <1>7
<1>9. /\ Total(p, s, MaxTime + 1)' <= Total(p, s, MaxTime + 1) + left
      /\ Total(p, s - pacing.seconds + 1, s)' <= pacing.max
  <2>1. s - pacing.seconds + 1 \in Int
    BY <1>1
  <2>2. \A x \in Int : Total(p, x, s)' = Total(p, x, s)
    BY <1>1, <1>7, MoveTotals
  <2>3. \A x \in Int : x = s - pacing.seconds + 1 => Total(p, x, s)' <= pacing.max
    BY <1>7, <2>2
  <2>4. Total(p, s, MaxTime + 1)' <= Total(p, s, MaxTime + 1) + left
    BY <1>1, <1>7, MoveTotals
  <2> QED
    BY <2>1, <2>3, <2>4
<1>10. /\ Total(p, s, MaxTime + 1)' <= m + amount
       /\ Total(p, s, MaxTime + 1)' <= pacing.max
  <2>1. MaxTime + 1 \in Int /\ s \in Int
    BY <1>1
  <2>2. Total(p, s, MaxTime + 1) \in Int /\ Total(p, s, MaxTime + 1)' \in Int
    <3>1. \A x, y \in Int : Total(p, x, y) \in Int
      BY <1>1, LeftTyped
    <3>2. Total(p, s, MaxTime + 1)' \in Int
      BY <1>1, <1>7, MoveTotals
    <3> QED
      BY <2>1, <3>1, <3>2
  <2> QED
    BY <1>1, <1>4, <1>7, <1>9, <2>2
<1>11. Accounts(windows[p], p)' <=>
         /\ \A t \in 1..MaxTime : pacing_since' < t /\ outflow'[p][t] # 0 =>
              windows'[p].active /\ t < windows'[p].started + pacing'.seconds
         /\ Total(p, windows[p].started, MaxTime + 1)' <= windows'[p].moved
         /\ Total(p, windows[p].started, MaxTime + 1)' <= pacing'.max
         /\ Total(p, windows[p].started - pacing.seconds + 1, windows[p].started)' <= pacing'.max
  BY DEF Accounts
<1>12. /\ Total(p, windows[p].started, MaxTime + 1)' = Total(p, s, MaxTime + 1)'
       /\ Total(p, windows[p].started - pacing.seconds + 1, windows[p].started)'
            = Total(p, s - pacing.seconds + 1, s)'
  BY <1>5
<1> QED
  BY <1>5, <1>8, <1>9, <1>10, <1>11, <1>12

(* No step of the engine forgets what left a pool, or charges it elsewhere. *)
LEMMA MovePaced ==
  ASSUME EnginePaced, NEW p \in Pools, NEW q \in Pools, NEW a, NEW b,
         NEW amount \in Nat, NEW left \in Nat, left <= amount,
         Engine!PacingAllows(p, amount), Engine!RecordPacing(p, amount),
         Engine!Transfers(p, q, a, b, left), UNCHANGED <<now, pacing, pacing_since>>
  PROVE  EnginePaced'
<1>1. /\ EngineTyped /\ NothingAhead /\ now \in 1..MaxTime
      /\ outflow \in [Pools -> [1..MaxTime -> Nat]]
      /\ windows \in [Pools -> [active: BOOLEAN, started: Nat, moved: Nat]]
      /\ \A o \in Pools : windows[o].started <= now
  BY DEF EnginePaced, EngineTyped
<1>2. outflow' = [outflow EXCEPT ![p][now] = outflow[p][now] + left]
  BY DEF Engine!Transfers
<1>3. Engine!PacingOn => windows' = [windows EXCEPT ![p] =
                                       [Engine!CurrentWindow(p) EXCEPT !.moved = @ + amount]]
  BY DEF Engine!RecordPacing
<1>4. ~Engine!PacingOn => windows' = windows
  BY DEF Engine!RecordPacing
<1>5. outflow' \in [Pools -> [1..MaxTime -> Nat]]
  <2>1. outflow[p] \in [1..MaxTime -> Nat]
    BY <1>1
  <2>a. outflow[p][now] \in Nat
    BY <1>1, <2>1
  <2>b. outflow[p][now] + left \in Nat
    BY <2>a
  <2>2. [outflow[p] EXCEPT ![now] = outflow[p][now] + left] \in [1..MaxTime -> Nat]
    BY <1>1, <2>1, <2>b
  <2> QED
    BY <1>1, <1>2, <2>2
<1>6. /\ windows' \in [Pools -> [active: BOOLEAN, started: Nat, moved: Nat]]
      /\ \A o \in Pools : windows'[o].started <= now
  <2>1. CASE ~Engine!PacingOn
    BY <1>1, <1>4, <2>1
  <2>2. CASE Engine!PacingOn
    <3> DEFINE c == Engine!CurrentWindow(p)
               w == [c EXCEPT !.moved = @ + amount]
    <3>1. c \in [active: BOOLEAN, started: Nat, moved: Nat] /\ c.started <= now
      BY <2>2, CurrentAccounts
    <3>2. windows' = [windows EXCEPT ![p] = w]
      BY <1>3, <2>2
    <3> HIDE DEF c
    <3>3. w \in [active: BOOLEAN, started: Nat, moved: Nat] /\ w.started <= now
      BY <3>1
    <3> HIDE DEF w
    <3> QED
      BY <1>1, <3>2, <3>3
  <2> QED
    BY <2>1, <2>2
<1>7. EngineTyped'
  BY <1>1, <1>5, <1>6 DEF EngineTyped
<1>8. NothingAhead'
  <2>1. \A o \in Pools : \A t \in 1..MaxTime : t # now => outflow'[o][t] = outflow[o][t]
    BY <1>1, <1>2
  <2>2. \A t \in 1..MaxTime : t > now => t # now
    BY <1>1
  <2>3. now' = now
    OBVIOUS
  <2> QED
    BY <1>1, <2>1, <2>2, <2>3 DEF NothingAhead
<1>9. ASSUME Engine!PacingOn', NEW o \in Pools PROVE Accounts(windows[o], o)'
  <2>1. Engine!PacingOn
    BY <1>9 DEF Engine!PacingOn
  <2>2. CASE o = p
    BY <1>2, <1>3, <1>7, <2>1, <2>2, MoveAccounts
  <2>3. CASE o # p
    <3>1. windows'[o] = windows[o] /\ outflow'[o] = outflow[o]
      BY <1>1, <1>2, <1>3, <2>1, <2>3
    <3>2. Accounts(windows[o], o)
      BY <2>1 DEF EnginePaced
    <3> QED
      BY <3>1, <3>2 DEF Accounts, Total, Left
  <2> QED
    BY <2>2, <2>3
<1> QED
  BY <1>7, <1>8, <1>9 DEF EnginePaced

(* At first the pacing is off.                                              *)
LEMMA EnginePacedInit == Engine!Init => EnginePaced
<1> SUFFICES ASSUME Engine!Init PROVE EnginePaced
  OBVIOUS
<1>1. /\ now = 1 /\ MaxTime \in Nat \ {0} /\ pacing = [max |-> 0, seconds |-> 0]
      /\ windows = [p \in Pools |-> [active |-> FALSE, started |-> 0, moved |-> 0]]
      /\ outflow = [p \in Pools |-> [t \in 1..MaxTime |-> 0]] /\ pacing_since = 1
  BY InstanceAssumption DEF Engine!Init, Engine!EngineAssumption, Engine!NoWindow
<1>2. EngineTyped /\ NothingAhead
  BY <1>1 DEF EngineTyped, NothingAhead
<1>3. ~Engine!PacingOn
  BY <1>1 DEF Engine!PacingOn
<1> QED
  BY <1>2, <1>3 DEF EnginePaced

(* A step that moves nothing and leaves the pacing alone.                   *)
LEMMA EngineFrame ==
  ASSUME EnginePaced, UNCHANGED <<outflow, windows, pacing, pacing_since>>,
         now' \in {now, now + 1}, now' \in 1..MaxTime
  PROVE  EnginePaced'
<1>1. /\ EngineTyped /\ NothingAhead /\ now \in Nat /\ now' \in Nat /\ now <= now'
      /\ \A p \in Pools : windows[p].started \in Nat
      /\ pacing_since \in Nat
  BY DEF EnginePaced, EngineTyped
<1>2. EngineTyped' /\ NothingAhead'
  BY <1>1 DEF EngineTyped, NothingAhead
<1>3. Engine!PacingOn' => \A p \in Pools : Accounts(windows[p], p)'
  BY DEF EnginePaced, Engine!PacingOn, Accounts, Total, Left
<1> QED
  BY <1>2, <1>3 DEF EnginePaced

(* Every step of the engine keeps the accounts.                             *)
LEMMA EnginePacedNext ==
  ASSUME EnginePaced, Engine!Next
  PROVE  EnginePaced'
<1>0. now \in 1..MaxTime /\ MaxTime \in Nat /\ Amounts \subseteq Nat
  BY InstanceAssumption DEF EnginePaced, EngineTyped, Engine!EngineAssumption
<1>f. ASSUME UNCHANGED <<outflow, windows, pacing, pacing_since, now>> PROVE EnginePaced'
  BY <1>0, <1>f, EngineFrame
<1>1. CASE Engine!Setting
  <2>1. ASSUME NEW s \in PacingSettings, Engine!SetRebalancePacing(s) PROVE EnginePaced'
    <3>1. /\ s \in [max: Nat, seconds: Nat] /\ pacing' = s /\ pacing_since' = now
          /\ UNCHANGED <<outflow, windows, now>>
      BY <2>1, InstanceAssumption DEF Engine!EngineAssumption, Engine!SetRebalancePacing,
                                      Engine!tokenVars
    <3>2. EngineTyped' /\ NothingAhead'
      BY <1>0, <3>1 DEF EnginePaced, EngineTyped, NothingAhead
    <3>3. \A p \in Pools : Accounts(windows[p], p)'
      BY <3>1, <3>2, SettingAccounts
    <3> QED
      BY <3>2, <3>3 DEF EnginePaced
  <2>2. ASSUME NEW period, Engine!SetRebalanceThresholds(period) PROVE EnginePaced'
    BY <1>f, <2>2 DEF Engine!SetRebalanceThresholds, Engine!tokenVars, Engine!pacingVars
  <2>3. ASSUME NEW t, Engine!SetFeedFailureThreshold(t) PROVE EnginePaced'
    BY <1>f, <2>3 DEF Engine!SetFeedFailureThreshold, Engine!tokenVars, Engine!pacingVars
  <2>4. ASSUME NEW b, NEW t, Engine!SetBreakerThreshold(b, t) PROVE EnginePaced'
    BY <1>f, <2>4 DEF Engine!SetBreakerThreshold, Engine!tokenVars, Engine!pacingVars
  <2>5. ASSUME NEW new, Engine!SetStrategies(new) PROVE EnginePaced'
    BY <1>f, <2>5 DEF Engine!SetStrategies, Engine!tokenVars, Engine!pacingVars
  <2> QED
    BY <1>1, <2>1, <2>2, <2>3, <2>4, <2>5
    DEF Engine!Setting, Engine!CreateStrategy, Engine!UpdateStrategy
<1>2. CASE Engine!Rebalance
  <2>1. ASSUME NEW p \in Pools, NEW q \in Pools, NEW a \in Amounts, NEW b \in Amounts,
               Engine!ExecuteRebalance(p, q, a, b)
        PROVE  EnginePaced'
    <3>1. CASE a > 0
      <4>1. /\ Engine!PacingAllows(p, a + b) /\ Engine!RecordPacing(p, a + b)
            /\ Engine!Transfers(p, q, a, b, a) /\ UNCHANGED <<now, pacing, pacing_since>>
        BY <2>1, <3>1 DEF Engine!ExecuteRebalance, Engine!pacingVars
      <4>2. a \in Nat /\ a + b \in Nat /\ a <= a + b
        BY <1>0
      <4> QED
        BY <4>1, <4>2, MovePaced
    <3>2. CASE ~(a > 0)
      <4>1. UNCHANGED <<outflow, windows, pacing, pacing_since, now>>
        BY <2>1, <3>2 DEF Engine!ExecuteRebalance, Engine!tokenVars, Engine!pacingVars
      <4> QED
        BY <1>f, <4>1
    <3> QED
      BY <3>1, <3>2
  <2>2. ASSUME NEW v \in Vaults, NEW q \in Pools, NEW amount \in Amounts,
               Engine!ExecuteFlashRebalance(v, q, amount)
        PROVE  EnginePaced'
    <3>1. PoolOf[v] \in Pools
      BY InstanceAssumption DEF Engine!EngineAssumption
    <3>2. /\ Engine!PacingAllows(PoolOf[v], 2 * amount) /\ Engine!RecordPacing(PoolOf[v], 2 * amount)
          /\ Engine!Transfers(PoolOf[v], q, amount, amount, 2 * amount)
          /\ UNCHANGED <<now, pacing, pacing_since>>
      BY <2>2 DEF Engine!ExecuteFlashRebalance, Engine!pacingVars
    <3>3. 2 * amount \in Nat /\ 2 * amount <= 2 * amount
      BY <1>0
    <3> QED
      BY <3>1, <3>2, <3>3, MovePaced
  <2> QED
    BY <1>2, <2>1, <2>2 DEF Engine!Rebalance
<1>3. CASE Engine!Feed
  BY <1>f, <1>3 DEF Engine!Feed, Engine!RecordFeedValidationFailure,
                    Engine!RecordFeedValidationSuccess, Engine!tokenVars, Engine!pacingVars
<1>4. CASE Engine!Stop
  <2>1. ASSUME NEW flag, Engine!SetPaused(flag) PROVE EnginePaced'
    BY <1>f, <2>1 DEF Engine!SetPaused, Engine!tokenVars, Engine!pacingVars
  <2> QED
    BY <1>4, <2>1 DEF Engine!Stop, Engine!CheckEmergencyStop, Engine!CheckBreaker
<1>5. CASE Engine!Tick
  <2>1. /\ UNCHANGED <<outflow, windows, pacing, pacing_since>>
        /\ now' = now + 1 /\ now' \in 1..MaxTime
    BY <1>0, <1>5 DEF Engine!Tick, Engine!tokenVars, Engine!pacingVars
  <2> QED
    BY <2>1, EngineFrame
<1> QED
  BY <1>1, <1>2, <1>3, <1>4, <1>5 DEF Engine!Next, Engine!Call

(* A period meets two windows at most, and each of them is within a budget. *)
LEMMA PacedOutflow == EnginePaced => Engine!PoolOutflowPaced
<1> SUFFICES ASSUME EnginePaced, Engine!PacingOn, pacing_since <= now - pacing.seconds,
                    NEW p \in Pools
             PROVE  SumTo([t \in 1..MaxTime |-> IF t \in now - pacing.seconds + 1 .. now
                                               THEN outflow[p][t] ELSE 0], MaxTime)
                      <= 2 * pacing.max
  BY EngineSums DEF Engine!PoolOutflowPaced
<1> DEFINE recent == [t \in 1..MaxTime |-> IF t \in now - pacing.seconds + 1 .. now
                                          THEN outflow[p][t] ELSE 0]
           s == windows[p].started
           current == Left(p, s, MaxTime + 1)
           before  == Left(p, s - pacing.seconds + 1, s)
<1>1. /\ EngineTyped /\ now \in Nat /\ s \in Nat /\ s <= now /\ MaxTime \in Nat
      /\ pacing.seconds \in Nat /\ pacing.max \in Nat /\ pacing_since \in Nat
      /\ \A t \in 1..MaxTime : outflow[p][t] \in Nat
      /\ Accounts(windows[p], p)
  BY SMTT(40), InstanceAssumption DEF EnginePaced, EngineTyped, Engine!EngineAssumption
<1>2. /\ SumTo(current, MaxTime) <= pacing.max /\ SumTo(before, MaxTime) <= pacing.max
  BY <1>1 DEF Accounts, Total
<1>3. /\ current \in [1..MaxTime -> Int] /\ before \in [1..MaxTime -> Int]
      /\ SumTo(current, MaxTime) \in Int /\ SumTo(before, MaxTime) \in Int
  <2>1. \A x, y \in Int : Left(p, x, y) \in [1..MaxTime -> Int] /\ Total(p, x, y) \in Int
    BY <1>1, LeftTyped
  <2>2. s \in Int /\ MaxTime + 1 \in Int /\ s - pacing.seconds + 1 \in Int
    BY <1>1
  <2> HIDE DEF s
  <2> QED
    BY <2>1, <2>2 DEF Total
<1>4. recent \in [1..MaxTime -> Int]
  BY <1>1
<1> HIDE DEF s
<1>5. \A t \in 1..MaxTime : recent[t] <= current[t] + before[t]
  <2> SUFFICES ASSUME NEW t \in 1..MaxTime PROVE recent[t] <= current[t] + before[t]
    OBVIOUS
  <2>1. /\ recent[t] = IF t \in now - pacing.seconds + 1 .. now THEN outflow[p][t] ELSE 0
        /\ current[t] = IF pacing_since < t /\ s <= t /\ t < MaxTime + 1
                        THEN outflow[p][t] ELSE 0
        /\ before[t] = IF pacing_since < t /\ s - pacing.seconds + 1 <= t /\ t < s
                       THEN outflow[p][t] ELSE 0
    BY DEF Left
  <2>2. outflow[p][t] \in Nat /\ t \in Nat /\ t < MaxTime + 1
    BY <1>1
  <2> HIDE DEF recent, current, before
  <2>3. CASE t \in now - pacing.seconds + 1 .. now
    <3>1. pacing_since < t /\ now - pacing.seconds + 1 <= t
      BY <1>1, <2>2, <2>3
    <3>2. s <= t \/ (t < s /\ s - pacing.seconds + 1 <= t)
      BY <1>1, <2>2, <3>1
    <3> QED
      BY <2>1, <2>2, <2>3, <3>1, <3>2
  <2>4. CASE t \notin now - pacing.seconds + 1 .. now
    BY <2>1, <2>2, <2>4
  <2> QED
    BY <2>3, <2>4
<1> HIDE DEF recent, current, before
<1>6. SumTo(recent, MaxTime) <= SumTo(current, MaxTime) + SumTo(before, MaxTime)
  BY <1>1, <1>3, <1>4, <1>5, SumToCovered
<1>7. SumTo(recent, MaxTime) \in Int
  BY <1>1, <1>4, SumToDef
<1>8. SumTo(recent, MaxTime) <= 2 * pacing.max
  BY <1>1, <1>2, <1>3, <1>6, <1>7
<1> QED
  BY <1>8 DEF recent

-----------------------------------------------------------------------------
(* The breakers of the rebalance engine.                                   *)

Entries == [pools: SUBSET Pools, success: BOOLEAN]

EngineLogged ==
  /\ history \in Seq(Entries) /\ Len(history) <= HistoryLimit
  /\ breaker_threshold \in [Engine!Breakers -> Nat]

(* What a rebalance does to the history.                                   *)
AfterEntry(h, e) ==
  IF Len(Append(h, e)) > HistoryLimit THEN Tail(Append(h, e)) ELSE Append(h, e)

(* The history ends with the new entry, after the entries it kept.          *)
LEMMA LoggedEntries ==
  ASSUME NEW h \in Seq(Entries), Len(h) <= HistoryLimit, NEW e \in Entries, NEW next,
         next = AfterEntry(h, e)
  PROVE  /\ next \in Seq(Entries) /\ Len(next) <= HistoryLimit
         /\ Len(next) >= Len(h)
         /\ \A i \in 1..Len(next) :
              i # Len(next) => next[i] = h[i + Len(h) + 1 - Len(next)]
         /\ Len(next) > 0 => next[Len(next)] = e
         /\ Len(h) < HistoryLimit => next = Append(h, e)
<1>1. HistoryLimit \in Nat
  BY InstanceAssumption DEF Engine!EngineAssumption
<1>2. /\ Append(h, e) \in Seq(Entries) /\ Len(Append(h, e)) = Len(h) + 1
      /\ \A i \in 1..Len(h) : Append(h, e)[i] = h[i]
      /\ Append(h, e)[Len(h) + 1] = e
  OBVIOUS
<1> DEFINE a == Append(h, e)
<1> HIDE DEF a
<1>3. /\ a \in Seq(Entries) /\ Len(a) = Len(h) + 1 /\ a # <<>>
      /\ \A i \in 1..Len(h) : a[i] = h[i]
      /\ a[Len(h) + 1] = e
  BY <1>2 DEF a
<1>4. Len(h) \in Nat
  OBVIOUS
<1>5. CASE Len(a) > HistoryLimit
  <2>1. next = Tail(a)
    BY <1>5 DEF a, AfterEntry
  <2>2. /\ next \in Seq(Entries) /\ Len(next) = Len(h)
        /\ \A i \in 1..Len(next) : next[i] = a[i + 1]
    BY <1>3, <1>4, <2>1
  <2>3. /\ Len(next) > 0 => next[Len(next)] = e
        /\ ~(Len(h) < HistoryLimit) /\ Len(next) <= HistoryLimit /\ Len(next) >= Len(h)
    BY <1>1, <1>3, <1>4, <1>5, <2>2
  <2>4. ASSUME NEW i \in 1..Len(next), i # Len(next)
        PROVE  next[i] = h[i + Len(h) + 1 - Len(next)]
    <3>1. i + Len(h) + 1 - Len(next) = i + 1 /\ i + 1 \in 1..Len(h)
      <4>1. Len(next) = Len(h) /\ i \in Nat /\ i >= 1 /\ i <= Len(h)
        BY <1>4, <2>2
      <4> QED
        BY <1>4, <2>4, <4>1
    <3> QED
      BY <1>3, <2>2, <3>1
  <2>5. \A i \in 1..Len(next) : i = Len(next) => Len(next) > 0
    BY <1>4, <2>2
  <2> QED
    BY <2>2, <2>3, <2>4, <2>5
<1>6. CASE ~(Len(a) > HistoryLimit)
  <2>1. next = a
    BY <1>6 DEF a, AfterEntry
  <2>2. Len(h) + 1 <= HistoryLimit
    BY <1>1, <1>3, <1>4, <1>6
  <2>3. ASSUME NEW i \in 1..Len(next), i # Len(next)
        PROVE  next[i] = h[i + Len(h) + 1 - Len(next)]
    <3>1. i + Len(h) + 1 - Len(next) = i /\ i \in 1..Len(h)
      BY <1>3, <1>4, <2>1, <2>3
    <3> QED
      BY <1>3, <2>1, <3>1
  <2>4. Len(next) <= HistoryLimit /\ Len(next) >= Len(h) /\ next[Len(next)] = e
    BY <1>1, <1>3, <1>4, <2>1, <2>2
  <2>5. next \in Seq(Entries) /\ next = Append(h, e)
    BY <1>3, <2>1 DEF a
  <2> QED
    BY <2>3, <2>4, <2>5
<1> QED
  BY <1>5, <1>6

(* A failure on top of the newest failures is one of them.                  *)
LEMMA StopOutlastsFailures ==
  ASSUME EngineLogged, NEW e \in Entries, Engine!Logged(e.pools, e.success),
         Engine!EmergencyStopTriggered, ~e.success
  PROVE  Engine!EmergencyStopTriggered'
<1>1. StopWindow \in Nat
  BY InstanceAssumption DEF Engine!EngineAssumption
<1>2. history' = AfterEntry(history, e)
  <2>1. e = [pools |-> e.pools, success |-> e.success]
    BY DEF Entries
  <2> QED
    BY <2>1 DEF Engine!Logged, AfterEntry
<1>3. /\ history' \in Seq(Entries) /\ Len(history') >= Len(history)
      /\ \A i \in 1..Len(history') :
           i # Len(history') => history'[i] = history[i + Len(history) + 1 - Len(history')]
      /\ Len(history') > 0 => history'[Len(history')] = e
  BY ZenonT(60), <1>2, LoggedEntries DEF EngineLogged
<1>4. /\ Len(history) >= StopWindow
      /\ \A i \in Len(history) - StopWindow + 1 .. Len(history) : ~history[i].success
  BY DEF Engine!EmergencyStopTriggered, Engine!AllFailed
<1>5. Len(history) \in Nat /\ Len(history') \in Nat
  BY <1>3 DEF EngineLogged
<1>6. ASSUME NEW i \in Len(history') - StopWindow + 1 .. Len(history')
      PROVE  ~history'[i].success
  <2>1. i \in 1..Len(history')
    BY <1>1, <1>3, <1>4, <1>5
  <2>2. CASE i = Len(history')
    <3>1. Len(history') > 0
      BY <1>5, <2>1, <2>2
    <3> QED
      BY <1>3, <2>2, <3>1
  <2>3. CASE i # Len(history')
    <3>1. i + Len(history) + 1 - Len(history')
            \in Len(history) - StopWindow + 1 .. Len(history)
      BY <1>1, <1>5, <2>1, <2>3
    <3> QED
      BY <1>3, <1>4, <2>1, <2>3, <3>1
  <2> QED
    BY <2>2, <2>3
<1>7. Len(history') >= StopWindow
  BY <1>1, <1>3, <1>4, <1>5
<1> QED
  BY <1>6, <1>7 DEF Engine!EmergencyStopTriggered, Engine!AllFailed

(* The entries of a history of at most HistoryLimit that touch some pools.  *)
TouchingOf(h, watched) == {i \in DOMAIN h : h[i].pools \cap watched # {}}

NewestOf(S, n) == {i \in S : Cardinality({j \in S : j >= i}) <= n}

TripsOn(h, watched, n) ==
  /\ Cardinality(TouchingOf(h, watched)) >= n
  /\ \A i \in NewestOf(TouchingOf(h, watched), n) : ~h[i].success

(* A breaker trips on the history, the pools it watches and its threshold,  *)
(* before and after a step.                                                 *)
LEMMA TripsIsTripsOn ==
  ASSUME NEW b \in Engine!Breakers
  PROVE  /\ Engine!BreakerTripped(b) <=> TripsOn(history, Engine!PoolsWatched(b), breaker_threshold[b])
         /\ Engine!BreakerTripped(b)' <=>
              TripsOn(history', Engine!PoolsWatched(b)', breaker_threshold'[b])
  BY EngineCardinality
  DEF Engine!BreakerTripped, Engine!Trips, Engine!Touching, Engine!Newest, TripsOn, TouchingOf,
      NewestOf

(* An entry of other pools, or one more failure, leaves a breaker tripped.  *)
LEMMA AppendTrips ==
  ASSUME NEW h \in Seq(Entries), NEW e \in Entries, NEW watched, NEW n \in Nat,
         TripsOn(h, watched, n), e.success => e.pools \cap watched = {}
  PROVE  TripsOn(Append(h, e), watched, n)
<1> DEFINE k == Len(h)
           next == Append(h, e)
           T == TouchingOf(h, watched)
           U == TouchingOf(next, watched)
<1>1. /\ k \in Nat /\ DOMAIN h = 1..k /\ DOMAIN next = 1..(k + 1)
      /\ next[k + 1] = e /\ \A i \in 1..k : next[i] = h[i]
  OBVIOUS
<1>2. T \subseteq 1..k /\ IsFiniteSet(T)
  <2>1. T \subseteq 1..k
    BY <1>1 DEF TouchingOf
  <2> QED
    <3>1. IsFiniteSet(1..k)
      BY <1>1, FS_Interval
    <3> HIDE DEF T, k
    <3> QED
      BY <2>1, <3>1, FS_Subset
<1>3. U = IF e.pools \cap watched # {} THEN T \cup {k + 1} ELSE T
  <2>1. 1..(k + 1) = 1..k \cup {k + 1}
    BY <1>1
  <2> HIDE DEF next, k
  <2>2. \A i \in 1..k : next[i].pools = h[i].pools
    BY <1>1
  <2> QED
    BY <1>1, <2>1, <2>2 DEF TouchingOf
<1>4. Cardinality(T) >= n /\ \A i \in NewestOf(T, n) : ~h[i].success
  BY DEF TripsOn
<1> HIDE DEF T, U, next, k
<1>5. CASE e.pools \cap watched = {}
  <2>1. U = T
    BY <1>3, <1>5
  <2>2. \A i \in NewestOf(T, n) : i \in 1..k
    BY <1>2 DEF NewestOf
  <2> QED
    BY <1>1, <1>4, <2>1, <2>2 DEF TripsOn, U, next
<1>6. CASE e.pools \cap watched # {}
  <2>1. U = T \cup {k + 1} /\ k + 1 \notin T /\ ~e.success
    BY <1>1, <1>2, <1>3, <1>6
  <2>2. Cardinality(U) >= n
    <3>1. Cardinality(U) = Cardinality(T) + 1 /\ Cardinality(T) \in Nat
      BY <1>2, <2>1, FS_AddElement, FS_CardinalityType
    <3> QED
      BY <1>4, <3>1
  <2>3. ASSUME NEW i \in NewestOf(U, n) PROVE ~next[i].success
    <3>1. CASE i = k + 1
      BY <1>1, <2>1, <3>1
    <3>2. CASE i # k + 1
      <4> DEFINE old == {j \in T : j >= i}
                 new == {j \in U : j >= i}
      <4>1. i \in T /\ Cardinality(new) <= n
        BY <2>1, <3>2 DEF NewestOf
      <4>2. IsFiniteSet(U)
        BY <1>2, <2>1, FS_AddElement
      <4>3. old \subseteq new /\ new \subseteq U
        BY <2>1
      <4> HIDE DEF old, new
      <4>4. IsFiniteSet(new)
        BY <4>2, <4>3, FS_Subset
      <4>5. IsFiniteSet(old) /\ Cardinality(old) <= Cardinality(new)
        BY <4>3, <4>4, FS_Subset
      <4>6. Cardinality(old) \in Nat /\ Cardinality(new) \in Nat
        BY <4>4, <4>5, FS_CardinalityType
      <4>7. Cardinality(old) <= n
        BY <4>1, <4>5, <4>6
      <4>8. i \in NewestOf(T, n)
        BY <4>1, <4>7 DEF NewestOf, old
      <4> QED
        BY <1>1, <1>2, <1>4, <4>1, <4>8
    <3> QED
      BY <3>1, <3>2
  <2> QED
    BY <2>2, <2>3 DEF TripsOn, U, next
<1> QED
  BY <1>5, <1>6

(* At first the history is empty.                                           *)
LEMMA EngineLoggedInit == Engine!Init => EngineLogged
  BY InstanceAssumption DEF Engine!Init, Engine!EngineAssumption, EngineLogged

(* The steps that touch the history and the ones that touch the thresholds. *)
LEMMA EngineSteps ==
  ASSUME Engine!Next, EngineLogged
  PROVE  \/ UNCHANGED <<history, breaker_threshold>>
         \/ /\ UNCHANGED history
            /\ \E b \in Engine!Breakers, t \in Thresholds :
                 breaker_threshold' = [breaker_threshold EXCEPT ![b] = t]
         \/ /\ UNCHANGED <<breaker_threshold, strategies>>
            /\ \E e \in Entries : Engine!Logged(e.pools, e.success)
<1>1. CASE Engine!Setting
  <2>1. ASSUME NEW b \in Engine!Breakers, NEW t \in Thresholds, Engine!SetBreakerThreshold(b, t)
        PROVE  /\ UNCHANGED history
               /\ breaker_threshold' = [breaker_threshold EXCEPT ![b] = t]
    BY <2>1 DEF Engine!SetBreakerThreshold
  <2>2. ASSUME NEW s, Engine!SetRebalancePacing(s) PROVE UNCHANGED <<history, breaker_threshold>>
    BY <2>2 DEF Engine!SetRebalancePacing, Engine!breakerVars
  <2>3. ASSUME NEW period, Engine!SetRebalanceThresholds(period)
        PROVE  UNCHANGED <<history, breaker_threshold>>
    BY <2>3 DEF Engine!SetRebalanceThresholds, Engine!breakerVars
  <2>4. ASSUME NEW t, Engine!SetFeedFailureThreshold(t)
        PROVE  UNCHANGED <<history, breaker_threshold>>
    BY <2>4 DEF Engine!SetFeedFailureThreshold, Engine!breakerVars
  <2>5. ASSUME NEW new, Engine!SetStrategies(new) PROVE UNCHANGED <<history, breaker_threshold>>
    BY <2>5 DEF Engine!SetStrategies
  <2> QED
    BY <1>1, <2>1, <2>2, <2>3, <2>4, <2>5
    DEF Engine!Setting, Engine!CreateStrategy, Engine!UpdateStrategy
<1>2. CASE Engine!Rebalance
  <2>1. ASSUME NEW p \in Pools, NEW q \in Pools, NEW a \in Amounts, NEW b \in Amounts,
               Engine!ExecuteRebalance(p, q, a, b)
        PROVE  /\ UNCHANGED <<breaker_threshold, strategies>>
               /\ \E e \in Entries : Engine!Logged(e.pools, e.success)
    <3> DEFINE e == [pools |-> {p, q}, success |-> a > 0]
    <3>1. e \in Entries /\ Engine!Logged(e.pools, e.success)
      <4>1. {p, q} \in SUBSET Pools
        OBVIOUS
      <4>2. (a > 0) \in BOOLEAN
        OBVIOUS
      <4>3. Engine!Logged({p, q}, a > 0)
        BY <2>1 DEF Engine!ExecuteRebalance
      <4> QED
        BY <4>1, <4>2, <4>3 DEF Entries
    <3>2. UNCHANGED <<breaker_threshold, strategies>>
      BY <2>1 DEF Engine!ExecuteRebalance, Engine!breakerVars
    <3> QED
      BY <3>1, <3>2
  <2>2. ASSUME NEW v, NEW q, NEW amount, Engine!ExecuteFlashRebalance(v, q, amount)
        PROVE  UNCHANGED <<history, breaker_threshold>>
    BY <2>2 DEF Engine!ExecuteFlashRebalance, Engine!breakerVars
  <2> QED
    BY <1>2, <2>1, <2>2 DEF Engine!Rebalance
<1>3. CASE Engine!Feed
  BY <1>3 DEF Engine!Feed, Engine!RecordFeedValidationFailure,
              Engine!RecordFeedValidationSuccess, Engine!breakerVars
<1>4. CASE Engine!Stop
  BY <1>4 DEF Engine!Stop, Engine!CheckEmergencyStop, Engine!CheckBreaker, Engine!SetPaused,
              Engine!breakerVars
<1>5. CASE Engine!Tick
  BY <1>5 DEF Engine!Tick, Engine!breakerVars
<1> QED
  BY <1>1, <1>2, <1>3, <1>4, <1>5 DEF Engine!Next, Engine!Call

(* The same of the history variable.                                        *)
LEMMA LogsEntry ==
  ASSUME EngineLogged, NEW e \in Entries, Engine!Logged(e.pools, e.success)
  PROVE  /\ history' \in Seq(Entries) /\ Len(history') <= HistoryLimit
         /\ Len(history') > 0 => history'[Len(history')] = e
         /\ Len(history) < HistoryLimit => history' = Append(history, e)
<1>1. e = [pools |-> e.pools, success |-> e.success]
  BY DEF Entries
<1>2. history' = AfterEntry(history, e)
  BY <1>1 DEF Engine!Logged, AfterEntry
<1> QED
  BY <1>2, LoggedEntries DEF EngineLogged

(* Every step of the engine keeps the types of history and thresholds.      *)
LEMMA EngineLoggedNext ==
  ASSUME EngineLogged, Engine!Next
  PROVE  EngineLogged'
<1>1. CASE UNCHANGED <<history, breaker_threshold>>
  BY <1>1 DEF EngineLogged, Engine!Breakers
<1>2. ASSUME UNCHANGED history, NEW b \in Engine!Breakers, NEW t \in Thresholds,
             breaker_threshold' = [breaker_threshold EXCEPT ![b] = t]
      PROVE  EngineLogged'
  <2>1. t \in Nat
    BY InstanceAssumption DEF Engine!EngineAssumption
  <2> QED
    BY <1>2, <2>1 DEF EngineLogged, Engine!Breakers
<1>3. ASSUME UNCHANGED <<breaker_threshold, strategies>>, NEW e \in Entries,
             Engine!Logged(e.pools, e.success)
      PROVE  EngineLogged'
  BY <1>3, LogsEntry DEF EngineLogged, Engine!Breakers
<1> QED
  BY <1>1, <1>2, <1>3, EngineSteps

(* A breaker that trips does so until a success of its pools.               *)
Outlasts ==
  /\ Engine!EmergencyStopTriggered /\ ~Engine!EmergencyStopTriggered' =>
       history'[Len(history')].success
  /\ \A b \in Engine!Breakers :
       Engine!BreakerTripped(b) /\ ~Engine!BreakerTripped(b)' =>
         \/ breaker_threshold'[b] # breaker_threshold[b]
         \/ Engine!PoolsWatched(b)' # Engine!PoolsWatched(b)
         \/ Len(history) = HistoryLimit
         \/ /\ history'[Len(history')].success
            /\ history'[Len(history')].pools \cap Engine!PoolsWatched(b) # {}

(* Where nothing is logged, only new thresholds and new pools release a     *)
(* breaker.                                                                 *)
LEMMA UnloggedOutlasts ==
  ASSUME UNCHANGED history
  PROVE  Outlasts
<1>1. Engine!EmergencyStopTriggered' <=> Engine!EmergencyStopTriggered
  BY DEF Engine!EmergencyStopTriggered, Engine!AllFailed
<1>2. ASSUME NEW b \in Engine!Breakers, breaker_threshold'[b] = breaker_threshold[b],
             Engine!PoolsWatched(b)' = Engine!PoolsWatched(b)
      PROVE  Engine!BreakerTripped(b)' <=> Engine!BreakerTripped(b)
  BY <1>2, TripsIsTripsOn
<1> QED
  BY <1>1, <1>2 DEF Outlasts

(* Where a rebalance is logged, only a success of the pools does.           *)
LEMMA LoggedOutlasts ==
  ASSUME EngineLogged, UNCHANGED <<breaker_threshold, strategies>>, NEW e \in Entries,
         Engine!Logged(e.pools, e.success)
  PROVE  Outlasts
<1>0. HistoryLimit \in Nat /\ StopWindow \in Nat /\ Len(history) \in Nat
  BY InstanceAssumption DEF Engine!EngineAssumption, EngineLogged
<1>1. /\ history' \in Seq(Entries) /\ Len(history') <= HistoryLimit
      /\ Len(history') > 0 => history'[Len(history')] = e
      /\ Len(history) < HistoryLimit => history' = Append(history, e)
  BY LogsEntry
<1>2. ASSUME Engine!EmergencyStopTriggered, ~Engine!EmergencyStopTriggered'
      PROVE  history'[Len(history')].success
  <2>1. e.success
    BY <1>2, StopOutlastsFailures
  <2>2. Len(history') > 0
    <3>1. CASE HistoryLimit = 0
      <4>1. StopWindow = 0
        BY <1>0, <3>1, InstanceAssumption DEF Engine!EngineAssumption
      <4>2. Engine!EmergencyStopTriggered'
        <5>1. Len(history') \in Nat
          BY <1>1
        <5> QED
          BY <4>1, <5>1 DEF Engine!EmergencyStopTriggered, Engine!AllFailed
      <4> QED
        BY <1>2, <4>2
    <3>2. CASE Len(history) < HistoryLimit
      <4>1. history' = Append(history, e)
        BY <1>1, <3>2
      <4> QED
        BY <4>1 DEF EngineLogged
    <3>3. CASE Len(history) = HistoryLimit /\ HistoryLimit > 0
      <4>1. Len(history') >= Len(history)
        <5>1. e = [pools |-> e.pools, success |-> e.success]
          BY DEF Entries
        <5>2. history' = AfterEntry(history, e)
          BY <5>1 DEF Engine!Logged, AfterEntry
        <5> QED
          BY <5>2, LoggedEntries DEF EngineLogged
      <4> QED
        BY <1>0, <1>1, <3>3, <4>1
    <3> QED
      BY <1>0, <3>1, <3>2, <3>3 DEF EngineLogged
  <2> QED
    BY <1>1, <2>1, <2>2
<1>3. ASSUME NEW b \in Engine!Breakers, Engine!BreakerTripped(b), ~Engine!BreakerTripped(b)',
             Len(history) # HistoryLimit
      PROVE  /\ history'[Len(history')].success
             /\ history'[Len(history')].pools \cap Engine!PoolsWatched(b) # {}
  <2>1. Len(history) < HistoryLimit /\ history' = Append(history, e)
    BY <1>0, <1>1, <1>3 DEF EngineLogged
  <2>2. history'[Len(history')] = e
    BY <2>1 DEF EngineLogged
  <2>3. Engine!PoolsWatched(b)' = Engine!PoolsWatched(b)
    BY Zenon DEF Engine!PoolsWatched
  <2>4. breaker_threshold[b] \in Nat
    BY DEF EngineLogged
  <2>5. ~(e.success => e.pools \cap Engine!PoolsWatched(b) = {})
    <3> SUFFICES ASSUME e.success => e.pools \cap Engine!PoolsWatched(b) = {} PROVE FALSE
      OBVIOUS
    <3>1. TripsOn(history, Engine!PoolsWatched(b), breaker_threshold[b])
      BY <1>3, TripsIsTripsOn
    <3>2. TripsOn(Append(history, e), Engine!PoolsWatched(b), breaker_threshold[b])
      BY <2>4, <3>1, AppendTrips DEF EngineLogged
    <3> QED
      BY <1>3, <2>1, <2>3, <3>2, TripsIsTripsOn
  <2> QED
    BY <2>2, <2>5
<1> QED
  BY <1>2, <1>3 DEF Outlasts

(* So no step of the engine releases a breaker otherwise.                   *)
LEMMA EngineOutlasts ==
  ASSUME EngineLogged, Engine!Next
  PROVE  Outlasts
  BY EngineSteps, UnloggedOutlasts, LoggedOutlasts

-----------------------------------------------------------------------------
(* The oracle registry.                                                    *)

Observation == [price: Prices, timestamp: Nat]

Feed == [feeders: SUBSET Feeders, threshold: Nat, observations: Seq(Observation),
         has_fallback: BOOLEAN, fallback: Pools]

OracleTyped ==
  /\ now \in Nat \ {0}
  /\ DOMAIN price_feeds \subseteq Pools
  /\ price_feeds \in [DOMAIN price_feeds -> Feed]
  /\ newest \in [Pools -> [price: Prices \cup {0}, timestamp: Nat]]

(* The last observation of a window is the newest of its pool, and no other *)
(* in it is younger.                                                        *)
EndsWith(w, o) ==
  /\ w = <<>> => o = Oracle!NoObservation
  /\ w # <<>> => w[Len(w)] = o /\ o # Oracle!NoObservation
  /\ \A i \in 1..Len(w) : w[i].timestamp <= o.timestamp

OracleInv ==
  /\ OracleTyped
  /\ \A p \in Pools :
       /\ newest[p].timestamp <= now
       /\ p \notin DOMAIN price_feeds => newest[p] = Oracle!NoObservation
       /\ p \in DOMAIN price_feeds => EndsWith(price_feeds[p].observations, newest[p])

(* The registry starts without feeds.                                       *)
LEMMA OracleStarts == Oracle!Init => OracleInv
<1> SUFFICES ASSUME Oracle!Init PROVE OracleInv
  OBVIOUS
<1>1. DOMAIN price_feeds = {}
  BY DEF Oracle!Init
<1>2. price_feeds \in [DOMAIN price_feeds -> Feed]
  BY <1>1 DEF Oracle!Init
<1>3. newest = [p \in Pools |-> Oracle!NoObservation] /\ now = 1
  BY DEF Oracle!Init
<1> QED
  BY <1>1, <1>2, <1>3 DEF OracleInv, OracleTyped, Oracle!NoObservation

(* An observation has a time.                                               *)
LEMMA ObservationsTyped ==
  ASSUME NEW w \in Seq(Observation), NEW i \in 1..Len(w)
  PROVE  w[i].timestamp \in Nat
<1>1. w[i] \in Observation
  OBVIOUS
<1> QED
  BY <1>1 DEF Observation

(* A window that takes an observation ends with it.                         *)
LEMMA WindowEnds ==
  ASSUME NEW w \in Seq(Observation), NEW o \in Observation, o.timestamp > 0,
         \A i \in 1..Len(w) : w[i].timestamp <= o.timestamp
  PROVE  /\ Oracle!Window(w, o) \in Seq(Observation)
         /\ EndsWith(Oracle!Window(w, o), o)
<1>1. ASSUME NEW v \in Seq(Observation), \A i \in 1..Len(v) : v[i].timestamp <= o.timestamp
      PROVE  Append(v, o) \in Seq(Observation) /\ EndsWith(Append(v, o), o)
  <2>1. Append(v, o) \in Seq(Observation)
    OBVIOUS
  <2>2. o.timestamp \in Nat
    BY DEF Observation
  <2>3. /\ Len(Append(v, o)) = Len(v) + 1 /\ Append(v, o) # <<>>
        /\ \A i \in 1..Len(Append(v, o)) :
             Append(v, o)[i] = IF i <= Len(v) THEN v[i] ELSE o
    OBVIOUS
  <2>4. o # Oracle!NoObservation
    BY DEF Oracle!NoObservation
  <2>5. Len(v) \in Nat
    OBVIOUS
  <2>6. Append(v, o)[Len(Append(v, o))] = o
    BY <2>3, <2>5
  <2>7. \A i \in 1..Len(Append(v, o)) : Append(v, o)[i].timestamp <= o.timestamp
    BY <1>1, <2>2, <2>3, <2>5
  <2>8. EndsWith(Append(v, o), o)
    BY <2>3, <2>4, <2>6, <2>7 DEF EndsWith
  <2> QED
    BY <2>1, <2>8
<1>2. ASSUME w # <<>>
      PROVE  Append(Tail(w), o) \in Seq(Observation) /\ EndsWith(Append(Tail(w), o), o)
  <2>1. Tail(w) \in Seq(Observation) /\ Len(Tail(w)) = Len(w) - 1
    BY <1>2
  <2>2. \A i \in 1..Len(Tail(w)) : Tail(w)[i].timestamp <= o.timestamp
    BY <1>2
  <2> QED
    BY <1>1, <2>1, <2>2
<1>3. Len(w) >= MaxObservations => w # <<>>
  BY InstanceAssumption DEF Oracle!OracleAssumption
<1> QED
  BY <1>1, <1>2, <1>3 DEF Oracle!Window

(* A feed that keeps its observations keeps to the invariant.               *)
LEMMA FeedChanged ==
  ASSUME OracleInv, NEW p \in DOMAIN price_feeds, NEW f \in Feed,
         f.observations = price_feeds[p].observations,
         price_feeds' = [price_feeds EXCEPT ![p] = f],
         UNCHANGED <<newest, now>>
  PROVE  OracleInv'
<1>1. OracleTyped'
  BY DEF OracleInv, OracleTyped
<1>2. DOMAIN price_feeds' = DOMAIN price_feeds
  BY DEF OracleInv, OracleTyped
<1>3. \A q \in DOMAIN price_feeds : price_feeds'[q].observations = price_feeds[q].observations
  BY DEF OracleInv, OracleTyped
<1>5. ASSUME NEW q \in DOMAIN price_feeds
      PROVE  EndsWith(price_feeds[q].observations, newest[q])'
  BY <1>3, <1>5 DEF OracleInv, OracleTyped, EndsWith, Oracle!NoObservation
<1>6. ASSUME NEW q \in Pools
      PROVE  /\ newest'[q].timestamp <= now'
             /\ q \notin DOMAIN price_feeds' => newest'[q] = Oracle!NoObservation
  BY <1>2 DEF OracleInv
<1> QED
  BY <1>1, <1>2, <1>5, <1>6 DEF OracleInv, Oracle!NoObservation

(* Registering, publishing and changing a feed keep it.                     *)
LEMMA OracleNext ==
  ASSUME OracleInv, Oracle!Next
  PROVE  OracleInv'
<1>1. CASE Oracle!Tick
  <2>1. now' \in Nat \ {0} /\ now <= now'
    BY <1>1 DEF Oracle!Tick, OracleInv, OracleTyped
  <2> QED
    BY <1>1, <2>1 DEF Oracle!Tick, OracleInv, OracleTyped, EndsWith, Oracle!NoObservation
<1>2. ASSUME NEW p \in Pools, NEW fallback \in Pools, NEW b \in BOOLEAN,
             NEW feeders \in SUBSET Feeders, NEW secs \in Ages,
             Oracle!RegisterFeed(p, feeders, secs, fallback, b)
      PROVE  OracleInv'
  <2> DEFINE feed == [feeders |-> feeders,
                      threshold |-> IF secs = 0 THEN DefaultFreshness ELSE secs,
                      observations |-> <<>>, has_fallback |-> b, fallback |-> fallback]
  <2>1. feed \in Feed /\ feed.observations = <<>>
    BY InstanceAssumption DEF Oracle!OracleAssumption, Feed
  <2>2. /\ price_feeds' = [q \in DOMAIN price_feeds \cup {p} |->
                             IF q # p THEN price_feeds[q] ELSE feed]
        /\ p \notin DOMAIN price_feeds /\ UNCHANGED <<newest, now>>
    BY <1>2 DEF Oracle!RegisterFeed
  <2> HIDE DEF feed
  <2>3. OracleTyped'
    BY <2>1, <2>2 DEF OracleInv, OracleTyped
  <2>4. newest[p] = Oracle!NoObservation
    BY <2>2 DEF OracleInv
  <2>5. EndsWith(<<>>, Oracle!NoObservation)
    BY DEF EndsWith
  <2>6. \A q \in DOMAIN price_feeds : price_feeds'[q].observations = price_feeds[q].observations
    BY <2>2
  <2>7. price_feeds'[p].observations = <<>>
    BY <2>1, <2>2
  <2>8. ASSUME NEW q \in DOMAIN price_feeds'
        PROVE  EndsWith(price_feeds'[q].observations, newest[q])
    BY <2>2, <2>4, <2>5, <2>6, <2>7 DEF OracleInv, OracleTyped
  <2> QED
    BY <2>2, <2>3, <2>8 DEF OracleInv, EndsWith, Oracle!NoObservation
<1>3. ASSUME NEW p \in DOMAIN price_feeds, NEW secs \in Ages,
             Oracle!SetFreshnessThreshold(p, secs)
      PROVE  OracleInv'
  <2>1. [price_feeds[p] EXCEPT !.threshold = secs] \in Feed
    BY InstanceAssumption DEF OracleInv, OracleTyped, Feed, Oracle!OracleAssumption
  <2> QED
    BY <1>3, <2>1, FeedChanged DEF Oracle!SetFreshnessThreshold, OracleInv, OracleTyped, Feed
<1>4. ASSUME NEW p \in DOMAIN price_feeds, NEW f \in Feeders,
             Oracle!AddFeeder(p, f) \/ Oracle!RemoveFeeder(p, f)
      PROVE  OracleInv'
  <2>1. /\ [price_feeds[p] EXCEPT !.feeders = @ \cup {f}] \in Feed
        /\ [price_feeds[p] EXCEPT !.feeders = @ \ {f}] \in Feed
    BY DEF OracleInv, OracleTyped, Feed
  <2> QED
    BY <1>4, <2>1, FeedChanged
    DEF Oracle!AddFeeder, Oracle!RemoveFeeder, OracleInv, OracleTyped, Feed
<1>5. ASSUME NEW p \in DOMAIN price_feeds, NEW f \in Feeders, NEW price \in Prices,
             Oracle!PublishPrice(f, p, price)
      PROVE  OracleInv'
  <2> DEFINE o == [price |-> price, timestamp |-> now]
             w == price_feeds[p].observations
  <2>1. /\ price_feeds' = [price_feeds EXCEPT ![p].observations = Oracle!Window(w, o)]
        /\ newest' = [newest EXCEPT ![p] = o] /\ UNCHANGED now
    BY <1>5 DEF Oracle!PublishPrice
  <2>2. w \in Seq(Observation) /\ p \in Pools
    BY DEF OracleInv, OracleTyped, Feed
  <2>3. o \in Observation /\ o.timestamp = now /\ now > 0 /\ now \in Nat
    BY DEF OracleInv, OracleTyped, Observation
  <2>4. \A i \in 1..Len(w) : w[i].timestamp <= newest[p].timestamp
    BY <2>2 DEF OracleInv, EndsWith
  <2>5. newest[p].timestamp \in Nat /\ newest[p].timestamp <= now
    BY <2>2 DEF OracleInv, OracleTyped
  <2>6. \A i \in 1..Len(w) : w[i].timestamp \in Nat
    BY <2>2, ObservationsTyped
  <2> HIDE DEF o, w
  <2>7. \A i \in 1..Len(w) : w[i].timestamp <= o.timestamp
    BY <2>3, <2>4, <2>5, <2>6
  <2>8. Oracle!Window(w, o) \in Seq(Observation) /\ EndsWith(Oracle!Window(w, o), o)
    BY <2>2, <2>3, <2>7, WindowEnds
  <2>9. OracleTyped'
    BY ZenonT(60), <2>1, <2>2, <2>3, <2>8 DEF OracleInv, OracleTyped, Feed, Observation
  <2>10. /\ DOMAIN price_feeds' = DOMAIN price_feeds
         /\ price_feeds'[p].observations = Oracle!Window(w, o) /\ newest'[p] = o
         /\ \A q \in DOMAIN price_feeds : q # p =>
              price_feeds'[q].observations = price_feeds[q].observations
         /\ \A q \in Pools : q # p => newest'[q] = newest[q]
    BY <2>1, <2>2 DEF OracleInv, OracleTyped, Feed
  <2>11. ASSUME NEW q \in DOMAIN price_feeds
         PROVE  EndsWith(price_feeds'[q].observations, newest'[q])
    BY <2>8, <2>10 DEF OracleInv, OracleTyped
  <2>12. ASSUME NEW q \in Pools
         PROVE  /\ newest'[q].timestamp <= now'
                /\ q \notin DOMAIN price_feeds' => newest'[q] = Oracle!NoObservation
    BY <2>1, <2>3, <2>10 DEF OracleInv
  <2> QED
    BY <2>9, <2>10, <2>11, <2>12 DEF OracleInv, EndsWith, Oracle!NoObservation
<1>6. ASSUME NEW p \in DOMAIN price_feeds, NEW fallback \in Pools, NEW b \in BOOLEAN,
             Oracle!SetFallbackFeed(p, fallback, b)
      PROVE  OracleInv'
  <2>1. [price_feeds[p] EXCEPT !.fallback = fallback, !.has_fallback = b] \in Feed
    BY DEF OracleInv, OracleTyped, Feed
  <2> QED
    BY <1>6, <2>1, FeedChanged DEF Oracle!SetFallbackFeed, OracleInv, OracleTyped, Feed
<1> QED
  BY <1>1, <1>2, <1>3, <1>4, <1>5, <1>6 DEF Oracle!Next

(* Whatever is fresh is no younger than the newest, which is served.        *)
LEMMA FreshEndsWithNewest ==
  ASSUME OracleInv, NEW p \in DOMAIN price_feeds
  PROVE  /\ Oracle!NewestIsFresh(p) <=> Oracle!Fresh(price_feeds[p]) # {}
         /\ Oracle!NewestIsFresh(p) =>
              Oracle!latest_fresh_price(price_feeds[p]) = newest[p].price
<1> DEFINE w == price_feeds[p].observations
           S == Oracle!Fresh(price_feeds[p])
<1>1. /\ p \in Pools /\ w \in Seq(Observation) /\ now \in Nat
      /\ price_feeds[p].threshold \in Nat /\ EndsWith(w, newest[p])
      /\ newest[p].timestamp \in Nat
  BY DEF OracleInv, OracleTyped, Feed
<1>2. S = {i \in 1..Len(w) : now - w[i].timestamp <= price_feeds[p].threshold}
  BY <1>1 DEF Oracle!Fresh
<1>3. \A i \in 1..Len(w) : w[i].timestamp \in Nat
  BY <1>1, ObservationsTyped
<1>4. Len(w) \in Nat /\ (w # <<>> <=> Len(w) > 0)
  BY <1>1
<1> HIDE DEF w, S
<1>5. \A i \in S : Len(w) \in S
  BY <1>1, <1>2, <1>3, <1>4 DEF EndsWith
<1>6. Oracle!NewestIsFresh(p) <=> Len(w) \in S
  BY <1>1, <1>2, <1>3, <1>4 DEF EndsWith, Oracle!NewestIsFresh
<1>7. ASSUME Len(w) \in S
      PROVE  Oracle!Max(S) = Len(w)
  BY <1>2, <1>4, <1>7 DEF Oracle!Max
<1>8. ASSUME Len(w) \in S
      PROVE  Oracle!latest_fresh_price(price_feeds[p]) = newest[p].price
  <2>1. w[Len(w)] = newest[p]
    BY <1>1, <1>2, <1>4, <1>8 DEF EndsWith
  <2> QED
    BY <1>7, <1>8, <2>1 DEF Oracle!latest_fresh_price, w, S
<1> QED
  BY <1>5, <1>6, <1>8 DEF S

(* So the invariant implies the property.                                   *)
LEMMA NewestIsServed == OracleInv => Oracle!PriceIsNewest
  BY FreshEndsWithNewest DEF Oracle!PriceIsNewest, Oracle!get_price

-----------------------------------------------------------------------------
(* The insurance.                                                          *)

(* The sum of the insurance's module is the usual one.                      *)
LEMMA InsuranceSums == \A f, n : Insurance!SumTo(f, n) = SumTo(f, n)
  BY DEF Insurance!SumTo, SumTo

Policy == [owner: Owners, token: Insurance!ReserveTokens, coverage: Nat, premium: Nat,
           start: {0, 1}, expiry: Int, claimed: BOOLEAN]

ReserveSet == [premiums: Nat, claims: Nat, current: Nat, active: Nat]

InsuranceTyped ==
  /\ now \in Int
  /\ policies \in Seq(Policy)
  /\ payouts \in [1..Len(policies) -> Nat]
  /\ reserve \in ReserveSet
  /\ reserve_held \in [Insurance!ReserveTokens -> Nat]

(* What was paid was claimed.                                               *)
PaidWereClaimed == \A i \in 1..Len(policies) : payouts[i] > 0 => policies[i].claimed

InsuranceInv == InsuranceTyped /\ PaidWereClaimed /\ Insurance!InsuranceKeepsItsWord

(* The insurance starts without policies and with an empty reserve.         *)
LEMMA InsuranceStarts ==
  ASSUME Insurance!Init
  PROVE  InsuranceInv
<1>1. /\ policies = <<>> /\ payouts = <<>> /\ now = 1 /\ Len(policies) = 0
      /\ reserve = [premiums |-> 0, claims |-> 0, current |-> 0, active |-> 0]
      /\ reserve_held = [t \in Insurance!ReserveTokens |-> 0]
  BY DEF Insurance!Init
<1>2. payouts \in [1..Len(policies) -> Nat] /\ policies \in Seq(Policy)
  BY <1>1
<1>3. InsuranceTyped /\ PaidWereClaimed
  BY <1>1, <1>2 DEF InsuranceTyped, PaidWereClaimed, ReserveSet
<1>4. SumTo(reserve_held, NumReserveTokens) = 0
  <2>1. NumReserveTokens \in Nat
    BY InstanceAssumption DEF Insurance!InsuranceAssumption
  <2>2. reserve_held \in [1..NumReserveTokens -> Int]
    BY <1>1 DEF Insurance!ReserveTokens
  <2>3. \A t \in 1..NumReserveTokens : reserve_held[t] = 0
    BY <1>1 DEF Insurance!ReserveTokens
  <2> QED
    BY <2>1, <2>2, <2>3, SumToZero
<1>5. /\ Insurance!Premiums \in [1..Len(policies) -> Int]
      /\ Insurance!Unpaid \in [1..Len(policies) -> Int]
      /\ payouts \in [1..Len(policies) -> Int] /\ DOMAIN policies = {} /\ 1..Len(policies) = {}
  BY <1>1 DEF Insurance!Premiums, Insurance!Unpaid
<1>6. Len(policies) \in Nat
  BY <1>1
<1>7. /\ SumTo(Insurance!Premiums, Len(policies)) = 0
      /\ SumTo(Insurance!Unpaid, Len(policies)) = 0
      /\ SumTo(payouts, Len(policies)) = 0
  BY <1>5, <1>6, SumToZero
<1>8. Insurance!ReserveIsThere /\ Insurance!ActiveIsCounted
  BY <1>1, <1>4, <1>5, <1>7, InsuranceSums
  DEF Insurance!ReserveIsThere, Insurance!ActiveIsCounted
<1> QED
  BY <1>3, <1>8 DEF InsuranceInv, Insurance!InsuranceKeepsItsWord

(* The ledgers that are summed.                                             *)
LEMMA LedgersTyped ==
  ASSUME InsuranceTyped
  PROVE  /\ Len(policies) \in Nat /\ NumReserveTokens \in Nat
         /\ DOMAIN policies = 1..Len(policies)
         /\ \A i \in 1..Len(policies) :
              /\ policies[i] \in Policy
              /\ Insurance!Premiums[i] = policies[i].premium
              /\ Insurance!Unpaid[i] = IF payouts[i] = 0 THEN policies[i].coverage ELSE 0
         /\ Insurance!Premiums \in [1..Len(policies) -> Nat]
         /\ Insurance!Unpaid \in [1..Len(policies) -> Nat]
         /\ payouts \in [1..Len(policies) -> Int]
         /\ reserve_held \in [1..NumReserveTokens -> Int]
<1>1. /\ Len(policies) \in Nat /\ DOMAIN policies = 1..Len(policies)
      /\ \A i \in 1..Len(policies) : policies[i] \in Policy
  BY DEF InsuranceTyped
<1>2. \A i \in 1..Len(policies) : policies[i].premium \in Nat /\ policies[i].coverage \in Nat
  BY <1>1 DEF Policy
<1>3. NumReserveTokens \in Nat
  BY InstanceAssumption DEF Insurance!InsuranceAssumption
<1> QED
  BY <1>1, <1>2, <1>3
  DEF InsuranceTyped, Insurance!Premiums, Insurance!Unpaid, Insurance!ReserveTokens

(* A premium is an integer.                                                 *)
LEMMA PremiumTyped ==
  ASSUME InsuranceTyped, NEW coverage \in Coverages, NEW rate \in PremiumRates
  PROVE  Insurance!calculate_premium(coverage, rate) \in Int
<1>1. /\ coverage \in Int /\ rate \in Int /\ Divisor \in Nat \ {0} /\ MaxRate \in Int
      /\ MinReserveRatio \in Int
  BY InstanceAssumption DEF Insurance!InsuranceAssumption
<1>2. reserve.current \in Int /\ reserve.active \in Nat
  BY DEF InsuranceTyped, ReserveSet
<1>3. Insurance!Shortage \in Int
  <2>1. CASE reserve.active = 0
    BY <2>1 DEF Insurance!Shortage
  <2>2. CASE reserve.active # 0
    <3> DEFINE x == reserve.current * Divisor
    <3>1. x \in Int
      BY <1>1, <1>2
    <3> HIDE DEF x
    <3>2. x \div reserve.active \in Int
      BY <1>2, <2>2, <3>1
    <3> DEFINE ratio == x \div reserve.active
    <3> HIDE DEF ratio
    <3>3. (IF reserve.active = 0 \/ ratio >= MinReserveRatio THEN 0
           ELSE MinReserveRatio - ratio) \in Int
      BY <1>1, <3>2 DEF ratio
    <3> QED
      BY <3>3 DEF Insurance!Shortage, ratio, x
  <2> QED
    BY <2>1, <2>2
<1> DEFINE y == rate * Insurance!Shortage
<1>4. y \in Int
  BY <1>1, <1>3
<1> HIDE DEF y
<1>5. y \div Divisor \in Int
  BY <1>1, <1>4
<1> DEFINE z == Insurance!Smaller(rate + y \div Divisor, MaxRate)
<1>6. z \in Int
  BY <1>1, <1>5 DEF Insurance!Smaller
<1> HIDE DEF z
<1> DEFINE c == coverage * z
<1>7. c \in Int
  BY <1>1, <1>6
<1> HIDE DEF c
<1>8. c \div Divisor \in Int
  BY <1>1, <1>7
<1> QED
  BY <1>8 DEF Insurance!calculate_premium, c, z, y

(* The reserve after a purchase.                                            *)
LEMMA ReserveGrows ==
  ASSUME reserve \in ReserveSet, NEW premium \in Nat, NEW coverage \in Nat, NEW next,
         next = Insurance!ReserveWith(premium, coverage)
  PROVE  /\ next \in ReserveSet
         /\ next.premiums = reserve.premiums + premium
         /\ next.current = reserve.current + premium
         /\ next.active = reserve.active + coverage /\ next.claims = reserve.claims
<1> DEFINE r1 == [reserve EXCEPT !.premiums = reserve.premiums + premium]
           r2 == [r1 EXCEPT !.current = reserve.current + premium]
           r3 == [r2 EXCEPT !.active = reserve.active + coverage]
<1>1. /\ r1 \in ReserveSet /\ r1.premiums = reserve.premiums + premium
      /\ r1.claims = reserve.claims /\ r1.current = reserve.current
      /\ r1.active = reserve.active
  BY DEF ReserveSet
<1>2. next = r3
  BY DEF Insurance!ReserveWith
<1> HIDE DEF r1
<1>3. /\ r2 \in ReserveSet /\ r2.premiums = r1.premiums /\ r2.claims = r1.claims
      /\ r2.current = reserve.current + premium /\ r2.active = r1.active
  BY <1>1 DEF ReserveSet
<1> HIDE DEF r2
<1>4. /\ r3 \in ReserveSet /\ r3.premiums = r2.premiums /\ r3.claims = r2.claims
      /\ r3.current = r2.current /\ r3.active = reserve.active + coverage
  BY <1>1, <1>3 DEF ReserveSet
<1> HIDE DEF r3
<1> QED
  BY <1>1, <1>2, <1>3, <1>4

(* The reserve after a payout of a covered amount.                          *)
LEMMA ReserveShrinks ==
  ASSUME reserve \in ReserveSet, NEW i, NEW payout \in Nat, payout <= reserve.current,
         policies[i].coverage \in Nat, policies[i].coverage <= reserve.active, NEW next,
         next = Insurance!ReserveAfter(i, payout)
  PROVE  /\ next \in ReserveSet /\ next.premiums = reserve.premiums
         /\ next.current = reserve.current - payout
         /\ next.active = reserve.active - policies[i].coverage
         /\ next.claims = reserve.claims + payout
<1> DEFINE r1 == [reserve EXCEPT !.claims = reserve.claims + payout]
           r2 == [r1 EXCEPT !.current = reserve.current - payout]
           r3 == [r2 EXCEPT !.active = reserve.active - policies[i].coverage]
<1>1. /\ r1 \in ReserveSet /\ r1.premiums = reserve.premiums
      /\ r1.claims = reserve.claims + payout /\ r1.current = reserve.current
      /\ r1.active = reserve.active
  BY DEF ReserveSet
<1>2. next = r3
  BY DEF Insurance!ReserveAfter
<1>3. /\ reserve.current - payout \in Nat /\ reserve.active - policies[i].coverage \in Nat
  BY DEF ReserveSet
<1> HIDE DEF r1
<1>4. /\ r2 \in ReserveSet /\ r2.premiums = r1.premiums /\ r2.claims = r1.claims
      /\ r2.current = reserve.current - payout /\ r2.active = r1.active
  BY <1>1, <1>3 DEF ReserveSet
<1> HIDE DEF r2
<1>5. /\ r3 \in ReserveSet /\ r3.premiums = r2.premiums /\ r3.claims = r2.claims
      /\ r3.current = r2.current /\ r3.active = reserve.active - policies[i].coverage
  BY <1>1, <1>3, <1>4 DEF ReserveSet
<1> HIDE DEF r3
<1> QED
  BY <1>1, <1>2, <1>4, <1>5

(* The tokens held after one of them came in or went out.                   *)
LEMMA HeldChanges ==
  ASSUME NEW h \in [Insurance!ReserveTokens -> Nat], NEW t \in Insurance!ReserveTokens,
         NEW v \in Nat, NEW next, next = [h EXCEPT ![t] = v]
  PROVE  /\ next \in [Insurance!ReserveTokens -> Nat]
         /\ SumTo(next, NumReserveTokens) = SumTo(h, NumReserveTokens) + (v - h[t])
<1>1. NumReserveTokens \in Nat
  BY InstanceAssumption DEF Insurance!InsuranceAssumption
<1>2. /\ h \in [1..NumReserveTokens -> Int] /\ t \in 1..NumReserveTokens
      /\ next \in [1..NumReserveTokens -> Int] /\ next[t] = v
      /\ \A j \in 1..NumReserveTokens : j # t => next[j] = h[j]
  BY DEF Insurance!ReserveTokens
<1>3. SumTo(next, NumReserveTokens) = SumTo(h, NumReserveTokens) + (next[t] - h[t])
  BY ZenonT(60), <1>1, <1>2, EntrySet
<1> QED
  BY <1>2, <1>3

(* A premium goes into the reserve, its policy into the active coverage.    *)
LEMMA PurchaseKeeps ==
  ASSUME InsuranceInv, NEW owner \in Owners, NEW token \in Insurance!ReserveTokens,
         NEW coverage \in Coverages, NEW period \in Periods, NEW rate \in PremiumRates,
         NEW start \in 0..1,
         Insurance!PurchaseInsurance(owner, token, coverage, period, rate, start)
  PROVE  InsuranceInv'
<1> DEFINE premium == Insurance!calculate_premium(coverage, rate)
           policy == [owner |-> owner, token |-> token, coverage |-> coverage,
                      premium |-> premium, start |-> start,
                      expiry |-> now + period, claimed |-> FALSE]
           n == Len(policies)
<1>1. /\ premium > 0 /\ policies' = Append(policies, policy) /\ payouts' = Append(payouts, 0)
      /\ reserve_held' = [reserve_held EXCEPT ![token] = reserve_held[token] + premium]
      /\ reserve' = Insurance!ReserveWith(premium, coverage)
      /\ UNCHANGED now
  BY DEF Insurance!PurchaseInsurance
<1>2. premium \in Nat /\ coverage \in Nat /\ period \in Nat /\ now \in Int
  BY <1>1, PremiumTyped, InstanceAssumption DEF InsuranceInv, InsuranceTyped, Insurance!InsuranceAssumption
<1> HIDE DEF premium
<1>3. policy \in Policy /\ policy.premium = premium /\ policy.coverage = coverage /\ ~policy.claimed
  BY <1>2 DEF Policy
<1> HIDE DEF policy
<1>4. /\ n \in Nat /\ policies \in Seq(Policy) /\ payouts \in [1..n -> Nat]
      /\ DOMAIN policies = 1..n
  BY LedgersTyped DEF InsuranceInv, InsuranceTyped
<1>5. /\ policies' \in Seq(Policy) /\ Len(policies') = n + 1
      /\ \A i \in 1..n : policies'[i] = policies[i]
      /\ policies'[n + 1] = policy
  BY <1>1, <1>3, <1>4
<1>6. /\ payouts' \in [1..(n + 1) -> Nat]
      /\ \A i \in 1..n : payouts'[i] = payouts[i]
      /\ payouts'[n + 1] = 0
  <2>1. payouts \in Seq(Nat) /\ Len(payouts) = n
    BY <1>4
  <2>2. payouts' \in Seq(Nat) /\ Len(payouts') = n + 1
    BY <1>1, <2>1
  <2>3. payouts' \in [1..(n + 1) -> Nat]
    BY <2>2, LenProperties
  <2> QED
    BY <1>1, <1>4, <2>1, <2>3
<1>7. /\ reserve' \in ReserveSet
      /\ reserve'.premiums = reserve.premiums + premium
      /\ reserve'.current = reserve.current + premium
      /\ reserve'.active = reserve.active + coverage
      /\ reserve'.claims = reserve.claims
  <2>1. reserve \in ReserveSet
    BY DEF InsuranceInv, InsuranceTyped
  <2> QED
    BY <1>1, <1>2, <2>1, ReserveGrows
<1>8. /\ reserve_held' \in [Insurance!ReserveTokens -> Nat]
      /\ SumTo(reserve_held', NumReserveTokens) = SumTo(reserve_held, NumReserveTokens) + premium
  <2>1. reserve_held \in [Insurance!ReserveTokens -> Nat] /\ premium \in Int
    BY <1>2 DEF InsuranceInv, InsuranceTyped
  <2>2. reserve_held[token] \in Nat /\ reserve_held[token] + premium \in Nat
    BY <1>2, <2>1
  <2> DEFINE v == reserve_held[token] + premium
  <2>3. v \in Nat /\ reserve_held' = [reserve_held EXCEPT ![token] = v]
    BY <1>1, <2>2
  <2>4. v - reserve_held[token] = premium
    BY <1>2, <2>2
  <2> HIDE DEF v
  <2>5. /\ reserve_held' \in [Insurance!ReserveTokens -> Nat]
        /\ SumTo(reserve_held', NumReserveTokens) =
             SumTo(reserve_held, NumReserveTokens) + (v - reserve_held[token])
    BY <2>1, <2>3, HeldChanges
  <2> QED
    BY <2>4, <2>5
<1>9. InsuranceTyped'
  BY <1>1, <1>2, <1>5, <1>6, <1>7, <1>8 DEF InsuranceTyped
<1>11. /\ Insurance!Premiums \in [1..n -> Int] /\ Insurance!Unpaid \in [1..n -> Int]
       /\ payouts \in [1..n -> Int]
       /\ \A i \in 1..n : /\ Insurance!Premiums[i] = policies[i].premium
                          /\ Insurance!Unpaid[i] =
                               IF payouts[i] = 0 THEN policies[i].coverage ELSE 0
  BY LedgersTyped DEF InsuranceInv
<1>12. /\ Insurance!Premiums' \in [1..(n + 1) -> Int] /\ Insurance!Unpaid' \in [1..(n + 1) -> Int]
       /\ \A i \in 1..(n + 1) : /\ Insurance!Premiums'[i] = policies'[i].premium
                                /\ Insurance!Unpaid'[i] =
                                     IF payouts'[i] = 0 THEN policies'[i].coverage ELSE 0
  <2>1. DOMAIN policies' = 1..(n + 1)
    BY <1>4, <1>5
  <2>2. \A i \in 1..(n + 1) : policies'[i] \in Policy
    BY <1>4, <1>5
  <2>3. \A i \in 1..(n + 1) : policies'[i].premium \in Int /\ policies'[i].coverage \in Int
    BY <2>2 DEF Policy
  <2> QED
    BY <2>1, <2>3 DEF Insurance!Premiums, Insurance!Unpaid
<1>13. n + 1 \in 1..(n + 1) /\ \A i \in 1..n : i \in 1..(n + 1)
  BY <1>4
<1>14. SumTo(Insurance!Premiums', n + 1) = SumTo(Insurance!Premiums, n) + premium
  <2>1. \A i \in 1..n : Insurance!Premiums'[i] = Insurance!Premiums[i]
    BY <1>5, <1>11, <1>12, <1>13
  <2>2. Insurance!Premiums'[n + 1] = premium
    BY <1>3, <1>5, <1>12, <1>13
  <2> QED
    BY <1>4, <1>11, <1>12, <2>1, <2>2, SumToExtended
<1>15. SumTo(Insurance!Unpaid', n + 1) = SumTo(Insurance!Unpaid, n) + coverage
  <2>1. \A i \in 1..n : Insurance!Unpaid'[i] = Insurance!Unpaid[i]
    <3> SUFFICES ASSUME NEW i \in 1..n PROVE Insurance!Unpaid'[i] = Insurance!Unpaid[i]
      OBVIOUS
    <3>1. i \in 1..(n + 1)
      BY <1>13
    <3>2. Insurance!Unpaid'[i] = IF payouts'[i] = 0 THEN policies'[i].coverage ELSE 0
      BY <1>12, <3>1
    <3>3. Insurance!Unpaid[i] = IF payouts[i] = 0 THEN policies[i].coverage ELSE 0
      BY <1>11
    <3>4. policies'[i] = policies[i] /\ payouts'[i] = payouts[i]
      BY <1>5, <1>6, <3>1
    <3> QED
      BY <3>2, <3>3, <3>4
  <2>2. Insurance!Unpaid'[n + 1] = coverage
    BY <1>3, <1>5, <1>6, <1>12, <1>13
  <2> QED
    BY <1>4, <1>11, <1>12, <2>1, <2>2, SumToExtended
<1>16. SumTo(payouts', n + 1) = SumTo(payouts, n)
  <2>1. payouts' \in [1..(n + 1) -> Int]
    BY <1>6
  <2>2. SumTo(payouts', n + 1) = SumTo(payouts, n) + payouts'[n + 1]
    BY <1>4, <1>6, <1>11, <2>1, SumToExtended
  <2>3. SumTo(payouts, n) \in Int
    BY SMTT(40), <1>4, <1>11, SumToDef
  <2> QED
    BY <1>6, <2>2, <2>3
<1>17. \A i \in DOMAIN policies' : payouts'[i] <= policies'[i].coverage
  <2>1. \A i \in 1..n : payouts[i] <= policies[i].coverage
    BY <1>4 DEF InsuranceInv, Insurance!InsuranceKeepsItsWord, Insurance!ReserveIsThere
  <2>2. DOMAIN policies' = 1..(n + 1) /\ policies'[n + 1].coverage = coverage
    BY <1>3, <1>4, <1>5
  <2>3. \A i \in 1..n : payouts'[i] <= policies'[i].coverage
    BY <1>5, <1>6, <2>1
  <2>4. payouts'[n + 1] <= policies'[n + 1].coverage
    BY <1>2, <1>6, <2>2
  <2> QED
    BY <1>4, <2>2, <2>3, <2>4
<1>18. PaidWereClaimed'
  <2>1. \A i \in 1..n : payouts'[i] > 0 => policies'[i].claimed
    BY <1>5, <1>6 DEF InsuranceInv, PaidWereClaimed
  <2> QED
    BY <1>4, <1>5, <1>6, <2>1 DEF PaidWereClaimed
<1>19. /\ reserve.current \in Nat /\ reserve.premiums \in Nat /\ reserve.claims \in Nat
       /\ reserve.active \in Nat
       /\ reserve.current = reserve.premiums - reserve.claims
       /\ reserve.current = SumTo(reserve_held, NumReserveTokens)
       /\ reserve.premiums = SumTo(Insurance!Premiums, n)
       /\ reserve.claims = SumTo(payouts, n)
       /\ reserve.active = SumTo(Insurance!Unpaid, n)
  BY InsuranceSums DEF InsuranceInv, InsuranceTyped, ReserveSet, Insurance!InsuranceKeepsItsWord,
                       Insurance!ReserveIsThere, Insurance!ActiveIsCounted
<1>20. Insurance!ReserveIsThere' /\ Insurance!ActiveIsCounted'
  BY <1>2, <1>5, <1>7, <1>8, <1>14, <1>15, <1>16, <1>17, <1>19, InsuranceSums
  DEF Insurance!ReserveIsThere, Insurance!ActiveIsCounted
<1> QED
  BY <1>9, <1>18, <1>20 DEF InsuranceInv, Insurance!InsuranceKeepsItsWord

(* A claim is paid out of the reserve, and a policy that was paid leaves    *)
(* the active coverage.                                                     *)
LEMMA ClaimKeeps ==
  ASSUME InsuranceInv, NEW owner \in Owners, NEW i \in DOMAIN policies,
         NEW compensation \in 0..policies[i].coverage,
         Insurance!ClaimIlCompensation(owner, i, compensation)
  PROVE  InsuranceInv'
<1> DEFINE payout == Insurance!Payout(compensation)
           coverage == policies[i].coverage
           token == policies[i].token
           n == Len(policies)
<1>1. /\ ~policies[i].claimed
      /\ policies' = [policies EXCEPT ![i].claimed = TRUE]
      /\ \/ payout = 0 /\ UNCHANGED <<reserve, reserve_held, payouts>>
         \/ /\ payout > 0 /\ reserve_held[token] >= payout
            /\ reserve_held' = [reserve_held EXCEPT ![token] = reserve_held[token] - payout]
            /\ payouts' = [payouts EXCEPT ![i] = payout]
            /\ reserve' = Insurance!ReserveAfter(i, payout)
      /\ UNCHANGED now
  BY DEF Insurance!ClaimIlCompensation
<1>2. /\ n \in Nat /\ DOMAIN policies = 1..n /\ i \in 1..n
      /\ policies \in Seq(Policy) /\ payouts \in [1..n -> Nat] /\ payouts \in [1..n -> Int]
      /\ Insurance!Premiums \in [1..n -> Int] /\ Insurance!Unpaid \in [1..n -> Int]
      /\ \A j \in 1..n :
           /\ policies[j] \in Policy
           /\ Insurance!Premiums[j] = policies[j].premium
           /\ Insurance!Unpaid[j] = IF payouts[j] = 0 THEN policies[j].coverage ELSE 0
  <2>1. InsuranceTyped
    BY DEF InsuranceInv
  <2>2. policies \in Seq(Policy) /\ payouts \in [1..n -> Nat]
    BY <2>1 DEF InsuranceTyped
  <2>3. /\ n \in Nat /\ DOMAIN policies = 1..n /\ payouts \in [1..n -> Int]
        /\ \A j \in 1..n :
             /\ policies[j] \in Policy
             /\ Insurance!Premiums[j] = policies[j].premium
             /\ Insurance!Unpaid[j] = IF payouts[j] = 0 THEN policies[j].coverage ELSE 0
    BY <2>1, LedgersTyped
  <2>4. Insurance!Premiums \in [1..n -> Int] /\ Insurance!Unpaid \in [1..n -> Int]
    <3>1. Insurance!Premiums \in [1..n -> Nat] /\ Insurance!Unpaid \in [1..n -> Nat]
      BY <2>1, LedgersTyped
    <3> HIDE DEF n
    <3> QED
      BY <3>1
  <2> QED
    BY <2>2, <2>3, <2>4
<1>3. coverage \in Nat /\ token \in Insurance!ReserveTokens /\ payouts[i] \in Nat
  BY <1>2 DEF Policy
<1>4. payouts[i] = 0 /\ Insurance!Unpaid[i] = coverage
  BY <1>1, <1>2, <1>3 DEF InsuranceInv, PaidWereClaimed
<1>5. reserve \in ReserveSet /\ reserve_held \in [Insurance!ReserveTokens -> Nat]
  BY DEF InsuranceInv, InsuranceTyped
<1>6. /\ reserve.current \in Nat /\ reserve.premiums \in Nat /\ reserve.claims \in Nat
      /\ reserve.active \in Nat
      /\ reserve.current = reserve.premiums - reserve.claims
      /\ reserve.current = SumTo(reserve_held, NumReserveTokens)
      /\ reserve.premiums = SumTo(Insurance!Premiums, n)
      /\ reserve.claims = SumTo(payouts, n)
      /\ reserve.active = SumTo(Insurance!Unpaid, n)
      /\ \A j \in 1..n : payouts[j] <= policies[j].coverage
  BY <1>2, <1>5, InsuranceSums
  DEF InsuranceInv, InsuranceTyped, ReserveSet, Insurance!InsuranceKeepsItsWord,
      Insurance!ReserveIsThere, Insurance!ActiveIsCounted
<1>7. payout \in Nat /\ payout <= reserve.current /\ payout <= coverage
  BY <1>3, <1>6 DEF Insurance!Payout, Insurance!Smaller
<1>8. coverage <= reserve.active
  <2>1. \A j \in 1..n : Insurance!Unpaid[j] >= 0
    <3>1. \A j \in 1..n : policies[j].coverage \in Nat
      BY <1>2 DEF Policy
    <3> QED
      BY <1>2, <3>1
  <2> QED
    <3> DEFINE f == Insurance!Unpaid
    <3>1. f \in [1..n -> Nat] /\ f[i] = coverage /\ reserve.active = SumTo(f, n)
      BY <1>2, <1>4, <1>6, <2>1
    <3> HIDE DEF f
    <3>2. f[i] <= SumTo(f, n)
      BY <1>2, <3>1, SumToMember
    <3> QED
      BY <1>3, <1>6, <3>1, <3>2
<1>9. /\ policies' \in Seq(Policy) /\ Len(policies') = n
      /\ \A j \in 1..n : /\ policies'[j].premium = policies[j].premium
                         /\ policies'[j].coverage = policies[j].coverage
                         /\ policies'[j].claimed <=> (policies[j].claimed \/ j = i)
  <2> DEFINE q == [policies[i] EXCEPT !.claimed = TRUE]
  <2>1. /\ q \in Policy /\ q.premium = policies[i].premium /\ q.coverage = policies[i].coverage
        /\ q.claimed
    BY <1>2 DEF Policy
  <2>2. policies' = [policies EXCEPT ![i] = q]
    BY <1>1
  <2> HIDE DEF q
  <2> QED
    BY <1>2, <2>1, <2>2
<1> HIDE DEF payout, coverage, token
<1>10. CASE payout = 0
  <2>1. UNCHANGED <<reserve, reserve_held, payouts, now>>
    BY <1>1, <1>10
  <2>2. InsuranceTyped'
    BY <1>2, <1>9, <2>1 DEF InsuranceInv, InsuranceTyped
  <2>3. PaidWereClaimed'
    BY <1>2, <1>9, <2>1 DEF InsuranceInv, PaidWereClaimed
  <2>4. Insurance!Premiums' = Insurance!Premiums /\ Insurance!Unpaid' = Insurance!Unpaid
    BY <1>2, <1>9, <2>1 DEF Insurance!Premiums, Insurance!Unpaid
  <2>5. \A j \in DOMAIN policies' : payouts'[j] <= policies'[j].coverage
    BY <1>2, <1>6, <1>9, <2>1
  <2>6. Insurance!ReserveIsThere' /\ Insurance!ActiveIsCounted'
    BY <1>6, <1>9, <2>1, <2>4, <2>5, InsuranceSums
    DEF Insurance!ReserveIsThere, Insurance!ActiveIsCounted
  <2> QED
    BY <2>2, <2>3, <2>6 DEF InsuranceInv, Insurance!InsuranceKeepsItsWord
<1>11. CASE payout > 0
  <2>1. /\ reserve_held[token] >= payout
        /\ reserve_held' = [reserve_held EXCEPT ![token] = reserve_held[token] - payout]
        /\ payouts' = [payouts EXCEPT ![i] = payout]
        /\ reserve' = Insurance!ReserveAfter(i, payout) /\ UNCHANGED now
    BY <1>1, <1>7, <1>11
  <2>2. /\ reserve' \in ReserveSet /\ reserve'.premiums = reserve.premiums
        /\ reserve'.current = reserve.current - payout
        /\ reserve'.active = reserve.active - coverage
        /\ reserve'.claims = reserve.claims + payout
    <3>1. policies[i].coverage \in Nat /\ policies[i].coverage <= reserve.active
      BY <1>3, <1>8 DEF coverage
    <3> QED
      BY <1>5, <1>7, <2>1, <3>1, ReserveShrinks DEF coverage
  <2>3. /\ reserve_held' \in [Insurance!ReserveTokens -> Nat]
        /\ SumTo(reserve_held', NumReserveTokens) =
             SumTo(reserve_held, NumReserveTokens) - payout
    <3> DEFINE rest == reserve_held[token] - payout
    <3>1. reserve_held[token] \in Nat /\ rest \in Nat /\ rest - reserve_held[token] = 0 - payout
      BY <1>3, <1>5, <1>7, <2>1
    <3>2. reserve_held' = [reserve_held EXCEPT ![token] = rest]
      BY <2>1
    <3>3. SumTo(reserve_held, NumReserveTokens) \in Int
      BY <1>6
    <3> HIDE DEF rest
    <3>4. /\ reserve_held' \in [Insurance!ReserveTokens -> Nat]
          /\ SumTo(reserve_held', NumReserveTokens) =
               SumTo(reserve_held, NumReserveTokens) + (rest - reserve_held[token])
      BY <1>3, <1>5, <3>1, <3>2, HeldChanges
    <3> QED
      BY <1>7, <3>1, <3>3, <3>4
  <2>4. /\ payouts' \in [1..n -> Nat] /\ payouts' \in [1..n -> Int]
        /\ \A j \in 1..n : payouts'[j] = IF j = i THEN payout ELSE payouts[j]
        /\ SumTo(payouts', n) = SumTo(payouts, n) + payout
    <3>1. /\ payouts' \in [1..n -> Nat] /\ payouts' \in [1..n -> Int]
          /\ \A j \in 1..n : payouts'[j] = IF j = i THEN payout ELSE payouts[j]
      BY <1>2, <1>7, <2>1
    <3>2. /\ SumTo(payouts', n) = SumTo(payouts, n) + (payouts'[i] - payouts[i])
          /\ SumTo(payouts, n) \in Int
      BY <1>2, <3>1, EntrySet
    <3> QED
      BY <1>2, <1>4, <1>7, <3>1, <3>2
  <2>5. Insurance!Premiums' = Insurance!Premiums
    BY <1>2, <1>9 DEF Insurance!Premiums
  <2>6. SumTo(Insurance!Unpaid', n) = SumTo(Insurance!Unpaid, n) - coverage
    <3> DEFINE f == Insurance!Unpaid
    <3>1. f \in [1..n -> Int] /\ f[i] = coverage
      BY <1>2, <1>4
    <3>2. \A j \in 1..n :
            (IF payouts'[j] = 0 THEN policies'[j].coverage ELSE 0) =
               IF j = i THEN 0 ELSE f[j]
      BY <1>2, <1>7, <1>9, <1>11, <2>4
    <3>3. Insurance!Unpaid' = [j \in 1..n |-> IF j = i THEN 0 ELSE f[j]]
      <4>1. DOMAIN policies' = 1..n
        BY <1>2, <1>9
      <4> QED
        BY <3>2, <4>1 DEF Insurance!Unpaid
    <3> DEFINE g == Insurance!Unpaid'
    <3>4. /\ g \in [1..n -> Int] /\ g[i] = 0
          /\ \A j \in 1..n : j # i => g[j] = f[j]
      BY <1>2, <3>1, <3>3
    <3> HIDE DEF f, g
    <3>5. SumTo(g, n) = SumTo(f, n) + (g[i] - f[i]) /\ SumTo(f, n) \in Int
      BY <1>2, <3>1, <3>4, EntrySet
    <3>6. SumTo(Insurance!Unpaid', n) = SumTo(f, n) - coverage
      BY <1>3, <3>1, <3>4, <3>5 DEF g
    <3> QED
      BY <3>6 DEF f
  <2>7. \A j \in DOMAIN policies' : payouts'[j] <= policies'[j].coverage
    <3> SUFFICES ASSUME NEW j \in 1..n
                 PROVE  payouts'[j] <= policies'[j].coverage
      BY <1>2, <1>9
    <3>1. CASE j = i
      BY <1>2, <1>7, <1>9, <2>4, <3>1 DEF coverage
    <3>2. CASE j # i
      BY <1>6, <1>9, <2>4, <3>2
    <3> QED
      BY <3>1, <3>2
  <2>8. InsuranceTyped'
    BY <1>9, <2>1, <2>2, <2>3, <2>4 DEF InsuranceInv, InsuranceTyped
  <2>9. PaidWereClaimed'
    BY <1>2, <1>9, <2>4 DEF InsuranceInv, PaidWereClaimed
  <2>10. Insurance!ReserveIsThere' /\ Insurance!ActiveIsCounted'
    BY SMTT(40), <1>3, <1>6, <1>7, <1>9, <2>2, <2>3, <2>4, <2>5, <2>6, <2>7, InsuranceSums
    DEF Insurance!ReserveIsThere, Insurance!ActiveIsCounted
  <2> QED
    BY <2>8, <2>9, <2>10 DEF InsuranceInv, Insurance!InsuranceKeepsItsWord
<1> QED
  BY <1>7, <1>10, <1>11

(* Every call of the insurance keeps the invariant.                         *)
LEMMA InsuranceNext ==
  ASSUME InsuranceInv, Insurance!Next
  PROVE  InsuranceInv'
<1>1. CASE Insurance!Tick
  <2>1. /\ UNCHANGED <<policies, reserve, reserve_held, payouts>> /\ now' = now + 1
        /\ now \in Int
    BY <1>1 DEF Insurance!Tick, InsuranceInv, InsuranceTyped
  <2>2. InsuranceTyped'
    BY <2>1 DEF InsuranceInv, InsuranceTyped
  <2>3. PaidWereClaimed'
    BY <2>1 DEF InsuranceInv, PaidWereClaimed
  <2>4. Insurance!InsuranceKeepsItsWord'
    BY <2>1 DEF InsuranceInv, Insurance!InsuranceKeepsItsWord, Insurance!ReserveIsThere,
                Insurance!ActiveIsCounted, Insurance!Premiums, Insurance!Unpaid
  <2> QED
    BY <2>2, <2>3, <2>4 DEF InsuranceInv
<1> QED
  BY <1>1, PurchaseKeeps, ClaimKeeps DEF Insurance!Next

-----------------------------------------------------------------------------
(* The strategy registry.                                                  *)

Strategy == [creator: Creators, is_active: BOOLEAN, performance_history: Seq(Values)]
LogEntry == [id: Nat, did: Values \cup Registry!Changes]

RegistryTyped == registered \in Seq(Strategy) /\ log \in Seq(LogEntry)

(* The m-th entry of the log is the last of those in S.                     *)
IsLast(m, S) == m \in S /\ \A i \in S : i <= m

ChangesDecide ==
  \A id \in 1..Len(registered) : \E m \in 1..Len(log) :
    IsLast(m, Registry!ChangesOf(id)) /\ (registered[id].is_active <=> log[m].did = "approved")

RegistryInv == RegistryTyped /\ ChangesDecide

(* The registry starts without strategies.                                  *)
LEMMA RegistryStarts == Registry!Init => RegistryInv
  BY DEF Registry!Init, RegistryInv, RegistryTyped, ChangesDecide

(* A performance history keeps to its values when it is cut.                *)
LEMMA KeptTyped ==
  ASSUME NEW h \in Seq(Values), NEW v \in Values
  PROVE  Registry!Kept(Append(h, v), HistoryKept) \in Seq(Values)
<1>1. Append(h, v) \in Seq(Values) /\ HistoryKept \in Nat
  BY InstanceAssumption DEF Registry!RegistryAssumption
<1> DEFINE g == Append(h, v)
<1> HIDE DEF g
<1>2. ASSUME Len(g) > HistoryKept
      PROVE  SubSeq(g, Len(g) - HistoryKept + 1, Len(g)) \in Seq(Values)
  <2>1. g \in Seq(Values) /\ Len(g) \in Nat
    BY <1>1 DEF g
  <2> QED
    BY <1>1, <1>2, <2>1, SubSeqProperties
<1> QED
  BY <1>1, <1>2 DEF Registry!Kept, Registry!LastOf, g

(* An entry of the log is the last change of its strategy, if it is one,    *)
(* and leaves the last changes of the others.                               *)
LEMMA LoggedChange ==
  ASSUME RegistryTyped, NEW e \in LogEntry, log' = Append(log, e), NEW id \in Nat
  PROVE  /\ log' \in Seq(LogEntry) /\ Len(log') = Len(log) + 1 /\ log'[Len(log')] = e
         /\ e.id = id /\ e.did \in Registry!Changes => IsLast(Len(log'), Registry!ChangesOf(id)')
         /\ ~(e.id = id /\ e.did \in Registry!Changes) =>
              \A m \in 1..Len(log) :
                IsLast(m, Registry!ChangesOf(id)) =>
                  IsLast(m, Registry!ChangesOf(id)') /\ log'[m] = log[m]
<1>1. /\ log \in Seq(LogEntry) /\ Len(log) \in Nat
      /\ log' \in Seq(LogEntry) /\ Len(log') = Len(log) + 1
      /\ \A i \in 1..Len(log') : log'[i] = IF i <= Len(log) THEN log[i] ELSE e
      /\ log'[Len(log')] = e
      /\ DOMAIN log = 1..Len(log) /\ DOMAIN log' = 1..Len(log')
  BY DEF RegistryTyped
<1>2. /\ Registry!ChangesOf(id) =
           {i \in 1..Len(log) : log[i].id = id /\ log[i].did \in Registry!Changes}
      /\ Registry!ChangesOf(id)' =
           {i \in 1..Len(log') : log'[i].id = id /\ log'[i].did \in Registry!Changes}
  BY <1>1 DEF Registry!ChangesOf
<1>3. ASSUME e.id = id, e.did \in Registry!Changes
      PROVE  IsLast(Len(log'), Registry!ChangesOf(id)')
  <2>1. Len(log') \in Registry!ChangesOf(id)'
    BY <1>1, <1>2, <1>3
  <2>2. \A i \in Registry!ChangesOf(id)' : i <= Len(log')
    BY <1>1, <1>2
  <2> QED
    BY <2>1, <2>2 DEF IsLast
<1>4. ASSUME ~(e.id = id /\ e.did \in Registry!Changes), NEW m \in 1..Len(log),
             IsLast(m, Registry!ChangesOf(id))
      PROVE  IsLast(m, Registry!ChangesOf(id)') /\ log'[m] = log[m]
  <2>1. Registry!ChangesOf(id)' = Registry!ChangesOf(id)
    BY <1>1, <1>2, <1>4
  <2>2. log'[m] = log[m]
    BY <1>1, <1>4
  <2> QED
    BY <1>4, <2>1, <2>2
<1> QED
  BY <1>1, <1>3, <1>4

(* A change of one strategy, or a record of it, that the log tells of.      *)
LEMMA StrategyChanged ==
  ASSUME RegistryInv, NEW id \in 1..Len(registered), NEW s \in Strategy, NEW e \in LogEntry,
         registered' = [registered EXCEPT ![id] = s], log' = Append(log, e), e.id = id,
         IF e.did \in Registry!Changes THEN s.is_active <=> e.did = "approved"
         ELSE s.is_active = registered[id].is_active
  PROVE  RegistryInv'
<1>1. /\ registered \in Seq(Strategy) /\ registered' \in Seq(Strategy)
      /\ Len(registered') = Len(registered)
      /\ \A i \in 1..Len(registered) : registered'[i] = IF i = id THEN s ELSE registered[i]
  BY DEF RegistryInv, RegistryTyped
<1>2. /\ log' \in Seq(LogEntry) /\ Len(log') = Len(log) + 1 /\ log'[Len(log')] = e
      /\ Len(log) \in Nat
  BY LoggedChange DEF RegistryInv, RegistryTyped
<1>3. ASSUME NEW i \in 1..Len(registered')
      PROVE  \E m \in 1..Len(log') :
               /\ IsLast(m, Registry!ChangesOf(i)')
               /\ registered'[i].is_active <=> log'[m].did = "approved"
  <2>1. i \in Nat /\ i \in 1..Len(registered)
    BY <1>1, <1>3
  <2>2. CASE e.id = i /\ e.did \in Registry!Changes
    <3>1. IsLast(Len(log'), Registry!ChangesOf(i)')
      BY <2>1, <2>2, LoggedChange DEF RegistryInv
    <3>2. registered'[i] = s
      BY <1>1, <2>1, <2>2
    <3> QED
      BY <1>2, <2>2, <3>1, <3>2
  <2>3. CASE ~(e.id = i /\ e.did \in Registry!Changes)
    <3>1. PICK m \in 1..Len(log) : /\ IsLast(m, Registry!ChangesOf(i))
                                   /\ registered[i].is_active <=> log[m].did = "approved"
      BY <2>1 DEF RegistryInv, ChangesDecide
    <3>2. IsLast(m, Registry!ChangesOf(i)') /\ log'[m] = log[m]
      BY <2>1, <2>3, <3>1, LoggedChange DEF RegistryInv
    <3>3. registered'[i].is_active = registered[i].is_active
      BY <1>1, <2>1, <2>3
    <3> QED
      BY <1>2, <3>1, <3>2, <3>3
  <2> QED
    BY <2>2, <2>3
<1>4. ChangesDecide'
  BY <1>3 DEF ChangesDecide
<1> QED
  BY <1>1, <1>2, <1>4 DEF RegistryInv, RegistryTyped

(* Every call of the registry keeps the invariant.                          *)
LEMMA RegistryNext ==
  ASSUME RegistryInv, Registry!Next
  PROVE  RegistryInv'
<1>1. /\ registered \in Seq(Strategy) /\ DOMAIN registered = 1..Len(registered)
      /\ \A id \in 1..Len(registered) : id \in Nat /\ registered[id] \in Strategy
      /\ Len(registered) \in Nat
  BY DEF RegistryInv, RegistryTyped
<1>2. ASSUME NEW creator \in Creators, Registry!RegisterStrategy(creator)
      PROVE  RegistryInv'
  <2> DEFINE s == [creator |-> creator, is_active |-> FALSE, performance_history |-> <<>>]
             n == Len(registered) + 1
             e == [id |-> n, did |-> "registered"]
  <2>1. registered' = Append(registered, s) /\ log' = Append(log, e)
    BY <1>2 DEF Registry!RegisterStrategy, Registry!Did
  <2>2. s \in Strategy /\ ~s.is_active
    BY DEF Strategy
  <2>3. e \in LogEntry /\ e.id = n /\ e.did = "registered" /\ n \in Nat
    BY <1>1 DEF LogEntry, Registry!Changes
  <2>4. e.did \in Registry!Changes /\ e.did # "approved"
    BY DEF Registry!Changes
  <2> HIDE DEF s, e
  <2>5. /\ registered' \in Seq(Strategy) /\ Len(registered') = n
        /\ \A i \in 1..Len(registered') :
             registered'[i] = IF i <= Len(registered) THEN registered[i] ELSE s
    BY <1>1, <2>1, <2>2
  <2>6. /\ log' \in Seq(LogEntry) /\ Len(log') = Len(log) + 1 /\ log'[Len(log')] = e
        /\ Len(log) \in Nat
    BY <2>1, <2>3, LoggedChange DEF RegistryInv, RegistryTyped
  <2>7. ASSUME NEW i \in 1..Len(registered')
        PROVE  \E m \in 1..Len(log') :
                 /\ IsLast(m, Registry!ChangesOf(i)')
                 /\ registered'[i].is_active <=> log'[m].did = "approved"
    <3>1. CASE i = n
      <4>1. IsLast(Len(log'), Registry!ChangesOf(i)')
        BY <2>1, <2>3, <2>4, <3>1, LoggedChange DEF RegistryInv
      <4>2. ~registered'[i].is_active
        BY <1>1, <2>2, <2>5, <3>1
      <4> QED
        BY <2>4, <2>6, <4>1, <4>2
    <3>2. CASE i # n
      <4>1. i \in 1..Len(registered) /\ i \in Nat /\ registered'[i] = registered[i]
        BY <1>1, <2>5, <2>7, <3>2
      <4>2. PICK m \in 1..Len(log) : /\ IsLast(m, Registry!ChangesOf(i))
                                     /\ registered[i].is_active <=> log[m].did = "approved"
        BY <4>1 DEF RegistryInv, ChangesDecide
      <4>3. IsLast(m, Registry!ChangesOf(i)') /\ log'[m] = log[m]
        BY <2>1, <2>3, <3>2, <4>1, <4>2, LoggedChange DEF RegistryInv
      <4> QED
        BY <2>6, <4>1, <4>2, <4>3
    <3> QED
      BY <3>1, <3>2
  <2>8. ChangesDecide'
    BY <2>7 DEF ChangesDecide
  <2> QED
    BY <2>5, <2>6, <2>8 DEF RegistryInv, RegistryTyped
<1>3. ASSUME NEW id \in 1..Len(registered), Registry!ApproveStrategy(id)
      PROVE  RegistryInv'
  <2> DEFINE s == [registered[id] EXCEPT !.is_active = TRUE]
             e == [id |-> id, did |-> "approved"]
  <2>1. registered' = [registered EXCEPT ![id] = s] /\ log' = Append(log, e)
    BY <1>3 DEF Registry!ApproveStrategy, Registry!Did
  <2>2. s \in Strategy /\ s.is_active
    BY <1>1 DEF Strategy
  <2>3. e \in LogEntry /\ e.id = id /\ e.did = "approved" /\ e.did \in Registry!Changes
    BY <1>1 DEF LogEntry, Registry!Changes, Registry!Decisions
  <2> HIDE DEF s, e
  <2> QED
    BY <2>1, <2>2, <2>3, StrategyChanged
<1>4. ASSUME NEW id \in 1..Len(registered), Registry!DeactivateStrategy(id)
      PROVE  RegistryInv'
  <2> DEFINE s == [registered[id] EXCEPT !.is_active = FALSE]
             e == [id |-> id, did |-> "deactivated"]
  <2>1. registered' = [registered EXCEPT ![id] = s] /\ log' = Append(log, e)
    BY <1>4 DEF Registry!DeactivateStrategy, Registry!Did
  <2>2. s \in Strategy /\ ~s.is_active
    BY <1>1 DEF Strategy
  <2>3. /\ e \in LogEntry /\ e.id = id /\ e.did = "deactivated" /\ e.did \in Registry!Changes
        /\ e.did # "approved"
    BY <1>1 DEF LogEntry, Registry!Changes, Registry!Decisions
  <2> HIDE DEF s, e
  <2> QED
    BY <2>1, <2>2, <2>3, StrategyChanged
<1>5. ASSUME NEW id \in 1..Len(registered), NEW creator \in Creators,
             Registry!UpdateStrategy(creator, id)
      PROVE  RegistryInv'
  <2> DEFINE s == [registered[id] EXCEPT !.is_active = FALSE]
             e == [id |-> id, did |-> "updated"]
  <2>1. registered' = [registered EXCEPT ![id] = s] /\ log' = Append(log, e)
    BY <1>5 DEF Registry!UpdateStrategy, Registry!Did, Registry!Updated
  <2>2. s \in Strategy /\ ~s.is_active
    BY <1>1 DEF Strategy
  <2>3. /\ e \in LogEntry /\ e.id = id /\ e.did = "updated" /\ e.did \in Registry!Changes
        /\ e.did # "approved"
    BY <1>1 DEF LogEntry, Registry!Changes
  <2> HIDE DEF s, e
  <2> QED
    BY <2>1, <2>2, <2>3, StrategyChanged
<1>6. ASSUME NEW id \in 1..Len(registered), NEW value \in Values,
             Registry!RecordPerformance(id, value)
      PROVE  RegistryInv'
  <2> DEFINE h == Registry!Kept(Append(registered[id].performance_history, value), HistoryKept)
             s == [registered[id] EXCEPT !.performance_history = h]
             e == [id |-> id, did |-> value]
  <2>1. registered' = [registered EXCEPT ![id] = s] /\ log' = Append(log, e)
    BY <1>6 DEF Registry!RecordPerformance, Registry!Did
  <2>2. h \in Seq(Values)
    BY <1>1, KeptTyped DEF Strategy
  <2>3. e \in LogEntry /\ e.id = id /\ e.did \notin Registry!Changes
    BY <1>1, InstanceAssumption DEF LogEntry, Registry!RegistryAssumption
  <2> HIDE DEF h, e
  <2>4. s \in Strategy /\ s.is_active = registered[id].is_active
    BY <1>1, <2>2 DEF Strategy
  <2> HIDE DEF s
  <2> QED
    BY <2>1, <2>3, <2>4, StrategyChanged
<1>7. ASSUME NEW b \in BOOLEAN, Registry!SetPaused(b)
      PROVE  RegistryInv'
  BY <1>7 DEF Registry!SetPaused, RegistryInv, RegistryTyped, ChangesDecide, IsLast,
              Registry!ChangesOf
<1> QED
  BY <1>1, <1>2, <1>3, <1>4, <1>5, <1>6, <1>7 DEF Registry!Next

(* So the invariant implies the property.                                   *)
LEMMA ChangesDecideActivity == RegistryInv => Registry!ActiveIsApproved
<1> SUFFICES ASSUME RegistryInv, NEW id \in DOMAIN registered
             PROVE  registered[id].is_active <=>
                      log[Registry!Max(Registry!ChangesOf(id))].did = "approved"
  BY DEF Registry!ActiveIsApproved
<1>1. PICK m \in 1..Len(log) : /\ IsLast(m, Registry!ChangesOf(id))
                               /\ registered[id].is_active <=> log[m].did = "approved"
  BY DEF RegistryInv, RegistryTyped, ChangesDecide
<1>2. \A i \in Registry!ChangesOf(id) : i \in Nat
  BY DEF RegistryInv, RegistryTyped, Registry!ChangesOf
<1>3. Registry!Max(Registry!ChangesOf(id)) = m
  <2> DEFINE S == Registry!ChangesOf(id)
  <2>1. m \in S /\ (\A i \in S : i <= m) /\ (\A i \in S : i \in Nat)
    BY <1>1, <1>2 DEF IsLast
  <2> HIDE DEF S
  <2>2. \A x \in S : (\A y \in S : x >= y) <=> x = m
    BY <2>1
  <2>3. Registry!Max(S) = m
    BY <2>1, <2>2, Zenon DEF Registry!Max
  <2> QED
    BY <2>3 DEF S
<1> QED
  BY <1>1, <1>3

-----------------------------------------------------------------------------
(* The logs and the pages of the strategy registry: what is chosen of a     *)
(* sequence that grows, what is the newest of it, and that its pages make   *)
(* it up.                                                                   *)

(* What was chosen of the first elements of seq, named so that lemmas can   *)
(* speak of it.                                                             *)
IsChosen(seq, S, g) ==
  g = [i \in 0..Len(seq) |->
         IF i = 0 THEN <<>>
         ELSE IF seq[i] \in S THEN Append(g[i - 1], seq[i]) ELSE g[i - 1]]

Chosen(seq, S) == CHOOSE g : IsChosen(seq, S, g)

(* Something is chosen of every sequence.                                   *)
LEMMA ChosenExists ==
  ASSUME NEW T, NEW seq \in Seq(T), NEW S
  PROVE  \E g : IsChosen(seq, S, g)
<1> DEFINE n == Len(seq)
           Next1(g, i) == IF seq[i] \in S THEN Append(g[i - 1], seq[i]) ELSE g[i - 1]
           Has(k) == \E g : /\ DOMAIN g = 0..k /\ g = [i \in 0..k |-> g[i]] /\ g[0] = <<>>
                            /\ \A i \in 1..k : g[i] = Next1(g, i)
           U == {k \in 0..n : ~Has(k)}
<1>0. n \in Nat
  OBVIOUS
<1> HIDE DEF n
<1>1. U = {}
  <2>1. SUFFICES ASSUME U # {} PROVE FALSE
    OBVIOUS
  <2>2. PICK m \in U : \A k \in U : m <= k
    <3>1. U \subseteq Nat
      BY <1>0
    <3> HIDE DEF U
    <3> QED
      BY <2>1, <3>1, NatMinimum
  <2>3. Has(0)
    <3> DEFINE g0 == [i \in 0..0 |-> <<>>]
    <3>1. /\ DOMAIN g0 = 0..0 /\ g0 = [i \in 0..0 |-> g0[i]] /\ g0[0] = <<>>
          /\ \A i \in 1..0 : FALSE
      OBVIOUS
    <3> HIDE DEF g0
    <3> QED
      BY <3>1
  <2>4. m \in Nat \ {0} /\ m - 1 \in 0..n /\ Has(m - 1)
    <3>1. m \in 0..n /\ ~Has(m)
      OBVIOUS
    <3>2. \A k \in 0..n : ~Has(k) => m <= k
      BY <2>2
    <3> HIDE DEF Has, U
    <3>3. m # 0
      BY <2>3, <3>1
    <3> QED
      BY <1>0, <3>1, <3>2, <3>3
  <2>5. PICK g : /\ DOMAIN g = 0..(m - 1) /\ g[0] = <<>>
                 /\ \A i \in 1..(m - 1) : g[i] = Next1(g, i)
    BY <2>4
  <2> DEFINE h == [i \in 0..m |-> IF i = m THEN Next1(g, m) ELSE g[i]]
  <2>6. DOMAIN h = 0..m /\ h = [i \in 0..m |-> h[i]]
    OBVIOUS
  <2>7. /\ \A i \in 0..(m - 1) : h[i] = g[i]
        /\ h[m] = Next1(g, m)
    BY <2>4
  <2> HIDE DEF h
  <2>8. h[0] = <<>>
    BY <2>4, <2>5, <2>7
  <2>9. ASSUME NEW i \in 1..m PROVE h[i] = Next1(h, i)
    <3>1. i - 1 \in 0..(m - 1) /\ h[i - 1] = g[i - 1]
      BY <2>4, <2>7
    <3>2. CASE i = m
      BY <2>7, <3>1, <3>2
    <3>3. CASE i # m
      <4>1. i \in 1..(m - 1) /\ i \in 0..(m - 1)
        BY <2>4, <3>3
      <4> QED
        BY <2>5, <2>7, <3>1, <4>1
    <3> QED
      BY <3>2, <3>3
  <2>10. Has(m)
    BY <2>6, <2>8, <2>9
  <2> QED
    BY <2>2, <2>10
<1>2. Has(n)
  <2>1. n \notin U /\ n \in 0..n
    BY <1>0, <1>1
  <2> QED
    BY <2>1
<1>3. PICK g : /\ DOMAIN g = 0..n /\ g = [i \in 0..n |-> g[i]] /\ g[0] = <<>>
               /\ \A i \in 1..n : g[i] = Next1(g, i)
  BY <1>2
<1>4. \A i \in 0..n : g[i] = IF i = 0 THEN <<>> ELSE Next1(g, i)
  <2> HIDE DEF Next1
  <2>1. \A i \in 0..n : i # 0 => i \in 1..n
    BY <1>0
  <2> QED
    BY <1>3, <2>1
<1>5. g = [i \in 0..n |-> IF i = 0 THEN <<>> ELSE Next1(g, i)]
  BY <1>3, <1>4
<1> QED
  BY <1>5 DEF IsChosen, n

(* What was chosen grows by the elements in S, one after the other.         *)
LEMMA ChosenGrows ==
  ASSUME NEW T, NEW seq \in Seq(T), NEW S
  PROVE  /\ Registry!Only(seq, S) = Chosen(seq, S)[Len(seq)]
         /\ Chosen(seq, S)[0] = <<>>
         /\ \A i \in 1..Len(seq) :
              Chosen(seq, S)[i] = IF seq[i] \in S THEN Append(Chosen(seq, S)[i - 1], seq[i])
                                  ELSE Chosen(seq, S)[i - 1]
<1> DEFINE g == Chosen(seq, S)
<1>1. IsChosen(seq, S, g)
  BY ChosenExists DEF Chosen
<1>2. Registry!Only(seq, S) = g[Len(seq)]
  BY Zenon DEF Registry!Only, Chosen, IsChosen
<1> HIDE DEF g
<1>3. Len(seq) \in Nat
  OBVIOUS
<1>4. g = [i \in 0..Len(seq) |->
             IF i = 0 THEN <<>>
             ELSE IF seq[i] \in S THEN Append(g[i - 1], seq[i]) ELSE g[i - 1]]
  BY <1>1, Zenon DEF IsChosen
<1>5. \A i \in 0..Len(seq) :
        g[i] = IF i = 0 THEN <<>>
               ELSE IF seq[i] \in S THEN Append(g[i - 1], seq[i]) ELSE g[i - 1]
  <2> DEFINE F(i) == IF i = 0 THEN <<>>
                     ELSE IF seq[i] \in S THEN Append(g[i - 1], seq[i]) ELSE g[i - 1]
  <2>1. g = [i \in 0..Len(seq) |-> F(i)]
    BY <1>4
  <2> HIDE DEF F
  <2>2. \A i \in 0..Len(seq) : g[i] = F(i)
    BY <2>1
  <2> QED
    BY <2>2 DEF F
<1>6. g[0] = <<>>
  BY <1>3, <1>5
<1>7. \A i \in 1..Len(seq) : g[i] = IF seq[i] \in S THEN Append(g[i - 1], seq[i]) ELSE g[i - 1]
  <2>1. \A i \in 1..Len(seq) : i \in 0..Len(seq) /\ i # 0
    BY <1>3
  <2> QED
    BY <1>5, <2>1
<1> QED
  BY <1>2, <1>6, <1>7 DEF g

(* It consists of such elements.                                            *)
LEMMA OnlyTyped ==
  ASSUME NEW T, NEW seq \in Seq(T), NEW S
  PROVE  /\ \A i \in 0..Len(seq) : Chosen(seq, S)[i] \in Seq(T \cap S)
         /\ Registry!Only(seq, S) \in Seq(T \cap S)
<1> DEFINE g == Chosen(seq, S)
           n == Len(seq)
           U == {i \in 0..n : g[i] \notin Seq(T \cap S)}
<1>1. /\ g[0] = <<>> /\ n \in Nat
      /\ \A i \in 1..n : seq[i] \in T
      /\ \A i \in 1..n : g[i] = IF seq[i] \in S THEN Append(g[i - 1], seq[i]) ELSE g[i - 1]
  BY ChosenGrows
<1>2. Registry!Only(seq, S) = g[n]
  BY ChosenGrows
<1> HIDE DEF g, n
<1>3. U = {}
  <2>1. SUFFICES ASSUME U # {} PROVE FALSE
    OBVIOUS
  <2>2. PICK m \in U : \A k \in U : m <= k
    <3>1. U \subseteq Nat
      BY <1>1
    <3> HIDE DEF U
    <3> QED
      BY <2>1, <3>1, NatMinimum
  <2>3. m \in 0..n /\ g[m] \notin Seq(T \cap S)
    OBVIOUS
  <2>4. m # 0
    <3>1. <<>> \in Seq(T \cap S)
      OBVIOUS
    <3> QED
      BY <1>1, <2>3, <3>1
  <2>5. m - 1 \in 0..n /\ m \in 1..n /\ ~(m <= m - 1)
    BY <1>1, <2>3, <2>4
  <2>6. g[m - 1] \in Seq(T \cap S)
    BY <2>2, <2>5
  <2>7. CASE seq[m] \in S
    <3>1. seq[m] \in T \cap S /\ g[m] = Append(g[m - 1], seq[m])
      BY <1>1, <2>5, <2>7
    <3> QED
      BY <2>3, <2>6, <3>1, AppendProperties
  <2>8. CASE seq[m] \notin S
    BY <1>1, <2>3, <2>5, <2>6, <2>8
  <2> QED
    BY <2>7, <2>8
<1>4. \A i \in 0..n : g[i] \in Seq(T \cap S)
  BY <1>3
<1>5. n \in 0..n
  BY <1>1
<1> QED
  BY <1>2, <1>4, <1>5 DEF g, n

(* Of a sequence that grows by one it grows by that one or stays.           *)
LEMMA OnlyOfAppend ==
  ASSUME NEW T, NEW seq \in Seq(T), NEW e \in T, NEW S
  PROVE  Registry!Only(Append(seq, e), S) =
           IF e \in S THEN Append(Registry!Only(seq, S), e) ELSE Registry!Only(seq, S)
<1> DEFINE n    == Len(seq)
           more == Append(seq, e)
           g    == Chosen(seq, S)
           h    == Chosen(more, S)
           U    == {i \in 0..n : g[i] # h[i]}
<1>1. /\ more \in Seq(T) /\ Len(more) = n + 1 /\ n \in Nat
      /\ \A i \in 1..n : more[i] = seq[i]
      /\ more[n + 1] = e
  BY AppendProperties
<1> HIDE DEF more
<1>2. /\ Registry!Only(seq, S) = g[n] /\ g[0] = <<>>
      /\ \A i \in 1..n : g[i] = IF seq[i] \in S THEN Append(g[i - 1], seq[i]) ELSE g[i - 1]
  BY ChosenGrows
<1>3. /\ Registry!Only(more, S) = h[n + 1] /\ h[0] = <<>>
      /\ \A i \in 1..(n + 1) : h[i] = IF more[i] \in S THEN Append(h[i - 1], more[i]) ELSE h[i - 1]
  <2>1. /\ Registry!Only(more, S) = h[Len(more)] /\ h[0] = <<>>
        /\ \A i \in 1..Len(more) :
             h[i] = IF more[i] \in S THEN Append(h[i - 1], more[i]) ELSE h[i - 1]
    BY <1>1, ChosenGrows
  <2> HIDE DEF h
  <2> QED
    BY <1>1, <2>1
<1> HIDE DEF g, h, n
<1>4. U = {}
  <2>1. SUFFICES ASSUME U # {} PROVE FALSE
    OBVIOUS
  <2>2. PICK m \in U : \A k \in U : m <= k
    <3>1. U \subseteq Nat
      BY <1>1
    <3> HIDE DEF U
    <3> QED
      BY <2>1, <3>1, NatMinimum
  <2>3. m \in 0..n /\ g[m] # h[m]
    OBVIOUS
  <2>4. m # 0
    BY <1>2, <1>3, <2>3
  <2>5. m - 1 \in 0..n /\ m \in 1..n /\ m \in 1..(n + 1) /\ ~(m <= m - 1)
    BY <1>1, <2>3, <2>4
  <2>6. g[m - 1] = h[m - 1] /\ more[m] = seq[m]
    BY <1>1, <2>2, <2>5
  <2> QED
    BY <1>2, <1>3, <2>3, <2>5, <2>6
<1>5. g[n] = h[n]
  <2>1. n \in 0..n
    BY <1>1
  <2> QED
    BY <1>4, <2>1
<1>6. h[n + 1] = IF e \in S THEN Append(h[n], e) ELSE h[n]
  <2>1. n + 1 \in 1..(n + 1) /\ n + 1 - 1 = n
    BY <1>1
  <2> QED
    BY <1>1, <1>3, <2>1
<1> QED
  BY <1>2, <1>3, <1>5, <1>6 DEF more

(* The newest elements, element by element.                                 *)
Newest(kept, seq, limit) ==
  /\ Len(kept) = IF Len(seq) < limit THEN Len(seq) ELSE limit
  /\ \A i \in 1..Len(kept) : kept[i] = seq[Len(seq) - Len(kept) + i]

(* That is what AreNewest says through the reversed sequences.              *)
LEMMA NewestMeans ==
  ASSUME NEW T, NEW kept \in Seq(T), NEW seq \in Seq(T), NEW limit \in Nat
  PROVE  Registry!AreNewest(kept, seq, limit) <=> Newest(kept, seq, limit)
<1> DEFINE k == Len(kept)
           n == Len(seq)
           r == Registry!Reverse(kept)
           q == Registry!Reverse(seq)
<1>1. /\ k \in Nat /\ n \in Nat
      /\ \A i \in 1..k : kept[i] \in T
      /\ \A i \in 1..n : seq[i] \in T
  OBVIOUS
<1>2. /\ r \in Seq(T) /\ Len(r) = k /\ \A i \in 1..k : r[i] = kept[k - i + 1]
  BY <1>1 DEF Registry!Reverse
<1>3. /\ q \in Seq(T) /\ Len(q) = n /\ \A i \in 1..n : q[i] = seq[n - i + 1]
  BY <1>1 DEF Registry!Reverse
<1>0. k \in Nat /\ n \in Nat
  OBVIOUS
<1> HIDE DEF r, q, k, n
<1>4. ASSUME k <= n
      PROVE  Registry!IsSuffix(kept, seq) <=> \A i \in 1..k : kept[i] = seq[n - k + i]
  <2>1. /\ \A i \in 1..k : r[i] \in T
        /\ \A i \in 1..k : q[i] \in T
    BY <1>1, <1>2, <1>3, <1>4
  <2>2. /\ SubSeq(r, 1, k) \in Seq(T) /\ Len(SubSeq(r, 1, k)) = k
        /\ \A i \in 1..k : SubSeq(r, 1, k)[i] = r[i]
    <3>1. k - 1 + 1 = k /\ \A i \in 1..k : 1 + i - 1 = i
      BY <1>1
    <3>2. /\ SubSeq(r, 1, k) \in Seq(T) /\ Len(SubSeq(r, 1, k)) = IF 1 <= k THEN k - 1 + 1 ELSE 0
          /\ \A i \in 1..(k - 1 + 1) : SubSeq(r, 1, k)[i] = r[1 + i - 1]
      BY <1>1, <2>1, SubSeqProperties
    <3> QED
      BY <1>1, <3>1, <3>2
  <2>3. /\ SubSeq(q, 1, k) \in Seq(T) /\ Len(SubSeq(q, 1, k)) = k
        /\ \A i \in 1..k : SubSeq(q, 1, k)[i] = q[i]
    <3>1. k - 1 + 1 = k /\ \A i \in 1..k : 1 + i - 1 = i
      BY <1>1
    <3>2. /\ SubSeq(q, 1, k) \in Seq(T) /\ Len(SubSeq(q, 1, k)) = IF 1 <= k THEN k - 1 + 1 ELSE 0
          /\ \A i \in 1..(k - 1 + 1) : SubSeq(q, 1, k)[i] = q[1 + i - 1]
      BY <1>1, <2>1, SubSeqProperties
    <3> QED
      BY <1>1, <3>1, <3>2
  <2>4. SubSeq(r, 1, k) = SubSeq(q, 1, k) <=> \A i \in 1..k : r[i] = q[i]
    BY <2>2, <2>3, SeqEqual
  <2>5. Registry!IsSuffix(kept, seq) <=> SubSeq(r, 1, k) = SubSeq(q, 1, k)
    BY <1>2, <1>3, <1>4 DEF Registry!IsSuffix, Registry!IsPrefix, r, q
  <2>6. (\A i \in 1..k : r[i] = q[i]) <=> \A i \in 1..k : kept[k - i + 1] = seq[n - i + 1]
    <3>1. \A i \in 1..k : i \in 1..n
      BY <1>0, <1>4
    <3>2. ASSUME NEW i \in 1..k PROVE r[i] = kept[k - i + 1] /\ q[i] = seq[n - i + 1]
      BY <1>2, <1>3, <3>1
    <3>3. ASSUME \A i \in 1..k : r[i] = q[i], NEW i \in 1..k
          PROVE  kept[k - i + 1] = seq[n - i + 1]
      <4>1. r[i] = q[i]
        BY <3>3
      <4> QED
        BY <3>2, <4>1
    <3>4. ASSUME \A i \in 1..k : kept[k - i + 1] = seq[n - i + 1], NEW i \in 1..k
          PROVE  r[i] = q[i]
      <4>1. kept[k - i + 1] = seq[n - i + 1]
        BY <3>4
      <4> QED
        BY <3>2, <4>1
    <3> QED
      BY <3>3, <3>4
  <2>7. (\A i \in 1..k : kept[k - i + 1] = seq[n - i + 1])
          <=> \A i \in 1..k : kept[i] = seq[n - k + i]
    <3>1. ASSUME \A i \in 1..k : kept[k - i + 1] = seq[n - i + 1], NEW i \in 1..k
          PROVE  kept[i] = seq[n - k + i]
      <4>1. /\ k - i + 1 \in 1..k /\ k - (k - i + 1) + 1 = i
            /\ n - (k - i + 1) + 1 = n - k + i
        BY <1>0
      <4>2. kept[k - (k - i + 1) + 1] = seq[n - (k - i + 1) + 1]
        BY <3>1, <4>1
      <4> QED
        BY <4>1, <4>2
    <3>2. ASSUME \A i \in 1..k : kept[i] = seq[n - k + i], NEW i \in 1..k
          PROVE  kept[k - i + 1] = seq[n - i + 1]
      <4>1. k - i + 1 \in 1..k /\ n - k + (k - i + 1) = n - i + 1
        BY <1>0
      <4>2. kept[k - i + 1] = seq[n - k + (k - i + 1)]
        BY <3>2, <4>1
      <4> QED
        BY <4>1, <4>2
    <3> QED
      BY <3>1, <3>2
  <2> QED
    BY <2>4, <2>5, <2>6, <2>7
<1>5. (k = IF n < limit THEN n ELSE limit) => k <= n
  BY <1>1
<1> QED
  BY <1>4, <1>5 DEF Registry!AreNewest, Newest, k, n

(* Cutting what is longer than the limit leaves the newest.                 *)
LEMMA KeptAreNewest ==
  ASSUME NEW T, NEW seq \in Seq(T), NEW limit \in Nat
  PROVE  Registry!Kept(seq, limit) \in Seq(T) /\ Newest(Registry!Kept(seq, limit), seq, limit)
<1> DEFINE n == Len(seq)
           last == SubSeq(seq, n - limit + 1, n)
<1>1. n \in Nat /\ \A i \in 1..n : seq[i] \in T
  OBVIOUS
<1>2. CASE n > limit
  <2>1. Registry!Kept(seq, limit) = last
    BY <1>2 DEF Registry!Kept, Registry!LastOf
  <2> HIDE DEF n
  <2>2. /\ n - limit + 1 \in Int /\ n \in Int /\ \A i \in (n - limit + 1)..n : seq[i] \in T
        /\ n - (n - limit + 1) + 1 = limit
        /\ \A i \in 1..limit : n - limit + 1 + i - 1 = n - limit + i
        /\ (n - limit + 1 <= n <=> limit > 0)
    BY <1>1, <1>2
  <2>3. /\ last \in Seq(T)
        /\ Len(last) = IF n - limit + 1 <= n THEN n - (n - limit + 1) + 1 ELSE 0
        /\ \A i \in 1..(n - (n - limit + 1) + 1) : last[i] = seq[n - limit + 1 + i - 1]
    BY <2>2, SubSeqProperties
  <2> HIDE DEF last
  <2>4. Len(last) = limit /\ \A i \in 1..limit : last[i] = seq[n - limit + i]
    BY <2>2, <2>3
  <2>5. Len(last) = IF n < limit THEN n ELSE limit
    BY <1>1, <1>2, <2>4
  <2>6. \A i \in 1..Len(last) : last[i] = seq[n - Len(last) + i]
    BY <2>4
  <2>7. Newest(last, seq, limit)
    BY <2>5, <2>6 DEF Newest, n
  <2> QED
    BY <2>1, <2>3, <2>7
<1>3. CASE ~(n > limit)
  <2>1. Registry!Kept(seq, limit) = seq
    BY <1>3 DEF Registry!Kept
  <2>2. \A i \in 1..Len(seq) : Len(seq) - Len(seq) + i = i
    BY <1>1
  <2> QED
    BY <1>1, <1>3, <2>1, <2>2 DEF Newest
<1> QED
  BY <1>2, <1>3

(* The newest of the newest are the newest.                                 *)
LEMMA NewestOfNewest ==
  ASSUME NEW T, NEW s \in Seq(T), NEW kept \in Seq(T), NEW seq \in Seq(T),
         NEW few \in Nat, NEW many \in Nat, few <= many,
         Newest(s, kept, few), Newest(kept, seq, many)
  PROVE  Newest(s, seq, few)
<1> DEFINE a == Len(s)
           k == Len(kept)
           n == Len(seq)
<1>1. /\ a \in Nat /\ k \in Nat /\ n \in Nat
      /\ a = IF k < few THEN k ELSE few
      /\ k = IF n < many THEN n ELSE many
  BY DEF Newest
<1>2. /\ \A i \in 1..a : s[i] = kept[k - a + i]
      /\ \A i \in 1..k : kept[i] = seq[n - k + i]
  BY DEF Newest
<1> HIDE DEF a, k, n
<1>3. a = IF n < few THEN n ELSE few
  BY <1>1
<1>4. ASSUME NEW i \in 1..a PROVE s[i] = seq[n - a + i]
  <2>1. k - a + i \in 1..k /\ n - k + (k - a + i) = n - a + i
    BY <1>1
  <2>2. kept[k - a + i] = seq[n - k + (k - a + i)]
    BY <1>2, <2>1
  <2> QED
    BY <1>2, <2>1, <2>2
<1> QED
  BY <1>3, <1>4 DEF Newest, a, n

(* With one more at the end of both, the newest and one are the newest of   *)
(* one more.                                                                *)
LEMMA NewestAndOne ==
  ASSUME NEW T, NEW kept \in Seq(T), NEW seq \in Seq(T), NEW e \in T, NEW limit \in Nat,
         Newest(kept, seq, limit)
  PROVE  Newest(Append(kept, e), Append(seq, e), limit + 1)
<1> DEFINE k == Len(kept)
           n == Len(seq)
           kept1 == Append(kept, e)
           seq1  == Append(seq, e)
<1>0. k \in Nat /\ n \in Nat
  OBVIOUS
<1>1. /\ k = IF n < limit THEN n ELSE limit
      /\ \A i \in 1..k : kept[i] = seq[n - k + i]
  BY Zenon DEF Newest
<1>2. /\ Len(kept1) = k + 1 /\ kept1[k + 1] = e /\ \A i \in 1..k : kept1[i] = kept[i]
  BY AppendProperties
<1>3. /\ Len(seq1) = n + 1 /\ seq1[n + 1] = e /\ \A i \in 1..n : seq1[i] = seq[i]
  BY AppendProperties
<1> HIDE DEF k, n, kept1, seq1
<1>4. ASSUME NEW i \in 1..(k + 1) PROVE kept1[i] = seq1[n + 1 - (k + 1) + i]
  <2>1. CASE i = k + 1
    <3>1. n + 1 - (k + 1) + i = n + 1
      BY <1>0, <2>1
    <3> QED
      BY <1>2, <1>3, <2>1, <3>1
  <2>2. CASE i # k + 1
    <3>1. i \in 1..k /\ n + 1 - (k + 1) + i = n - k + i /\ n - k + i \in 1..n
      BY <1>0, <1>1, <2>2
    <3> QED
      BY <1>1, <1>2, <1>3, <3>1
  <2> QED
    BY <2>1, <2>2
<1>5. k + 1 = IF n + 1 < limit + 1 THEN n + 1 ELSE limit + 1
  BY <1>0, <1>1
<1>6. Newest(kept1, seq1, limit + 1)
  <2>1. Len(kept1) = IF Len(seq1) < limit + 1 THEN Len(seq1) ELSE limit + 1
    BY <1>2, <1>3, <1>5
  <2>2. \A i \in 1..Len(kept1) : kept1[i] = seq1[Len(seq1) - Len(kept1) + i]
    <3>1. Len(kept1) = k + 1 /\ Len(seq1) = n + 1
      BY <1>2, <1>3
    <3>2. SUFFICES ASSUME NEW i \in 1..Len(kept1)
                   PROVE  kept1[i] = seq1[Len(seq1) - Len(kept1) + i]
      OBVIOUS
    <3>3. i \in 1..(k + 1)
      BY <3>1
    <3>4. kept1[i] = seq1[n + 1 - (k + 1) + i]
      BY <1>4, <3>3
    <3>5. Len(seq1) - Len(kept1) + i = n + 1 - (k + 1) + i
      BY <1>0, <3>1, <3>3
    <3> QED
      BY <3>4, <3>5
  <2> QED
    BY <2>1, <2>2 DEF Newest
<1> QED
  BY <1>6 DEF kept1, seq1

(* A log that is cut when it grows keeps the newest.                        *)
LEMMA GrownAndCut ==
  ASSUME NEW T, NEW kept \in Seq(T), NEW seq \in Seq(T), NEW e \in T, NEW limit \in Nat,
         Newest(kept, seq, limit)
  PROVE  /\ Registry!Kept(Append(kept, e), limit) \in Seq(T)
         /\ Newest(Registry!Kept(Append(kept, e), limit), Append(seq, e), limit)
<1>1. Append(kept, e) \in Seq(T) /\ Append(seq, e) \in Seq(T)
  OBVIOUS
<1>2. Newest(Append(kept, e), Append(seq, e), limit + 1)
  BY NewestAndOne
<1>3. /\ Registry!Kept(Append(kept, e), limit) \in Seq(T)
      /\ Newest(Registry!Kept(Append(kept, e), limit), Append(kept, e), limit)
  BY <1>1, KeptAreNewest
<1>4. limit + 1 \in Nat /\ limit <= limit + 1
  OBVIOUS
<1> QED
  BY <1>1, <1>2, <1>3, <1>4, NewestOfNewest

(* The beginnings that FlattenSeq concatenates, one after the other.        *)
IsFlattening(seqs, g) ==
  g = [i \in 1..Len(seqs) |-> IF i = 1 THEN seqs[i] ELSE g[i - 1] \o seqs[i]]

Flattening(seqs) == CHOOSE g : IsFlattening(seqs, g)

(* What has those beginnings ends with the whole.                           *)
LEMMA FlattenedIs ==
  ASSUME NEW n \in Nat \ {0}, NEW seqs, DOMAIN seqs = 1..n, Len(seqs) = n,
         NEW f, DOMAIN f = 1..n, f = [i \in 1..n |-> f[i]], f[1] = seqs[1],
         \A i \in 2..n : f[i] = f[i - 1] \o seqs[i]
  PROVE  Registry!FlattenSeq(seqs) = f[n]
<1> DEFINE g == Flattening(seqs)
           U == {i \in 1..n : g[i] # f[i]}
<1>1. IsFlattening(seqs, f)
  <2>1. \A i \in 1..n : f[i] = IF i = 1 THEN seqs[i] ELSE f[i - 1] \o seqs[i]
    <3>1. \A i \in 1..n : i # 1 => i \in 2..n
      OBVIOUS
    <3> QED
      BY <3>1
  <2>2. f = [i \in 1..n |-> IF i = 1 THEN seqs[i] ELSE f[i - 1] \o seqs[i]]
    BY <2>1
  <2> QED
    BY <2>2 DEF IsFlattening
<1>2. IsFlattening(seqs, g)
  BY <1>1 DEF Flattening
<1>3. Registry!FlattenSeq(seqs) = g[n]
  <2>1. Len(seqs) # 0
    OBVIOUS
  <2>2. Registry!FlattenSeq(seqs) = g[Len(seqs)]
    BY <2>1, Zenon DEF Registry!FlattenSeq, Flattening, IsFlattening
  <2> HIDE DEF g
  <2> QED
    BY <2>2
<1> HIDE DEF g
<1>4. \A i \in 1..n : g[i] = IF i = 1 THEN seqs[i] ELSE g[i - 1] \o seqs[i]
  <2> DEFINE F(i) == IF i = 1 THEN seqs[i] ELSE g[i - 1] \o seqs[i]
  <2>1. g = [i \in 1..n |-> F(i)]
    BY <1>2 DEF IsFlattening
  <2> HIDE DEF F
  <2>2. \A i \in 1..n : g[i] = F(i)
    BY <2>1
  <2> QED
    BY <2>2 DEF F
<1>5. U = {}
  <2>1. SUFFICES ASSUME U # {} PROVE FALSE
    OBVIOUS
  <2>2. PICK m \in U : \A k \in U : m <= k
    <3>1. U \subseteq Nat
      OBVIOUS
    <3> HIDE DEF U
    <3> QED
      BY <2>1, <3>1, NatMinimum
  <2>3. m \in 1..n /\ g[m] # f[m]
    OBVIOUS
  <2>4. m # 1
    BY <1>4, <2>3
  <2>5. m - 1 \in 1..n /\ m \in 2..n /\ ~(m <= m - 1)
    BY <2>3, <2>4
  <2>6. g[m - 1] = f[m - 1]
    BY <2>2, <2>5
  <2>7. g[m] = g[m - 1] \o seqs[m] /\ f[m] = f[m - 1] \o seqs[m]
    BY <1>4, <2>3, <2>4, <2>5
  <2> QED
    BY <2>3, <2>6, <2>7
<1>6. g[n] = f[n]
  <2>1. n \in 1..n
    OBVIOUS
  <2> QED
    BY <1>5, <2>1
<1> QED
  BY <1>3, <1>6

(* The page at an offset goes on where the first elements end.              *)
LEMMA PageGoesOn ==
  ASSUME NEW T, NEW seq \in Seq(T), NEW limit \in Nat \ {0}, NEW offset \in Nat,
         NEW a, a = IF offset < Len(seq) THEN offset ELSE Len(seq),
         NEW b, b = IF offset + limit < Len(seq) THEN offset + limit ELSE Len(seq)
  PROVE  SubSeq(seq, 1, b) = SubSeq(seq, 1, a) \o Registry!Page(seq, limit, offset)
<1> DEFINE n == Len(seq)
<1>1. n \in Nat /\ a \in 0..n /\ b \in a..n
  OBVIOUS
<1>2. SubSeq(seq, 1, a) \in Seq(T)
  <2>1. \A i \in 1..a : seq[i] \in T
    BY <1>1
  <2> QED
    BY <1>1, <2>1, SubSeqProperties
<1>3. CASE offset >= n
  <2>1. Registry!Page(seq, limit, offset) = <<>>
    BY <1>3 DEF Registry!Page
  <2>2. a = n /\ b = n
    BY <1>1, <1>3
  <2> QED
    BY <1>2, <2>1, <2>2, ConcatEmptySeq
<1>4. CASE ~(offset >= n)
  <2>1. a = offset
    BY <1>1, <1>4
  <2>2. Registry!Page(seq, limit, offset) = SubSeq(seq, a + 1, b)
    BY <1>1, <1>4, <2>1 DEF Registry!Page
  <2>3. 1 \in 1..(Len(seq) + 1) /\ a \in (1 - 1)..Len(seq) /\ b \in a..Len(seq)
    BY <1>1
  <2>4. SubSeq(seq, 1, a) \o SubSeq(seq, a + 1, b) = SubSeq(seq, 1, b)
    <3> HIDE DEF n
    <3> QED
      BY <2>3, ConcatAdjacentSubSeq, ZenonT(60)
  <2> QED
    BY <2>2, <2>4
<1> QED
  BY <1>3, <1>4

(* So the pages of a sequence are the sequence.                             *)
LEMMA PagesAreAll ==
  ASSUME NEW T, NEW seq \in Seq(T), NEW limit \in Nat \ {0}
  PROVE  Registry!PagesOf(seq, limit) = seq
<1> DEFINE n == Len(seq)
           pages == [i \in 1..(n + 1) |-> Registry!Page(seq, limit, (i - 1) * limit)]
           End(off) == IF off < n THEN off ELSE n
           f == [i \in 1..(n + 1) |-> SubSeq(seq, 1, End(i * limit))]
<1>1. n \in Nat /\ n + 1 \in Nat \ {0} /\ n + 1 >= 1
  OBVIOUS
<1>2. ASSUME NEW i \in 1..(n + 1)
      PROVE  SubSeq(seq, 1, End(i * limit)) =
               SubSeq(seq, 1, End((i - 1) * limit)) \o Registry!Page(seq, limit, (i - 1) * limit)
  <2>1. i \in Nat /\ i - 1 \in Nat
    BY <1>1
  <2>2. (i - 1) * limit \in Nat /\ i * limit = (i - 1) * limit + limit
    BY <2>1
  <2> DEFINE off == (i - 1) * limit
  <2>3. off \in Nat /\ i * limit = off + limit
    BY <2>2
  <2> HIDE DEF off
  <2>4. SubSeq(seq, 1, End(off + limit)) = SubSeq(seq, 1, End(off)) \o Registry!Page(seq, limit, off)
    BY <2>3, PageGoesOn
  <2> QED
    BY <2>3, <2>4 DEF off
<1>3. SubSeq(seq, 1, End(0)) = <<>>
  <2>1. End(0) = 0
    BY <1>1
  <2> QED
    BY <2>1, SubSeqEmpty
<1>4. ASSUME NEW i \in 1..(n + 1) PROVE Registry!Page(seq, limit, (i - 1) * limit) \in Seq(T)
  <2>1. (i - 1) * limit \in Nat
    BY <1>1
  <2> DEFINE off == (i - 1) * limit
  <2> HIDE DEF off
  <2>2. off \in Nat
    BY <2>1 DEF off
  <2>3. CASE off >= n
    <3>1. Registry!Page(seq, limit, off) = <<>> /\ <<>> \in Seq(T)
      BY <2>3 DEF Registry!Page
    <3> QED
      BY <3>1 DEF off
  <2>4. CASE ~(off >= n)
    <3>1. Registry!Page(seq, limit, off) = SubSeq(seq, off + 1, End(off + limit))
      BY <2>2, <2>4 DEF Registry!Page
    <3>2. /\ off + 1 \in Int /\ End(off + limit) \in Int
          /\ \A j \in (off + 1)..End(off + limit) : seq[j] \in T
      BY <1>1, <2>2
    <3>3. SubSeq(seq, off + 1, End(off + limit)) \in Seq(T)
      BY <3>2, SubSeqProperties
    <3> QED
      BY <3>1, <3>3 DEF off
  <2> QED
    BY <2>3, <2>4
<1>5. /\ DOMAIN pages = 1..(n + 1) /\ Len(pages) = n + 1
      /\ \A i \in 1..(n + 1) : pages[i] = Registry!Page(seq, limit, (i - 1) * limit)
  BY <1>1
<1>6. /\ DOMAIN f = 1..(n + 1) /\ f = [i \in 1..(n + 1) |-> f[i]]
      /\ \A i \in 1..(n + 1) : f[i] = SubSeq(seq, 1, End(i * limit))
  OBVIOUS
<1>7. Registry!PagesOf(seq, limit) = Registry!FlattenSeq(pages)
  BY DEF Registry!PagesOf
<1> HIDE DEF pages, f
<1>8. f[1] = pages[1]
  <2>1. 1 \in 1..(n + 1) /\ (1 - 1) * limit = 0
    BY <1>1
  <2>2. f[1] = SubSeq(seq, 1, End((1 - 1) * limit)) \o Registry!Page(seq, limit, (1 - 1) * limit)
    BY <1>2, <1>6, <2>1
  <2>3. f[1] = <<>> \o Registry!Page(seq, limit, (1 - 1) * limit)
    BY <1>3, <2>1, <2>2
  <2>4. Registry!Page(seq, limit, (1 - 1) * limit) \in Seq(T)
    BY <1>4, <2>1
  <2> QED
    BY <1>5, <2>1, <2>3, <2>4, ConcatEmptySeq
<1>9. ASSUME NEW i \in 2..(n + 1) PROVE f[i] = f[i - 1] \o pages[i]
  <2>1. i \in 1..(n + 1) /\ i - 1 \in 1..(n + 1)
    BY <1>1
  <2> HIDE DEF End
  <2> QED
    BY <1>2, <1>5, <1>6, <2>1
<1>10. Registry!FlattenSeq(pages) = f[n + 1]
  BY ZenonT(60), <1>1, <1>5, <1>6, <1>8, <1>9, FlattenedIs
<1>11. End((n + 1) * limit) = n
  <2>1. (n + 1) * limit >= n + 1
    BY <1>1
  <2> QED
    BY <1>1, <2>1
<1>12. f[n + 1] = SubSeq(seq, 1, n)
  BY <1>1, <1>6, <1>11
<1> QED
  BY <1>7, <1>10, <1>12, SubSeqFull

(* What the log tells of the decisions, and of the values of one strategy.  *)
Decision == [id: Nat, did: Registry!Decisions]

RecordOf(id) == [id: {id}, did: Values]

ValuesIn(entries, id) ==
  [i \in DOMAIN Registry!Only(entries, RecordOf(id)) |-> Registry!Only(entries, RecordOf(id))[i].did]

(* The newest decisions and values are kept, and the log tells of no        *)
(* strategy that is not registered, so that a new one has no records.       *)
RecordsKept ==
  /\ approvals \in Seq(LogEntry)
  /\ Newest(approvals, Registry!Only(log, Decision), ApprovalsKept)
  /\ \A i \in 1..Len(log) : log[i].id \in 1..Len(registered)
  /\ \A id \in 1..Len(registered) :
       Newest(registered[id].performance_history, ValuesIn(log, id), HistoryKept)

RecordsInv == RegistryInv /\ RecordsKept

(* An entry is added to the values of its strategy if it is a record.       *)
LEMMA ValuesGrow ==
  ASSUME NEW entries \in Seq(LogEntry), NEW e \in LogEntry, NEW id \in Nat
  PROVE  /\ ValuesIn(entries, id) \in Seq(Values)
         /\ ValuesIn(Append(entries, e), id) =
              IF e.id = id /\ e.did \in Values THEN Append(ValuesIn(entries, id), e.did)
              ELSE ValuesIn(entries, id)
<1> DEFINE only == Registry!Only(entries, RecordOf(id))
           more == Registry!Only(Append(entries, e), RecordOf(id))
<1>1. only \in Seq(LogEntry \cap RecordOf(id))
  BY OnlyTyped
<1>2. more = IF e \in RecordOf(id) THEN Append(only, e) ELSE only
  BY OnlyOfAppend
<1>3. e \in RecordOf(id) <=> e.id = id /\ e.did \in Values
  BY DEF LogEntry, RecordOf
<1>4. /\ ValuesIn(entries, id) = [i \in DOMAIN only |-> only[i].did]
      /\ ValuesIn(Append(entries, e), id) = [i \in DOMAIN more |-> more[i].did]
  BY DEF ValuesIn
<1> HIDE DEF only, more
<1>5. /\ Len(only) \in Nat /\ DOMAIN only = 1..Len(only)
      /\ \A i \in 1..Len(only) : only[i].did \in Values
  <2>1. \A r \in LogEntry \cap RecordOf(id) : r.did \in Values
    BY DEF RecordOf
  <2> QED
    BY <1>1, <2>1
<1>6. ValuesIn(entries, id) \in Seq(Values)
  BY <1>4, <1>5
<1>7. CASE e \in RecordOf(id)
  <2>1. more = Append(only, e)
    BY <1>2, <1>7
  <2>2. /\ DOMAIN more = 1..(Len(only) + 1)
        /\ \A i \in 1..(Len(only) + 1) : more[i] = IF i <= Len(only) THEN only[i] ELSE e
    BY <1>1, <1>5, <2>1
  <2> DEFINE vals == [i \in 1..Len(only) |-> only[i].did]
  <2>3. vals \in Seq(Values) /\ Len(vals) = Len(only)
    BY <1>5
  <2>4. Append(vals, e.did) = [i \in 1..(Len(only) + 1) |-> more[i].did]
    <3>1. /\ DOMAIN Append(vals, e.did) = 1..(Len(only) + 1)
          /\ Append(vals, e.did) = [i \in 1..(Len(only) + 1) |-> Append(vals, e.did)[i]]
      BY <2>3, <1>5
    <3>2. \A i \in 1..(Len(only) + 1) :
            Append(vals, e.did)[i] = IF i <= Len(only) THEN only[i].did ELSE e.did
      BY <2>3, <1>5
    <3>3. \A i \in 1..(Len(only) + 1) : Append(vals, e.did)[i] = more[i].did
      BY <2>2, <3>2
    <3> HIDE DEF vals
    <3> QED
      BY <3>1, <3>3
  <2> QED
    BY <1>3, <1>4, <1>5, <1>6, <1>7, <2>2, <2>4
<1>8. CASE e \notin RecordOf(id)
  BY <1>2, <1>3, <1>4, <1>6, <1>8
<1> QED
  BY <1>7, <1>8

(* Nothing is recorded of a strategy that no entry is about.                *)
LEMMA NothingRecorded ==
  ASSUME NEW entries \in Seq(LogEntry), NEW id \in Nat,
         \A i \in 1..Len(entries) : entries[i].id # id
  PROVE  ValuesIn(entries, id) = <<>>
<1> DEFINE T == {e \in LogEntry : e.id # id}
           only == Registry!Only(entries, RecordOf(id))
<1>1. entries \in Seq(T)
  <2>1. /\ Len(entries) \in Nat /\ DOMAIN entries = 1..Len(entries)
        /\ entries = [i \in 1..Len(entries) |-> entries[i]]
        /\ \A i \in 1..Len(entries) : entries[i] \in T
    OBVIOUS
  <2> HIDE DEF T
  <2> QED
    BY <2>1
<1>2. only \in Seq(T \cap RecordOf(id))
  BY <1>1, OnlyTyped
<1>3. T \cap RecordOf(id) = {}
  BY DEF RecordOf
<1>4. only = <<>>
  <2>1. only \in Seq({})
    BY <1>2, <1>3
  <2> HIDE DEF only
  <2> QED
    BY <2>1
<1> QED
  BY <1>4 DEF ValuesIn

(* Nothing is kept of nothing.                                              *)
LEMMA NewestOfNone ==
  ASSUME NEW limit \in Nat
  PROVE  Newest(<<>>, <<>>, limit)
  BY DEF Newest

(* The bounds of the logs, and what is recorded is no change.               *)
LEMMA LogBounds ==
  /\ HistoryKept \in Nat /\ ApprovalsKept \in Nat
  /\ \A v \in Values : v \notin Registry!Changes /\ v \notin Registry!Decisions
  BY InstanceAssumption DEF Registry!RegistryAssumption, Registry!Changes

(* The registry starts with empty logs.                                     *)
LEMMA RecordsStart == Registry!Init => RecordsInv
<1> SUFFICES ASSUME Registry!Init PROVE RecordsInv
  OBVIOUS
<1>1. approvals = <<>> /\ log = <<>> /\ registered = <<>>
  BY DEF Registry!Init
<1>2. Registry!Only(log, Decision) = <<>>
  <2>1. log \in Seq({})
    BY <1>1
  <2>2. Registry!Only(log, Decision) \in Seq({} \cap Decision)
    BY <2>1, OnlyTyped
  <2>3. {} \cap Decision = {}
    OBVIOUS
  <2> QED
    BY <2>2, <2>3
<1>3. Newest(approvals, Registry!Only(log, Decision), ApprovalsKept)
  BY <1>1, <1>2, LogBounds, NewestOfNone
<1> QED
  BY <1>1, <1>3, RegistryStarts DEF RecordsInv, RecordsKept

(* The approvals follow the decisions that the log tells of.                *)
LEMMA ApprovalsFollow ==
  ASSUME RecordsInv, NEW e \in LogEntry, log' = Append(log, e),
         approvals' = IF e.did \in Registry!Decisions
                      THEN Registry!Kept(Append(approvals, e), ApprovalsKept) ELSE approvals
  PROVE  /\ approvals' \in Seq(LogEntry)
         /\ Newest(approvals', Registry!Only(log', Decision), ApprovalsKept)
<1> DEFINE only == Registry!Only(log, Decision)
<1>1. /\ approvals \in Seq(LogEntry) /\ log \in Seq(LogEntry)
      /\ Newest(approvals, only, ApprovalsKept)
  BY DEF RecordsInv, RecordsKept, RegistryInv, RegistryTyped
<1>2. Registry!Only(log', Decision) = IF e \in Decision THEN Append(only, e) ELSE only
  BY <1>1, OnlyOfAppend
<1>3. only \in Seq(LogEntry)
  <2>1. only \in Seq(LogEntry \cap Decision)
    BY <1>1, OnlyTyped
  <2> HIDE DEF only
  <2> QED
    BY <2>1
<1>4. e \in Decision <=> e.did \in Registry!Decisions
  BY DEF Decision, LogEntry
<1> HIDE DEF only
<1>5. CASE e \in Decision
  <2>1. /\ Registry!Kept(Append(approvals, e), ApprovalsKept) \in Seq(LogEntry)
        /\ Newest(Registry!Kept(Append(approvals, e), ApprovalsKept), Append(only, e),
                  ApprovalsKept)
    BY <1>1, <1>3, LogBounds, GrownAndCut
  <2> QED
    BY <1>2, <1>4, <1>5, <2>1
<1>6. CASE e \notin Decision
  BY <1>1, <1>2, <1>4, <1>6
<1> QED
  BY <1>5, <1>6

(* A history follows the values that the log tells of its strategy.         *)
LEMMA HistoryFollows ==
  ASSUME RecordsInv, NEW e \in LogEntry, NEW id \in 1..Len(registered), NEW h,
         h = IF e.id = id /\ e.did \in Values
             THEN Registry!Kept(Append(registered[id].performance_history, e.did), HistoryKept)
             ELSE registered[id].performance_history
  PROVE  Newest(h, ValuesIn(Append(log, e), id), HistoryKept)
<1> DEFINE was  == registered[id].performance_history
           vals == ValuesIn(log, id)
<1>1. /\ log \in Seq(LogEntry) /\ registered[id] \in Strategy /\ id \in Nat
      /\ Newest(was, vals, HistoryKept)
  BY DEF RecordsInv, RecordsKept, RegistryInv, RegistryTyped
<1>2. was \in Seq(Values)
  BY <1>1 DEF Strategy
<1>3. /\ vals \in Seq(Values)
      /\ ValuesIn(Append(log, e), id) =
           IF e.id = id /\ e.did \in Values THEN Append(vals, e.did) ELSE vals
  BY <1>1, ValuesGrow
<1>4. h = IF e.id = id /\ e.did \in Values
          THEN Registry!Kept(Append(was, e.did), HistoryKept) ELSE was
  OBVIOUS
<1> HIDE DEF was, vals
<1>5. CASE e.id = id /\ e.did \in Values
  BY <1>1, <1>2, <1>3, <1>4, <1>5, LogBounds, GrownAndCut
<1>6. CASE ~(e.id = id /\ e.did \in Values)
  BY <1>1, <1>3, <1>4, <1>6
<1> QED
  BY <1>5, <1>6

(* A call that is logged, for one strategy, keeps the records.              *)
LEMMA LoggedCall ==
  ASSUME RecordsInv, NEW id \in 1..Len(registered), NEW s, NEW e \in LogEntry,
         registered' = [registered EXCEPT ![id] = s], log' = Append(log, e), e.id = id,
         s.performance_history =
           IF e.did \in Values
           THEN Registry!Kept(Append(registered[id].performance_history, e.did), HistoryKept)
           ELSE registered[id].performance_history,
         approvals' = IF e.did \in Registry!Decisions
                      THEN Registry!Kept(Append(approvals, e), ApprovalsKept) ELSE approvals
  PROVE  RecordsKept'
<1>1. /\ registered \in Seq(Strategy) /\ log \in Seq(LogEntry) /\ Len(log) \in Nat
      /\ Len(registered) \in Nat
  BY DEF RecordsInv, RegistryInv, RegistryTyped
<1>2. /\ Len(registered') = Len(registered)
      /\ \A i \in 1..Len(registered) : registered'[i] = IF i = id THEN s ELSE registered[i]
  <2>1. DOMAIN registered = 1..Len(registered)
    BY <1>1
  <2>2. DOMAIN registered' = 1..Len(registered)
    BY <2>1
  <2> QED
    BY <1>1, <2>1, <2>2
<1>3. /\ Len(log') = Len(log) + 1
      /\ \A i \in 1..(Len(log) + 1) : log'[i] = IF i <= Len(log) THEN log[i] ELSE e
  BY <1>1
<1>4. ASSUME NEW i \in 1..Len(log') PROVE log'[i].id \in 1..Len(registered')
  <2>1. i \in 1..(Len(log) + 1) /\ (i <= Len(log) => i \in 1..Len(log))
    BY <1>1, <1>3
  <2>2. i <= Len(log) => log[i].id \in 1..Len(registered)
    BY <2>1 DEF RecordsInv, RecordsKept
  <2> QED
    BY <1>2, <1>3, <2>1, <2>2
<1>5. ASSUME NEW i \in 1..Len(registered')
      PROVE  Newest(registered'[i].performance_history, ValuesIn(log', i), HistoryKept)
  <2>1. i \in 1..Len(registered)
    BY <1>2
  <2>2. registered'[i].performance_history =
          IF e.id = i /\ e.did \in Values
          THEN Registry!Kept(Append(registered[i].performance_history, e.did), HistoryKept)
          ELSE registered[i].performance_history
    <3>1. CASE i = id
      BY <1>2, <2>1, <3>1
    <3>2. CASE i # id
      BY <1>2, <2>1, <3>2
    <3> QED
      BY <3>1, <3>2
  <2> QED
    BY <2>1, <2>2, HistoryFollows
<1>6. /\ approvals' \in Seq(LogEntry)
      /\ Newest(approvals', Registry!Only(log', Decision), ApprovalsKept)
  BY ApprovalsFollow
<1> QED
  BY <1>4, <1>5, <1>6 DEF RecordsKept

(* A new strategy has no records, and its registration is no decision.      *)
LEMMA RegisteredNew ==
  ASSUME RecordsInv, NEW creator \in Creators, Registry!RegisterStrategy(creator)
  PROVE  RecordsKept'
<1> DEFINE s == [creator |-> creator, is_active |-> FALSE, performance_history |-> <<>>]
           n == Len(registered) + 1
           e == [id |-> n, did |-> "registered"]
<1>1. registered' = Append(registered, s) /\ log' = Append(log, e) /\ approvals' = approvals
  BY DEF Registry!RegisterStrategy, Registry!Did
<1>2. /\ registered \in Seq(Strategy) /\ log \in Seq(LogEntry) /\ Len(log) \in Nat
      /\ Len(registered) \in Nat /\ n \in Nat
  BY DEF RecordsInv, RegistryInv, RegistryTyped
<1>3. s \in Strategy /\ s.performance_history = <<>>
  BY DEF Strategy
<1>4. /\ e \in LogEntry /\ e.id = n
      /\ e.did \notin Values /\ e.did \notin Registry!Decisions
  BY <1>2, LogBounds DEF LogEntry, Registry!Changes, Registry!Decisions
<1> HIDE DEF s, e
<1>5. /\ Len(registered') = n
      /\ \A i \in 1..n : registered'[i] = IF i <= Len(registered) THEN registered[i] ELSE s
  BY <1>1, <1>2, <1>3
<1>6. /\ Len(log') = Len(log) + 1
      /\ \A i \in 1..(Len(log) + 1) : log'[i] = IF i <= Len(log) THEN log[i] ELSE e
  BY <1>1, <1>2, <1>4
<1>7. \A i \in 1..Len(log) : log[i].id \in 1..Len(registered)
  BY DEF RecordsInv, RecordsKept
<1>8. ASSUME NEW i \in 1..Len(log') PROVE log'[i].id \in 1..Len(registered')
  <2>1. i \in 1..(Len(log) + 1) /\ (i <= Len(log) => i \in 1..Len(log))
    BY <1>2, <1>6
  <2> QED
    BY <1>2, <1>4, <1>5, <1>6, <1>7, <2>1
<1>9. ASSUME NEW i \in 1..Len(registered')
      PROVE  Newest(registered'[i].performance_history, ValuesIn(log', i), HistoryKept)
  <2>1. CASE i = n
    <3>1. \A j \in 1..Len(log) : log[j].id # n
      BY <1>2, <1>7
    <3>2. ValuesIn(log, n) = <<>>
      BY <1>2, <3>1, NothingRecorded
    <3>3. ValuesIn(log', n) = <<>>
      BY <1>1, <1>2, <1>4, <3>2, ValuesGrow
    <3>4. registered'[n] = s
      BY <1>2, <1>5
    <3> QED
      BY <1>3, <2>1, <3>3, <3>4, LogBounds, NewestOfNone
  <2>2. CASE i # n
    <3>1. i \in 1..Len(registered) /\ registered'[i] = registered[i]
      BY <1>2, <1>5, <2>2
    <3> QED
      BY <1>1, <1>4, <3>1, HistoryFollows
  <2> QED
    BY <2>1, <2>2
<1>10. /\ approvals' \in Seq(LogEntry)
       /\ Newest(approvals', Registry!Only(log', Decision), ApprovalsKept)
  BY <1>1, <1>4, ApprovalsFollow
<1> QED
  BY <1>8, <1>9, <1>10 DEF RecordsKept

(* Every call of the registry keeps the records.                            *)
LEMMA RecordsNext ==
  ASSUME RecordsInv, Registry!Next
  PROVE  RecordsInv'
<1>1. /\ registered \in Seq(Strategy) /\ DOMAIN registered = 1..Len(registered)
      /\ \A id \in 1..Len(registered) : id \in Nat /\ registered[id] \in Strategy
  BY DEF RecordsInv, RegistryInv, RegistryTyped
<1>2. ASSUME NEW creator \in Creators, Registry!RegisterStrategy(creator)
      PROVE  RecordsKept'
  BY <1>2, RegisteredNew
<1>3. ASSUME NEW id \in 1..Len(registered), NEW what \in Registry!Decisions,
             NEW b \in BOOLEAN,
             registered' = [registered EXCEPT ![id].is_active = b],
             approvals' = Registry!Kept(Append(approvals, [id |-> id, did |-> what]), ApprovalsKept),
             Registry!Did(id, what)
      PROVE  RecordsKept'
  <2> DEFINE s == [registered[id] EXCEPT !.is_active = b]
             e == [id |-> id, did |-> what]
  <2>1. registered' = [registered EXCEPT ![id] = s] /\ log' = Append(log, e)
    BY <1>3 DEF Registry!Did
  <2>2. s.performance_history = registered[id].performance_history
    BY <1>1 DEF Strategy
  <2>3. /\ e \in LogEntry /\ e.id = id /\ e.did \in Registry!Decisions
        /\ e.did \notin Values
    BY <1>1, LogBounds DEF LogEntry, Registry!Changes
  <2>4. approvals' = Registry!Kept(Append(approvals, e), ApprovalsKept)
    BY <1>3
  <2> HIDE DEF s, e
  <2> QED
    BY <2>1, <2>2, <2>3, <2>4, LoggedCall
<1>4. ASSUME NEW id \in 1..Len(registered), Registry!ApproveStrategy(id)
      PROVE  RecordsKept'
  <2>1. "approved" \in Registry!Decisions /\ TRUE \in BOOLEAN
    BY DEF Registry!Decisions
  <2> QED
    BY <1>3, <1>4, <2>1 DEF Registry!ApproveStrategy
<1>5. ASSUME NEW id \in 1..Len(registered), Registry!DeactivateStrategy(id)
      PROVE  RecordsKept'
  <2>1. "deactivated" \in Registry!Decisions /\ FALSE \in BOOLEAN
    BY DEF Registry!Decisions
  <2> QED
    BY <1>3, <1>5, <2>1 DEF Registry!DeactivateStrategy
<1>6. ASSUME NEW id \in 1..Len(registered), NEW creator \in Creators,
             Registry!UpdateStrategy(creator, id)
      PROVE  RecordsKept'
  <2> DEFINE s == [registered[id] EXCEPT !.is_active = FALSE]
             e == [id |-> id, did |-> "updated"]
  <2>1. /\ registered' = [registered EXCEPT ![id] = s] /\ log' = Append(log, e)
        /\ approvals' = approvals
    BY <1>6 DEF Registry!UpdateStrategy, Registry!Did, Registry!Updated
  <2>2. s.performance_history = registered[id].performance_history
    BY <1>1 DEF Strategy
  <2>3. /\ e \in LogEntry /\ e.id = id
        /\ e.did \notin Registry!Decisions /\ e.did \notin Values
    BY <1>1, LogBounds DEF LogEntry, Registry!Changes, Registry!Decisions
  <2> HIDE DEF s, e
  <2> QED
    BY <2>1, <2>2, <2>3, LoggedCall
<1>7. ASSUME NEW id \in 1..Len(registered), NEW value \in Values,
             Registry!RecordPerformance(id, value)
      PROVE  RecordsKept'
  <2> DEFINE h == Registry!Kept(Append(registered[id].performance_history, value), HistoryKept)
             s == [registered[id] EXCEPT !.performance_history = h]
             e == [id |-> id, did |-> value]
  <2>1. /\ registered' = [registered EXCEPT ![id] = s] /\ log' = Append(log, e)
        /\ approvals' = approvals
    BY <1>7 DEF Registry!RecordPerformance, Registry!Did
  <2>2. /\ e \in LogEntry /\ e.id = id /\ e.did = value
        /\ e.did \notin Registry!Decisions /\ e.did \in Values
    BY <1>1, LogBounds DEF LogEntry
  <2> HIDE DEF e
  <2>3. s.performance_history =
          Registry!Kept(Append(registered[id].performance_history, e.did), HistoryKept)
    BY <1>1, <2>2 DEF Strategy
  <2> HIDE DEF s
  <2> QED
    BY <2>1, <2>2, <2>3, LoggedCall
<1>8. ASSUME NEW b \in BOOLEAN, Registry!SetPaused(b)
      PROVE  RecordsKept'
  BY <1>8 DEF Registry!SetPaused, RecordsInv, RecordsKept, ValuesIn
<1>9. RecordsKept'
  BY <1>1, <1>2, <1>4, <1>5, <1>6, <1>7, <1>8 DEF Registry!Next
<1> QED
  BY <1>9, RegistryNext DEF RecordsInv

(* What is kept and read is the newest.                                     *)
LEMMA KeptIsTold == RecordsInv => Registry!LogsKeepTheNewest
<1> SUFFICES ASSUME RecordsInv PROVE Registry!LogsKeepTheNewest
  OBVIOUS
<1>1. /\ approvals \in Seq(LogEntry) /\ log \in Seq(LogEntry)
      /\ Newest(approvals, Registry!Only(log, Decision), ApprovalsKept)
      /\ DOMAIN registered = 1..Len(registered)
  BY DEF RecordsInv, RecordsKept, RegistryInv, RegistryTyped
<1>2. Registry!AreNewest(approvals, Registry!Only(log, Decision), ApprovalsKept)
  <2> DEFINE only == Registry!Only(log, Decision)
  <2>1. only \in Seq(LogEntry \cap Decision)
    BY <1>1, OnlyTyped
  <2> HIDE DEF only
  <2>2. only \in Seq(LogEntry)
    BY <2>1
  <2>3. Newest(approvals, only, ApprovalsKept)
    BY <1>1 DEF only
  <2> QED
    BY <1>1, <2>2, <2>3, LogBounds, NewestMeans DEF only
<1>3. ASSUME NEW id \in DOMAIN registered
      PROVE  /\ Registry!AreNewest(registered[id].performance_history, ValuesIn(log, id),
                                    HistoryKept)
             /\ \A limit \in 1..HistoryKept :
                  Registry!AreNewest(Registry!get_performance_history(id, limit),
                                     ValuesIn(log, id), limit)
  <2> DEFINE kept == registered[id].performance_history
             vals    == ValuesIn(log, id)
  <2>1. /\ id \in Nat /\ registered[id] \in Strategy
        /\ Newest(kept, vals, HistoryKept)
    BY <1>1, <1>3 DEF RecordsInv, RecordsKept, RegistryInv, RegistryTyped
  <2>2. kept \in Seq(Values)
    BY <2>1 DEF Strategy
  <2>3. vals \in Seq(Values)
    <3>1. \E e : e \in LogEntry
      <4>1. [id |-> 0, did |-> "approved"] \in LogEntry
        BY DEF LogEntry, Registry!Changes, Registry!Decisions
      <4> QED
        BY <4>1
    <3> QED
      BY <1>1, <2>1, <3>1, ValuesGrow
  <2> HIDE DEF kept, vals
  <2>4. Registry!AreNewest(kept, vals, HistoryKept)
    BY <2>1, <2>2, <2>3, LogBounds, NewestMeans
  <2>5. ASSUME NEW limit \in 1..HistoryKept
        PROVE  Registry!AreNewest(Registry!Kept(kept, limit), vals, limit)
    <3>1. limit \in Nat /\ limit <= HistoryKept /\ HistoryKept \in Nat
      BY LogBounds
    <3>2. /\ Registry!Kept(kept, limit) \in Seq(Values)
          /\ Newest(Registry!Kept(kept, limit), kept, limit)
      BY <2>2, <3>1, KeptAreNewest
    <3>3. Newest(Registry!Kept(kept, limit), vals, limit)
      BY <2>1, <2>2, <2>3, <3>1, <3>2, NewestOfNewest
    <3> QED
      BY <2>3, <3>1, <3>2, <3>3, NewestMeans
  <2> QED
    BY <2>4, <2>5 DEF kept, vals, Registry!get_performance_history
<1> QED
  BY <1>2, <1>3 DEF Registry!LogsKeepTheNewest, Decision, ValuesIn, RecordOf

(* Page after page, everything is read.                                     *)
LEMMA PagesAreComplete == RecordsInv => Registry!PagesAddUp
<1> SUFFICES ASSUME RecordsInv, NEW limit \in 1..(Len(registered) + 1)
             PROVE  /\ Registry!PagesOf(Registry!get_active_strategies, limit) =
                          Registry!get_active_strategies
                    /\ \A id \in DOMAIN registered :
                         Registry!PagesOf(registered[id].performance_history, limit) =
                           registered[id].performance_history
  BY DEF Registry!PagesAddUp
<1>1. /\ registered \in Seq(Strategy) /\ DOMAIN registered = 1..Len(registered)
      /\ \A id \in DOMAIN registered : registered[id].performance_history \in Seq(Values)
      /\ Len(registered) \in Nat
  <2>1. \A s \in Strategy : s.performance_history \in Seq(Values)
    BY DEF Strategy
  <2> QED
    BY <2>1 DEF RecordsInv, RegistryInv, RegistryTyped
<1>2. limit \in Nat \ {0}
  BY <1>1
<1>3. Registry!PagesOf(Registry!get_active_strategies, limit) = Registry!get_active_strategies
  <2> DEFINE ids    == [id \in DOMAIN registered |-> id]
             active == {id \in DOMAIN registered : registered[id].is_active}
             read   == Registry!Only(ids, active)
  <2>1. ids \in Seq(Nat)
    BY <1>1
  <2> HIDE DEF ids, active
  <2>2. read \in Seq(Nat \cap active)
    BY <2>1, OnlyTyped
  <2> HIDE DEF read
  <2>3. Registry!PagesOf(read, limit) = read
    BY <1>2, <2>2, PagesAreAll
  <2> QED
    BY <2>3 DEF read, ids, active, Registry!get_active_strategies
<1>4. ASSUME NEW id \in DOMAIN registered
      PROVE  Registry!PagesOf(registered[id].performance_history, limit) =
               registered[id].performance_history
  BY <1>1, <1>2, <1>4, PagesAreAll
<1> QED
  BY <1>3, <1>4

-----------------------------------------------------------------------------
(* The swap router. A pool has a depth, and the pools of a pair are ordered *)
(* by it; so are the routes a search may end with, by the first pools in    *)
(* which they differ, since none of them is the beginning of another.       *)

Ids  == {l.pool : l \in Listings}
Pool == [token_a: Router!Traded, token_b: Router!Traded, fee: Nat,
         reserve_a: Int, reserve_b: Int]

PoolsTyped == DOMAIN pools \subseteq Ids /\ pools \in [DOMAIN pools -> Pool]

(* Addresses are integers, and there are finitely many.                     *)
LEMMA PoolIds ==
  ASSUME PoolsTyped
  PROVE  IsFiniteSet(DOMAIN pools) /\ DOMAIN pools \subseteq Int
<1>1. IsFiniteSet(Listings) /\ \A l \in Listings : l.pool \in Int
  BY InstanceAssumption DEF Router!RouterAssumption, Router!IsFiniteSet, IsFiniteSet
<1>2. IsFiniteSet(Ids)
  <2> DEFINE f == [l \in Listings |-> l.pool]
  <2>1. f \in Surjection(Listings, Ids)
    BY DEF Surjection, Ids
  <2> HIDE DEF f
  <2> QED
    BY <1>1, <2>1, FS_Surjection
<1> QED
  BY <1>1, <1>2, FS_Subset DEF PoolsTyped, Ids

(* Every natural number has a root.                                         *)
LEMMA RootsAreThere ==
  ASSUME NEW n \in Nat
  PROVE  Router!isqrt(n) \in Nat
<1> DEFINE T == {r \in Nat : n < (r + 1) * (r + 1)}
<1>1. n \in T
  <2>1. (n + 1) * (n + 1) = n * n + n + n + 1 /\ n * n >= 0
    OBVIOUS
  <2> QED
    BY <2>1
<1>2. PICK m \in T : \A k \in T : m <= k
  <2>1. T \subseteq Nat /\ T # {}
    BY <1>1
  <2> HIDE DEF T
  <2> QED
    BY <2>1, NatMinimum
<1>3. m \in 0..n
  BY <1>1, <1>2
<1>4. m * m <= n
  <2>1. CASE m = 0
    BY <2>1
  <2>2. CASE m # 0
    <3>1. m - 1 \in Nat /\ m - 1 \notin T
      BY <1>2, <2>2
    <3>2. ((m - 1) + 1) * ((m - 1) + 1) = m * m /\ m * m \in Nat
      <4>1. (m - 1) + 1 = m
        BY <1>3
      <4> QED
        BY <1>3, <4>1
    <3> QED
      BY <3>1, <3>2
  <2> QED
    BY <2>1, <2>2
<1>5. n < (m + 1) * (m + 1)
  BY <1>2
<1>6. \E r \in 0..n : r * r <= n /\ n < (r + 1) * (r + 1)
  BY <1>3, <1>4, <1>5
<1>7. Router!isqrt(n) \in 0..n
  BY <1>6 DEF Router!isqrt
<1> QED
  BY <1>7

(* Every pool has a depth.                                                  *)
LEMMA DepthsAreThere ==
  ASSUME PoolsTyped, NEW p \in DOMAIN pools
  PROVE  Router!depth_score(pools[p]) \in Nat
<1>1. pools[p].reserve_a \in Int /\ pools[p].reserve_b \in Int
  BY DEF PoolsTyped, Pool
<1>2. CASE pools[p].reserve_a > 0 /\ pools[p].reserve_b > 0
  <2>1. pools[p].reserve_a * pools[p].reserve_b \in Nat
    BY <1>1, <1>2
  <2> QED
    BY <2>1, RootsAreThere DEF Router!depth_score
<1>3. CASE ~(pools[p].reserve_a > 0 /\ pools[p].reserve_b > 0)
  BY <1>1, <1>3 DEF Router!depth_score
<1> QED
  BY <1>2, <1>3

(* Depth orders the pools.                                                  *)
LEMMA DepthIsAnOrder ==
  ASSUME PoolsTyped, NEW p \in DOMAIN pools, NEW q \in DOMAIN pools, NEW r \in DOMAIN pools
  PROVE  /\ ~Router!Deeper(p, p)
         /\ Router!Deeper(p, q) /\ Router!Deeper(q, r) => Router!Deeper(p, r)
         /\ p = q \/ Router!Deeper(p, q) \/ Router!Deeper(q, p)
<1>1. p \in Int /\ q \in Int /\ r \in Int
  BY PoolIds
<1>2. /\ Router!depth_score(pools[p]) \in Nat /\ Router!depth_score(pools[q]) \in Nat
      /\ Router!depth_score(pools[r]) \in Nat
  BY DepthsAreThere
<1> QED
  BY <1>1, <1>2 DEF Router!Deeper

(* A finite set that R orders has a first element.                          *)
LEMMA FirstOfOrder ==
  ASSUME NEW S, IsFiniteSet(S), S # {}, NEW R,
         \A p \in S : <<p, p>> \notin R,
         \A p, q, r \in S : <<p, q>> \in R /\ <<q, r>> \in R => <<p, r>> \in R
  PROVE  \E p \in S : \A q \in S : <<q, p>> \notin R
<1> DEFINE Before(p) == {q \in S : <<q, p>> \in R}
           size == [p \in S |-> Cardinality(Before(p))]
           N == {size[p] : p \in S}
<1>1. \A p \in S : IsFiniteSet(Before(p))
  BY FS_Subset
<1>2. ASSUME NEW q \in S, NEW p \in S, <<q, p>> \in R
      PROVE  size[q] < size[p]
  <2>1. Before(q) \subseteq Before(p) /\ q \in Before(p) /\ q \notin Before(q)
    BY <1>2
  <2>2. IsFiniteSet(Before(p)) /\ IsFiniteSet(Before(q)) /\ Before(q) # Before(p)
    BY <1>1, <2>1
  <2>3. size[q] = Cardinality(Before(q)) /\ size[p] = Cardinality(Before(p))
    OBVIOUS
  <2> HIDE DEF Before, size
  <2>4. /\ Cardinality(Before(q)) \in Nat /\ Cardinality(Before(p)) \in Nat
        /\ Cardinality(Before(q)) <= Cardinality(Before(p))
        /\ Cardinality(Before(q)) # Cardinality(Before(p))
    BY <2>1, <2>2, FS_Subset, FS_CardinalityType
  <2> QED
    BY <2>3, <2>4
<1>3. \A p \in S : size[p] \in Nat
  BY <1>1, FS_CardinalityType
<1> HIDE DEF size
<1>4. PICK n \in N : \A k \in N : n <= k
  <2>1. N \subseteq Nat /\ N # {}
    BY <1>3
  <2> HIDE DEF N
  <2> QED
    BY <2>1, NatMinimum
<1>5. PICK p \in S : size[p] = n
  OBVIOUS
<1>6. \A q \in S : size[p] <= size[q]
  BY <1>4, <1>5
<1>7. ASSUME NEW q \in S, <<q, p>> \in R
      PROVE  FALSE
  <2>1. size[q] < size[p] /\ size[p] <= size[q]
    BY <1>2, <1>6, <1>7
  <2>2. size[q] \in Nat /\ size[p] \in Nat
    BY <1>3
  <2> HIDE DEF N
  <2> QED
    BY <2>1, <2>2
<1> QED
  BY <1>7

(* Of some pools one is the deepest.                                        *)
LEMMA DeepestIsThere ==
  ASSUME PoolsTyped, NEW S, S \subseteq DOMAIN pools, S # {}
  PROVE  /\ Router!Deepest(S) \in S
         /\ \A q \in S \ {Router!Deepest(S)} : Router!Deeper(Router!Deepest(S), q)
<1> DEFINE R == {e \in S \X S : Router!Deeper(e[1], e[2])}
<1>1. \A p, q \in S : <<p, q>> \in R <=> Router!Deeper(p, q)
  OBVIOUS
<1>2. IsFiniteSet(S)
  BY PoolIds, FS_Subset
<1> HIDE DEF R
<1>3. /\ \A p \in S : <<p, p>> \notin R
      /\ \A p, q, r \in S : <<p, q>> \in R /\ <<q, r>> \in R => <<p, r>> \in R
  BY <1>1, DepthIsAnOrder
<1>4. PICK p \in S : \A q \in S : <<q, p>> \notin R
  BY <1>2, <1>3, FirstOfOrder
<1>5. \A q \in S \ {p} : Router!Deeper(p, q)
  BY <1>1, <1>4, DepthIsAnOrder
<1> QED
  BY <1>5 DEF Router!Deepest

(* Of some pools one is the first in the map.                               *)
LEMMA LowestIsThere ==
  ASSUME PoolsTyped, NEW S, S \subseteq DOMAIN pools, S # {}
  PROVE  Router!Min(S) \in S
<1> DEFINE R == {e \in S \X S : e[1] < e[2]}
<1>1. S \subseteq Int /\ IsFiniteSet(S)
  BY PoolIds, FS_Subset
<1>2. \A p, q \in S : <<p, q>> \in R <=> p < q
  OBVIOUS
<1> HIDE DEF R
<1>3. /\ \A p \in S : <<p, p>> \notin R
      /\ \A p, q, r \in S : <<p, q>> \in R /\ <<q, r>> \in R => <<p, r>> \in R
  BY <1>1, <1>2
<1>4. PICK p \in S : \A q \in S : <<q, p>> \notin R
  BY <1>1, <1>3, FirstOfOrder
<1>5. ASSUME NEW q \in S PROVE p <= q
  <2>1. ~(q < p) /\ p \in Int /\ q \in Int
    BY <1>1, <1>2, <1>4
  <2> QED
    BY <2>1
<1> QED
  BY <1>5 DEF Router!Min

(* What a pool gives is an integer.                                         *)
LEMMA OutputsAreIntegers ==
  ASSUME PoolsTyped, NEW p \in DOMAIN pools, NEW from, NEW amount \in Int
  PROVE  Router!Output(pools[p], from, amount) \in Int
<1> DEFINE in  == IF pools[p].token_a = from THEN pools[p].reserve_a ELSE pools[p].reserve_b
           out == IF pools[p].token_a = from THEN pools[p].reserve_b ELSE pools[p].reserve_a
           with_fee == amount * (Divisor - pools[p].fee)
           none == \/ amount <= 0 \/ in <= 0 \/ out <= 0 \/ pools[p].token_a = pools[p].token_b
                   \/ pools[p].fee >= Divisor
<1>1. Divisor \in Nat \ {0} /\ pools[p].fee \in Nat /\ in \in Int /\ out \in Int
  BY InstanceAssumption DEF Router!RouterAssumption, PoolsTyped, Pool
<1>2. Router!Output(pools[p], from, amount) =
        IF none THEN 0 ELSE (with_fee * out) \div (in * Divisor + with_fee)
  BY DEF Router!Output
<1>3. ASSUME ~none
      PROVE  (with_fee * out) \div (in * Divisor + with_fee) \in Int
  <2>1. amount \in Nat \ {0} /\ in \in Nat \ {0} /\ Divisor - pools[p].fee \in Nat \ {0}
    BY <1>1, <1>3
  <2> HIDE DEF in, out, none
  <2>2. with_fee \in Nat \ {0} /\ in * Divisor \in Nat
    BY <1>1, <2>1
  <2> HIDE DEF with_fee
  <2>3. in * Divisor + with_fee \in Nat \ {0} /\ with_fee * out \in Int
    BY <1>1, <2>2
  <2> QED
    BY <2>3
<1> HIDE DEF in, out, with_fee, none
<1> QED
  BY <1>2, <1>3

(* Routes of the search.                                                    *)
Route == [tokens: Seq(Router!Traded), pools: Seq(Ids), output: Int]

Routes == {r \in Route : Len(r.tokens) >= 1 /\ r.pools \in Seq(DOMAIN pools)}

(* A route that grows by a pool is a route.                                 *)
LEMMA LongerRoutes ==
  ASSUME PoolsTyped, NEW r \in Routes, NEW p \in DOMAIN pools
  PROVE  /\ Router!Longer(r, p) \in Routes
         /\ Router!Longer(r, p).pools = Append(r.pools, p)
         /\ Router!Last(Router!Longer(r, p)) = Router!OtherToken(pools[p], Router!Last(r))
<1> DEFINE l == Router!Longer(r, p)
           to == Router!OtherToken(pools[p], Router!Last(r))
           o  == Router!Output(pools[p], Router!Last(r), r.output)
<1>1. r.tokens \in Seq(Router!Traded) /\ r.pools \in Seq(DOMAIN pools) /\ r.output \in Int
  BY DEF Routes, Route
<1>2. p \in Ids /\ to \in Router!Traded /\ o \in Int
  BY <1>1, OutputsAreIntegers DEF PoolsTyped, Pool, Router!OtherToken
<1>3. l = [tokens |-> Append(r.tokens, to), pools |-> Append(r.pools, p), output |-> o]
  BY DEF Router!Longer
<1> HIDE DEF l, to, o
<1>4. /\ Append(r.tokens, to) \in Seq(Router!Traded) /\ Len(Append(r.tokens, to)) >= 1
      /\ Append(r.tokens, to)[Len(Append(r.tokens, to))] = to
      /\ Append(r.pools, p) \in Seq(DOMAIN pools)
  BY <1>1, <1>2
<1>5. Append(r.pools, p) \in Seq(Ids)
  <2>1. r.pools \in Seq(Ids)
    BY DEF Routes, Route
  <2> QED
    BY <1>2, <2>1
<1>6. l \in Routes
  BY <1>2, <1>3, <1>4, <1>5 DEF Routes, Route
<1>7. Router!Last(l) = to
  BY <1>3, <1>4 DEF Router!Last
<1> QED
  BY <1>3, <1>6, <1>7 DEF l, to

(* Routes of n pools which their pools tell apart.                          *)
Generation(R, n) ==
  /\ R \subseteq Routes
  /\ \A r \in R : Len(r.pools) = n
  /\ \A r, s \in R : r.pools = s.pools => r = s

(* The search starts with such a set, of the one route without pools.       *)
LEMMA SearchStarts ==
  ASSUME NEW from \in Router!Traded, NEW amount \in Int
  PROVE  Generation({Router!Start(from, amount)}, 0)
<1>1. <<from>> \in Seq(Router!Traded) /\ Len(<<from>>) = 1
  OBVIOUS
<1>2. <<>> \in Seq(Ids) /\ <<>> \in Seq(DOMAIN pools) /\ Len(<<>>) = 0
  OBVIOUS
<1>3. Router!Start(from, amount) \in Route
  BY <1>1, <1>2 DEF Router!Start, Route
<1>4. /\ Len(Router!Start(from, amount).tokens) >= 1
      /\ Router!Start(from, amount).pools \in Seq(DOMAIN pools)
      /\ Len(Router!Start(from, amount).pools) = 0
  BY <1>1, <1>2 DEF Router!Start
<1> QED
  BY <1>3, <1>4 DEF Generation, Routes

(* Growing by one pool leads to such a set, whose routes go on from routes  *)
(* that had not arrived.                                                    *)
LEMMA SearchGrows ==
  ASSUME PoolsTyped, NEW R, NEW n \in Nat, Generation(R, n), NEW to
  PROVE  /\ Generation(Router!Grown(R, to), n + 1)
         /\ \A r \in Router!Grown(R, to) :
              \E s \in R : Router!Last(s) # to /\ \A k \in 1..n : s.pools[k] = r.pools[k]
<1>1. \A r : r \in Router!Grown(R, to) <=>
        \E s \in R, p \in DOMAIN pools :
          Router!Last(s) # to /\ p \in Router!Legs(s) /\ r = Router!Longer(s, p)
  BY DEF Router!Grown, Router!Legs
<1>2. ASSUME NEW s \in R, NEW p \in DOMAIN pools
      PROVE  /\ Router!Longer(s, p) \in Routes /\ Len(Router!Longer(s, p).pools) = n + 1
             /\ Router!Longer(s, p).pools[n + 1] = p
             /\ \A k \in 1..n : s.pools[k] = Router!Longer(s, p).pools[k]
  <2>1. s \in Routes /\ s.pools \in Seq(DOMAIN pools) /\ Len(s.pools) = n
    BY DEF Generation, Routes
  <2>2. Router!Longer(s, p) \in Routes /\ Router!Longer(s, p).pools = Append(s.pools, p)
    BY <2>1, LongerRoutes
  <2> QED
    BY <2>1, <2>2
<1>3. ASSUME NEW r \in Router!Grown(R, to), NEW q \in Router!Grown(R, to), r.pools = q.pools
      PROVE  r = q
  <2>1. PICK s \in R, p \in DOMAIN pools : r = Router!Longer(s, p)
    BY <1>1
  <2>2. PICK t \in R, m \in DOMAIN pools : q = Router!Longer(t, m)
    BY <1>1
  <2>3. p = m
    BY <1>2, <1>3, <2>1, <2>2
  <2>4. /\ s.pools \in Seq(DOMAIN pools) /\ Len(s.pools) = n
        /\ t.pools \in Seq(DOMAIN pools) /\ Len(t.pools) = n
    BY DEF Generation, Routes
  <2>5. \A k \in 1..n : s.pools[k] = t.pools[k]
    BY <1>2, <1>3, <2>1, <2>2
  <2>6. s.pools = t.pools
    BY <2>4, <2>5
  <2>7. s = t
    BY <2>6 DEF Generation
  <2> QED
    BY <2>1, <2>2, <2>3, <2>7
<1>4. Generation(Router!Grown(R, to), n + 1)
  BY <1>1, <1>2, <1>3 DEF Generation
<1> QED
  BY <1>1, <1>2, <1>4

(* None of the routes is the beginning of another.                          *)
Apart(R) ==
  \A r, s \in R : Len(r.pools) <= Len(s.pools) /\ (\A k \in 1..Len(r.pools) : r.pools[k] = s.pools[k])
                    => r = s

(* The routes a search may end with are of one to three pools, and apart: a *)
(* route that has arrived goes no further.                                  *)
LEMMA ViableAreApart ==
  ASSUME PoolsTyped, NEW from \in Router!Traded, NEW to, NEW amount \in Int
  PROVE  /\ Router!Viable(from, to, amount) \subseteq Routes
         /\ \A r \in Router!Viable(from, to, amount) : Len(r.pools) \in 1..3
         /\ Apart(Router!Viable(from, to, amount))
<1> DEFINE zero  == {Router!Start(from, amount)}
           one   == Router!Grown(zero, to)
           two   == Router!Grown(one, to)
           three == Router!Grown(two, to)
           V     == Router!Viable(from, to, amount)
<1>1. V = {r \in one \cup two \cup three : Router!Last(r) = to}
  BY DEF Router!Viable
<1>2. Generation(zero, 0)
  BY SearchStarts
<1> HIDE DEF zero
<1>3. Generation(one, 1)
  BY <1>2, SearchGrows
<1> HIDE DEF one
<1>4. /\ Generation(two, 2)
      /\ \A r \in two : \E s \in one : Router!Last(s) # to /\ \A k \in 1..1 : s.pools[k] = r.pools[k]
  BY <1>3, SearchGrows
<1> HIDE DEF two
<1>5. /\ Generation(three, 3)
      /\ \A r \in three : \E s \in two : Router!Last(s) # to /\ \A k \in 1..2 : s.pools[k] = r.pools[k]
  BY <1>4, SearchGrows
<1> HIDE DEF three, V
<1>6. /\ \A r \in V : r \in Routes /\ Len(r.pools) \in 1..3 /\ r.pools \in Seq(DOMAIN pools)
      /\ \A r \in V : r \in one \/ r \in two \/ r \in three
  BY <1>1, <1>3, <1>4, <1>5 DEF Generation, Routes
<1>7. ASSUME NEW R, NEW n \in Nat, Generation(R, n), NEW r \in R, NEW s \in R,
             \A k \in 1..n : r.pools[k] = s.pools[k]
      PROVE  r = s
  <2>1. /\ r.pools \in Seq(DOMAIN pools) /\ Len(r.pools) = n
        /\ s.pools \in Seq(DOMAIN pools) /\ Len(s.pools) = n
    BY <1>7 DEF Generation, Routes
  <2>2. r.pools = s.pools
    BY <1>7, <2>1
  <2> QED
    BY <1>7, <2>2 DEF Generation
<1>8. ASSUME NEW r \in V, NEW s \in V, Len(r.pools) <= Len(s.pools),
             \A k \in 1..Len(r.pools) : r.pools[k] = s.pools[k]
      PROVE  r = s
  <2>1. Router!Last(r) = to
    BY <1>1
  <2>2. CASE r \in one
    <3>1. Len(r.pools) = 1 /\ r.pools[1] = s.pools[1]
      BY <1>3, <1>8, <2>2 DEF Generation
    <3>2. ASSUME NEW t \in one, t.pools[1] = s.pools[1]
          PROVE  t = r
      BY <1>3, <1>7, <2>2, <3>1, <3>2
    <3>3. s \in one => s = r
      BY <3>2
    <3>4. s \in two => FALSE
      BY <1>4, <2>1, <3>2
    <3>5. ASSUME s \in three PROVE FALSE
      <4>1. PICK t \in two : \A k \in 1..2 : t.pools[k] = s.pools[k]
        BY <1>5, <3>5
      <4>2. PICK v \in one : Router!Last(v) # to /\ v.pools[1] = t.pools[1]
        BY <1>4
      <4>3. v.pools[1] = s.pools[1]
        BY <4>1, <4>2
      <4> QED
        BY <2>1, <3>2, <4>2, <4>3
    <3> QED
      BY <1>6, <3>3, <3>4, <3>5
  <2>3. CASE r \in two
    <3>1. Len(r.pools) = 2 /\ \A k \in 1..2 : r.pools[k] = s.pools[k]
      BY <1>4, <1>8, <2>3 DEF Generation
    <3>2. s \notin one
      BY <1>3, <1>8, <3>1 DEF Generation
    <3>3. ASSUME NEW t \in two, \A k \in 1..2 : t.pools[k] = s.pools[k]
          PROVE  t = r
      BY <1>4, <1>7, <2>3, <3>1, <3>3
    <3>4. s \in two => s = r
      BY <3>3
    <3>5. s \in three => FALSE
      BY <1>5, <2>1, <3>3
    <3> QED
      BY <1>6, <3>2, <3>4, <3>5
  <2>4. CASE r \in three
    <3>1. Len(r.pools) = 3 /\ \A k \in 1..3 : r.pools[k] = s.pools[k]
      BY <1>5, <1>8, <2>4 DEF Generation
    <3>2. s \in three
      BY <1>3, <1>4, <1>6, <1>8, <3>1 DEF Generation
    <3> QED
      BY <1>5, <1>7, <2>4, <3>1, <3>2
  <2> QED
    BY <1>6, <2>2, <2>3, <2>4
<1> QED
  BY <1>6, <1>8 DEF V, Apart

(* Routes that agree on their first n pools.                                *)
Agree(R, n) == \A r, s \in R : \A k \in 1..n : r.pools[k] = s.pools[k]

(* Of routes that agree on n pools and have more, those with the deepest    *)
(* next pool come first.                                                    *)
LEMMA NextPoolDecides ==
  ASSUME PoolsTyped, NEW n \in Nat, NEW W, W \subseteq Routes, W # {}, Agree(W, n),
         \A r \in W : Len(r.pools) > n
  PROVE  \E U : /\ U # {} /\ U \subseteq W /\ Agree(U, n + 1)
                /\ \A r \in U, s \in W \ U : Router!Earlier(r, s)
<1> DEFINE S == {r.pools[n + 1] : r \in W}
           p == Router!Deepest(S)
           U == {r \in W : r.pools[n + 1] = p}
<1>1. \A r \in W : r.pools \in Seq(DOMAIN pools) /\ n + 1 \in 1..Len(r.pools)
  BY DEF Routes
<1>2. S \subseteq DOMAIN pools /\ S # {}
  BY <1>1
<1> HIDE DEF S
<1>3. p \in S /\ \A q \in S \ {p} : Router!Deeper(p, q)
  BY <1>2, DeepestIsThere
<1> HIDE DEF p
<1>4. U # {} /\ U \subseteq W
  BY <1>3 DEF S
<1>5. Agree(U, n + 1)
  BY DEF Agree
<1>6. ASSUME NEW r \in U, NEW s \in W \ U
      PROVE  Router!Earlier(r, s)
  <2>1. /\ n + 1 \in DOMAIN r.pools \cap DOMAIN s.pools
        /\ \A k \in 1..((n + 1) - 1) : r.pools[k] = s.pools[k]
    BY <1>1 DEF Agree
  <2>2. r.pools[n + 1] = p /\ s.pools[n + 1] # p /\ s.pools[n + 1] \in S
    BY DEF S
  <2> QED
    BY <1>3, <2>1, <2>2 DEF Router!Earlier
<1> QED
  BY <1>4, <1>5, <1>6

(* Of the routes a search may end with one comes first.                     *)
LEMMA FirstIsThere ==
  ASSUME PoolsTyped, NEW V, V \subseteq Routes, V # {}, Apart(V),
         \A r \in V : Len(r.pools) \in 1..3
  PROVE  Router!First(V) \in V
<1>1. ASSUME NEW n \in 1..3, NEW U, U # {}, U \subseteq V, Agree(U, n),
             NEW r \in U, Len(r.pools) = n
      PROVE  U = {r}
  <2>1. ASSUME NEW s \in U, Len(s.pools) >= n PROVE s = r
    BY <1>1, <2>1 DEF Agree, Apart
  <2>2. ASSUME NEW s \in U, Len(s.pools) < n PROVE s = r
    <3>1. Len(s.pools) \in 1..3 /\ Len(s.pools) <= Len(r.pools)
      BY <1>1, <2>2
    <3>2. \A k \in 1..Len(s.pools) : s.pools[k] = r.pools[k]
      BY <1>1, <2>2, <3>1 DEF Agree
    <3> QED
      BY <1>1, <3>1, <3>2 DEF Apart
  <2>3. \A s \in U : Len(s.pools) \in 1..3
    BY <1>1
  <2> QED
    BY <1>1, <2>1, <2>2, <2>3
<1>2. \E r \in V : \A s \in V \ {r} : Router!Earlier(r, s)
  <2>1. PICK U1 : /\ U1 # {} /\ U1 \subseteq V /\ Agree(U1, 1)
                  /\ \A r \in U1, s \in V \ U1 : Router!Earlier(r, s)
    <3>1. Agree(V, 0) /\ \A r \in V : Len(r.pools) > 0
      BY DEF Agree
    <3>2. \E U : /\ U # {} /\ U \subseteq V /\ Agree(U, 0 + 1)
                 /\ \A r \in U, s \in V \ U : Router!Earlier(r, s)
      BY <3>1, NextPoolDecides
    <3> QED
      BY <3>2
  <2>2. CASE \E r \in U1 : Len(r.pools) = 1
    BY <1>1, <2>1, <2>2
  <2>3. CASE \A r \in U1 : Len(r.pools) # 1
    <3>1. PICK U2 : /\ U2 # {} /\ U2 \subseteq U1 /\ Agree(U2, 2)
                    /\ \A r \in U2, s \in U1 \ U2 : Router!Earlier(r, s)
      <4>1. ASSUME NEW r \in U1
            PROVE  Len(r.pools) > 1
        <5>1. r \in V /\ Len(r.pools) # 1
          BY <2>1, <2>3
        <5> QED
          BY <5>1
      <4>2. \E U : /\ U # {} /\ U \subseteq U1 /\ Agree(U, 1 + 1)
                   /\ \A r \in U, s \in U1 \ U : Router!Earlier(r, s)
        BY <2>1, <4>1, NextPoolDecides
      <4> QED
        BY <4>2
    <3>2. CASE \E r \in U2 : Len(r.pools) = 2
      <4>1. PICK r \in U2 : U2 = {r}
        BY <1>1, <2>1, <3>1, <3>2
      <4> QED
        BY <2>1, <3>1, <4>1
    <3>3. CASE \A r \in U2 : Len(r.pools) # 2
      <4>1. PICK U3 : /\ U3 # {} /\ U3 \subseteq U2 /\ Agree(U3, 3)
                      /\ \A r \in U3, s \in U2 \ U3 : Router!Earlier(r, s)
        <5>1. ASSUME NEW r \in U2
              PROVE  Len(r.pools) > 2
          <6>1. r \in V /\ Len(r.pools) # 1 /\ Len(r.pools) # 2
            BY <2>1, <2>3, <3>1, <3>3
          <6> QED
            BY <6>1
        <5>2. \E U : /\ U # {} /\ U \subseteq U2 /\ Agree(U, 2 + 1)
                     /\ \A r \in U, s \in U2 \ U : Router!Earlier(r, s)
          BY <2>1, <3>1, <5>1, NextPoolDecides
        <5> QED
          BY <5>2
      <4>2. PICK r \in U3 : U3 = {r}
        <5>1. ASSUME NEW r \in U3
              PROVE  Len(r.pools) = 3
          <6>1. r \in V /\ Len(r.pools) # 1 /\ Len(r.pools) # 2
            BY <2>1, <2>3, <3>1, <3>3, <4>1
          <6> QED
            BY <6>1
        <5> QED
          BY <1>1, <2>1, <3>1, <4>1, <5>1
      <4> QED
        BY <2>1, <3>1, <4>1, <4>2
    <3> QED
      BY <3>2, <3>3
  <2> QED
    BY <2>2, <2>3
<1> QED
  BY <1>2 DEF Router!First

-----------------------------------------------------------------------------
(* The route that is found.                                                *)

(* A direct route is a leg of the search, and leads to the other token.     *)
LEMMA DirectIsALeg ==
  ASSUME PoolsTyped, NEW r \in Routes, NEW to, to \notin Router!Range(r.tokens),
         Router!DirectRoute(r, to) # Router!NoRoute
  PROVE  /\ \E p \in Router!Legs(r) : Router!DirectRoute(r, to) = Router!Longer(r, p)
         /\ Router!Last(Router!DirectRoute(r, to)) = to
         /\ Router!DirectRoute(r, to).tokens = Append(r.tokens, to)
<1> DEFINE C == Router!Direct(Router!Last(r), to, r.output)
           p == Router!Deepest(C)
<1>1. C \subseteq DOMAIN pools /\ C # {} /\ Router!DirectRoute(r, to) = Router!Longer(r, p)
  BY DEF Router!DirectRoute, Router!Direct
<1>2. p \in C
  <2> HIDE DEF C
  <2> QED
    BY <1>1, DeepestIsThere
<1>3. /\ p \in DOMAIN pools /\ Router!Joins(pools[p], Router!Last(r), to)
      /\ Router!Output(pools[p], Router!Last(r), r.output) > 0
  BY <1>2 DEF Router!Direct
<1> HIDE DEF p, C
<1>4. /\ {pools[p].token_a, pools[p].token_b} = {Router!Last(r), to} /\ Router!Last(r) # to
      /\ pools[p].token_a \in Router!Traded /\ pools[p].token_b \in Router!Traded
  BY <1>3 DEF Router!Joins, PoolsTyped, Pool
<1>5. to \in Router!Traded /\ Router!OtherToken(pools[p], Router!Last(r)) = to
  BY <1>4 DEF Router!OtherToken
<1>6. p \in Router!Legs(r)
  BY <1>3, <1>5 DEF Router!Legs
<1>7. /\ Router!Last(Router!Longer(r, p)) = to
      /\ Router!Longer(r, p).tokens = Append(r.tokens, to)
  <2>1. Router!Last(Router!Longer(r, p)) = to
    BY <1>3, <1>5, LongerRoutes
  <2> QED
    BY <1>5, <2>1 DEF Router!Longer
<1> QED
  BY <1>1, <1>6, <1>7

(* A sequence of one that grows has two elements.                           *)
LEMMA PassedByTwo ==
  ASSUME NEW T, NEW s \in Seq(T), NEW x \in T, Len(s) = 1
  PROVE  {Append(s, x)[k] : k \in DOMAIN Append(s, x)} = {s[1], x}
<1>1. Append(s, x) \in Seq(T) /\ Len(Append(s, x)) = Len(s) + 1
  BY AppendProperties
<1>2. Append(s, x)[1] = s[1]
  BY SMTT(40), AppendProperties
<1>3. Append(s, x)[Len(s) + 1] = x
  BY AppendProperties
<1>4. DOMAIN Append(s, x) = 1..2
  BY <1>1
<1> QED
  BY <1>2, <1>3, <1>4

(* What the search and the shortcuts before it find is a route, and there   *)
(* is none where they find nothing.                                         *)
LEMMA BestIsARoute ==
  ASSUME PoolsTyped, NEW from \in Router!Traded, NEW to \in Router!Traded \ {from},
         NEW amount \in Int
  PROVE  LET route == Router!find_best_path(from, to, amount)
         IN IF route = Router!NoRoute THEN Router!Viable(from, to, amount) = {}
            ELSE route \in Router!Viable(from, to, amount)
<1> DEFINE start  == Router!Start(from, amount)
           one    == Router!Grown({start}, to)
           two    == Router!Grown(one, to)
           V      == Router!Viable(from, to, amount)
           direct == Router!DirectRoute(start, to)
           half   == Router!DirectRoute(start, XLM)
           xlm    == Router!find_xlm_hop_path(from, to, amount)
<1>1. /\ start \in Routes /\ start.tokens = <<from>> /\ Router!Last(start) = from
      /\ Router!Range(start.tokens) = {from}
  <2>1. start \in Routes
    BY SearchStarts DEF Generation
  <2>2. start.tokens = <<from>>
    BY DEF Router!Start
  <2>3. \A t : t \in Router!Range(<<from>>) <=> t = from
    BY DEF Router!Range
  <2> HIDE DEF start
  <2> QED
    BY <2>1, <2>2, <2>3 DEF Router!Last
<1>2. \A r : Router!Last(r) = to /\ (r \in one \/ r \in two) => r \in V
  BY DEF Router!Viable
<1>3. \A r \in {start} : Router!Last(r) # to => \A p \in Router!Legs(r) : Router!Longer(r, p) \in one
  BY DEF Router!Grown
<1>4. \A r \in one : Router!Last(r) # to => \A p \in Router!Legs(r) : Router!Longer(r, p) \in two
  BY DEF Router!Grown
<1>5. xlm # Router!NoRoute =>
        /\ XLM \notin {from, to} /\ half # Router!NoRoute
        /\ xlm = Router!DirectRoute(half, to)
  BY DEF Router!find_xlm_hop_path
<1>6. Router!find_best_path(from, to, amount) =
        IF direct # Router!NoRoute THEN direct
        ELSE IF xlm # Router!NoRoute THEN xlm
        ELSE IF V = {} THEN Router!NoRoute ELSE Router!First(V)
  BY DEF Router!find_best_path, Router!find_multi_hop_path, Router!FirstOf
<1> HIDE DEF start, one, two, V, direct, half, xlm
<1>7. direct # Router!NoRoute => direct \in V
  BY <1>1, <1>2, <1>3, DirectIsALeg DEF direct
<1>8. xlm # Router!NoRoute => xlm \in V
  <2> SUFFICES ASSUME xlm # Router!NoRoute PROVE xlm \in V
    OBVIOUS
  <2>1. /\ XLM \notin {from, to} /\ half # Router!NoRoute
        /\ xlm = Router!DirectRoute(half, to)
    BY <1>5
  <2>2. PICK p \in Router!Legs(start) : half = Router!Longer(start, p)
    BY <1>1, <2>1, DirectIsALeg DEF half
  <2>3. Router!Last(half) = XLM /\ half.tokens = Append(start.tokens, XLM)
    BY <1>1, <2>1, DirectIsALeg DEF half
  <2>4. half \in one
    BY <1>1, <1>3, <2>2
  <2>5. half \in Routes
    BY <1>1, <2>2, LongerRoutes DEF Router!Legs
  <2>6. to \notin Router!Range(half.tokens)
    <3> DEFINE s == start.tokens
               T == {from, XLM}
    <3>1. s \in Seq(T) /\ XLM \in T /\ Len(s) = 1 /\ s[1] = from
      BY <1>1
    <3> HIDE DEF s, T
    <3>2. Router!Range(Append(s, XLM)) = {from, XLM}
      BY <3>1, PassedByTwo DEF Router!Range
    <3> QED
      BY <2>1, <2>3, <3>2 DEF s
  <2>7. /\ \E q \in Router!Legs(half) : xlm = Router!Longer(half, q)
        /\ Router!Last(xlm) = to
    BY <2>1, <2>5, <2>6, DirectIsALeg
  <2>8. Router!Last(half) # to
    BY <2>1, <2>3
  <2> QED
    BY <1>2, <1>4, <2>4, <2>7, <2>8
<1>9. V # {} => Router!First(V) \in V /\ Router!First(V) # Router!NoRoute
  <2>1. /\ V \subseteq Routes /\ Apart(V) /\ \A r \in V : Len(r.pools) \in 1..3
    BY ViableAreApart DEF V
  <2>2. V # {} => Router!First(V) \in V
    BY <2>1, FirstIsThere
  <2>3. Router!NoRoute \notin V
    BY SMTT(40), <2>1 DEF Router!NoRoute
  <2> QED
    BY <2>2, <2>3
<1> QED
  BY <1>6, <1>7, <1>8, <1>9 DEF V

(* So routes are found.                                                     *)
LEMMA RoutesAreFound == PoolsTyped => Router!RouteIsFound
<1>1. SwapAmounts \subseteq Int
  BY InstanceAssumption DEF Router!RouterAssumption
<1> QED
  BY <1>1, BestIsARoute DEF Router!RouteIsFound

-----------------------------------------------------------------------------
(* Swaps.                                                                  *)

(* What a path gives, from its first token on.                              *)
IsLeft(path, amount, g) ==
  g = [n \in 1..Len(path) |-> IF n = 1 THEN amount
                              ELSE Router!SingleOutput(path[n - 1], path[n], g[n - 1])]

(* What one pool gives is an integer, whichever pool it is.                *)
LEMMA SingleOutputsAreIntegers ==
  ASSUME PoolsTyped, NEW from, NEW to, NEW amount \in Int
  PROVE  Router!SingleOutput(from, to, amount) \in Int
<1> DEFINE joining == {p \in DOMAIN pools : Router!Joins(pools[p], from, to)}
<1>1. Router!SingleOutput(from, to, amount) =
        IF joining = {} THEN 0 ELSE Router!Output(pools[Router!Min(joining)], from, amount)
  BY DEF Router!SingleOutput
<1>2. joining \subseteq DOMAIN pools
  OBVIOUS
<1> HIDE DEF joining
<1>3. joining # {} => Router!Min(joining) \in DOMAIN pools
  BY <1>2, LowestIsThere
<1> QED
  BY <1>1, <1>3, OutputsAreIntegers

(* A path gives an integer.                                                 *)
LEMMA PathOutputsAreIntegers ==
  ASSUME PoolsTyped, NEW path \in Seq(Router!Traded), Len(path) >= 1, NEW amount \in Int
  PROVE  Router!PathOutput(path, amount) \in Int
<1> DEFINE n == Len(path)
           After(g, i) == IF i = 1 THEN amount
                          ELSE Router!SingleOutput(path[i - 1], path[i], g[i - 1])
           Has(k) == \E g \in [1..k -> Int] : \A i \in 1..k : g[i] = After(g, i)
           T == {k \in 0..n : ~Has(k)}
<1>0. n \in Nat \ {0}
  OBVIOUS
<1> HIDE DEF n
<1>1. T = {}
  <2>1. SUFFICES ASSUME T # {} PROVE FALSE
    OBVIOUS
  <2>2. PICK m \in T : \A k \in T : m <= k
    <3>1. T \subseteq Nat
      BY <1>0
    <3> HIDE DEF T
    <3> QED
      BY <2>1, <3>1, NatMinimum
  <2>3. Has(0)
    <3> DEFINE g0 == [i \in 1..0 |-> 0]
    <3>1. g0 \in [1..0 -> Int] /\ \A i \in 1..0 : FALSE
      OBVIOUS
    <3> HIDE DEF g0
    <3> QED
      BY <3>1
  <2>4. m \in 1..n /\ m - 1 \in 0..n /\ Has(m - 1)
    <3>1. m \in 0..n /\ ~Has(m)
      OBVIOUS
    <3> HIDE DEF Has
    <3>2. m # 0
      BY <2>3, <3>1
    <3>3. m - 1 \in 0..n /\ m - 1 \notin T
      BY <1>0, <2>2, <3>1, <3>2
    <3> QED
      BY <1>0, <3>1, <3>2, <3>3
  <2>5. PICK g \in [1..(m - 1) -> Int] : \A i \in 1..(m - 1) : g[i] = After(g, i)
    BY <2>4
  <2> DEFINE h == [i \in 1..m |-> IF i < m THEN g[i] ELSE After(g, m)]
  <2>6. After(g, m) \in Int
    <3>1. m # 1 => g[m - 1] \in Int
      BY <2>4
    <3> QED
      BY <3>1, SingleOutputsAreIntegers
  <2>7. h \in [1..m -> Int]
    BY <2>4, <2>6
  <2>8. ASSUME NEW i \in 1..m PROVE h[i] = After(h, i)
    <3>1. i # 1 => h[i - 1] = g[i - 1]
      BY <2>4
    <3>2. After(h, i) = After(g, i)
      BY <3>1
    <3> HIDE DEF After
    <3>3. i < m => g[i] = After(g, i)
      BY <2>4, <2>5
    <3>4. i >= m => i = m
      BY <2>4
    <3> QED
      BY <2>4, <3>2, <3>3, <3>4
  <2>9. Has(m)
    <3> HIDE DEF h, After
    <3> QED
      BY <2>7, <2>8
  <2> QED
    BY <2>9
<1>2. PICK g \in [1..n -> Int] : \A i \in 1..n : g[i] = After(g, i)
  <2>1. n \in 0..n
    BY <1>0
  <2> HIDE DEF After
  <2> QED
    BY <1>1, <2>1
<1>3. IsLeft(path, amount, g)
  <2>1. g = [i \in 1..n |-> After(g, i)]
    <3> HIDE DEF After
    <3> QED
      BY <1>2
  <2> QED
    BY <2>1 DEF IsLeft, n
<1> DEFINE left == CHOOSE f : IsLeft(path, amount, f)
<1>4. IsLeft(path, amount, left)
  BY <1>3
<1>5. Router!PathOutput(path, amount) = left[n]
  BY DEF Router!PathOutput, IsLeft, n
<1> HIDE DEF left
<1>6. \A i \in 1..n : left[i] = After(left, i)
  BY <1>4 DEF IsLeft, n
<1> DEFINE N == {i \in 1..n : left[i] \notin Int}
<1>7. N = {}
  <2>1. SUFFICES ASSUME N # {} PROVE FALSE
    OBVIOUS
  <2>2. PICK m \in N : \A k \in N : m <= k
    <3>1. N \subseteq Nat
      OBVIOUS
    <3> HIDE DEF N
    <3> QED
      BY <2>1, <3>1, NatMinimum
  <2>3. m \in 1..n /\ left[m] \notin Int /\ left[m] = After(left, m)
    BY <1>6
  <2>4. m # 1 => left[m - 1] \in Int
    <3>1. m # 1 => m - 1 \in 1..n /\ ~(m <= m - 1)
      BY <1>0, <2>3
    <3> QED
      BY <2>2, <3>1
  <2> QED
    BY <2>3, <2>4, SingleOutputsAreIntegers
<1> QED
  BY <1>0, <1>5, <1>7

(* A fee in basis points is rounded down.                                   *)
LEMMA FeesAreFloors ==
  ASSUME NEW x \in Nat
  PROVE  /\ Router!scale_bps(x, TreasuryBps) \in Nat
         /\ Router!scale_bps(x, TreasuryBps) * Divisor <= x * TreasuryBps
         /\ x * TreasuryBps < Router!scale_bps(x, TreasuryBps) * Divisor + Divisor
<1>1. Divisor \in Nat \ {0} /\ TreasuryBps \in Nat
  BY InstanceAssumption DEF Router!RouterAssumption
<1>2. \A a \in Nat, d \in Nat \ {0} : a \div d \in Nat /\ (a \div d) * d <= a /\ a < (a \div d) * d + d
  BY Z3
<1>3. \A a \in Nat, d \in Nat \ {0} : a % d \in Nat /\ a = (a \div d) * d + (a % d)
  BY Z3
<1> DEFINE q == x \div Divisor
           m == x % Divisor
           e == (m * TreasuryBps) \div Divisor
<1>4. q \in Nat /\ m \in Nat /\ x = q * Divisor + m
  BY <1>1, <1>2, <1>3
<1>5. m * TreasuryBps \in Nat
  BY <1>1, <1>4, Z3
<1>6. e \in Nat /\ e * Divisor <= m * TreasuryBps /\ m * TreasuryBps < e * Divisor + Divisor
  BY <1>1, <1>2, <1>5
<1>7. Router!scale_bps(x, TreasuryBps) = q * TreasuryBps + e
  BY DEF Router!scale_bps
<1> HIDE DEF q, m, e
<1>8. x * TreasuryBps = q * TreasuryBps * Divisor + m * TreasuryBps
  BY <1>1, <1>4, Z3
<1>9. (q * TreasuryBps + e) * Divisor = q * TreasuryBps * Divisor + e * Divisor
  BY <1>1, <1>4, <1>6, Z3
<1>10. q * TreasuryBps \in Nat /\ q * TreasuryBps * Divisor \in Nat /\ e * Divisor \in Nat
  BY <1>1, <1>4, <1>6, Z3
<1> QED
  BY <1>1, <1>5, <1>6, <1>7, <1>8, <1>9, <1>10

(* So more leaves no less after the fee.                                    *)
LEMMA NetOutputsGrow ==
  ASSUME NEW x \in Nat, NEW y \in Nat, x <= y
  PROVE  x - Router!scale_bps(x, TreasuryBps) <= y - Router!scale_bps(y, TreasuryBps)
<1>1. Divisor \in Nat \ {0} /\ TreasuryBps \in 0..Divisor
  BY InstanceAssumption DEF Router!RouterAssumption
<1> DEFINE s == Router!scale_bps(x, TreasuryBps)
           t == Router!scale_bps(y, TreasuryBps)
<1>2. s \in Nat /\ x * TreasuryBps < s * Divisor + Divisor
  BY FeesAreFloors
<1>3. t \in Nat /\ t * Divisor <= y * TreasuryBps
  BY FeesAreFloors
<1> HIDE DEF s, t
<1>4. (y - x) * TreasuryBps <= (y - x) * Divisor
  BY <1>1, Z3
<1>5. (y - x) * TreasuryBps = y * TreasuryBps - x * TreasuryBps
  BY <1>1, Z3
<1>6. (t - s) * Divisor < (y - x + 1) * Divisor
  BY <1>1, <1>2, <1>3, <1>4, <1>5, Z3
<1>7. t - s < y - x + 1
  BY <1>1, <1>2, <1>3, <1>6, Z3
<1> QED
  BY <1>2, <1>3, <1>7 DEF s, t

(* The sum of the router's module is the usual one.                         *)
LEMMA RouterSums == \A f, n : Router!SumTo(f, n) = SumTo(f, n)
  BY DEF Router!SumTo, SumTo

(* The router's own numbers, and what it keeps.                            *)
TokensTyped ==
  /\ wallet \in [Router!Traded -> Int] /\ router_held \in [Router!Traded -> Int]
  /\ router_fees \in [Router!Traded -> Int]

RouterInv == PoolsTyped /\ TokensTyped /\ Router!SwapsAreFair

(* The router starts with what was listed, and without a swap.              *)
LEMMA RouterStarts == Router!Init => RouterInv
<1> SUFFICES ASSUME Router!Init PROVE RouterInv
  OBVIOUS
<1>0. /\ NumTraded \in Nat /\ Funds \in Nat /\ AddedAtFirst \subseteq Listings
      /\ Listings \subseteq [pool: Int, token_a: Router!Traded, token_b: Router!Traded, fee: Nat]
  BY InstanceAssumption DEF Router!RouterAssumption
<1>1. PoolsTyped
  <2> DEFINE first == {l.pool : l \in AddedAtFirst}
             made(p) == CHOOSE l \in AddedAtFirst : l.pool = p
  <2>1. pools = [p \in first |-> Router!Listed(made(p))]
    BY DEF Router!Init
  <2>2. first \subseteq Ids
    BY <1>0 DEF Ids
  <2>3. \A p \in first : made(p) \in Listings
    BY <1>0
  <2>4. \A l \in Listings : Router!Listed(l) \in Pool
    BY <1>0 DEF Router!Listed, Pool
  <2> HIDE DEF first, made
  <2> QED
    BY <2>1, <2>2, <2>3, <2>4 DEF PoolsTyped
<1>2. TokensTyped
  BY <1>0 DEF Router!Init, TokensTyped
<1>3. Router!scale_bps(0, TreasuryBps) \in Nat
  BY FeesAreFloors
<1>4. /\ last_swap.net_output = 0 /\ last_swap.min_output = 0
  BY DEF Router!Init, Router!NoSwap
<1>5. SumTo(router_fees, NumTraded) = 0
  <2>1. router_fees \in [1..NumTraded -> Int] /\ \A t \in 1..NumTraded : router_fees[t] = 0
    BY <1>0 DEF Router!Init, Router!Traded
  <2> QED
    BY <1>0, <2>1, SumToZero
<1>6. /\ total_fees = 0
      /\ \A t \in Router!Traded : wallet[t] + router_held[t] + router_fees[t] = 2 * Funds
  BY <1>0 DEF Router!Init
<1>7. Router!SwapsAreFair
  BY <1>3, <1>4, <1>5, <1>6, RouterSums DEF Router!SwapsAreFair
<1> QED
  BY <1>1, <1>2, <1>7 DEF RouterInv

(* What is done to pools keeps their types.                                 *)
LEMMA PoolsStayTyped ==
  ASSUME PoolsTyped
  PROVE  /\ \A l \in Listings : Router!AddPool(l) => PoolsTyped'
         /\ \A p \in DOMAIN pools : Router!RemovePool(p) => PoolsTyped'
         /\ \A p \in DOMAIN pools : \A a, b \in Reserves : Router!UpdatePoolReserves(p, a, b) => PoolsTyped'
<1>0. /\ Listings \subseteq [pool: Int, token_a: Router!Traded, token_b: Router!Traded, fee: Nat]
      /\ Reserves \subseteq Int
  BY InstanceAssumption DEF Router!RouterAssumption
<1>1. ASSUME NEW l \in Listings, Router!AddPool(l) PROVE PoolsTyped'
  <2>1. Router!Listed(l) \in Pool /\ l.pool \in Ids
    BY <1>0 DEF Router!Listed, Pool, Ids
  <2> QED
    BY <1>1, <2>1 DEF Router!AddPool, PoolsTyped
<1>2. ASSUME NEW p \in DOMAIN pools, Router!RemovePool(p) PROVE PoolsTyped'
  BY <1>2 DEF Router!RemovePool, Router!Restrict, PoolsTyped
<1>3. ASSUME NEW p \in DOMAIN pools, NEW a \in Reserves, NEW b \in Reserves,
             Router!UpdatePoolReserves(p, a, b)
      PROVE  PoolsTyped'
  <2>1. pools[p] \in Pool /\ a \in Int /\ b \in Int
    BY <1>0 DEF PoolsTyped
  <2>2. Router!WithReserves(pools[p], a, b) \in Pool
    BY <2>1 DEF Router!WithReserves, Pool
  <2>3. pools' = [pools EXCEPT ![p] = Router!WithReserves(pools[p], a, b)]
    BY <1>3 DEF Router!UpdatePoolReserves
  <2> QED
    BY <2>2, <2>3 DEF PoolsTyped
<1> QED
  BY <1>1, <1>2, <1>3

(* A swap keeps the accounts and pays its minimum less the fee.             *)
LEMMA SwapKeeps ==
  ASSUME RouterInv, NEW input \in Router!Traded, NEW output \in Router!Traded,
         NEW amount \in SwapAmounts, NEW min_output \in MinOutputs,
         NEW path \in Seq(Router!Traded), Len(path) >= 1,
         Router!Swap(input, output, amount, min_output, path)
  PROVE  RouterInv'
<1> DEFINE expected == Router!PathOutput(path, amount)
           fee      == Router!scale_bps(expected, TreasuryBps)
           left     == [wallet EXCEPT ![input] = @ - amount]
           paid_in  == [router_held EXCEPT ![input] = @ + amount]
<1>1. NumTraded \in Nat /\ Funds \in Nat /\ amount \in Nat /\ min_output \in Int
  BY InstanceAssumption DEF Router!RouterAssumption
<1>2. expected \in Int
  BY <1>1, PathOutputsAreIntegers DEF RouterInv
<1>3. /\ min_output > 0 /\ expected >= min_output
      /\ wallet' = [left EXCEPT ![output] = @ + (expected - fee)]
      /\ router_held' = [paid_in EXCEPT ![output] = @ - expected]
      /\ router_fees' = [router_fees EXCEPT ![output] = @ + fee]
      /\ total_fees' = total_fees + fee
      /\ last_swap' = [min_output |-> min_output, net_output |-> expected - fee]
      /\ pools' = pools
  BY DEF Router!Swap, Router!Acceptable
<1> HIDE DEF expected
<1>4. expected \in Nat /\ min_output \in Nat /\ fee \in Nat
  BY <1>1, <1>2, <1>3, FeesAreFloors
<1>5. min_output - Router!scale_bps(min_output, TreasuryBps) <= expected - fee
  BY <1>3, <1>4, NetOutputsGrow
<1> HIDE DEF fee
<1>6. /\ wallet \in [Router!Traded -> Int] /\ router_held \in [Router!Traded -> Int]
      /\ router_fees \in [Router!Traded -> Int]
  BY DEF RouterInv, TokensTyped
<1>7. /\ wallet' \in [Router!Traded -> Int] /\ router_held' \in [Router!Traded -> Int]
      /\ router_fees' \in [Router!Traded -> Int]
      /\ \A t \in Router!Traded :
           wallet'[t] + router_held'[t] + router_fees'[t] = wallet[t] + router_held[t] + router_fees[t]
  <2>1. /\ left \in [Router!Traded -> Int]
        /\ \A t \in Router!Traded : left[t] = IF t = input THEN wallet[t] - amount ELSE wallet[t]
    BY <1>1, <1>6
  <2>2. /\ paid_in \in [Router!Traded -> Int]
        /\ \A t \in Router!Traded :
             paid_in[t] = IF t = input THEN router_held[t] + amount ELSE router_held[t]
    BY <1>1, <1>6
  <2>3. wallet' = [left EXCEPT ![output] = @ + (expected - fee)]
    BY <1>3
  <2>4. router_held' = [paid_in EXCEPT ![output] = @ - expected]
    BY <1>3
  <2> HIDE DEF left, paid_in
  <2>5. /\ wallet' \in [Router!Traded -> Int]
        /\ \A t \in Router!Traded :
             wallet'[t] = IF t = output THEN left[t] + (expected - fee) ELSE left[t]
    BY <1>4, <2>1, <2>3
  <2>6. /\ router_held' \in [Router!Traded -> Int]
        /\ \A t \in Router!Traded :
             router_held'[t] = IF t = output THEN paid_in[t] - expected ELSE paid_in[t]
    BY <1>4, <2>2, <2>4
  <2>7. /\ router_fees' \in [Router!Traded -> Int]
        /\ \A t \in Router!Traded :
             router_fees'[t] = IF t = output THEN router_fees[t] + fee ELSE router_fees[t]
    BY SMTT(40), <1>3, <1>4, <1>6
  <2>8. ASSUME NEW t \in Router!Traded
        PROVE  wallet'[t] + router_held'[t] + router_fees'[t] = wallet[t] + router_held[t] + router_fees[t]
    <3>1. wallet[t] \in Int /\ router_held[t] \in Int /\ router_fees[t] \in Int
      BY <1>6
    <3>2. left[t] \in Int /\ paid_in[t] \in Int /\ left[t] + paid_in[t] = wallet[t] + router_held[t]
      <4>1. CASE t = input
        <5>1. left[t] = wallet[t] - amount /\ paid_in[t] = router_held[t] + amount
          BY <2>1, <2>2, <4>1
        <5> QED
          BY <1>1, <3>1, <5>1
      <4>2. CASE t # input
        <5>1. left[t] = wallet[t] /\ paid_in[t] = router_held[t]
          BY <2>1, <2>2, <4>2
        <5> QED
          BY <3>1, <5>1
      <4> QED
        BY <4>1, <4>2
    <3>3. CASE t = output
      <4>1. /\ wallet'[t] = left[t] + (expected - fee) /\ router_held'[t] = paid_in[t] - expected
            /\ router_fees'[t] = router_fees[t] + fee
        BY <2>5, <2>6, <2>7, <3>3
      <4> QED
        BY <1>4, <3>1, <3>2, <4>1
    <3>4. CASE t # output
      <4>1. wallet'[t] = left[t] /\ router_held'[t] = paid_in[t] /\ router_fees'[t] = router_fees[t]
        BY <2>5, <2>6, <2>7, <3>4
      <4> QED
        BY <3>1, <3>2, <4>1
    <3> QED
      BY <3>3, <3>4
  <2> QED
    BY <2>5, <2>6, <2>7, <2>8
<1>8. total_fees' = SumTo(router_fees', NumTraded)
  <2>1. total_fees = SumTo(router_fees, NumTraded)
    BY RouterSums DEF RouterInv, Router!SwapsAreFair
  <2>2. /\ router_fees \in [1..NumTraded -> Int] /\ router_fees' \in [1..NumTraded -> Int]
        /\ output \in 1..NumTraded
    BY <1>6, <1>7 DEF Router!Traded
  <2>3. /\ \A j \in 1..NumTraded : j # output => router_fees'[j] = router_fees[j]
        /\ router_fees'[output] - router_fees[output] = fee
    BY <1>3, <1>4, <2>2
  <2>4. /\ SumTo(router_fees, NumTraded) \in Int
        /\ SumTo(router_fees', NumTraded)
             = SumTo(router_fees, NumTraded) + (router_fees'[output] - router_fees[output])
    BY <1>1, <2>2, <2>3, EntrySet
  <2> QED
    BY <1>3, <2>1, <2>3, <2>4
<1>9. last_swap'.net_output >= last_swap'.min_output - Router!scale_bps(last_swap'.min_output, TreasuryBps)
  <2>1. last_swap'.net_output = expected - fee /\ last_swap'.min_output = min_output
    BY <1>3
  <2>2. Router!scale_bps(min_output, TreasuryBps) \in Nat
    BY <1>4, FeesAreFloors
  <2> QED
    BY <1>4, <1>5, <2>1, <2>2
<1>10. \A t \in Router!Traded : wallet'[t] + router_held'[t] + router_fees'[t] = 2 * Funds
  BY <1>7 DEF RouterInv, Router!SwapsAreFair
<1>11. Router!SwapsAreFair'
  BY <1>8, <1>9, <1>10, RouterSums DEF Router!SwapsAreFair
<1>12. PoolsTyped'
  BY <1>3 DEF RouterInv, PoolsTyped
<1> QED
  BY <1>7, <1>11, <1>12 DEF RouterInv, TokensTyped

(* Every call of the router keeps the invariant.                            *)
LEMMA RouterNext == RouterInv /\ Router!Next => RouterInv'
<1> SUFFICES ASSUME RouterInv, Router!Next PROVE RouterInv'
  OBVIOUS
<1>1. ASSUME PoolsTyped', UNCHANGED Router!tokenVars PROVE RouterInv'
  BY <1>1 DEF RouterInv, TokensTyped, Router!SwapsAreFair, Router!tokenVars
<1>2. ASSUME NEW l \in Listings, Router!AddPool(l) PROVE RouterInv'
  BY <1>1, <1>2, PoolsStayTyped DEF RouterInv, Router!AddPool
<1>3. ASSUME NEW p \in DOMAIN pools, Router!RemovePool(p) PROVE RouterInv'
  BY <1>1, <1>3, PoolsStayTyped DEF RouterInv, Router!RemovePool
<1>4. ASSUME NEW p \in DOMAIN pools, NEW a \in Reserves, NEW b \in Reserves,
             Router!UpdatePoolReserves(p, a, b)
      PROVE  RouterInv'
  BY <1>1, <1>4, PoolsStayTyped DEF RouterInv, Router!UpdatePoolReserves
<1>5. ASSUME NEW b \in BOOLEAN, Router!SetOraclePaused(b) PROVE RouterInv'
  BY <1>1, <1>5 DEF RouterInv, PoolsTyped, Router!SetOraclePaused
<1>6. ASSUME NEW input \in Router!Traded, NEW output \in Router!Traded, NEW amount \in SwapAmounts,
             NEW min_output \in MinOutputs, NEW path \in Paths,
             Router!Swap(input, output, amount, min_output, path)
      PROVE  RouterInv'
  <2>1. path \in Seq(Router!Traded) /\ Len(path) >= 1
    BY InstanceAssumption DEF Router!RouterAssumption
  <2> QED
    BY <1>6, <2>1, SwapKeeps
<1>7. ASSUME NEW input \in Router!Traded, NEW output \in Router!Traded, input # output,
             NEW amount \in SwapAmounts, NEW min_output \in MinOutputs,
             Router!SwapWithRetry(input, output, amount, min_output)
      PROVE  RouterInv'
  <2> DEFINE route == Router!find_best_path(input, output, amount)
  <2>1. route # Router!NoRoute /\ Router!Swap(input, output, amount, min_output, route.tokens)
    BY <1>7 DEF Router!SwapWithRetry
  <2>2. amount \in Int /\ PoolsTyped
    BY InstanceAssumption DEF Router!RouterAssumption, RouterInv
  <2>3. route \in Routes
    BY <1>7, <2>1, <2>2, BestIsARoute, ViableAreApart
  <2>4. route.tokens \in Seq(Router!Traded) /\ Len(route.tokens) >= 1
    BY <2>3 DEF Routes, Route
  <2> HIDE DEF route
  <2> QED
    BY <2>1, <2>4, SwapKeeps
<1> QED
  BY <1>2, <1>3, <1>4, <1>5, <1>6, <1>7 DEF Router!Next

-----------------------------------------------------------------------------
(* The contracts composed.                                                 *)

EngineIInv == EngineLogged /\ (contract = "engine" => EnginePaced)

(* The invariant holds when the contracts are made.                         *)
LEMMA EngineIInvInit == ContractsInit => EngineIInv
  BY EnginePacedInit, EngineLoggedInit DEF ContractsInit, EngineIInv

(* The steps of the other contracts leave the engine alone.                 *)
LEMMA OthersLeaveEngine ==
  ASSUME [ContractsNext]_contractsVars
  PROVE  /\ UNCHANGED contract
         /\ \/ contract = "engine" /\ Engine!Next
            \/ contract # "engine" /\ UNCHANGED engineVars
            \/ UNCHANGED contractsVars
  BY DEF ContractsNext, contractsVars, RewardsStep, EngineStep, RouterStep, OracleStep,
         InsuranceStep, RegistryStep

(* Every step of every contract keeps it.                                   *)
LEMMA EngineIInvNext ==
  ASSUME EngineIInv, [ContractsNext]_contractsVars
  PROVE  EngineIInv'
<1>1. CASE contract = "engine" /\ Engine!Next
  <2>1. EngineLogged'
    BY <1>1, EngineLoggedNext DEF EngineIInv
  <2>2. EnginePaced'
    BY <1>1, EnginePacedNext DEF EngineIInv
  <2> QED
    BY <2>1, <2>2 DEF EngineIInv
<1>2. CASE contract # "engine" /\ UNCHANGED engineVars
  <2>1. EngineLogged'
    BY <1>2 DEF EngineIInv, EngineLogged, engineVars, Engine!Breakers
  <2>2. contract' # "engine"
    BY <1>2, OthersLeaveEngine
  <2> QED
    BY <2>1, <2>2 DEF EngineIInv
<1>3. CASE UNCHANGED contractsVars
  <2>1. EngineLogged'
    BY <1>3 DEF EngineIInv, EngineLogged, contractsVars, engineVars, Engine!Breakers
  <2>2. ASSUME contract = "engine" PROVE EnginePaced'
    <3>1. EnginePaced /\ UNCHANGED <<outflow, windows, pacing, pacing_since, now>>
      BY <1>3, <2>2 DEF EngineIInv, contractsVars, engineVars
    <3>2. now \in 1..MaxTime
      BY <3>1 DEF EnginePaced, EngineTyped
    <3> QED
      BY <3>1, <3>2, EngineFrame
  <2>3. contract' = contract
    BY <1>3 DEF contractsVars
  <2> QED
    BY <2>1, <2>2, <2>3 DEF EngineIInv
<1> QED
  BY <1>1, <1>2, <1>3, OthersLeaveEngine

(* No pool loses more than two budgets in a period (rebalance_pacing of     *)
(* rebalance_engine.rs, with rebalances and flash rebalances charged to     *)
(* one window).                                                             *)
THEOREM EngineMovesAreBounded ==
  ContractsSpec => [](contract = "engine" => Engine!PoolOutflowPaced)
<1>1. ContractsInit => EngineIInv
  BY EngineIInvInit
<1>2. EngineIInv /\ [ContractsNext]_contractsVars => EngineIInv'
  BY EngineIInvNext
<1>3. EngineIInv => (contract = "engine" => Engine!PoolOutflowPaced)
  BY PacedOutflow DEF EngineIInv
<1> QED
  BY <1>1, <1>2, <1>3, PTL DEF ContractsSpec

(* The invariants of the contracts without a counterpart in EngineIInv.     *)
OthersIInv ==
  /\ contract = "oracle"    => OracleInv
  /\ contract = "insurance" => InsuranceInv
  /\ contract = "registry"  => RegistryInv
  /\ contract = "router"    => RouterInv

(* They hold when the contracts are made.                                   *)
LEMMA OthersIInvInit == ContractsInit => OthersIInv
  BY OracleStarts, InsuranceStarts, RegistryStarts, RouterStarts DEF ContractsInit, OthersIInv

(* A step is one of the contract that is called.                            *)
LEMMA StepsOfOne ==
  ASSUME [ContractsNext]_contractsVars
  PROVE  /\ contract' = contract
         /\ contract = "oracle"    => Oracle!Next \/ UNCHANGED <<price_feeds, newest, now>>
         /\ contract = "insurance" =>
              Insurance!Next \/ UNCHANGED <<policies, reserve, reserve_held, payouts, now>>
         /\ contract = "registry"  => Registry!Next \/ UNCHANGED <<registered, log>>
         /\ contract = "router" =>
              \/ Router!Next
              \/ UNCHANGED <<pools, wallet, router_held, router_fees, total_fees, last_swap>>
  BY DEF ContractsNext, contractsVars, oracleVars, insuranceVars, registryVars, routerVars,
         RewardsStep, EngineStep, RouterStep, OracleStep, InsuranceStep, RegistryStep

(* Every step of every contract keeps them.                                 *)
LEMMA OthersIInvNext ==
  ASSUME OthersIInv, [ContractsNext]_contractsVars
  PROVE  OthersIInv'
<1>1. ASSUME contract = "oracle" PROVE OracleInv'
  <2>1. OracleInv
    BY <1>1 DEF OthersIInv
  <2>2. CASE Oracle!Next
    BY <2>1, <2>2, OracleNext
  <2>3. CASE UNCHANGED <<price_feeds, newest, now>>
    BY <2>1, <2>3 DEF OracleInv, OracleTyped, EndsWith, Oracle!NoObservation
  <2> QED
    BY <1>1, <2>2, <2>3, StepsOfOne
<1>2. ASSUME contract = "insurance" PROVE InsuranceInv'
  <2>1. InsuranceInv
    BY <1>2 DEF OthersIInv
  <2>2. CASE Insurance!Next
    BY <2>1, <2>2, InsuranceNext
  <2>3. CASE UNCHANGED <<policies, reserve, reserve_held, payouts, now>>
    BY <2>1, <2>3
    DEF InsuranceInv, InsuranceTyped, PaidWereClaimed, Insurance!InsuranceKeepsItsWord,
        Insurance!ReserveIsThere, Insurance!ActiveIsCounted, Insurance!Premiums,
        Insurance!Unpaid
  <2> QED
    BY <1>2, <2>2, <2>3, StepsOfOne
<1>3. ASSUME contract = "registry" PROVE RegistryInv'
  <2>1. RegistryInv
    BY <1>3 DEF OthersIInv
  <2>2. CASE Registry!Next
    BY <2>1, <2>2, RegistryNext
  <2>3. CASE UNCHANGED <<registered, log>>
    BY <2>1, <2>3 DEF RegistryInv, RegistryTyped, ChangesDecide, IsLast, Registry!ChangesOf
  <2> QED
    BY <1>3, <2>2, <2>3, StepsOfOne
<1>4. ASSUME contract = "router" PROVE RouterInv'
  <2>1. RouterInv
    BY <1>4 DEF OthersIInv
  <2>2. CASE Router!Next
    BY <2>1, <2>2, RouterNext
  <2>3. CASE UNCHANGED <<pools, wallet, router_held, router_fees, total_fees, last_swap>>
    BY <2>1, <2>3 DEF RouterInv, PoolsTyped, TokensTyped, Router!SwapsAreFair
  <2> QED
    BY <1>4, <2>2, <2>3, StepsOfOne
<1>5. contract' = contract
  BY StepsOfOne
<1> QED
  BY <1>1, <1>2, <1>3, <1>4, <1>5 DEF OthersIInv

(* The price that is served is the newest of its feed, or of its fallback,  *)
(* and fresh, and there is one where one of them is fresh (get_price of     *)
(* oracle_registry.rs).                                                     *)
THEOREM PricesAreNewest ==
  ContractsSpec => [](contract = "oracle" => Oracle!PriceIsNewest)
<1>1. OthersIInv => (contract = "oracle" => Oracle!PriceIsNewest)
  BY NewestIsServed DEF OthersIInv
<1> QED
  BY <1>1, OthersIInvInit, OthersIInvNext, PTL DEF ContractsSpec

(* The reserve is the tokens that are held and what came in less what was   *)
(* paid out, and no policy is paid beyond its coverage (il_insurance.rs).   *)
THEOREM ReserveIsKept ==
  ContractsSpec => [](contract = "insurance" => Insurance!InsuranceKeepsItsWord)
<1>1. OthersIInv => (contract = "insurance" => Insurance!InsuranceKeepsItsWord)
  BY DEF OthersIInv, InsuranceInv
<1> QED
  BY <1>1, OthersIInvInit, OthersIInvNext, PTL DEF ContractsSpec

(* What is active was approved after the last change of its creator         *)
(* (strategy_registry.rs).                                                  *)
THEOREM OnlyApprovedAreActive ==
  ContractsSpec => [](contract = "registry" => Registry!ActiveIsApproved)
<1>1. OthersIInv => (contract = "registry" => Registry!ActiveIsApproved)
  BY ChangesDecideActivity DEF OthersIInv
<1> QED
  BY <1>1, OthersIInvInit, OthersIInvNext, PTL DEF ContractsSpec

(* A route is found wherever there is one, however deep the pools that lead *)
(* nowhere, and however pools change before it, a swap pays its minimum     *)
(* less the fee and loses no token (find_best_path and swap of              *)
(* swap_router.rs).                                                         *)
THEOREM RoutesAndSwapsAreFair ==
  ContractsSpec => [](contract = "router" => Router!RouterKeepsItsWord)
<1>1. OthersIInv => (contract = "router" => Router!RouterKeepsItsWord)
  BY RoutesAreFound DEF OthersIInv, RouterInv, Router!RouterKeepsItsWord
<1> QED
  BY <1>1, OthersIInvInit, OthersIInvNext, PTL DEF ContractsSpec

(* The engine, the swap router, the oracle and strategy registries and the  *)
(* insurance keep what they promise.                                        *)
THEOREM PromisesAreKept == ContractsSpec => []ContractsKeepTheirWord
<1>1. /\ contract = "engine" => Engine!PoolOutflowPaced
      /\ contract = "router" => Router!RouterKeepsItsWord
      /\ contract = "oracle" => Oracle!PriceIsNewest
      /\ contract = "insurance" => Insurance!InsuranceKeepsItsWord
      /\ contract = "registry" => Registry!ActiveIsApproved
      => ContractsKeepTheirWord
  BY DEF ContractsKeepTheirWord
<1> QED
  BY <1>1, EngineMovesAreBounded, RoutesAndSwapsAreFair, PricesAreNewest, ReserveIsKept,
     OnlyApprovedAreActive, PTL

(* The records are kept while the registry is called.                       *)
LEMMA RecordsIInvNext ==
  ASSUME contract = "registry" => RecordsInv, [ContractsNext]_contractsVars
  PROVE  (contract = "registry" => RecordsInv)'
<1>1. /\ contract' = contract
      /\ contract = "registry" => Registry!Next \/ UNCHANGED <<registered, log, approvals>>
  BY DEF ContractsNext, contractsVars, registryVars,
         RewardsStep, EngineStep, RouterStep, OracleStep, InsuranceStep, RegistryStep
<1>2. SUFFICES ASSUME contract = "registry" PROVE RecordsInv'
  BY <1>1
<1>3. CASE Registry!Next
  BY <1>2, <1>3, RecordsNext
<1>4. CASE UNCHANGED <<registered, log, approvals>>
  BY <1>2, <1>4 DEF RecordsInv, RecordsKept, RegistryInv, RegistryTyped, ChangesDecide, IsLast,
                    Registry!ChangesOf, ValuesIn
<1> QED
  BY <1>1, <1>2, <1>3, <1>4

(* The approval log and the performance histories are the newest of what    *)
(* was decided and recorded, in order and each strategy's its own, and      *)
(* whoever reads page after page reads everything once (add_approval,       *)
(* record_performance and the paginated reads of strategy_registry.rs).     *)
THEOREM RegistryRecordsAreTrue == ContractsSpec => []RecordsAreTrue
<1>1. ContractsInit => (contract = "registry" => RecordsInv)
  BY RecordsStart DEF ContractsInit
<1>2. (contract = "registry" => RecordsInv) => RecordsAreTrue
  BY KeptIsTold, PagesAreComplete DEF RecordsAreTrue
<1> QED
  BY <1>1, <1>2, RecordsIInvNext, PTL DEF ContractsSpec

(* No breaker of the engine is silenced by what happens elsewhere           *)
(* (check_pool_emergency_stop and the others of rebalance_engine.rs).       *)
THEOREM BreakersOutlast == ContractsSpec => TrippedUntilSuccess
<1>1. ContractsInit => EngineIInv
  BY EngineIInvInit
<1>2. EngineIInv /\ [ContractsNext]_contractsVars => EngineIInv'
  BY EngineIInvNext
<1>3. EngineIInv /\ [ContractsNext]_contractsVars => Outlasts
  <2> SUFFICES ASSUME EngineIInv, [ContractsNext]_contractsVars PROVE Outlasts
    OBVIOUS
  <2>1. CASE contract = "engine" /\ Engine!Next
    BY <2>1, EngineOutlasts DEF EngineIInv
  <2>2. CASE contract # "engine" /\ UNCHANGED engineVars
    <3>1. UNCHANGED history
      BY <2>2 DEF engineVars
    <3> QED
      BY <3>1, UnloggedOutlasts
  <2>3. CASE UNCHANGED contractsVars
    <3>1. UNCHANGED history
      BY <2>3 DEF contractsVars, engineVars
    <3> QED
      BY <3>1, UnloggedOutlasts
  <2> QED
    BY <2>1, <2>2, <2>3, OthersLeaveEngine
<1>4. Outlasts => [Outlasts]_Engine!vars
  OBVIOUS
<1>5. TrippedUntilSuccess <=> [][Outlasts]_Engine!vars
  BY DEF TrippedUntilSuccess, Engine!TrippedUntilSuccess, Outlasts
<1> QED
  BY <1>1, <1>2, <1>3, <1>4, <1>5, PTL DEF ContractsSpec
=============================================================================
