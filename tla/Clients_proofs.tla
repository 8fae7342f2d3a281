---------------------------- MODULE Clients_proofs ----------------------------
(***************************************************************************)
(* Theorems about the clients of the SDK: what a client tells its caller of *)
(* a transaction is true of the chain, what a list shows is what the        *)
(* contract holds, and a claim that returned is in effect, for any number   *)
(* of calls and proposals, any time bounds and any number of repetitions.   *)
(* What the calculators work out agrees with the contracts and with a       *)
(* reference definition, for all arguments and scales.                      *)
(***************************************************************************)
EXTENDS MCClients, SequenceTheorems, Sums_proofs, TLAPS

Outcomes == {"none", "thrown", "failed", "accepted", "unclear", "success", "timedOut"}
TxStates == {"none", "pending", "applied", "failed"}

(* The types the proof needs: what a call has before it is left untyped.    *)
Types ==
  /\ outcome \in [Calls -> Outcomes]
  /\ tx \in [Calls -> TxStates]
  /\ sends \in [Calls -> Nat]
  /\ DOMAIN todo = Calls
  /\ DOMAIN kind = Calls

(* A call that has steps before it was begun, and a transaction that never  *)
(* was sent is not on the chain.                                            *)
Begun  == \A c \in Calls : todo[c] # <<>> => kind[c].ending \in Endings
Unsent == \A c \in Calls : sends[c] = 0 => tx[c] = "none"

CallsInv == Types /\ Begun /\ Unsent /\ SuccessIsConfirmed /\ FailureIsFinal

(* No call has begun at first.                                              *)
LEMMA InitHolds == Init => CallsInv
  BY DEF Init, CallsInv, Types, Begun, Unsent, SuccessIsConfirmed, FailureIsFinal,
         Outcomes, TxStates

(* The steps that only move a call towards its transaction.                 *)
LEMMA AskKeeps ==
  ASSUME CallsInv, NEW c \in Calls, Ask(c) \/ Build(c) \/ Sign(c) \/ Sleep(c) \/ Submit(c)
  PROVE  CallsInv'
<1>1. \/ Passes(c)
      \/ Throws(c)
  BY DEF Ask, Build, Sign, Sleep, Submit
<1>2. UNCHANGED <<tx, sends, kind>>
  BY DEF Ask, Build, Sign, Sleep, Submit
<1>3. todo[c] # <<>>
  BY DEF Ask, Build, Sign, Sleep, Submit, At
<1>4. CASE Passes(c)
  BY <1>2, <1>3, <1>4 DEF Passes, CallsInv, Types, Begun, Unsent, SuccessIsConfirmed,
    FailureIsFinal
<1>5. CASE Throws(c)
  BY <1>2, <1>3, <1>5 DEF Throws, Ends, CallsInv, Types, Begun, Unsent, SuccessIsConfirmed,
                          FailureIsFinal, Outcomes
<1> QED BY <1>1, <1>4, <1>5

(* A call that begins has sent nothing yet.                                 *)
LEMMA BeginKeeps ==
  ASSUME CallsInv, NEW c \in Calls, Begin(c)
  PROVE  CallsInv'
<1>1. PICK m \in IF batch THEN {claimFees} ELSE Started :
        /\ kind' = [kind EXCEPT ![c] = [ending |-> m.ending, life |-> m.life]]
        /\ \/ todo' = [todo EXCEPT ![c] = Awaits(m.steps)] /\ UNCHANGED outcome
           \/ Throws(c)
  BY DEF Begin
<1>2. m.ending \in Endings
  BY <1>1, CallsAssumption DEF claimFees, Prepared, Method, Endings
<1>3. UNCHANGED <<tx, sends>>
  BY DEF Begin
<1> QED BY <1>1, <1>2, <1>3 DEF Throws, Ends, CallsInv, Types, Begun, Unsent,
                                SuccessIsConfirmed, FailureIsFinal, Outcomes

(* What the node answers leads to no success yet, and to a failure of a     *)
(* transaction that is sent for the first time only if it did not take it.  *)
LEMMA SendKeeps ==
  ASSUME CallsInv, NEW c \in Calls, Send(c)
  PROVE  CallsInv'
<1>1. outcome[c] = "none" /\ todo[c] # <<>> /\ UNCHANGED kind
  BY DEF Send, At
<1>2. kind[c].ending \in Endings
  BY <1>1 DEF CallsInv, Begun
<1>3. /\ sends' \in [Calls -> Nat]
      /\ \A d \in Calls \ {c} : sends'[d] = sends[d]
      /\ sends'[c] # 0
      /\ sends'[c] = 1 => sends[c] = 0
  BY CallsAssumption DEF Send, Smaller, CallsInv, Types
<1>4. PICK answer \in NodeAnswers(c) \cup {"lost"} :
        /\ tx' = IF answer \in {"PENDING", "SUCCESS"} THEN [tx EXCEPT ![c] = "pending"] ELSE tx
        /\ \/ answer # "lost" /\ TakeAnswer(c, answer) /\ todo' = [todo EXCEPT ![c] = <<>>]
           \/ TakeNoAnswer(c) /\ UNCHANGED waiting
  BY DEF Send
<1>5. /\ tx' \in [Calls -> TxStates]
      /\ \A d \in Calls \ {c} : tx'[d] = tx[d]
  BY <1>4 DEF CallsInv, Types, TxStates
<1>6. CASE answer # "lost" /\ TakeAnswer(c, answer) /\ todo' = [todo EXCEPT ![c] = <<>>]
  <2>1. /\ outcome' \in [Calls -> Outcomes]
        /\ \A d \in Calls \ {c} : outcome'[d] = outcome[d]
        /\ outcome'[c] # "success"
        /\ outcome'[c] = "failed" => answer \in {"ERROR", "TRY_AGAIN_LATER"}
    BY <1>1, <1>2, <1>6 DEF TakeAnswer, Returns, Waits, Ends, Refusals, Endings, Outcomes,
      CallsInv, Types
  <2>2. outcome'[c] = "failed" /\ sends'[c] = 1 => tx'[c] = "none"
    BY <2>1, <1>3, <1>4 DEF CallsInv, Unsent
  <2> QED BY <1>1, <1>3, <1>5, <1>6, <2>1, <2>2
          DEF CallsInv, Types, Begun, Unsent, SuccessIsConfirmed, FailureIsFinal
<1>7. CASE TakeNoAnswer(c) /\ UNCHANGED waiting
  <2>1. /\ outcome' \in [Calls -> Outcomes]
        /\ \A d \in Calls \ {c} : outcome'[d] = outcome[d]
        /\ outcome'[c] \in {"none", "thrown"}
        /\ DOMAIN todo' = Calls
        /\ \A d \in Calls \ {c} : todo'[d] = todo[d]
    BY <1>1, <1>7 DEF TakeNoAnswer, Throws, Ends, CallsInv, Types, Outcomes
  <2> QED BY <1>1, <1>2, <1>3, <1>5, <2>1
          DEF CallsInv, Types, Begun, Unsent, SuccessIsConfirmed, FailureIsFinal
<1> QED BY <1>4, <1>6, <1>7

(* The two loops that look for the result say what the chain says.          *)
LEMMA ResultKeeps ==
  ASSUME CallsInv, NEW c \in Calls, WaitEnds(c) \/ Poll(c)
  PROVE  CallsInv'
<1>1. UNCHANGED <<tx, sends, todo, kind>>
  BY DEF WaitEnds, Poll
<1>2. /\ outcome' \in [Calls -> Outcomes]
      /\ \A d \in Calls \ {c} : outcome'[d] = outcome[d]
      /\ outcome'[c] = "success" => tx[c] = "applied"
      /\ outcome'[c] = "failed" => tx[c] = "failed"
  BY DEF WaitEnds, Poll, PollSucceeds, Ends, CallsInv, Types, Outcomes
<1> QED BY <1>1, <1>2 DEF CallsInv, Types, Begun, Unsent, SuccessIsConfirmed, FailureIsFinal

(* Sending again leaves the fate of what was sent before open.              *)
LEMMA SubmitAgainKeeps ==
  ASSUME CallsInv, NEW c \in Calls, SubmitAgain(c)
  PROVE  CallsInv'
  BY DEF SubmitAgain, Ends, CallsInv, Types, Begun, Unsent, SuccessIsConfirmed, FailureIsFinal,
         Outcomes, Endings

(* A transaction that is included is in effect for good.                    *)
LEMMA IncludeKeeps ==
  ASSUME CallsInv, NEW c \in Calls, Include(c)
  PROVE  CallsInv'
<1>1. tx[c] = "pending" /\ UNCHANGED <<outcome, sends, todo, kind>>
  BY DEF Include, callVars
<1>2. /\ tx' \in [Calls -> TxStates]
      /\ \A d \in Calls \ {c} : tx'[d] = tx[d]
  BY DEF Include, CallsInv, Types, TxStates
<1> QED BY <1>1, <1>2 DEF CallsInv, Types, Begun, Unsent, SuccessIsConfirmed, FailureIsFinal

(* Time only ends what is still pending.                                    *)
LEMMA TickKeeps ==
  ASSUME CallsInv, Tick
  PROVE  CallsInv'
<1>1. UNCHANGED <<tx, sends, todo, kind>>
  BY DEF Tick
<1>2. /\ outcome' \in [Calls -> Outcomes]
      /\ \A c \in Calls : outcome'[c] \in {outcome[c], "timedOut", "thrown"}
  BY DEF Tick, CallsInv, Types, Outcomes
<1> QED BY <1>1, <1>2 DEF CallsInv, Types, Begun, Unsent, SuccessIsConfirmed, FailureIsFinal

(* The invariant the two theorems follow from.                              *)
LEMMA CallsInvIsInvariant == Spec => []CallsInv
<1>1. Init => CallsInv
  BY InitHolds
<1>2. CallsInv /\ [Next]_vars => CallsInv'
  <2> SUFFICES ASSUME CallsInv, [Next]_vars PROVE CallsInv'
    OBVIOUS
  <2>1. CASE Tick
    BY <2>1, TickKeeps
  <2>2. ASSUME NEW c \in Calls,
               CallStep(c) \/ Begin(c) \/ Submit(c) \/ SubmitAgain(c) \/ Include(c)
        PROVE  CallsInv'
    BY <2>2, AskKeeps, BeginKeeps, SendKeeps, ResultKeeps, SubmitAgainKeeps, IncludeKeeps
       DEF CallStep
  <2>3. CASE UNCHANGED vars
    BY <2>3 DEF vars, callVars, CallsInv, Types, Begun, Unsent, SuccessIsConfirmed, FailureIsFinal
  <2> QED BY <2>1, <2>2, <2>3 DEF Next
<1> QED BY <1>1, <1>2, PTL DEF Spec

(* A method that waits tells of success only when the transaction is in     *)
(* effect, for every number of calls and of repeated requests.              *)
THEOREM SuccessIsTrue == Spec => []SuccessIsConfirmed
<1>1. CallsInv => SuccessIsConfirmed
  BY DEF CallsInv
<1> QED BY <1>1, CallsInvIsInvariant, PTL

(* A transaction that was sent once and is told to have failed has no       *)
(* effect, now or later.                                                    *)
THEOREM FailureIsTrue == Spec => []FailureIsFinal
<1>1. CallsInv => FailureIsFinal
  BY DEF CallsInv
<1> QED BY <1>1, CallsInvIsInvariant, PTL

-----------------------------------------------------------------------------
(* Lists of proposals.                                                     *)

(* The fields of a proposal that were read, in this order, while it came as *)
(* far as c: none is ahead of it, and none of the later ones is older than  *)
(* the votes, but for what was refused.                                     *)
FieldsUpTo(f, c) ==
  /\ f \in Seq(Int) /\ Len(f) <= 4
  /\ Len(f) >= 1 => f[1] \in 0..c
  /\ Len(f) >= 2 => f[2] \in {0} \cup f[1]..c
  /\ \A n \in {3, 4} : Len(f) >= n => f[n] = -1 \/ f[n] \in f[2]..c

ListTyped ==
  /\ chain \in Seq(Nat)
  /\ probe \in -1..Probes
  /\ listed \in Seq([id: Int, fields: Seq(Int)])

ListedRight ==
  \A k \in DOMAIN listed :
    /\ listed[k].id \in DOMAIN chain
    /\ FieldsUpTo(listed[k].fields, chain[listed[k].id]) /\ Len(listed[k].fields) = 4

Probing == probe \in 0..Probes - 1

(* What is left to read is what follows the fields that were read, and a    *)
(* proposal that gave a field exists.                                       *)
ProbeRight ==
  Probing =>
    /\ shown \in Seq(Int)
    /\ Len(shown) > 0 => probe \in DOMAIN chain /\ FieldsUpTo(shown, chain[probe])
    /\ \/ result = "none" /\ Len(shown) = 0 /\ reading = <<"struct", "state", "flag", "flag">>
       \/ result = "none" /\ Len(shown) = 1 /\ reading = <<"state", "flag", "flag">>
       \/ result = "none" /\ Len(shown) = 2 /\ reading = <<"flag", "flag">>
       \/ result = "none" /\ Len(shown) = 3 /\ reading = <<"flag">>
       \/ result = "shown" /\ Len(shown) = 4 /\ reading = <<>>
       \/ result = "thrown" /\ reading = <<>>

(* Everything before the probe was listed or failed, the misses the last.   *)
ProbedSoFar ==
  Probing =>
    /\ \A i \in 0..probe - 1 : i \in Reads!Listed \cup failed
    /\ misses \in 0..probe
    /\ \A i \in probe - misses..probe - 1 : i \in failed

ListInv == ListTyped /\ ListedRight /\ ProbeRight /\ ProbedSoFar /\ Reads!ListedUpToGap

(* Fields that were read stay right while the proposal goes on.             *)
LEMMA FieldsStayRight ==
  ASSUME NEW f, NEW c \in Nat, NEW d \in Nat, c <= d, FieldsUpTo(f, c)
  PROVE  FieldsUpTo(f, d)
<1>1. f \in Seq(Int) /\ Len(f) \in Nat /\ \A n \in 1..Len(f) : f[n] \in Int
  BY DEF FieldsUpTo
<1>2. Len(f) >= 1 => f[1] \in 0..d
  BY <1>1 DEF FieldsUpTo
<1>3. Len(f) >= 2 => f[1] \in Int /\ f[2] \in Int /\ f[2] \in {0} \cup f[1]..d
  BY <1>1 DEF FieldsUpTo
<1>4. ASSUME NEW n \in {3, 4}, Len(f) >= n PROVE f[n] = -1 \/ f[n] \in f[2]..d
  <2>1. f[2] \in Int /\ f[n] \in Int
    BY <1>1, <1>4
  <2> QED
    BY <1>4, <2>1 DEF FieldsUpTo
<1> QED
  BY <1>1, <1>2, <1>3, <1>4 DEF FieldsUpTo

(* The chain moves on.                                                     *)
LEMMA ListWhileChainGrows ==
  ASSUME ListInv, chain' \in Seq(Nat), DOMAIN chain \subseteq DOMAIN chain',
         \A i \in DOMAIN chain : chain[i] <= chain'[i],
         UNCHANGED <<reading, shown, result, probe, misses, failed, listed>>
  PROVE  ListInv'
<1>1. \A i \in DOMAIN chain : chain[i] \in Nat /\ chain'[i] \in Nat
  BY DEF ListInv, ListTyped
<1>2. ListTyped'
  BY DEF ListInv, ListTyped
<1>3. ListedRight'
  BY <1>1, FieldsStayRight DEF ListInv, ListedRight
<1>4. ProbeRight'
  <2> SUFFICES ASSUME Probing' PROVE ProbeRight'
    BY DEF ProbeRight
  <2>1. Probing
    BY DEF Probing
  <2>2. Len(shown) > 0 => probe \in DOMAIN chain' /\ FieldsUpTo(shown, chain'[probe])
    BY <1>1, <2>1, FieldsStayRight DEF ListInv, ProbeRight
  <2> QED
    BY <2>1, <2>2 DEF ListInv, ProbeRight, Probing
<1>5. ProbedSoFar' /\ Reads!ListedUpToGap'
  BY DEF ListInv, ProbedSoFar, Probing, Reads!ListedUpToGap, Reads!Listed
<1> QED
  BY <1>2, <1>3, <1>4, <1>5 DEF ListInv

(* A read that is not one of a probe.                                      *)
LEMMA ListWhileOthersRead ==
  ASSUME ListInv, ~Probing, UNCHANGED <<chain, probe, misses, failed, listed>>
  PROVE  ListInv'
<1>1. ~Probing'
  BY DEF Probing
<1> QED
  BY <1>1 DEF ListInv, ListTyped, ListedRight, ProbeRight, ProbedSoFar, Reads!ListedUpToGap,
              Reads!Listed

(* How the fields of a proposal are shown.                                 *)
LEMMA ShownFields ==
  ASSUME NEW value
  PROVE  /\ Reads!Shown("struct", value) = value /\ Reads!Shown("flag", value) = value
         /\ Reads!Shown("state", value) = IF value = -1 THEN 0 ELSE value
  BY Zenon DEF Reads!Shown, Reads!MapState, Reads!Null

(* One of the four reads of a probe is answered.                            *)
LEMMA ProbeAnswered ==
  ASSUME ListInv, Probing, Reads!Answered
  PROVE  ListInv'
<1>1. /\ UNCHANGED <<chain, probe, misses, failed, listed>>
      /\ reading # <<>> /\ result = "none" /\ shown \in Seq(Int) /\ probe # -1
      /\ chain \in Seq(Nat) /\ probe \in Int
  BY DEF ListInv, ListTyped, ProbeRight, Probing, Reads!Answered, Reads!listVars
<1>2. PICK value \in (IF Reads!Exists(probe) THEN {Reads!Now} ELSE {}) \cup {-1} :
        IF Reads!ThrowsOn(Head(reading), value)
        THEN reading' = <<>> /\ result' = "thrown" /\ UNCHANGED shown
        ELSE /\ reading' = Tail(reading)
             /\ shown' = Append(shown, Reads!Shown(Head(reading), value))
             /\ result' = IF Len(reading) = 1 THEN "shown" ELSE "none"
  BY <1>1 DEF Reads!Answered, Reads!RefusedIs, Reads!Null, Reads!NoProbe
<1>3. value = -1 \/ (probe \in DOMAIN chain /\ value = chain[probe])
  <2>1. CASE Reads!Exists(probe)
    BY <1>2, <2>1 DEF Reads!Exists, Reads!Now
  <2>2. CASE ~Reads!Exists(probe)
    BY <1>2, <2>2
  <2> QED
    BY <2>1, <2>2
<1>4. ListTyped' /\ ListedRight' /\ ProbedSoFar' /\ Reads!ListedUpToGap'
  BY <1>1 DEF ListInv, ListTyped, ListedRight, ProbedSoFar, Probing, Reads!ListedUpToGap,
              Reads!Listed
<1>5. CASE Reads!ThrowsOn(Head(reading), value)
  <2>1. ProbeRight'
    BY <1>1, <1>2, <1>5 DEF ListInv, ProbeRight, Probing
  <2> QED
    BY <1>4, <2>1 DEF ListInv
<1>6. CASE ~Reads!ThrowsOn(Head(reading), value)
  <2> DEFINE s == Reads!Shown(Head(reading), value)
             k == Len(shown)
  <2>1. /\ reading' = Tail(reading) /\ shown' = Append(shown, s)
        /\ result' = IF Len(reading) = 1 THEN "shown" ELSE "none"
    BY <1>2, <1>6
  <2>2. \/ k = 0 /\ reading = <<"struct", "state", "flag", "flag">>
        \/ k = 1 /\ reading = <<"state", "flag", "flag">>
        \/ k = 2 /\ reading = <<"flag", "flag">>
        \/ k = 3 /\ reading = <<"flag">>
    BY <1>1 DEF ListInv, ProbeRight
  <2>3. /\ k = 0 => s = value /\ value # -1
        /\ k = 1 => s = IF value = -1 THEN 0 ELSE value
        /\ k \in {2, 3} => s = value
    BY <1>6, <2>2, ShownFields DEF Reads!ThrowsOn, Reads!Null
  <2>4. probe \in DOMAIN chain
    BY <1>1, <1>3, <2>2, <2>3 DEF ListInv, ProbeRight
  <2>5. chain[probe] \in Nat
    BY <1>1, <2>4
  <2>6. s \in Int
    BY <1>3, <2>2, <2>3, <2>5
  <2> HIDE DEF s
  <2>7. /\ shown' \in Seq(Int) /\ Len(shown') = k + 1
        /\ shown'[k + 1] = s
        /\ \A n \in 1..k : shown'[n] = shown[n] /\ shown[n] \in Int
    BY <1>1, <2>1, <2>6
  <2>8. FieldsUpTo(shown', chain[probe])
    <3>1. k > 0 => FieldsUpTo(shown, chain[probe])
      BY <2>2 DEF ListInv, ProbeRight
    <3> HIDE DEF k
    <3>2. CASE k = 0
      BY <1>3, <2>3, <2>5, <2>7, <3>2 DEF FieldsUpTo
    <3>3. CASE k = 1
      <4>1. shown[1] \in 0..chain[probe] /\ shown'[1] = shown[1] /\ shown'[2] = s
        BY <2>7, <3>1, <3>3 DEF FieldsUpTo, k
      <4>2. s = 0 \/ s = chain[probe]
        BY <1>3, <2>3, <3>3
      <4> QED
        BY <2>5, <2>7, <3>3, <4>1, <4>2 DEF FieldsUpTo
    <3>4. CASE k = 2
      <4>1. /\ shown[1] \in 0..chain[probe] /\ shown'[1] = shown[1]
            /\ shown[2] \in {0} \cup shown[1]..chain[probe] /\ shown'[2] = shown[2]
            /\ shown'[3] = s
        BY <2>7, <3>1, <3>4 DEF FieldsUpTo, k
      <4>2. s = -1 \/ s = chain[probe]
        BY <1>3, <2>3, <3>4
      <4> QED
        BY <2>5, <2>7, <3>4, <4>1, <4>2 DEF FieldsUpTo
    <3>5. CASE k = 3
      <4>1. /\ shown[1] \in 0..chain[probe] /\ shown'[1] = shown[1]
            /\ shown[2] \in {0} \cup shown[1]..chain[probe] /\ shown'[2] = shown[2]
            /\ shown[3] = -1 \/ shown[3] \in shown[2]..chain[probe]
            /\ shown'[3] = shown[3] /\ shown'[4] = s
        BY <2>7, <3>1, <3>5 DEF FieldsUpTo, k
      <4>2. s = -1 \/ s = chain[probe]
        BY <1>3, <2>3, <3>5
      <4> QED
        BY <2>5, <2>7, <3>5, <4>1, <4>2 DEF FieldsUpTo
    <3> QED
      BY <2>2, <3>2, <3>3, <3>4, <3>5
  <2>9. ProbeRight'
    <3>1. /\ k = 0 => reading' = <<"state", "flag", "flag">> /\ result' = "none"
          /\ k = 1 => reading' = <<"flag", "flag">> /\ result' = "none"
          /\ k = 2 => reading' = <<"flag">> /\ result' = "none"
          /\ k = 3 => reading' = <<>> /\ result' = "shown"
      <4>1. \/ k = 0 /\ Tail(reading) = <<"state", "flag", "flag">> /\ Len(reading) = 4
            \/ k = 1 /\ Tail(reading) = <<"flag", "flag">> /\ Len(reading) = 3
            \/ k = 2 /\ Tail(reading) = <<"flag">> /\ Len(reading) = 2
            \/ k = 3 /\ Tail(reading) = <<>> /\ Len(reading) = 1
        <5>1. /\ Tail(<<"struct", "state", "flag", "flag">>) = <<"state", "flag", "flag">>
              /\ Tail(<<"state", "flag", "flag">>) = <<"flag", "flag">>
              /\ Tail(<<"flag", "flag">>) = <<"flag">> /\ Tail(<<"flag">>) = <<>>
          OBVIOUS
        <5>2. /\ Len(<<"struct", "state", "flag", "flag">>) = 4
              /\ Len(<<"state", "flag", "flag">>) = 3
              /\ Len(<<"flag", "flag">>) = 2 /\ Len(<<"flag">>) = 1
          OBVIOUS
        <5> HIDE DEF k
        <5> QED
          BY Zenon, <2>2, <5>1, <5>2
      <4> HIDE DEF k
      <4> QED
        BY <2>1, <4>1
    <3> HIDE DEF k
    <3> QED
      BY <1>1, <2>2, <2>4, <2>7, <2>8, <3>1 DEF ProbeRight
  <2> QED
    BY <1>4, <2>9 DEF ListInv
<1> QED
  BY <1>5, <1>6

(* The node cannot be reached.                                             *)
LEMMA ProbeUnreachable ==
  ASSUME ListInv, Probing, Reads!Unreachable
  PROVE  ListInv'
<1>1. /\ UNCHANGED <<chain, probe, misses, failed, listed, shown>>
      /\ reading' = <<>> /\ result' = "thrown"
  BY DEF Reads!Unreachable, Reads!listVars
<1>2. ProbeRight'
  BY <1>1 DEF ListInv, ProbeRight, Probing
<1>3. ListTyped' /\ ListedRight' /\ ProbedSoFar' /\ Reads!ListedUpToGap'
  BY <1>1 DEF ListInv, ListTyped, ListedRight, ProbedSoFar, Probing, Reads!ListedUpToGap,
              Reads!Listed
<1> QED
  BY <1>2, <1>3 DEF ListInv

(* A list begins with nothing probed.                                       *)
LEMMA ListBegins ==
  ASSUME ListInv, Reads!BeginList
  PROVE  ListInv'
<1>0. Probes \in Nat
  BY InstanceAssumption DEF Reads!ReadsAssumption
<1>1. /\ probe' = 0 /\ misses' = 0 /\ failed' = {} /\ listed' = <<>>
      /\ reading' = <<"struct", "state", "flag", "flag">> /\ shown' = <<>> /\ result' = "none"
      /\ UNCHANGED chain
  BY DEF Reads!BeginList, Reads!getProposal
<1>2. ListTyped' /\ ListedRight' /\ ProbeRight' /\ ProbedSoFar'
  BY <1>0, <1>1 DEF ListInv, ListTyped, ListedRight, ProbeRight, ProbedSoFar
<1>3. Reads!ListedUpToGap'
  BY <1>0, <1>1 DEF Reads!ListedUpToGap
<1> QED
  BY <1>2, <1>3 DEF ListInv

(* What follows when a probe is done without the end of the list.           *)
LEMMA ProbeContinues ==
  ASSUME Probes \in Nat, probe \in 0..Probes - 1, Reads!Continue
  PROVE  /\ probe' = probe + 1 /\ probe' \in 1..Probes
         /\ probe + 1 < Probes => reading' = <<"struct", "state", "flag", "flag">>
         /\ Probing' <=> probe + 1 < Probes
  BY DEF Reads!Continue, Reads!getProposal, Probing

(* A proposal is listed: the gap of misses starts again.                    *)
LEMMA ListHit ==
  ASSUME ListInv, Reads!Hit
  PROVE  ListInv'
<1>0. Probes \in Nat /\ GapLimit \in Nat
  BY InstanceAssumption DEF Reads!ReadsAssumption
<1>1. /\ probe \in 0..Probes - 1 /\ reading = <<>> /\ result = "shown"
      /\ listed' = Append(listed, [id |-> probe, fields |-> shown])
      /\ misses' = 0 /\ Reads!Continue /\ shown' = <<>> /\ result' = "none"
      /\ UNCHANGED <<chain, failed>>
  BY DEF Reads!Hit, Reads!MissesAfterHit
<1>2. /\ probe' = probe + 1 /\ probe' \in 1..Probes
      /\ probe + 1 < Probes => reading' = <<"struct", "state", "flag", "flag">>
      /\ Probing' <=> probe + 1 < Probes
  BY <1>0, <1>1, ProbeContinues
<1>3. /\ shown \in Seq(Int) /\ Len(shown) = 4 /\ probe \in DOMAIN chain
      /\ FieldsUpTo(shown, chain[probe])
  <2>1. /\ shown \in Seq(Int)
        /\ Len(shown) > 0 => probe \in DOMAIN chain /\ FieldsUpTo(shown, chain[probe])
        /\ result = "none" \/ Len(shown) = 4 \/ result = "thrown"
    BY <1>1 DEF ListInv, ProbeRight, Probing
  <2> QED
    BY <1>1, <2>1
<1>4. /\ listed \in Seq([id: Int, fields: Seq(Int)]) /\ probe \in Int
      /\ [id |-> probe, fields |-> shown] \in [id: Int, fields: Seq(Int)]
  BY <1>1, <1>3 DEF ListInv, ListTyped
<1>5. /\ listed' \in Seq([id: Int, fields: Seq(Int)])
      /\ DOMAIN listed' = 1..Len(listed) + 1 /\ DOMAIN listed = 1..Len(listed)
      /\ Len(listed) \in Nat
      /\ listed'[Len(listed) + 1] = [id |-> probe, fields |-> shown]
      /\ \A k \in 1..Len(listed) : listed'[k] = listed[k]
  BY <1>1, <1>4
<1>6. ListTyped'
  BY <1>0, <1>1, <1>2, <1>5 DEF ListInv, ListTyped
<1>7. ListedRight'
  <2>1. \A k \in DOMAIN listed' : k \in DOMAIN listed \/ k = Len(listed) + 1
    BY <1>5
  <2> QED
    BY <1>1, <1>3, <1>5, <2>1 DEF ListInv, ListedRight
<1>8. ProbeRight'
  BY <1>1, <1>2 DEF ProbeRight
<1>9. Reads!Listed' = Reads!Listed \cup {probe}
  <2>1. \A k \in DOMAIN listed' : k \in DOMAIN listed \/ k = Len(listed) + 1
    BY <1>5
  <2>2. Len(listed) + 1 \in DOMAIN listed' /\ DOMAIN listed \subseteq DOMAIN listed'
    BY <1>5
  <2> QED
    <3>1. \A k \in DOMAIN listed : listed'[k].id = listed[k].id
      BY <1>5
    <3>2. listed'[Len(listed) + 1].id = probe
      BY <1>5
    <3>3. /\ Reads!Listed = {listed[k].id : k \in DOMAIN listed}
          /\ Reads!Listed' = {listed'[k].id : k \in DOMAIN listed'}
      BY DEF Reads!Listed
    <3>4. ASSUME NEW x \in Reads!Listed' PROVE x \in Reads!Listed \cup {probe}
      BY <2>1, <3>1, <3>2, <3>3
    <3>5. ASSUME NEW x \in Reads!Listed \cup {probe} PROVE x \in Reads!Listed'
      BY <2>2, <3>1, <3>2, <3>3
    <3> QED
      BY <3>4, <3>5
<1>10. \A i \in 0..probe : i \in Reads!Listed' \cup failed'
  <2>1. \A i \in 0..probe - 1 : i \in Reads!Listed \cup failed
    BY <1>1 DEF ListInv, ProbedSoFar, Probing
  <2>2. \A i \in 0..probe : i \in 0..probe - 1 \/ i = probe
    BY <1>1
  <2> QED
    BY <1>1, <1>9, <2>1, <2>2
<1>11. ProbedSoFar'
  BY <1>1, <1>2, <1>10 DEF ProbedSoFar
<1>12. Reads!ListedUpToGap'
  <2>1. probe' = Probes => \A i \in 1..Probes - 1 : i \in 0..probe
    BY <1>0, <1>1, <1>2
  <2> QED
    BY <1>10, <2>1 DEF Reads!ListedUpToGap
<1> QED
  BY <1>6, <1>7, <1>8, <1>11, <1>12 DEF ListInv

(* A probe failed: the gap is one longer, and ends the list when it is long *)
(* enough.                                                                  *)
LEMMA ListMiss ==
  ASSUME ListInv, Reads!Miss
  PROVE  ListInv'
<1>0. Probes \in Nat /\ GapLimit \in Nat
  BY InstanceAssumption DEF Reads!ReadsAssumption
<1>1. /\ probe \in 0..Probes - 1 /\ reading = <<>> /\ result = "thrown"
      /\ misses' = misses + 1 /\ failed' = failed \cup {probe}
      /\ IF misses' >= GapLimit THEN probe' = Probes /\ UNCHANGED reading ELSE Reads!Continue
      /\ shown' = <<>> /\ result' = "none"
      /\ UNCHANGED <<chain, listed>>
  BY DEF Reads!Miss
<1>2. /\ misses \in 0..probe
      /\ \A i \in 0..probe - 1 : i \in Reads!Listed \cup failed
      /\ \A i \in probe - misses..probe - 1 : i \in failed
  BY <1>1 DEF ListInv, ProbedSoFar, Probing
<1>3. Reads!Listed' = Reads!Listed
  BY <1>1 DEF Reads!Listed
<1>4. \A i \in 0..probe : i \in Reads!Listed' \cup failed'
  <2>1. \A i \in 0..probe : i \in 0..probe - 1 \/ i = probe
    BY <1>1
  <2> QED
    BY <1>1, <1>2, <1>3, <2>1
<1>5. \A i \in probe - misses..probe : i \in failed'
  <2>1. \A i \in probe - misses..probe : i \in probe - misses..probe - 1 \/ i = probe
    BY <1>1, <1>2
  <2> QED
    BY <1>1, <1>2, <2>1
<1>6. ListedRight'
  BY <1>1 DEF ListInv, ListedRight
<1>7. CASE misses' >= GapLimit
  <2>1. probe' = Probes /\ ~Probing'
    BY <1>0, <1>1, <1>7 DEF Probing
  <2>2. ListTyped' /\ ProbeRight' /\ ProbedSoFar'
    BY <1>0, <1>1, <2>1 DEF ListInv, ListTyped, ProbeRight, ProbedSoFar
  <2>3. Reads!ListedUpToGap'
    <3> SUFFICES ASSUME NEW i \in 1..Probes - 1, i \notin Reads!Listed' \cup failed'
                 PROVE  \E j \in 0..i - GapLimit : j..j + GapLimit - 1 \subseteq failed'
      BY DEF Reads!ListedUpToGap
    <3>1. i > probe
      BY <1>0, <1>1, <1>4
    <3> DEFINE j == probe + 1 - GapLimit
    <3>2. j \in 0..i - GapLimit
      BY <1>0, <1>1, <1>2, <1>7, <3>1
    <3>3. j..j + GapLimit - 1 \subseteq probe - misses..probe
      BY <1>0, <1>1, <1>2, <1>7
    <3> QED
      BY <1>5, <3>2, <3>3
  <2> QED
    BY <1>6, <2>2, <2>3 DEF ListInv
<1>8. CASE ~(misses' >= GapLimit)
  <2>1. /\ probe' = probe + 1 /\ probe' \in 1..Probes
        /\ probe + 1 < Probes => reading' = <<"struct", "state", "flag", "flag">>
        /\ Probing' <=> probe + 1 < Probes
    BY <1>0, <1>1, <1>8, ProbeContinues
  <2>2. ListTyped' /\ ProbeRight'
    BY <1>0, <1>1, <2>1 DEF ListInv, ListTyped, ProbeRight
  <2>3. ProbedSoFar'
    <3>1. misses' \in 0..probe'
      BY <1>1, <1>2, <2>1
    <3>2. probe' - misses' = probe - misses /\ probe' - 1 = probe
      BY <1>1, <1>2, <2>1
    <3> QED
      BY <1>4, <1>5, <3>1, <3>2 DEF ProbedSoFar
  <2>4. Reads!ListedUpToGap'
    <3>1. probe' = Probes => \A i \in 1..Probes - 1 : i \in 0..probe
      BY <1>0, <1>1, <2>1
    <3> QED
      BY <1>4, <3>1 DEF Reads!ListedUpToGap
  <2> QED
    BY <1>6, <2>2, <2>3, <2>4 DEF ListInv
<1> QED
  BY <1>7, <1>8

(* Every step of the reads keeps the list right.                            *)
LEMMA ListInvNext ==
  ASSUME ListInv, Reads!Next
  PROVE  ListInv'
<1>1. CASE Reads!Propose
  <2>1. /\ chain \in Seq(Nat) /\ chain' = Append(chain, 0)
        /\ UNCHANGED <<reading, shown, result, probe, misses, failed, listed>>
    BY <1>1 DEF Reads!Propose, Reads!readVars, Reads!listVars, ListInv, ListTyped
  <2>2. /\ chain' \in Seq(Nat) /\ DOMAIN chain \subseteq DOMAIN chain'
        /\ \A i \in DOMAIN chain : chain[i] <= chain'[i]
    BY <2>1
  <2> QED
    BY <2>1, <2>2, ListWhileChainGrows
<1>2. ASSUME NEW p \in DOMAIN chain, Reads!Proceed(p) PROVE ListInv'
  <2>1. /\ chain \in Seq(Nat) /\ chain' = [chain EXCEPT ![p] = chain[p] + 1]
        /\ UNCHANGED <<reading, shown, result, probe, misses, failed, listed>>
    BY <1>2 DEF Reads!Proceed, Reads!readVars, Reads!listVars, ListInv, ListTyped
  <2>2. /\ chain' \in Seq(Nat) /\ DOMAIN chain \subseteq DOMAIN chain'
        /\ \A i \in DOMAIN chain : chain[i] <= chain'[i]
    <3>1. \A i \in DOMAIN chain : chain[i] \in Nat
      BY <2>1
    <3> QED
      BY <2>1, <3>1
  <2> QED
    BY <2>1, <2>2, ListWhileChainGrows
<1>3. CASE Reads!BeginRead
  <2>1. ~Probing /\ UNCHANGED <<chain, probe, misses, failed, listed>>
    BY <1>3 DEF Reads!BeginRead, Reads!Idle, Reads!NoProbe, Reads!listVars, Probing
  <2> QED
    BY <2>1, ListWhileOthersRead
<1>4. CASE Reads!Answered
  <2>1. UNCHANGED <<chain, probe, misses, failed, listed>>
    BY <1>4 DEF Reads!Answered, Reads!listVars
  <2> QED
    BY <1>4, <2>1, ProbeAnswered, ListWhileOthersRead
<1>5. CASE Reads!Unreachable
  <2>1. UNCHANGED <<chain, probe, misses, failed, listed>>
    BY <1>5 DEF Reads!Unreachable, Reads!listVars
  <2> QED
    BY <1>5, <2>1, ProbeUnreachable, ListWhileOthersRead
<1>6. CASE Reads!CloseList
  <2>1. /\ probe' = -1 /\ UNCHANGED <<chain, misses, failed, listed>> /\ ~Probing'
    BY <1>6 DEF Reads!CloseList, Reads!NoProbe, Probing
  <2>2. Probes \in Nat
    BY InstanceAssumption DEF Reads!ReadsAssumption
  <2> QED
    BY <2>1, <2>2 DEF ListInv, ListTyped, ListedRight, ProbeRight, ProbedSoFar,
                      Reads!ListedUpToGap
<1> QED
  BY <1>1, <1>2, <1>3, <1>4, <1>5, <1>6, ListBegins, ListHit, ListMiss DEF Reads!Next

(* At first nothing is listed.                                              *)
LEMMA ListInvInit == Reads!Init => ListInv
<1>1. Probes \in Nat
  BY InstanceAssumption DEF Reads!ReadsAssumption
<1> QED
  BY <1>1 DEF Reads!Init, Reads!NoProbe, ListInv, ListTyped, ListedRight, ProbeRight, Probing,
              ProbedSoFar, Reads!ListedUpToGap

(* What getAllProposals lists is what the contract holds: no field is ahead *)
(* of it, and nothing is missing but what failed or is behind a gap of      *)
(* misses that is long enough, for any number of proposals and probes and   *)
(* any length of the gap.                                                   *)
THEOREM ListsAreFaithful == ClientsSpec => []ListIsFaithful
<1>1. ClientsInit => ListInv
  BY ListInvInit DEF ClientsInit
<1>2. ListInv /\ [ClientsNext]_clientsVars => ListInv'
  <2> SUFFICES ASSUME ListInv, [ClientsNext]_clientsVars PROVE ListInv'
    OBVIOUS
  <2>1. CASE ReadsMove
    BY <2>1, ListInvNext DEF ReadsMove
  <2>2. CASE UNCHANGED readsVars
    BY <2>2 DEF readsVars, ListInv, ListTyped, ListedRight, ProbeRight, Probing, ProbedSoFar,
                Reads!ListedUpToGap, Reads!Listed
  <2> QED
    BY <2>1, <2>2 DEF ClientsNext, CallsDo, RewardsMove, CalculatorsMove, clientsVars
<1>3. ListInv => ListIsFaithful
  <2> SUFFICES ASSUME ListInv PROVE Reads!ShownNotAhead
    BY DEF ListInv, ListIsFaithful, Reads!ListIsFaithful
  <2>1. ASSUME NEW k \in DOMAIN listed
        PROVE  /\ listed[k].fields[1] <= chain[listed[k].id]
               /\ listed[k].fields[2] \in {0} \cup listed[k].fields[1]..chain[listed[k].id]
               /\ \A f \in {3, 4} : listed[k].fields[f] # -1 =>
                    listed[k].fields[f] \in listed[k].fields[2]..chain[listed[k].id]
    <3>1. FieldsUpTo(listed[k].fields, chain[listed[k].id]) /\ Len(listed[k].fields) = 4
      BY <2>1 DEF ListInv, ListedRight
    <3>2. chain[listed[k].id] \in Nat
      BY <2>1 DEF ListInv, ListedRight, ListTyped
    <3> QED
      BY <3>1, <3>2 DEF FieldsUpTo
  <2> QED
    BY <2>1 DEF Reads!ShownNotAhead, Reads!Null
<1> QED
  BY <1>1, <1>2, <1>3, PTL DEF ClientsSpec

-----------------------------------------------------------------------------
(* Claims and conversions.                                                 *)

ClaimMethods  == {"claimRewards", "claimAndConvert", "compoundNamed", "compoundAll"}
SingleMethods == {"setAutoCompound", "emergencyWithdraw", "swapTokens", "swapWithRetry"}

FromList    == <<"list", "pending", "account", "claim", "convert">>
FromPending == <<"pending", "account", "claim", "convert">>
FromAccount == <<"account", "claim", "convert">>
FromClaim   == <<"claim", "convert">>
FromConvert == <<"convert">>

CallTyped ==
  call \in [method: ClaimMethods \cup SingleMethods \cup {"none"},
            streams: SUBSET Rewards!Tokens, convertTo: Rewards!Tokens \cup {"none"},
            enableAutoRetry: BOOLEAN]

(* Before the claim nothing is in effect.                                  *)
BeforeClaim ==
  \/ /\ awaits \in {FromList, FromPending}
     /\ ending = "none" /\ call.method \in ClaimMethods /\ claimed = {} /\ effects = {}
  \/ /\ awaits \in {FromAccount, FromClaim}
     /\ ending = "none" /\ call.method \in ClaimMethods /\ effects = {}
     /\ claimed \subseteq Rewards!Tokens /\ left = Rewards!ToConvert(claimed)

(* After it the conversions are done one by one; without retry none is left *)
(* out.                                                                     *)
Converting ==
  /\ awaits = FromConvert
  /\ ending = "none" /\ call.method \in ClaimMethods
  /\ claimed \subseteq Rewards!Tokens /\ left \subseteq claimed
  /\ "claim" \in effects /\ effects \cap Rewards!Tokens \subseteq claimed
  /\ call.enableAutoRetry \/ Rewards!ToConvert(claimed) \subseteq effects \cup left

Single ==
  /\ awaits \in {<<"account", "submit">>, <<"submit">>}
  /\ ending = "none" /\ call.method \in SingleMethods /\ claimed = {} /\ effects = {}

Ended == awaits = <<>> /\ Rewards!ReturnedIsInEffect

RewardsInv == CallTyped /\ (BeforeClaim \/ Converting \/ Single \/ Ended)

(* Where the steps of a call lead.                                         *)
LEMMA NextAwaits ==
  /\ Head(FromList) = "list" /\ Tail(FromList) = FromPending
  /\ Head(FromPending) = "pending" /\ Tail(FromPending) = FromAccount
  /\ Head(FromAccount) = "account" /\ Tail(FromAccount) = FromClaim
  /\ Head(FromClaim) = "claim" /\ Tail(FromClaim) = FromConvert
  /\ Head(FromConvert) = "convert" /\ Tail(FromConvert) = <<>>
  /\ Head(<<"account", "submit">>) = "account" /\ Tail(<<"account", "submit">>) = <<"submit">>
  /\ Head(<<"submit">>) = "submit" /\ Tail(<<"submit">>) = <<>>
  BY DEF FromList, FromPending, FromAccount, FromClaim, FromConvert

(* The step a call is at tells what holds of it.                            *)
LEMMA AwaitsTell ==
  ASSUME RewardsInv, awaits # <<>>
  PROVE  /\ Head(awaits) = "list" => awaits = FromList /\ BeforeClaim
         /\ Head(awaits) = "pending" => awaits = FromPending /\ BeforeClaim
         /\ Head(awaits) = "account" =>
              \/ awaits = FromAccount /\ BeforeClaim
              \/ awaits = <<"account", "submit">> /\ Single
         /\ Head(awaits) = "claim" => awaits = FromClaim /\ BeforeClaim
         /\ Head(awaits) = "convert" => awaits = FromConvert /\ Converting
         /\ Head(awaits) = "submit" => awaits = <<"submit">> /\ Single
<1>1. CASE BeforeClaim
  <2>1. awaits \in {FromList, FromPending, FromAccount, FromClaim}
    BY <1>1 DEF BeforeClaim
  <2>2. CASE awaits = FromList
    BY <1>1, <2>2, NextAwaits
  <2>3. CASE awaits = FromPending
    BY <1>1, <2>3, NextAwaits
  <2>4. CASE awaits = FromAccount
    BY <1>1, <2>4, NextAwaits
  <2>5. CASE awaits = FromClaim
    BY <1>1, <2>5, NextAwaits
  <2> QED
    BY <2>1, <2>2, <2>3, <2>4, <2>5
<1>2. CASE Converting
  <2>1. awaits = FromConvert
    BY <1>2 DEF Converting
  <2> QED
    BY <1>2, <2>1, NextAwaits
<1>3. CASE Single
  <2>1. awaits \in {<<"account", "submit">>, <<"submit">>}
    BY <1>3 DEF Single
  <2>2. CASE awaits = <<"account", "submit">>
    BY <1>3, <2>2, NextAwaits
  <2>3. CASE awaits = <<"submit">>
    BY <1>3, <2>3, NextAwaits
  <2> QED
    BY <2>1, <2>2, <2>3
<1> QED
  BY <1>1, <1>2, <1>3 DEF RewardsInv, Ended

(* A call that begins has nothing in effect.                               *)
LEMMA RewardsBegin ==
  ASSUME NEW method, NEW streams \in SUBSET Rewards!Tokens,
         NEW convertTo \in Rewards!Tokens \cup {"none"}, NEW retry \in BOOLEAN, NEW steps,
         Rewards!Begins(method, streams, convertTo, retry, steps),
         \/ method \in ClaimMethods /\ steps \in {FromList, FromPending}
         \/ method \in SingleMethods /\ steps = <<"account", "submit">>
  PROVE  RewardsInv'
<1>1. /\ call' = [method |-> method, streams |-> streams, convertTo |-> convertTo,
                  enableAutoRetry |-> retry]
      /\ awaits' = steps /\ claimed' = {} /\ effects' = {} /\ ending' = "none"
  BY DEF Rewards!Begins
<1>2. CallTyped'
  BY <1>1 DEF CallTyped
<1>3. CASE method \in ClaimMethods /\ steps \in {FromList, FromPending}
  BY <1>1, <1>2, <1>3 DEF RewardsInv, BeforeClaim
<1>4. CASE method \in SingleMethods /\ steps = <<"account", "submit">>
  BY <1>1, <1>2, <1>4 DEF RewardsInv, Single
<1> QED
  BY <1>3, <1>4

(* The steps of a claim with and without the list before them.             *)
LEMMA StepsPrepended ==
  ASSUME NEW a, NEW b, NEW c, NEW d, NEW e
  PROVE  /\ <<>> \o <<b, c, d, e>> = <<b, c, d, e>>
         /\ <<a>> \o <<b, c, d, e>> = <<a, b, c, d, e>>
<1> DEFINE S == {a, b, c, d, e}
           u == <<a>>
           s == <<b, c, d, e>>
           t == <<a, b, c, d, e>>
<1>1. /\ s \in Seq(S) /\ u \in Seq(S) /\ t \in Seq(S)
      /\ Len(u) = 1 /\ Len(s) = 4 /\ Len(t) = 5
      /\ t[1] = u[1] /\ \A i \in 2..5 : t[i] = s[i - 1]
  OBVIOUS
<1> HIDE DEF S, u, s, t
<1>2. <<>> \o s = s
  BY <1>1, ConcatEmptySeq
<1>3. u \o s = t
  <2>1. /\ u \o s \in Seq(S) /\ Len(u \o s) = 5
        /\ \A i \in 1..5 : (u \o s)[i] = IF i <= 1 THEN u[i] ELSE s[i - 1]
    <3>1. /\ u \o s \in Seq(S)
          /\ Len(u \o s) = Len(u) + Len(s)
          /\ \A i \in 1..Len(u) + Len(s) :
               (u \o s)[i] = IF i <= Len(u) THEN u[i] ELSE s[i - Len(u)]
      <4>1. u \in Seq(S) /\ s \in Seq(S)
        BY <1>1
      <4> QED
        BY <4>1, ConcatProperties, Zenon
    <3>2. Len(u) + Len(s) = 5 /\ Len(u) = 1
      BY <1>1
    <3> QED
      BY <3>1, <3>2
  <2>2. \A i \in 1..5 : (u \o s)[i] = t[i]
    BY <1>1, <2>1
  <2> QED
    BY <1>1, <2>1, <2>2, SeqEqual
<1> QED
  BY <1>2, <1>3 DEF u, s, t

(* Every method begins a claim or a single transaction.                     *)
LEMMA RewardsBegins ==
  ASSUME \/ Rewards!BeginClaim \/ Rewards!claimAndConvert \/ Rewards!executeAutoCompound
         \/ Rewards!setAutoCompound \/ Rewards!emergencyWithdraw \/ Rewards!swapTokens
         \/ Rewards!swapWithRetry
  PROVE  RewardsInv'
<1>1. /\ Rewards!claimRewards(<<>>) = FromPending
      /\ Rewards!claimRewards(<<"list">>) = FromList
      /\ Rewards!Transaction = <<"account", "submit">> /\ Rewards!None = "none"
      /\ {} \in SUBSET Rewards!Tokens
  BY StepsPrepended DEF Rewards!claimRewards, FromPending, FromList, Rewards!Transaction,
                        Rewards!None
<1>2. CASE Rewards!BeginClaim
  BY <1>1, <1>2, RewardsBegin DEF Rewards!BeginClaim, ClaimMethods
<1>3. CASE Rewards!claimAndConvert
  BY <1>1, <1>3, RewardsBegin DEF Rewards!claimAndConvert, ClaimMethods
<1>4. CASE Rewards!executeAutoCompound
  BY <1>1, <1>4, RewardsBegin DEF Rewards!executeAutoCompound, ClaimMethods
<1>5. CASE Rewards!setAutoCompound
  BY <1>1, <1>5, RewardsBegin DEF Rewards!setAutoCompound, SingleMethods
<1>6. CASE Rewards!emergencyWithdraw
  BY <1>1, <1>6, RewardsBegin DEF Rewards!emergencyWithdraw, SingleMethods
<1>7. CASE Rewards!swapTokens
  BY <1>1, <1>7, RewardsBegin DEF Rewards!swapTokens, SingleMethods
<1>8. CASE Rewards!swapWithRetry
  BY <1>1, <1>8, RewardsBegin DEF Rewards!swapWithRetry, SingleMethods
<1> QED
  BY <1>2, <1>3, <1>4, <1>5, <1>6, <1>7, <1>8

(* The names of the methods, of the claim and of the tokens are different.  *)
LEMMA NamesDiffer ==
  /\ "claim" \notin Rewards!Tokens
  /\ \A m \in SingleMethods : m \notin Rewards!Tokens /\ m # "claim"
  /\ "swapWithRetry" \notin ClaimMethods
  BY DEF Rewards!Tokens, SingleMethods, ClaimMethods

(* A call that ended before its claim did nothing.                         *)
LEMMA EndsWithoutClaim ==
  ASSUME CallTyped', awaits' = <<>>, ending' # "returned" \/ claimed' = {}, effects' = {}
  PROVE  RewardsInv'
  BY DEF RewardsInv, Ended, Rewards!ReturnedIsInEffect, Rewards!IsClaim

(* The rewards are read, for the streams to claim.                          *)
LEMMA RewardsList ==
  ASSUME RewardsInv, Rewards!List
  PROVE  RewardsInv'
<1>1. awaits = FromList /\ BeforeClaim /\ Tail(awaits) = FromPending
  BY AwaitsTell, NextAwaits DEF Rewards!List, Rewards!At, Rewards!Idle
<1>2. claimed = {} /\ effects = {} /\ ending = "none" /\ call.method \in ClaimMethods
  BY <1>1, NextAwaits DEF BeforeClaim
<1>3. /\ call' = IF call.method = "compoundNamed" THEN call
                 ELSE [call EXCEPT !.streams = pending']
      /\ pending' \in SUBSET Rewards!Tokens
      /\ UNCHANGED <<claimed, effects>>
      /\ \/ awaits' = <<>> /\ ending' = "returned"
         \/ awaits' = Tail(awaits) /\ UNCHANGED ending
  <2>1. Rewards!getPendingRewards \in SUBSET Rewards!Tokens
    BY DEF Rewards!getPendingRewards, Rewards!getActiveStreams, Rewards!getAllStreams,
           Rewards!RewardStreams
  <2> QED
    BY <2>1 DEF Rewards!List, Rewards!Passes, Rewards!Ends
<1>4. CallTyped' /\ call'.method = call.method
  BY <1>3 DEF RewardsInv, CallTyped
<1>5. CASE awaits' = <<>> /\ ending' = "returned"
  BY <1>2, <1>3, <1>4, <1>5, EndsWithoutClaim
<1>6. CASE awaits' = Tail(awaits) /\ UNCHANGED ending
  BY <1>1, <1>2, <1>3, <1>4, <1>6 DEF RewardsInv, BeforeClaim
<1> QED
  BY <1>3, <1>5, <1>6

(* They are read again, and what is claimed is what is to be converted.     *)
LEMMA RewardsReadPending ==
  ASSUME RewardsInv, Rewards!ReadPending
  PROVE  RewardsInv'
<1>1. awaits = FromPending /\ BeforeClaim /\ Tail(awaits) = FromAccount
  BY AwaitsTell, NextAwaits DEF Rewards!ReadPending, Rewards!At, Rewards!Idle
<1>2. claimed = {} /\ effects = {} /\ ending = "none" /\ call.method \in ClaimMethods
  BY <1>1, NextAwaits DEF BeforeClaim
<1>3. /\ UNCHANGED <<call, effects>>
      /\ \/ awaits' = <<>> /\ ending' = "thrown"
         \/ /\ claimed' \subseteq Rewards!Tokens /\ left' = Rewards!ToConvert(claimed')
            /\ awaits' = Tail(awaits) /\ UNCHANGED ending
  <2>1. \A s \in Rewards!getAllStreams : s.token \in Rewards!Tokens
    BY DEF Rewards!getAllStreams, Rewards!RewardStreams
  <2> QED
    BY <2>1 DEF Rewards!ReadPending, Rewards!Passes, Rewards!Ends
<1>4. CallTyped' /\ Rewards!ToConvert(claimed') = Rewards!ToConvert(claimed)'
  BY <1>3 DEF RewardsInv, CallTyped, Rewards!ToConvert
<1>5. CASE awaits' = <<>> /\ ending' = "thrown"
  BY <1>2, <1>3, <1>4, <1>5, EndsWithoutClaim
<1>6. CASE /\ claimed' \subseteq Rewards!Tokens /\ left' = Rewards!ToConvert(claimed')
           /\ awaits' = Tail(awaits) /\ UNCHANGED ending
  BY <1>1, <1>2, <1>3, <1>4, <1>6 DEF RewardsInv, BeforeClaim
<1> QED
  BY <1>3, <1>5, <1>6

(* The account is read before a claim or a single transaction.              *)
LEMMA RewardsAccount ==
  ASSUME RewardsInv, Rewards!LoadAccount
  PROVE  RewardsInv'
<1>1. /\ awaits # <<>> /\ Head(awaits) = "account" /\ awaits' = Tail(awaits)
      /\ UNCHANGED <<call, claimed, left, effects, ending>>
  BY DEF Rewards!LoadAccount, Rewards!At, Rewards!Idle, Rewards!Passes
<1>2. CallTyped' /\ Rewards!ToConvert(claimed)' = Rewards!ToConvert(claimed)
  BY <1>1 DEF RewardsInv, CallTyped, Rewards!ToConvert
<1>3. CASE awaits = FromAccount /\ BeforeClaim
  <2>1. /\ ending = "none" /\ call.method \in ClaimMethods /\ effects = {}
        /\ claimed \subseteq Rewards!Tokens /\ left = Rewards!ToConvert(claimed)
    BY <1>3, NextAwaits DEF BeforeClaim
  <2>2. awaits' = FromClaim
    BY <1>1, <1>3, NextAwaits
  <2> QED
    BY <1>1, <1>2, <2>1, <2>2 DEF RewardsInv, BeforeClaim
<1>4. CASE awaits = <<"account", "submit">> /\ Single
  <2>1. awaits' = <<"submit">>
    BY <1>1, <1>4, NextAwaits
  <2> QED
    BY <1>1, <1>2, <1>4, <2>1 DEF RewardsInv, Single
<1> QED
  BY <1>1, <1>3, <1>4, AwaitsTell

(* A read fails before anything is in effect.                               *)
LEMMA RewardsReadFails ==
  ASSUME RewardsInv, Rewards!ReadFails
  PROVE  RewardsInv'
<1>1. /\ awaits # <<>> /\ Head(awaits) \in {"list", "pending", "account"} /\ awaits' = <<>>
      /\ ending' = (IF call.method = "swapWithRetry" THEN "returned" ELSE "thrown")
      /\ UNCHANGED <<call, claimed, effects>>
  BY DEF Rewards!ReadFails, Rewards!At, Rewards!Idle, Rewards!Fails, Rewards!Ends
<1>2. CallTyped'
  BY <1>1 DEF RewardsInv, CallTyped
<1>3. BeforeClaim \/ Single
  BY <1>1, AwaitsTell
<1>4. effects = {} /\ (call.method \in ClaimMethods \/ claimed = {})
  BY <1>3 DEF BeforeClaim, Single
<1> QED
  BY <1>1, <1>2, <1>4, NamesDiffer, EndsWithoutClaim

(* The claim is in effect and its conversions begin, or the call throws.    *)
LEMMA RewardsSubmitClaim ==
  ASSUME RewardsInv, Rewards!SubmitClaim
  PROVE  RewardsInv'
<1>1. awaits = FromClaim /\ BeforeClaim /\ Tail(awaits) = FromConvert
  BY AwaitsTell, NextAwaits DEF Rewards!SubmitClaim, Rewards!At, Rewards!Idle
<1>2. /\ ending = "none" /\ call.method \in ClaimMethods /\ effects = {}
      /\ claimed \subseteq Rewards!Tokens /\ left = Rewards!ToConvert(claimed)
  BY <1>1, NextAwaits DEF BeforeClaim
<1>3. /\ UNCHANGED <<call, claimed, left>>
      /\ \/ effects' = {"claim"} /\ awaits' = Tail(awaits) /\ UNCHANGED ending
         \/ effects' \in {{}, {"claim"}} /\ awaits' = <<>> /\ ending' = "thrown"
  BY <1>2, NamesDiffer DEF Rewards!SubmitClaim, Rewards!Accepted, Rewards!Rejected,
     Rewards!Passes, Rewards!Fails, Rewards!Ends
<1>4. CallTyped' /\ Rewards!ToConvert(claimed)' = Rewards!ToConvert(claimed)
  BY <1>3 DEF RewardsInv, CallTyped, Rewards!ToConvert
<1>5. effects' \cap Rewards!Tokens = {}
  BY <1>3, NamesDiffer
<1>6. CASE effects' = {"claim"} /\ awaits' = Tail(awaits) /\ UNCHANGED ending
  <2>1. left \subseteq claimed
    BY <1>2 DEF Rewards!ToConvert
  <2> QED
    BY <1>1, <1>2, <1>3, <1>4, <1>5, <1>6, <2>1 DEF RewardsInv, Converting
<1>7. CASE effects' \in {{}, {"claim"}} /\ awaits' = <<>> /\ ending' = "thrown"
  BY <1>4, <1>5, <1>7 DEF RewardsInv, Ended, Rewards!ReturnedIsInEffect
<1> QED
  BY <1>3, <1>6, <1>7

(* A single transaction is no claim.                                        *)
LEMMA RewardsSubmitSingle ==
  ASSUME RewardsInv, Rewards!SubmitSingle
  PROVE  RewardsInv'
<1>1. Single
  BY AwaitsTell DEF Rewards!SubmitSingle, Rewards!At, Rewards!Idle
<1>2. /\ UNCHANGED <<call, claimed>> /\ awaits' = <<>>
      /\ effects' \in {{}, {call.method}}
  BY <1>1 DEF Rewards!SubmitSingle, Rewards!Accepted, Rewards!Rejected, Rewards!Fails,
              Rewards!Ends, Single
<1>3. CallTyped'
  BY <1>2 DEF RewardsInv, CallTyped
<1>4. effects' \cap Rewards!Tokens = {} /\ "claim" \notin effects' /\ claimed' = {}
  BY <1>1, <1>2, NamesDiffer DEF Single
<1> QED
  BY <1>2, <1>3, <1>4 DEF RewardsInv, Ended, Rewards!ReturnedIsInEffect, Rewards!IsClaim

(* A conversion that failed is left out with retry and ends the call        *)
(* without.                                                                 *)
LEMMA RewardsConvert ==
  ASSUME RewardsInv, Rewards!Convert
  PROVE  RewardsInv'
<1>1. Converting
  BY AwaitsTell DEF Rewards!Convert, Rewards!At, Rewards!Idle
<1>2. PICK token \in left :
        /\ left' = left \ {token}
        /\ \/ effects' = effects \cup {token} /\ UNCHANGED <<awaits, ending>>
           \/ /\ effects' \in {effects, effects \cup {token}}
              /\ IF call.enableAutoRetry THEN UNCHANGED <<awaits, ending>>
                 ELSE awaits' = <<>> /\ ending' = "thrown"
  BY <1>1, NamesDiffer DEF Rewards!Convert, Rewards!Accepted, Rewards!Rejected, Rewards!GoesOn,
     Rewards!Fails, Rewards!Ends, Converting
<1>3. UNCHANGED <<call, claimed>>
  BY DEF Rewards!Convert
<1>4. CallTyped' /\ Rewards!ToConvert(claimed)' = Rewards!ToConvert(claimed)
  BY <1>3 DEF RewardsInv, CallTyped, Rewards!ToConvert
<1>5. /\ token \in claimed /\ "claim" \in effects' /\ effects' \cap Rewards!Tokens \subseteq claimed
      /\ left' \subseteq claimed
  BY <1>1, <1>2 DEF Converting
<1>6. CASE UNCHANGED <<awaits, ending>>
  <2>1. call.enableAutoRetry \/ Rewards!ToConvert(claimed) \subseteq effects' \cup left'
    BY <1>1, <1>2, <1>6 DEF Converting, FromConvert
  <2> QED
    BY <1>1, <1>3, <1>4, <1>5, <1>6, <2>1 DEF RewardsInv, Converting
<1>7. CASE awaits' = <<>> /\ ending' = "thrown"
  BY <1>3, <1>4, <1>5, <1>7 DEF RewardsInv, Ended, Rewards!ReturnedIsInEffect
<1> QED
  BY <1>2, <1>6, <1>7

(* A call that returns has nothing left to convert.                         *)
LEMMA RewardsReturn ==
  ASSUME RewardsInv, Rewards!Return
  PROVE  RewardsInv'
<1>1. Converting /\ left = {}
  BY AwaitsTell DEF Rewards!Return, Rewards!At, Rewards!Idle
<1>2. UNCHANGED <<call, claimed, effects>> /\ awaits' = <<>>
  BY DEF Rewards!Return, Rewards!Ends
<1>3. CallTyped' /\ Rewards!ToConvert(claimed)' = Rewards!ToConvert(claimed)
  BY <1>2 DEF RewardsInv, CallTyped, Rewards!ToConvert
<1>4. /\ "claim" \in effects' /\ effects' \cap Rewards!Tokens \subseteq claimed'
      /\ call'.enableAutoRetry \/ Rewards!ToConvert(claimed)' \subseteq effects'
  BY <1>1, <1>2, <1>3 DEF Converting
<1> QED
  BY <1>2, <1>3, <1>4 DEF RewardsInv, Ended, Rewards!ReturnedIsInEffect

(* Shares and time do not touch a call.                                     *)
LEMMA RewardsFrame ==
  ASSUME RewardsInv, UNCHANGED <<call, awaits, claimed, left, effects, ending>>
  PROVE  RewardsInv'
<1>1. CallTyped' /\ Rewards!ToConvert(claimed)' = Rewards!ToConvert(claimed)
  BY DEF RewardsInv, CallTyped, Rewards!ToConvert
<1> QED
  BY <1>1 DEF RewardsInv, BeforeClaim, Converting, Single, Ended, Rewards!ReturnedIsInEffect,
              Rewards!IsClaim

(* Every step of the rewards client keeps the invariant.                    *)
LEMMA RewardsInvNext ==
  ASSUME RewardsInv, Rewards!Next
  PROVE  RewardsInv'
<1>1. CASE Rewards!SharesChange \/ Rewards!Tick
  <2>1. UNCHANGED <<call, awaits, claimed, left, effects, ending>>
    BY <1>1 DEF Rewards!SharesChange, Rewards!Tick, Rewards!callVars
  <2> QED
    BY <2>1, RewardsFrame
<1> QED
  BY <1>1, RewardsBegins, RewardsList, RewardsReadPending, RewardsAccount, RewardsReadFails,
     RewardsSubmitClaim, RewardsSubmitSingle, RewardsConvert, RewardsReturn DEF Rewards!Next

(* At first no call was made.                                               *)
LEMMA RewardsInvInit == Rewards!Init => RewardsInv
  BY DEF Rewards!Init, Rewards!NoCall, Rewards!None, RewardsInv, CallTyped, Ended,
         Rewards!ReturnedIsInEffect

(* A call of the rewards client that returned has its claim in effect and,  *)
(* without retry, every conversion it asked for, however its reads and      *)
(* transactions fail on the way.                                            *)
THEOREM ClaimsThatReturnedHold == ClientsSpec => []ReturnedIsInEffect
<1>1. ClientsInit => RewardsInv
  BY RewardsInvInit DEF ClientsInit
<1>2. RewardsInv /\ [ClientsNext]_clientsVars => RewardsInv'
  <2> SUFFICES ASSUME RewardsInv, [ClientsNext]_clientsVars PROVE RewardsInv'
    OBVIOUS
  <2>1. CASE RewardsMove
    BY <2>1, RewardsInvNext DEF RewardsMove
  <2>2. CASE UNCHANGED rewardsVars
    BY <2>2, RewardsFrame DEF rewardsVars
  <2> QED
    BY <2>1, <2>2 DEF ClientsNext, CallsDo, ReadsMove, CalculatorsMove, clientsVars
<1>3. RewardsInv => ReturnedIsInEffect
  BY NamesDiffer DEF RewardsInv, ReturnedIsInEffect, BeforeClaim, Converting, Single, Ended,
     Rewards!ReturnedIsInEffect
<1> QED
  BY <1>1, <1>2, <1>3, PTL DEF ClientsSpec

-----------------------------------------------------------------------------
(* The calculators.                                                        *)

(* What they are given: numbers up to a bound.                              *)
ArgsTyped == args \in [1..4 -> 0..MaxArg]

(* The scales of the calculators.                                           *)
LEMMA Scales ==
  /\ MaxArg \in Nat /\ Decimals \in Nat
  /\ Bp \in Nat \ {0} /\ Kilo \in Nat \ {0} /\ Base \in Nat \ {0}
  BY InstanceAssumption DEF Calc!CalculatorsAssumption

(* The arguments are numbers.                                               *)
LEMMA ArgsAreNumbers ==
  ASSUME ArgsTyped
  PROVE  \A k \in 1..4 : args[k] \in Nat /\ args[k] <= MaxArg
  BY Scales DEF ArgsTyped

(* They stay so.                                                            *)
LEMMA ArgsStart == Calc!Init => ArgsTyped
<1> SUFFICES ASSUME Calc!Init PROVE ArgsTyped
  OBVIOUS
<1>1. args = <<0, 0, 0, 0>> /\ 0 \in 0..MaxArg
  BY Scales DEF Calc!Init
<1>2. DOMAIN args = 1..4 /\ \A k \in 1..4 : args[k] = 0
  BY <1>1
<1>3. args = [k \in 1..4 |-> args[k]]
  BY <1>1
<1> QED
  BY <1>1, <1>2, <1>3 DEF ArgsTyped

(* A caller varies one at a time.                                           *)
LEMMA ArgsNext == ArgsTyped /\ Calc!Next => ArgsTyped'
  BY DEF ArgsTyped, Calc!Next, Calc!Vary

(* A quotient is the largest that fits.                                     *)
LEMMA QuotientFits ==
  ASSUME NEW x \in Nat, NEW y \in Nat \ {0}
  PROVE  x \div y \in Nat /\ (x \div y) * y <= x /\ x < (x \div y) * y + y
  BY Z3

(* Products of numbers are numbers, and grow with their factors.            *)
LEMMA ProductsGrow ==
  ASSUME NEW x \in Nat, NEW y \in Nat, x <= y, NEW z \in Nat
  PROVE  x * z \in Nat /\ y * z \in Nat /\ x * z <= y * z /\ z * x = x * z /\ z * y = y * z
  BY Z3

(* What is smaller by a factor is smaller.                                  *)
LEMMA FactorsCancel ==
  ASSUME NEW x \in Int, NEW y \in Int, NEW z \in Nat \ {0}
  PROVE  /\ x * z <= y * z => x <= y
         /\ x * z < y * z => x < y
         /\ x * z < y * z + z => x <= y
  BY Z3

(* A quotient is no more than what its product fits in.                     *)
LEMMA QuotientAtMost ==
  ASSUME NEW x \in Nat, NEW y \in Nat \ {0}, NEW z \in Nat, x <= z * y
  PROVE  x \div y <= z
<1> DEFINE q == x \div y
<1>1. q \in Nat /\ q * y <= x
  BY QuotientFits
<1> HIDE DEF q
<1>2. q * y <= z * y
  <2>1. q * y \in Nat /\ z * y \in Nat
    BY <1>1, Z3
  <2> QED
    BY <1>1, <2>1
<1>3. q <= z
  BY <1>1, <1>2, FactorsCancel
<1> QED
  BY <1>3 DEF q

(* And no less than what fits.                                              *)
LEMMA QuotientAtLeast ==
  ASSUME NEW x \in Nat, NEW y \in Nat \ {0}, NEW z \in Nat, z * y <= x
  PROVE  z <= x \div y
<1> DEFINE q == x \div y
<1>1. q \in Nat /\ x < q * y + y
  BY QuotientFits
<1> HIDE DEF q
<1>2. z * y < q * y + y
  <2>1. q * y \in Nat /\ z * y \in Nat
    BY <1>1, Z3
  <2> QED
    BY <1>1, <2>1
<1>3. z <= q
  BY <1>1, <1>2, FactorsCancel
<1> QED
  BY <1>3 DEF q

(* Votes and powers are worked out alike, and both caps on the boost are a  *)
(* quarter, however long the lock.                                          *)
LEMMA ClientsMirror == ArgsTyped => Calc!ClientMirrorsContract
<1> DEFINE a == args[1]
           b == args[2]
           c == args[3]
           d == args[4]
<1> SUFFICES ASSUME ArgsTyped PROVE Calc!ClientMirrorsContract
  OBVIOUS
<1>1. a \in Nat /\ b \in Nat /\ c \in Nat /\ d \in Nat /\ b <= MaxArg /\ MaxArg \in Nat
  BY ArgsAreNumbers, Scales
<1> HIDE DEF a, b, c, d
<1>2. Calc!hasProposalPassed(a, b, c, d) = Calc!has_passed(a, b, c, d)
  BY DEF Calc!hasProposalPassed, Calc!has_passed, Calc!has_quorum, Calc!Quorum
<1>3. Calc!calculateVotingPower(a, b, c, d + 1) = Calc!get_voting_power(a, b, c, d + 1)
  <2>1. CASE b <= c
    BY <2>1 DEF Calc!calculateVotingPower, Calc!get_voting_power
  <2>2. CASE ~(b <= c) /\ a = 0
    <3>1. (a * (b - c)) \div (d + 1) = 0
      <4>1. a * (b - c) = 0
        BY <1>1, <2>2
      <4>2. 0 \div (d + 1) = 0
        BY <1>1, Z3
      <4> QED
        BY <4>1, <4>2
    <3> QED
      BY <2>2, <3>1 DEF Calc!calculateVotingPower, Calc!get_voting_power
  <2>3. CASE ~(b <= c) /\ a # 0
    BY <2>3 DEF Calc!calculateVotingPower, Calc!get_voting_power
  <2> QED
    BY <2>1, <2>2, <2>3
<1>4. Calc!getTimeUntilExpiry(b, c) = 0
        <=> \A n \in 1..MaxArg : Calc!get_voting_power(n, b, c, 1) = 0
  <2>1. CASE b <= c
    BY <1>1, <2>1 DEF Calc!getTimeUntilExpiry, Calc!MostOf, Calc!get_voting_power
  <2>2. CASE c < b
    <3>1. 1 \in 1..MaxArg /\ Calc!getTimeUntilExpiry(b, c) # 0
      BY <1>1, <2>2 DEF Calc!getTimeUntilExpiry, Calc!MostOf
    <3>2. Calc!get_voting_power(1, b, c, 1) = (1 * (b - c)) \div 1
      BY <1>1, <2>2 DEF Calc!get_voting_power
    <3>3. (1 * (b - c)) \div 1 # 0
      BY <1>1, <2>2, Z3
    <3> QED
      BY <3>1, <3>2, <3>3
  <2> QED
    BY <1>1, <2>1, <2>2
<1>5. ASSUME a > 0
      PROVE  Calc!calculateBoostMultiplier(b, c + 1) >= Calc!get_boost_multiplier(a, b, c + 1)
  <2> DEFINE share == ((((b * Bp) \div (c + 1)) * 15) \div 100)
             cap   == Bp \div 4
             capped == (a * cap) \div Bp
             boosted == Calc!LeastOf((a * (Bp + share)) \div Bp, capped)
  <2>1. Bp \in Nat \ {0} /\ cap \in Nat /\ cap <= Bp
    BY Scales, Z3
  <2>2. share \in Nat
    <3>1. b * Bp \in Nat
      BY <1>1, <2>1, Z3
    <3>2. (b * Bp) \div (c + 1) \in Nat
      BY <1>1, <3>1, QuotientFits
    <3> QED
      BY <3>2, QuotientFits
  <2> HIDE DEF share, cap
  <2>3. Calc!calculateBoostMultiplier(b, c + 1) = cap
    BY <2>1, <2>2 DEF Calc!calculateBoostMultiplier, Calc!LeastOf, share, cap
  <2>4. Calc!get_boost_multiplier(a, b, c + 1) = (boosted * Bp) \div a
    BY <1>1, <1>5 DEF Calc!get_boost_multiplier, share, cap
  <2>5. a * cap \in Nat /\ a * (Bp + share) \in Nat
    BY <1>1, <2>1, <2>2, Z3
  <2>6. capped \in Nat /\ capped * Bp <= a * cap
    BY <2>1, <2>5, QuotientFits
  <2>7. boosted \in Nat /\ boosted <= capped
    <3>1. (a * (Bp + share)) \div Bp \in Nat
      BY <2>1, <2>5, QuotientFits
    <3> HIDE DEF capped
    <3> QED
      BY <2>6, <3>1 DEF Calc!LeastOf
  <2> HIDE DEF boosted, capped
  <2>8. boosted * Bp \in Nat /\ boosted * Bp <= cap * a
    BY <1>1, <2>1, <2>5, <2>6, <2>7, ProductsGrow
  <2>9. (boosted * Bp) \div a <= cap
    BY <1>1, <1>5, <2>1, <2>8, QuotientAtMost
  <2>10. (boosted * Bp) \div a \in Nat
    BY <1>1, <1>5, <2>8, QuotientFits
  <2> QED
    BY <2>1, <2>3, <2>4, <2>9, <2>10
<1> QED
  BY <1>2, <1>3, <1>4, <1>5 DEF Calc!ClientMirrorsContract, a, b, c, d

(* One step of Newton's method.                                             *)
Halved(n, x) == (x + n \div x) \div 2

(* It stays above the root, and where it does not descend the root is       *)
(* reached.                                                                 *)
LEMMA HalvingApproaches ==
  ASSUME NEW n \in Nat \ {0}, NEW x \in 1..n
  PROVE  /\ Halved(n, x) \in Nat \ {0}
         /\ \A s \in Nat : s * s <= n => s <= Halved(n, x)
         /\ ~(Halved(n, x) < x) => x * x <= n
<1> DEFINE q == n \div x
           h == Halved(n, x)
<1>1. q \in Nat /\ q * x <= n /\ n < q * x + x
  BY QuotientFits
<1>2. h \in Nat /\ h * 2 <= x + q /\ x + q < h * 2 + 2
  <2>1. h = (x + q) \div 2
    BY DEF Halved
  <2> HIDE DEF q, h
  <2>2. x + q \in Nat
    BY <1>1
  <2> QED
    BY <2>1, <2>2, QuotientFits
<1> HIDE DEF q, h
<1>3. x \in Nat \ {0} /\ n \in Nat /\ q * x \in Nat
  BY <1>1, Z3
<1>4. ASSUME NEW s \in Nat, s * s <= n PROVE s <= h
  <2>1. SUFFICES ASSUME h < s PROVE FALSE
    BY <1>2
  <2>2. q + 1 <= 2 * s - x
    BY <1>1, <1>2, <1>3, <2>1
  <2>3. (q + 1) * x <= (2 * s - x) * x
    BY <1>1, <1>3, <2>2, Z3
  <2>4. (q + 1) * x = q * x + x
    BY <1>1, <1>3, Z3
  <2>5. (2 * s - x) * x = s * s - (s - x) * (s - x)
    BY <1>3, Z3
  <2>6. (s - x) * (s - x) >= 0 /\ (s - x) * (s - x) \in Int /\ s * s \in Nat
    BY <1>3, Z3
  <2>7. s * s < (2 * s - x) * x
    <3>1. (2 * s - x) * x \in Int
      BY <1>3, Z3
    <3> QED
      BY <1>1, <1>3, <1>4, <2>3, <2>4, <2>6, <3>1
  <2> QED
    BY <2>5, <2>6, <2>7
<1>5. h # 0
  <2>1. 1 * 1 <= n
    BY <1>3
  <2> QED
    BY <1>4, <2>1, <1>2
<1>6. ASSUME ~(h < x) PROVE x * x <= n
  <2>1. x <= q
    BY <1>1, <1>2, <1>3, <1>6
  <2>2. x * x \in Nat /\ x * x <= q * x
    BY <1>1, <1>3, <2>1, Z3
  <2> QED
    BY <1>1, <1>3, <2>2
<1> QED
  BY <1>2, <1>4, <1>5, <1>6 DEF h

(* The roots that bigintSqrt descends to, named so that lemmas can speak of *)
(* them.                                                                    *)
IsRooting(n, g) ==
  g = [x \in 1..n |-> LET y == (x + n \div x) \div 2 IN IF y < x THEN g[y] ELSE x]

Rooting(n) == CHOOSE g : IsRooting(n, g)

(* The descent from every beginning ends.                                   *)
LEMMA RootingExists ==
  ASSUME NEW n \in Nat \ {0}
  PROVE  \E g : IsRooting(n, g)
<1> DEFINE From(g, x) == IF Halved(n, x) < x THEN g[Halved(n, x)] ELSE x
           Has(k) == \E g : /\ DOMAIN g = 1..k /\ g = [x \in 1..k |-> g[x]]
                            /\ \A x \in 1..k : g[x] = From(g, x)
           U == {k \in 0..n : ~Has(k)}
<1>1. U = {}
  <2>1. SUFFICES ASSUME U # {} PROVE FALSE
    OBVIOUS
  <2>2. PICK m \in U : \A k \in U : m <= k
    <3>1. U \subseteq Nat
      OBVIOUS
    <3> HIDE DEF U
    <3> QED
      BY <2>1, <3>1, NatMinimum
  <2>3. Has(0)
    <3> DEFINE g0 == [x \in 1..0 |-> 0]
    <3>1. DOMAIN g0 = 1..0 /\ g0 = [x \in 1..0 |-> g0[x]] /\ \A x \in 1..0 : FALSE
      OBVIOUS
    <3> HIDE DEF g0
    <3> QED
      BY <3>1
  <2>4. m \in 1..n /\ m - 1 \in 0..n /\ Has(m - 1)
    <3>1. m \in 0..n /\ ~Has(m)
      OBVIOUS
    <3>2. \A k \in 0..n : ~Has(k) => m <= k
      BY <2>2
    <3> HIDE DEF Has, U
    <3>3. m # 0
      BY <2>3, <3>1
    <3>4. m \in 1..n /\ m - 1 \in 0..n /\ ~(m <= m - 1)
      BY <3>1, <3>3
    <3> QED
      BY <3>2, <3>4
  <2>5. PICK g : /\ DOMAIN g = 1..(m - 1) /\ g = [x \in 1..(m - 1) |-> g[x]]
                 /\ \A x \in 1..(m - 1) : g[x] = From(g, x)
    BY <2>4
  <2> DEFINE f == [x \in 1..m |-> IF x = m THEN From(g, m) ELSE g[x]]
  <2>6. DOMAIN f = 1..m /\ f = [x \in 1..m |-> f[x]]
    OBVIOUS
  <2>7. f[m] = From(g, m) /\ \A x \in 1..(m - 1) : f[x] = g[x]
    BY <2>4
  <2> HIDE DEF f
  <2>8. ASSUME NEW x \in 1..m PROVE f[x] = From(f, x)
    <3> DEFINE y == Halved(n, x)
    <3>1. x \in 1..n /\ x \in Nat
      BY <2>4
    <3>2. y \in Nat \ {0}
      BY <3>1, HalvingApproaches
    <3>3. y < x => y \in 1..(m - 1)
      <4> HIDE DEF y
      <4> QED
        BY <2>4, <3>1, <3>2
    <3>4. y < x => f[y] = g[y]
      BY <2>7, <3>3
    <3>5. f[x] = From(g, x)
      <4>1. CASE x = m
        BY <2>7, <4>1
      <4>2. CASE x # m
        <5>1. x \in 1..(m - 1)
          BY <2>4, <4>2
        <5> QED
          BY <2>5, <2>7, <5>1
      <4> QED
        BY <4>1, <4>2
    <3> QED
      BY <3>4, <3>5
  <2>9. Has(m)
    BY <2>6, <2>8
  <2> QED
    BY <2>9
<1>2. Has(n)
  <2>1. n \in 0..n
    OBVIOUS
  <2> HIDE DEF Has
  <2> QED
    BY <1>1, <2>1
<1>3. PICK g : /\ DOMAIN g = 1..n /\ g = [x \in 1..n |-> g[x]]
               /\ \A x \in 1..n : g[x] = From(g, x)
  BY <1>2
<1>4. g = [x \in 1..n |-> From(g, x)]
  <2> HIDE DEF From
  <2> QED
    BY <1>3
<1>5. IsRooting(n, g)
  BY <1>4 DEF IsRooting, Halved
<1> QED
  BY <1>5

(* What it is, step by step.                                                *)
LEMMA RootingDescends ==
  ASSUME NEW n \in Nat \ {0}
  PROVE  /\ Calc!bigintSqrt(n) = Rooting(n)[n]
         /\ \A x \in 1..n :
              Rooting(n)[x] = IF Halved(n, x) < x THEN Rooting(n)[Halved(n, x)] ELSE x
<1> DEFINE g == Rooting(n)
           From(f, x) == IF Halved(n, x) < x THEN f[Halved(n, x)] ELSE x
<1>1. IsRooting(n, g)
  BY RootingExists DEF Rooting
<1>2. Calc!bigintSqrt(n) = g[n]
  BY DEF Calc!bigintSqrt, Rooting, IsRooting
<1> HIDE DEF g
<1>3. g = [x \in 1..n |-> From(g, x)]
  BY <1>1 DEF IsRooting, Halved
<1>4. \A x \in 1..n : g[x] = From(g, x)
  <2> HIDE DEF From
  <2> QED
    BY <1>3
<1> QED
  BY <1>2, <1>4 DEF g

IsRoot(r, n) == r \in Nat /\ r * r <= n /\ n < (r + 1) * (r + 1)

(* The square root is exact, whatever the number.                           *)
LEMMA RootIsExact ==
  ASSUME NEW n \in Nat
  PROVE  IsRoot(Calc!bigintSqrt(n), n)
<1>1. CASE n = 0
  <2>1. Calc!bigintSqrt(n) = 0
    BY <1>1 DEF Calc!bigintSqrt
  <2> QED
    BY <1>1, <2>1 DEF IsRoot
<1>2. CASE n # 0
  <2> DEFINE g == Rooting(n)
             Above(x) == \A s \in Nat : s * s <= n => s <= x
             U == {x \in 1..n : Above(x) /\ ~IsRoot(g[x], n)}
  <2>1. /\ Calc!bigintSqrt(n) = g[n]
        /\ \A x \in 1..n : g[x] = IF Halved(n, x) < x THEN g[Halved(n, x)] ELSE x
    BY <1>2, RootingDescends
  <2> HIDE DEF g
  <2>2. U = {}
    <3>1. SUFFICES ASSUME U # {} PROVE FALSE
      OBVIOUS
    <3>2. PICK m \in U : \A k \in U : m <= k
      <4>1. U \subseteq Nat
        OBVIOUS
      <4> HIDE DEF U
      <4> QED
        BY <3>1, <4>1, NatMinimum
    <3>3. m \in 1..n /\ Above(m) /\ ~IsRoot(g[m], n)
      OBVIOUS
    <3>4. \A k \in 1..n : Above(k) /\ ~IsRoot(g[k], n) => m <= k
      BY <3>2
    <3> HIDE DEF U
    <3> DEFINE h == Halved(n, m)
    <3>5. h \in Nat \ {0} /\ Above(h) /\ (~(h < m) => m * m <= n)
      BY <1>2, <3>3, HalvingApproaches
    <3>6. g[m] = IF h < m THEN g[h] ELSE m
      BY <2>1, <3>3
    <3> HIDE DEF h
    <3>7. CASE h < m
      <4>1. h \in 1..n /\ ~(m <= h)
        BY <3>3, <3>5, <3>7
      <4>2. IsRoot(g[h], n)
        <5> HIDE DEF Above
        <5> QED
          BY <3>4, <3>5, <4>1
      <4> QED
        BY <3>3, <3>6, <3>7, <4>2
    <3>8. CASE ~(h < m)
      <4>1. g[m] = m /\ m \in Nat
        BY <3>3, <3>6, <3>8
      <4>2. ~((m + 1) * (m + 1) <= n)
        <5>1. m + 1 \in Nat /\ ~(m + 1 <= m)
          BY <4>1
        <5> QED
          BY <3>3, <5>1
      <4>3. (m + 1) * (m + 1) \in Nat
        BY <4>1, Z3
      <4>4. n < (m + 1) * (m + 1)
        BY <4>2, <4>3
      <4> QED
        BY <3>3, <3>5, <3>8, <4>1, <4>4 DEF IsRoot
    <3> QED
      BY <3>5, <3>7, <3>8
  <2>3. n \in 1..n /\ Above(n)
    <3>1. ASSUME NEW s \in Nat, s * s <= n PROVE s <= n
      <4>1. s <= s * s /\ s * s \in Nat
        BY Z3
      <4> QED
        BY <3>1, <4>1
    <3> QED
      BY <1>2, <3>1
  <2>4. IsRoot(g[n], n)
    <3> HIDE DEF Above
    <3> QED
      BY <2>2, <2>3
  <2> QED
    BY <2>1, <2>4
<1> QED
  BY <1>1, <1>2

(* The root of what is no less is no less.                                  *)
LEMMA RootsGrow ==
  ASSUME NEW m \in Nat, NEW n \in Nat, m <= n
  PROVE  Calc!bigintSqrt(m) <= Calc!bigintSqrt(n)
<1> DEFINE r == Calc!bigintSqrt(m)
           s == Calc!bigintSqrt(n)
<1>1. r \in Nat /\ s \in Nat /\ r * r <= m /\ n < (s + 1) * (s + 1)
  BY RootIsExact DEF IsRoot
<1> HIDE DEF r, s
<1>2. SUFFICES ASSUME s < r PROVE FALSE
  BY <1>1 DEF r, s
<1>3. (s + 1) * (s + 1) <= r * r /\ r * r \in Nat /\ (s + 1) * (s + 1) \in Nat
  BY <1>1, <1>2, Z3
<1> QED
  BY <1>1, <1>3

(* Quotients grow with what is divided.                                     *)
LEMMA QuotientsGrow ==
  ASSUME NEW x \in Nat, NEW y \in Nat, x <= y, NEW z \in Nat \ {0}
  PROVE  x \div z <= y \div z
<1> DEFINE q == x \div z
<1>1. q \in Nat /\ q * z <= x
  BY QuotientFits
<1> HIDE DEF q
<1>2. q * z <= y
  <2>1. q * z \in Nat
    BY <1>1, Z3
  <2> QED
    BY <1>1, <2>1
<1>3. q <= y \div z
  BY <1>1, <1>2, QuotientAtLeast
<1> QED
  BY <1>3 DEF q

(* The more is subtracted, the less is paid.                                *)
LEMMA PayoutsShrink ==
  ASSUME NEW coverage \in Nat, NEW less \in Nat, NEW more \in Nat, less <= more
  PROVE  Calc!Payout(coverage, more) <= Calc!Payout(coverage, less)
<1> DEFINE m == Calc!Million
<1>1. m \in Nat \ {0}
  <2>1. Kilo \in Nat \ {0}
    BY Scales
  <2> QED
    BY <2>1, Z3 DEF Calc!Million
<1> HIDE DEF m
<1>2. \A x \in Nat : Calc!Payout(coverage, x) =
        IF x >= m THEN 0 ELSE (coverage * (m - x)) \div m
  BY DEF Calc!Payout, m
<1>3. CASE more >= m
  <2>1. Calc!Payout(coverage, more) = 0
    BY <1>2, <1>3
  <2>2. Calc!Payout(coverage, less) \in Nat
    <3>1. CASE less >= m
      BY <1>2, <3>1
    <3>2. CASE ~(less >= m)
      <4>1. coverage * (m - less) \in Nat
        <5>1. m - less \in Nat
          BY <1>1, <3>2
        <5> QED
          BY <5>1, Z3
      <4> QED
        BY <1>1, <1>2, <3>2, <4>1, QuotientFits
    <3> QED
      BY <3>1, <3>2
  <2> QED
    BY <2>1, <2>2
<1>4. CASE ~(more >= m)
  <2>1. m - more \in Nat /\ m - less \in Nat /\ m - more <= m - less /\ ~(less >= m)
    BY <1>1, <1>4
  <2>2. /\ coverage * (m - more) \in Nat /\ coverage * (m - less) \in Nat
        /\ coverage * (m - more) <= coverage * (m - less)
    BY <2>1, ProductsGrow
  <2>3. (coverage * (m - more)) \div m <= (coverage * (m - less)) \div m
    BY <1>1, <2>2, QuotientsGrow
  <2> QED
    BY <1>2, <1>4, <2>1, <2>3
<1> QED
  BY <1>3, <1>4

(* The client takes the root of a larger number, so that it subtracts more. *)
LEMMA EstimatesAreLow == ArgsTyped => Calc!EstimateNotAbovePayout
<1> DEFINE coverage == args[1]
           start == args[2]
           current == args[3]
<1> SUFFICES ASSUME ArgsTyped, start > 0
             PROVE  Calc!getClaimableAmount(coverage, start, current)
                      <= Calc!claim_il_protection(coverage, start, current)
  BY DEF Calc!EstimateNotAbovePayout
<1>1. coverage \in Nat /\ start \in Nat \ {0} /\ current \in Nat
  BY ArgsAreNumbers
<1> HIDE DEF coverage, start, current
<1> DEFINE m == Calc!Million
           r == Calc!PriceRatio(start, current)
           den == Kilo + r \div Kilo
           low == Calc!bigintSqrt(r)
           high == Calc!bigintSqrt(r * m)
<1>2. Kilo \in Nat \ {0} /\ m \in Nat \ {0}
  <2>1. Kilo \in Nat \ {0}
    BY Scales
  <2> QED
    BY <2>1, Z3 DEF Calc!Million
<1>3. /\ Calc!getClaimableAmount(coverage, start, current) =
           Calc!Payout(coverage, (2 * high * m) \div den)
      /\ Calc!claim_il_protection(coverage, start, current) =
           Calc!Payout(coverage, (2 * low * m) \div den)
  BY <1>1 DEF Calc!getClaimableAmount, Calc!claim_il_protection
<1> HIDE DEF m
<1>4. r \in Nat
  <2>1. current * current * m \in Nat /\ start * start \in Nat \ {0}
    BY <1>1, <1>2, Z3
  <2> QED
    BY <2>1, QuotientFits DEF Calc!PriceRatio, m
<1> HIDE DEF r
<1>5. den \in Nat \ {0}
  <2>1. r \div Kilo \in Nat
    BY <1>2, <1>4, QuotientFits
  <2> QED
    BY <1>2, <2>1
<1>6. r * m \in Nat /\ r <= r * m
  BY <1>2, <1>4, Z3
<1>7. low \in Nat /\ high \in Nat /\ low <= high
  BY <1>4, <1>6, RootIsExact, RootsGrow DEF IsRoot
<1> HIDE DEF low, high, den
<1>8. 2 * low * m \in Nat /\ 2 * high * m \in Nat /\ 2 * low * m <= 2 * high * m
  <2>1. 2 * low \in Nat /\ 2 * high \in Nat /\ 2 * low <= 2 * high
    BY <1>7
  <2> QED
    BY <1>2, <2>1, ProductsGrow
<1>9. /\ (2 * low * m) \div den \in Nat /\ (2 * high * m) \div den \in Nat
      /\ (2 * low * m) \div den <= (2 * high * m) \div den
  BY <1>5, <1>8, QuotientFits, QuotientsGrow
<1> QED
  BY <1>1, <1>3, <1>9, PayoutsShrink

(* Three factors that are scaled down one after the other.                  *)
LEMMA ThreeFloors ==
  ASSUME NEW p \in Nat, NEW q \in Nat, NEW r \in Nat, NEW s \in Nat
  PROVE  LET w == (((((p * q) \div Bp) * r) \div Bp) * s) \div Bp
         IN w \in Nat /\ w * Bp * Bp * Bp <= p * q * r * s
<1> DEFINE u == (p * q) \div Bp
           v == (u * r) \div Bp
           w == (v * s) \div Bp
<1>0. Bp \in Nat \ {0} /\ Bp \in Nat
  BY Scales
<1>1. p * q \in Nat
  BY Z3
<1>2. u \in Nat /\ u * Bp <= p * q
  BY <1>0, <1>1, QuotientFits
<1> HIDE DEF u
<1>3. u * r \in Nat
  BY <1>2, Z3
<1>4. v \in Nat /\ v * Bp <= u * r
  BY <1>0, <1>3, QuotientFits
<1> HIDE DEF v
<1>5. v * s \in Nat
  BY <1>4, Z3
<1>6. w \in Nat /\ w * Bp <= v * s
  BY <1>0, <1>5, QuotientFits
<1> HIDE DEF w
<1>7. w * Bp * Bp * Bp <= v * s * Bp * Bp
  <2>1. w * Bp \in Nat
    BY <1>0, <1>6, Z3
  <2>2. w * Bp * Bp \in Nat /\ v * s * Bp \in Nat /\ w * Bp * Bp <= v * s * Bp
    BY <1>0, <1>5, <1>6, <2>1, ProductsGrow
  <2> QED
    BY <1>0, <2>2, ProductsGrow
<1>8. v * s * Bp * Bp <= u * r * s * Bp
  <2>1. v * Bp \in Nat /\ s * Bp \in Nat
    BY <1>0, <1>4, Z3
  <2>2. (v * Bp) * (s * Bp) <= (u * r) * (s * Bp)
    BY <1>3, <1>4, <2>1, ProductsGrow
  <2>3. (v * Bp) * (s * Bp) = v * s * Bp * Bp /\ (u * r) * (s * Bp) = u * r * s * Bp
    BY <1>0, <1>2, <1>4, Z3
  <2> QED
    BY <2>2, <2>3
<1>9. u * r * s * Bp <= p * q * r * s
  <2>1. u * Bp \in Nat /\ r * s \in Nat
    BY <1>0, <1>2, Z3
  <2>2. (u * Bp) * (r * s) <= (p * q) * (r * s)
    BY <1>1, <1>2, <2>1, ProductsGrow
  <2>3. (u * Bp) * (r * s) = u * r * s * Bp /\ (p * q) * (r * s) = p * q * r * s
    BY <1>0, <1>2, Z3
  <2> QED
    BY <2>2, <2>3
<1>10. /\ w * Bp * Bp * Bp \in Int /\ v * s * Bp * Bp \in Int /\ u * r * s * Bp \in Int
       /\ p * q * r * s \in Int
  BY <1>0, <1>2, <1>4, <1>6, Z3
<1>11. w * Bp * Bp * Bp <= p * q * r * s
  <2> DEFINE w1 == w * Bp * Bp * Bp
             w2 == v * s * Bp * Bp
             w3 == u * r * s * Bp
             w4 == p * q * r * s
  <2> HIDE DEF w1, w2, w3, w4
  <2>1. w1 <= w2 /\ w2 <= w3 /\ w3 <= w4
    BY <1>7, <1>8, <1>9 DEF w1, w2, w3, w4
  <2>2. w1 \in Int /\ w2 \in Int /\ w3 \in Int /\ w4 \in Int
    BY <1>10 DEF w1, w2, w3, w4
  <2>3. w1 <= w4
    BY <2>1, <2>2
  <2> QED
    BY <2>3 DEF w1, w4
<1> QED
  BY <1>6, <1>11 DEF u, v, w

(* Rounded down at every step, fees are at most what they would be exactly. *)
LEMMA FeesAreLow ==
  ASSUME NEW n \in Nat, NEW a \in Nat, NEW b \in Nat, NEW c \in Nat, NEW d \in Nat
  PROVE  Calc!estimateFeeRevenue(n, a, b, c, d) * Bp * Bp * Bp * 10
           <= n * a * (20 * b * c + Bp * Bp + 10 * c * Bp)
<1> DEFINE cube == Bp * Bp * Bp
           whole == n * b * c * a
           p1 == (((((n * b) \div Bp) * c) \div Bp) * a) \div Bp
           p2 == (((n * 10) \div 100) * a) \div Bp
           p3 == ((n * a * c) \div Bp) \div Bp
           p4 == IF b > d THEN (((((n * (b - d)) \div Bp) * c) \div Bp) * a) \div Bp ELSE 0
<1>0. Bp \in Nat \ {0} /\ Bp \in Nat
  BY Scales
<1>1. Calc!estimateFeeRevenue(n, a, b, c, d) = p1 + p2 + p3 + p4
  BY DEF Calc!estimateFeeRevenue
<1>2. cube \in Nat /\ whole \in Nat
  BY <1>0, Z3
<1>3. p1 \in Nat /\ p1 * cube <= whole
  <2>1. p1 \in Nat /\ p1 * Bp * Bp * Bp <= n * b * c * a
    BY ThreeFloors
  <2> HIDE DEF p1
  <2>2. p1 * Bp * Bp * Bp = p1 * cube
    BY <1>0, <2>1, Z3
  <2> QED
    BY <2>1, <2>2
<1>4. p4 \in Nat /\ p4 * cube <= whole
  <2>1. CASE b > d
    <3> DEFINE w == (((((n * (b - d)) \div Bp) * c) \div Bp) * a) \div Bp
    <3>1. b - d \in Nat /\ b - d <= b
      BY <2>1
    <3>2. w \in Nat /\ w * Bp * Bp * Bp <= n * (b - d) * c * a
      BY <3>1, ThreeFloors
    <3> HIDE DEF w
    <3>3. w * Bp * Bp * Bp = w * cube
      BY <1>0, <3>2, Z3
    <3>4. n * (b - d) * c * a <= whole /\ n * (b - d) * c * a \in Int
      <4> DEFINE x == b - d
      <4>1. x \in Nat /\ x <= b
        BY <3>1
      <4> HIDE DEF x
      <4>2. n * c * a \in Nat
        BY Z3
      <4>3. x * (n * c * a) <= b * (n * c * a)
        BY <4>1, <4>2, ProductsGrow
      <4>4. x * (n * c * a) = n * x * c * a /\ b * (n * c * a) = n * b * c * a
        BY <4>1, Z3
      <4>5. n * x * c * a \in Int
        BY <4>1, Z3
      <4> QED
        BY <4>3, <4>4, <4>5 DEF x
    <3>5. w * cube \in Int
      BY <1>2, <3>2, Z3
    <3>6. w * cube <= whole
      <4> HIDE DEF cube, whole
      <4> DEFINE y == n * (b - d) * c * a
                 z == w * cube
      <4>1. z <= y /\ y <= whole /\ y \in Int /\ z \in Int
        BY <3>2, <3>3, <3>4, <3>5
      <4> HIDE DEF y, z
      <4>2. z <= whole
        BY <1>2, <4>1
      <4> QED
        BY <4>2 DEF z
    <3>7. p4 = w
      BY <2>1 DEF w
    <3> HIDE DEF p4
    <3> QED
      BY <3>2, <3>6, <3>7
  <2>2. CASE ~(b > d)
    <3>1. p4 = 0 /\ 0 * cube = 0
      BY <1>2, <2>2, Z3
    <3> HIDE DEF p4, cube, whole
    <3> QED
      BY <1>2, <3>1
  <2> QED
    BY <2>1, <2>2
<1>5. p2 \in Nat /\ p2 * cube * 10 <= n * a * (Bp * Bp)
  <2> DEFINE t == (n * 10) \div 100
  <2>1. t \in Nat /\ t * 100 <= n * 10
    BY QuotientFits
  <2> HIDE DEF t
  <2>2. t * a \in Nat
    BY <2>1, Z3
  <2>3. p2 \in Nat /\ p2 * Bp <= t * a
    BY <1>0, <2>2, QuotientFits DEF t
  <2> HIDE DEF p2
  <2>4. t * 10 <= n
    BY <2>1
  <2>5. (t * 10) * a <= n * a /\ n * a \in Nat
    BY <2>1, <2>4, ProductsGrow
  <2>6. (p2 * Bp) * 10 <= n * a
    <3>1. p2 * Bp \in Nat /\ (t * 10) * a = (t * a) * 10
      BY <1>0, <2>1, <2>3, Z3
    <3> QED
      BY <2>2, <2>3, <2>5, <3>1
  <2>7. ((p2 * Bp) * 10) * (Bp * Bp) <= (n * a) * (Bp * Bp)
    <3>1. (p2 * Bp) * 10 \in Nat /\ Bp * Bp \in Nat
      BY <1>0, <2>3, Z3
    <3> QED
      BY <2>5, <2>6, <3>1, ProductsGrow
  <2>8. ((p2 * Bp) * 10) * (Bp * Bp) = p2 * cube * 10
    BY <1>0, <2>3, Z3
  <2> QED
    BY <2>3, <2>7, <2>8
<1>6. p3 \in Nat /\ p3 * cube <= n * a * c * Bp
  <2> DEFINE t == (n * a * c) \div Bp
  <2>1. n * a * c \in Nat
    BY Z3
  <2>2. t \in Nat /\ t * Bp <= n * a * c
    BY <1>0, <2>1, QuotientFits
  <2> HIDE DEF t
  <2>3. p3 \in Nat /\ p3 * Bp <= t
    BY <1>0, <2>2, QuotientFits DEF t
  <2> HIDE DEF p3
  <2>4. (p3 * Bp) * (Bp * Bp) <= t * (Bp * Bp)
    <3>1. p3 * Bp \in Nat /\ Bp * Bp \in Nat
      BY <1>0, <2>3, Z3
    <3> QED
      BY <2>2, <2>3, <3>1, ProductsGrow
  <2>5. (t * Bp) * Bp <= (n * a * c) * Bp
    <3>1. t * Bp \in Nat
      BY <1>0, <2>2, Z3
    <3> QED
      BY <1>0, <2>1, <2>2, <3>1, ProductsGrow
  <2>6. (p3 * Bp) * (Bp * Bp) = p3 * cube /\ t * (Bp * Bp) = (t * Bp) * Bp
    BY <1>0, <2>2, <2>3, Z3
  <2>7. p3 * cube \in Int /\ (t * Bp) * Bp \in Int /\ n * a * c * Bp \in Int
    BY <1>0, <2>2, <2>3, Z3
  <2> DEFINE x == p3 * cube
             y == (t * Bp) * Bp
             z == n * a * c * Bp
  <2>8. x <= y /\ y <= z /\ x \in Int /\ y \in Int /\ z \in Int
    BY <2>4, <2>5, <2>6, <2>7
  <2> HIDE DEF x, y, z
  <2>9. x <= z
    BY <2>8
  <2> QED
    BY <2>3, <2>9 DEF x, z
<1> HIDE DEF p1, p2, p3, p4
<1>7. Calc!estimateFeeRevenue(n, a, b, c, d) * Bp * Bp * Bp * 10 =
        (p1 * cube) * 10 + p2 * cube * 10 + (p3 * cube) * 10 + (p4 * cube) * 10
  BY <1>0, <1>1, <1>3, <1>4, <1>5, <1>6, Z3
<1>8. n * a * (20 * b * c + Bp * Bp + 10 * c * Bp) =
        whole * 10 + n * a * (Bp * Bp) + (n * a * c * Bp) * 10 + whole * 10
  BY <1>0, Z3
<1>9. /\ p1 * cube \in Int /\ p2 * cube * 10 \in Int /\ p3 * cube \in Int /\ p4 * cube \in Int
      /\ n * a * (Bp * Bp) \in Int /\ n * a * c * Bp \in Int
  BY <1>0, <1>2, <1>3, <1>4, <1>5, <1>6, Z3
<1> DEFINE q1 == p1 * cube
           q2 == p2 * cube * 10
           q3 == p3 * cube
           q4 == p4 * cube
           r2 == n * a * (Bp * Bp)
           r3 == n * a * c * Bp
<1> HIDE DEF q1, q2, q3, q4, r2, r3, whole
<1>10. /\ q1 \in Int /\ q2 \in Int /\ q3 \in Int /\ q4 \in Int /\ r2 \in Int /\ r3 \in Int
       /\ q1 <= whole /\ q2 <= r2 /\ q3 <= r3 /\ q4 <= whole
  BY <1>3, <1>4, <1>5, <1>6, <1>9 DEF q1, q2, q3, q4, r2, r3
<1>11. q1 * 10 + q2 + q3 * 10 + q4 * 10 <= whole * 10 + r2 + r3 * 10 + whole * 10
  BY <1>2, <1>10
<1> QED
  BY <1>7, <1>8, <1>11 DEF q1, q2, q3, q4, r2, r3, whole

(* Of a deposit the side that is smaller is scaled down.                    *)
LEMMA DepositsFit ==
  ASSUME NEW x \in Nat \ {0}, NEW y \in Nat \ {0}, NEW target \in Nat
  PROVE  LET amounts == Calc!calculateOptimalDeposit(x, y, target)
         IN amounts.amountA <= target /\ amounts.amountB <= target
<1> DEFINE ratio == (x * Bp) \div y
<1>1. Bp \in Nat \ {0} /\ x * Bp \in Nat /\ y * Bp \in Nat
  <2>1. Bp \in Nat \ {0}
    BY Scales
  <2> QED
    BY <2>1, Z3
<1>2. CASE x > y
  <2>1. y * Bp <= x * Bp /\ Bp * y = y * Bp
    BY <1>1, <1>2, ProductsGrow
  <2>2. ratio \in Nat /\ Bp <= ratio
    BY <1>1, <2>1, QuotientAtLeast, QuotientFits
  <2> HIDE DEF ratio
  <2>3. target * Bp \in Nat /\ target * Bp <= target * ratio
    BY <1>1, <2>2, ProductsGrow
  <2>4. (target * Bp) \div ratio <= target
    BY <1>1, <2>2, <2>3, QuotientAtMost
  <2> QED
    BY <1>2, <2>4 DEF Calc!calculateOptimalDeposit, ratio
<1>3. CASE ~(x > y)
  <2>1. x * Bp <= y * Bp /\ Bp * y = y * Bp
    BY <1>1, <1>3, ProductsGrow
  <2>2. ratio \in Nat /\ ratio <= Bp
    BY <1>1, <2>1, QuotientAtMost, QuotientFits
  <2> HIDE DEF ratio
  <2>3. target * ratio \in Nat /\ target * ratio <= target * Bp
    BY <1>1, <2>2, ProductsGrow
  <2>4. (target * ratio) \div Bp <= target
    BY <1>1, <2>3, QuotientAtMost
  <2> QED
    BY <1>3, <2>4 DEF Calc!calculateOptimalDeposit, ratio
<1> QED
  BY <1>2, <1>3

Fraction == [num: Int, den: Nat \ {0}]

AtMost(x, y) == x.num * y.den <= y.num * x.den

(* Fractions are ordered.                                                   *)
LEMMA FractionsOrdered ==
  ASSUME NEW x \in Fraction, NEW y \in Fraction
  PROVE  /\ AtMost(x, y) <=> ~Calc!Below(y, x)
         /\ AtMost(x, y) \/ AtMost(y, x)
<1>1. x.num * y.den \in Int /\ y.num * x.den \in Int
  <2>1. x.num \in Int /\ y.num \in Int /\ x.den \in Int /\ y.den \in Int
    BY DEF Fraction
  <2> QED
    BY <2>1, Z3
<1> QED
  BY <1>1 DEF AtMost, Calc!Below

(* Their order is transitive.                                               *)
LEMMA FractionsTransitive ==
  ASSUME NEW x \in Fraction, NEW y \in Fraction, NEW z \in Fraction, AtMost(x, y), AtMost(y, z)
  PROVE  AtMost(x, z)
<1> DEFINE a == x.num
           b == x.den
           c == y.num
           d == y.den
           e == z.num
           f == z.den
<1>1. /\ a \in Int /\ c \in Int /\ e \in Int
      /\ b \in Nat \ {0} /\ d \in Nat \ {0} /\ f \in Nat \ {0}
      /\ a * d <= c * b /\ c * f <= e * d
  BY DEF Fraction, AtMost
<1> HIDE DEF a, b, c, d, e, f
<1>2. (a * d) * f <= (c * b) * f /\ (c * f) * b <= (e * d) * b
  BY <1>1, Z3
<1>3. /\ (a * d) * f = (a * f) * d /\ (c * b) * f = (c * f) * b /\ (e * d) * b = (e * b) * d
      /\ (a * f) * d \in Int /\ (c * f) * b \in Int /\ (e * b) * d \in Int
      /\ a * f \in Int /\ e * b \in Int
  BY <1>1, Z3
<1>4. (a * f) * d <= (e * b) * d
  <2> DEFINE x1 == (a * f) * d
             x2 == (c * f) * b
             x3 == (e * b) * d
  <2>1. x1 <= x2 /\ x2 <= x3 /\ x1 \in Int /\ x2 \in Int /\ x3 \in Int
    BY <1>2, <1>3
  <2> HIDE DEF x1, x2, x3
  <2>2. x1 <= x3
    BY <2>1
  <2> QED
    BY <2>2 DEF x1, x3
<1>5. a * f <= e * b
  BY <1>1, <1>3, <1>4, FactorsCancel
<1> QED
  BY <1>5 DEF AtMost, a, b, e, f

(* Three places in an order that the fractions in them allow.               *)
LEMMA SortingOf ==
  ASSUME NEW fractions \in [1..3 -> Fraction],
         NEW a \in 1..3, NEW b \in 1..3, NEW c \in 1..3, a # b, b # c, a # c,
         AtMost(fractions[a], fractions[b]), AtMost(fractions[b], fractions[c])
  PROVE  \E o \in [1..3 -> 1..3] : Calc!IsSorting(o, fractions)
<1> DEFINE o == [i \in 1..3 |-> IF i = 1 THEN a ELSE IF i = 2 THEN b ELSE c]
<1>1. o \in [1..3 -> 1..3] /\ o[1] = a /\ o[2] = b /\ o[3] = c
  OBVIOUS
<1> HIDE DEF o
<1>2. AtMost(fractions[a], fractions[c])
  BY FractionsTransitive
<1>3. \A i, j \in 1..3 : i # j => o[i] # o[j]
  BY <1>1
<1>4. ASSUME NEW i \in 1..3, NEW j \in 1..3, i < j
      PROVE  ~Calc!Below(fractions[o[j]], fractions[o[i]])
  <2>1. AtMost(fractions[o[i]], fractions[o[j]])
    <3>1. (i = 1 /\ j = 2) \/ (i = 2 /\ j = 3) \/ (i = 1 /\ j = 3)
      BY <1>4
    <3> QED
      BY <1>1, <1>2, <3>1
  <2>2. fractions[o[i]] \in Fraction /\ fractions[o[j]] \in Fraction
    BY <1>1
  <2> QED
    BY <2>1, <2>2, FractionsOrdered
<1>5. DOMAIN fractions = 1..3
  OBVIOUS
<1>6. Calc!IsSorting(o, fractions)
  BY <1>3, <1>4, <1>5 DEF Calc!IsSorting
<1> QED
  BY <1>1, <1>6

(* Three fractions can be sorted.                                           *)
LEMMA SortingExists ==
  ASSUME NEW fractions \in [1..3 -> Fraction]
  PROVE  \E o \in [1..3 -> 1..3] : Calc!IsSorting(o, fractions)
<1> DEFINE L(i, j) == AtMost(fractions[i], fractions[j])
<1>1. /\ 1 \in 1..3 /\ 2 \in 1..3 /\ 3 \in 1..3
      /\ fractions[1] \in Fraction /\ fractions[2] \in Fraction /\ fractions[3] \in Fraction
  OBVIOUS
<1>2. (L(1, 2) \/ L(2, 1)) /\ (L(2, 3) \/ L(3, 2)) /\ (L(1, 3) \/ L(3, 1))
  BY <1>1, FractionsOrdered
<1> HIDE DEF L
<1>3. \/ L(1, 2) /\ L(2, 3)
      \/ L(1, 3) /\ L(3, 2)
      \/ L(2, 1) /\ L(1, 3)
      \/ L(2, 3) /\ L(3, 1)
      \/ L(3, 1) /\ L(1, 2)
      \/ L(3, 2) /\ L(2, 1)
  BY <1>2
<1>4. ASSUME NEW a \in 1..3, NEW b \in 1..3, NEW c \in 1..3, a # b, b # c, a # c,
             L(a, b) /\ L(b, c)
      PROVE  \E o \in [1..3 -> 1..3] : Calc!IsSorting(o, fractions)
  BY <1>4, SortingOf DEF L
<1> QED
  BY <1>1, <1>3, <1>4

(* So the first of them sorted is one of them, as is the last, and all are  *)
(* between these.                                                           *)
LEMMA SortedIsOrdered ==
  ASSUME NEW fractions \in [1..3 -> Fraction]
  PROVE  LET sorted == Calc!Sorted(fractions)
         IN /\ \E k \in 1..3 : sorted[1] = fractions[k]
            /\ \A k \in 1..3 : AtMost(sorted[1], fractions[k]) /\ AtMost(fractions[k], sorted[3])
<1> DEFINE o == CHOOSE p \in [DOMAIN fractions -> DOMAIN fractions] : Calc!IsSorting(p, fractions)
<1>1. DOMAIN fractions = 1..3
  OBVIOUS
<1>2. o \in [1..3 -> 1..3] /\ Calc!IsSorting(o, fractions)
  BY <1>1, SortingExists
<1>3. Calc!Sorted(fractions) = [i \in 1..3 |-> fractions[o[i]]]
  BY <1>1 DEF Calc!Sorted
<1> HIDE DEF o
<1> DEFINE s == Calc!Sorted(fractions)
<1>4. s[1] = fractions[o[1]] /\ s[3] = fractions[o[3]]
  BY <1>3
<1> HIDE DEF s
<1>5. /\ \A i \in 1..3 : fractions[o[i]] \in Fraction
      /\ o[1] \in 1..3 /\ o[2] \in 1..3 /\ o[3] \in 1..3
      /\ o[1] # o[2] /\ o[2] # o[3] /\ o[1] # o[3]
  BY <1>1, <1>2 DEF Calc!IsSorting
<1>6. ASSUME NEW i \in 1..3, NEW j \in 1..3, i <= j
      PROVE  AtMost(fractions[o[i]], fractions[o[j]])
  <2>1. CASE i = j
    <3>1. AtMost(fractions[o[i]], fractions[o[i]])
      BY <1>5, FractionsOrdered
    <3> QED
      BY <2>1, <3>1
  <2>2. CASE i # j
    <3>1. i < j
      BY <1>6, <2>2
    <3>2. ~Calc!Below(fractions[o[j]], fractions[o[i]])
      BY <1>1, <1>2, <3>1 DEF Calc!IsSorting
    <3> QED
      BY <1>5, <3>2, FractionsOrdered
  <2> QED
    BY <2>1, <2>2
<1>7. ASSUME NEW k \in 1..3
      PROVE  AtMost(s[1], fractions[k]) /\ AtMost(fractions[k], s[3])
  <2>1. PICK i \in 1..3 : k = o[i]
    <3>1. k = o[1] \/ k = o[2] \/ k = o[3]
      BY <1>5
    <3> QED
      BY <3>1
  <2> QED
    BY <1>4, <1>6, <2>1
<1> QED
  BY <1>4, <1>5, <1>7 DEF s

(* The loss of a path is a fraction and not a gain.                         *)
LEMMA LossesAreLosses ==
  ASSUME NEW p \in Nat \ {0}, NEW q \in Nat \ {0}
  PROVE  /\ Calc!calculateImpermanentLoss(p, q) \in Fraction
         /\ Calc!calculateImpermanentLoss(p, q).num <= 0
<1>1. /\ p * p + q * q \in Nat \ {0} /\ 2 * p * q - (p * p + q * q) \in Int
      /\ 2 * p * q - (p * p + q * q) <= 0
  <2>1. (p - q) * (p - q) >= 0 /\ (p - q) * (p - q) = (p * p + q * q) - 2 * p * q
    BY Z3
  <2>2. p * p \in Nat \ {0} /\ q * q \in Nat /\ 2 * p * q \in Nat
    BY Z3
  <2> QED
    BY <2>1, <2>2
<1>2. Calc!calculateImpermanentLoss(p, q) =
        [num |-> 2 * p * q - (p * p + q * q), den |-> p * p + q * q]
  BY DEF Calc!calculateImpermanentLoss
<1> DEFINE x == 2 * p * q - (p * p + q * q)
           y == p * p + q * q
<1> HIDE DEF x, y
<1>3. x \in Int /\ x <= 0 /\ y \in Nat \ {0} /\ Calc!calculateImpermanentLoss(p, q) = [num |-> x, den |-> y]
  BY <1>1, <1>2 DEF x, y
<1> QED
  BY <1>3 DEF Fraction

(* The worst simulated loss is that of a path, and all are between it and   *)
(* the best.                                                                *)
LEMMA SimulatedIsBetween ==
  ASSUME NEW a \in Nat, NEW b \in Nat, NEW c \in Nat, NEW d \in Nat
  PROVE  LET ratio == <<a + 1, b + 1, c + 1>>
             sim == Calc!simulateImpermanentLoss(d + 1, ratio)
         IN /\ \E k \in 1..3 :
                 sim.worstCaseIl = Calc!calculateImpermanentLoss(ratio[k], d + 1)
            /\ \A k \in 1..3 :
                 LET il == Calc!calculateImpermanentLoss(ratio[k], d + 1) IN
                 /\ sim.worstCaseIl.num * il.den <= il.num * sim.worstCaseIl.den
                 /\ il.num <= 0
                 /\ il.num * sim.bestCaseIl.den <= sim.bestCaseIl.num * il.den
<1> DEFINE ratio == <<a + 1, b + 1, c + 1>>
           q == d + 1
           f == Calc!computeHistoricalImpermanentLoss(q, ratio)
           sorted == Calc!Sorted(f)
           sim == Calc!simulateImpermanentLoss(q, ratio)
<1>1. /\ q \in Nat \ {0} /\ DOMAIN ratio = 1..3 /\ Len(ratio) = 3
      /\ \A k \in 1..3 : ratio[k] \in Nat \ {0}
  OBVIOUS
<1>2. sim = [worstCaseIl |-> sorted[1], bestCaseIl |-> sorted[Len(ratio)]]
  BY DEF Calc!simulateImpermanentLoss
<1>3. f = [k \in DOMAIN ratio |-> Calc!calculateImpermanentLoss(ratio[k], q)]
  BY DEF Calc!computeHistoricalImpermanentLoss
<1> HIDE DEF ratio, q, f, sorted
<1>4. /\ f \in [1..3 -> Fraction]
      /\ \A k \in 1..3 : f[k] = Calc!calculateImpermanentLoss(ratio[k], q) /\ f[k].num <= 0
  BY <1>1, <1>3, LossesAreLosses
<1>5. /\ \E k \in 1..3 : sorted[1] = f[k]
      /\ \A k \in 1..3 : AtMost(sorted[1], f[k]) /\ AtMost(f[k], sorted[3])
  BY <1>4, SortedIsOrdered DEF sorted
<1>6. sim.worstCaseIl = sorted[1] /\ sim.bestCaseIl = sorted[3]
  BY <1>1, <1>2
<1> HIDE DEF sim
<1>7. /\ \E k \in 1..3 : sim.worstCaseIl = Calc!calculateImpermanentLoss(ratio[k], q)
      /\ \A k \in 1..3 :
           LET il == Calc!calculateImpermanentLoss(ratio[k], q) IN
           /\ sim.worstCaseIl.num * il.den <= il.num * sim.worstCaseIl.den
           /\ il.num <= 0
           /\ il.num * sim.bestCaseIl.den <= sim.bestCaseIl.num * il.den
  BY <1>4, <1>5, <1>6 DEF AtMost
<1> QED
  BY <1>7 DEF sim, ratio, q

(* What Pow is read from, named so that lemmas can speak of it.             *)
IsPowers(g) == g = [n \in 0..Decimals |-> IF n = 0 THEN 1 ELSE Base * g[n - 1]]

(* There are such powers.                                                   *)
LEMMA PowersExist == \E g : IsPowers(g)
<1> DEFINE Has(k) == \E g \in [0..k -> Nat \ {0}] :
                       g[0] = 1 /\ \A i \in 1..k : g[i] = Base * g[i - 1]
           U == {k \in 0..Decimals : ~Has(k)}
<1>0. Base \in Nat \ {0} /\ Decimals \in Nat
  BY Scales
<1>1. U = {}
  <2>1. SUFFICES ASSUME U # {} PROVE FALSE
    OBVIOUS
  <2>2. PICK m \in U : \A k \in U : m <= k
    <3>1. U \subseteq Nat
      OBVIOUS
    <3> HIDE DEF U
    <3> QED
      BY <2>1, <3>1, NatMinimum
  <2>3. Has(0)
    <3> DEFINE g0 == [i \in 0..0 |-> 1]
    <3>1. g0 \in [0..0 -> Nat \ {0}] /\ g0[0] = 1 /\ \A i \in 1..0 : FALSE
      OBVIOUS
    <3> HIDE DEF g0
    <3> QED
      BY <3>1
  <2>4. m \in 1..Decimals /\ m - 1 \in 0..Decimals /\ Has(m - 1)
    <3>1. m \in 0..Decimals /\ ~Has(m)
      OBVIOUS
    <3>2. \A k \in 0..Decimals : ~Has(k) => m <= k
      BY <2>2
    <3> HIDE DEF Has, U
    <3>3. m # 0
      BY <2>3, <3>1
    <3>4. m \in 1..Decimals /\ m - 1 \in 0..Decimals /\ ~(m <= m - 1)
      BY <1>0, <3>1, <3>3
    <3> QED
      BY <3>2, <3>4
  <2>5. PICK g \in [0..(m - 1) -> Nat \ {0}] :
          g[0] = 1 /\ \A i \in 1..(m - 1) : g[i] = Base * g[i - 1]
    BY <2>4
  <2> DEFINE f == [i \in 0..m |-> IF i = m THEN Base * g[m - 1] ELSE g[i]]
  <2>6. g[m - 1] \in Nat \ {0} /\ Base * g[m - 1] \in Nat \ {0}
    <3>1. m - 1 \in 0..(m - 1)
      BY <2>4
    <3>2. g[m - 1] \in Nat \ {0}
      BY <3>1
    <3> QED
      BY <1>0, <3>2, Z3
  <2>7. f \in [0..m -> Nat \ {0}]
    BY <2>4, <2>6
  <2>8. f[m] = Base * g[m - 1] /\ \A i \in 0..(m - 1) : f[i] = g[i]
    BY <2>4
  <2> HIDE DEF f
  <2>9. f[0] = 1
    BY <2>4, <2>5, <2>8
  <2>10. ASSUME NEW i \in 1..m PROVE f[i] = Base * f[i - 1]
    <3>1. i - 1 \in 0..(m - 1) /\ f[i - 1] = g[i - 1]
      BY <2>4, <2>8
    <3>2. CASE i = m
      BY <2>8, <3>1, <3>2
    <3>3. CASE i # m
      <4>1. i \in 1..(m - 1) /\ i \in 0..(m - 1)
        BY <2>4, <3>3
      <4> QED
        BY <2>5, <2>8, <3>1, <4>1
    <3> QED
      BY <3>2, <3>3
  <2>11. Has(m)
    BY <2>7, <2>9, <2>10
  <2> QED
    BY <2>11
<1>2. Has(Decimals)
  <2>1. Decimals \in 0..Decimals
    BY <1>0
  <2> HIDE DEF Has
  <2> QED
    BY <1>1, <2>1
<1>3. PICK g \in [0..Decimals -> Nat \ {0}] :
        g[0] = 1 /\ \A i \in 1..Decimals : g[i] = Base * g[i - 1]
  BY <1>2
<1>4. \A i \in 0..Decimals : g[i] = IF i = 0 THEN 1 ELSE Base * g[i - 1]
  BY <1>0, <1>3
<1>5. g = [i \in 0..Decimals |-> IF i = 0 THEN 1 ELSE Base * g[i - 1]]
  BY <1>4
<1> QED
  BY <1>5 DEF IsPowers

(* The powers of the base, up to the decimals of an amount.                 *)
LEMMA PowersOfBase ==
  /\ Calc!Pow[0] = 1
  /\ \A n \in 1..Decimals : Calc!Pow[n] = Base * Calc!Pow[n - 1]
  /\ \A n \in 0..Decimals : Calc!Pow[n] \in Nat \ {0}
<1> DEFINE g == Calc!Pow
           U == {k \in 0..Decimals : g[k] \notin Nat \ {0}}
<1>0. Base \in Nat \ {0} /\ Decimals \in Nat
  BY Scales
<1>1. IsPowers(g)
  BY PowersExist DEF Calc!Pow, IsPowers
<1> HIDE DEF g
<1>2. \A n \in 0..Decimals : g[n] = IF n = 0 THEN 1 ELSE Base * g[n - 1]
  <2> DEFINE F(n) == IF n = 0 THEN 1 ELSE Base * g[n - 1]
  <2>1. g = [n \in 0..Decimals |-> F(n)]
    BY <1>1 DEF IsPowers
  <2> HIDE DEF F
  <2>2. \A n \in 0..Decimals : g[n] = F(n)
    BY <2>1
  <2> QED
    BY <2>2 DEF F
<1>3. g[0] = 1 /\ \A n \in 1..Decimals : g[n] = Base * g[n - 1]
  BY <1>0, <1>2
<1>4. U = {}
  <2>1. SUFFICES ASSUME U # {} PROVE FALSE
    OBVIOUS
  <2>2. PICK m \in U : \A k \in U : m <= k
    <3>1. U \subseteq Nat
      OBVIOUS
    <3> HIDE DEF U
    <3> QED
      BY <2>1, <3>1, NatMinimum
  <2>3. m \in 1..Decimals /\ g[m] \notin Nat \ {0}
    <3>1. m \in 0..Decimals /\ g[m] \notin Nat \ {0}
      OBVIOUS
    <3> HIDE DEF U
    <3>2. m # 0
      BY <1>3, <3>1
    <3> QED
      BY <1>0, <3>1, <3>2
  <2>4. g[m - 1] \in Nat \ {0}
    <3>1. m - 1 \in 0..Decimals /\ ~(m <= m - 1)
      BY <1>0, <2>3
    <3> QED
      BY <2>2, <3>1
  <2>5. Base * g[m - 1] \in Nat \ {0}
    BY <1>0, <2>4, Z3
  <2> QED
    BY <1>3, <2>3, <2>5
<1> QED
  BY <1>3, <1>4 DEF g

(* To divide twice is to divide by the product.                             *)
LEMMA QuotientOfQuotient ==
  ASSUME NEW x \in Nat, NEW y \in Nat \ {0}, NEW z \in Nat \ {0}
  PROVE  /\ y * z \in Nat \ {0}
         /\ x \div y = z * (x \div (y * z)) + ((x \div y) % z)
<1> DEFINE p == x \div y
           q == p \div z
           r == x \div (y * z)
<1>0. y * z \in Nat \ {0}
  BY Z3
<1>1. p \in Nat /\ p * y <= x /\ x < p * y + y
  BY QuotientFits
<1>2. r \in Nat /\ r * (y * z) <= x /\ x < r * (y * z) + y * z
  BY <1>0, QuotientFits
<1> HIDE DEF p, r
<1>3. q \in Nat /\ q * z <= p /\ p < q * z + z
  BY <1>1, QuotientFits
<1>4. p = z * q + (p % z)
  <2>1. \A a \in Nat, b \in Nat \ {0} : a = b * (a \div b) + (a % b)
    BY Z3
  <2> QED
    BY <1>1, <2>1
<1> HIDE DEF q
<1>5. q <= r
  <2>1. (q * z) * y <= p * y /\ (q * z) * y = q * (y * z) /\ p * y \in Nat /\ q * (y * z) \in Nat
    BY <1>1, <1>3, Z3
  <2>2. q * (y * z) <= x
    BY <1>1, <2>1
  <2>3. q <= r
    <3> DEFINE w == y * z
    <3>1. w \in Nat \ {0} /\ q * w < r * w + w
      <4>1. r * (y * z) \in Nat /\ y * z \in Nat
        BY <1>0, <1>2, Z3
      <4> QED
        BY <1>0, <1>2, <2>1, <2>2, <4>1
    <3> HIDE DEF w
    <3> QED
      BY <1>2, <1>3, <3>1, FactorsCancel
  <2> QED
    BY <2>3
<1>6. r <= q
  <2>1. p + 1 <= q * z + z
    <3>1. q * z \in Nat
      BY <1>3, Z3
    <3> QED
      BY <1>1, <1>3, <3>1
  <2>2. (p + 1) * y <= (q * z + z) * y
    <3>1. q * z + z \in Nat /\ p + 1 \in Nat
      BY <1>1, <1>3, Z3
    <3> QED
      BY <2>1, <3>1, ProductsGrow
  <2>3. (p + 1) * y = p * y + y /\ (q * z + z) * y = q * (y * z) + y * z
    BY <1>1, <1>3, Z3
  <2>4. r * (y * z) < q * (y * z) + y * z
    <3>1. p * y \in Nat /\ q * (y * z) \in Nat /\ r * (y * z) \in Nat
      BY <1>1, <1>2, <1>3, Z3
    <3> QED
      BY <1>0, <1>1, <1>2, <2>2, <2>3, <3>1
  <2>5. r <= q
    <3> DEFINE w == y * z
    <3>1. w \in Nat \ {0} /\ r * w < q * w + w
      BY <1>0, <2>4
    <3> HIDE DEF w
    <3> QED
      BY <1>2, <1>3, <3>1, FactorsCancel
  <2> QED
    BY <2>5
<1>7. q = r
  BY <1>2, <1>3, <1>5, <1>6
<1> QED
  BY <1>0, <1>4, <1>7 DEF p, r

(* The digits of a text, and what they are worth.                           *)
DigitAt(text, k) == IF k \in DOMAIN text.fraction THEN text.fraction[k] ELSE 0

IsValue(text, g) ==
  g = [k \in 0..Decimals |-> IF k = 0 THEN 0 ELSE Base * g[k - 1] + DigitAt(text, k)]

ValueOf(text) == CHOOSE g : IsValue(text, g)

(* What grows by the digits is their value.                                 *)
LEMMA ValueIs ==
  ASSUME NEW text, NEW f, f = [k \in 0..Decimals |-> f[k]], f[0] = 0,
         \A k \in 1..Decimals : f[k] = Base * f[k - 1] + DigitAt(text, k)
  PROVE  Calc!parseStroops(text) = text.whole * Calc!Pow[Decimals] + f[Decimals]
<1> DEFINE g == ValueOf(text)
           U == {k \in 0..Decimals : g[k] # f[k]}
<1>0. Decimals \in Nat
  BY Scales
<1>1. IsValue(text, f)
  <2> DEFINE F(k) == IF k = 0 THEN 0 ELSE Base * f[k - 1] + DigitAt(text, k)
  <2>1. \A k \in 0..Decimals : f[k] = F(k)
    <3>1. \A k \in 0..Decimals : k # 0 => k \in 1..Decimals
      BY <1>0
    <3> QED
      BY <3>1
  <2> HIDE DEF F
  <2>2. f = [k \in 0..Decimals |-> F(k)]
    BY <2>1
  <2> QED
    BY <2>2 DEF F, IsValue
<1>2. IsValue(text, g)
  BY <1>1 DEF ValueOf
<1>3. Calc!parseStroops(text) = text.whole * Calc!Pow[Decimals] + g[Decimals]
  BY DEF Calc!parseStroops, ValueOf, IsValue, DigitAt
<1> HIDE DEF g
<1>4. g[0] = 0 /\ \A k \in 1..Decimals : g[k] = Base * g[k - 1] + DigitAt(text, k)
  <2> DEFINE G(k) == IF k = 0 THEN 0 ELSE Base * g[k - 1] + DigitAt(text, k)
  <2>1. g = [k \in 0..Decimals |-> G(k)]
    BY <1>2 DEF IsValue
  <2> HIDE DEF G
  <2>2. \A k \in 0..Decimals : g[k] = G(k)
    BY <2>1
  <2>3. 0 \in 0..Decimals /\ \A k \in 1..Decimals : k \in 0..Decimals /\ k # 0
    BY <1>0
  <2> QED
    BY <2>2, <2>3 DEF G
<1>5. U = {}
  <2>1. SUFFICES ASSUME U # {} PROVE FALSE
    OBVIOUS
  <2>2. PICK m \in U : \A k \in U : m <= k
    <3>1. U \subseteq Nat
      OBVIOUS
    <3> HIDE DEF U
    <3> QED
      BY <2>1, <3>1, NatMinimum
  <2>3. m \in 1..Decimals /\ g[m] # f[m]
    <3>1. m \in 0..Decimals /\ g[m] # f[m]
      OBVIOUS
    <3> HIDE DEF U
    <3>2. m # 0
      BY <1>4, <3>1
    <3> QED
      BY <1>0, <3>1, <3>2
  <2>4. g[m - 1] = f[m - 1]
    <3>1. m - 1 \in 0..Decimals /\ ~(m <= m - 1)
      BY <1>0, <2>3
    <3> QED
      BY <2>2, <3>1
  <2>5. g[m] = Base * g[m - 1] + DigitAt(text, m)
    BY <1>4, <2>3
  <2> QED
    BY <2>3, <2>4, <2>5
<1>6. g[Decimals] = f[Decimals]
  <2>1. Decimals \in 0..Decimals
    BY <1>0
  <2> QED
    BY <1>5, <2>1
<1> QED
  BY <1>3, <1>6

(* A text with the digits of n behind the point reads as n.                 *)
LEMMA DigitsReadBack ==
  ASSUME NEW n \in Nat, NEW text, text.whole = n \div Calc!Pow[Decimals],
         \A k \in 1..Decimals :
           DigitAt(text, k) = Calc!Padded(n % Calc!Pow[Decimals])[k]
  PROVE  Calc!parseStroops(text) = n
<1> DEFINE P == Calc!Pow
           m == n % P[Decimals]
           f == [k \in 0..Decimals |-> m \div P[Decimals - k]]
<1>0. /\ Decimals \in Nat /\ Decimals \in 0..Decimals /\ 0 \in 0..Decimals
      /\ Base \in Nat \ {0}
  BY Scales
<1>1. /\ P[0] = 1
      /\ \A k \in 1..Decimals : P[k] = Base * P[k - 1]
      /\ \A k \in 0..Decimals : P[k] \in Nat \ {0}
  BY PowersOfBase
<1> HIDE DEF P
<1>2. \A a \in Nat, b \in Nat \ {0} : a = (a \div b) * b + (a % b) /\ a % b \in Nat /\ a % b < b
  BY Z3
<1>3. m \in Nat /\ m < P[Decimals] /\ n = (n \div P[Decimals]) * P[Decimals] + m
  BY <1>0, <1>1, <1>2
<1>4. \A k \in 1..Decimals : DigitAt(text, k) = (m \div P[Decimals - k]) % Base
  BY DEF Calc!Padded, P
<1> HIDE DEF m
<1>5. f = [k \in 0..Decimals |-> f[k]] /\ \A k \in 0..Decimals : f[k] = m \div P[Decimals - k]
  OBVIOUS
<1> HIDE DEF f
<1>6. f[0] = 0
  <2>1. m \div P[Decimals] = 0
    <3> DEFINE p == P[Decimals]
    <3>1. p \in Nat \ {0} /\ m < p
      BY <1>0, <1>1, <1>3
    <3> HIDE DEF p
    <3>2. m \div p = 0
      BY <1>3, <3>1, Z3
    <3> QED
      BY <3>2 DEF p
  <2>2. Decimals - 0 = Decimals
    BY <1>0
  <2> QED
    BY <1>0, <1>5, <2>1, <2>2
<1>7. ASSUME NEW k \in 1..Decimals PROVE f[k] = Base * f[k - 1] + DigitAt(text, k)
  <2> DEFINE p == P[Decimals - k]
  <2>1. /\ k \in 0..Decimals /\ k - 1 \in 0..Decimals /\ Decimals - k \in 0..Decimals
        /\ Decimals - k + 1 \in 1..Decimals
        /\ Decimals - (k - 1) = Decimals - k + 1 /\ (Decimals - k + 1) - 1 = Decimals - k
    BY <1>0
  <2>2. p \in Nat \ {0} /\ P[Decimals - (k - 1)] = Base * p
    <3>1. P[Decimals - k + 1] = Base * P[(Decimals - k + 1) - 1]
      BY <1>1, <2>1
    <3> QED
      BY <1>1, <2>1, <3>1
  <2>3. f[k] = m \div p /\ f[k - 1] = m \div (Base * p) /\ DigitAt(text, k) = (m \div p) % Base
    BY <1>4, <1>5, <2>1, <2>2
  <2> HIDE DEF p
  <2>4. m \div p = Base * (m \div (p * Base)) + ((m \div p) % Base)
    <3>1. m \in Nat /\ p \in Nat \ {0} /\ Base \in Nat \ {0}
      BY <1>0, <1>3, <2>2
    <3>2. \A x \in Nat, y \in Nat \ {0}, z \in Nat \ {0} :
            x \div y = z * (x \div (y * z)) + ((x \div y) % z)
      <4> SUFFICES ASSUME NEW x \in Nat, NEW y \in Nat \ {0}, NEW z \in Nat \ {0}
                   PROVE  x \div y = z * (x \div (y * z)) + ((x \div y) % z)
        OBVIOUS
      <4> QED
        BY ZenonT(60), QuotientOfQuotient
    <3> QED
      BY <3>1, <3>2, Zenon
  <2>5. p * Base = Base * p
    BY <1>0, <2>2
  <2> QED
    BY <2>3, <2>4, <2>5
<1>8. f[Decimals] = m
  <2>1. Decimals - Decimals = 0 /\ m \div 1 = m
    BY <1>0, <1>3, Z3
  <2> QED
    BY <1>0, <1>1, <1>5, <2>1
<1>9. Calc!parseStroops(text) = text.whole * P[Decimals] + f[Decimals]
  BY <1>5, <1>6, <1>7, ValueIs DEF P
<1> QED
  BY <1>3, <1>8, <1>9 DEF P

(* Trailing zeros say nothing.                                              *)
LEMMA DroppedAreZeros ==
  ASSUME NEW digits \in Seq(Nat), NEW k \in 1..Len(digits)
  PROVE  /\ k \in DOMAIN Calc!DropZeros(digits) => Calc!DropZeros(digits)[k] = digits[k]
         /\ k \notin DOMAIN Calc!DropZeros(digits) => digits[k] = 0
<1> DEFINE n == Len(digits)
           last == {i \in DOMAIN digits : digits[i] # 0}
           end == IF last = {} THEN 0 ELSE CHOOSE i \in last : \A j \in last : j <= i
           kept == SubSeq(digits, 1, end)
<1>0. n \in Nat /\ DOMAIN digits = 1..n
  OBVIOUS
<1>1. Calc!DropZeros(digits) = kept
  BY DEF Calc!DropZeros
<1>2. end \in 0..n /\ \A i \in last : i <= end
  <2>1. CASE last = {}
    <3>1. end = 0
      BY <2>1
    <3> HIDE DEF last, end
    <3> QED
      BY <1>0, <2>1, <3>1
  <2>2. CASE last # {}
    <3> DEFINE T == {l \in 0..n : \A i \in last : i <= l}
    <3>1. last \subseteq 1..n
      BY <1>0
    <3> HIDE DEF last
    <3>2. n \in T /\ T \subseteq Nat
      BY <1>0, <3>1
    <3>3. PICK l \in T : \A x \in T : l <= x
      <4> HIDE DEF T
      <4> QED
        BY <3>2, NatMinimum
    <3>4. l \in 0..n /\ (\A i \in last : i <= l)
      OBVIOUS
    <3>5. l \in last
      <4>1. SUFFICES ASSUME l \notin last PROVE FALSE
        OBVIOUS
      <4>2. \A i \in last : i <= l - 1
        BY <3>1, <3>4, <4>1
      <4>3. l - 1 \in 0..n
        <5>1. PICK i \in last : TRUE
          BY <2>2
        <5>2. i \in 1..n /\ i <= l
          BY <3>1, <3>4
        <5> QED
          BY <1>0, <3>4, <5>2
      <4>4. l - 1 \in T
        BY <4>2, <4>3
      <4>5. l <= l - 1
        BY <3>3, <4>4
      <4> QED
        BY <3>4, <4>5
    <3>6. end \in last /\ \A j \in last : j <= end
      <4>1. \E i \in last : \A j \in last : j <= i
        BY <3>4, <3>5
      <4> QED
        BY <2>2, <4>1
    <3> QED
      <4> HIDE DEF end
      <4>1. end \in 1..n
        BY <3>1, <3>6
      <4> QED
        BY <3>6, <4>1
  <2> QED
    BY <2>1, <2>2
<1> HIDE DEF end
<1>3. k \in 1..n /\ (k \in last <=> digits[k] # 0)
  BY <1>0
<1> HIDE DEF last, n
<1>4. DOMAIN kept = 1..end /\ \A i \in 1..end : kept[i] = digits[i]
  <2>1. \A i \in 1..end : digits[i] \in Nat /\ i \in 1..Len(digits)
    BY <1>0, <1>2 DEF n
  <2>2. end \in Nat /\ end <= Len(digits)
    BY <1>0, <1>2 DEF n
  <2> QED
    BY <2>1, <2>2, SubSeqProperties
<1> HIDE DEF kept
<1>5. k \in DOMAIN kept <=> k <= end
  BY <1>0, <1>2, <1>3, <1>4
<1> QED
  BY <1>0, <1>1, <1>2, <1>3, <1>4, <1>5

(* An amount that is shown, with zeros behind or without, reads as it was.  *)
LEMMA AmountsReadBack ==
  ASSUME NEW n \in Nat
  PROVE  /\ Calc!parseStroops(Calc!formatAmount(n)) = n
         /\ Calc!parseStroops(Calc!formatVotingPower(n)) = n
<1> DEFINE padded == Calc!Padded(n % Calc!Pow[Decimals])
           short == Calc!formatAmount(n)
           long == Calc!formatVotingPower(n)
<1>0. Decimals \in Nat /\ Base \in Nat \ {0}
  BY Scales
<1>1. padded \in Seq(Nat) /\ Len(padded) = Decimals /\ DOMAIN padded = 1..Decimals
  <2> DEFINE m == n % Calc!Pow[Decimals]
             F(k) == (m \div Calc!Pow[Decimals - k]) % Base
  <2>1. \A a \in Nat, b \in Nat \ {0} : a % b \in Nat
    BY Z3
  <2>2. \A k \in 1..Decimals : F(k) \in Nat
    <3> SUFFICES ASSUME NEW k \in 1..Decimals PROVE F(k) \in Nat
      OBVIOUS
    <3>1. /\ Decimals \in 0..Decimals /\ Decimals - k \in 0..Decimals
      BY <1>0
    <3>2. Calc!Pow[Decimals] \in Nat \ {0} /\ Calc!Pow[Decimals - k] \in Nat \ {0}
      BY <3>1, PowersOfBase
    <3>3. m \in Nat
      BY <2>1, <3>2
    <3> HIDE DEF m
    <3>4. m \div Calc!Pow[Decimals - k] \in Nat
      BY <3>2, <3>3, QuotientFits
    <3> QED
      BY <1>0, <2>1, <3>4
  <2>3. padded = [k \in 1..Decimals |-> F(k)]
    BY DEF Calc!Padded
  <2> HIDE DEF F, padded
  <2> QED
    BY <1>0, <2>2, <2>3
<1>2. /\ short = [whole |-> n \div Calc!Pow[Decimals], fraction |-> Calc!DropZeros(padded)]
      /\ long = [whole |-> n \div Calc!Pow[Decimals], fraction |-> padded]
  BY DEF Calc!formatAmount, Calc!formatVotingPower
<1> HIDE DEF short, long
<1>3. /\ short.whole = n \div Calc!Pow[Decimals] /\ long.whole = n \div Calc!Pow[Decimals]
      /\ short.fraction = Calc!DropZeros(padded) /\ long.fraction = padded
  BY <1>2
<1> HIDE DEF padded
<1>4. ASSUME NEW k \in 1..Decimals PROVE DigitAt(short, k) = padded[k]
  BY <1>1, <1>3, DroppedAreZeros DEF DigitAt
<1>5. ASSUME NEW k \in 1..Decimals PROVE DigitAt(long, k) = padded[k]
  BY <1>1, <1>3 DEF DigitAt
<1>6. Calc!parseStroops(short) = n
  BY <1>3, <1>4, DigitsReadBack DEF padded
<1>7. Calc!parseStroops(long) = n
  BY <1>3, <1>5, DigitsReadBack DEF padded
<1> QED
  BY <1>6, <1>7 DEF short, long

(* The states of the loop over the values of calculateMaxDrawdown, named so *)
(* that lemmas can speak of them.                                           *)
FirstDrawdown(values) == [peak |-> values[1], trough |-> values[1], loss |-> 0, of |-> 1, end |-> 0]

IsDrawdowns(values, g) ==
  g = [i \in 1..Len(values) |->
         IF i = 1 THEN FirstDrawdown(values) ELSE Calc!Drawdown(g[i - 1], i, values[i])]

Drawdowns(values) == CHOOSE g : IsDrawdowns(values, g)

(* The loop goes through all values.                                        *)
LEMMA DrawdownsExist ==
  ASSUME NEW values \in Seq(Nat \ {0})
  PROVE  \E g : IsDrawdowns(values, g)
<1> DEFINE n == Len(values)
           F(g, i) == Calc!Drawdown(g[i - 1], i, values[i])
           Has(k) == \E g : /\ DOMAIN g = 1..k /\ g = [i \in 1..k |-> g[i]]
                            /\ \A i \in 1..k : g[i] = IF i = 1 THEN FirstDrawdown(values) ELSE F(g, i)
           U == {k \in 0..n : ~Has(k)}
<1>0. n \in Nat
  OBVIOUS
<1> HIDE DEF n
<1>1. U = {}
  <2>1. SUFFICES ASSUME U # {} PROVE FALSE
    OBVIOUS
  <2>2. PICK m \in U : \A k \in U : m <= k
    <3>1. U \subseteq Nat
      OBVIOUS
    <3> HIDE DEF U
    <3> QED
      BY <2>1, <3>1, NatMinimum
  <2>3. Has(0)
    <3> DEFINE g0 == [i \in 1..0 |-> 0]
    <3>1. DOMAIN g0 = 1..0 /\ g0 = [i \in 1..0 |-> g0[i]] /\ \A i \in 1..0 : FALSE
      OBVIOUS
    <3> HIDE DEF g0
    <3> QED
      BY <3>1
  <2>4. m \in 1..n /\ m - 1 \in 0..n /\ Has(m - 1)
    <3>1. m \in 0..n /\ ~Has(m)
      OBVIOUS
    <3>2. \A k \in 0..n : ~Has(k) => m <= k
      BY <2>2
    <3> HIDE DEF Has, U
    <3>3. m # 0
      BY <2>3, <3>1
    <3>4. m \in 1..n /\ m - 1 \in 0..n /\ ~(m <= m - 1)
      BY <1>0, <3>1, <3>3
    <3> QED
      BY <3>2, <3>4
  <2>5. PICK g : /\ DOMAIN g = 1..(m - 1) /\ g = [i \in 1..(m - 1) |-> g[i]]
                 /\ \A i \in 1..(m - 1) : g[i] = IF i = 1 THEN FirstDrawdown(values) ELSE F(g, i)
    BY <2>4
  <2> DEFINE f == [i \in 1..m |-> IF i = m
                                  THEN IF m = 1 THEN FirstDrawdown(values) ELSE F(g, m)
                                  ELSE g[i]]
  <2>6. DOMAIN f = 1..m /\ f = [i \in 1..m |-> f[i]]
    OBVIOUS
  <2>7. /\ f[m] = IF m = 1 THEN FirstDrawdown(values) ELSE F(g, m)
        /\ \A i \in 1..(m - 1) : f[i] = g[i]
    <3> HIDE DEF F
    <3> QED
      BY <1>0, <2>4
  <2> HIDE DEF f
  <2>8. ASSUME NEW i \in 1..m
        PROVE  f[i] = IF i = 1 THEN FirstDrawdown(values) ELSE F(f, i)
    <3>1. i # 1 => i - 1 \in 1..(m - 1)
      BY <1>0, <2>4
    <3>2. i # 1 => F(f, i) = F(g, i)
      BY <2>7, <3>1
    <3> HIDE DEF F
    <3>3. CASE i = m
      BY <2>7, <3>2, <3>3
    <3>4. CASE i # m
      <4>1. i \in 1..(m - 1)
        BY <1>0, <2>4, <3>4
      <4> QED
        BY <2>5, <2>7, <3>2, <4>1
    <3> QED
      BY <3>3, <3>4
  <2>9. Has(m)
    BY <2>6, <2>8
  <2> QED
    BY <2>9
<1>2. Has(n)
  <2>1. n \in 0..n
    BY <1>0
  <2> HIDE DEF Has
  <2> QED
    BY <1>1, <2>1
<1>3. PICK g : /\ DOMAIN g = 1..n /\ g = [i \in 1..n |-> g[i]]
               /\ \A i \in 1..n : g[i] = IF i = 1 THEN FirstDrawdown(values) ELSE F(g, i)
  BY <1>2
<1> DEFINE H(i) == IF i = 1 THEN FirstDrawdown(values) ELSE F(g, i)
<1>4. g = [i \in 1..n |-> H(i)]
  <2>1. \A i \in 1..n : g[i] = H(i)
    BY <1>3
  <2> HIDE DEF H
  <2> QED
    BY <1>3, <2>1
<1>5. IsDrawdowns(values, g)
  BY <1>4 DEF IsDrawdowns, n
<1> QED
  BY <1>5

(* What they are, turn by turn.                                             *)
LEMMA DrawdownsGoOn ==
  ASSUME NEW values \in Seq(Nat \ {0}), Len(values) > 0
  PROVE  /\ Calc!calculateMaxDrawdown(values) = Drawdowns(values)[Len(values)]
         /\ Drawdowns(values)[1] = FirstDrawdown(values)
         /\ \A i \in 2..Len(values) :
              Drawdowns(values)[i] = Calc!Drawdown(Drawdowns(values)[i - 1], i, values[i])
<1> DEFINE g == Drawdowns(values)
           n == Len(values)
<1>0. n \in Nat \ {0}
  OBVIOUS
<1>1. IsDrawdowns(values, g)
  BY DrawdownsExist DEF Drawdowns
<1>2. Calc!calculateMaxDrawdown(values) = g[n]
  BY DEF Calc!calculateMaxDrawdown, Drawdowns, IsDrawdowns, FirstDrawdown
<1> HIDE DEF g
<1> DEFINE H(i) == IF i = 1 THEN FirstDrawdown(values)
                   ELSE Calc!Drawdown(g[i - 1], i, values[i])
<1>3. g = [i \in 1..n |-> H(i)]
  BY <1>1 DEF IsDrawdowns
<1> HIDE DEF n
<1>4. \A i \in 1..n : g[i] = H(i)
  <2> HIDE DEF H
  <2> QED
    BY <1>3
<1>5. g[1] = FirstDrawdown(values)
  <2>1. 1 \in 1..n
    BY <1>0
  <2> QED
    BY <1>4, <2>1
<1>6. \A i \in 2..n : g[i] = Calc!Drawdown(g[i - 1], i, values[i])
  <2>1. \A i \in 2..n : i \in 1..n /\ i # 1
    BY <1>0
  <2> QED
    BY <1>4, <2>1
<1> QED
  BY <1>2, <1>5, <1>6 DEF g, n

-----------------------------------------------------------------------------
(* A fall of x from a height is relatively no more than one of loss of of.  *)
Within(x, height, loss, of) == x * of <= loss * height

(* From a smaller height to the same value is relatively less.              *)
LEMMA LowerFallsLess ==
  ASSUME NEW peak \in Nat \ {0}, NEW height \in Nat \ {0}, height <= peak, NEW v \in Nat,
         NEW loss \in Nat, NEW of \in Nat \ {0}, Within(peak - v, peak, loss, of)
  PROVE  Within(height - v, height, loss, of)
<1>1. (peak - v) * of <= loss * peak
  BY DEF Within
<1>2. (height - v) * peak <= (peak - v) * height
  <2>1. /\ (height - v) * peak = height * peak - v * peak
        /\ (peak - v) * height = height * peak - v * height
    BY Z3
  <2>2. v * height <= v * peak /\ v * height \in Nat /\ v * peak \in Nat /\ height * peak \in Nat
    BY Z3
  <2> QED
    BY <2>1, <2>2
<1>3. ((height - v) * peak) * of <= ((peak - v) * height) * of
  BY <1>2, Z3
<1>4. ((peak - v) * of) * height <= (loss * peak) * height
  BY <1>1, Z3
<1>5. /\ ((height - v) * peak) * of = ((height - v) * of) * peak
      /\ ((peak - v) * height) * of = ((peak - v) * of) * height
      /\ (loss * peak) * height = (loss * height) * peak
      /\ (height - v) * of \in Int /\ loss * height \in Int
      /\ ((height - v) * of) * peak \in Int /\ ((peak - v) * of) * height \in Int
      /\ (loss * height) * peak \in Int
  BY Z3
<1>6. ((height - v) * of) * peak <= (loss * height) * peak
  <2> DEFINE x == ((height - v) * of) * peak
             y == ((peak - v) * of) * height
             z == (loss * height) * peak
  <2>1. x <= y /\ y <= z /\ x \in Int /\ y \in Int /\ z \in Int
    BY <1>3, <1>4, <1>5
  <2> HIDE DEF x, y, z
  <2>2. x <= z
    BY <2>1
  <2> QED
    BY <2>2 DEF x, z
<1> QED
  BY <1>5, <1>6, FactorsCancel DEF Within

(* No rise is a fall, a smaller fall is within what a larger one is, and    *)
(* a fall is within itself.                                                 *)
LEMMA SmallerFalls ==
  ASSUME NEW x \in Int, NEW y \in Int, NEW height \in Nat, NEW loss \in Nat, NEW of \in Nat \ {0}
  PROVE  /\ x <= 0 => Within(x, height, loss, of)
         /\ x <= y /\ Within(y, height, loss, of) => Within(x, height, loss, of)
         /\ Within(loss, of, loss, of)
<1>1. /\ x * of \in Int /\ y * of \in Int /\ loss * height \in Nat /\ loss * of \in Nat
      /\ x <= 0 => x * of <= 0
      /\ x <= y => x * of <= y * of
  BY Z3
<1>2. x <= 0 => Within(x, height, loss, of)
  BY <1>1 DEF Within
<1>3. x <= y /\ Within(y, height, loss, of) => Within(x, height, loss, of)
  BY <1>1 DEF Within
<1>4. Within(loss, of, loss, of)
  BY <1>1 DEF Within
<1> QED
  BY <1>2, <1>3, <1>4

(* What was within a loss is within a larger one.                           *)
LEMMA LargerLossCovers ==
  ASSUME NEW x \in Int, NEW height \in Nat \ {0}, NEW loss \in Nat, NEW of \in Nat \ {0},
         NEW more \in Nat, NEW peak \in Nat \ {0},
         Within(x, height, loss, of), loss * peak < more * of
  PROVE  Within(x, height, more, peak)
<1>1. x * of <= loss * height
  BY DEF Within
<1>2. (x * of) * peak <= (loss * height) * peak
  BY <1>1, Z3
<1>3. (loss * peak) * height <= (more * of) * height
  <2>1. loss * peak \in Nat /\ more * of \in Nat /\ loss * peak <= more * of
    BY Z3
  <2> QED
    BY <2>1, ProductsGrow
<1>4. /\ (x * of) * peak = (x * peak) * of
      /\ (loss * height) * peak = (loss * peak) * height
      /\ (more * of) * height = (more * height) * of
      /\ x * peak \in Int /\ more * height \in Int
      /\ (x * peak) * of \in Int /\ (loss * peak) * height \in Int /\ (more * height) * of \in Int
  BY Z3
<1>5. (x * peak) * of <= (more * height) * of
  <2> DEFINE a == (x * peak) * of
             b == (loss * peak) * height
             c == (more * height) * of
  <2>1. a <= b /\ b <= c /\ a \in Int /\ b \in Int /\ c \in Int
    BY <1>2, <1>3, <1>4
  <2> HIDE DEF a, b, c
  <2>2. a <= c
    BY <2>1
  <2> QED
    BY <2>2 DEF a, c
<1> QED
  BY <1>4, <1>5, FactorsCancel DEF Within

(* After k values: the peak is the largest of them, the fall from it to the *)
(* trough is within the loss, as is every fall from a value to a later one, *)
(* and the loss is that of two of the values.                               *)
DrawdownTyped(d) ==
  /\ d \in [peak: Nat \ {0}, trough: Nat, loss: Nat, of: Nat \ {0}, end: Nat]
  /\ Within(d.peak - d.trough, d.peak, d.loss, d.of)

IsPeak(values, k, peak) ==
  (\E l \in 1..k : values[l] = peak) /\ \A l \in 1..k : values[l] <= peak

CoversFalls(values, k, loss, of) ==
  \A j \in 1..k : \A l \in 1..k : l < j => Within(values[l] - values[j], values[l], loss, of)

LossIsThere(values, k, d) ==
  d.loss > 0 =>
    /\ d.end \in 1..(k - 1)
    /\ \E l \in 1..d.end : values[l] = d.of /\ values[l] - values[d.end + 1] = d.loss

DrawdownInv(values, k, d) ==
  /\ DrawdownTyped(d) /\ IsPeak(values, k, d.peak)
  /\ CoversFalls(values, k, d.loss, d.of) /\ LossIsThere(values, k, d)

(* Before the second value.                                                 *)
LEMMA DrawdownStarts ==
  ASSUME NEW values \in Seq(Nat \ {0}), Len(values) > 0
  PROVE  DrawdownInv(values, 1, FirstDrawdown(values))
<1> DEFINE d == FirstDrawdown(values)
<1>1. values[1] \in Nat \ {0}
  OBVIOUS
<1>2. /\ d = [peak |-> values[1], trough |-> values[1], loss |-> 0, of |-> 1, end |-> 0]
  BY DEF FirstDrawdown
<1> HIDE DEF d
<1>3. d.peak = values[1] /\ d.trough = values[1] /\ d.loss = 0 /\ d.of = 1
  BY <1>2
<1>4. d \in [peak: Nat \ {0}, trough: Nat, loss: Nat, of: Nat \ {0}, end: Nat]
  BY <1>1, <1>2
<1>5. Within(d.peak - d.trough, d.peak, d.loss, d.of)
  BY <1>1, <1>3 DEF Within
<1>6. IsPeak(values, 1, d.peak) /\ CoversFalls(values, 1, d.loss, d.of) /\ LossIsThere(values, 1, d)
  <2>1. \A l \in 1..1 : l = 1
    OBVIOUS
  <2>2. 1 \in 1..1 /\ values[1] <= values[1]
    BY <1>1
  <2> QED
    BY <1>3, <2>1, <2>2 DEF IsPeak, CoversFalls, LossIsThere
<1> QED
  BY <1>4, <1>5, <1>6 DEF DrawdownInv, DrawdownTyped, d

(* With one more value the falls to it are to be covered.                   *)
LEMMA FallsToOneMore ==
  ASSUME NEW values \in Seq(Nat \ {0}), NEW k \in Nat, k \in 2..Len(values),
         NEW loss \in Nat, NEW of \in Nat \ {0}, NEW peak \in Nat \ {0},
         \A l \in 1..(k - 1) : values[l] <= peak,
         CoversFalls(values, k - 1, loss, of),
         Within(peak - values[k], peak, loss, of)
  PROVE  CoversFalls(values, k, loss, of)
<1> SUFFICES ASSUME NEW j \in 1..k, NEW l \in 1..k, l < j
             PROVE  Within(values[l] - values[j], values[l], loss, of)
  BY DEF CoversFalls
<1>1. CASE j = k
  <2>1. l \in 1..(k - 1) /\ l \in 1..Len(values) /\ k \in 1..Len(values)
    BY <1>1
  <2>2. values[l] \in Nat \ {0} /\ values[k] \in Nat /\ values[l] <= peak
    BY <2>1
  <2> QED
    BY <1>1, <2>2, LowerFallsLess
<1>2. CASE j # k
  <2>1. j \in 1..(k - 1) /\ l \in 1..(k - 1)
    BY <1>2
  <2> QED
    BY <2>1 DEF CoversFalls
<1> QED
  BY <1>1, <1>2

(* A turn of the loop keeps it.                                             *)
LEMMA DrawdownGoesOn ==
  ASSUME NEW values \in Seq(Nat \ {0}), NEW k \in Nat, k \in 2..Len(values),
         NEW d, DrawdownInv(values, k - 1, d)
  PROVE  DrawdownInv(values, k, Calc!Drawdown(d, k, values[k]))
<1> DEFINE v == values[k]
           e == Calc!Drawdown(d, k, v)
<1>0. /\ v \in Nat \ {0} /\ k \in 1..Len(values) /\ Len(values) \in Nat
      /\ \A l \in 1..(k - 1) : l \in 1..k /\ l \in 1..Len(values) /\ values[l] \in Nat \ {0}
      /\ \A l \in 1..k : l = k \/ l \in 1..(k - 1)
  <2>1. k \in 1..Len(values) /\ Len(values) \in Nat
    OBVIOUS
  <2>2. \A l \in 1..(k - 1) : l \in 1..k /\ l \in 1..Len(values)
    BY <2>1
  <2> QED
    BY <2>1, <2>2
<1>1. /\ d \in [peak: Nat \ {0}, trough: Nat, loss: Nat, of: Nat \ {0}, end: Nat]
      /\ Within(d.peak - d.trough, d.peak, d.loss, d.of)
      /\ IsPeak(values, k - 1, d.peak) /\ CoversFalls(values, k - 1, d.loss, d.of)
      /\ LossIsThere(values, k - 1, d)
  BY DEF DrawdownInv, DrawdownTyped
<1>2. /\ d.peak \in Nat \ {0} /\ d.trough \in Nat /\ d.loss \in Nat /\ d.of \in Nat \ {0}
      /\ d.end \in Nat
  BY <1>1
<1>3. \A l \in 1..(k - 1) : values[l] <= d.peak
  BY <1>1 DEF IsPeak
<1>4. PICK top \in 1..(k - 1) : values[top] = d.peak
  BY <1>1 DEF IsPeak
<1> HIDE DEF v
<1>5. ASSUME NEW c, c.loss = d.loss, c.of = d.of, c.end = d.end
      PROVE  LossIsThere(values, k, c)
  <2>1. d.end \in 1..((k - 1) - 1) => d.end \in 1..(k - 1)
    OBVIOUS
  <2> QED
    BY <1>1, <1>5, <2>1 DEF LossIsThere
<1>6. CASE v > d.peak
  <2>1. e = [d EXCEPT !.peak = v, !.trough = v]
    BY <1>6 DEF Calc!Drawdown
  <2>2. /\ e \in [peak: Nat \ {0}, trough: Nat, loss: Nat, of: Nat \ {0}, end: Nat]
        /\ e.peak = v /\ e.trough = v /\ e.loss = d.loss /\ e.of = d.of /\ e.end = d.end
    BY <1>0, <1>1, <2>1
  <2> HIDE DEF e
  <2>3. Within(e.peak - e.trough, e.peak, e.loss, e.of)
    <3>1. (v - v) * d.of = 0 /\ 0 <= d.loss * v
      BY <1>0, <1>2, Z3
    <3> QED
      BY <2>2, <3>1 DEF Within
  <2>4. IsPeak(values, k, e.peak)
    <3>1. \A l \in 1..k : values[l] <= v
      BY SMTT(40), <1>0, <1>2, <1>3, <1>6 DEF v
    <3>2. k \in 1..k /\ values[k] = v
      BY <1>0 DEF v
    <3> QED
      BY <2>2, <3>1, <3>2 DEF IsPeak
  <2>5. CoversFalls(values, k, e.loss, e.of)
    <3>1. Within(d.peak - v, d.peak, d.loss, d.of)
      <4>1. d.peak - v \in Int /\ d.peak - v <= 0
        BY <1>0, <1>2, <1>6
      <4> QED
        BY <1>2, <4>1, SmallerFalls
    <3> QED
      BY <1>1, <1>2, <1>3, <2>2, <3>1, FallsToOneMore DEF v
  <2>6. LossIsThere(values, k, e)
    BY <1>5, <2>2
  <2> QED
    BY <2>2, <2>3, <2>4, <2>5, <2>6 DEF DrawdownInv, DrawdownTyped, e, v
<1>7. ASSUME ~(v > d.peak) PROVE \A c : c.peak = d.peak => IsPeak(values, k, c.peak)
  <2>1. \A l \in 1..k : values[l] <= d.peak
    BY <1>0, <1>2, <1>3, <1>7 DEF v
  <2>2. top \in 1..k /\ values[top] = d.peak
    BY <1>0, <1>4
  <2> QED
    BY <2>1, <2>2 DEF IsPeak
<1>8. CASE ~(v > d.peak) /\ v >= d.trough
  <2>1. e = d
    BY <1>8 DEF Calc!Drawdown
  <2>2. Within(d.peak - v, d.peak, d.loss, d.of)
    <3>1. d.peak - v \in Int /\ d.peak - d.trough \in Int /\ d.peak - v <= d.peak - d.trough
      BY SMTT(40), <1>0, <1>2, <1>8
    <3> QED
      BY <1>1, <1>2, <3>1, SmallerFalls
  <2>3. CoversFalls(values, k, d.loss, d.of)
    BY <1>1, <1>2, <1>3, <2>2, FallsToOneMore DEF v
  <2>4. LossIsThere(values, k, d)
    BY <1>5
  <2>5. IsPeak(values, k, d.peak)
    BY <1>7, <1>8
  <2> HIDE DEF e
  <2> QED
    BY <1>1, <2>1, <2>3, <2>4, <2>5 DEF DrawdownInv, DrawdownTyped, e, v
<1>9. CASE /\ ~(v > d.peak) /\ ~(v >= d.trough)
           /\ (d.peak - v) * d.of > d.loss * d.peak
  <2> DEFINE more == d.peak - v
  <2>1. e = [peak |-> d.peak, trough |-> v, loss |-> more, of |-> d.peak, end |-> k - 1]
    BY <1>9 DEF Calc!Drawdown
  <2>2. more \in Nat /\ k - 1 \in Nat \ {0}
    BY SMTT(40), <1>0, <1>2, <1>9
  <2>3. d.loss * d.peak < more * d.of
    <3>1. d.loss * d.peak \in Int /\ more * d.of \in Int
      BY <1>2, <2>2, Z3
    <3> QED
      BY <1>9, <3>1
  <2> HIDE DEF more
  <2>4. /\ e \in [peak: Nat \ {0}, trough: Nat, loss: Nat, of: Nat \ {0}, end: Nat]
        /\ e.peak = d.peak /\ e.trough = v /\ e.loss = more /\ e.of = d.peak /\ e.end = k - 1
    BY <1>0, <1>2, <2>1, <2>2
  <2> HIDE DEF e
  <2>5. Within(d.peak - v, d.peak, more, d.peak)
    <3>1. d.peak - v = more
      BY DEF more
    <3> QED
      BY <1>2, <2>2, <3>1, SmallerFalls
  <2>6. CoversFalls(values, k - 1, more, d.peak)
    <3> SUFFICES ASSUME NEW j \in 1..(k - 1), NEW l \in 1..(k - 1), l < j
                 PROVE  Within(values[l] - values[j], values[l], more, d.peak)
      BY DEF CoversFalls
    <3>1. Within(values[l] - values[j], values[l], d.loss, d.of)
      BY <1>1 DEF CoversFalls
    <3>2. values[l] \in Nat \ {0} /\ values[l] - values[j] \in Int
      <4>1. values[l] \in Nat \ {0} /\ values[j] \in Nat \ {0}
        BY <1>0
      <4> QED
        BY <4>1
    <3> QED
      BY <1>2, <2>2, <2>3, <3>1, <3>2, LargerLossCovers
  <2>7. CoversFalls(values, k, e.loss, e.of)
    BY <1>2, <1>3, <2>2, <2>4, <2>5, <2>6, FallsToOneMore DEF v
  <2>8. LossIsThere(values, k, e)
    <3>1. k - 1 \in 1..(k - 1) /\ (k - 1) + 1 = k
      BY <2>2
    <3>2. values[top] - values[k] = more
      BY <1>4 DEF more, v
    <3>3. e.end + 1 = k
      BY <2>4, <3>1
    <3> QED
      BY <1>4, <2>4, <3>1, <3>2, <3>3 DEF LossIsThere
  <2>9. IsPeak(values, k, e.peak)
    BY <1>7, <1>9, <2>4
  <2> QED
    BY <2>4, <2>5, <2>7, <2>8, <2>9 DEF DrawdownInv, DrawdownTyped, e, v
<1>10. CASE /\ ~(v > d.peak) /\ ~(v >= d.trough)
            /\ ~((d.peak - v) * d.of > d.loss * d.peak)
  <2>1. e = [d EXCEPT !.trough = v]
    BY <1>10 DEF Calc!Drawdown
  <2>2. /\ e \in [peak: Nat \ {0}, trough: Nat, loss: Nat, of: Nat \ {0}, end: Nat]
        /\ e.peak = d.peak /\ e.trough = v /\ e.loss = d.loss /\ e.of = d.of /\ e.end = d.end
    BY <1>0, <1>1, <2>1
  <2> HIDE DEF e
  <2>3. Within(d.peak - v, d.peak, d.loss, d.of)
    <3>1. (d.peak - v) * d.of \in Int /\ d.loss * d.peak \in Int
      BY SMTT(40), <1>0, <1>2, Z3
    <3> QED
      BY <1>10, <3>1 DEF Within
  <2>4. CoversFalls(values, k, e.loss, e.of)
    BY <1>1, <1>2, <1>3, <2>2, <2>3, FallsToOneMore DEF v
  <2>5. LossIsThere(values, k, e)
    BY <1>5, <2>2
  <2>6. IsPeak(values, k, e.peak)
    BY <1>7, <1>10, <2>2
  <2> QED
    BY <2>2, <2>3, <2>4, <2>5, <2>6 DEF DrawdownInv, DrawdownTyped, e, v
<1> QED
  BY <1>6, <1>8, <1>9, <1>10 DEF v

(* So it holds of what the loop ends with.                                  *)
LEMMA DrawdownIsLargest ==
  ASSUME NEW values \in Seq(Nat \ {0}), Len(values) > 0
  PROVE  DrawdownInv(values, Len(values), Calc!calculateMaxDrawdown(values))
<1> DEFINE g == Drawdowns(values)
           n == Len(values)
           U == {k \in 1..n : ~DrawdownInv(values, k, g[k])}
<1>0. n \in Nat \ {0}
  OBVIOUS
<1>1. /\ Calc!calculateMaxDrawdown(values) = g[n]
      /\ g[1] = FirstDrawdown(values)
      /\ \A i \in 2..n : g[i] = Calc!Drawdown(g[i - 1], i, values[i])
  BY DrawdownsGoOn
<1> HIDE DEF g
<1>2. DrawdownInv(values, 1, g[1])
  BY <1>1, DrawdownStarts
<1>3. U = {}
  <2>1. SUFFICES ASSUME U # {} PROVE FALSE
    OBVIOUS
  <2>2. PICK m \in U : \A k \in U : m <= k
    <3>1. U \subseteq Nat
      OBVIOUS
    <3> HIDE DEF U
    <3> QED
      BY <2>1, <3>1, NatMinimum
  <2>3. m \in 2..n /\ m \in Nat /\ ~DrawdownInv(values, m, g[m])
    <3>1. m \in 1..n /\ ~DrawdownInv(values, m, g[m])
      OBVIOUS
    <3> HIDE DEF U, n
    <3>2. m # 1
      BY <1>2, <3>1
    <3> QED
      BY <1>0, <3>1, <3>2
  <2>4. DrawdownInv(values, m - 1, g[m - 1])
    <3>1. m - 1 \in 1..n /\ ~(m <= m - 1)
      BY <1>0, <2>3
    <3> QED
      BY <2>2, <3>1
  <2>5. DrawdownInv(values, m, Calc!Drawdown(g[m - 1], m, values[m]))
    BY <2>3, <2>4, DrawdownGoesOn
  <2> QED
    BY <1>1, <2>3, <2>5
<1>4. DrawdownInv(values, n, g[n])
  <2>1. n \in 1..n
    BY <1>0
  <2> QED
    BY <1>3, <2>1
<1> QED
  BY <1>1, <1>4

(* The functions compute what they are named for.                           *)
LEMMA MatchesAll == ArgsTyped => Calc!MatchesReference
<1> SUFFICES ASSUME ArgsTyped PROVE Calc!MatchesReference
  OBVIOUS
<1> DEFINE a == args[1]
           b == args[2]
           c == args[3]
           d == args[4]
           n == a * MaxArg * MaxArg + b * MaxArg + c
           root == Calc!bigintSqrt(n)
           values == [k \in 1..4 |-> args[k] + 1]
           max == Calc!calculateMaxDrawdown(values)
           ratio == <<a + 1, b + 1, c + 1>>
           sim == Calc!simulateImpermanentLoss(d + 1, ratio)
           amounts == Calc!calculateOptimalDeposit(a + 1, b + 1, c)
<1>1. a \in Nat /\ b \in Nat /\ c \in Nat /\ d \in Nat
  BY ArgsAreNumbers
<1>2. n \in Nat
  <2>1. MaxArg \in Nat
    BY Scales
  <2> HIDE DEF a, b, c
  <2> QED
    BY <1>1, <2>1, Z3
<1>3. Calc!parseStroops(Calc!formatAmount(n)) = n
      /\ Calc!parseStroops(Calc!formatVotingPower(n)) = n
  <2> HIDE DEF n
  <2> QED
    BY <1>2, AmountsReadBack
<1>4. root * root <= n /\ n < (root + 1) * (root + 1)
  <2> HIDE DEF n
  <2> QED
    BY <1>2, RootIsExact DEF IsRoot
<1>5. /\ \A i, j \in 1..4 : i < j => (values[i] - values[j]) * max.of <= max.loss * values[i]
      /\ max.loss > 0 => \E i \in 1..max.end :
           values[i] = max.of /\ values[i] - values[max.end + 1] = max.loss
  <2>1. values \in Seq(Nat \ {0}) /\ Len(values) = 4
    <3>1. \A k \in 1..4 : args[k] + 1 \in Nat \ {0}
      BY ArgsAreNumbers
    <3>2. values \in [1..4 -> Nat \ {0}]
      BY <3>1
    <3> QED
      BY <3>2
  <2> HIDE DEF values
  <2>2. DrawdownInv(values, 4, max)
    <3>1. Len(values) > 0
      BY <2>1
    <3>2. DrawdownInv(values, Len(values), max)
      BY <2>1, <3>1, DrawdownIsLargest
    <3> QED
      BY <2>1, <3>2
  <2> HIDE DEF max
  <2>3. CoversFalls(values, 4, max.loss, max.of) /\ LossIsThere(values, 4, max)
    BY <2>2 DEF DrawdownInv
  <2> QED
    BY <2>3 DEF CoversFalls, LossIsThere, Within
<1>6. Calc!estimateFeeRevenue(n, a, b, c, d) * Bp * Bp * Bp * 10
        <= n * a * (20 * b * c + Bp * Bp + 10 * c * Bp)
  <2> HIDE DEF n, a, b, c, d
  <2> QED
    BY <1>1, <1>2, FeesAreLow
<1>7. amounts.amountA <= c /\ amounts.amountB <= c
  <2> HIDE DEF a, b, c
  <2>1. a + 1 \in Nat \ {0} /\ b + 1 \in Nat \ {0}
    BY <1>1
  <2> QED
    BY <1>1, <2>1, DepositsFit
<1>8. /\ \E k \in 1..3 : sim.worstCaseIl = Calc!calculateImpermanentLoss(args[k] + 1, d + 1)
      /\ \A k \in 1..3 :
           LET il == Calc!calculateImpermanentLoss(args[k] + 1, d + 1) IN
           /\ sim.worstCaseIl.num * il.den <= il.num * sim.worstCaseIl.den /\ il.num <= 0
           /\ il.num * sim.bestCaseIl.den <= sim.bestCaseIl.num * il.den
  <2>1. \A k \in 1..3 : ratio[k] = args[k] + 1
    BY <1>1
  <2>2. /\ \E k \in 1..3 : sim.worstCaseIl = Calc!calculateImpermanentLoss(ratio[k], d + 1)
        /\ \A k \in 1..3 :
             LET il == Calc!calculateImpermanentLoss(ratio[k], d + 1) IN
             /\ sim.worstCaseIl.num * il.den <= il.num * sim.worstCaseIl.den /\ il.num <= 0
             /\ il.num * sim.bestCaseIl.den <= sim.bestCaseIl.num * il.den
    <3> HIDE DEF a, b, c, d
    <3> QED
      BY <1>1, SimulatedIsBetween
  <2> HIDE DEF sim, ratio
  <2> QED
    BY <2>1, <2>2
<1> QED
  BY <1>3, <1>4, <1>5, <1>6, <1>7, <1>8 DEF Calc!MatchesReference

(* The SDK works out what its contracts work out and what its names         *)
(* promise, whatever the arguments and the scales.                          *)
THEOREM CalculatorsAgree == ClientsSpec => []CalculationsAgree
<1>1. ClientsInit => ArgsTyped
  BY ArgsStart DEF ClientsInit
<1>2. ArgsTyped /\ [ClientsNext]_clientsVars => ArgsTyped'
  <2> SUFFICES ASSUME ArgsTyped, [ClientsNext]_clientsVars PROVE ArgsTyped'
    OBVIOUS
  <2>1. CASE CalculatorsMove
    BY <2>1, ArgsNext DEF CalculatorsMove
  <2>2. CASE UNCHANGED args
    BY <2>2 DEF ArgsTyped
  <2> QED
    BY <2>1, <2>2 DEF ClientsNext, CallsDo, ReadsMove, RewardsMove, clientsVars
<1>3. ArgsTyped => CalculationsAgree
  BY ClientsMirror, MatchesAll, EstimatesAreLow DEF CalculationsAgree, Calc!CalculationsAgree
<1> QED
  BY <1>1, <1>2, <1>3, PTL DEF ClientsSpec
===============================================================================
