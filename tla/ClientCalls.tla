----------------------------- MODULE ClientCalls -----------------------------
(***************************************************************************)
(* Calls of the writing methods of ClientMethods that are under way at once *)
(* and sign for the same account, with the node and the chain between them. *)
(*                                                                          *)
(* A call does one await per step; between two of them the other calls, the *)
(* chain and the clock move. A read, the wallet or the node may fail, which *)
(* makes the call throw. A transaction that was sent is included in a       *)
(* ledger, with or without effect, or never; the node's answer may be lost. *)
(* What the chain does with sequence numbers is external, taken from how    *)
(* the clients build transactions: each consumes the number after the last  *)
(* one and is void after its time bound.                                    *)
(*                                                                          *)
(* A transaction may also be sent through RetryRpcServer                    *)
(* (sdk/src/utils/retryRpc.ts), which repeats a failed request, and a       *)
(* caller may submit a signed transaction once more after an error.         *)
(* claimAllFees prepares one transaction per week and returns the list: its *)
(* weeks are the calls of a batch.                                          *)
(***************************************************************************)
EXTENDS ClientMethods, FiniteSets

CONSTANTS
  Calls,          \* calls under way at once, numbered
  Started,        \* the methods they may run
  WaitTimeout,    \* timeoutMs of waitForTransaction
  PollTimeout,    \* timeoutMs of submitTransaction
  MaxRetries,     \* options.maxRetries of RetryRpcServer
  MaxSends        \* bound on how often one transaction is sent

(* The endings of ClientMethods, and that of RetryRpcServer.                *)
Endings == {"confirm", "report", "wait", "poll", "retry"}

ASSUME CallsAssumption ==
  /\ Calls \subseteq Nat /\ MaxRetries \in Nat /\ MaxSends \in Nat \ {0}
  /\ ShortLife \in Nat \ {0} /\ LongLife \in Nat \ {0}
  /\ WaitTimeout \in Nat \ {0} /\ PollTimeout \in Nat \ {0}
  /\ \A m \in Started : m.ending \in Endings

VARIABLES
  batch,       \* the calls are those of one claimAllFees
  sequence,    \* of the account on the chain
  kind,        \* of every call: its ending and the life of its transaction
  todo,        \* the awaits it has before it
  built,       \* the sequence number of its transaction, 0 before it is built
  life,        \* how long its transaction is still valid
  tx,          \* its transaction: "none", "pending", "applied" or "failed"
  sends,       \* how often it was sent
  waiting,     \* how long it still looks for the result
  outcome      \* what the caller was told, or "none"

callVars == <<kind, todo, built, sends, waiting, outcome>>
vars == <<batch, sequence, life, tx, callVars>>

NotBegun == [ending |-> "none", life |-> 0]

(* RetryRpcServer.sendTransaction: the answer goes to the caller.           *)
retriedSend == [claimFees EXCEPT !.ending = "retry"]

Smaller(a, b) == IF a < b THEN a ELSE b

(* A check is no step of its own: it throws in the step that makes it.      *)
Checks == {"keypair", "signer", "contract", "arguments"}
Awaits(steps) == SelectSeq(steps, LAMBDA step : step \notin Checks)

Init ==
  /\ batch \in BOOLEAN
  /\ sequence = 0
  /\ kind = [c \in Calls |-> NotBegun]
  /\ todo = [c \in Calls |-> <<>>]
  /\ built = [c \in Calls |-> 0]
  /\ life = [c \in Calls |-> 0]
  /\ tx = [c \in Calls |-> "none"]
  /\ sends = [c \in Calls |-> 0]
  /\ waiting = [c \in Calls |-> 0]
  /\ outcome = [c \in Calls |-> "none"]

At(c, step) == outcome[c] = "none" /\ todo[c] # <<>> /\ Head(todo[c]) = step
Ends(c, result) == outcome' = [outcome EXCEPT ![c] = result]
Passes(c) == todo' = [todo EXCEPT ![c] = Tail(@)] /\ UNCHANGED outcome
Throws(c) == Ends(c, "thrown") /\ todo' = [todo EXCEPT ![c] = <<>>]

Returned(c) == At(c, "submit") \/ sends[c] > 0 \/ outcome[c] # "none"

(* claimAllFees: a week is prepared after the week before, and a week that  *)
(* throws is left out of the list; the list is there after the last week.   *)
MayBegin(c) == batch => \A d \in Calls : d < c => Returned(d)
ListReady   == batch => \A d \in Calls : Returned(d)

Begin(c) ==
  /\ kind[c] = NotBegun
  /\ MayBegin(c)
  /\ \E m \in IF batch THEN {claimFees} ELSE Started :
       /\ kind' = [kind EXCEPT ![c] = [ending |-> m.ending, life |-> m.life]]
       /\ \/ todo' = [todo EXCEPT ![c] = Awaits(m.steps)] /\ UNCHANGED outcome
          \/ Head(m.steps) \in Checks /\ Throws(c)
  /\ UNCHANGED <<batch, sequence, life, tx, built, sends, waiting>>

(* The wallet's address, the voting power.                                  *)
Ask(c) ==
  /\ At(c, "publicKey") \/ At(c, "power")
  /\ Passes(c) \/ Throws(c)
  /\ UNCHANGED <<batch, sequence, life, tx, kind, built, sends, waiting>>

(* getAccount and build.                                                    *)
Build(c) ==
  /\ At(c, "account")
  /\ \/ /\ Passes(c)
        /\ built' = [built EXCEPT ![c] = sequence + 1]
        /\ life' = [life EXCEPT ![c] = kind[c].life]
     \/ Throws(c) /\ UNCHANGED <<built, life>>
  /\ UNCHANGED <<batch, sequence, tx, kind, sends, waiting>>

(* A key pair signs at once, a wallet asks its user.                        *)
Sign(c) ==
  /\ At(c, "sign")
  /\ Passes(c) \/ Throws(c)
  /\ UNCHANGED <<batch, sequence, life, tx, kind, built, sends, waiting>>

(* The caller hands the signed transaction to submitTransaction.            *)
Submit(c) ==
  /\ At(c, "submit")
  /\ ListReady
  /\ Passes(c)
  /\ UNCHANGED <<batch, sequence, life, tx, kind, built, sends, waiting>>

(* ... and once more when the first time ended without a result.            *)
SubmitAgain(c) ==
  /\ kind[c].ending = "poll" /\ outcome[c] \in {"thrown", "timedOut"}
  /\ sends[c] \in 1..MaxSends - 1
  /\ todo' = [todo EXCEPT ![c] = <<"send">>]
  /\ waiting' = [waiting EXCEPT ![c] = 0]
  /\ Ends(c, "none")
  /\ UNCHANGED <<batch, sequence, life, tx, kind, built, sends>>

(* The node (external).                                                     *)
Acceptable(c) == built[c] > sequence /\ life[c] > 0

NodeAnswers(c) ==
  IF tx[c] = "pending" THEN {"DUPLICATE", "TRY_AGAIN_LATER"}
  ELSE IF Acceptable(c) THEN {"PENDING", "SUCCESS", "ERROR", "TRY_AGAIN_LATER"}
  ELSE {"ERROR", "TRY_AGAIN_LATER"}

Waits(c, time) == waiting' = [waiting EXCEPT ![c] = time] /\ UNCHANGED outcome
Returns(c, result) == Ends(c, result) /\ UNCHANGED waiting

(* Mutant: whatever is not SUCCESS is refused.                              *)
AllButSuccess == {"ERROR", "TRY_AGAIN_LATER", "PENDING", "DUPLICATE"}

(* The answers for which submitTransaction gives up.                        *)
Refusals == {"ERROR", "TRY_AGAIN_LATER"}

(* What each ending makes of the answer.                                    *)
TakeAnswer(c, answer) ==
  \/ kind[c].ending = "confirm" /\ Returns(c, IF answer = "ERROR" THEN "failed" ELSE "thrown")
  \/ kind[c].ending = "report" /\ Returns(c, IF answer = "SUCCESS" THEN "accepted" ELSE "unclear")
  \/ /\ kind[c].ending = "wait"
     /\ IF answer = "SUCCESS" THEN Waits(c, WaitTimeout) ELSE Returns(c, "unclear")
  \/ /\ kind[c].ending = "poll"
     /\ IF answer \in Refusals THEN Returns(c, "failed") ELSE Waits(c, PollTimeout)
  \/ /\ kind[c].ending = "retry"
     /\ Returns(c, IF answer \in Refusals THEN "failed" ELSE "accepted")

(* Mutant: a transient error is repeated without end.                       *)
RetriesForever(c) == kind[c].ending = "retry"

(* withRetry: attempt > maxRetries throws; this is attempt sends + 1.       *)
MayRetry(c) == kind[c].ending = "retry" /\ sends[c] + 1 <= MaxRetries

(* No answer: RetryRpcServer waits and sends again when the error is        *)
(* transient.                                                               *)
TakeNoAnswer(c) ==
  \/ MayRetry(c) /\ todo' = [todo EXCEPT ![c] = <<"sleep", "send">>] /\ UNCHANGED outcome
  \/ Throws(c)

(* The transaction reaches the node or not, and the answer the caller or    *)
(* not.                                                                     *)
Send(c) ==
  /\ At(c, "send")
  /\ sends' = [sends EXCEPT ![c] = Smaller(@ + 1, MaxRetries + MaxSends + 1)]
  /\ \E answer \in NodeAnswers(c) \cup {"lost"} :
       /\ tx' = IF answer \in {"PENDING", "SUCCESS"} THEN [tx EXCEPT ![c] = "pending"] ELSE tx
       /\ \/ answer # "lost" /\ TakeAnswer(c, answer) /\ todo' = [todo EXCEPT ![c] = <<>>]
          \/ TakeNoAnswer(c) /\ UNCHANGED waiting
  /\ UNCHANGED <<batch, sequence, life, kind, built>>

(* The delay between two attempts of withRetry.                             *)
Sleep(c) ==
  /\ At(c, "sleep")
  /\ Passes(c)
  /\ UNCHANGED <<batch, sequence, life, tx, kind, built, sends, waiting>>

Waiting(c, ending) == outcome[c] = "none" /\ kind[c].ending = ending /\ waiting[c] > 0

(* waitForTransaction returns the first answer there is, found or not; the  *)
(* caller takes the result out of it and throws when there is none.         *)
WaitEnds(c) ==
  /\ Waiting(c, "wait")
  /\ Ends(c, IF tx[c] = "applied" THEN "success" ELSE "thrown")
  /\ UNCHANGED <<batch, sequence, life, tx, kind, todo, built, sends, waiting>>

(* Mutant: what did not fail has succeeded.                                 *)
PollSucceedsUnlessFailed(c) == tx[c] # "failed"

PollSucceeds(c) == tx[c] = "applied"

(* A poll of submitTransaction: found, failed, or the request fails. When   *)
(* the transaction is not found it sleeps and goes on.                      *)
Poll(c) ==
  /\ Waiting(c, "poll")
  /\ \/ PollSucceeds(c) /\ Ends(c, "success")
     \/ tx[c] = "failed" /\ Ends(c, "failed")
     \/ Ends(c, "thrown")
  /\ UNCHANGED <<batch, sequence, life, tx, kind, todo, built, sends, waiting>>

(* A time unit passes; both loops end at their deadline, waitForTransaction *)
(* with an error and submitTransaction with a failure.                      *)
Less(n) == IF n > 0 THEN n - 1 ELSE 0

Tick ==
  /\ \E c \in Calls : life[c] > 0 \/ waiting[c] > 0
  /\ life' = [c \in Calls |-> Less(life[c])]
  /\ waiting' = [c \in Calls |-> Less(waiting[c])]
  /\ outcome' = [c \in Calls |->
       IF outcome[c] # "none" \/ waiting[c] # 1 THEN outcome[c]
       ELSE IF kind[c].ending = "poll" THEN "timedOut" ELSE "thrown"]
  /\ UNCHANGED <<batch, sequence, tx, kind, todo, built, sends>>

(* The chain (external): a valid transaction with the next number is        *)
(* included; its call may fail.                                             *)
Include(c) ==
  /\ tx[c] = "pending" /\ life[c] > 0 /\ built[c] = sequence + 1
  /\ sequence' = sequence + 1
  /\ \E result \in {"applied", "failed"} : tx' = [tx EXCEPT ![c] = result]
  /\ UNCHANGED <<batch, life, callVars>>

-----------------------------------------------------------------------------
(* What the SDK does by itself.                                             *)
CallStep(c) ==
  \/ Ask(c) \/ Build(c) \/ Sign(c) \/ Send(c) \/ Sleep(c) \/ WaitEnds(c) \/ Poll(c)

Next ==
  \/ \E c \in Calls :
       CallStep(c) \/ Begin(c) \/ Submit(c) \/ SubmitAgain(c) \/ Include(c)
  \/ Tick

Spec == Init /\ [][Next]_vars

(* Every await settles and time passes; nobody has to submit, and the chain *)
(* need not include anything.                                               *)
FairSpec == Spec /\ (\A c \in Calls : WF_vars(CallStep(c))) /\ WF_vars(Tick)

-----------------------------------------------------------------------------
(* Properties.                                                             *)

(* A method that waits reports success only of a transaction that is in     *)
(* effect on the chain, whatever the node answered, lost or was asked       *)
(* twice: "so the UI reports success only after the transaction is          *)
(* confirmed on chain" (ui/src/hooks/useGovernance.ts 184-185).             *)
SuccessIsConfirmed ==
  \A c \in Calls : outcome[c] = "success" => tx[c] = "applied"

(* A transaction that a waiting method sent once and reported as failed has *)
(* no effect, now or later: the caller may try again without doing it twice.*)
(* A timeout or an exception promises nothing, and neither does the refusal *)
(* of a transaction that was sent before.                                   *)
FailureIsFinal ==
  \A c \in Calls :
    outcome[c] = "failed" /\ sends[c] = 1 => tx[c] \in {"none", "failed"}

(* A call ends, or hands back its transaction, whatever the network does.   *)
EveryCallSettles ==
  \A c \in Calls :
    (kind[c] # NotBegun /\ outcome[c] = "none") ~> (At(c, "submit") \/ outcome[c] # "none")

(* claimAllFees returns transactions of which none makes another void:      *)
(* "Claim all available fees" (sdk/src/governance.ts 677-678).              *)
ClaimsDoNotCollide ==
  \A c, d \in Calls : batch /\ c # d /\ tx[c] \in {"applied", "failed"} /\ At(d, "submit")
                        => built[d] > sequence
=============================================================================
