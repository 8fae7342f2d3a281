-------------------------- MODULE WriteRateLimiter --------------------------
(***************************************************************************)
(* The limiter keepers write through, sdk/src/utils/rateLimiter.ts.         *)
(*                                                                          *)
(* Callers hand it writes; it queues them, starts them in order, at most    *)
(* maxConcurrent at a time and at least minIntervalMs apart, and settles    *)
(* the caller's promise with the outcome of the write. It is one JavaScript *)
(* object: code runs to its next await without interruption. drain is the   *)
(* only code that awaits, in the middle of its loop, so its iterations are  *)
(* steps and nothing else moves while its loop is running ("loop"). A task  *)
(* is settled in one microtask and releases its place in a later one.       *)
(*                                                                          *)
(* The counters of stats are left out, but for inFlight.                    *)
(***************************************************************************)
EXTENDS Integers, Sequences, FiniteSets

CONSTANTS
  NumTasks,        \* the writes callers may submit, numbered 1 .. NumTasks
  Throwing,        \* the tasks that throw before they return a promise
  minIntervalMs,
  maxConcurrent,
  maxQueue

Tasks == 1..NumTasks

LimiterAssumption ==
  /\ NumTasks \in Nat /\ Throwing \subseteq Tasks
  /\ minIntervalMs \in Nat /\ maxConcurrent \in Nat \ {0} /\ maxQueue \in Nat \ {0}

VARIABLES
  queue,       \* the tasks waiting to start
  status,      \* of every task: what its caller and the limiter know of it
  inFlight,    \* the limiter's count of running tasks
  sinceStart,  \* time since lastStart, counted up to minIntervalMs
  drain,       \* where drain is: "off", "loop" or "sleeping"
  sleepLeft    \* what is left of its sleep

vars == <<queue, status, inFlight, sinceStart, drain, sleepLeft>>

(* unsent, queued, running, settled (outcome known, place not yet           *)
(* released), done, rejected (the queue was full), thrown (before it        *)
(* returned a promise).                                                     *)
Statuses == {"unsent", "queued", "running", "settled", "done", "rejected", "thrown"}

Init ==
  /\ queue = <<>>
  /\ status = [t \in Tasks |-> "unsent"]
  /\ inFlight = 0
  /\ sinceStart = minIntervalMs        \* never: the first start does not wait
  /\ drain = "off"
  /\ sleepLeft = 0

(* A call of drain does nothing while one is under way.                     *)
CallDrain == drain' = IF drain = "off" THEN "loop" ELSE drain

(* schedule.                                                                *)
Schedule(t) ==
  /\ drain # "loop"
  /\ status[t] = "unsent"
  /\ \/ /\ Len(queue) >= maxQueue
        /\ status' = [status EXCEPT ![t] = "rejected"]
        /\ UNCHANGED <<queue, drain>>
     \/ /\ Len(queue) < maxQueue
        /\ status' = [status EXCEPT ![t] = "queued"]
        /\ queue' = Append(queue, t)
        /\ CallDrain
  /\ UNCHANGED <<inFlight, sinceStart, sleepLeft>>

(* Mutant: a wait that ends one unit early.                                 *)
WaitShort == minIntervalMs - sinceStart - 1

Wait == minIntervalMs - sinceStart

(* Mutant: one place too many.                                              *)
MayStartOneMore == queue # <<>> /\ inFlight <= maxConcurrent

(* The head of the loop: go on while a task waits and a place is free.      *)
MayStart == queue # <<>> /\ inFlight < maxConcurrent

(* drain takes the next task and run calls it. A task that throws here      *)
(* leaves run, and with it the loop: finally clears the flag, and neither   *)
(* the caller nor the count hears of the task again.                        *)
StartNext ==
  /\ queue' = Tail(queue)
  /\ sinceStart' = 0
  /\ inFlight' = inFlight + 1
  /\ IF Head(queue) \in Throwing
     THEN /\ status' = [status EXCEPT ![Head(queue)] = "thrown"]
          /\ drain' = "off"
     ELSE /\ status' = [status EXCEPT ![Head(queue)] = "running"]
          /\ drain' = "loop"

(* One pass of the loop: leave it, sleep, or start a task.                  *)
DrainLoop ==
  /\ drain = "loop"
  /\ \/ /\ ~MayStart
        /\ drain' = "off"
        /\ UNCHANGED <<queue, status, inFlight, sinceStart, sleepLeft>>
     \/ /\ MayStart
        /\ Wait > 0
        /\ drain' = "sleeping"
        /\ sleepLeft' = Wait
        /\ UNCHANGED <<queue, status, inFlight, sinceStart>>
     \/ /\ MayStart
        /\ Wait <= 0
        /\ StartNext
        /\ UNCHANGED sleepLeft

(* The sleep is over: take a task, without looking at the guards again.     *)
DrainWakes ==
  /\ drain = "sleeping"
  /\ sleepLeft = 0
  /\ \/ /\ queue = <<>>
        /\ drain' = "off"
        /\ UNCHANGED <<queue, status, inFlight, sinceStart>>
     \/ /\ queue # <<>>
        /\ StartNext
  /\ UNCHANGED sleepLeft

(* A task's promise resolves or rejects, and the caller's with it.          *)
Settle(t) ==
  /\ drain # "loop"
  /\ status[t] = "running"
  /\ status' = [status EXCEPT ![t] = "settled"]
  /\ UNCHANGED <<queue, inFlight, sinceStart, drain, sleepLeft>>

(* Mutant: the place is given back and drain is not called.                 *)
ReleaseSilently(t) ==
  /\ drain # "loop"
  /\ status[t] = "settled"
  /\ status' = [status EXCEPT ![t] = "done"]
  /\ inFlight' = inFlight - 1
  /\ UNCHANGED <<queue, sinceStart, drain, sleepLeft>>

(* Its finally handler gives the place back and calls drain.                *)
Release(t) ==
  /\ drain # "loop"
  /\ status[t] = "settled"
  /\ status' = [status EXCEPT ![t] = "done"]
  /\ inFlight' = inFlight - 1
  /\ CallDrain
  /\ UNCHANGED <<queue, sinceStart, sleepLeft>>

(* Time passes; the limiter looks at no more of it than minIntervalMs.       *)
Tick ==
  /\ drain # "loop"
  /\ sinceStart < minIntervalMs
  /\ sinceStart' = sinceStart + 1
  /\ sleepLeft' = IF sleepLeft > 0 THEN sleepLeft - 1 ELSE 0
  /\ UNCHANGED <<queue, status, inFlight, drain>>

-----------------------------------------------------------------------------
LimiterStep == DrainLoop \/ DrainWakes

Next ==
  \/ \E t \in Tasks : Schedule(t) \/ Settle(t) \/ Release(t)
  \/ LimiterStep
  \/ Tick

Spec == Init /\ [][Next]_vars

(* JavaScript runs what is ready, timers fire, time passes, and a write     *)
(* that was started ends (the RPC calls behind it have timeouts); nobody    *)
(* has to submit writes.                                                    *)
FairSpec ==
  /\ Spec
  /\ WF_vars(LimiterStep) /\ WF_vars(Tick)
  /\ \A t \in Tasks : WF_vars(Settle(t)) /\ WF_vars(Release(t))

-----------------------------------------------------------------------------
(* Properties.                                                             *)

Running == {t \in Tasks : status[t] \in {"running", "settled"}}
Thrown  == {t \in Tasks : status[t] = "thrown"}

(* The count the limiter decides by is the number of tasks under way and of *)
(* those that threw, and it never exceeds maxConcurrent: the guard before   *)
(* the sleep still holds after it, whatever was settled or submitted        *)
(* meanwhile.                                                               *)
InFlightBounded ==
  /\ inFlight = Cardinality(Running) + Cardinality(Thrown)
  /\ inFlight <= maxConcurrent

(* Tasks start in the order they were submitted, at least minIntervalMs     *)
(* apart.                                                                   *)
PacedInOrder ==
  [][\A t \in Tasks : status[t] = "queued" /\ status'[t] # "queued"
       => t = Head(queue) /\ sinceStart = minIntervalMs]_vars

(* Every write accepted is settled in the end: "Resolves with the task's    *)
(* result, or rejects if the task throws or the queue is full"              *)
(* (rateLimiter.ts 88-89). A task that threw before it returned a promise   *)
(* excuses all: its own caller hears nothing, and the tasks behind it wait  *)
(* for somebody to call drain.                                              *)
EveryWriteSettles ==
  \A t \in Tasks : status[t] = "queued" ~> status[t] \in {"settled", "done"} \/ Thrown # {}
=============================================================================
