--------------------------- MODULE KeeperListener ---------------------------
(***************************************************************************)
(* The event listener of the SDK, sdk/src/eventListener.ts, with its        *)
(* checkpoint, sdk/src/persistence.ts.                                      *)
(*                                                                          *)
(* A keeper polls an RPC node for the events of the contracts it watches,   *)
(* hands them to its handlers, moves its position and writes the position   *)
(* to a store, from which a restarted process resumes. One poll is several  *)
(* steps, one per await of runPoll: between two of them the chain grows and *)
(* the process may die. Polls are chained and never overlap, so one poll is *)
(* modelled at a time. The page is processed without an await; a handler    *)
(* that throws, or a crash, ends the processing after any of its events.    *)
(*                                                                          *)
(* The store is configured and the options autoRestore and persistOnPoll    *)
(* have their defaults. start and stop only decide who calls poll, which    *)
(* anyone may call: they are no steps here. Event names and payloads are    *)
(* left out; an event is its place in the chain, <<ledger, index>>.         *)
(***************************************************************************)
EXTENDS Integers, Sequences, FiniteSets

CONSTANTS
  StartLedger,    \* config.startLedger
  PageSize,       \* config.pageSize
  EventIds,       \* TRUE: the RPC node supplies event ids
  MaxLedger,      \* bound on the chain
  MaxPerLedger,   \* bound on the events of a ledger
  MaxFaults       \* bound on the crashes and failures together

ListenerAssumption ==
  /\ StartLedger \in Nat /\ PageSize \in Nat \ {0} /\ EventIds \in BOOLEAN
  /\ MaxLedger \in Nat /\ MaxPerLedger \in Nat /\ MaxFaults \in Nat

VARIABLES
  chain,       \* the events of every closed ledger: a sequence of sequences of
               \* "ours" and "foreign" (from a contract that is not watched)
  pc,          \* where the process is in its poll
  cursor,      \* this.cursor: the first ledger not consumed
  paging,      \* this.pagingCursor: the event to continue after, or NoEvent
  restored,    \* this.restoreAttempted
  response,    \* the answer to the request: [events, latestLedger]
  store,       \* the stored checkpoint [nextLedger, eventCursor], or NoCheckpoint
  handled,     \* how often each event was handed to the handlers, capped at 2
  faults       \* crashes and failures so far

procVars == <<cursor, paging, restored, response>>
vars == <<chain, pc, procVars, store, handled, faults>>

NoEvent == <<0, 0>>
NoCheckpoint == [nextLedger |-> -1, eventCursor |-> NoEvent]
NoResponse == [events |-> {}, latestLedger |-> 0]

Before(e, f) == e[1] < f[1] \/ (e[1] = f[1] /\ e[2] < f[2])

-----------------------------------------------------------------------------
(* The chain and the RPC node (external).                                  *)

Slots == (1..MaxLedger) \X (1..MaxPerLedger)

Emitted == {e \in Slots : e[1] <= Len(chain) /\ e[2] <= Len(chain[e[1]])}

(* isAllowed: the events of the watched contracts.                          *)
Ours == {e \in Emitted : chain[e[1]][e[2]] = "ours"}

(* The events a request asks for.                                           *)
Matching ==
  IF paging # NoEvent THEN {e \in Emitted : Before(paging, e)}
  ELSE {e \in Emitted : e[1] >= cursor}

(* The node returns the first PageSize of them.                             *)
Page == {e \in Matching : Cardinality({f \in Matching : Before(f, e)}) < PageSize}

(* A ledger closes.                                                         *)
CloseLedger ==
  /\ Len(chain) < MaxLedger
  /\ \E n \in 0..MaxPerLedger : \E content \in [1..n -> {"ours", "foreign"}] :
       chain' = Append(chain, content)
  /\ UNCHANGED <<pc, procVars, store, handled, faults>>

-----------------------------------------------------------------------------
(* The poll.                                                               *)

Init ==
  /\ chain = <<>>
  /\ pc = "idle"
  /\ cursor = StartLedger
  /\ paging = NoEvent
  /\ restored = FALSE
  /\ response = NoResponse
  /\ store = NoCheckpoint
  /\ handled = [e \in Slots |-> 0]
  /\ faults = 0

Fault == faults < MaxFaults /\ faults' = faults + 1

(* poll: the first one of a process loads the checkpoint; the attempt is    *)
(* recorded before the load.                                                *)
BeginPoll ==
  /\ pc = "idle"
  /\ pc' = IF restored THEN "fetching" ELSE "restoring"
  /\ restored' = TRUE
  /\ UNCHANGED <<chain, cursor, paging, response, store, handled, faults>>

(* restore: the checkpoint wins over startLedger unless that is ahead.      *)
Restore ==
  /\ pc = "restoring"
  /\ pc' = "fetching"
  /\ IF store = NoCheckpoint
     THEN UNCHANGED <<cursor, paging>>
     ELSE /\ cursor' = IF store.nextLedger >= StartLedger THEN store.nextLedger ELSE StartLedger
          /\ paging' = IF store.nextLedger >= StartLedger THEN store.eventCursor ELSE NoEvent
  /\ UNCHANGED <<chain, restored, response, store, handled, faults>>

(* A checkpoint that cannot be read is reported and the poll goes on from   *)
(* startLedger.                                                             *)
RestoreFails ==
  /\ pc = "restoring"
  /\ Fault
  /\ pc' = "fetching"
  /\ UNCHANGED <<chain, procVars, store, handled>>

(* getEvents answers with a page and the latest ledger of the node.         *)
Fetch ==
  /\ pc = "fetching"
  /\ pc' = "processing"
  /\ response' = [events |-> Page, latestLedger |-> Len(chain)]
  /\ UNCHANGED <<chain, cursor, paging, restored, store, handled, faults>>

(* getEvents fails: the poll ends and the error is reported.                *)
FetchFails ==
  /\ pc = "fetching"
  /\ Fault
  /\ pc' = "idle"
  /\ UNCHANGED <<chain, procVars, store, handled>>

HandTo(events) ==
  handled' = [e \in Slots |-> IF e \in events /\ handled[e] < 2 THEN handled[e] + 1
                              ELSE handled[e]]

(* The position after a page. A page that is not full drained the feed: all *)
(* up to the latest ledger is consumed. After a full page the position is   *)
(* behind the highest event dispatched and, given ids, the next request     *)
(* continues after the last event of the page.                              *)
Drained == Cardinality(response.events) < PageSize

LastEvent == CHOOSE e \in response.events : \A f \in response.events : ~Before(e, f)

(* Mutants: no id is kept; an id is kept only of a watched event.           *)
NeverPaging == NoEvent
PagingAfterOurs ==
  IF ~Drained /\ EventIds /\ LastEvent \in Ours THEN LastEvent ELSE NoEvent

NextPaging == IF ~Drained /\ EventIds THEN LastEvent ELSE NoEvent

(* Mutant: a drained page consumes all but the latest ledger.               *)
ConsumedBeforeHead == IF Drained THEN response.latestLedger - 1 ELSE -1

ConsumedThrough ==
  LET dispatched == {e[1] : e \in response.events \cap Ours}
      highest    == IF dispatched = {} THEN -1
                    ELSE CHOOSE l \in dispatched : \A k \in dispatched : k <= l
  IN  IF Drained /\ response.latestLedger > highest THEN response.latestLedger ELSE highest

AdvanceCursor ==
  /\ paging' = NextPaging
  /\ cursor' = IF ConsumedThrough >= 0 /\ ConsumedThrough + 1 > cursor
               THEN ConsumedThrough + 1 ELSE cursor

(* processResponse.                                                         *)
ProcessResponse ==
  /\ pc = "processing"
  /\ pc' = "saving"
  /\ HandTo(response.events \cap Ours)
  /\ AdvanceCursor
  /\ response' = NoResponse
  /\ UNCHANGED <<chain, restored, store, faults>>

(* Mutant: the position moves although a handler threw.                     *)
HandlerThrowsAndAdvances ==
  /\ pc = "processing"
  /\ Fault
  /\ \E bad \in response.events \cap Ours :
       HandTo({e \in response.events \cap Ours : Before(e, bad)})
  /\ AdvanceCursor
  /\ pc' = "idle"
  /\ response' = NoResponse
  /\ UNCHANGED <<chain, restored, store>>

(* A handler throws: the events before were handled, the position stays and *)
(* nothing is written.                                                      *)
HandlerThrows ==
  /\ pc = "processing"
  /\ Fault
  /\ \E bad \in response.events \cap Ours :
       HandTo({e \in response.events \cap Ours : Before(e, bad)})
  /\ pc' = "idle"
  /\ response' = NoResponse
  /\ UNCHANGED <<chain, cursor, paging, restored, store>>

(* persist: the file store writes a temporary file and renames it, so a     *)
(* checkpoint is there as a whole or not at all.                            *)
Persist ==
  /\ pc = "saving"
  /\ pc' = "idle"
  /\ store' = [nextLedger |-> cursor, eventCursor |-> paging]
  /\ UNCHANGED <<chain, procVars, handled, faults>>

(* A write that fails is reported; the old checkpoint stays.                *)
PersistFails ==
  /\ pc = "saving"
  /\ Fault
  /\ pc' = "idle"
  /\ UNCHANGED <<chain, procVars, store, handled>>

(* The process dies, maybe in the middle of a page; only the store is left. *)
Crash ==
  /\ pc # "down"
  /\ Fault
  /\ pc' = "down"
  /\ \/ UNCHANGED handled
     \/ \E last \in response.events \cap Ours :
          HandTo({e \in response.events \cap Ours : ~Before(last, e)})
  /\ cursor' = StartLedger
  /\ paging' = NoEvent
  /\ restored' = FALSE
  /\ response' = NoResponse
  /\ UNCHANGED <<chain, store>>

Restart ==
  /\ pc = "down"
  /\ pc' = "idle"
  /\ UNCHANGED <<chain, procVars, store, handled, faults>>

-----------------------------------------------------------------------------
PollStep == BeginPoll \/ Restore \/ Fetch \/ ProcessResponse \/ Persist

FaultStep == RestoreFails \/ FetchFails \/ HandlerThrows \/ PersistFails \/ Crash

Next == CloseLedger \/ PollStep \/ FaultStep \/ Restart

Spec == Init /\ [][Next]_vars

(* The interval of start keeps calling poll, every await settles and a      *)
(* process that died is started again; nothing makes the chain grow.        *)
FairSpec == Spec /\ WF_vars(PollStep) /\ WF_vars(Restart)

-----------------------------------------------------------------------------
(* Properties.                                                             *)

(* A position says that every event before it has been consumed.            *)
Passed(nextLedger, eventCursor) ==
  {e \in Ours : /\ e[1] >= StartLedger
                /\ IF eventCursor # NoEvent THEN ~Before(eventCursor, e) ELSE e[1] < nextLedger}

(* Neither the position of the process nor the stored one ever passes an    *)
(* event that no handler has got: a poll, a page limit, a failure or a      *)
(* restart between any two steps skips nothing ("drains the backlog page by *)
(* page without losing anything", docs/KEEPER_RECOVERY.md).                 *)
NothingSkipped ==
  /\ \A e \in Passed(cursor, paging) : handled[e] > 0
  /\ store # NoCheckpoint =>
       \A e \in Passed(store.nextLedger, store.eventCursor) : handled[e] > 0

(* Without a fault no event is handled twice: pages neither overlap nor     *)
(* repeat.                                                                  *)
RepeatsOnlyAfterFaults == faults = 0 => \A e \in Slots : handled[e] <= 1

(* No event is ever handled twice: "it can neither skip an event nor replay *)
(* one" (docs/KEEPER_RECOVERY.md 41-42).                                    *)
NeverHandledTwice == \A e \in Slots : handled[e] <= 1

(* Every event of the watched contracts is handled in the end.              *)
EveryEventHandled ==
  \A e \in {s \in Slots : s[1] >= StartLedger} : e \in Ours ~> handled[e] > 0

(* The listener is an in-order delivery of the watched events from          *)
(* startLedger on.                                                          *)
Delivery == INSTANCE InOrderDelivery WITH
              emitted <- {e \in Ours : e[1] >= StartLedger},
              handled <- {e \in Ours : e[1] >= StartLedger /\ handled[e] > 0}

DeliveredInOrder == Delivery!Spec
=============================================================================
