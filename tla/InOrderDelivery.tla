-------------------------- MODULE InOrderDelivery --------------------------
(***************************************************************************)
(* What a keeper wants of an event feed: every event of the chain is        *)
(* handled, in the order of the chain, none is passed over. How often an    *)
(* event is handled is not said here.                                       *)
(*                                                                          *)
(* An event is a pair <<ledger, index within the ledger>>.                  *)
(***************************************************************************)
EXTENDS Integers

VARIABLES
  emitted,   \* the events the chain has emitted
  handled    \* the events handled so far

dvars == <<emitted, handled>>

Before(e, f) == e[1] < f[1] \/ (e[1] = f[1] /\ e[2] < f[2])

Init == emitted = {} /\ handled = {}

(* The chain emits events after those it has emitted.                       *)
Emit ==
  /\ emitted \subseteq emitted'
  /\ \A e \in emitted' \ emitted, f \in emitted : Before(f, e)
  /\ UNCHANGED handled

(* The keeper handles events, leaving no earlier one behind.                *)
Handle ==
  /\ handled \subseteq handled'
  /\ handled' \subseteq emitted
  /\ \A e \in handled', f \in emitted : Before(f, e) => f \in handled'
  /\ UNCHANGED emitted

Next == Emit \/ Handle

Spec == Init /\ [][Next]_dvars
=============================================================================
