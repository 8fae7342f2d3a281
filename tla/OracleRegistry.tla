--------------------------- MODULE OracleRegistry ---------------------------
(***************************************************************************)
(* The oracle registry, src/oracle_registry.rs: feeds of observed prices,   *)
(* each with its own publishers, its own age limit and a fallback feed.     *)
(* The admin's calls are open to whoever the admin is: who calls is left    *)
(* out, but for the feeders.                                                *)
(***************************************************************************)
EXTENDS Integers, Sequences, FiniteSetsExt

CONSTANTS
  Pools, Feeders,
  Prices, Thresholds,    \* what is published, and the ages the admin names
  DefaultFreshness,      \* DEFAULT_FRESHNESS_SECS
  MaxObservations,       \* MAX_OBSERVATIONS
  MaxTime, MaxCalls      \* bounds on now and calls

(* Ages are in seconds, and a window has room for an observation.           *)
OracleAssumption ==
  /\ Thresholds \subseteq Nat /\ DefaultFreshness \in Nat
  /\ MaxObservations \in Nat \ {0}

VARIABLES
  feeds,     \* the feeds, by their pools
  newest,    \* history: the last observation that was published of every pool
  now, calls

oracleVars == <<feeds, newest, now, calls>>

NoObservation == [price |-> 0, timestamp |-> 0]

Init == feeds = <<>> /\ newest = [p \in Pools |-> NoObservation] /\ now = 1 /\ calls = 0

Called == calls < MaxCalls /\ calls' = calls + 1

-----------------------------------------------------------------------------
(* The list of feeders may be empty, whatever its comment says (149).       *)
RegisterFeed(p, feeders, secs, fallback, has_fallback) ==
  /\ Called
  /\ p \notin DOMAIN feeds
  /\ feeds' = [q \in DOMAIN feeds \cup {p} |->
                 IF q # p THEN feeds[q]
                 ELSE [feeders |-> feeders,
                       threshold |-> IF secs = 0 THEN DefaultFreshness ELSE secs,
                       observations |-> <<>>,
                       has_fallback |-> has_fallback, fallback |-> fallback]]
  /\ UNCHANGED <<newest, now>>

(* Here 0 is no default: only an observation of this second is fresh.       *)
SetFreshnessThreshold(p, secs) ==
  /\ Called
  /\ feeds' = [feeds EXCEPT ![p].threshold = secs]
  /\ UNCHANGED <<newest, now>>

AddFeeder(p, f) ==
  /\ Called
  /\ f \notin feeds[p].feeders
  /\ feeds' = [feeds EXCEPT ![p].feeders = @ \cup {f}]
  /\ UNCHANGED <<newest, now>>

RemoveFeeder(p, f) ==
  /\ Called
  /\ f \in feeds[p].feeders
  /\ feeds' = [feeds EXCEPT ![p].feeders = @ \ {f}]
  /\ UNCHANGED <<newest, now>>

SetFallbackFeed(p, fallback, has_fallback) ==
  /\ Called
  /\ feeds' = [feeds EXCEPT ![p].fallback = fallback, ![p].has_fallback = has_fallback]
  /\ UNCHANGED <<newest, now>>

(* Mutant: a full window takes nothing more.                                *)
WindowThatFills(observations, o) ==
  IF Len(observations) >= MaxObservations THEN observations ELSE Append(observations, o)

(* A full window loses its oldest observation.                              *)
Window(observations, o) ==
  IF Len(observations) >= MaxObservations THEN Append(Tail(observations), o)
  ELSE Append(observations, o)

PublishPrice(f, p, price) ==
  /\ Called
  /\ f \in feeds[p].feeders
  /\ LET o == [price |-> price, timestamp |-> now]
     IN /\ feeds' = [feeds EXCEPT ![p].observations = Window(@, o)]
        /\ newest' = [newest EXCEPT ![p] = o]
  /\ UNCHANGED now

Tick == now < MaxTime /\ now' = now + 1 /\ UNCHANGED <<feeds, newest, calls>>

-----------------------------------------------------------------------------
(* Prices.                                                                  *)

(* The observations of a feed that are fresh, and the last of them.         *)
Fresh(feed) ==
  {i \in DOMAIN feed.observations : now - feed.observations[i].timestamp <= feed.threshold}

latest_fresh_price(feed) == feed.observations[Max(Fresh(feed))].price

NoPrice == 0

(* One fallback is tried, by its own threshold; its own fallback is not.    *)
get_price(p) ==
  LET feed == feeds[p]
  IN IF Fresh(feed) # {} THEN latest_fresh_price(feed)
     ELSE IF /\ feed.has_fallback
             /\ feed.fallback \in DOMAIN feeds /\ Fresh(feeds[feed.fallback]) # {}
       THEN latest_fresh_price(feeds[feed.fallback])
     ELSE NoPrice

-----------------------------------------------------------------------------
Next ==
  \/ Tick
  \/ \E p, fallback \in Pools, b \in BOOLEAN :
       \E feeders \in SUBSET Feeders, secs \in Thresholds :
         RegisterFeed(p, feeders, secs, fallback, b)
  \/ \E p \in DOMAIN feeds :
       \/ \E secs \in Thresholds : SetFreshnessThreshold(p, secs)
       \/ \E f \in Feeders : \/ AddFeeder(p, f) \/ RemoveFeeder(p, f)
                             \/ \E price \in Prices : PublishPrice(f, p, price)
       \/ \E fallback \in Pools, b \in BOOLEAN : SetFallbackFeed(p, fallback, b)

Spec == Init /\ [][Next]_oracleVars

-----------------------------------------------------------------------------
(* Properties.                                                             *)

NewestIsFresh(p) ==
  newest[p] # NoObservation /\ now - newest[p].timestamp <= feeds[p].threshold

(* A price that is served is the newest of its pool, or of the fallback     *)
(* where the pool's own is too old, and is not too old itself; where one of *)
(* them is fresh a price is served. Whatever the window has lost, however   *)
(* thresholds and fallbacks have been changed since.                        *)
PriceIsNewest ==
  \A p \in DOMAIN feeds :
    LET q == feeds[p].fallback
    IN get_price(p) =
         IF NewestIsFresh(p) THEN newest[p].price
         ELSE IF feeds[p].has_fallback /\ q \in DOMAIN feeds /\ NewestIsFresh(q)
           THEN newest[q].price
         ELSE NoPrice
=============================================================================
