----------------------------- MODULE VaultHistory -----------------------------
(***************************************************************************)
(* The hook of the web application that keeps the last points of a vault's  *)
(* performance, useVaultPerformance (ui/src/hooks/useYieldVault.ts). Each   *)
(* call of trackPerformance reads the APY and the TVL and appends a point   *)
(* when both are settled; calls may be under way together.                  *)
(***************************************************************************)
EXTENDS Integers, Sequences

CONSTANTS
  Tracks,       \* bound: calls of trackPerformance under way
  Keep,         \* the 30 points that are kept
  MaxClock      \* bound on the clock

VARIABLES
  clock,
  tracks,       \* per call under way: when it began, or NoTrack
  history,      \* [apy, tvl, time]: apyHistory, tvlHistory and timestamps
  tracking,     \* loading
  trackError    \* error

vars == <<clock, tracks, history, tracking, trackError>>

NoTrack == -1

Init ==
  /\ clock = 0 /\ tracks = [t \in Tracks |-> NoTrack]
  /\ history = [apy |-> <<>>, tvl |-> <<>>, time |-> <<>>]
  /\ tracking = FALSE /\ trackError = FALSE

Tick ==
  /\ clock < MaxClock
  /\ clock' = clock + 1
  /\ UNCHANGED <<tracks, history, tracking, trackError>>

BeginTrack(t) ==
  /\ tracks[t] = NoTrack
  /\ tracks' = [tracks EXCEPT ![t] = clock]
  /\ tracking' = TRUE /\ trackError' = FALSE
  /\ UNCHANGED <<clock, history>>

(* slice(-n).                                                               *)
Newest(seq, n) == SubSeq(seq, IF Len(seq) > n THEN Len(seq) - n + 1 ELSE 1, Len(seq))

(* Mutant: the point is of the time the call began.                         *)
StampedWhenAsked(t) == tracks[t]

timestamp(t) == clock

(* Both reads are settled. What could not be read is recorded as 0, which   *)
(* stands for a failure here and for nothing else; the error is shown until *)
(* the next call begins.                                                    *)
trackPerformance(t) ==
  /\ tracks[t] # NoTrack
  /\ tracks' = [tracks EXCEPT ![t] = NoTrack]
  /\ \E apy, tvl \in {0, 1} :
       /\ history' = [apy  |-> Append(Newest(history.apy, Keep - 1), apy),
                      tvl  |-> Append(Newest(history.tvl, Keep - 1), tvl),
                      time |-> Append(Newest(history.time, Keep - 1), timestamp(t))]
       /\ trackError' = (trackError \/ apy = 0 \/ tvl = 0)
  /\ tracking' = FALSE
  /\ UNCHANGED clock

Next == Tick \/ \E t \in Tracks : BeginTrack(t) \/ trackPerformance(t)

Spec == Init /\ [][Next]_vars

-----------------------------------------------------------------------------
(* Properties.                                                             *)

(* The three histories are of the same points, in the order of their times, *)
(* though calls overtake one another; and while no call is under way, a     *)
(* last point that was not read is told by an error.                        *)
HistoryInOrder ==
  LET n == Len(history.time) IN
  /\ Len(history.apy) = n /\ Len(history.tvl) = n /\ n <= Keep
  /\ \A i, j \in 1..n : i < j => history.time[i] <= history.time[j]
  /\ (n > 0 /\ \A t \in Tracks : tracks[t] = NoTrack) =>
       (0 \in {history.apy[n], history.tvl[n]} => trackError)
=============================================================================
