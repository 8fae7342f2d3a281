-------------------------- MODULE RebalanceScreen --------------------------
(* The rebalance screen of the web application: RebalancePanel over the hook  *)
(* useTxStatus.                                                               *)
(*                                                                            *)
(* The buttons are disabled while useTxStatus says that a transaction is in   *)
(* flight.  But Execute asks the wallet first, in a step of its own, and      *)
(* until it has answered the hook says idle.                                  *)
EXTENDS Naturals

CONSTANTS Strategies,  \* the strategies of the engine, numbered
          MaxRuns      \* bound: presses of Execute

None == 0
Runs == 1 .. MaxRuns

VARIABLES listed,      \* the strategies loaded
          selected,    \* selectedStrategy
          proposals,   \* the strategy the proposals shown were found for
          analysis,    \* the strategy being analysed
          reload,      \* whether the mount's or the button's loadData runs
          loading, error,
          run,         \* per press of Execute, how far it came
          tx           \* useTxStatus: txStatus and the run whose hash it shows

vars == <<listed, selected, proposals, analysis, reload, loading, error, run, tx>>
list == <<listed, selected, reload, loading>>

Ended == {"success", "failure", "thrown", "refused"}

TypeOK ==
  /\ listed \subseteq Strategies
  /\ {selected, proposals, analysis} \subseteq Strategies \cup {None}
  /\ {reload, loading, error} \subseteq BOOLEAN
  /\ run \in [Runs -> Ended \cup {"none", "checking", "running"} \cup
                     {"confirming", "denying"}]
  /\ tx \in [status: {"idle", "submitting", "confirmed", "failed"},
             hash: Runs \cup {None}]

Init ==
  /\ listed = {} /\ selected = None /\ proposals = None /\ analysis = None
  /\ reload = TRUE /\ loading = TRUE /\ error = FALSE
  /\ run = [r \in Runs |-> "none"] /\ tx = [status |-> "idle", hash |-> None]

isTxInFlight == tx.status = "submitting"

-----------------------------------------------------------------------------
(* loadData.  The list goes back to its first strategy, whatever was          *)
(* selected; only a spinner is on the screen meanwhile.                       *)
Loaded ==
  /\ loading' = FALSE
  /\ \/ /\ listed' \in {{}, Strategies}
        /\ selected' = IF listed' = {} THEN selected ELSE CHOOSE s \in Strategies : TRUE
        /\ UNCHANGED error
     \/ error' = TRUE /\ UNCHANGED <<listed, selected>>

LoadEnds ==
  /\ reload
  /\ reload' = FALSE
  /\ Loaded
  /\ UNCHANGED <<proposals, analysis, run, tx>>

Refresh ==
  /\ ~loading /\ selected # None /\ ~isTxInFlight /\ ~reload
  /\ reload' = TRUE /\ loading' = TRUE /\ error' = FALSE
  /\ UNCHANGED <<listed, selected, proposals, analysis, run, tx>>

(* The proposals of the strategy selected before stay on the screen.          *)
Select ==
  /\ ~loading
  /\ selected' \in listed \ {selected}
  /\ UNCHANGED <<listed, reload, loading, proposals, analysis, error, run, tx>>

handleAnalyzeOpportunities ==
  /\ ~loading /\ selected # None /\ analysis = None /\ ~isTxInFlight
  /\ analysis' = selected
  /\ error' = FALSE
  /\ UNCHANGED <<list, proposals, run, tx>>

AnalysisEnds ==
  /\ analysis # None
  /\ analysis' = None
  /\ \/ proposals' \in {None, analysis} /\ UNCHANGED error
     \/ error' = TRUE /\ UNCHANGED proposals
  /\ UNCHANGED <<list, run, tx>>

-----------------------------------------------------------------------------
(* handleExecuteRebalance: the banner and the error are reset at once; then   *)
(* the wallet is asked whether it is connected.                               *)
Execute(r) ==
  /\ ~loading /\ selected # None /\ proposals # None /\ ~isTxInFlight
  /\ run[r] = "none"
  /\ tx' = [status |-> "idle", hash |-> None]
  /\ \/ run' = [run EXCEPT ![r] = "checking"] /\ error' = FALSE
     \/ run' = [run EXCEPT ![r] = "refused"] /\ error' = TRUE
  /\ UNCHANGED <<list, proposals, analysis>>

WalletAnswers(r) ==
  /\ run[r] = "checking"
  /\ \/ /\ run' = [run EXCEPT ![r] = "running"]
        /\ tx' = [status |-> "submitting", hash |-> None]
        /\ UNCHANGED error
     \/ /\ run' = [run EXCEPT ![r] = "refused"]
        /\ error' = TRUE
        /\ UNCHANGED tx
  /\ UNCHANGED <<list, proposals, analysis>>

(* executeRebalance returned: the list is loaded again before runTx tells.    *)
Returns(r) ==
  /\ run[r] = "running"
  /\ \E stage \in {"confirming", "denying"} : run' = [run EXCEPT ![r] = stage]
  /\ loading' = TRUE /\ error' = FALSE
  /\ UNCHANGED <<listed, selected, reload, proposals, analysis, tx>>

Reloaded(r) ==
  /\ run[r] \in {"confirming", "denying"}
  /\ LET confirmed == run[r] = "confirming"
     IN /\ run' = [run EXCEPT ![r] = IF confirmed THEN "success" ELSE "failure"]
        /\ tx' = [status |-> IF confirmed THEN "confirmed" ELSE "failed", hash |-> r]
  /\ Loaded
  /\ UNCHANGED <<reload, proposals, analysis>>

(* The hash shown is left alone.                                              *)
Throws(r) ==
  /\ run[r] = "running"
  /\ run' = [run EXCEPT ![r] = "thrown"]
  /\ tx' = [tx EXCEPT !.status = "failed"]
  /\ UNCHANGED <<list, proposals, analysis, error>>

resetTx ==
  /\ ~loading /\ tx.status \in {"confirmed", "failed"}
  /\ tx' = [status |-> "idle", hash |-> None]
  /\ UNCHANGED <<list, proposals, analysis, error, run>>

Next ==
  \/ LoadEnds \/ Refresh \/ Select \/ handleAnalyzeOpportunities \/ AnalysisEnds
  \/ \E r \in Runs : \/ Execute(r) \/ WalletAnswers(r) \/ Returns(r)
                     \/ Reloaded(r) \/ Throws(r)
  \/ resetTx

Spec == Init /\ [][Next]_vars

-----------------------------------------------------------------------------
(* Two runs may overlap, but the banner never says confirmed, with a hash, of *)
(* a rebalance that was not confirmed.                                        *)
ConfirmedWasExecuted == tx.status = "confirmed" => run[tx.hash] = "success"

=============================================================================
