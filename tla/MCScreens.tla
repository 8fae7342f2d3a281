------------------------------ MODULE MCScreens ------------------------------
(***************************************************************************)
(* The screens of the web application. They share no state, and what a      *)
(* screen awaits is a choice: a behaviour is one of a single screen, while  *)
(* the others stay as they were mounted, so that their states add up        *)
(* instead of multiplying. The vault card is extended, the others are       *)
(* instances beside it; fairness is what VaultCard states.                  *)
(***************************************************************************)
EXTENDS VaultCard

CONSTANTS
  Lists, Tokens, Targets, HasQuotes, MaxAsked,
  Proposals, States, Weeks, MaxAmount, RefreshesAtOnce,
  Strategies, MaxRuns,
  Registries, Records, Limit, MaxAnswer, MaxLoads,
  VaultLists, Users, Rounds,
  Tracks, Keep, MaxClock

VARIABLES
  screen,
  \* RewardPanel
  rewards, ticked, target, open, claims, isLoading, notice, quotes, quote, quoting,
  settings, settingChanges,
  \* GovernanceScreen
  form, signer, configured, walletAddress, refreshes, after, governanceLoading, failures,
  proposals, account, selected, vote, modal, writes, actionError, weeks,
  \* RebalanceScreen
  strategies, strategy, found, analysis, reload, listLoading, listError, run, rebalance,
  \* StrategyScreen
  given, loads, offers, offering, picked,
  \* VaultsBoard
  list, user, rounds, rows, overallLoading,
  \* VaultHistory
  clock, tracks, history, tracking, trackError

Panel == INSTANCE RewardPanel WITH
           selected <- ticked, waiting <- quoting, changes <- settingChanges
Governance == INSTANCE GovernanceScreen WITH
                keypair <- signer, reads <- refreshes, loading <- governanceLoading,
                errors <- failures, MaxReads <- RefreshesAtOnce
Rebalance == INSTANCE RebalanceScreen WITH
               listed <- strategies, selected <- strategy, proposals <- found,
               loading <- listLoading, error <- listError, tx <- rebalance

Selector == INSTANCE StrategyScreen
Board    == INSTANCE VaultsBoard
Points   == INSTANCE VaultHistory

(* The pending rewards of the screen, before and after some were paid.      *)
TwoLists == {<<"A", "B">>, <<"B">>}

(* The vaults of the board, before and after one was added.                 *)
TwoBoards == {{"v"}, {"v", "w"}}

(* There is something to convert to, and one round and one load at least;   *)
(* the lists of the registry and the history are not limited to nothing     *)
(* (limit is 50 and the history 30 points by default).                      *)
ASSUME ScreensAssumption ==
  /\ {MaxReads, RefreshesAtOnce, Limit, Keep} \subseteq Nat \ {0}
  /\ {MaxChanges, MaxWrites, MaxAsked, MaxAmount, MaxRuns, MaxClock, MaxAnswer} \subseteq Nat
  /\ Targets # {} /\ 1 \in Rounds /\ Board!NoUser \notin Users

panelVars == <<rewards, ticked, target, open, claims, isLoading, notice, quotes, quote,
               quoting, settings, settingChanges>>
governanceVars == <<form, signer, configured, walletAddress, refreshes, after,
                    governanceLoading, failures, proposals, account, selected, vote, modal,
                    writes, actionError, weeks>>
rebalanceVars == <<strategies, strategy, found, analysis, reload, listLoading, listError, run,
                   rebalance>>
selectorVars == <<given, loads, offers, offering, picked>>
boardVars    == <<list, user, rounds, rows, overallLoading>>
pointsVars   == <<clock, tracks, history, tracking, trackError>>
otherVars    == <<selectorVars, boardVars, pointsVars>>
screensVars == <<screen, vars, panelVars, governanceVars, rebalanceVars, otherVars>>

(* Where a screen may begin in several ways, the others begin in one.       *)
ScreensInit ==
  /\ screen \in {"card", "panel", "governance", "rebalance", "selector", "board", "points"}
  /\ Init /\ Panel!Init /\ Governance!Init /\ Rebalance!Init
  /\ Selector!Init /\ Board!Init /\ Points!Init
  /\ screen # "card" => ~keypair
  /\ screen # "panel" => rewards = CHOOSE l \in Lists : TRUE
  /\ screen # "governance" => ~signer /\ form = "vote" /\ configured = Governance!Roles
  /\ screen # "selector" => given = Selector!NoRegistry
  /\ screen # "board" => list = Board!Vaults /\ user = CHOOSE u \in Users : TRUE

CardDoes(Step) ==
  screen = "card" /\ Step /\ UNCHANGED <<screen, panelVars, governanceVars, rebalanceVars,
                                   otherVars>>

PanelMoves ==
  screen = "panel" /\ Panel!Next /\ UNCHANGED <<screen, vars, governanceVars, rebalanceVars,
                                   otherVars>>

GovernanceMoves ==
  screen = "governance" /\ Governance!Next /\ UNCHANGED <<screen, vars, panelVars, rebalanceVars,
                                   otherVars>>

RebalanceMoves ==
  screen = "rebalance" /\ Rebalance!Next /\ UNCHANGED <<screen, vars, panelVars, governanceVars,
                                   otherVars>>

SelectorMoves ==
  screen = "selector" /\ Selector!Next
  /\ UNCHANGED <<screen, vars, panelVars, governanceVars, rebalanceVars, boardVars, pointsVars>>

BoardMoves ==
  screen = "board" /\ Board!Next
  /\ UNCHANGED <<screen, vars, panelVars, governanceVars, rebalanceVars, selectorVars, pointsVars>>

PointsMove ==
  screen = "points" /\ Points!Next
  /\ UNCHANGED <<screen, vars, panelVars, governanceVars, rebalanceVars, selectorVars, boardVars>>

ScreensNext ==
  \/ CardDoes(Next) \/ PanelMoves \/ GovernanceMoves \/ RebalanceMoves
  \/ SelectorMoves \/ BoardMoves \/ PointsMove

ScreensSpec ==
  /\ ScreensInit /\ [][ScreensNext]_screensVars
  /\ WF_screensVars(CardDoes(refresh))
  /\ \A i \in Ids : SF_screensVars(CardDoes(\E okVault, okState \in BOOLEAN :
                                               Settle(i, okVault, TRUE, okState)))

-----------------------------------------------------------------------------
(* The properties of the screens, as their modules state them.              *)

(* What a banner tells of a transaction is true, and no button sends a      *)
(* second one beside one that is under way; a selector, a board and a       *)
(* history that are not loading are complete and in order. (The variables   *)
(* have the types that their modules give them, too.)                       *)
ScreensTellTheTruth ==
  /\ TypeOK /\ Panel!TypeOK /\ Governance!TypeOK /\ Rebalance!TypeOK
  /\ BannerIsOfLastWrite
  /\ Rebalance!ConfirmedWasExecuted
  /\ Panel!OneClaimInFlight
  /\ Governance!OneWritePerForm
  /\ Selector!ChoiceIsSound /\ Board!BoardIsComplete /\ Points!HistoryInOrder

(* The position the vault card shows ends up being the active account's.    *)
ActiveShownInTheEnd == screen = "card" => ShowsActiveInTheEnd
=============================================================================
