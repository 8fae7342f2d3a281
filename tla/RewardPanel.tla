---------------------------- MODULE RewardPanel ----------------------------
(* The rewards screen of the web application (RewardDashboard): the selection *)
(* of pending rewards, the claim and the conversion, the quote that goes with *)
(* it, the auto-compound settings and the emergency withdrawal.               *)
(*                                                                            *)
(* Each handler awaits a callback of the page, and the page may replace the   *)
(* pending rewards under the screen at any time.  The selection is a set of   *)
(* positions in that list, so a claim can name another reward than the one    *)
(* that was ticked; nor does a quote know the token it was asked for.         *)
EXTENDS Naturals, Sequences, FiniteSets

CONSTANTS Lists,     \* the lists of pending rewards the page may give
          Tokens,    \* the tokens of those lists
          Targets,   \* the tokens to convert to
          HasQuotes, \* whether the page gives a quote provider
          MaxAsked   \* bound: quotes, and settings, in flight at once

None == "none"
Asked == 1 .. MaxAsked
Kinds == {"claim", "convert", "emergency"}

VARIABLES rewards,   \* pendingRewards: the tokens, in the order shown
          selected,  \* selectedStreams: positions in that list
          target,    \* convertToToken
          open,      \* the panels open
          claims,    \* the claims, conversions and withdrawals under way
          isLoading,
          notice,    \* the banners shown: of "success", "error", "quote"
          quotes,    \* per quote in flight, its target token
          quote,     \* swapQuote: the token it was asked for, or None
          waiting,   \* isLoadingQuote
          settings,  \* autoCompoundConfigs: per token, whether enabled
          changes    \* per setting in flight, the token and its value

vars == <<rewards, selected, target, open, claims, isLoading, notice, quotes,
          quote, waiting, settings, changes>>

Setting == [token: Tokens, enabled: BOOLEAN]
NoSetting == [token |-> None, enabled |-> FALSE]
Panels == {"convert", "compound", "history"}

TypeOK ==
  /\ rewards \in Lists
  /\ selected \subseteq UNION {DOMAIN l : l \in Lists}
  /\ target \in Targets /\ open \subseteq Panels
  /\ claims \in [Kinds -> 0 .. 2] /\ isLoading \in BOOLEAN
  /\ notice \subseteq {"success", "error", "quote"}
  /\ quotes \in [Asked -> Targets \cup {None}]
  /\ quote \in Targets \cup {None} /\ waiting \in BOOLEAN
  /\ settings \in [Tokens -> BOOLEAN]
  /\ changes \in [Asked -> Setting \cup {NoSetting}]

Init ==
  /\ rewards \in Lists /\ selected = {} /\ target = CHOOSE t \in Targets : TRUE
  /\ open = {} /\ claims = [k \in Kinds |-> 0] /\ isLoading = FALSE
  /\ notice = {} /\ quotes = [i \in Asked |-> None] /\ quote = None
  /\ waiting = FALSE /\ settings = [t \in Tokens |-> FALSE]
  /\ changes = [i \in Asked |-> NoSetting]

quoting == <<quotes, quote, waiting>>
compounding == <<settings, changes>>
claiming == <<claims, isLoading>>

-----------------------------------------------------------------------------
(* Nothing adjusts the selection to a new list.                               *)
RewardsChange ==
  /\ rewards' \in Lists \ {rewards}
  /\ UNCHANGED <<selected, target, open, notice, claiming, quoting, compounding>>

handleStreamToggle ==
  /\ \E i \in DOMAIN rewards :
        selected' = IF i \in selected THEN selected \ {i} ELSE selected \cup {i}
  /\ UNCHANGED <<rewards, target, open, notice, claiming, quoting, compounding>>

(* The sizes are compared, not the members.                                   *)
handleSelectAll ==
  /\ selected' = IF Cardinality(selected) = Len(rewards) THEN {}
                 ELSE DOMAIN rewards
  /\ UNCHANGED <<rewards, target, open, notice, claiming, quoting, compounding>>

(* The buttons of a row: it alone is selected, and the second one opens the   *)
(* conversion, whether or not a claim is under way.                           *)
SelectRow ==
  /\ \E i \in DOMAIN rewards : selected' = {i}
  /\ open' \in {open, open \cup {"convert"}}
  /\ UNCHANGED <<rewards, target, notice, claiming, quoting, compounding>>

Toggle(panel) ==
  /\ panel = "convert" => panel \in open \/ (selected # {} /\ ~isLoading)
  /\ open' = IF panel \in open THEN open \ {panel} ELSE open \cup {panel}
  /\ UNCHANGED <<rewards, selected, target, notice, claiming, quoting, compounding>>

Dismiss ==
  /\ \E n \in notice \ {"quote"} : notice' = notice \ {n}
  /\ UNCHANGED <<rewards, selected, target, open, claiming, quoting, compounding>>

-----------------------------------------------------------------------------
(* Mutant: the button of the conversion stays enabled while a claim runs.     *)
MayStartAnyConversion(kind) ==
  /\ kind # "convert" => ~isLoading
  /\ kind = "claim" => selected # {}
  /\ kind = "convert" => selected # {} /\ "convert" \in open

(* handleClaim, handleClaimAndConvert and handleEmergencyWithdraw return when *)
(* nothing is selected, and their buttons are disabled while isLoading.       *)
MayStart(kind) ==
  /\ ~isLoading
  /\ kind = "claim" => selected # {}
  /\ kind = "convert" => selected # {} /\ "convert" \in open

Start(kind) ==
  /\ MayStart(kind)
  /\ claims[kind] < 2
  /\ claims' = [claims EXCEPT ![kind] = @ + 1]
  /\ isLoading' = TRUE
  /\ notice' = IF kind = "emergency" THEN notice \ {"error"}
               ELSE notice \ {"error", "success"}
  /\ UNCHANGED <<rewards, selected, target, open, quoting, compounding>>

Finish(kind) ==
  /\ claims[kind] > 0
  /\ claims' = [claims EXCEPT ![kind] = @ - 1]
  /\ isLoading' = FALSE
  /\ \/ /\ notice' = notice \cup {"success"}
        /\ selected' = IF kind = "emergency" THEN selected ELSE {}
        /\ open' = IF kind = "convert" THEN open \ {"convert"} ELSE open
     \/ /\ notice' = notice \cup {"error"}
        /\ UNCHANGED <<selected, open>>
  /\ UNCHANGED <<rewards, target, quoting, compounding>>

-----------------------------------------------------------------------------
(* Choosing the token to convert to asks for its quote.  What is shown, and   *)
(* whether it still loads, is whatever the last answer set.                   *)
ChooseTarget ==
  /\ "convert" \in open
  /\ target' \in Targets
  /\ IF selected = {} THEN UNCHANGED <<quoting, notice>>
     ELSE /\ quote' = None
          /\ notice' = notice \ {"quote"}
          /\ IF ~HasQuotes THEN UNCHANGED <<quotes, waiting>>
             ELSE /\ waiting' = TRUE
                  /\ \E i \in Asked : /\ quotes[i] = None
                                      /\ quotes' = [quotes EXCEPT ![i] = target']
  /\ UNCHANGED <<rewards, selected, open, claiming, compounding>>

QuoteAnswered ==
  /\ \E i \in Asked :
        /\ quotes[i] # None
        /\ quotes' = [quotes EXCEPT ![i] = None]
        /\ \/ quote' = quotes[i] /\ UNCHANGED notice
           \/ notice' = notice \cup {"quote"} /\ UNCHANGED quote
  /\ waiting' = FALSE
  /\ UNCHANGED <<rewards, selected, target, open, claiming, compounding>>

-----------------------------------------------------------------------------
(* The slider works on an enabled token only; the box toggles it.             *)
handleAutoCompoundChange ==
  /\ "compound" \in open
  /\ \E i \in Asked, s \in Setting :
        /\ changes[i] = NoSetting
        /\ s.enabled = settings[s.token] => s.enabled
        /\ changes' = [changes EXCEPT ![i] = s]
  /\ UNCHANGED <<rewards, selected, target, open, notice, claiming, quoting, settings>>

SettingAnswered ==
  /\ \E i \in Asked :
        /\ changes[i] # NoSetting
        /\ changes' = [changes EXCEPT ![i] = NoSetting]
        /\ \/ /\ settings' = [settings EXCEPT ![changes[i].token] = changes[i].enabled]
              /\ notice' = notice \cup {"success"}
           \/ /\ notice' = notice \cup {"error"}
              /\ UNCHANGED settings
  /\ UNCHANGED <<rewards, selected, target, open, claiming, quoting>>

Next ==
  \/ RewardsChange \/ handleStreamToggle \/ handleSelectAll \/ SelectRow
  \/ \E p \in Panels : Toggle(p)
  \/ Dismiss
  \/ \E k \in Kinds : Start(k) \/ Finish(k)
  \/ ChooseTarget \/ QuoteAnswered
  \/ handleAutoCompoundChange \/ SettingAnswered

Spec == Init /\ [][Next]_vars

-----------------------------------------------------------------------------
(* A claim, a conversion and an emergency withdrawal never run side by side,  *)
(* from whichever of the screen's buttons they come: two of them would pay    *)
(* the same rewards or forfeit what the other claims.                         *)
OneClaimInFlight ==
  /\ \A k, l \in Kinds : claims[k] > 0 /\ claims[l] > 0 => k = l /\ claims[k] = 1
  /\ isLoading <=> \E k \in Kinds : claims[k] > 0

=============================================================================
