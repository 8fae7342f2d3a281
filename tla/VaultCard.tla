----------------------------- MODULE VaultCard -----------------------------
(* The vault card of the web application: the component YieldVaultCard, the   *)
(* hooks useYieldVault and useTxStatus under it, and the browser wallet       *)
(* (lib/freighter.ts) they talk to.                                           *)
(*                                                                            *)
(* Every await of the hooks is a step boundary.  A refresh takes the address  *)
(* of the render that created its closure, and any number of refreshes is in  *)
(* flight at once: the one on mount, the one a new address causes, the one    *)
(* connect() and each finished write await, the timer's and the buttons'.     *)
(* They settle in any order and each read of a refresh may fail alone.        *)
EXTENDS Naturals, Sequences, FiniteSets

CONSTANTS Accounts,     \* the addresses the browser wallet may give
          PropAddress,  \* userAddress, what the page gives the card
          KeyAddress,   \* the address of the keypair the page may give
          Holders,      \* the addresses that hold shares of the vault
          MaxReads,     \* bound: refreshes in flight at once
          MaxChanges,   \* bound: changes of the wallet
          MaxWrites     \* bound: writes sent by the card

None == "none"
Addresses == Accounts \cup {PropAddress, KeyAddress}
Ids == 1 .. MaxReads

VARIABLES keypair,   \* whether the page gave the card a keypair
          wallet,    \* walletAddress: an account, or None
          restore,   \* the mount effect still waits for the wallet's answer
          connect,   \* connect(): "idle", "asking" or "refreshing"
          reads,     \* per refresh in flight, the address it reads for
          awaited,   \* the refreshes connect() and the write await (0: none)
          shown,     \* userPosition, isPaused, and whether the vault is loaded
          errors,    \* of "hook" and "card", the errors set
          loading,   \* loading, metricsLoading and positionLoading
          filled,    \* the forms filled in
          tx,        \* useTxStatus: txStatus and the write whose hash it shows
          call,      \* the write under way: its stage and its closure's address
          outcomes,  \* of each write sent: what became of it
          changes    \* wallet changes so far (MaxChanges)

vars == <<keypair, wallet, restore, connect, reads, awaited, shown, errors,
          loading, filled, tx, call, outcomes, changes>>

Statuses == {"idle", "submitting", "confirmed", "failed"}
Writes == {"deposit", "withdraw", "harvest"}
NoCall == [kind |-> "none", of |-> None, result |-> "none"]
NoRead == 0

TypeOK ==
  /\ keypair \in BOOLEAN /\ loading \in BOOLEAN /\ restore \in BOOLEAN
  /\ wallet \in Accounts \cup {None}
  /\ connect \in {"idle", "asking", "refreshing"}
  /\ reads \in [Ids -> Addresses \cup {None}]
  /\ awaited \in [connect: Ids \cup {NoRead}, call: Ids \cup {NoRead}]
  /\ shown \in [of: Addresses \cup {None}, paused: BOOLEAN, vault: BOOLEAN]
  /\ errors \subseteq {"hook", "card"}
  /\ filled \subseteq {"deposit", "withdraw"}
  /\ tx \in [status: Statuses, hash: 0 .. MaxWrites]
  /\ call \in [kind: Writes \cup {"none"}, of: Addresses \cup {None},
               result: {"none", "success", "failure"}]
  /\ outcomes \in [1 .. Len(outcomes) -> {"open", "success", "failure", "thrown"}]
  /\ changes \in 0 .. MaxChanges

Init ==
  /\ keypair \in BOOLEAN
  /\ wallet = None /\ restore = TRUE /\ connect = "idle"
  /\ reads = [i \in Ids |-> IF i # 1 THEN None
                            ELSE IF keypair THEN KeyAddress ELSE PropAddress]
  /\ awaited = [connect |-> NoRead, call |-> NoRead]
  /\ shown = [of |-> None, paused |-> FALSE, vault |-> FALSE]
  /\ errors = {} /\ loading = TRUE /\ filled = {}
  /\ tx = [status |-> "idle", hash |-> 0]
  /\ call = NoCall /\ outcomes = <<>> /\ changes = 0

(* The wallet's address goes before the keypair's (while activeSigner takes   *)
(* the keypair first: with both, the card shows the one and signs as the      *)
(* other).                                                                    *)
resolvedAddress(w) ==
  IF w # None THEN w ELSE IF keypair THEN KeyAddress ELSE PropAddress

hasSigner == keypair \/ wallet # None

-----------------------------------------------------------------------------
(* Refreshes.                                                                 *)

Free == {i \in Ids : reads[i] = None}

(* A refresh begins for each of these addresses: it clears the hook's errors. *)
Begins(ids, of) ==
  /\ reads' = [i \in Ids |-> IF i \in ids THEN of[i] ELSE reads[i]]
  /\ loading' = TRUE
  /\ errors' = errors \ {"hook"}

(* Mutant: the timer keeps the callback of the first render.                  *)
refreshOfMount ==
  \E i \in Free :
     /\ Begins({i}, [j \in {i} |-> resolvedAddress(None)])
     /\ UNCHANGED <<keypair, wallet, restore, connect, awaited, shown, filled,
                    tx, call, outcomes, changes>>

(* The timer's callback is replaced whenever refresh is, so that it always    *)
(* reads for the current address; the buttons do the same.                    *)
refresh ==
  \E i \in Free :
     /\ Begins({i}, [j \in {i} |-> resolvedAddress(wallet)])
     /\ UNCHANGED <<keypair, wallet, restore, connect, awaited, shown, filled, tx, call,
                    outcomes, changes>>

(* What the end of a refresh shows: each read that was answered replaces what *)
(* was shown, whichever refresh it belongs to, and one that failed leaves it. *)
Applied(of, okVault, okPosition, paused) ==
  [of     |-> IF okPosition THEN of ELSE shown.of,
   paused |-> paused,
   vault  |-> shown.vault \/ okVault]

(* The card copies the hook's error when it changes, and never takes it back  *)
(* by itself: only the buttons and the next write clear it.                   *)
WithErrors(new) ==
  errors' \in {errors \cup new \cup card :
                 card \in IF "hook" \notin new THEN {{}}
                          ELSE IF "hook" \in errors THEN {{}, {"card"}}
                          ELSE {{"card"}}}

(* runTx after the action returned.                                           *)
Banner(result) ==
  tx' = [status |-> IF result = "success" THEN "confirmed" ELSE "failed",
         hash   |-> Len(outcomes)]

Settle(i, okVault, okPosition, okState) ==
  \E paused \in IF okState THEN BOOLEAN ELSE {shown.paused} :
     /\ reads[i] # None
     /\ reads' = [reads EXCEPT ![i] = None]
     /\ shown' = Applied(reads[i], okVault, okPosition, paused)
     /\ loading' = FALSE
     /\ WithErrors(IF okVault /\ okPosition /\ okState THEN {} ELSE {"hook"})
     /\ connect' = IF awaited.connect = i THEN "idle" ELSE connect
     /\ awaited' = [w \in DOMAIN awaited |->
                     IF awaited[w] = i THEN NoRead ELSE awaited[w]]
     /\ IF awaited.call = i
        THEN /\ Banner(call.result)
             /\ call' = NoCall
             /\ filled' = filled \ {call.kind}
        ELSE UNCHANGED <<tx, call, filled>>
     /\ UNCHANGED <<keypair, wallet, restore, outcomes, changes>>

-----------------------------------------------------------------------------
(* The wallet.                                                                *)

(* setWalletAddress: a new address makes a new refresh, whose effect runs it. *)
(* connect() also awaits the refresh of its own closure, that is of the       *)
(* address before: "own" is its id, or 0 when nothing awaits one.             *)
SetWallet(w, own) ==
  LET new   == resolvedAddress(w)
      effect == IF new = resolvedAddress(wallet) THEN {} ELSE Free \ {own}
  IN /\ changes < MaxChanges
     /\ changes' = changes + 1
     /\ wallet' = w
     /\ IF effect = {} /\ own = 0
        THEN UNCHANGED <<reads, loading, errors>>
        ELSE \E i \in IF effect = {} THEN {own} ELSE effect :
               Begins({i, own} \ {0},
                      [j \in {i, own} |-> IF j = own THEN resolvedAddress(wallet)
                                         ELSE new])
     /\ (new # resolvedAddress(wallet) => effect # {})

Restored ==
  /\ restore
  /\ restore' = FALSE
  /\ \/ \E a \in Accounts : SetWallet(a, 0)
     \/ UNCHANGED <<wallet, reads, loading, errors, changes>>
  /\ UNCHANGED <<keypair, connect, awaited, shown, filled, tx, call, outcomes>>

(* The button is there when there is neither a keypair nor a wallet.          *)
Connect ==
  /\ ~keypair /\ wallet = None /\ connect = "idle"
  /\ \/ /\ connect' = "asking"
        /\ errors' = errors \ {"hook"}
     \/ /\ WithErrors({"hook"})             \* no wallet is installed
        /\ UNCHANGED connect
  /\ UNCHANGED <<keypair, wallet, restore, reads, awaited, shown, loading,
                 filled, tx, call, outcomes, changes>>

KeyGiven ==
  /\ connect = "asking"
  /\ \E a \in Accounts, own \in Free :
        /\ SetWallet(a, own)
        /\ connect' = "refreshing"
        /\ awaited' = [awaited EXCEPT !.connect = own]
  /\ UNCHANGED <<keypair, restore, shown, filled, tx, call, outcomes>>

KeyRefused ==
  /\ connect = "asking"
  /\ connect' = "idle"
  /\ WithErrors({"hook"})
  /\ UNCHANGED <<keypair, wallet, restore, reads, awaited, shown, loading,
                 filled, tx, call, outcomes, changes>>

Disconnect ==
  /\ ~keypair /\ wallet # None
  /\ SetWallet(None, 0)
  /\ UNCHANGED <<keypair, restore, connect, awaited, shown, filled, tx, call, outcomes>>

-----------------------------------------------------------------------------
(* The forms and the writes.                                                  *)

isTxInFlight == tx.status = "submitting"
CanWithdraw == shown.of \in Holders

(* Nothing but a skeleton, or a failure with a button, before the first load. *)
Loaded == shown.vault

Fill(form) ==
  /\ Loaded /\ ~shown.paused /\ ~isTxInFlight
  /\ form = "withdraw" => CanWithdraw
  /\ filled' = filled \cup {form}
  /\ UNCHANGED <<keypair, wallet, restore, connect, reads, awaited, shown, errors,
                 loading, tx, call, outcomes, changes>>

(* Mutant: a button that does not look at the write under way.                *)
EnabledWhileBusy(kind) ==
  /\ Loaded /\ ~shown.paused /\ hasSigner
  /\ kind # "harvest" => kind \in filled
  /\ kind = "withdraw" => CanWithdraw

Enabled(kind) ==
  /\ Loaded /\ ~shown.paused /\ hasSigner /\ ~isTxInFlight
  /\ kind # "harvest" => kind \in filled
  /\ kind = "withdraw" => CanWithdraw

(* handleDeposit, handleWithdraw and handleHarvest: the banner is reset, the  *)
(* card's error cleared, and runTx runs the hook's method, which clears the   *)
(* hook's error.                                                              *)
Write(kind) ==
  /\ Enabled(kind)
  /\ Len(outcomes) < MaxWrites
  /\ tx' = [status |-> "submitting", hash |-> 0]
  /\ outcomes' = Append(outcomes, "open")
  /\ call' = [kind |-> kind, of |-> resolvedAddress(wallet),
               result |-> "none"]
  /\ errors' = errors \ {"hook", "card"}
  /\ UNCHANGED <<keypair, wallet, restore, connect, reads, awaited, shown, loading,
                 filled, changes>>

Calling == call # NoCall /\ call.result = "none"

(* The client's call returned: the hook awaits a refresh before it returns,   *)
(* of the address of the render in which the button was pressed.              *)
CallReturns ==
  /\ Calling
  /\ \E result \in {"success", "failure"}, i \in Free :
        /\ outcomes' = [outcomes EXCEPT ![Len(outcomes)] = result]
        /\ call' = [call EXCEPT !.result = result]
        /\ awaited' = [awaited EXCEPT !.call = i]
        /\ Begins({i}, [j \in {i} |-> call.of])
  /\ UNCHANGED <<keypair, wallet, restore, connect, shown, filled, tx, changes>>

CallThrows ==
  /\ Calling
  /\ outcomes' = [outcomes EXCEPT ![Len(outcomes)] = "thrown"]
  /\ call' = NoCall
  /\ tx' = [status |-> "failed", hash |-> 0]
  /\ WithErrors({"hook"})
  /\ UNCHANGED <<keypair, wallet, restore, connect, reads, awaited, shown, loading,
                 filled, changes>>

resetTx ==
  /\ tx.status \in {"confirmed", "failed"}
  /\ tx' = [status |-> "idle", hash |-> 0]
  /\ UNCHANGED <<keypair, wallet, restore, connect, reads, awaited, shown, errors,
                 loading, filled, call, outcomes, changes>>

DismissError ==
  /\ Loaded /\ "card" \in errors
  /\ errors' = errors \ {"card"}
  /\ UNCHANGED <<keypair, wallet, restore, connect, reads, awaited, shown, loading,
                 filled, tx, call, outcomes, changes>>

-----------------------------------------------------------------------------
SettleAny(i) ==
  \E okVault, okPosition, okState \in BOOLEAN :
     Settle(i, okVault, okPosition, okState)

Next ==
  \/ refresh \/ \E i \in Ids : SettleAny(i)
  \/ Restored \/ Connect \/ KeyGiven \/ KeyRefused \/ Disconnect
  \/ \E form \in {"deposit", "withdraw"} : Fill(form)
  \/ \E kind \in Writes : Write(kind)
  \/ CallReturns \/ CallThrows \/ resetTx \/ DismissError

Spec == Init /\ [][Next]_vars

(* The card refreshes on a timer, and a refresh that is repeated without end  *)
(* ends, and ends with the position answered, sometime.                       *)
FairSpec ==
  /\ Spec
  /\ WF_vars(refresh)
  /\ \A i \in Ids : SF_vars(\E okVault, okState \in BOOLEAN :
                              Settle(i, okVault, TRUE, okState))

-----------------------------------------------------------------------------
(* The banner tells of the last write and of no other: it says confirmed, or  *)
(* shows a hash, only for what the network answered about that one.           *)
BannerIsOfLastWrite ==
  LET last == Len(outcomes)
  IN /\ tx.status = "confirmed" => outcomes[last] = "success"
     /\ tx.status = "failed" => outcomes[last] \in {"failure", "thrown"}
     /\ tx.hash \in {0, last}
     /\ tx.status = "submitting" <=> call # NoCall

(* However the refreshes of different addresses overtake each other, once the *)
(* wallet stays the same the card ends up showing the position of the address *)
(* it reads for, and keeps showing it.                                        *)
ShowsActiveInTheEnd == <>[](shown.of = resolvedAddress(wallet))

=============================================================================
