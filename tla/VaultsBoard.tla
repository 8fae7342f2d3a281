----------------------------- MODULE VaultsBoard -----------------------------
(***************************************************************************)
(* The hook of the web application for several vaults, useMultipleVaults    *)
(* (ui/src/hooks/useYieldVault.ts).                                         *)
(*                                                                          *)
(* refreshAll refreshes every vault of the list beside the others, and more *)
(* than one refreshAll may be under way: the one of a new list or user, the *)
(* timer's, the page's. Of a vault the four reads are awaited together and  *)
(* each may fail alone, so that a row comes from one refresh. A vault that  *)
(* left the list keeps its row, and the totals of the board count it.       *)
(***************************************************************************)

CONSTANTS
  VaultLists,   \* the lists of vaults the page gives
  Users,        \* the addresses it gives
  Rounds        \* bound: calls of refreshAll under way

Vaults == UNION VaultLists

(* Of the four reads the two the totals are made of.                        *)
Fields == {"metrics", "position"}

VARIABLES
  list, user,       \* vaultAddresses and userAddress of the page
  rounds,           \* per refreshAll under way: the user it reads for, the vaults left
  rows,             \* vaultsData: the user and the fields that were read
  overallLoading

vars == <<list, user, rounds, rows, overallLoading>>

NoUser  == "none"
NoRound == [user |-> NoUser, all |-> {}, left |-> {}]
NoRow   == [user |-> NoUser, read |-> {}]

Round(vaults, of) == [user |-> of, all |-> vaults, left |-> vaults]

Init ==
  /\ list \in VaultLists /\ user \in Users
  /\ rounds = [r \in Rounds |-> IF r = 1 THEN Round(list, user) ELSE NoRound]
  /\ rows = [v \in Vaults |-> NoRow]
  /\ overallLoading = TRUE

-----------------------------------------------------------------------------
UnderWay == {r \in Rounds : rounds[r] # NoRound}

refreshAll(vaults, of) ==
  /\ \E r \in Rounds \ UnderWay : rounds' = [rounds EXCEPT ![r] = Round(vaults, of)]
  /\ overallLoading' = TRUE

(* The timer and the page.                                                  *)
Refreshes ==
  /\ refreshAll(list, user)
  /\ UNCHANGED <<list, user, rows>>

(* A new list or user makes a new refreshAll, whose effect calls it.        *)
PageChanges ==
  /\ \E vaults \in VaultLists, of \in Users :
       /\ <<vaults, of>> # <<list, user>>
       /\ list' = vaults /\ user' = of
       /\ refreshAll(vaults, of)
  /\ UNCHANGED rows

(* refreshVault: the row is replaced, whoever it is for now, and null       *)
(* stands for what could not be read. A client that cannot be made gives a  *)
(* row without anything.                                                    *)
refreshVault(r, v) ==
  /\ v \in rounds[r].left
  /\ \E read \in SUBSET Fields :
       rows' = [rows EXCEPT ![v] = [user |-> rounds[r].user, read |-> read]]
  /\ rounds' = [rounds EXCEPT ![r].left = @ \ {v}]
  /\ UNCHANGED <<list, user, overallLoading>>

(* Mutant: the first vault that is refreshed ends the round.                *)
EndsWithFirst(r) == rounds[r].left # rounds[r].all \/ rounds[r].all = {}

(* Promise.all of refreshes that never throw.                               *)
AllSettled(r) == rounds[r].left = {}

(* finally: loading ends with the first of the rounds under way.            *)
RefreshedAll(r) ==
  /\ r \in UnderWay /\ AllSettled(r)
  /\ rounds' = [rounds EXCEPT ![r] = NoRound]
  /\ overallLoading' = FALSE
  /\ UNCHANGED <<list, user, rows>>

-----------------------------------------------------------------------------
Next ==
  \/ Refreshes \/ PageChanges
  \/ \E r \in Rounds : RefreshedAll(r) \/ \E v \in Vaults : refreshVault(r, v)

Spec == Init /\ [][Next]_vars

-----------------------------------------------------------------------------
(* Properties.                                                             *)

(* A board that is loading has something under way, and one on which        *)
(* nothing is under way shows every vault of the page's list, for a user    *)
(* the page gave, though rounds for other lists and users end in between.   *)
BoardIsComplete ==
  /\ overallLoading => UnderWay # {}
  /\ UnderWay = {} => \A v \in list : rows[v].user \in Users
=============================================================================
