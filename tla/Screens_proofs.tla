---------------------------- MODULE Screens_proofs ----------------------------
(***************************************************************************)
(* The theorem about the screens of the web application, as MCScreens       *)
(* composes them: each of the seven has an invariant of its own (CardInv,   *)
(* PanelInv, GovernanceInv, RebalanceInv, ChoiceIsSound, BoardInv,          *)
(* PointsInv), its steps keep it, and it is about nothing that the steps of *)
(* the others change.                                                       *)
(***************************************************************************)
EXTENDS MCScreens, FiniteSetTheorems, SequenceTheorems, TLAPS

(* A step is one of a single screen; the others stay as they are.           *)
LEMMA ScreenSteps ==
  ASSUME [ScreensNext]_screensVars
  PROVE  /\ Next \/ UNCHANGED vars
         /\ Panel!Next \/ UNCHANGED panelVars
         /\ Governance!Next \/ UNCHANGED governanceVars
         /\ Rebalance!Next \/ UNCHANGED rebalanceVars
         /\ Selector!Next \/ UNCHANGED selectorVars
         /\ Board!Next \/ UNCHANGED boardVars
         /\ Points!Next \/ UNCHANGED pointsVars
<1> USE DEF otherVars
<1>1. CASE CardDoes(Next)
  BY <1>1 DEF CardDoes
<1>2. CASE PanelMoves
  BY <1>2 DEF PanelMoves
<1>3. CASE GovernanceMoves
  BY <1>3 DEF GovernanceMoves
<1>4. CASE RebalanceMoves
  BY <1>4 DEF RebalanceMoves
<1>5. CASE SelectorMoves
  BY <1>5 DEF SelectorMoves
<1>6. CASE BoardMoves
  BY <1>6 DEF BoardMoves
<1>7. CASE PointsMove
  BY <1>7 DEF PointsMove
<1>8. CASE UNCHANGED screensVars
  BY <1>8 DEF screensVars
<1> QED
  BY <1>1, <1>2, <1>3, <1>4, <1>5, <1>6, <1>7, <1>8 DEF ScreensNext

-----------------------------------------------------------------------------
(* The vault card.                                                          *)

(* What the write under way awaits has a result, the one its outcome tells. *)
CardInv ==
  /\ TypeOK /\ BannerIsOfLastWrite
  /\ outcomes \in Seq({"open", "success", "failure", "thrown"})
  /\ Len(outcomes) <= MaxWrites
  /\ call # NoCall => Len(outcomes) > 0
  /\ call.result # "none" => call # NoCall /\ outcomes[Len(outcomes)] = call.result
  /\ awaited.call # NoRead => call.result # "none"

(* The card is mounted without a write.                                     *)
LEMMA CardStarts == Init => CardInv
  BY ScreensAssumption DEF Init, CardInv, TypeOK, BannerIsOfLastWrite, NoCall, NoRead, Ids,
     Addresses, Statuses, None, Writes

(* What a refresh begins with and ends with has its types.                  *)
LEMMA ResolvedTyped ==
  ASSUME TypeOK, NEW w \in Accounts \cup {None}
  PROVE  resolvedAddress(w) \in Addresses
  BY DEF TypeOK, resolvedAddress, Addresses

(* So do the refreshes that begin together.                                 *)
LEMMA BeginsTyped ==
  ASSUME TypeOK, NEW ids \in SUBSET Ids, NEW of, \A i \in ids : of[i] \in Addresses,
         Begins(ids, of)
  PROVE  /\ reads' \in [Ids -> Addresses \cup {None}] /\ loading' \in BOOLEAN
         /\ errors' \subseteq {"hook", "card"}
  BY DEF TypeOK, Begins

(* The errors of a refresh and of the card beside it are such errors.       *)
LEMMA ErrorsTyped ==
  ASSUME TypeOK, NEW new \in SUBSET {"hook"}, WithErrors(new)
  PROVE  errors' \subseteq {"hook", "card"}
<1>1. PICK card \in SUBSET {"card"} : errors' = errors \cup new \cup card
  <2>1. /\ {{}} \subseteq SUBSET {"card"} /\ {{}, {"card"}} \subseteq SUBSET {"card"}
        /\ {{"card"}} \subseteq SUBSET {"card"}
    OBVIOUS
  <2> QED
    BY <2>1 DEF WithErrors
<1> QED
  BY <1>1 DEF TypeOK

(* A change of the wallet begins refreshes of the address it resolves to.   *)
LEMMA SetWalletTyped ==
  ASSUME TypeOK, NEW w \in Accounts \cup {None}, NEW own \in Ids \cup {0}, SetWallet(w, own)
  PROVE  /\ reads' \in [Ids -> Addresses \cup {None}] /\ loading' \in BOOLEAN
         /\ errors' \subseteq {"hook", "card"}
         /\ wallet' \in Accounts \cup {None} /\ changes' \in 0..MaxChanges
<1> DEFINE new == resolvedAddress(w)
           old == resolvedAddress(wallet)
           effect == IF new = old THEN {} ELSE Free \ {own}
<1>1. /\ new \in Addresses /\ old \in Addresses
      /\ effect \subseteq Ids
  BY ResolvedTyped DEF TypeOK, Free
<1>2. /\ changes < MaxChanges /\ changes' = changes + 1 /\ wallet' = w
      /\ IF effect = {} /\ own = 0
         THEN UNCHANGED <<reads, loading, errors>>
         ELSE \E i \in IF effect = {} THEN {own} ELSE effect :
                Begins({i, own} \ {0}, [j \in {i, own} |-> IF j = own THEN old ELSE new])
  BY DEF SetWallet
<1> HIDE DEF new, old, effect
<1>3. wallet' \in Accounts \cup {None} /\ changes' \in 0..MaxChanges
  BY <1>2, ScreensAssumption DEF TypeOK
<1>4. CASE effect = {} /\ own = 0
  BY <1>2, <1>3, <1>4 DEF TypeOK
<1>5. CASE ~(effect = {} /\ own = 0)
  <2>1. PICK i \in IF effect = {} THEN {own} ELSE effect :
          Begins({i, own} \ {0}, [j \in {i, own} |-> IF j = own THEN old ELSE new])
    BY <1>2, <1>5
  <2> DEFINE of == [j \in {i, own} |-> IF j = own THEN old ELSE new]
  <2>2. {i, own} \ {0} \subseteq Ids /\ \A j \in {i, own} \ {0} : of[j] \in Addresses
    BY <1>1, <1>5, <2>1
  <2> HIDE DEF of
  <2> QED
    BY <1>3, <2>1, <2>2, BeginsTyped DEF of
<1> QED
  BY <1>4, <1>5

(* Every step of the card keeps it: one lemma per kind of step.             *)
LEMMA SettleKeeps ==
  ASSUME CardInv, NEW i \in Ids, NEW okVault \in BOOLEAN, NEW okPosition \in BOOLEAN,
         NEW okState \in BOOLEAN, Settle(i, okVault, okPosition, okState)
  PROVE  CardInv'
<1>1. PICK paused \in BOOLEAN :
        /\ reads' = [reads EXCEPT ![i] = None]
        /\ shown' = Applied(reads[i], okVault, okPosition, paused)
  BY DEF Settle, CardInv, TypeOK
<1>2. reads' \in [Ids -> Addresses \cup {None}] /\ reads[i] \in Addresses \cup {None}
  BY <1>1 DEF CardInv, TypeOK
<1>3. shown' \in [of: Addresses \cup {None}, paused: BOOLEAN, vault: BOOLEAN]
  BY <1>1, <1>2 DEF CardInv, TypeOK, Applied
<1>4. errors' \subseteq {"hook", "card"}
  <2>1. (IF okVault /\ okPosition /\ okState THEN {} ELSE {"hook"}) \in SUBSET {"hook"}
    OBVIOUS
  <2> QED
    BY <2>1, ErrorsTyped DEF CardInv, Settle
<1>5. /\ loading' \in BOOLEAN /\ connect' \in {"idle", "asking", "refreshing"}
      /\ awaited' = [w \in DOMAIN awaited |-> IF awaited[w] = i THEN NoRead ELSE awaited[w]]
      /\ IF awaited.call = i
         THEN /\ Banner(call.result) /\ call' = NoCall
              /\ filled' = filled \ {call.kind}
         ELSE UNCHANGED <<tx, call, filled>>
      /\ UNCHANGED <<keypair, wallet, restore, outcomes, changes>>
  BY DEF Settle, CardInv, TypeOK
<1>6. /\ awaited' \in [connect: Ids \cup {NoRead}, call: Ids \cup {NoRead}]
      /\ awaited'.call = IF awaited.call = i THEN NoRead ELSE awaited.call
  <2>1. awaited \in [connect: Ids \cup {NoRead}, call: Ids \cup {NoRead}]
    BY DEF CardInv, TypeOK
  <2> QED
    BY <1>5, <2>1
<1>7. CASE awaited.call = i
  <2>1. call # NoCall /\ outcomes[Len(outcomes)] = call.result /\ call.result # "none"
    BY <1>7 DEF CardInv, Ids, NoRead
  <2>2. call.result \in {"success", "failure"} /\ Len(outcomes) \in 0..MaxWrites
    BY <2>1, ScreensAssumption, LenProperties DEF CardInv, TypeOK
  <2>3. /\ tx' = [status |-> IF call.result = "success" THEN "confirmed" ELSE "failed",
                  hash |-> Len(outcomes)]
        /\ call' = NoCall /\ filled' \subseteq filled
    BY <1>5, <1>7 DEF Banner
  <2>4. TypeOK'
    BY <1>2, <1>3, <1>4, <1>5, <1>6, <2>2, <2>3 DEF CardInv, TypeOK, Statuses, NoCall
  <2>5. BannerIsOfLastWrite'
    BY <1>5, <2>1, <2>2, <2>3 DEF BannerIsOfLastWrite
  <2> QED
    BY <1>5, <1>6, <1>7, <2>3, <2>4, <2>5 DEF CardInv, NoCall, NoRead
<1>8. CASE awaited.call # i
  <2>1. TypeOK'
    BY <1>2, <1>3, <1>4, <1>5, <1>6, <1>8 DEF CardInv, TypeOK
  <2>2. BannerIsOfLastWrite'
    BY <1>5, <1>8 DEF CardInv, BannerIsOfLastWrite
  <2> QED
    BY <1>5, <1>6, <1>8, <2>1, <2>2 DEF CardInv
<1> QED
  BY <1>7, <1>8

(* The variables that a step which is no write leaves alone.                *)
LEMMA NoWriteKeeps ==
  ASSUME CardInv, UNCHANGED <<outcomes, call, tx>>, awaited'.call = awaited.call, TypeOK'
  PROVE  CardInv'
  BY DEF CardInv, BannerIsOfLastWrite
(* What the wallet and the refreshes do leaves the writes alone.            *)
LEMMA WalletKeeps ==
  ASSUME CardInv, refresh \/ Restored \/ Connect \/ KeyGiven \/ KeyRefused \/ Disconnect
  PROVE  CardInv'
<1>0. TypeOK /\ wallet \in Accounts \cup {None}
  BY DEF CardInv, TypeOK
<1>1. CASE refresh
  <2>1. PICK i \in Free : Begins({i}, [j \in {i} |-> resolvedAddress(wallet)])
    BY <1>1 DEF refresh
  <2>2. i \in Ids /\ resolvedAddress(wallet) \in Addresses
    BY <1>0, ResolvedTyped DEF Free
  <2>3. /\ reads' \in [Ids -> Addresses \cup {None}] /\ loading' \in BOOLEAN
        /\ errors' \subseteq {"hook", "card"}
    BY <1>0, <2>1, <2>2, BeginsTyped
  <2>4. UNCHANGED <<keypair, wallet, restore, connect, awaited, shown, filled, tx, call,
                    outcomes, changes>>
    BY <1>1 DEF refresh
  <2> QED
    BY <1>0, <2>3, <2>4, NoWriteKeeps DEF TypeOK
<1>2. CASE Restored
  <2>1. /\ reads' \in [Ids -> Addresses \cup {None}] /\ loading' \in BOOLEAN
        /\ errors' \subseteq {"hook", "card"}
        /\ wallet' \in Accounts \cup {None} /\ changes' \in 0..MaxChanges
    BY ZenonT(60), <1>0, <1>2, SetWalletTyped DEF Restored, TypeOK
  <2>2. /\ restore' = FALSE
        /\ UNCHANGED <<keypair, connect, awaited, shown, filled, tx, call, outcomes>>
    BY <1>2 DEF Restored
  <2> QED
    BY ZenonT(60), <1>0, <2>1, <2>2, NoWriteKeeps DEF TypeOK
<1>3. CASE Connect
  <2>1. connect' \in {"idle", "asking", "refreshing"} /\ errors' \subseteq {"hook", "card"}
    <3>1. CASE WithErrors({"hook"}) /\ UNCHANGED connect
      BY <1>0, <3>1, ErrorsTyped DEF TypeOK
    <3>2. CASE connect' = "asking" /\ errors' = errors \ {"hook"}
      BY <1>0, <3>2 DEF TypeOK
    <3> QED
      BY <1>3, <3>1, <3>2 DEF Connect
  <2>2. UNCHANGED <<keypair, wallet, restore, reads, awaited, shown, loading, filled, tx, call,
                    outcomes, changes>>
    BY <1>3 DEF Connect
  <2> QED
    BY <1>0, <2>1, <2>2, NoWriteKeeps DEF TypeOK
<1>4. CASE KeyGiven
  <2>1. PICK a \in Accounts, own \in Free :
          SetWallet(a, own) /\ awaited' = [awaited EXCEPT !.connect = own]
    BY <1>4 DEF KeyGiven
  <2>2. own \in Ids
    BY DEF Free
  <2>3. /\ reads' \in [Ids -> Addresses \cup {None}] /\ loading' \in BOOLEAN
        /\ errors' \subseteq {"hook", "card"}
        /\ wallet' \in Accounts \cup {None} /\ changes' \in 0..MaxChanges
    BY <1>0, <2>1, <2>2, SetWalletTyped
  <2>4. awaited' \in [connect: Ids \cup {NoRead}, call: Ids \cup {NoRead}]
        /\ awaited'.call = awaited.call
    BY <1>0, <2>1, <2>2 DEF TypeOK
  <2>5. /\ connect' = "refreshing"
        /\ UNCHANGED <<keypair, restore, shown, filled, tx, call, outcomes>>
    BY <1>4 DEF KeyGiven
  <2> QED
    BY <1>0, <2>3, <2>4, <2>5, NoWriteKeeps DEF TypeOK
<1>5. CASE KeyRefused
  <2>1. errors' \subseteq {"hook", "card"}
    BY <1>0, <1>5, ErrorsTyped DEF KeyRefused
  <2>2. /\ connect' = "idle"
        /\ UNCHANGED <<keypair, wallet, restore, reads, awaited, shown, loading, filled, tx, call,
                       outcomes, changes>>
    BY <1>5 DEF KeyRefused
  <2> QED
    BY <1>0, <2>1, <2>2, NoWriteKeeps DEF TypeOK
<1>6. CASE Disconnect
  <2>1. /\ reads' \in [Ids -> Addresses \cup {None}] /\ loading' \in BOOLEAN
        /\ errors' \subseteq {"hook", "card"}
        /\ wallet' \in Accounts \cup {None} /\ changes' \in 0..MaxChanges
    BY <1>0, <1>6, SetWalletTyped DEF Disconnect
  <2>2. UNCHANGED <<keypair, restore, connect, awaited, shown, filled, tx, call, outcomes>>
    BY <1>6 DEF Disconnect
  <2> QED
    BY <1>0, <2>1, <2>2, NoWriteKeeps DEF TypeOK
<1> QED
  BY <1>1, <1>2, <1>3, <1>4, <1>5, <1>6

(* A write begins where none is under way, and what it came to is known     *)
(* before anything of it is shown.                                          *)
LEMMA WritesKeep ==
  ASSUME CardInv, (\E kind \in Writes : Write(kind)) \/ CallReturns \/ CallThrows
  PROVE  CardInv'
<1> DEFINE Results == {"open", "success", "failure", "thrown"}
           n == Len(outcomes)
<1>0. /\ TypeOK /\ wallet \in Accounts \cup {None} /\ n \in Nat /\ MaxWrites \in Nat
      /\ outcomes \in Seq(Results) /\ n <= MaxWrites
  <2>1. outcomes \in Seq(Results) /\ n <= MaxWrites
    BY DEF CardInv
  <2> QED
    BY <2>1, ScreensAssumption, LenProperties DEF CardInv, TypeOK
<1>1. ASSUME NEW kind \in Writes, Write(kind) PROVE CardInv'
  <2>1. /\ tx' = [status |-> "submitting", hash |-> 0]
        /\ outcomes' = Append(outcomes, "open") /\ n < MaxWrites
        /\ call' = [kind |-> kind, of |-> resolvedAddress(wallet), result |-> "none"]
        /\ errors' = errors \ {"hook", "card"}
        /\ UNCHANGED <<keypair, wallet, restore, connect, reads, awaited, shown, loading, filled,
                       changes>>
        /\ tx.status # "submitting"
    BY <1>1 DEF Write, Enabled, isTxInFlight
  <2>2. outcomes' \in Seq(Results) /\ Len(outcomes') = n + 1
    BY <1>0, <2>1, AppendProperties
  <2>3. resolvedAddress(wallet) \in Addresses
    BY <1>0, ResolvedTyped
  <2>4. call' # NoCall /\ call'.result = "none" /\ call = NoCall
    BY <2>1 DEF NoCall, Writes, CardInv, BannerIsOfLastWrite
  <2>5. TypeOK'
    <3>1. outcomes' \in [1..Len(outcomes') -> Results]
      <4> HIDE DEF Results
      <4> QED
        BY <2>2
    <3>4. errors' \subseteq {"hook", "card"}
      BY <1>0, <2>1 DEF TypeOK
    <3>2. call' \in [kind: Writes \cup {"none"}, of: Addresses \cup {None},
                     result: {"none", "success", "failure"}]
      BY <2>1, <2>3
    <3>3. tx' \in [status: Statuses, hash: 0..MaxWrites]
      BY <1>0, <2>1 DEF Statuses
    <3> QED
      BY <1>0, <2>1, <3>1, <3>2, <3>3, <3>4 DEF TypeOK
  <2>6. BannerIsOfLastWrite'
    BY <2>1, <2>4 DEF BannerIsOfLastWrite
  <2>7. awaited'.call = NoRead
    BY <2>1, <2>4 DEF CardInv, NoCall
  <2> QED
    BY <1>0, <2>1, <2>2, <2>4, <2>5, <2>6, <2>7 DEF CardInv
<1>2. ASSUME Calling
      PROVE  /\ n > 0 /\ awaited.call = NoRead /\ tx.status = "submitting"
             /\ \A r \in Results : [outcomes EXCEPT ![n] = r] \in Seq(Results)
                                   /\ Len([outcomes EXCEPT ![n] = r]) = n
                                   /\ [outcomes EXCEPT ![n] = r][n] = r
  <2>1. n > 0 /\ awaited.call = NoRead /\ tx.status = "submitting"
    BY <1>2 DEF Calling, CardInv, BannerIsOfLastWrite
  <2>2. ASSUME NEW r \in Results
        PROVE  /\ [outcomes EXCEPT ![n] = r] \in Seq(Results)
               /\ Len([outcomes EXCEPT ![n] = r]) = n /\ [outcomes EXCEPT ![n] = r][n] = r
    <3>1. n \in 1..Len(outcomes)
      BY <1>0, <2>1
    <3> QED
      BY <1>0, <3>1, ExceptSeq
  <2> QED
    BY <2>1, <2>2
<1>3. CASE CallReturns
  <2>1. PICK result \in {"success", "failure"}, i \in Free :
          /\ outcomes' = [outcomes EXCEPT ![n] = result]
          /\ call' = [call EXCEPT !.result = result]
          /\ awaited' = [awaited EXCEPT !.call = i]
          /\ Begins({i}, [j \in {i} |-> call.of])
    BY <1>3 DEF CallReturns
  <2>2. /\ Calling
        /\ UNCHANGED <<keypair, wallet, restore, connect, shown, filled, tx, changes>>
    BY <1>3 DEF CallReturns
  <2>3. i \in Ids /\ call \in [kind: Writes \cup {"none"}, of: Addresses \cup {None},
                               result: {"none", "success", "failure"}]
    BY <1>0 DEF Free, TypeOK
  <2>4. /\ reads' \in [Ids -> Addresses \cup {None}] /\ loading' \in BOOLEAN
        /\ errors' \subseteq {"hook", "card"}
    BY <1>0, <2>1, <2>3 DEF Begins, TypeOK
  <2>5. /\ call' \in [kind: Writes \cup {"none"}, of: Addresses \cup {None},
                      result: {"none", "success", "failure"}]
        /\ call'.result = result
    BY <2>1, <2>3
  <2>6. awaited' \in [connect: Ids \cup {NoRead}, call: Ids \cup {NoRead}]
        /\ awaited'.call = i
    BY <1>0, <2>1, <2>3 DEF TypeOK
  <2>7. /\ outcomes' \in Seq(Results) /\ Len(outcomes') = n /\ outcomes'[n] = result
        /\ n > 0 /\ tx.status = "submitting"
    BY <1>2, <2>1, <2>2
  <2>8. call' # NoCall
    BY <2>1, <2>5 DEF NoCall
  <2>9. TypeOK'
    BY <1>0, <2>2, <2>4, <2>5, <2>6, <2>7 DEF TypeOK
  <2>10. BannerIsOfLastWrite'
    BY <2>2, <2>7, <2>8 DEF CardInv, BannerIsOfLastWrite
  <2> QED
    BY <1>0, <2>1, <2>5, <2>7, <2>8, <2>9, <2>10 DEF CardInv
<1>4. CASE CallThrows
  <2>1. /\ outcomes' = [outcomes EXCEPT ![n] = "thrown"]
        /\ call' = NoCall /\ tx' = [status |-> "failed", hash |-> 0] /\ Calling
        /\ UNCHANGED <<keypair, wallet, restore, connect, reads, awaited, shown, loading, filled,
                       changes>>
    BY <1>4 DEF CallThrows
  <2>2. errors' \subseteq {"hook", "card"}
    BY <1>0, <1>4, ErrorsTyped DEF CallThrows
  <2>3. /\ outcomes' \in Seq(Results) /\ Len(outcomes') = n /\ outcomes'[n] = "thrown"
        /\ awaited.call = NoRead
    BY <1>2, <2>1
  <2>4. call'.result = "none"
    BY <2>1 DEF NoCall
  <2>5. TypeOK'
    BY <1>0, <2>1, <2>2, <2>3 DEF TypeOK, Statuses, NoCall
  <2>6. BannerIsOfLastWrite'
    BY <2>1, <2>3 DEF BannerIsOfLastWrite
  <2> QED
    BY <1>0, <2>1, <2>3, <2>4, <2>5, <2>6 DEF CardInv
<1> QED
  BY <1>1, <1>3, <1>4

(* Every step of the card keeps it.                                         *)
LEMMA CardNext == CardInv /\ Next => CardInv'
<1> SUFFICES ASSUME CardInv, Next PROVE CardInv'
  OBVIOUS
<1>1. ASSUME NEW i \in Ids, SettleAny(i) PROVE CardInv'
  BY <1>1, SettleKeeps DEF SettleAny
<1>2. ASSUME NEW f \in {"deposit", "withdraw"}, Fill(f) PROVE CardInv'
  <2>1. /\ filled' = filled \cup {f}
        /\ UNCHANGED <<keypair, wallet, restore, connect, reads, awaited, shown, errors,
                       loading, tx, call, outcomes, changes>>
    BY <1>2 DEF Fill
  <2>2. filled' \subseteq {"deposit", "withdraw"}
    BY <2>1 DEF CardInv, TypeOK
  <2>3. TypeOK'
    BY <2>1, <2>2 DEF CardInv, TypeOK
  <2> QED
    BY <2>1, <2>3, NoWriteKeeps
<1>3. CASE resetTx
  <2>1. /\ tx.status \in {"confirmed", "failed"} /\ tx' = [status |-> "idle", hash |-> 0]
        /\ UNCHANGED <<keypair, wallet, restore, connect, reads, awaited, shown, errors,
                       loading, filled, call, outcomes, changes>>
    BY <1>3 DEF resetTx
  <2>2. TypeOK' /\ BannerIsOfLastWrite'
    BY <2>1, ScreensAssumption DEF CardInv, TypeOK, BannerIsOfLastWrite, Statuses
  <2> QED
    BY <2>1, <2>2 DEF CardInv
<1>4. CASE DismissError
  <2>1. /\ errors' = errors \ {"card"}
        /\ UNCHANGED <<keypair, wallet, restore, connect, reads, awaited, shown, loading,
                       filled, tx, call, outcomes, changes>>
    BY <1>4 DEF DismissError
  <2> QED
    BY <2>1, NoWriteKeeps DEF CardInv, TypeOK
<1> QED
  BY <1>1, <1>2, <1>3, <1>4, WalletKeeps, WritesKeep DEF Next

-----------------------------------------------------------------------------
(* The rewards screen.                                                      *)

PanelInv == Panel!TypeOK /\ Panel!OneClaimInFlight

(* The screen is mounted without a claim.                                   *)
LEMMA PanelStarts == Panel!Init => PanelInv
<1> SUFFICES ASSUME Panel!Init PROVE PanelInv
  OBVIOUS
<1>1. (CHOOSE t \in Targets : TRUE) \in Targets
  BY ScreensAssumption
<1>2. Panel!OneClaimInFlight
  BY DEF Panel!Init, Panel!OneClaimInFlight
<1>3. /\ claims \in [Panel!Kinds -> 0..2]
      /\ quotes \in [Panel!Asked -> Targets \cup {Panel!None}]
      /\ settings \in [Tokens -> BOOLEAN]
      /\ settingChanges \in [Panel!Asked -> Panel!Setting \cup {Panel!NoSetting}]
  BY DEF Panel!Init
<1> QED
  BY <1>1, <1>2, <1>3 DEF Panel!Init, Panel!TypeOK, PanelInv

(* Nothing of it but the start and the end of a claim touches the claims.   *)
LEMMA ClaimsLeft ==
  ASSUME PanelInv, UNCHANGED Panel!claiming, Panel!TypeOK'
  PROVE  PanelInv'
  BY DEF PanelInv, Panel!OneClaimInFlight, Panel!claiming

(* A claim starts when none is under way, and ends alone.                   *)
LEMMA ClaimsKeep ==
  ASSUME PanelInv, NEW k \in Panel!Kinds, Panel!Start(k) \/ Panel!Finish(k)
  PROVE  PanelInv'
<1>0. claims \in [Panel!Kinds -> 0..2] /\ isLoading \in BOOLEAN
  BY DEF PanelInv, Panel!TypeOK
<1>1. CASE Panel!Start(k)
  <2>1. \A l \in Panel!Kinds : claims[l] = 0
    BY <1>0, <1>1 DEF PanelInv, Panel!OneClaimInFlight, Panel!Start, Panel!MayStart
  <2>2. /\ claims' = [claims EXCEPT ![k] = @ + 1] /\ isLoading' = TRUE
        /\ notice' \subseteq notice
        /\ UNCHANGED <<rewards, ticked, target, open, Panel!quoting, Panel!compounding>>
    BY <1>1 DEF Panel!Start
  <2>3. /\ claims' \in [Panel!Kinds -> 0..2]
        /\ \A l \in Panel!Kinds : claims'[l] = IF l = k THEN 1 ELSE 0
    BY <1>0, <2>1, <2>2
  <2>4. Panel!OneClaimInFlight'
    BY <2>2, <2>3 DEF Panel!OneClaimInFlight
  <2>5. Panel!TypeOK'
    BY <2>2, <2>3 DEF PanelInv, Panel!TypeOK, Panel!quoting, Panel!compounding
  <2> QED
    BY <2>4, <2>5 DEF PanelInv
<1>2. CASE Panel!Finish(k)
  <2>1. claims[k] > 0
    BY <1>2 DEF Panel!Finish
  <2>2. claims[k] = 1 /\ \A l \in Panel!Kinds : l # k => claims[l] = 0
    BY <1>0, <2>1 DEF PanelInv, Panel!OneClaimInFlight
  <2>3. /\ claims' = [claims EXCEPT ![k] = @ - 1] /\ isLoading' = FALSE
        /\ notice' \in {notice \cup {"success"}, notice \cup {"error"}}
        /\ ticked' \in {ticked, {}} /\ open' \subseteq open
        /\ UNCHANGED <<rewards, target, Panel!quoting, Panel!compounding>>
    BY <1>2 DEF Panel!Finish
  <2>4. /\ claims' \in [Panel!Kinds -> 0..2]
        /\ \A l \in Panel!Kinds : claims'[l] = 0
    BY <1>0, <2>2, <2>3
  <2>5. Panel!OneClaimInFlight'
    BY <2>3, <2>4 DEF Panel!OneClaimInFlight
  <2>6. Panel!TypeOK'
    BY <2>3, <2>4 DEF PanelInv, Panel!TypeOK, Panel!quoting, Panel!compounding
  <2> QED
    BY <2>5, <2>6 DEF PanelInv
<1> QED
  BY <1>1, <1>2

(* Every step of the rewards screen keeps it.                               *)
LEMMA PanelNext == PanelInv /\ Panel!Next => PanelInv'
<1> SUFFICES ASSUME PanelInv, Panel!Next PROVE PanelInv'
  OBVIOUS
<1> DEFINE Positions == UNION {DOMAIN l : l \in Lists}
<1>0. Panel!TypeOK /\ rewards \in Lists /\ DOMAIN rewards \subseteq Positions
  BY DEF PanelInv, Panel!TypeOK
<1>1. CASE Panel!RewardsChange
  <2>1. Panel!TypeOK'
    BY <1>0, <1>1 DEF Panel!RewardsChange, Panel!TypeOK, Panel!claiming, Panel!quoting,
                      Panel!compounding
  <2> QED
    BY <1>1, <2>1, ClaimsLeft DEF Panel!RewardsChange
<1>2. CASE Panel!handleStreamToggle \/ Panel!handleSelectAll \/ Panel!SelectRow
  <2>1. ticked' \subseteq Positions
    <3>1. ticked \subseteq Positions
      BY <1>0 DEF Panel!TypeOK
    <3> HIDE DEF Positions
    <3> QED
      BY <1>0, <1>2, <3>1 DEF Panel!handleStreamToggle, Panel!handleSelectAll, Panel!SelectRow
  <2>2. open' \subseteq Panel!Panels
    BY <1>0, <1>2 DEF Panel!handleStreamToggle, Panel!handleSelectAll, Panel!SelectRow,
                      Panel!TypeOK, Panel!Panels
  <2>3. UNCHANGED <<rewards, target, notice, Panel!claiming, Panel!quoting, Panel!compounding>>
    BY <1>2 DEF Panel!handleStreamToggle, Panel!handleSelectAll, Panel!SelectRow
  <2>4. Panel!TypeOK'
    BY <1>0, <2>1, <2>2, <2>3 DEF Panel!TypeOK, Panel!claiming, Panel!quoting, Panel!compounding
  <2> QED
    BY <2>3, <2>4, ClaimsLeft
<1>3. ASSUME NEW p \in Panel!Panels, Panel!Toggle(p) PROVE PanelInv'
  <2>1. /\ open' \in {open \ {p}, open \cup {p}}
        /\ UNCHANGED <<rewards, ticked, target, notice, Panel!claiming, Panel!quoting,
                       Panel!compounding>>
    BY <1>3 DEF Panel!Toggle
  <2>2. open' \subseteq Panel!Panels
    BY <1>0, <2>1 DEF Panel!TypeOK
  <2>3. Panel!TypeOK'
    BY <1>0, <2>1, <2>2 DEF Panel!TypeOK, Panel!claiming, Panel!quoting, Panel!compounding
  <2> QED
    BY <2>1, <2>3, ClaimsLeft
<1>4. CASE Panel!Dismiss
  <2>1. Panel!TypeOK'
    BY <1>0, <1>4 DEF Panel!Dismiss, Panel!TypeOK, Panel!claiming, Panel!quoting,
                      Panel!compounding
  <2> QED
    BY <1>4, <2>1, ClaimsLeft DEF Panel!Dismiss
<1>5. CASE Panel!ChooseTarget
  <2>1. /\ target' \in Targets /\ notice' \subseteq notice
        /\ quote' \in {quote, Panel!None} /\ quoting' \in {quoting, TRUE}
        /\ UNCHANGED <<rewards, ticked, open, Panel!claiming, Panel!compounding>>
    BY <1>5 DEF Panel!ChooseTarget, Panel!quoting
  <2>2. quotes' \in [Panel!Asked -> Targets \cup {Panel!None}]
    BY <1>0, <1>5 DEF Panel!ChooseTarget, Panel!quoting, Panel!TypeOK
  <2>3. Panel!TypeOK'
    BY <1>0, <2>1, <2>2 DEF Panel!TypeOK, Panel!claiming, Panel!compounding
  <2> QED
    BY <2>1, <2>3, ClaimsLeft
<1>6. CASE Panel!QuoteAnswered
  <2>1. PICK i \in Panel!Asked :
          /\ quotes[i] # Panel!None /\ quotes' = [quotes EXCEPT ![i] = Panel!None]
          /\ quote' \in {quotes[i], quote} /\ notice' \in {notice, notice \cup {"quote"}}
    BY <1>6 DEF Panel!QuoteAnswered
  <2>2. /\ quoting' = FALSE
        /\ UNCHANGED <<rewards, ticked, target, open, Panel!claiming, Panel!compounding>>
    BY <1>6 DEF Panel!QuoteAnswered
  <2>3. Panel!TypeOK'
    BY <1>0, <2>1, <2>2 DEF Panel!TypeOK, Panel!claiming, Panel!compounding
  <2> QED
    BY <2>2, <2>3, ClaimsLeft
<1>7. CASE Panel!handleAutoCompoundChange
  <2>1. PICK i \in Panel!Asked, s \in Panel!Setting :
          settingChanges' = [settingChanges EXCEPT ![i] = s]
    BY <1>7 DEF Panel!handleAutoCompoundChange
  <2>2. UNCHANGED <<rewards, ticked, target, open, notice, Panel!claiming, Panel!quoting, settings>>
    BY <1>7 DEF Panel!handleAutoCompoundChange
  <2>3. Panel!TypeOK'
    BY <1>0, <2>1, <2>2 DEF Panel!TypeOK, Panel!claiming, Panel!quoting
  <2> QED
    BY <2>2, <2>3, ClaimsLeft
<1>8. CASE Panel!SettingAnswered
  <2>1. PICK i \in Panel!Asked :
          /\ settingChanges[i] # Panel!NoSetting
          /\ settingChanges' = [settingChanges EXCEPT ![i] = Panel!NoSetting]
          /\ notice' \in {notice \cup {"success"}, notice \cup {"error"}}
          /\ \/ settings' = [settings EXCEPT ![settingChanges[i].token] = settingChanges[i].enabled]
             \/ settings' = settings
    BY <1>8 DEF Panel!SettingAnswered
  <2>2. UNCHANGED <<rewards, ticked, target, open, Panel!claiming, Panel!quoting>>
    BY <1>8 DEF Panel!SettingAnswered
  <2>3. settingChanges[i] \in Panel!Setting
    BY <1>0, <2>1 DEF Panel!TypeOK
  <2>4. settings' \in [Tokens -> BOOLEAN]
    BY <1>0, <2>1, <2>3 DEF Panel!TypeOK, Panel!Setting
  <2>5. settingChanges' \in [Panel!Asked -> Panel!Setting \cup {Panel!NoSetting}]
    BY <1>0, <2>1 DEF Panel!TypeOK
  <2>6. Panel!TypeOK'
    BY <1>0, <2>1, <2>2, <2>4, <2>5 DEF Panel!TypeOK, Panel!claiming, Panel!quoting
  <2> QED
    BY <2>2, <2>6, ClaimsLeft
<1> QED
  BY <1>1, <1>2, <1>3, <1>4, <1>5, <1>6, <1>7, <1>8, ClaimsKeep DEF Panel!Next

-----------------------------------------------------------------------------
(* The governance screen.                                                   *)

(* The refreshes that writes of a form await.                               *)
Awaiting(f) == {i \in Governance!Ids : after[i] = f}

(* No more of them than there are writes; a refresh that is not under way   *)
(* is awaited by none.                                                      *)
GovernanceInv ==
  /\ Governance!TypeOK /\ Governance!OneWritePerForm
  /\ \A i \in Governance!Ids : refreshes[i] = {} => after[i] = Governance!None
  /\ \A i \in Governance!Ids : after[i] # "fees"
  /\ \A f \in Governance!Forms : Cardinality(Awaiting(f)) <= writes[f]

VoteForm == [side: {Governance!None, "for", "against"}, amount: Governance!Amounts,
             submitting: BOOLEAN]
LockForm == [open: BOOLEAN, tab: Governance!Tabs, amount: Governance!Amounts,
             submitting: BOOLEAN]

(* Cardinality is the usual one.                                            *)
LEMMA ScreenCardinality == \A S : Governance!Cardinality(S) = Cardinality(S)
  BY DEF Governance!Cardinality, Cardinality

(* There are finitely many refreshes.                                       *)
LEMMA AwaitingFinite ==
  ASSUME NEW f
  PROVE  IsFiniteSet(Awaiting(f)) /\ Cardinality(Awaiting(f)) \in Nat
<1>1. IsFiniteSet(Governance!Ids)
  <2>1. 1 \in Int /\ RefreshesAtOnce \in Int
    BY ScreensAssumption
  <2> QED
    BY <2>1, FS_Interval, Zenon DEF Governance!Ids
<1>2. Awaiting(f) \subseteq Governance!Ids
  BY DEF Awaiting
<1> QED
  BY <1>1, <1>2, FS_Subset, FS_CardinalityType

(* The screen is mounted with one refresh, which no write awaits.           *)
LEMMA GovernanceStarts == Governance!Init => GovernanceInv
<1> SUFFICES ASSUME Governance!Init PROVE GovernanceInv
  OBVIOUS
<1>0. 0 \in Governance!Amounts
  BY ScreensAssumption DEF Governance!Amounts
<1>1. /\ refreshes \in [Governance!Ids -> SUBSET (Accounts \cup {Governance!None})]
      /\ after \in [Governance!Ids -> Governance!Forms \cup {Governance!None}]
      /\ \A i \in Governance!Ids : after[i] = Governance!None
      /\ writes \in [Governance!Forms -> 0..2] /\ \A f \in Governance!Forms : writes[f] = 0
  BY DEF Governance!Init
<1>2. /\ signer \in BOOLEAN /\ configured \subseteq Governance!Roles
      /\ walletAddress \in Accounts \cup {Governance!None}
      /\ governanceLoading \in BOOLEAN /\ failures \subseteq Governance!Roles \cup {"wallet"}
      /\ actionError \in BOOLEAN /\ form \in Governance!Forms /\ selected \in Proposals \cup {0}
  BY DEF Governance!Init, Governance!Roles
<1>3. DOMAIN proposals = {}
  BY DEF Governance!Init
<1>4. /\ account \in [balance: Governance!Amounts, power: Governance!Amounts, lock: Governance!Locks]
      /\ vote \in VoteForm /\ modal \in LockForm
      /\ weeks \in [selected: SUBSET Weeks, claiming: BOOLEAN]
  BY <1>0 DEF Governance!Init, Governance!Locks, Governance!Tabs, VoteForm, LockForm,
              Governance!NoForm, Governance!Closed
<1>5. Governance!TypeOK
  BY <1>1, <1>2, <1>3, <1>4 DEF Governance!TypeOK, VoteForm, LockForm
<1>6. Governance!OneWritePerForm
  BY <1>1 DEF Governance!OneWritePerForm, Governance!Forms
<1>7. \A f \in Governance!Forms : Awaiting(f) = {}
  BY <1>1 DEF Awaiting, Governance!Forms, Governance!None
<1> QED
  BY <1>1, <1>5, <1>6, <1>7, FS_EmptySet DEF GovernanceInv, Governance!None

(* Where neither writes nor refreshes nor the flags of the forms change.    *)
LEMMA WritesLeft ==
  ASSUME GovernanceInv, UNCHANGED <<refreshes, after, writes>>, Governance!TypeOK',
         modal'.submitting = modal.submitting, weeks'.claiming = weeks.claiming
  PROVE  GovernanceInv'
  BY DEF GovernanceInv, Governance!OneWritePerForm, Awaiting

(* A refresh that begins is under way.                                      *)
LEMMA BeginsFor ==
  ASSUME Governance!TypeOK, NEW i \in Governance!Free, NEW a \in Accounts \cup {Governance!None},
         Governance!Begin(i, a)
  PROVE  /\ governanceLoading' \in BOOLEAN
         /\ refreshes' \in [Governance!Ids -> SUBSET (Accounts \cup {Governance!None})]
         /\ \A j \in Governance!Ids : refreshes'[j] = {} => refreshes[j] = {} /\ j # i
<1>1. /\ refreshes \in [Governance!Ids -> SUBSET (Accounts \cup {Governance!None})]
      /\ i \in Governance!Ids
  BY DEF Governance!TypeOK, Governance!Free
<1>2. refreshes' = [refreshes EXCEPT ![i] = {a}] /\ governanceLoading' = TRUE
  BY DEF Governance!Begin
<1>3. {a} \in SUBSET (Accounts \cup {Governance!None})
  OBVIOUS
<1> QED
  BY <1>1, <1>2, <1>3

(* A new address of the wallet, at most with a new refresh for it.          *)
LEMMA AddressKeeps ==
  ASSUME GovernanceInv, Governance!Restored \/ Governance!connect \/ Governance!disconnect
  PROVE  GovernanceInv'
<1>0. Governance!TypeOK
  BY DEF GovernanceInv
<1>1. /\ UNCHANGED <<Governance!env, after, proposals, account, selected, vote, modal, writes,
                     actionError, weeks>>
      /\ failures' \subseteq Governance!Roles \cup {"wallet"}
  BY <1>0 DEF Governance!Restored, Governance!connect, Governance!disconnect, Governance!TypeOK
<1>2. \/ UNCHANGED <<walletAddress, refreshes, governanceLoading>>
      \/ \E a \in Accounts \cup {Governance!None} : Governance!SetWallet(a)
  BY DEF Governance!Restored, Governance!connect, Governance!disconnect
<1>3. /\ walletAddress' \in Accounts \cup {Governance!None} /\ governanceLoading' \in BOOLEAN
      /\ refreshes' \in [Governance!Ids -> SUBSET (Accounts \cup {Governance!None})]
      /\ \A i \in Governance!Ids : refreshes'[i] = {} => refreshes[i] = {}
  <2>1. CASE UNCHANGED <<walletAddress, refreshes, governanceLoading>>
    BY <1>0, <2>1 DEF Governance!TypeOK
  <2>2. ASSUME NEW a \in Accounts \cup {Governance!None}, Governance!SetWallet(a)
        PROVE  /\ walletAddress' \in Accounts \cup {Governance!None} /\ governanceLoading' \in BOOLEAN
               /\ refreshes' \in [Governance!Ids -> SUBSET (Accounts \cup {Governance!None})]
               /\ \A i \in Governance!Ids : refreshes'[i] = {} => refreshes[i] = {}
    <3>1. walletAddress' = a
      BY <2>2 DEF Governance!SetWallet
    <3>2. CASE UNCHANGED <<refreshes, governanceLoading>>
      BY <1>0, <3>1, <3>2 DEF Governance!TypeOK
    <3>3. ASSUME NEW i \in Governance!Free, Governance!Begin(i, a)
          PROVE  /\ governanceLoading' \in BOOLEAN
                 /\ refreshes' \in [Governance!Ids -> SUBSET (Accounts \cup {Governance!None})]
                 /\ \A j \in Governance!Ids : refreshes'[j] = {} => refreshes[j] = {}
      BY <1>0, <3>3, BeginsFor
    <3> QED
      BY <2>2, <3>1, <3>2, <3>3 DEF Governance!SetWallet
  <2> QED
    BY <1>2, <2>1, <2>2
<1>4. Governance!TypeOK'
  BY <1>0, <1>1, <1>3 DEF Governance!TypeOK, Governance!env
<1> QED
  BY <1>1, <1>3, <1>4 DEF GovernanceInv, Governance!OneWritePerForm, Awaiting

(* What a form does when its write is over.                                 *)
LEMMA EndedKeeps ==
  ASSUME GovernanceInv, NEW f \in {"vote", "lock"}, writes[f] > 0, Governance!Ended(f)
  PROVE  /\ writes' = [writes EXCEPT ![f] = @ - 1]
         /\ writes' \in [Governance!Forms -> 0..2]
         /\ vote' \in VoteForm /\ modal' \in LockForm
         /\ writes'["lock"] > 0 => modal'.submitting /\ writes'["lock"] = 1
<1>0. /\ writes \in [Governance!Forms -> 0..2] /\ vote \in VoteForm /\ modal \in LockForm
      /\ 0 \in Governance!Amounts
      /\ writes["lock"] > 0 => modal.submitting /\ writes["lock"] = 1
      /\ f \in Governance!Forms /\ "lock" \in Governance!Forms
  BY ScreensAssumption DEF GovernanceInv, Governance!TypeOK, Governance!OneWritePerForm, VoteForm,
     LockForm, Governance!Amounts, Governance!Forms
<1>1. writes' = [writes EXCEPT ![f] = @ - 1] /\ writes' \in [Governance!Forms -> 0..2]
  <2>1. writes' = [writes EXCEPT ![f] = @ - 1]
    BY DEF Governance!Ended, Governance!None
  <2> QED
    BY <1>0, <2>1
<1>2. CASE f = "vote"
  <2>1. /\ modal' = modal
        /\ \E mine \in BOOLEAN : vote' = [vote EXCEPT !.submitting = @ /\ ~mine]
    BY <1>2 DEF Governance!Ended
  <2>2. vote' \in VoteForm
    BY <1>0, <2>1 DEF VoteForm
  <2> QED
    BY <1>0, <1>1, <1>2, <2>1, <2>2
<1>3. CASE f = "lock"
  <2>1. vote' = vote /\ modal' = [modal EXCEPT !.amount = 0, !.submitting = FALSE]
    BY <1>3 DEF Governance!Ended
  <2>2. modal' \in LockForm
    BY <1>0, <2>1, Zenon DEF LockForm
  <2> QED
    BY <1>0, <1>1, <1>3, <2>1, <2>2
<1> QED
  BY <1>2, <1>3

(* The refreshes that are awaited, when one more is or one less.            *)
LEMMA AwaitingChanges ==
  ASSUME Governance!TypeOK, NEW i \in Governance!Ids, NEW f \in Governance!Forms \cup {Governance!None},
         after' = [after EXCEPT ![i] = f], NEW g \in Governance!Forms
  PROVE  Cardinality(Awaiting(g)') =
           Cardinality(Awaiting(g)) + (IF f = g /\ after[i] # g THEN 1
                                       ELSE IF f # g /\ after[i] = g THEN -1 ELSE 0)
<1>0. after \in [Governance!Ids -> Governance!Forms \cup {Governance!None}]
  BY DEF Governance!TypeOK
<1>1. Awaiting(g)' = IF f = g THEN Awaiting(g) \cup {i} ELSE Awaiting(g) \ {i}
  BY <1>0 DEF Awaiting
<1>2. i \in Awaiting(g) <=> after[i] = g
  BY DEF Awaiting
<1>3. IsFiniteSet(Awaiting(g)) /\ Cardinality(Awaiting(g)) \in Nat
  BY AwaitingFinite
<1>4. CASE f = g
  <2>1. Cardinality(Awaiting(g)') =
          IF i \in Awaiting(g) THEN Cardinality(Awaiting(g)) ELSE Cardinality(Awaiting(g)) + 1
    BY <1>1, <1>3, <1>4, FS_AddElement
  <2> QED
    BY <1>2, <1>3, <1>4, <2>1
<1>5. CASE f # g
  <2>1. Cardinality(Awaiting(g)') =
          IF i \in Awaiting(g) THEN Cardinality(Awaiting(g)) - 1 ELSE Cardinality(Awaiting(g))
    BY <1>1, <1>3, <1>5, FS_RemoveElement
  <2> QED
    BY <1>2, <1>3, <1>5, <2>1
<1> QED
  BY <1>4, <1>5

(* A refresh ends, and with it the write that awaited it.                   *)
LEMMA RefreshEndsKeeps ==
  ASSUME GovernanceInv, Governance!RefreshEnds
  PROVE  GovernanceInv'
<1>0. Governance!TypeOK /\ after \in [Governance!Ids -> Governance!Forms \cup {Governance!None}]
  BY DEF GovernanceInv, Governance!TypeOK
<1>1. PICK i \in Governance!Ids : /\ Governance!Refreshed(i) /\ Governance!Ended(after[i])
                                  /\ after' = [after EXCEPT ![i] = Governance!None]
  BY DEF Governance!RefreshEnds
<1>2. UNCHANGED <<Governance!env, walletAddress, selected, actionError, weeks>>
  BY DEF Governance!RefreshEnds
<1>3. /\ refreshes' = [refreshes EXCEPT ![i] = {}] /\ governanceLoading' = FALSE
      /\ failures' \subseteq Governance!Roles
      /\ proposals' = proposals \/ proposals' \in [Proposals -> Governance!Shown]
      /\ account' \in [balance: Governance!Amounts, power: Governance!Amounts, lock: Governance!Locks]
  <2>1. PICK address \in refreshes[i], failed \in {{}, {"governance"}, {"votingEscrow"}} :
          LET ok == Governance!Read(address) \ failed
          IN /\ refreshes' = [refreshes EXCEPT ![i] = {}]
             /\ governanceLoading' = FALSE
             /\ failures' = (IF address = Governance!None THEN {"governance"} ELSE Governance!Roles) \ ok
             /\ IF "governance" \in ok
                THEN proposals' \in {f \in [Proposals -> Governance!Shown] :
                       \A p \in DOMAIN proposals : proposals[p].voted => f[p].voted}
                ELSE UNCHANGED proposals
             /\ account' \in
                  [balance: IF address # Governance!None /\ "governance" \in ok THEN Governance!Amounts
                            ELSE {account.balance},
                   power:   IF "votingEscrow" \in ok THEN Governance!Amounts ELSE {account.power},
                   lock:    IF "votingEscrow" \in ok THEN Governance!Locks ELSE {account.lock}]
    BY <1>1 DEF Governance!Refreshed
  <2>2. account \in [balance: Governance!Amounts, power: Governance!Amounts, lock: Governance!Locks]
    BY <1>0 DEF Governance!TypeOK
  <2>3. account' \in [balance: Governance!Amounts, power: Governance!Amounts, lock: Governance!Locks]
    BY <2>1, <2>2
  <2> QED
    BY <2>1, <2>3 DEF Governance!Roles
<1>4. /\ refreshes' \in [Governance!Ids -> SUBSET (Accounts \cup {Governance!None})]
      /\ after' \in [Governance!Ids -> Governance!Forms \cup {Governance!None}]
      /\ \A j \in Governance!Ids : after'[j] = IF j = i THEN Governance!None ELSE after[j]
      /\ \A j \in Governance!Ids : j # i => refreshes'[j] = refreshes[j]
  BY <1>0, <1>1, <1>3 DEF Governance!TypeOK
<1>5. /\ \A j \in Governance!Ids : refreshes'[j] = {} => after'[j] = Governance!None
      /\ \A j \in Governance!Ids : after'[j] # "fees"
  BY <1>4 DEF GovernanceInv, Governance!None
<1>6. /\ writes' \in [Governance!Forms -> 0..2] /\ vote' \in VoteForm /\ modal' \in LockForm
      /\ writes'["lock"] > 0 => modal'.submitting /\ writes'["lock"] = 1
      /\ \A g \in Governance!Forms : writes'[g] = writes[g] + (IF after[i] = g THEN -1 ELSE 0)
  <2>1. CASE after[i] = Governance!None
    <3>1. UNCHANGED <<writes, vote, modal>>
      BY <1>1, <2>1 DEF Governance!Ended, Governance!None
    <3>2. \A g \in Governance!Forms : after[i] # g
      BY <2>1 DEF Governance!Forms, Governance!None
    <3> QED
      BY <3>1, <3>2 DEF GovernanceInv, Governance!OneWritePerForm, Governance!TypeOK, VoteForm,
                        LockForm
  <2>2. CASE after[i] # Governance!None
    <3>1. after[i] \in {"vote", "lock"}
      BY <1>0, <2>2 DEF GovernanceInv, Governance!Forms
    <3>2. writes[after[i]] > 0
      <4>1. i \in Awaiting(after[i]) /\ after[i] \in Governance!Forms
        BY <3>1 DEF Awaiting, Governance!Forms
      <4>2. Cardinality(Awaiting(after[i])) # 0
        BY <4>1, AwaitingFinite, FS_EmptySet
      <4>3. Cardinality(Awaiting(after[i])) \in Nat /\ Cardinality(Awaiting(after[i])) <= writes[after[i]]
        BY <4>1, AwaitingFinite DEF GovernanceInv
      <4>4. writes[after[i]] \in 0..2
        BY <4>1 DEF GovernanceInv, Governance!TypeOK
      <4> QED
        BY <4>2, <4>3, <4>4
    <3>3. /\ writes' = [writes EXCEPT ![after[i]] = @ - 1]
          /\ writes' \in [Governance!Forms -> 0..2] /\ vote' \in VoteForm /\ modal' \in LockForm
          /\ writes'["lock"] > 0 => modal'.submitting /\ writes'["lock"] = 1
      BY <1>1, <3>1, <3>2, EndedKeeps
    <3>4. writes \in [Governance!Forms -> 0..2]
      BY DEF GovernanceInv, Governance!TypeOK
    <3> QED
      BY <3>3, <3>4
  <2> QED
    BY <2>1, <2>2
<1>7. Governance!TypeOK'
  <2>1. Governance!Roles \subseteq Governance!Roles \cup {"wallet"}
    OBVIOUS
  <2>2. DOMAIN proposals' \subseteq Proposals /\ \A p \in DOMAIN proposals' : proposals'[p] \in Governance!Shown
    BY <1>0, <1>3 DEF Governance!TypeOK
  <2> QED
    BY <1>0, <1>2, <1>3, <1>4, <1>6, <2>1, <2>2
    DEF Governance!TypeOK, Governance!env, VoteForm, LockForm
<1>8. \A g \in Governance!Forms : Cardinality(Awaiting(g)') <= writes'[g]
  <2>1. SUFFICES ASSUME NEW g \in Governance!Forms PROVE Cardinality(Awaiting(g)') <= writes'[g]
    OBVIOUS
  <2>2. Governance!None # g
    BY DEF Governance!Forms, Governance!None
  <2>3. Cardinality(Awaiting(g)') = Cardinality(Awaiting(g)) + (IF after[i] = g THEN -1 ELSE 0)
    BY <1>0, <1>1, <2>2, AwaitingChanges
  <2>4. /\ Cardinality(Awaiting(g)) \in Nat /\ Cardinality(Awaiting(g)) <= writes[g]
        /\ writes[g] \in 0..2
    BY AwaitingFinite DEF GovernanceInv, Governance!TypeOK
  <2> QED
    BY <1>6, <2>3, <2>4
<1>9. Governance!OneWritePerForm'
  <2>1. "fees" \in Governance!Forms /\ writes["fees"] \in 0..2 /\ after[i] # "fees"
    BY DEF GovernanceInv, Governance!TypeOK, Governance!Forms
  <2>2. writes'["fees"] = writes["fees"]
    BY <1>6, <2>1
  <2> QED
    BY <1>2, <1>6, <2>2 DEF GovernanceInv, Governance!OneWritePerForm
<1> QED
  BY <1>5, <1>7, <1>8, <1>9 DEF GovernanceInv

(* A write begins, fails, or is answered and awaits a refresh.              *)
LEMMA ActionsKeep ==
  ASSUME GovernanceInv,
         \/ Governance!SubmitVote \/ Governance!SubmitLock
         \/ \E f \in {"vote", "lock"} : Governance!ActionFails(f) \/ Governance!ActionSucceeds(f)
         \/ Governance!handleClaim \/ Governance!ClaimEnds
  PROVE  GovernanceInv'
<1>0. /\ Governance!TypeOK /\ writes \in [Governance!Forms -> 0..2]
      /\ {"vote", "lock", "fees"} \subseteq Governance!Forms
      /\ vote \in VoteForm /\ modal \in LockForm
      /\ weeks \in [selected: SUBSET Weeks, claiming: BOOLEAN]
      /\ Governance!OneWritePerForm
  BY DEF GovernanceInv, Governance!TypeOK, Governance!Forms, VoteForm, LockForm
<1>1. ASSUME NEW f \in Governance!Forms, writes[f] < 2, writes' = [writes EXCEPT ![f] = @ + 1],
             UNCHANGED <<refreshes, after>>
      PROVE  /\ writes' \in [Governance!Forms -> 0..2] /\ writes'[f] = writes[f] + 1
             /\ \A g \in Governance!Forms : g # f => writes'[g] = writes[g]
             /\ \A g \in Governance!Forms : Cardinality(Awaiting(g)') <= writes'[g]
  <2>1. /\ writes' \in [Governance!Forms -> 0..2] /\ writes'[f] = writes[f] + 1
        /\ \A g \in Governance!Forms : g # f => writes'[g] = writes[g]
    BY <1>0, <1>1
  <2>2. ASSUME NEW g \in Governance!Forms PROVE Cardinality(Awaiting(g)') <= writes'[g]
    <3>1. Awaiting(g)' = Awaiting(g)
      BY <1>1 DEF Awaiting
    <3>2. Cardinality(Awaiting(g)) \in Nat /\ Cardinality(Awaiting(g)) <= writes[g] /\ writes[g] \in 0..2
      BY AwaitingFinite DEF GovernanceInv, Governance!TypeOK
    <3> QED
      BY <2>1, <3>1, <3>2
  <2> QED
    BY <2>1, <2>2
<1>2. CASE Governance!SubmitVote
  <2>1. /\ vote' = [vote EXCEPT !.submitting = TRUE] /\ writes["vote"] < 2
        /\ writes' = [writes EXCEPT !["vote"] = @ + 1] /\ actionError' = FALSE
        /\ UNCHANGED <<Governance!env, walletAddress, Governance!reading, selected, modal, weeks>>
    BY <1>2 DEF Governance!SubmitVote, Governance!runAction
  <2>2. vote' \in VoteForm
    BY <1>0, <2>1 DEF VoteForm
  <2>3. UNCHANGED <<refreshes, after>>
    BY <2>1 DEF Governance!reading
  <2>4. /\ writes' \in [Governance!Forms -> 0..2] /\ UNCHANGED <<writes["lock"], writes["fees"]>>
        /\ \A g \in Governance!Forms : Cardinality(Awaiting(g)') <= writes'[g]
    BY <1>0, <1>1, <2>1, <2>3
  <2>5. Governance!TypeOK'
    BY <1>0, <2>1, <2>2, <2>4 DEF Governance!TypeOK, Governance!env, Governance!reading, VoteForm
  <2>6. Governance!OneWritePerForm'
    BY <1>0, <2>1, <2>4 DEF Governance!OneWritePerForm
  <2> QED
    BY <2>3, <2>4, <2>5, <2>6 DEF GovernanceInv
<1>3. CASE Governance!SubmitLock
  <2>1. /\ modal' = [modal EXCEPT !.submitting = TRUE] /\ writes["lock"] < 2 /\ ~modal.submitting
        /\ writes' = [writes EXCEPT !["lock"] = @ + 1] /\ actionError' = FALSE
        /\ UNCHANGED <<Governance!env, walletAddress, Governance!reading, selected, vote, weeks>>
    BY <1>3 DEF Governance!SubmitLock, Governance!runAction
  <2>2. modal' \in LockForm /\ modal'.submitting
    BY <1>0, <2>1 DEF LockForm
  <2>3. UNCHANGED <<refreshes, after>>
    BY <2>1 DEF Governance!reading
  <2>4. /\ writes' \in [Governance!Forms -> 0..2] /\ writes'["lock"] = writes["lock"] + 1
        /\ UNCHANGED writes["fees"]
        /\ \A g \in Governance!Forms : Cardinality(Awaiting(g)') <= writes'[g]
    BY <1>0, <1>1, <2>1, <2>3
  <2>5. Governance!TypeOK'
    BY <1>0, <2>1, <2>2, <2>4 DEF Governance!TypeOK, Governance!env, Governance!reading, LockForm
  <2>6. Governance!OneWritePerForm'
    BY <1>0, <2>1, <2>2, <2>4 DEF Governance!OneWritePerForm
  <2> QED
    BY <2>3, <2>4, <2>5, <2>6 DEF GovernanceInv
<1>4. CASE Governance!handleClaim
  <2>1. /\ weeks' = [weeks EXCEPT !.claiming = TRUE] /\ writes["fees"] < 2 /\ ~weeks.claiming
        /\ writes' = [writes EXCEPT !["fees"] = @ + 1]
        /\ UNCHANGED <<Governance!env, walletAddress, Governance!reading, selected, vote, modal,
                       actionError>>
    BY <1>4 DEF Governance!handleClaim
  <2>2. weeks' \in [selected: SUBSET Weeks, claiming: BOOLEAN] /\ weeks'.claiming
    BY <1>0, <2>1
  <2>3. UNCHANGED <<refreshes, after>>
    BY <2>1 DEF Governance!reading
  <2>4. /\ writes' \in [Governance!Forms -> 0..2] /\ writes'["fees"] = writes["fees"] + 1
        /\ UNCHANGED writes["lock"]
        /\ \A g \in Governance!Forms : Cardinality(Awaiting(g)') <= writes'[g]
    BY <1>0, <1>1, <2>1, <2>3
  <2>5. Governance!TypeOK'
    BY <1>0, <2>1, <2>2, <2>4 DEF Governance!TypeOK, Governance!env, Governance!reading
  <2>6. Governance!OneWritePerForm'
    BY <1>0, <2>1, <2>2, <2>4 DEF Governance!OneWritePerForm
  <2> QED
    BY <2>3, <2>4, <2>5, <2>6 DEF GovernanceInv
<1>5. CASE Governance!ClaimEnds
  <2>1. /\ writes["fees"] > 0 /\ writes' = [writes EXCEPT !["fees"] = @ - 1]
        /\ weeks' \in {[weeks EXCEPT !.claiming = FALSE], [selected |-> {}, claiming |-> FALSE]}
        /\ UNCHANGED <<Governance!env, walletAddress, Governance!reading, selected, vote, modal,
                       actionError>>
    BY <1>5 DEF Governance!ClaimEnds
  <2>2. weeks' \in [selected: SUBSET Weeks, claiming: BOOLEAN]
    <3>1. CASE weeks' = [weeks EXCEPT !.claiming = FALSE]
      BY <1>0, <3>1
    <3>2. CASE weeks' = [selected |-> {}, claiming |-> FALSE]
      BY <3>2
    <3> QED
      BY <2>1, <3>1, <3>2
  <2>3. UNCHANGED <<refreshes, after>>
    BY <2>1 DEF Governance!reading
  <2>4. /\ writes' \in [Governance!Forms -> 0..2] /\ writes'["fees"] = 0
        /\ \A g \in Governance!Forms : g # "fees" => writes'[g] = writes[g]
    BY <1>0, <2>1 DEF Governance!OneWritePerForm
  <2>5. ASSUME NEW g \in Governance!Forms PROVE Cardinality(Awaiting(g)') <= writes'[g]
    <3>1. Awaiting(g)' = Awaiting(g)
      BY <2>3 DEF Awaiting
    <3>2. CASE g = "fees"
      <4>1. Awaiting(g) = {}
        BY <3>2 DEF GovernanceInv, Awaiting
      <4> QED
        BY <2>4, <3>1, <3>2, <4>1, FS_EmptySet
    <3>3. CASE g # "fees"
      <4>1. Cardinality(Awaiting(g)) <= writes[g]
        BY DEF GovernanceInv
      <4> QED
        BY <2>4, <3>1, <3>3, <4>1
    <3> QED
      BY <3>2, <3>3
  <2>6. Governance!TypeOK'
    BY <1>0, <2>1, <2>2, <2>4 DEF Governance!TypeOK, Governance!env, Governance!reading
  <2>7. Governance!OneWritePerForm'
    BY <1>0, <2>1, <2>4 DEF Governance!OneWritePerForm
  <2> QED
    BY <2>3, <2>5, <2>6, <2>7 DEF GovernanceInv
<1>6. ASSUME NEW f \in {"vote", "lock"}, Governance!Unanswered(f)
      PROVE  writes[f] > 0 /\ writes[f] > Cardinality(Awaiting(f))
  <2>1. writes[f] > Cardinality(Awaiting(f))
    BY <1>6, ScreenCardinality DEF Governance!Unanswered, Awaiting
  <2> QED
    BY <1>0, <2>1, AwaitingFinite
<1>7. ASSUME NEW f \in {"vote", "lock"}, Governance!ActionFails(f) PROVE GovernanceInv'
  <2>1. /\ Governance!Unanswered(f) /\ Governance!Ended(f) /\ actionError' = TRUE
        /\ UNCHANGED <<Governance!env, walletAddress, Governance!reading, selected, weeks>>
    BY <1>7 DEF Governance!ActionFails
  <2>2. /\ writes' = [writes EXCEPT ![f] = @ - 1]
        /\ writes' \in [Governance!Forms -> 0..2] /\ vote' \in VoteForm /\ modal' \in LockForm
        /\ writes'["lock"] > 0 => modal'.submitting /\ writes'["lock"] = 1
    BY <1>6, <2>1, EndedKeeps
  <2>3. UNCHANGED <<refreshes, after>>
    BY <2>1 DEF Governance!reading
  <2>4. ASSUME NEW g \in Governance!Forms PROVE Cardinality(Awaiting(g)') <= writes'[g]
    <3>1. Awaiting(g)' = Awaiting(g)
      BY <2>3 DEF Awaiting
    <3>2. /\ Cardinality(Awaiting(g)) \in Nat /\ Cardinality(Awaiting(g)) <= writes[g]
          /\ writes[g] \in 0..2
      BY AwaitingFinite DEF GovernanceInv, Governance!TypeOK
    <3>3. f = g => writes[g] > Cardinality(Awaiting(g))
      BY <1>6, <2>1
    <3>4. writes'[g] = IF f = g THEN writes[g] - 1 ELSE writes[g]
      BY <1>0, <2>2
    <3> QED
      BY <3>1, <3>2, <3>3, <3>4
  <2>5. Governance!TypeOK'
    BY <1>0, <2>1, <2>2 DEF Governance!TypeOK, Governance!env, Governance!reading, VoteForm, LockForm
  <2>6. writes'["fees"] = writes["fees"]
    BY <1>0, <2>2
  <2>7. Governance!OneWritePerForm'
    BY <1>0, <2>1, <2>2, <2>6 DEF Governance!OneWritePerForm
  <2> QED
    BY <2>3, <2>4, <2>5, <2>7 DEF GovernanceInv
<1>8. ASSUME NEW f \in {"vote", "lock"}, Governance!ActionSucceeds(f) PROVE GovernanceInv'
  <2>1. PICK i \in Governance!Free : /\ Governance!Begin(i, walletAddress)
                                     /\ after' = [after EXCEPT ![i] = f]
    BY <1>8 DEF Governance!ActionSucceeds
  <2>2. /\ Governance!Unanswered(f)
        /\ UNCHANGED <<Governance!env, walletAddress, failures, proposals, account, selected, vote,
                       modal, writes, actionError, weeks>>
    BY <1>8 DEF Governance!ActionSucceeds
  <2>3. i \in Governance!Ids /\ walletAddress \in Accounts \cup {Governance!None}
    BY <1>0 DEF Governance!Free, Governance!TypeOK
  <2>4. /\ governanceLoading' \in BOOLEAN
        /\ refreshes' \in [Governance!Ids -> SUBSET (Accounts \cup {Governance!None})]
        /\ \A j \in Governance!Ids : refreshes'[j] = {} => refreshes[j] = {} /\ j # i
    BY <1>0, <2>1, <2>3, BeginsFor
  <2>5. /\ after' \in [Governance!Ids -> Governance!Forms \cup {Governance!None}]
        /\ \A j \in Governance!Ids : after'[j] = IF j = i THEN f ELSE after[j]
    BY <1>0, <2>1, <2>3 DEF Governance!TypeOK
  <2>6. ASSUME NEW g \in Governance!Forms PROVE Cardinality(Awaiting(g)') <= writes'[g]
    <3>1. after[i] = Governance!None
      BY <2>1 DEF GovernanceInv, Governance!Free
    <3>2. Cardinality(Awaiting(g)') = Cardinality(Awaiting(g)) + (IF f = g THEN 1 ELSE 0)
      <4>1. after[i] # g
        BY <3>1 DEF Governance!Forms, Governance!None
      <4>2. f \in Governance!Forms \cup {Governance!None}
        BY <1>0
      <4>3. Cardinality(Awaiting(g)') =
              Cardinality(Awaiting(g)) + (IF f = g /\ after[i] # g THEN 1
                                          ELSE IF f # g /\ after[i] = g THEN -1 ELSE 0)
        BY ZenonT(60), <1>0, <2>1, <2>3, <4>2, AwaitingChanges
      <4> QED
        BY <4>1, <4>3
    <3>3. /\ Cardinality(Awaiting(g)) \in Nat /\ Cardinality(Awaiting(g)) <= writes[g]
          /\ writes[g] \in 0..2
      BY AwaitingFinite DEF GovernanceInv, Governance!TypeOK
    <3>4. f = g => writes[g] > Cardinality(Awaiting(g))
      BY <1>6, <2>2
    <3> QED
      BY <2>2, <3>2, <3>3, <3>4
  <2>7. Governance!TypeOK'
    BY <1>0, <2>2, <2>4, <2>5 DEF Governance!TypeOK, Governance!env
  <2>8. Governance!OneWritePerForm'
    BY <1>0, <2>2 DEF Governance!OneWritePerForm
  <2> QED
    BY <2>4, <2>5, <2>6, <2>7, <2>8 DEF GovernanceInv
<1> QED
  BY <1>2, <1>3, <1>4, <1>5, <1>7, <1>8

(* What the forms do beside leaves the writes alone.                        *)
LEMMA FormsKeep ==
  ASSUME GovernanceInv,
         \/ Governance!Select \/ Governance!CloseVoting \/ Governance!EditVote
         \/ Governance!OpenModal \/ Governance!CloseModal \/ Governance!EditModal
         \/ Governance!toggleWeek
  PROVE  GovernanceInv'
<1>0. /\ Governance!TypeOK /\ vote \in VoteForm /\ modal \in LockForm
      /\ weeks \in [selected: SUBSET Weeks, claiming: BOOLEAN]
      /\ account.power \in Governance!Amounts /\ 0 \in Governance!Amounts
  BY ScreensAssumption DEF GovernanceInv, Governance!TypeOK, VoteForm, LockForm, Governance!Amounts
<1>1. ASSUME vote' \in VoteForm, modal' \in LockForm,
             weeks' \in [selected: SUBSET Weeks, claiming: BOOLEAN],
             selected' \in Proposals \cup {0},
             modal'.submitting = modal.submitting, weeks'.claiming = weeks.claiming,
             UNCHANGED <<Governance!env, walletAddress, Governance!reading, writes, actionError>>
      PROVE  GovernanceInv'
  <2>1. UNCHANGED <<refreshes, after, writes>>
    BY <1>1 DEF Governance!reading
  <2>2. Governance!TypeOK'
    BY <1>0, <1>1 DEF Governance!TypeOK, Governance!env, Governance!reading, VoteForm, LockForm
  <2> QED
    BY <1>1, <2>1, <2>2, WritesLeft
<1>2. selected \in Proposals \cup {0}
  BY <1>0 DEF Governance!TypeOK
<1>3. CASE Governance!Select
  <2>1. PICK f \in Governance!Filters : \E p \in Governance!filteredProposals(f) \ {selected} :
          /\ selected' = p
          /\ IF selected # 0 THEN UNCHANGED vote
             ELSE \E side \in IF proposals[p].voted THEN {"for", "against"} ELSE {Governance!None} :
                    vote' = [Governance!NoForm EXCEPT !.side = side, !.amount = account.power]
    BY <1>3 DEF Governance!Select
  <2>2. Governance!filteredProposals(f) \subseteq DOMAIN proposals
    BY Zenon DEF Governance!filteredProposals
  <2>3. selected' \in Proposals
    BY <1>0, <2>1, <2>2 DEF Governance!TypeOK
  <2>4. vote' \in VoteForm
    <3>1. ASSUME NEW side \in {Governance!None, "for", "against"},
                 vote' = [Governance!NoForm EXCEPT !.side = side, !.amount = account.power]
          PROVE  vote' \in VoteForm
      <4>1. vote' = [side |-> side, amount |-> account.power, submitting |-> FALSE]
        BY <3>1, Zenon DEF Governance!NoForm
      <4>2. account.power \in Governance!Amounts
        BY <1>0 DEF Governance!TypeOK
      <4> QED
        BY <4>1, <4>2 DEF VoteForm
    <3> QED
      BY <1>0, <2>1, <3>1
  <2>5. UNCHANGED <<Governance!env, walletAddress, Governance!reading, modal, writes, actionError,
                    weeks>>
    BY <1>3 DEF Governance!Select
  <2> QED
    BY <1>0, <1>1, <2>3, <2>4, <2>5
<1>4. CASE Governance!CloseVoting
  <2>1. /\ selected' = 0 /\ vote' = Governance!NoForm
        /\ UNCHANGED <<Governance!env, walletAddress, Governance!reading, modal, writes,
                       actionError, weeks>>
    BY <1>4 DEF Governance!CloseVoting
  <2>2. vote' \in VoteForm
    BY <1>0, <2>1 DEF VoteForm, Governance!NoForm
  <2> QED
    BY <1>0, <1>1, <2>1, <2>2
<1>5. CASE Governance!EditVote
  <2>1. /\ \/ \E side \in {"for", "against"} : vote' = [vote EXCEPT !.side = side]
           \/ \E amount \in Governance!Amounts : vote' = [vote EXCEPT !.amount = amount]
        /\ UNCHANGED <<Governance!env, walletAddress, Governance!reading, selected, modal, writes,
                       actionError, weeks>>
    BY <1>5 DEF Governance!EditVote
  <2>2. vote' \in VoteForm
    <3>1. ASSUME NEW side \in {"for", "against"}, vote' = [vote EXCEPT !.side = side]
          PROVE  vote' \in VoteForm
      BY <1>0, <3>1 DEF VoteForm
    <3>2. ASSUME NEW amount \in Governance!Amounts, vote' = [vote EXCEPT !.amount = amount]
          PROVE  vote' \in VoteForm
      BY <1>0, <3>2 DEF VoteForm
    <3> QED
      BY <2>1, <3>1, <3>2
  <2> QED
    BY <1>0, <1>1, <1>2, <2>1, <2>2
<1>6. CASE Governance!OpenModal
  <2>1. /\ modal' = [Governance!Closed EXCEPT !.open = TRUE, !.submitting = modal.submitting]
        /\ UNCHANGED <<Governance!env, walletAddress, Governance!reading, selected, vote, writes,
                       actionError, weeks>>
    BY <1>6 DEF Governance!OpenModal
  <2>2. modal' = [open |-> TRUE, tab |-> "create", amount |-> 0, submitting |-> modal.submitting]
    BY <2>1, Zenon DEF Governance!Closed
  <2>3. modal' \in LockForm /\ modal'.submitting = modal.submitting
    BY <1>0, <2>2 DEF LockForm, Governance!Tabs
  <2> QED
    BY <1>0, <1>1, <1>2, <2>1, <2>3
<1>7. CASE Governance!CloseModal
  <2>1. /\ modal' = [modal EXCEPT !.open = FALSE]
        /\ UNCHANGED <<Governance!env, walletAddress, Governance!reading, selected, vote, writes,
                       actionError, weeks>>
    BY <1>7 DEF Governance!CloseModal
  <2>2. modal' \in LockForm /\ modal'.submitting = modal.submitting
    BY <1>0, <2>1 DEF LockForm
  <2> QED
    BY <1>0, <1>1, <1>2, <2>1, <2>2
<1>8. CASE Governance!EditModal
  <2>1. /\ \/ \E tab \in Governance!Tabs : modal' = [modal EXCEPT !.tab = tab]
           \/ \E amount \in Governance!Amounts : modal' = [modal EXCEPT !.amount = amount]
        /\ UNCHANGED <<Governance!env, walletAddress, Governance!reading, selected, vote, writes,
                       actionError, weeks>>
    BY <1>8 DEF Governance!EditModal, Governance!Tabs
  <2>2. modal' \in LockForm /\ modal'.submitting = modal.submitting
    <3>1. ASSUME NEW tab \in Governance!Tabs, modal' = [modal EXCEPT !.tab = tab]
          PROVE  modal' \in LockForm /\ modal'.submitting = modal.submitting
      BY <1>0, <3>1 DEF LockForm
    <3>2. ASSUME NEW amount \in Governance!Amounts, modal' = [modal EXCEPT !.amount = amount]
          PROVE  modal' \in LockForm /\ modal'.submitting = modal.submitting
      BY <1>0, <3>2 DEF LockForm
    <3> QED
      BY <2>1, <3>1, <3>2
  <2> QED
    BY <1>0, <1>1, <1>2, <2>1, <2>2
<1>9. CASE Governance!toggleWeek
  <2>1. PICK s \in SUBSET Weeks : weeks' = [weeks EXCEPT !.selected = s]
    BY <1>9 DEF Governance!toggleWeek
  <2>2. UNCHANGED <<Governance!env, walletAddress, Governance!reading, selected, vote, modal,
                    writes, actionError>>
    BY <1>9 DEF Governance!toggleWeek
  <2>3. weeks' \in [selected: SUBSET Weeks, claiming: BOOLEAN] /\ weeks'.claiming = weeks.claiming
    BY <1>0, <2>1
  <2> QED
    BY <1>0, <1>1, <1>2, <2>2, <2>3
<1> QED
  BY <1>3, <1>4, <1>5, <1>6, <1>7, <1>8, <1>9

(* Every step of the governance screen keeps it.                            *)
LEMMA GovernanceNext == GovernanceInv /\ Governance!Next => GovernanceInv'
  BY AddressKeeps, RefreshEndsKeeps, ActionsKeep, FormsKeep DEF Governance!Next

-----------------------------------------------------------------------------
(* The rebalance screen.                                                    *)

(* A hash is shown with "confirmed", and it is the one of a run: what is    *)
(* not a run has no outcome that the invariant could speak of.              *)
RebalanceInv ==
  /\ Rebalance!TypeOK /\ Rebalance!ConfirmedWasExecuted
  /\ rebalance.status = "confirmed" => rebalance.hash \in Rebalance!Runs

(* The states of a run, and of the hook for the transaction.                *)
Stages == Rebalance!Ended \cup {"none", "checking", "running"} \cup {"confirming", "denying"}
Statements == [status: {"idle", "submitting", "confirmed", "failed"},
               hash: Rebalance!Runs \cup {Rebalance!None}]

(* The screen is mounted with nothing loaded, run or told.                  *)
LEMMA RebalanceStarts == Rebalance!Init => RebalanceInv
<1> SUFFICES ASSUME Rebalance!Init PROVE RebalanceInv
  OBVIOUS
<1>1. run \in [Rebalance!Runs -> Stages] /\ rebalance \in Statements
      /\ rebalance.status # "confirmed"
  BY DEF Rebalance!Init, Stages, Statements
<1>2. Rebalance!TypeOK
  BY <1>1 DEF Rebalance!Init, Rebalance!TypeOK, Stages, Statements
<1> QED
  BY <1>1, <1>2 DEF RebalanceInv, Rebalance!ConfirmedWasExecuted

(* What is loaded has its types: the strategy that is selected is the first *)
(* of a list that is not empty.                                             *)
LEMMA LoadedTyped ==
  ASSUME Rebalance!TypeOK, Rebalance!Loaded
  PROVE  /\ strategies' \subseteq Strategies /\ strategy' \in Strategies \cup {Rebalance!None}
         /\ listLoading' \in BOOLEAN /\ listError' \in BOOLEAN
<1>1. CASE /\ strategies' \in {{}, Strategies}
           /\ strategy' = IF strategies' = {} THEN strategy ELSE CHOOSE s \in Strategies : TRUE
           /\ UNCHANGED listError
  BY <1>1 DEF Rebalance!TypeOK, Rebalance!Loaded
<1>2. CASE listError' = TRUE /\ UNCHANGED <<strategies, strategy>>
  BY <1>2 DEF Rebalance!TypeOK, Rebalance!Loaded
<1> QED
  BY <1>1, <1>2 DEF Rebalance!Loaded

(* A step that keeps the runs that succeeded, and that shows a confirmation *)
(* only of one of them, keeps the truth of what is shown.                   *)
LEMMA RebalanceKept ==
  ASSUME RebalanceInv, Rebalance!TypeOK',
         \A r \in Rebalance!Runs : run[r] = "success" => run'[r] = "success",
         \/ rebalance' = rebalance
         \/ rebalance'.status # "confirmed"
         \/ rebalance'.hash \in Rebalance!Runs /\ run'[rebalance'.hash] = "success"
  PROVE  RebalanceInv'
  BY DEF RebalanceInv, Rebalance!ConfirmedWasExecuted

(* The steps that leave the runs and the transaction as they are.           *)
LEMMA ListKeeps ==
  ASSUME RebalanceInv,
         \/ Rebalance!LoadEnds \/ Rebalance!Refresh \/ Rebalance!Select
         \/ Rebalance!handleAnalyzeOpportunities \/ Rebalance!AnalysisEnds
  PROVE  RebalanceInv'
<1>0. Rebalance!TypeOK
  BY DEF RebalanceInv
<1>1. UNCHANGED <<run, rebalance>>
  BY DEF Rebalance!LoadEnds, Rebalance!Refresh, Rebalance!Select,
     Rebalance!handleAnalyzeOpportunities, Rebalance!AnalysisEnds
<1>2. Rebalance!TypeOK'
  <2>1. CASE Rebalance!LoadEnds
    BY <1>0, <1>1, <2>1, LoadedTyped DEF Rebalance!LoadEnds, Rebalance!TypeOK
  <2>2. CASE Rebalance!Refresh
    BY <1>0, <1>1, <2>2 DEF Rebalance!Refresh, Rebalance!TypeOK
  <2>3. CASE Rebalance!Select
    BY <1>0, <1>1, <2>3 DEF Rebalance!Select, Rebalance!TypeOK
  <2>4. CASE Rebalance!handleAnalyzeOpportunities
    BY <1>0, <1>1, <2>4 DEF Rebalance!handleAnalyzeOpportunities, Rebalance!list, Rebalance!TypeOK
  <2>5. CASE Rebalance!AnalysisEnds
    BY <1>0, <1>1, <2>5 DEF Rebalance!AnalysisEnds, Rebalance!list, Rebalance!TypeOK
  <2> QED
    BY <2>1, <2>2, <2>3, <2>4, <2>5
<1> QED
  BY <1>1, <1>2, RebalanceKept

(* The steps of the runs.                                                   *)
LEMMA RunsKeep ==
  ASSUME RebalanceInv, NEW r \in Rebalance!Runs,
         \/ Rebalance!Execute(r) \/ Rebalance!WalletAnswers(r) \/ Rebalance!Returns(r)
         \/ Rebalance!Reloaded(r) \/ Rebalance!Throws(r)
  PROVE  RebalanceInv'
<1>0. /\ Rebalance!TypeOK /\ run \in [Rebalance!Runs -> Stages] /\ rebalance \in Statements
  BY DEF RebalanceInv, Rebalance!TypeOK, Stages, Statements
<1>1. ASSUME NEW stage \in Stages, run[r] # "success", run' = [run EXCEPT ![r] = stage],
             rebalance' \in Statements,
             \/ rebalance' = rebalance
             \/ rebalance'.status # "confirmed"
             \/ stage = "success" /\ rebalance'.hash = r,
             strategies' \subseteq Strategies, strategy' \in Strategies \cup {Rebalance!None},
             listLoading' \in BOOLEAN, listError' \in BOOLEAN,
             UNCHANGED <<reload, found, analysis>>
      PROVE  RebalanceInv'
  <2>1. /\ run' \in [Rebalance!Runs -> Stages] /\ run'[r] = stage
        /\ \A q \in Rebalance!Runs : q # r => run'[q] = run[q]
    BY <1>0, <1>1
  <2>2. Rebalance!TypeOK'
    BY <1>0, <1>1, <2>1 DEF Rebalance!TypeOK, Stages, Statements
  <2>3. \A q \in Rebalance!Runs : run[q] = "success" => run'[q] = "success"
    BY <1>1, <2>1
  <2> QED
    BY <1>1, <2>1, <2>2, <2>3, RebalanceKept
<1>2. /\ strategies \subseteq Strategies /\ strategy \in Strategies \cup {Rebalance!None}
      /\ listLoading \in BOOLEAN /\ listError \in BOOLEAN
  BY <1>0 DEF Rebalance!TypeOK
<1>3. {"none", "checking", "running", "confirming", "denying", "success", "failure", "thrown",
       "refused"} \subseteq Stages
  BY DEF Stages, Rebalance!Ended
<1>4. CASE Rebalance!Execute(r)
  <2>1. /\ run[r] = "none" /\ rebalance' = [status |-> "idle", hash |-> Rebalance!None]
        /\ UNCHANGED <<strategies, strategy, reload, listLoading, found, analysis>>
        /\ listError' \in BOOLEAN
        /\ \E stage \in {"checking", "refused"} : run' = [run EXCEPT ![r] = stage]
    BY <1>4 DEF Rebalance!Execute, Rebalance!list
  <2>2. rebalance' \in Statements /\ rebalance'.status # "confirmed"
    BY <2>1 DEF Statements
  <2> QED
    BY <1>1, <1>2, <1>3, <2>1, <2>2
<1>5. CASE Rebalance!WalletAnswers(r)
  <2>1. /\ run[r] = "checking"
        /\ rebalance' = rebalance \/ rebalance' = [status |-> "submitting", hash |-> Rebalance!None]
        /\ UNCHANGED <<strategies, strategy, reload, listLoading, found, analysis>>
        /\ listError' = listError \/ listError' = TRUE
        /\ \E stage \in {"running", "refused"} : run' = [run EXCEPT ![r] = stage]
    BY <1>5 DEF Rebalance!WalletAnswers, Rebalance!list
  <2>2. rebalance' \in Statements /\ (rebalance' = rebalance \/ rebalance'.status # "confirmed")
    BY <1>0, <2>1 DEF Statements
  <2> QED
    BY <1>1, <1>2, <1>3, <2>1, <2>2
<1>6. CASE Rebalance!Returns(r)
  <2>1. /\ run[r] = "running" /\ listLoading' = TRUE /\ listError' = FALSE
        /\ UNCHANGED <<strategies, strategy, reload, found, analysis, rebalance>>
        /\ \E stage \in {"confirming", "denying"} : run' = [run EXCEPT ![r] = stage]
    BY <1>6 DEF Rebalance!Returns
  <2> QED
    BY <1>0, <1>1, <1>2, <1>3, <2>1
<1>7. CASE Rebalance!Reloaded(r)
  <2>1. /\ run[r] \in {"confirming", "denying"} /\ UNCHANGED <<reload, found, analysis>>
        /\ run' = [run EXCEPT ![r] = IF run[r] = "confirming" THEN "success" ELSE "failure"]
        /\ rebalance' = [status |-> IF run[r] = "confirming" THEN "confirmed" ELSE "failed",
                         hash |-> r]
        /\ Rebalance!Loaded
    BY <1>7 DEF Rebalance!Reloaded
  <2>2. rebalance' \in Statements /\ rebalance'.hash = r
    BY <2>1 DEF Statements
  <2>3. CASE run[r] = "confirming"
    BY <1>0, <1>1, <1>3, <2>1, <2>2, <2>3, LoadedTyped
  <2>4. CASE run[r] # "confirming"
    <3>1. rebalance'.status # "confirmed"
      BY <2>1, <2>4
    <3> QED
      BY <1>0, <1>1, <1>3, <2>1, <2>2, <2>4, <3>1, LoadedTyped
  <2> QED
    BY <2>3, <2>4
<1>8. CASE Rebalance!Throws(r)
  <2>1. /\ run[r] = "running" /\ run' = [run EXCEPT ![r] = "thrown"]
        /\ rebalance' = [rebalance EXCEPT !.status = "failed"]
        /\ UNCHANGED <<strategies, strategy, reload, listLoading, found, analysis, listError>>
    BY <1>8 DEF Rebalance!Throws, Rebalance!list
  <2>2. rebalance' \in Statements /\ rebalance'.status # "confirmed"
    BY <1>0, <2>1 DEF Statements
  <2> QED
    BY <1>1, <1>2, <1>3, <2>1, <2>2
<1> QED
  BY <1>4, <1>5, <1>6, <1>7, <1>8

(* Every step of the rebalance screen keeps it.                             *)
LEMMA RebalanceNext == RebalanceInv /\ Rebalance!Next => RebalanceInv'
<1> SUFFICES ASSUME RebalanceInv, Rebalance!Next PROVE RebalanceInv'
  OBVIOUS
<1>1. CASE Rebalance!resetTx
  <2>1. /\ rebalance' = [status |-> "idle", hash |-> Rebalance!None]
        /\ UNCHANGED <<strategies, strategy, reload, listLoading, found, analysis, listError, run>>
    BY <1>1 DEF Rebalance!resetTx, Rebalance!list
  <2>2. Rebalance!TypeOK' /\ rebalance'.status # "confirmed"
    BY <2>1 DEF RebalanceInv, Rebalance!TypeOK
  <2> QED
    BY <2>1, <2>2, RebalanceKept
<1>2. CASE ~Rebalance!resetTx
  BY <1>2, ListKeeps, RunsKeep DEF Rebalance!Next
<1> QED
  BY <1>1, <1>2

-----------------------------------------------------------------------------
(* The strategy selector.                                                   *)

(* The strategies of one place, each of them once.                          *)
OfOnePlace(seq) ==
  \A i, j \in DOMAIN seq :
    /\ seq[i].of = seq[j].of
    /\ seq[i].strategyId = seq[j].strategyId => i = j

(* The first strategies of a list are a list of one place, too, and there   *)
(* is one among them if there is one in the list.                           *)
LEMMA AtMostProperties ==
  ASSUME NEW m \in Nat \ {0}, NEW seq, DOMAIN seq = 1..m, Len(seq) = m, OfOnePlace(seq)
  PROVE  OfOnePlace(Selector!AtMost(seq, Limit)) /\ Selector!AtMost(seq, Limit) # <<>>
<1> DEFINE S == {seq[i] : i \in 1..m}
           n == IF Len(seq) < Limit THEN Len(seq) ELSE Limit
           first == Selector!AtMost(seq, Limit)
<1>1. n \in 1..m /\ n \in Nat \ {0}
  BY ScreensAssumption
<1>2. \A i \in 1..n : seq[i] \in S
  BY <1>1
<1>3. first = SubSeq(seq, 1, n)
  BY DEF Selector!AtMost
<1> HIDE DEF S, n, first
<1>4. first \in Seq(S) /\ Len(first) = n /\ \A i \in 1..n : first[i] = seq[i]
  <2>1. n - 1 + 1 = n /\ 1 \in Int /\ n \in Int /\ 1 <= n /\ \A i \in 1..n : 1 + i - 1 = i
    BY <1>1
  <2>2. /\ SubSeq(seq, 1, n) \in Seq(S) /\ Len(SubSeq(seq, 1, n)) = IF 1 <= n THEN n - 1 + 1 ELSE 0
        /\ \A i \in 1..(n - 1 + 1) : SubSeq(seq, 1, n)[i] = seq[1 + i - 1]
    BY <1>2, <2>1, SubSeqProperties
  <2> QED
    BY <1>3, <2>1, <2>2
<1>5. DOMAIN first = 1..n
  BY <1>4, LenProperties
<1>6. OfOnePlace(first)
  BY <1>1, <1>4, <1>5 DEF OfOnePlace
<1>7. first # <<>>
  BY <1>1, <1>4
<1> QED
  BY <1>6, <1>7 DEF first

(* The strategies that are built in are of one place.                       *)
LEMMA DefaultsOfOnePlace ==
  OfOnePlace(Selector!defaultStrategies) /\ Selector!defaultStrategies # <<>>
<1> DEFINE built == [i \in 1..3 |-> [strategyId |-> i, of |-> Selector!NoRegistry]]
<1>1. DOMAIN built = 1..3 /\ Len(built) = 3 /\ OfOnePlace(built) /\ 3 \in Nat \ {0}
  BY DEF OfOnePlace
<1> HIDE DEF built
<1>2. OfOnePlace(Selector!AtMost(built, Limit)) /\ Selector!AtMost(built, Limit) # <<>>
  BY <1>1, AtMostProperties
<1> QED
  BY <1>2 DEF Selector!defaultStrategies, built

(* So are those that a registry answers, whichever it is.                   *)
LEMMA FetchedOfOnePlace ==
  ASSUME NEW r, NEW answer \in Selector!Answers
  PROVE  /\ OfOnePlace(Selector!fetchActiveStrategies(r, answer))
         /\ Selector!fetchActiveStrategies(r, answer) # <<>>
<1>1. CASE r = Selector!NoRegistry \/ answer = <<>>
  BY <1>1, DefaultsOfOnePlace DEF Selector!fetchActiveStrategies
<1>2. CASE ~(r = Selector!NoRegistry \/ answer = <<>>)
  <2> DEFINE given1 == [i \in DOMAIN answer |-> [strategyId |-> answer[i], of |-> r]]
  <2>1. PICK m \in 0..MaxAnswer : answer \in [1..m -> Records]
    BY DEF Selector!Answers, Selector!SeqOf
  <2>2. \A i, j \in DOMAIN answer : answer[i] = answer[j] => i = j
    BY DEF Selector!Answers, Selector!IsInjective
  <2>3. m \in Nat \ {0}
    <3>1. m \in Nat
      BY <2>1, ScreensAssumption
    <3>2. ASSUME m = 0 PROVE FALSE
      <4>1. answer \in Seq(Records) /\ Len(answer) = 0
        BY <2>1, <3>2
      <4> QED
        BY <1>2, <4>1, EmptySeq
    <3> QED
      BY <3>1, <3>2
  <2>4. DOMAIN given1 = 1..m /\ Len(given1) = m /\ OfOnePlace(given1)
    BY <2>1, <2>2, <2>3 DEF OfOnePlace
  <2>5. Selector!fetchActiveStrategies(r, answer) = Selector!AtMost(given1, Limit)
    BY <1>2 DEF Selector!fetchActiveStrategies
  <2> HIDE DEF given1
  <2> QED
    BY <2>3, <2>4, <2>5, AtMostProperties
<1> QED
  BY <1>1, <1>2

(* The selector is mounted loading, with nothing to choose from.            *)
LEMMA SelectorStarts == Selector!Init => Selector!ChoiceIsSound
  BY DEF Selector!Init, Selector!ChoiceIsSound, Selector!AlwaysAChoice, Selector!OneList

(* Every step of the selector keeps its choice sound: a list is replaced by *)
(* what one load fetched.                                                   *)
LEMMA SelectorNext == Selector!ChoiceIsSound /\ Selector!Next => Selector!ChoiceIsSound'
<1> SUFFICES ASSUME Selector!ChoiceIsSound, Selector!Next PROVE Selector!ChoiceIsSound'
  OBVIOUS
<1> USE DEF Selector!ChoiceIsSound, Selector!AlwaysAChoice, Selector!OneList
<1>1. CASE Selector!GivesRegistry
  BY <1>1 DEF Selector!GivesRegistry
<1>2. ASSUME NEW r \in Selector!Given, Selector!Loaded(r) PROVE Selector!ChoiceIsSound'
  <2>1. <<>> \in Selector!Answers
    <3>1. <<>> \in Seq(Records) /\ Len(<<>>) = 0 /\ DOMAIN <<>> = 1..0
      OBVIOUS
    <3>2. <<>> \in [1..0 -> Records]
      BY <3>1
    <3>3. 0 \in 0..MaxAnswer
      BY ScreensAssumption
    <3> QED
      BY <3>1, <3>2, <3>3 DEF Selector!Answers, Selector!SeqOf, Selector!IsInjective
  <2>2. PICK answer \in Selector!Answers : offers' = Selector!fetchActiveStrategies(r, answer)
    BY <1>2, <2>1 DEF Selector!Loaded
  <2>3. OfOnePlace(offers') /\ offers' # <<>>
    BY <2>2, FetchedOfOnePlace
  <2> QED
    BY <2>3 DEF OfOnePlace
<1>3. ASSUME NEW i \in DOMAIN offers, Selector!handleStrategySelect(i)
      PROVE  Selector!ChoiceIsSound'
  BY <1>3 DEF Selector!handleStrategySelect
<1> QED
  BY <1>1, <1>2, <1>3 DEF Selector!Next

-----------------------------------------------------------------------------
(* The board of several vaults.                                             *)

(* A round under way reads for a user of the page; what the page shows was  *)
(* read for one, or a round under way has it left to read; and where the    *)
(* board is loading there is a round.                                       *)
BoardInv ==
  /\ list \in VaultLists /\ user \in Users
  /\ DOMAIN rounds = Rounds /\ DOMAIN rows = Board!Vaults
  /\ \A r \in Rounds : rounds[r] = Board!NoRound
                       \/ rounds[r] \in [user: Users, all: SUBSET Board!Vaults,
                                         left: SUBSET Board!Vaults]
  /\ overallLoading => Board!UnderWay # {}
  /\ \A v \in list : rows[v].user \in Users \/ \E r \in Board!UnderWay : v \in rounds[r].left

(* It implies that the board is complete: with no round under way nothing   *)
(* is left to read.                                                         *)
LEMMA BoardIsRight == BoardInv => Board!BoardIsComplete
  BY DEF BoardInv, Board!BoardIsComplete

RoundOf == [user: Users, all: SUBSET Board!Vaults, left: SUBSET Board!Vaults]

(* A new round is one under way, whichever list and user it is for.         *)
LEMMA RoundTyped ==
  ASSUME NEW vaults \in VaultLists, NEW of \in Users
  PROVE  /\ Board!Round(vaults, of) \in RoundOf
         /\ Board!Round(vaults, of) # Board!NoRound /\ Board!Round(vaults, of).left = vaults
<1>1. vaults \subseteq Board!Vaults
  BY DEF Board!Vaults
<1>2. Board!Round(vaults, of).user # Board!NoRound.user
  BY ScreensAssumption DEF Board!Round, Board!NoRound
<1> QED
  BY <1>1, <1>2 DEF Board!Round, RoundOf

(* The board is mounted with a round under way for the list it shows.       *)
LEMMA BoardStarts == Board!Init => BoardInv
<1> SUFFICES ASSUME Board!Init PROVE BoardInv
  OBVIOUS
<1>1. /\ list \in VaultLists /\ user \in Users /\ DOMAIN rounds = Rounds
      /\ DOMAIN rows = Board!Vaults
      /\ \A r \in Rounds : rounds[r] = IF r = 1 THEN Board!Round(list, user) ELSE Board!NoRound
  BY DEF Board!Init
<1>2. 1 \in Rounds
  BY ScreensAssumption
<1>3. /\ rounds[1] \in RoundOf /\ rounds[1] # Board!NoRound /\ rounds[1].left = list
  BY <1>1, <1>2, RoundTyped
<1>4. 1 \in Board!UnderWay
  BY <1>2, <1>3 DEF Board!UnderWay
<1> QED
  BY <1>1, <1>3, <1>4 DEF BoardInv, RoundOf

(* A new round keeps it, for the list of the page then.                     *)
LEMMA RefreshKeeps ==
  ASSUME BoardInv, NEW vaults \in VaultLists, NEW of \in Users,
         Board!refreshAll(vaults, of), rows' = rows,
         list' = vaults /\ user' = of
  PROVE  BoardInv'
<1>1. PICK r \in Rounds \ Board!UnderWay : rounds' = [rounds EXCEPT ![r] = Board!Round(vaults, of)]
  BY DEF Board!refreshAll
<1>2. overallLoading' = TRUE
  BY DEF Board!refreshAll
<1>3. /\ DOMAIN rounds' = Rounds /\ rounds'[r] = Board!Round(vaults, of)
      /\ \A q \in Rounds : q # r => rounds'[q] = rounds[q]
  BY <1>1 DEF BoardInv
<1>4. rounds'[r] \in RoundOf /\ rounds'[r] # Board!NoRound /\ rounds'[r].left = vaults
  BY <1>3, RoundTyped
<1>5. r \in Board!UnderWay'
  BY <1>1, <1>4 DEF Board!UnderWay
<1>6. \A v \in list' : \E q \in Board!UnderWay' : v \in rounds'[q].left
  BY <1>4, <1>5
<1>7. \A q \in Rounds : rounds'[q] = Board!NoRound \/ rounds'[q] \in RoundOf
  BY <1>3, <1>4 DEF BoardInv, RoundOf
<1> QED
  BY <1>2, <1>3, <1>5, <1>6, <1>7 DEF BoardInv, RoundOf

(* A vault is refreshed: its row is the one of the round's user.            *)
LEMMA VaultKeeps ==
  ASSUME BoardInv, NEW r \in Rounds, NEW v \in Board!Vaults, Board!refreshVault(r, v)
  PROVE  BoardInv'
<1>1. PICK read \in SUBSET Board!Fields :
        /\ v \in rounds[r].left
        /\ rows' = [rows EXCEPT ![v] = [user |-> rounds[r].user, read |-> read]]
        /\ rounds' = [rounds EXCEPT ![r].left = @ \ {v}]
        /\ UNCHANGED <<list, user, overallLoading>>
  BY Zenon DEF Board!refreshVault
<1>2. r \in Board!UnderWay
  BY <1>1 DEF Board!UnderWay, Board!NoRound
<1>3. rounds[r] \in RoundOf
  BY <1>2 DEF BoardInv, RoundOf, Board!UnderWay
<1>4. rounds'[r] = [rounds[r] EXCEPT !.left = @ \ {v}]
  BY <1>1, Zenon DEF BoardInv
<1>5. rounds'[r] = [user |-> rounds[r].user, all |-> rounds[r].all, left |-> rounds[r].left \ {v}]
  BY <1>3, <1>4 DEF RoundOf
<1>6. DOMAIN rounds' = Rounds /\ \A q \in Rounds : q # r => rounds'[q] = rounds[q]
  BY <1>1, Zenon DEF BoardInv
<1>7. rounds'[r] \in RoundOf /\ rounds'[r] # Board!NoRound
  <2>1. rounds'[r] \in RoundOf
    BY <1>3, <1>5 DEF RoundOf
  <2>2. rounds'[r].user \in Users
    BY <2>1 DEF RoundOf
  <2> QED
    BY <2>1, <2>2, ScreensAssumption DEF Board!NoRound
<1>8. Board!UnderWay' = Board!UnderWay
  BY <1>2, <1>6, <1>7 DEF Board!UnderWay
<1>9. DOMAIN rows' = Board!Vaults /\ rows'[v].user \in Users
      /\ \A w \in Board!Vaults : w # v => rows'[w] = rows[w]
  BY <1>1, <1>3 DEF BoardInv, RoundOf
<1>10. ASSUME NEW w \in list'
       PROVE  rows'[w].user \in Users \/ \E q \in Board!UnderWay' : w \in rounds'[q].left
  <2>1. w \in list /\ w \in Board!Vaults
    BY <1>1 DEF BoardInv, Board!Vaults
  <2>2. CASE w = v
    BY <1>9, <2>2
  <2>3. CASE w # v
    <3>1. CASE rows[w].user \in Users
      BY <1>9, <2>1, <2>3, <3>1
    <3>2. CASE rows[w].user \notin Users
      <4>1. PICK q \in Board!UnderWay : w \in rounds[q].left
        BY <2>1, <3>2 DEF BoardInv
      <4>2. q \in Rounds
        BY DEF Board!UnderWay
      <4>3. w \in rounds'[q].left
        BY <1>5, <1>6, <2>3, <4>1, <4>2
      <4> QED
        BY <1>8, <4>3
    <3> QED
      BY <3>1, <3>2
  <2> QED
    BY <2>2, <2>3
<1>11. \A q \in Rounds : rounds'[q] = Board!NoRound \/ rounds'[q] \in RoundOf
  BY <1>6, <1>7 DEF BoardInv, RoundOf
<1> QED
  BY <1>1, <1>6, <1>8, <1>9, <1>10, <1>11 DEF BoardInv, RoundOf

(* Every step of the board keeps it: a round that ends has nothing left.    *)
LEMMA BoardNext == BoardInv /\ Board!Next => BoardInv'
<1> SUFFICES ASSUME BoardInv, Board!Next PROVE BoardInv'
  OBVIOUS
<1>1. CASE Board!Refreshes
  BY <1>1, RefreshKeeps DEF Board!Refreshes, BoardInv
<1>2. CASE Board!PageChanges
  <2>1. PICK vaults \in VaultLists, of \in Users :
          list' = vaults /\ user' = of /\ Board!refreshAll(vaults, of)
    BY <1>2 DEF Board!PageChanges
  <2>2. rows' = rows
    BY <1>2 DEF Board!PageChanges
  <2> QED
    BY <2>1, <2>2, RefreshKeeps
<1>3. ASSUME NEW r \in Rounds, Board!RefreshedAll(r) PROVE BoardInv'
  <2>1. /\ rounds[r].left = {} /\ rounds' = [rounds EXCEPT ![r] = Board!NoRound]
        /\ overallLoading' = FALSE /\ UNCHANGED <<list, user, rows>>
    BY <1>3 DEF Board!RefreshedAll, Board!AllSettled
  <2>2. /\ DOMAIN rounds' = Rounds /\ rounds'[r] = Board!NoRound
        /\ \A q \in Rounds : q # r => rounds'[q] = rounds[q]
    BY <2>1 DEF BoardInv
  <2>3. ASSUME NEW q \in Board!UnderWay, NEW v \in rounds[q].left
        PROVE  q \in Board!UnderWay' /\ v \in rounds'[q].left
    <3>1. q # r /\ q \in Rounds
      BY <2>1 DEF Board!UnderWay
    <3> QED
      BY <2>2, <3>1 DEF Board!UnderWay
  <2>4. \A v \in list : rows[v].user \in Users
                        \/ \E q \in Board!UnderWay' : v \in rounds'[q].left
    BY <2>3 DEF BoardInv
  <2> QED
    BY <2>1, <2>2, <2>4 DEF BoardInv
<1> QED
  BY <1>1, <1>2, <1>3, VaultKeeps DEF Board!Next

-----------------------------------------------------------------------------
(* The history of a vault's performance.                                    *)

(* No point is of a time that is still to come.                             *)
PointsInv ==
  /\ clock \in Nat /\ DOMAIN tracks = Tracks
  /\ history \in [apy: Seq({0, 1}), tvl: Seq({0, 1}), time: Seq(Nat)]
  /\ \A i \in 1..Len(history.time) : history.time[i] <= clock
  /\ Points!HistoryInOrder

(* The newest n elements are the last ones, in the same order.              *)
LEMMA NewestProperties ==
  ASSUME NEW S, NEW seq \in Seq(S), NEW n \in Nat
  PROVE  LET newest == Points!Newest(seq, n)
             k == Len(newest)
         IN /\ newest \in Seq(S) /\ k = IF Len(seq) > n THEN n ELSE Len(seq)
            /\ \A i \in 1..k : newest[i] = seq[Len(seq) - k + i] /\ Len(seq) - k + i \in 1..Len(seq)
<1> DEFINE m == IF Len(seq) > n THEN Len(seq) - n + 1 ELSE 1
           newest == Points!Newest(seq, n)
<1>1. newest = SubSeq(seq, m, Len(seq))
  BY DEF Points!Newest
<1>2. Len(seq) \in Nat /\ m \in Nat \ {0} /\ \A i \in m..Len(seq) : seq[i] \in S
  BY LenProperties
<1>3. m - 1 = IF Len(seq) > n THEN Len(seq) - n ELSE 0
  BY <1>2
<1> HIDE DEF m, newest
<1>4. /\ newest \in Seq(S) /\ Len(newest) = IF m <= Len(seq) THEN Len(seq) - m + 1 ELSE 0
      /\ \A i \in 1..(Len(seq) - m + 1) : newest[i] = seq[m + i - 1]
  BY <1>1, <1>2, SubSeqProperties
<1>5. Len(newest) = IF Len(seq) > n THEN n ELSE Len(seq)
  BY <1>2, <1>3, <1>4
<1>6. Len(newest) = Len(seq) - m + 1
  BY <1>2, <1>3, <1>5
<1>7. ASSUME NEW i \in 1..Len(newest)
      PROVE  /\ newest[i] = seq[Len(seq) - Len(newest) + i]
             /\ Len(seq) - Len(newest) + i \in 1..Len(seq)
  <2>1. Len(seq) - Len(newest) + i = m + i - 1
    BY <1>2, <1>6
  <2>2. i \in 1..(Len(seq) - m + 1)
    BY <1>6
  <2>3. newest[i] = seq[m + i - 1]
    BY <1>4, <2>2
  <2>4. m + i - 1 \in 1..Len(seq)
    BY <1>2, <2>2
  <2> QED
    BY <2>1, <2>3, <2>4
<1> QED
  BY <1>4, <1>5, <1>7 DEF newest

(* A point after the newest Keep - 1 of them.                               *)
Recorded(seq, e) == Append(Points!Newest(seq, Keep - 1), e)

(* The length depends on nothing but the length before, and the points that *)
(* are kept stay in their order.                                            *)
LEMMA RecordedProperties ==
  ASSUME NEW S, NEW seq \in Seq(S), NEW e \in S, NEW n, NEW k,
         n = Len(seq), k = IF n > Keep - 1 THEN Keep ELSE n + 1
  PROVE  /\ Recorded(seq, e) \in Seq(S) /\ Len(Recorded(seq, e)) = k
         /\ Recorded(seq, e)[k] = e
         /\ \A i \in 1..(k - 1) : /\ Recorded(seq, e)[i] = seq[n - (k - 1) + i]
                                  /\ n - (k - 1) + i \in 1..n
<1> DEFINE rest == Points!Newest(seq, Keep - 1)
           recorded == Append(rest, e)
<1>1. Keep - 1 \in Nat /\ Keep \in Nat /\ Len(seq) \in Nat
  BY ScreensAssumption, LenProperties
<1>2. /\ rest \in Seq(S) /\ Len(rest) = IF Len(seq) > Keep - 1 THEN Keep - 1 ELSE Len(seq)
      /\ \A i \in 1..Len(rest) : /\ rest[i] = seq[Len(seq) - Len(rest) + i]
                                 /\ Len(seq) - Len(rest) + i \in 1..Len(seq)
  BY <1>1, NewestProperties
<1> HIDE DEF rest
<1>3. Len(rest) = k - 1 /\ k \in Nat
  BY <1>1, <1>2
<1>4. /\ recorded \in Seq(S) /\ Len(recorded) = Len(rest) + 1 /\ recorded[Len(rest) + 1] = e
      /\ \A i \in 1..Len(rest) : recorded[i] = rest[i]
  BY <1>2, AppendProperties
<1>5. Len(rest) + 1 = k
  BY <1>3
<1> HIDE DEF recorded
<1>6. Len(recorded) = k /\ recorded[k] = e
  BY <1>4, <1>5
<1>7. \A i \in 1..(k - 1) : /\ recorded[i] = seq[Len(seq) - (k - 1) + i]
                            /\ Len(seq) - (k - 1) + i \in 1..Len(seq)
  BY <1>2, <1>3, <1>4
<1> QED
  BY <1>4, <1>6, <1>7 DEF recorded, rest, Recorded

(* The hook is mounted without a point.                                     *)
LEMMA PointsStart == Points!Init => PointsInv
<1> SUFFICES ASSUME Points!Init PROVE PointsInv
  OBVIOUS
<1>1. /\ clock = 0 /\ DOMAIN tracks = Tracks
      /\ history = [apy |-> <<>>, tvl |-> <<>>, time |-> <<>>]
  BY DEF Points!Init
<1>2. /\ history \in [apy: Seq({0, 1}), tvl: Seq({0, 1}), time: Seq(Nat)]
      /\ Len(history.apy) = 0 /\ Len(history.tvl) = 0 /\ Len(history.time) = 0
  BY <1>1
<1>3. 0 <= Keep
  BY ScreensAssumption
<1> QED
  BY <1>1, <1>2, <1>3 DEF PointsInv, Points!HistoryInOrder

(* What was recorded before the newest point is the end of the history.      *)
Follows(recorded, seq, n, k) ==
  \A i \in 1..(k - 1) : /\ recorded[i] = seq[n - (k - 1) + i]
                        /\ n - (k - 1) + i \in 1..n

(* A call that ends adds a point of now: no earlier one is later.           *)
LEMMA TrackKeeps ==
  ASSUME PointsInv, NEW t \in Tracks, Points!trackPerformance(t)
  PROVE  PointsInv'
<1> DEFINE n == Len(history.time)
           k == IF n > Keep - 1 THEN Keep ELSE n + 1
<1>1. PICK apy \in {0, 1}, tvl \in {0, 1} :
        /\ history' = [apy  |-> Recorded(history.apy, apy),
                       tvl  |-> Recorded(history.tvl, tvl),
                       time |-> Recorded(history.time, clock)]
        /\ trackError' = (trackError \/ apy = 0 \/ tvl = 0)
  BY DEF Points!trackPerformance, Points!timestamp, Recorded
<1>2. /\ tracks' = [tracks EXCEPT ![t] = Points!NoTrack] /\ UNCHANGED clock
  BY DEF Points!trackPerformance
<1>3. /\ clock \in Nat /\ DOMAIN tracks' = Tracks
      /\ history.apy \in Seq({0, 1}) /\ history.tvl \in Seq({0, 1}) /\ history.time \in Seq(Nat)
      /\ Len(history.apy) = n /\ Len(history.tvl) = n /\ n <= Keep /\ n \in Nat
  BY <1>2, LenProperties DEF PointsInv, Points!HistoryInOrder
<1>0. k = IF n > Keep - 1 THEN Keep ELSE n + 1
  OBVIOUS
<1>4. k \in Nat \ {0} /\ k <= Keep
  <2>1. Keep \in Nat \ {0}
    BY ScreensAssumption
  <2> QED
    BY <1>0, <1>3, <2>1
<1> HIDE DEF k, n
<1>5. ASSUME NEW S, NEW seq \in Seq(S), NEW e \in S, Len(seq) = n
      PROVE  /\ Recorded(seq, e) \in Seq(S) /\ Len(Recorded(seq, e)) = k
             /\ Recorded(seq, e)[k] = e
             /\ Follows(Recorded(seq, e), seq, n, k)
  BY <1>0, <1>5, RecordedProperties DEF Follows
<1>6. /\ history'.apy \in Seq({0, 1}) /\ Len(history'.apy) = k /\ history'.apy[k] = apy
      /\ history'.tvl \in Seq({0, 1}) /\ Len(history'.tvl) = k /\ history'.tvl[k] = tvl
  <2>1. history'.apy = Recorded(history.apy, apy) /\ history'.tvl = Recorded(history.tvl, tvl)
    BY <1>1
  <2> QED
    BY <1>3, <1>5, <2>1
<1>7. /\ history'.time \in Seq(Nat) /\ Len(history'.time) = k /\ history'.time[k] = clock
      /\ \A i \in 1..(k - 1) : /\ history'.time[i] = history.time[n - (k - 1) + i]
                               /\ n - (k - 1) + i \in 1..n
  <2>1. history'.time = Recorded(history.time, clock)
    BY <1>1
  <2>2. Len(history.time) = n
    BY DEF n
  <2>3. /\ Recorded(history.time, clock) \in Seq(Nat)
        /\ Len(Recorded(history.time, clock)) = k /\ Recorded(history.time, clock)[k] = clock
    BY <1>3, <1>5, <2>2
  <2>4. Follows(Recorded(history.time, clock), history.time, n, k)
    BY <1>3, <1>5, <2>2
  <2>5. \A i \in 1..(k - 1) : /\ Recorded(history.time, clock)[i] = history.time[n - (k - 1) + i]
                             /\ n - (k - 1) + i \in 1..n
    BY <2>4 DEF Follows
  <2> QED
    BY <2>1, <2>3, <2>5
<1>8. history' \in [apy: Seq({0, 1}), tvl: Seq({0, 1}), time: Seq(Nat)]
  BY <1>1, <1>6, <1>7
<1>9. 0 \in {apy, tvl} => trackError'
  BY <1>1
<1>10. \A i \in 1..k : history'.time[i] <= clock
  <2>1. SUFFICES ASSUME NEW i \in 1..k PROVE history'.time[i] <= clock
    OBVIOUS
  <2>2. CASE i = k
    BY <1>3, <1>7, <2>2
  <2>3. CASE i # k
    <3>1. i \in 1..(k - 1)
      BY <1>4, <2>3
    <3> QED
      BY <1>7, <3>1 DEF PointsInv, n
  <2> QED
    BY <2>2, <2>3
<1>11. ASSUME NEW i \in 1..k, NEW j \in 1..k, i < j PROVE history'.time[i] <= history'.time[j]
  <2>1. CASE j = k
    BY <1>7, <1>10, <2>1
  <2>2. CASE j # k
    <3>1. i \in 1..(k - 1) /\ j \in 1..(k - 1)
      BY <1>4, <1>11, <2>2
    <3>2. /\ history'.time[i] = history.time[n - (k - 1) + i] /\ n - (k - 1) + i \in 1..n
          /\ history'.time[j] = history.time[n - (k - 1) + j] /\ n - (k - 1) + j \in 1..n
      BY <1>7, <3>1
    <3>3. n - (k - 1) + i < n - (k - 1) + j
      BY <1>3, <1>4, <1>11, <3>1
    <3>4. \A a, b \in 1..n : a < b => history.time[a] <= history.time[b]
      BY DEF PointsInv, Points!HistoryInOrder, n
    <3> QED
      BY <3>2, <3>3, <3>4
  <2> QED
    BY <2>1, <2>2
<1>12. Points!HistoryInOrder'
  <2>1. Len(history'.time) = k /\ Len(history'.apy) = k /\ Len(history'.tvl) = k /\ k <= Keep
    BY <1>6, <1>7, <1>4
  <2>2. 0 \in {history'.apy[k], history'.tvl[k]} => trackError'
    BY <1>6, <1>9
  <2> QED
    BY <1>11, <2>1, <2>2 DEF Points!HistoryInOrder
<1> QED
  BY <1>2, <1>3, <1>7, <1>8, <1>10, <1>12 DEF PointsInv

(* Every step of the history keeps it.                                      *)
LEMMA PointsNext == PointsInv /\ Points!Next => PointsInv'
<1> SUFFICES ASSUME PointsInv, Points!Next PROVE PointsInv'
  OBVIOUS
<1>1. CASE Points!Tick
  <2>1. clock' \in Nat /\ clock <= clock' /\ UNCHANGED <<tracks, history, trackError>>
    BY <1>1 DEF Points!Tick, PointsInv
  <2>2. \A i \in 1..Len(history.time) : history.time[i] \in Nat
    BY DEF PointsInv
  <2>3. \A i \in 1..Len(history.time) : history.time[i] <= clock'
    BY <2>1, <2>2 DEF PointsInv
  <2> QED
    BY <2>1, <2>3 DEF PointsInv, Points!HistoryInOrder
<1>2. ASSUME NEW t \in Tracks, Points!BeginTrack(t) PROVE PointsInv'
  <2>1. /\ tracks' = [tracks EXCEPT ![t] = clock] /\ UNCHANGED <<clock, history>>
    BY <1>2 DEF Points!BeginTrack
  <2>2. DOMAIN tracks' = Tracks /\ tracks'[t] # Points!NoTrack
    BY <2>1 DEF PointsInv, Points!NoTrack
  <2>3. Points!HistoryInOrder'
    BY <2>1, <2>2 DEF PointsInv, Points!HistoryInOrder
  <2> QED
    BY <2>1, <2>2, <2>3 DEF PointsInv
<1> QED
  BY <1>1, <1>2, TrackKeeps DEF Points!Next

-----------------------------------------------------------------------------
(* The screens together.                                                    *)

ScreensInv ==
  /\ CardInv /\ PanelInv /\ GovernanceInv /\ RebalanceInv
  /\ Selector!ChoiceIsSound /\ BoardInv /\ PointsInv

(* Every screen is mounted in a state of its invariant.                     *)
LEMMA ScreensStart == ScreensInit => ScreensInv
  BY CardStarts, PanelStarts, GovernanceStarts, RebalanceStarts, SelectorStarts, BoardStarts,
     PointsStart DEF ScreensInit, ScreensInv

(* A step of a screen keeps its invariant, and the invariants of the others *)
(* are about what it leaves alone.                                          *)
LEMMA ScreensKeep == ScreensInv /\ [ScreensNext]_screensVars => ScreensInv'
<1> SUFFICES ASSUME ScreensInv, [ScreensNext]_screensVars PROVE ScreensInv'
  OBVIOUS
<1> USE DEF ScreensInv
<1>1. CardInv'
  <2>1. CASE UNCHANGED vars
    BY <2>1 DEF vars, CardInv, TypeOK, BannerIsOfLastWrite
  <2> QED
    BY <2>1, CardNext, ScreenSteps
<1>2. PanelInv'
  <2>1. CASE UNCHANGED panelVars
    BY <2>1 DEF panelVars, PanelInv, Panel!TypeOK, Panel!OneClaimInFlight
  <2> QED
    BY <2>1, PanelNext, ScreenSteps
<1>3. GovernanceInv'
  <2>1. CASE UNCHANGED governanceVars
    BY <2>1 DEF governanceVars, GovernanceInv, Governance!TypeOK, Governance!OneWritePerForm,
                Awaiting
  <2> QED
    BY <2>1, GovernanceNext, ScreenSteps
<1>4. RebalanceInv'
  <2>1. CASE UNCHANGED rebalanceVars
    BY <2>1 DEF rebalanceVars, RebalanceInv, Rebalance!TypeOK, Rebalance!ConfirmedWasExecuted
  <2> QED
    BY <2>1, RebalanceNext, ScreenSteps
<1>5. Selector!ChoiceIsSound'
  <2>1. CASE UNCHANGED selectorVars
    BY <2>1 DEF selectorVars, Selector!ChoiceIsSound, Selector!AlwaysAChoice, Selector!OneList
  <2> QED
    BY <2>1, SelectorNext, ScreenSteps
<1>6. BoardInv'
  <2>1. CASE UNCHANGED boardVars
    BY <2>1 DEF boardVars, BoardInv, Board!UnderWay
  <2> QED
    BY <2>1, BoardNext, ScreenSteps
<1>7. PointsInv'
  <2>1. CASE UNCHANGED pointsVars
    BY <2>1 DEF pointsVars, PointsInv, Points!HistoryInOrder
  <2> QED
    BY <2>1, PointsNext, ScreenSteps
<1> QED
  BY <1>1, <1>2, <1>3, <1>4, <1>5, <1>6, <1>7

(* For any number of refreshes, writes, claims, rounds and loads under way: *)
(* what a banner of the application tells of a transaction is true, no      *)
(* button sends a second claim or write of a form beside one under way, and *)
(* a selector, a board and a history that are not loading are complete and  *)
(* in order.                                                                *)
THEOREM ScreensAreTruthful == ScreensSpec => []ScreensTellTheTruth
<1>1. ScreensInv => ScreensTellTheTruth
  BY BoardIsRight DEF ScreensInv, ScreensTellTheTruth, CardInv, PanelInv, GovernanceInv,
     RebalanceInv, PointsInv
<1> QED
  BY <1>1, ScreensStart, ScreensKeep, PTL DEF ScreensSpec
=============================================================================
