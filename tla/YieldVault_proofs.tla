------------------------- MODULE YieldVault_proofs -------------------------
(***************************************************************************)
(* What holds of the vault of YieldVault.tla for any number of users, any   *)
(* amounts, fees and bounds: its ledger, the value of a share, the pacing   *)
(* of withdrawals, the pause and the notice of the timelock.                *)
(*                                                                          *)
(* The inductive invariant of the ledger is Ledger: the types alone are not *)
(* inductive, because a withdrawal subtracts the burnt shares from the      *)
(* total, and only the conservation of shares says that the total covers    *)
(* them. The pacing (Paced) and the notice (Notice) have theirs below.      *)
(***************************************************************************)
EXTENDS YieldVaultHistory, Sums_proofs, TLAPS

Ledger == TypeOK /\ SharesConserved

-----------------------------------------------------------------------------
(* Arithmetic.                                                             *)

(* Rounding down: the quotient is the largest that fits.                    *)
LEMMA DivFloor ==
  ASSUME NEW x \in Nat, NEW y \in Nat \ {0}
  PROVE  /\ x \div y \in Nat
         /\ (x \div y) * y <= x
         /\ x < (x \div y) * y + y
  BY Z3

(* What the rates are to the steps below.                                   *)
LEMMA RatesAreNumbers ==
  /\ PendingRewards \in Nat
  /\ FeeRate \in Nat /\ WithdrawalFee \in Nat /\ HarvestFee \in Nat
  /\ FeeRate <= 10000 /\ WithdrawalFee <= 10000 /\ HarvestFee <= 10000
  BY FeesAssumption, Z3

(* A share of a recorded amount never exceeds the amount.                   *)
LEMMA ProportionFits ==
  ASSUME NEW n \in Nat, NEW s \in Nat \ {0}, n <= s, NEW t \in Nat
  PROVE  (n * t) \div s \in Nat /\ (n * t) \div s <= t
<1>1. n * t \in Nat /\ n * t <= s * t
  BY Z3
<1> DEFINE q == (n * t) \div s
<1>2. q \in Nat /\ q * s <= n * t
  BY <1>1, DivFloor
<1> HIDE DEF q
<1>3. q * s <= s * t
  BY <1>1, <1>2, Z3
<1>4. q <= t
  BY <1>2, <1>3, Z3
<1> QED
  BY <1>2, <1>4 DEF q

(* Truncating division and fees of integers are integers.                   *)
LEMMA QuotientInt ==
  ASSUME NEW x \in Int, NEW y \in Nat \ {0}
  PROVE  Quotient(x, y) \in Int
<1>1. CASE x >= 0
  BY <1>1, DivFloor DEF Quotient
<1>2. CASE ~(x >= 0)
  <2>1. -x \in Nat
    BY <1>2
  <2>2. (-x) \div y \in Nat
    BY <2>1, DivFloor
  <2> QED
    BY <1>2, <2>2 DEF Quotient
<1> QED
  BY <1>1, <1>2

(* A fee on a count is a count.                                             *)
LEMMA BpsNat ==
  ASSUME NEW x \in Nat, NEW rate \in Nat
  PROVE  Bps(x, rate) \in Nat
<1>1. x * rate \in Nat
  BY Z3
<1> QED
  BY <1>1, DivFloor DEF Bps

(* Sums and differences of amounts, leg by leg.                             *)
LEMMA AmountsArithmetic ==
  ASSUME NEW x \in [Legs -> Int], NEW y \in [Legs -> Int]
  PROVE  /\ Plus(x, y) \in [Legs -> Int]
         /\ Minus(x, y) \in [Legs -> Int]
         /\ \A l \in Legs : Plus(x, y)[l] = x[l] + y[l] /\ Minus(x, y)[l] = x[l] - y[l]
         /\ Value(x) = x["a"] + x["b"] /\ Value(x) \in Int
  BY DEF Plus, Minus, Value, Legs

-----------------------------------------------------------------------------
(* What a withdrawal takes.                                                *)

(* No exit redeems more than the vault has recorded.                        *)
LEMMA RedeemedFits ==
  ASSUME TypeOK, NEW u \in Users, NEW n \in Nat, n <= total_shares, total_shares > 0
  PROVE  /\ Redeemed(u, n) \in [Legs -> Nat]
         /\ \A l \in Legs : Redeemed(u, n)[l] <= total_amount[l]
<1> SUFFICES ASSUME NEW l \in Legs
             PROVE  Redeemed(u, n)[l] \in Nat /\ Redeemed(u, n)[l] <= total_amount[l]
  BY DEF Redeemed
<1>1. /\ total_shares \in Nat \ {0} /\ total_amount[l] \in Nat
  BY DEF TypeOK
<1>2. /\ (n * total_amount[l]) \div total_shares \in Nat
      /\ (n * total_amount[l]) \div total_shares <= total_amount[l]
  BY <1>1, ProportionFits
<1> DEFINE due == (n * total_amount[l]) \div total_shares
<1>3. Redeemed(u, n)[l] = IF n = shares[u] /\ total_amount[l] - due <= DUST_THRESHOLD
                          THEN due + (total_amount[l] - due) ELSE due
  BY DEF Redeemed
<1> HIDE DEF due
<1> QED
  BY <1>1, <1>2, <1>3 DEF due

(* Every amount a withdrawal pays is a whole number of tokens.              *)
LEMMA PayoutInt ==
  ASSUME TypeOK, NEW u \in Users, NEW n \in Nat, n <= total_shares, total_shares > 0,
         shares[u] > 0
  PROVE  Payout(u, n) \in [Legs -> Int]
<1> DEFINE redeemed == Redeemed(u, n)
<1>1. redeemed \in [Legs -> Nat]
  BY RedeemedFits
<1>2. WithdrawalFee \in Nat /\ FeeRate \in Nat
  BY RatesAreNumbers
<1> HIDE DEF redeemed
<1>3. \A l \in Legs : WithdrawalFees(redeemed)[l] \in Nat
  BY <1>1, <1>2, BpsNat DEF WithdrawalFees
<1>4. PerformanceFee(u, n, redeemed) \in Nat
  <2> DEFINE basis == Quotient(deposited[u].a * n, shares[u]) + Quotient(deposited[u].b * n, shares[u])
             gain  == Value(redeemed) - basis
  <2>1. /\ shares[u] \in Nat \ {0}
        /\ deposited[u].a * n \in Int /\ deposited[u].b * n \in Int
    <3>1. shares[u] \in Nat \ {0} /\ deposited[u].a \in Int /\ deposited[u].b \in Int
      BY DEF TypeOK, Amounts, Legs
    <3> QED
      BY <3>1, Z3
  <2>2. basis \in Int
    BY <2>1, QuotientInt
  <2>3. gain \in Int
    BY <1>1, <2>2 DEF Value, Legs
  <2>4. PerformanceFee(u, n, redeemed) = IF gain > 0 THEN Bps(gain, FeeRate) ELSE 0
    BY DEF PerformanceFee
  <2> HIDE DEF gain
  <2> QED
    BY <1>2, <2>3, <2>4, BpsNat
<1>5. \A l \in Legs : PerformanceFees(u, n, redeemed)[l] \in Int
  <2> DEFINE fee == PerformanceFee(u, n, redeemed)
             fee_a == IF Value(redeemed) > 0 THEN (fee * redeemed.a) \div Value(redeemed) ELSE 0
  <2>1. /\ Value(redeemed) \in Nat /\ redeemed.a \in Nat
    BY <1>1 DEF Value, Legs
  <2>2. fee \in Nat
    BY <1>4
  <2> HIDE DEF fee
  <2>3. fee * redeemed.a \in Nat
    BY <2>1, <2>2, Z3
  <2>4. fee_a \in Nat
    BY <2>1, <2>3, DivFloor
  <2>5. PerformanceFees(u, n, redeemed) = [l \in Legs |-> IF l = "a" THEN fee_a ELSE fee - fee_a]
    BY DEF PerformanceFees, fee
  <2> HIDE DEF fee_a
  <2> QED
    BY <2>2, <2>4, <2>5
<1>6. Payout(u, n) = [l \in Legs |-> redeemed[l] - WithdrawalFees(redeemed)[l]
                                      - PerformanceFees(u, n, redeemed)[l]]
  BY DEF Payout, redeemed
<1> QED
  BY <1>1, <1>3, <1>5, <1>6

(* The shares minted are a whole number.                                    *)
LEMMA MintedNat ==
  ASSUME TypeOK, NEW amounts \in [Legs -> Nat]
  PROVE  MintedShares(amounts) \in Nat
<1>1. /\ Value(amounts) \in Nat /\ Value(total_amount) \in Nat /\ total_shares \in Nat
  BY DEF TypeOK, Value, Legs
<1>2. Value(amounts) * total_shares \in Nat
  BY <1>1, Z3
<1>3. ASSUME Value(total_amount) > 0
      PROVE  (Value(amounts) * total_shares) \div Value(total_amount) \in Nat
  BY <1>1, <1>2, <1>3, DivFloor
<1> QED
  BY <1>1, <1>3 DEF MintedShares

(* Every position is part of the shares outstanding.                        *)
LEMMA HoldingFits ==
  ASSUME Ledger, NEW u \in Users
  PROVE  shares[u] <= total_shares
<1>1. NumUsers \in Nat /\ shares \in [1..NumUsers -> Nat] /\ u \in 1..NumUsers
  BY NumUsersAssumption DEF Ledger, TypeOK, Users
<1>2. shares[u] <= SumTo(shares, NumUsers)
  BY <1>1, SumToMember
<1> QED
  BY <1>2 DEF Ledger, SharesConserved

(* Changing one position by d changes the total of the positions by d.      *)
LEMMA PositionUpdate ==
  ASSUME Ledger, NEW u \in Users, NEW d \in Int,
         shares' = [shares EXCEPT ![u] = shares[u] + d],
         total_shares' = total_shares + d
  PROVE  SharesConserved'
<1>1. NumUsers \in Nat /\ shares \in [1..NumUsers -> Int] /\ u \in 1..NumUsers
  BY NumUsersAssumption DEF Ledger, TypeOK, Users
<1>2. SumTo([shares EXCEPT ![u] = shares[u] + d], NumUsers) = SumTo(shares, NumUsers) + d
  BY <1>1, SumToUpdate
<1>3. SumTo(shares', NumUsers) = SumTo(shares, NumUsers) + d
  BY <1>2
<1> QED
  BY <1>3 DEF Ledger, SharesConserved

-----------------------------------------------------------------------------
(* The steps that move shares or tokens.                                   *)

(* A deposit adds the shares it mints to the position and to the total.     *)
LEMMA DepositLedger ==
  ASSUME Ledger, NEW u \in Users, NEW amounts \in [Legs -> Nat], NEW m \in Nat,
         Deposit(u, amounts, m)
  PROVE  Ledger'
<1> DEFINE minted == MintedShares(amounts)
<1>1. TypeOK /\ minted \in Nat
  BY MintedNat DEF Ledger
<1>2. /\ \A l \in Legs : wallet[u][l] >= amounts[l]
      /\ wallet' = [wallet EXCEPT ![u] = Minus(@, amounts)]
      /\ balance' = Plus(balance, amounts)
      /\ shares' = [shares EXCEPT ![u] = shares[u] + minted]
      /\ deposited' = [deposited EXCEPT ![u] = Plus(@, amounts)]
      /\ total_shares' = total_shares + minted
      /\ total_amount' = Plus(total_amount, amounts)
      /\ UNCHANGED <<treasury_balance, harvests, windowVars, paused, now>>
  BY DEF Deposit, Book, pauseVars
<1> HIDE DEF minted
<1>3. SharesConserved'
  <2>1. /\ minted \in Int
        /\ shares' = [shares EXCEPT ![u] = shares[u] + minted]
        /\ total_shares' = total_shares + minted
    BY <1>1, <1>2
  <2> QED
    BY <2>1, PositionUpdate
<1>4. TypeOK'
  <2>1. wallet' \in [Users -> [Legs -> Nat]]
    BY <1>1, <1>2 DEF TypeOK, Minus
  <2>2. balance' \in [Legs -> Nat] /\ total_amount' \in [Legs -> Nat]
    BY <1>1, <1>2 DEF TypeOK, Plus
  <2>3. deposited' \in [Users -> Amounts]
    BY <1>1, <1>2 DEF TypeOK, Plus, Amounts
  <2>4. shares' \in [Users -> Nat] /\ total_shares' \in Nat
    BY <1>1, <1>2 DEF TypeOK
  <2> QED
    BY <1>1, <1>2, <2>1, <2>2, <2>3, <2>4 DEF TypeOK, windowVars
<1> QED
  BY <1>3, <1>4 DEF Ledger

(* The windows stay well formed whatever is charged to them.                *)
LEMMA WindowsTyped ==
  ASSUME TypeOK, NEW u \in Users, NEW n \in Nat, ConsumeWithdrawPacing(u, n)
  PROVE  user_window' \in [Users -> Windows] /\ vault_window' \in Windows
<1>1. ASSUME NEW w \in Windows, NEW holding \in Nat
      PROVE  Charge(CurrentWindow(w, holding), n) \in Windows
  <2>1. CurrentWindow(w, holding) \in Windows
    BY DEF CurrentWindow, Windows, TypeOK
  <2> QED
    BY <2>1 DEF Charge, Windows
<1>2. CASE UNCHANGED windowVars
  BY <1>2 DEF windowVars, TypeOK
<1>3. CASE /\ user_window' = [user_window EXCEPT ![u] =
                                 Charge(CurrentWindow(user_window[u], shares[u]), n)]
           /\ vault_window' = Charge(CurrentWindow(vault_window, total_shares), n)
  <2>1. /\ user_window[u] \in Windows /\ shares[u] \in Nat
        /\ vault_window \in Windows /\ total_shares \in Nat
    BY DEF TypeOK
  <2>2. /\ Charge(CurrentWindow(user_window[u], shares[u]), n) \in Windows
        /\ Charge(CurrentWindow(vault_window, total_shares), n) \in Windows
    BY <1>1, <2>1
  <2> QED
    BY <1>3, <2>2 DEF TypeOK
<1> QED
  BY <1>2, <1>3 DEF ConsumeWithdrawPacing

(* A withdrawal takes the shares it burns off both and overdraws nothing.   *)
LEMMA WithdrawLedger ==
  ASSUME Ledger, NEW u \in Users, NEW n \in 1..shares[u], NEW minimum \in [Legs -> Nat],
         Withdraw(u, n, minimum)
  PROVE  Ledger'
<1> DEFINE redeemed == Redeemed(u, n)
           payout   == Payout(u, n)
<1>1. /\ TypeOK /\ shares[u] \in Nat /\ total_shares \in Nat
      /\ n \in Nat /\ 0 < n /\ n <= shares[u] /\ n <= total_shares /\ 0 < total_shares
  BY HoldingFits DEF Ledger, TypeOK
<1>2. /\ redeemed \in [Legs -> Nat]
      /\ \A l \in Legs : redeemed[l] <= total_amount[l]
      /\ payout \in [Legs -> Int]
  BY <1>1, RedeemedFits, PayoutInt
<1>3. /\ \A l \in Legs : payout[l] >= 0 /\ balance[l] >= redeemed[l]
      /\ shares' = [shares EXCEPT ![u] = shares[u] - n]
      /\ deposited' = [deposited EXCEPT ![u] = Minus(@, redeemed)]
      /\ total_shares' = total_shares - n
      /\ total_amount' = Minus(total_amount, redeemed)
      /\ balance' = Minus(balance, redeemed)
      /\ wallet' = [wallet EXCEPT ![u] = Plus(@, payout)]
      /\ treasury_balance' =
           [treasury_balance EXCEPT ![params.Treasury] = Plus(@, Minus(redeemed, payout))]
      /\ UNCHANGED <<harvests, paused, now>>
      /\ ConsumeWithdrawPacing(u, n)
  BY DEF Withdraw, Retire, Pay, pauseVars
<1> HIDE DEF redeemed, payout
<1>4. SharesConserved'
  <2> DEFINE d == -n
  <2>1. d \in Int /\ shares[u] - n = shares[u] + d /\ total_shares - n = total_shares + d
    BY <1>1
  <2> HIDE DEF d
  <2>2. shares' = [shares EXCEPT ![u] = shares[u] + d] /\ total_shares' = total_shares + d
    BY <1>3, <2>1
  <2> QED
    BY <2>1, <2>2, PositionUpdate
<1>5. TypeOK'
  <2>1. wallet' \in [Users -> [Legs -> Nat]]
    BY <1>1, <1>2, <1>3 DEF TypeOK, Plus
  <2>2. balance' \in [Legs -> Nat] /\ total_amount' \in [Legs -> Nat]
    BY <1>1, <1>2, <1>3 DEF TypeOK, Minus
  <2>3. deposited' \in [Users -> Amounts]
    BY <1>1, <1>2, <1>3 DEF TypeOK, Minus, Amounts
  <2>4. treasury_balance' \in [Treasuries -> Amounts]
    <3> DEFINE paid == Minus(redeemed, payout)
    <3>1. paid \in [Legs -> Int]
      BY <1>2 DEF Minus
    <3> HIDE DEF paid
    <3>2. \A t \in Treasuries : Plus(treasury_balance[t], paid) \in [Legs -> Int]
      BY <1>1, <3>1 DEF TypeOK, Plus, Amounts
    <3>3. treasury_balance' =
            [treasury_balance EXCEPT ![params.Treasury] =
               Plus(treasury_balance[params.Treasury], paid)]
      BY <1>3 DEF paid
    <3> QED
      BY <1>1, <3>2, <3>3 DEF TypeOK, Amounts
  <2>5. shares' \in [Users -> Nat] /\ total_shares' \in Nat
    BY <1>1, <1>3 DEF TypeOK
  <2>6. user_window' \in [Users -> Windows] /\ vault_window' \in Windows
    BY <1>1, <1>3, WindowsTyped
  <2> QED
    BY <1>1, <1>3, <2>1, <2>2, <2>3, <2>4, <2>5, <2>6 DEF TypeOK
<1> QED
  BY <1>4, <1>5 DEF Ledger

(* A harvest moves no shares, and its fee is covered.                       *)
LEMMA HarvestLedger ==
  ASSUME Ledger, Harvest
  PROVE  Ledger'
<1> DEFINE fee == Bps(PendingRewards, HarvestFee)
<1>1. fee \in Nat /\ PendingRewards \in Nat /\ fee <= PendingRewards
  <2>1. PendingRewards \in Nat /\ HarvestFee \in Nat /\ HarvestFee <= 10000
    BY RatesAreNumbers
  <2>2. fee = (HarvestFee * PendingRewards) \div 10000
    BY <2>1 DEF Bps
  <2> HIDE DEF fee
  <2>3. \A t \in Nat, r \in Nat : r <= 10000 => (r * t) \div 10000 \in Nat /\ (r * t) \div 10000 <= t
    <3> DEFINE s == 10000
    <3>1. s \in Nat \ {0}
      OBVIOUS
    <3> HIDE DEF s
    <3>2. \A t \in Nat, r \in Nat : r <= s => (r * t) \div s \in Nat /\ (r * t) \div s <= t
      BY <3>1, ProportionFits
    <3> QED
      BY <3>2 DEF s
  <2> QED
    BY <2>1, <2>2, <2>3
<1>2. /\ \A l \in Legs : balance[l] >= fee
      /\ total_amount' = [l \in Legs |-> total_amount[l] + (PendingRewards - fee)]
      /\ balance' = [l \in Legs |-> balance[l] - fee]
      /\ treasury_balance' =
           [treasury_balance EXCEPT ![params.Treasury] =
              [l \in Legs |-> treasury_balance[params.Treasury][l] + fee]]
      /\ harvests' = harvests + 1
      /\ UNCHANGED <<shares, deposited, total_shares, wallet, windowVars, paused, now>>
  BY DEF Harvest, NetRewards, pauseVars
<1> HIDE DEF fee
<1>3. total_amount' \in [Legs -> Nat] /\ balance' \in [Legs -> Nat]
  BY <1>1, <1>2 DEF Ledger, TypeOK
<1>4. treasury_balance' \in [Treasuries -> Amounts]
  <2>1. \A t \in Treasuries : [l \in Legs |-> treasury_balance[t][l] + fee] \in Amounts
    BY <1>1 DEF Ledger, TypeOK, Amounts
  <2>2. treasury_balance \in [Treasuries -> Amounts]
    BY DEF Ledger, TypeOK
  <2> QED
    BY <1>2, <2>1, <2>2
<1>5. TypeOK'
  BY <1>2, <1>3, <1>4 DEF Ledger, TypeOK, windowVars
<1>6. SharesConserved'
  BY <1>2 DEF Ledger, SharesConserved
<1> QED
  BY <1>5, <1>6 DEF Ledger

-----------------------------------------------------------------------------
(* The invariant.                                                          *)

(* The empty vault has no shares and no holders.                            *)
LEMMA LedgerInit == Init => Ledger
<1> SUFFICES ASSUME Init PROVE Ledger
  OBVIOUS
<1>1. TypeOK
  <2>1. NoWindow \in Windows
    BY DEF NoWindow, Windows
  <2>2. /\ shares \in [Users -> Nat] /\ total_shares \in Nat
        /\ deposited \in [Users -> Amounts] /\ treasury_balance \in [Treasuries -> Amounts]
        /\ total_amount \in [Legs -> Nat] /\ balance \in [Legs -> Nat]
    BY DEF Init, Amounts
  <2>3. wallet \in [Users -> [Legs -> Nat]]
    BY AmountsAssumption DEF Init
  <2>4. user_window \in [Users -> Windows] /\ vault_window \in Windows
    BY <2>1 DEF Init
  <2>5. harvests \in Nat /\ paused \in BOOLEAN /\ now \in Nat
    BY DEF Init
  <2> QED
    BY <2>2, <2>3, <2>4, <2>5 DEF TypeOK
<1>2. SharesConserved
  <2>1. /\ NumUsers \in Nat /\ shares \in [1..NumUsers -> Int]
        /\ \A u \in 1..NumUsers : shares[u] = 0
    BY NumUsersAssumption DEF Init, Users
  <2>2. SumTo(shares, NumUsers) = 0
    BY <2>1, SumToZero
  <2> QED
    BY <2>2 DEF Init, SharesConserved
<1> QED
  BY <1>1, <1>2 DEF Ledger

(* A step that touches neither the ledger nor the windows.                  *)
LEMMA FrameLedger ==
  ASSUME Ledger, UNCHANGED <<ledgerVars, harvests, windowVars>>,
         paused' \in BOOLEAN, now' \in Nat
  PROVE  Ledger'
  BY DEF Ledger, TypeOK, SharesConserved, ledgerVars, windowVars

(* Every call keeps types and conservation.                                 *)
LEMMA LedgerNext == Ledger /\ [Next]_vars => Ledger'
<1> SUFFICES ASSUME Ledger, [Next]_vars PROVE Ledger'
  OBVIOUS
<1>0. paused \in BOOLEAN /\ now \in Nat
  BY DEF Ledger, TypeOK
<1>1. ASSUME NEW u \in Users, NEW amounts \in DepositAmounts, NEW m \in MinimumShares,
             Deposit(u, amounts, m)
      PROVE  Ledger'
  <2>1. amounts \in [Legs -> Nat] /\ m \in Nat
    BY AmountsAssumption
  <2> QED
    BY <1>1, <2>1, DepositLedger
<1>2. ASSUME NEW u \in Users, NEW minimum \in MinimumOuts, NEW n \in 1..shares[u],
             Withdraw(u, n, minimum)
      PROVE  Ledger'
  <2>1. minimum \in [Legs -> Nat]
    BY AmountsAssumption
  <2> QED
    BY <1>2, <2>1, WithdrawLedger
<1>3. CASE Harvest
  BY <1>3, HarvestLedger
<1>4. CASE TimelockStep
  <2>1. UNCHANGED <<ledgerVars, harvests, windowVars, pauseVars, now>>
    BY <1>4 DEF TimelockStep, Propose, ExecutePendingAction, CancelPendingAction
  <2> QED
    BY <1>0, <2>1, FrameLedger DEF pauseVars
<1>5. CASE AdminStep
  <2>1. UNCHANGED <<ledgerVars, harvests, windowVars, now>> /\ paused' \in BOOLEAN
    BY <1>0, <1>5 DEF AdminStep, SetWithdrawPacing, SetPrices, SetPaused, pauseVars
  <2> QED
    BY <1>0, <2>1, FrameLedger
<1>6. CASE EmergencyStep
  <2>1. UNCHANGED <<ledgerVars, harvests, windowVars, now>> /\ paused' \in BOOLEAN
    BY <1>0, <1>6 DEF EmergencyStep, SetEmergencySigners, SetEmergencyThreshold,
                      EmergencySetPaused
  <2> QED
    BY <1>0, <2>1, FrameLedger
<1>7. CASE Tick
  <2>1. UNCHANGED <<ledgerVars, harvests, windowVars, pauseVars>> /\ now' \in Nat
    BY <1>0, <1>7 DEF Tick
  <2> QED
    BY <1>0, <2>1, FrameLedger DEF pauseVars
<1>8. CASE UNCHANGED vars
  <2>1. UNCHANGED <<ledgerVars, harvests, windowVars, pauseVars, now>>
    BY <1>8 DEF vars
  <2> QED
    BY <1>0, <2>1, FrameLedger DEF pauseVars
<1> QED
  BY <1>1, <1>2, <1>3, <1>4, <1>5, <1>6, <1>7, <1>8 DEF Next, UserStep

(* The types hold, and positions and metrics.total_shares never drift       *)
(* apart, whatever deposits, exits, harvests and settings come in whatever  *)
(* order.                                                                   *)
THEOREM LedgerInvariant == Spec => []Ledger
<1> QED
  BY LedgerInit, LedgerNext, PTL DEF Spec

(* Positions, totals, holdings and wallets are never negative.              *)
THEOREM TypeCorrect == Spec => []TypeOK
<1>1. Ledger => TypeOK
  BY DEF Ledger
<1> QED
  BY <1>1, LedgerInvariant, PTL

(* metrics.total_shares is the total of the positions.                      *)
THEOREM SharesAreConserved == Spec => []SharesConserved
<1>1. Ledger => SharesConserved
  BY DEF Ledger
<1> QED
  BY <1>1, LedgerInvariant, PTL

-----------------------------------------------------------------------------
(* Books and tokens.                                                       *)

(* Every call books what it moves, but for the rewards of a harvest.        *)
LEMMA BooksNext == Ledger /\ BooksMatchTokens /\ [Next]_vars => BooksMatchTokens'
<1> SUFFICES ASSUME Ledger, BooksMatchTokens, [Next]_vars PROVE BooksMatchTokens'
  OBVIOUS
<1>0. /\ total_amount \in [Legs -> Nat] /\ balance \in [Legs -> Nat] /\ harvests \in Nat
      /\ PendingRewards \in Nat
      /\ \A l \in Legs : total_amount[l] = balance[l] + harvests * PendingRewards
  <2>1. total_amount \in [Legs -> Nat] /\ balance \in [Legs -> Nat] /\ harvests \in Nat
    BY DEF Ledger, TypeOK
  <2>2. PendingRewards \in Nat
    BY RatesAreNumbers
  <2>3. \A l \in Legs : total_amount[l] = balance[l] + harvests * PendingRewards
    BY DEF BooksMatchTokens
  <2> QED
    BY <2>1, <2>2, <2>3
<1>f. ASSUME UNCHANGED <<total_amount, balance, harvests>>
      PROVE  BooksMatchTokens'
  BY <1>f DEF BooksMatchTokens
<1>1. ASSUME NEW u \in Users, NEW amounts \in DepositAmounts, NEW m \in MinimumShares,
             Deposit(u, amounts, m)
      PROVE  BooksMatchTokens'
  <2>1. amounts \in [Legs -> Nat]
    BY AmountsAssumption
  <2>2. /\ total_amount' = Plus(total_amount, amounts)
        /\ balance' = Plus(balance, amounts)
        /\ harvests' = harvests
    BY <1>1 DEF Deposit, Book
  <2>3. \A l \in Legs : /\ total_amount'[l] = total_amount[l] + amounts[l]
                        /\ balance'[l] = balance[l] + amounts[l]
    BY <2>2 DEF Plus
  <2> DEFINE rewards == harvests * PendingRewards
  <2>4. rewards \in Int
    BY <1>0
  <2>5. \A l \in Legs : total_amount[l] = balance[l] + rewards
    BY <1>0
  <2> HIDE DEF rewards
  <2>6. \A l \in Legs : total_amount'[l] = balance'[l] + rewards
    BY <1>0, <2>1, <2>3, <2>4, <2>5
  <2> QED
    BY <2>2, <2>6 DEF BooksMatchTokens, rewards
<1>2. ASSUME NEW u \in Users, NEW minimum \in MinimumOuts, NEW n \in 1..shares[u],
             Withdraw(u, n, minimum)
      PROVE  BooksMatchTokens'
  <2> DEFINE redeemed == Redeemed(u, n)
             rewards == harvests * PendingRewards
  <2>1. /\ TypeOK /\ n \in Nat /\ n <= total_shares /\ total_shares > 0
    BY HoldingFits DEF Ledger, TypeOK
  <2>2. redeemed \in [Legs -> Nat]
    BY <2>1, RedeemedFits
  <2>3. /\ total_amount' = Minus(total_amount, redeemed)
        /\ balance' = Minus(balance, redeemed)
        /\ harvests' = harvests
    BY <1>2 DEF Withdraw, Retire, Pay
  <2>4. rewards \in Int
    BY <1>0
  <2>5. \A l \in Legs : total_amount[l] = balance[l] + rewards
    BY <1>0
  <2> HIDE DEF rewards, redeemed
  <2>6. \A l \in Legs : /\ total_amount'[l] = total_amount[l] - redeemed[l]
                        /\ balance'[l] = balance[l] - redeemed[l]
    BY <2>3 DEF Minus
  <2>7. \A l \in Legs : total_amount'[l] = balance'[l] + rewards
    BY <1>0, <2>2, <2>4, <2>5, <2>6
  <2> QED
    BY <2>3, <2>7 DEF BooksMatchTokens, rewards
<1>3. CASE Harvest
  <2> DEFINE fee == Bps(PendingRewards, HarvestFee)
             rewards == harvests * PendingRewards
  <2>1. fee \in Int
    <3>1. PendingRewards \in Nat /\ HarvestFee \in Nat
      BY RatesAreNumbers
    <3>2. Bps(PendingRewards, HarvestFee) \in Nat
      BY <3>1, BpsNat
    <3> QED
      BY <3>2
  <2>2. /\ total_amount' = [l \in Legs |-> total_amount[l] + (PendingRewards - fee)]
        /\ balance' = [l \in Legs |-> balance[l] - fee]
        /\ harvests' = harvests + 1
    BY <1>3 DEF Harvest, NetRewards
  <2>3. rewards \in Int /\ (harvests + 1) * PendingRewards = rewards + PendingRewards
    BY <1>0, Z3
  <2>4. \A l \in Legs : total_amount[l] = balance[l] + rewards
    BY <1>0
  <2> HIDE DEF fee, rewards
  <2>5. \A l \in Legs : total_amount'[l] = balance'[l] + (rewards + PendingRewards)
    BY <1>0, <2>1, <2>2, <2>3, <2>4
  <2> QED
    BY <2>2, <2>3, <2>5 DEF BooksMatchTokens
<1>4. CASE TimelockStep
  BY <1>f, <1>4 DEF TimelockStep, Propose, ExecutePendingAction, CancelPendingAction, ledgerVars
<1>5. CASE AdminStep
  BY <1>f, <1>5 DEF AdminStep, SetWithdrawPacing, SetPrices, SetPaused, ledgerVars
<1>6. CASE EmergencyStep
  BY <1>f, <1>6 DEF EmergencyStep, SetEmergencySigners, SetEmergencyThreshold,
                    EmergencySetPaused, ledgerVars
<1>7. CASE Tick
  BY <1>f, <1>7 DEF Tick, ledgerVars
<1>8. CASE UNCHANGED vars
  BY <1>f, <1>8 DEF vars, ledgerVars
<1> QED
  BY <1>1, <1>2, <1>3, <1>4, <1>5, <1>6, <1>7, <1>8 DEF Next, UserStep

(* The recorded amounts exceed the tokens held by exactly the rewards the   *)
(* harvests recorded; without a harvest the vault holds what it has         *)
(* recorded.                                                                *)
THEOREM BooksAlwaysMatch == Spec => []BooksMatchTokens
<1>1. Init => BooksMatchTokens
  <2>1. PendingRewards \in Nat
    BY RatesAreNumbers
  <2>2. Init => /\ harvests = 0 /\ total_amount = [l \in Legs |-> 0]
                /\ balance = [l \in Legs |-> 0]
    BY DEF Init
  <2> QED
    BY <2>1, <2>2 DEF BooksMatchTokens
<1> QED
  BY <1>1, BooksNext, LedgerInvariant, PTL DEF Spec

-----------------------------------------------------------------------------
(* The value of a share.                                                   *)

(* With v brought in for at most v * s / w shares, w + v covers s + m       *)
(* shares at least as well as w covered s.                                  *)
LEMMA MintingRoundsDown ==
  ASSUME NEW w \in Nat, NEW v \in Nat, NEW s \in Nat, NEW m \in Nat, m * w <= v * s
  PROVE  (w + v) * s >= w * (s + m)
<1>1. (w + v) * s = w * s + v * s
  BY Z3
<1>2. w * (s + m) = w * s + m * w
  BY Z3
<1> DEFINE a == w * s
           b == v * s
           c == m * w
<1>3. a \in Int /\ b \in Int /\ c \in Int /\ c <= b
  BY Z3
<1> HIDE DEF a, b, c
<1>4. a + b >= a + c
  BY <1>3
<1> QED
  BY <1>1, <1>2, <1>4 DEF a, b, c

(* What a deposit mints is worth no more than it brings.                    *)
LEMMA DepositShareValue ==
  ASSUME Ledger, NEW u \in Users, NEW amounts \in [Legs -> Nat], NEW m \in Nat,
         Deposit(u, amounts, m), total_shares > 0
  PROVE  Value(total_amount') * total_shares >= Value(total_amount) * total_shares'
<1> DEFINE minted == MintedShares(amounts)
           w == Value(total_amount)
           v == Value(amounts)
<1>1. TypeOK /\ total_shares \in Nat /\ minted \in Nat /\ minted > 0
  BY MintedNat DEF Ledger, TypeOK, Deposit
<1>2. /\ w \in Nat /\ v \in Nat /\ Value(total_amount') = w + v
  <2>1. total_amount' = Plus(total_amount, amounts)
    BY DEF Deposit, Book
  <2> QED
    BY <1>1, <2>1 DEF TypeOK, Plus, Value, Legs
<1>3. total_shares' = total_shares + minted
  BY DEF Deposit, Book
<1>4. minted * w <= v * total_shares
  <2>1. w > 0 /\ minted = (v * total_shares) \div w
    BY <1>1, <1>2 DEF MintedShares
  <2>2. v * total_shares \in Nat
    BY <1>1, <1>2, Z3
  <2> HIDE DEF w, v, minted
  <2> QED
    BY <1>2, <2>1, <2>2, DivFloor
<1> HIDE DEF w, v, minted
<1>5. (w + v) * total_shares >= w * (total_shares + minted)
  BY <1>1, <1>2, <1>4, MintingRoundsDown
<1> QED
  BY <1>2, <1>3, <1>5 DEF w

(* Burning n of s shares for q <= n * t / s of t leaves, up to the dust of  *)
(* one unit, the others' part: p is what is left.                           *)
LEMMA RedeemingRoundsDown ==
  ASSUME NEW t \in Nat, NEW s \in Nat, NEW n \in Nat, NEW q \in Nat, NEW p \in Nat,
         q * s <= n * t, p + 1 >= t - q
  PROVE  (p + 1) * s >= t * (s - n)
<1>1. t * (s - n) = t * s - n * t
  BY Z3
<1>2. (t - q) * s = t * s - q * s
  BY Z3
<1>3. (p + 1) * s >= (t - q) * s
  BY Z3
<1> DEFINE a == t * s
           b == n * t
           c == q * s
           d == (p + 1) * s
           e == (t - q) * s
<1>4. a \in Int /\ b \in Int /\ c \in Int /\ d \in Int /\ e \in Int
  BY Z3
<1>5. c <= b /\ e = a - c /\ d >= e
  BY <1>2, <1>3
<1> HIDE DEF a, b, c, d, e
<1>6. d >= a - b
  BY <1>4, <1>5
<1> QED
  BY <1>1, <1>6 DEF a, b, d

(* What a withdrawal redeems of a leg is no more than its part and the      *)
(* dust.                                                                    *)
LEMMA WithdrawShareValue ==
  ASSUME Ledger, NEW u \in Users, NEW n \in 1..shares[u], NEW minimum \in [Legs -> Nat],
         Withdraw(u, n, minimum), NEW l \in Legs
  PROVE  (total_amount'[l] + DUST_THRESHOLD) * total_shares >= total_amount[l] * total_shares'
<1> DEFINE t   == total_amount[l]
           s   == total_shares
           due == (n * t) \div s
           p   == total_amount'[l]
<1>1. t \in Nat /\ s \in Nat \ {0} /\ n \in Nat /\ n <= s
  BY HoldingFits DEF Ledger, TypeOK
<1>2. /\ total_shares' = s - n
      /\ total_amount'[l] = t - Redeemed(u, n)[l]
  BY DEF Withdraw, Retire, Minus
<1>3. Redeemed(u, n)[l] = IF n = shares[u] /\ t - due <= DUST_THRESHOLD
                          THEN due + (t - due) ELSE due
  BY DEF Redeemed
<1>4. n * t \in Nat
  BY <1>1, Z3
<1> HIDE DEF t, s, p
<1>5. due \in Nat /\ due * s <= n * t
  BY <1>1, <1>4, DivFloor
<1>6. due <= t
  BY <1>1, ProportionFits
<1> HIDE DEF due
<1>7. p \in Nat /\ p + 1 >= t - due
  BY <1>1, <1>2, <1>3, <1>5, <1>6 DEF p, DUST_THRESHOLD
<1>8. (p + 1) * s >= t * (s - n)
  BY <1>1, <1>5, <1>7, RedeemingRoundsDown
<1> QED
  BY <1>2, <1>8 DEF p, t, s, DUST_THRESHOLD

(* Only a deposit or a withdrawal changes the shares outstanding.           *)
LEMMA SharesStep ==
  ASSUME [Next]_vars, total_shares' # total_shares
  PROVE  \/ \E u \in Users, amounts \in DepositAmounts, m \in MinimumShares :
              Deposit(u, amounts, m)
         \/ \E u \in Users, minimum \in MinimumOuts : \E n \in 1..shares[u] :
              Withdraw(u, n, minimum)
<1>1. ~Harvest
  BY DEF Harvest
<1>2. ~TimelockStep
  BY DEF TimelockStep, Propose, ExecutePendingAction, CancelPendingAction, ledgerVars
<1>3. ~AdminStep
  BY DEF AdminStep, SetWithdrawPacing, SetPrices, SetPaused, ledgerVars
<1>4. ~EmergencyStep
  BY DEF EmergencyStep, SetEmergencySigners, SetEmergencyThreshold, EmergencySetPaused, ledgerVars
<1>5. ~Tick /\ ~UNCHANGED vars
  BY DEF Tick, vars, ledgerVars
<1> QED
  BY <1>1, <1>2, <1>3, <1>4, <1>5 DEF Next, UserStep

(* A deposit mints shares and a withdrawal burns them.                      *)
LEMMA DepositMints ==
  ASSUME Ledger, NEW u \in Users, NEW amounts \in [Legs -> Nat], NEW m \in Nat,
         Deposit(u, amounts, m)
  PROVE  total_shares' > total_shares
<1> DEFINE minted == MintedShares(amounts)
<1>1. minted \in Nat /\ minted > 0 /\ total_shares \in Nat /\ total_shares' = total_shares + minted
  BY MintedNat DEF Ledger, TypeOK, Deposit, Book
<1> HIDE DEF minted
<1> QED
  BY <1>1

(* A withdrawal burns shares.                                               *)
LEMMA WithdrawBurns ==
  ASSUME Ledger, NEW u \in Users, NEW n \in 1..shares[u], NEW minimum \in [Legs -> Nat],
         Withdraw(u, n, minimum)
  PROVE  total_shares' < total_shares
<1>1. total_shares \in Nat /\ n \in Nat /\ n > 0 /\ total_shares' = total_shares - n
  BY DEF Ledger, TypeOK, Withdraw, Retire
<1> QED
  BY <1>1

(* No deposit dilutes the holders, whatever was harvested, rounded or       *)
(* swept before it.                                                         *)
THEOREM DepositsNeverDilute == Spec => DepositKeepsShareValue
<1>1. Ledger /\ [Next]_vars =>
        [total_shares > 0 /\ total_shares' > total_shares
           => Value(total_amount') * total_shares >= Value(total_amount) * total_shares']_vars
  <2> SUFFICES ASSUME Ledger, [Next]_vars, total_shares > 0, total_shares' > total_shares
               PROVE  Value(total_amount') * total_shares >= Value(total_amount) * total_shares'
    OBVIOUS
  <2>1. total_shares \in Nat
    BY DEF Ledger, TypeOK
  <2>2. ASSUME NEW u \in Users, NEW amounts \in DepositAmounts, NEW m \in MinimumShares,
               Deposit(u, amounts, m)
        PROVE  Value(total_amount') * total_shares >= Value(total_amount) * total_shares'
    <3>1. amounts \in [Legs -> Nat] /\ m \in Nat
      BY AmountsAssumption
    <3> QED
      BY <2>2, <3>1, DepositShareValue
  <2>3. ASSUME NEW u \in Users, NEW minimum \in MinimumOuts, NEW n \in 1..shares[u],
               Withdraw(u, n, minimum)
        PROVE  FALSE
    <3>1. minimum \in [Legs -> Nat]
      BY AmountsAssumption
    <3>2. total_shares' < total_shares /\ total_shares' \in Int
      BY <2>1, <2>3, <3>1, WithdrawBurns DEF Withdraw, Retire
    <3> QED
      BY <2>1, <3>2
  <2>4. total_shares' # total_shares
    BY <2>1
  <2> QED
    BY <2>2, <2>3, <2>4, SharesStep
<1> QED
  BY <1>1, LedgerInvariant, PTL DEF Spec, DepositKeepsShareValue

(* No withdrawal takes more of either token than the part of the shares it  *)
(* burns and one unit of dust.                                              *)
THEOREM WithdrawalsLeaveTheRest == Spec => WithdrawLeavesOthersShare
<1>1. Ledger /\ [Next]_vars =>
        [total_shares' < total_shares
           => \A l \in Legs :
                (total_amount'[l] + DUST_THRESHOLD) * total_shares
                  >= total_amount[l] * total_shares']_vars
  <2> SUFFICES ASSUME Ledger, [Next]_vars, total_shares' < total_shares, NEW l \in Legs
               PROVE  (total_amount'[l] + DUST_THRESHOLD) * total_shares
                        >= total_amount[l] * total_shares'
    OBVIOUS
  <2>1. total_shares \in Nat
    BY DEF Ledger, TypeOK
  <2>2. ASSUME NEW u \in Users, NEW amounts \in DepositAmounts, NEW m \in MinimumShares,
               Deposit(u, amounts, m)
        PROVE  FALSE
    <3>1. amounts \in [Legs -> Nat] /\ m \in Nat
      BY AmountsAssumption
    <3>2. total_shares' > total_shares
      BY <2>2, <3>1, DepositMints
    <3>3. total_shares' \in Int
      BY <2>1, <2>2, <3>1, MintedNat DEF Ledger, Deposit, Book
    <3> QED
      BY <2>1, <3>2, <3>3
  <2>3. ASSUME NEW u \in Users, NEW minimum \in MinimumOuts, NEW n \in 1..shares[u],
               Withdraw(u, n, minimum)
        PROVE  (total_amount'[l] + DUST_THRESHOLD) * total_shares
                 >= total_amount[l] * total_shares'
    <3>1. minimum \in [Legs -> Nat]
      BY AmountsAssumption
    <3> QED
      BY <2>3, <3>1, WithdrawShareValue
  <2>4. total_shares' # total_shares
    BY <2>1
  <2> QED
    BY <2>2, <2>3, <2>4, SharesStep
<1> QED
  BY <1>1, LedgerInvariant, PTL DEF Spec, WithdrawLeavesOthersShare

-----------------------------------------------------------------------------
(* The pacing of withdrawals.                                              *)

(* What a user took in a window opened after the moment s.                  *)
TakenAfter(s) == [u \in Users |-> IF user_window[u].window_started_at > s
                                  THEN user_window[u].shares_withdrawn ELSE 0]

(* The inductive invariant of the pacing: no window was opened in the       *)
(* future. Without it a renewed vault window, charged with one withdrawal   *)
(* only, could lie before windows of users who took more.                   *)
WindowsOpened ==
  /\ vault_window.window_started_at <= now
  /\ \A u \in Users : user_window[u].window_started_at <= now

Paced == Ledger /\ WindowsOpened /\ VaultWindowCoversUsers

(* What users took is counted.                                              *)
LEMMA TakenTyped ==
  ASSUME TypeOK, NEW s \in Nat
  PROVE  /\ NumUsers \in Nat
         /\ TakenAfter(s) \in [1..NumUsers -> Nat] /\ TakenAfter(s) \in [1..NumUsers -> Int]
<1>1. \A u \in Users : /\ user_window[u].window_started_at \in Nat
                       /\ user_window[u].shares_withdrawn \in Nat
  BY DEF TypeOK, Windows
<1> QED
  BY <1>1, NumUsersAssumption DEF TakenAfter, Users

(* A window that was just opened covers what users took after it: nothing.  *)
LEMMA NothingTakenAfterNow ==
  ASSUME TypeOK, NEW s \in Nat, \A u \in Users : user_window[u].window_started_at <= s
  PROVE  SumTo(TakenAfter(s), NumUsers) = 0
<1>1. \A u \in 1..NumUsers : TakenAfter(s)[u] = 0
  <2>1. \A u \in Users : user_window[u].window_started_at \in Nat
    BY DEF TypeOK, Windows
  <2> QED
    BY <2>1 DEF TakenAfter, Users
<1> QED
  BY <1>1, TakenTyped, SumToZero

(* SumToUpdate for the ledgers kept per user.                               *)
LEMMA UserSumUpdate ==
  ASSUME NEW f \in [1..NumUsers -> Int], NEW u \in 1..NumUsers, NEW d \in Int
  PROVE  SumTo([f EXCEPT ![u] = f[u] + d], NumUsers) = SumTo(f, NumUsers) + d
<1>1. NumUsers \in Nat
  BY NumUsersAssumption
<1> QED
  BY <1>1, SumToUpdate

(* Charging n to one user's window, renewed or not, adds at most n to what  *)
(* the users took after s.                                                  *)
LEMMA ChargeAddsAtMost ==
  ASSUME TypeOK, NEW s \in Nat, NEW u \in Users, NEW n \in Nat,
         user_window' = [user_window EXCEPT ![u] =
                           Charge(CurrentWindow(user_window[u], shares[u]), n)],
         TypeOK'
  PROVE  SumTo(TakenAfter(s)', NumUsers) <= SumTo(TakenAfter(s), NumUsers) + n
<1> DEFINE before == TakenAfter(s)
           after  == TakenAfter(s)'
           d      == after[u] - before[u]
<1>1. before \in [1..NumUsers -> Int] /\ NumUsers \in Nat /\ u \in 1..NumUsers
  BY TakenTyped DEF Users
<1>2. after = [x \in Users |-> IF user_window'[x].window_started_at > s
                               THEN user_window'[x].shares_withdrawn ELSE 0]
  BY DEF TakenAfter
<1>3. \A x \in Users : x # u => after[x] = before[x]
  <2>1. \A x \in Users : x # u => user_window'[x] = user_window[x]
    BY DEF TypeOK
  <2> QED
    BY <1>2, <2>1 DEF TakenAfter
<1>4. after[u] \in Int /\ before[u] \in Int /\ after[u] <= before[u] + n
  <2> DEFINE w == user_window[u]
             c == CurrentWindow(w, shares[u])
  <2>1. w \in Windows /\ shares[u] \in Nat /\ now \in Nat
    BY DEF TypeOK
  <2>2. user_window'[u] = Charge(c, n)
    BY DEF TypeOK
  <2>3. \/ c = w
        \/ c = [window_started_at |-> now, shares_withdrawn |-> 0, window_start_shares |-> shares[u]]
    BY DEF CurrentWindow
  <2>4. c \in Windows
    BY <2>1, <2>3 DEF Windows
  <2>5. /\ before[u] = IF w.window_started_at > s THEN w.shares_withdrawn ELSE 0
        /\ after[u] = IF Charge(c, n).window_started_at > s
                      THEN Charge(c, n).shares_withdrawn ELSE 0
    BY <1>2, <2>2 DEF TakenAfter
  <2> HIDE DEF w, c, before, after
  <2>6. /\ Charge(c, n).window_started_at = c.window_started_at
        /\ Charge(c, n).shares_withdrawn = c.shares_withdrawn + n
    BY <2>4 DEF Charge, Windows
  <2>7. /\ c.window_started_at \in Nat /\ c.shares_withdrawn \in Nat
        /\ w.window_started_at \in Nat /\ w.shares_withdrawn \in Nat
    BY <2>1, <2>4 DEF Windows
  <2>8. c = w \/ c.shares_withdrawn = 0
    BY <2>3
  <2> QED
    BY <2>5, <2>6, <2>7, <2>8
<1>5. after = [before EXCEPT ![u] = before[u] + d]
  <2>1. after[u] = before[u] + d
    BY <1>4
  <2>2. DOMAIN before = Users
    BY DEF TakenAfter
  <2> HIDE DEF d, before
  <2> QED
    BY <1>2, <1>3, <2>1, <2>2
<1>6. d \in Int /\ d <= n
  BY <1>4
<1> HIDE DEF before, after, d
<1>7. SumTo(after, NumUsers) = SumTo(before, NumUsers) + d
  <2>1. SumTo([before EXCEPT ![u] = before[u] + d], NumUsers) = SumTo(before, NumUsers) + d
    BY <1>1, <1>6, UserSumUpdate
  <2> QED
    BY <1>5, <2>1
<1>8. SumTo(before, NumUsers) \in Nat
  BY TakenTyped, SumToMember DEF before
<1> QED
  BY <1>6, <1>7, <1>8 DEF before, after

(* The property, in terms of TakenAfter.                                    *)
LEMMA VaultCoversTaken ==
  VaultWindowCoversUsers <=>
    SumTo(TakenAfter(vault_window.window_started_at), NumUsers) <= vault_window.shares_withdrawn
  BY DEF VaultWindowCoversUsers, TakenAfter

(* A withdrawal is charged to both windows, whichever of them is renewed.   *)
LEMMA WithdrawPaced ==
  ASSUME Paced, TypeOK', NEW u \in Users, NEW n \in Nat,
         ConsumeWithdrawPacing(u, n), UNCHANGED now
  PROVE  WindowsOpened' /\ VaultWindowCoversUsers'
<1>0. /\ TypeOK /\ now \in Nat /\ vault_window \in Windows /\ user_window[u] \in Windows
      /\ shares[u] \in Nat /\ total_shares \in Nat
  BY DEF Paced, Ledger, TypeOK
<1>1. CASE UNCHANGED windowVars
  BY <1>1 DEF Paced, windowVars, WindowsOpened, VaultWindowCoversUsers
<1>2. CASE /\ user_window' = [user_window EXCEPT ![u] =
                                 Charge(CurrentWindow(user_window[u], shares[u]), n)]
           /\ vault_window' = Charge(CurrentWindow(vault_window, total_shares), n)
  <2>1. ASSUME NEW w \in Windows, NEW holding \in Nat, w.window_started_at <= now
        PROVE  Charge(CurrentWindow(w, holding), n).window_started_at <= now
    <3>1. CurrentWindow(w, holding) \in Windows
      BY <1>0 DEF CurrentWindow, Windows
    <3>2. CurrentWindow(w, holding).window_started_at <= now
      BY <1>0, <2>1 DEF CurrentWindow
    <3> QED
      BY <3>1, <3>2 DEF Charge, Windows
  <2>2. WindowsOpened'
    <3>1. vault_window'.window_started_at <= now
      BY <1>0, <1>2, <2>1 DEF Paced, WindowsOpened
    <3>2. Charge(CurrentWindow(user_window[u], shares[u]), n).window_started_at <= now
      BY <1>0, <2>1 DEF Paced, WindowsOpened
    <3>3. \A x \in Users : user_window'[x].window_started_at <= now
      BY <1>0, <1>2, <3>2 DEF Paced, WindowsOpened, TypeOK
    <3> QED
      BY <3>1, <3>3 DEF WindowsOpened
  <2> DEFINE c == CurrentWindow(vault_window, total_shares)
             s == c.window_started_at
  <2>3. \/ c = vault_window
        \/ c = [window_started_at |-> now, shares_withdrawn |-> 0,
                window_start_shares |-> total_shares]
    BY DEF CurrentWindow
  <2>4. c \in Windows
    BY <1>0, <2>3 DEF Windows
  <2>5. vault_window' = Charge(c, n)
    BY <1>2
  <2> HIDE DEF c
  <2>6. /\ s \in Nat /\ c.shares_withdrawn \in Nat
        /\ vault_window'.window_started_at = s
        /\ vault_window'.shares_withdrawn = c.shares_withdrawn + n
    BY <2>4, <2>5 DEF Charge, Windows
  <2>7. SumTo(TakenAfter(s), NumUsers) <= c.shares_withdrawn
    <3>1. CASE c = vault_window
      BY <3>1, VaultCoversTaken DEF Paced
    <3>2. CASE c = [window_started_at |-> now, shares_withdrawn |-> 0,
                    window_start_shares |-> total_shares]
      <4>1. s = now /\ c.shares_withdrawn = 0
        BY <3>2
      <4>2. SumTo(TakenAfter(now), NumUsers) = 0
        BY <1>0, NothingTakenAfterNow DEF Paced, WindowsOpened
      <4> QED
        BY <4>1, <4>2
    <3> QED
      BY <2>3, <3>1, <3>2
  <2> DEFINE t == s
  <2> HIDE DEF s
  <2>8. SumTo([x \in Users |-> IF user_window'[x].window_started_at > s
                               THEN user_window'[x].shares_withdrawn ELSE 0], NumUsers)
          <= SumTo(TakenAfter(s), NumUsers) + n
    <3>1. \A r \in Nat : SumTo([x \in Users |-> IF user_window'[x].window_started_at > r
                               THEN user_window'[x].shares_withdrawn ELSE 0], NumUsers)
                           <= SumTo(TakenAfter(r), NumUsers) + n
      <4> SUFFICES ASSUME NEW r \in Nat
                   PROVE  SumTo(TakenAfter(r)', NumUsers) <= SumTo(TakenAfter(r), NumUsers) + n
        BY DEF TakenAfter
      <4> QED
        BY <1>0, <1>2, ChargeAddsAtMost
    <3> QED
      BY <2>6, <3>1
  <2>9. VaultWindowCoversUsers'
    <3> DEFINE after == [x \in Users |-> IF user_window'[x].window_started_at > s
                                         THEN user_window'[x].shares_withdrawn ELSE 0]
    <3>1. /\ SumTo(TakenAfter(s), NumUsers) \in Int
      BY <1>0, <2>6, TakenTyped, SumToMember
    <3>2. SumTo(after, NumUsers) \in Int
      <4>1. \A x \in Users : /\ user_window'[x].window_started_at \in Nat
                             /\ user_window'[x].shares_withdrawn \in Nat
        BY DEF TypeOK, Windows
      <4>2. after \in [1..NumUsers -> Nat] /\ NumUsers \in Nat
        BY <4>1, NumUsersAssumption DEF Users
      <4> HIDE DEF after
      <4> QED
        BY <4>2, SumToMember
    <3> HIDE DEF after
    <3>3. SumTo(after, NumUsers) <= c.shares_withdrawn + n
      BY <2>6, <2>7, <2>8, <3>1, <3>2 DEF after
    <3> QED
      BY <2>6, <3>3 DEF VaultWindowCoversUsers, after
  <2> QED
    BY <2>2, <2>9
<1> QED
  BY <1>1, <1>2 DEF ConsumeWithdrawPacing

(* Nobody has taken anything at first.                                      *)
LEMMA PacedInit == Init => Paced
<1> SUFFICES ASSUME Init PROVE Paced
  OBVIOUS
<1>1. Ledger
  BY LedgerInit
<1>2. WindowsOpened
  BY DEF Init, NoWindow, WindowsOpened
<1>3. VaultWindowCoversUsers
  <2>1. /\ TypeOK /\ vault_window.window_started_at = 0 /\ vault_window.shares_withdrawn = 0
        /\ \A u \in Users : user_window[u].window_started_at <= 0
    BY <1>1 DEF Init, NoWindow, Ledger
  <2>2. SumTo(TakenAfter(0), NumUsers) = 0
    BY <2>1, NothingTakenAfterNow
  <2> QED
    BY <2>1, <2>2, VaultCoversTaken
<1> QED
  BY <1>1, <1>2, <1>3 DEF Paced

(* Only a withdrawal changes windows, and time only moves on.               *)
LEMMA PacedNext == Paced /\ [Next]_vars => Paced'
<1> SUFFICES ASSUME Paced, [Next]_vars PROVE Paced'
  OBVIOUS
<1>0. Ledger' /\ now \in Nat /\ TypeOK'
  BY LedgerNext DEF Paced, Ledger, TypeOK
<1>f. ASSUME UNCHANGED <<user_window, vault_window, now>>
      PROVE  WindowsOpened' /\ VaultWindowCoversUsers'
  BY <1>f DEF Paced, WindowsOpened, VaultWindowCoversUsers
<1>1. ASSUME NEW u \in Users, NEW n \in 1..shares[u], NEW minimum \in MinimumOuts,
             Withdraw(u, n, minimum)
      PROVE  WindowsOpened' /\ VaultWindowCoversUsers'
  <2>1. n \in Nat /\ ConsumeWithdrawPacing(u, n) /\ UNCHANGED now
    BY <1>1 DEF Withdraw, Paced, Ledger, TypeOK
  <2> QED
    BY <1>0, <2>1, WithdrawPaced
<1>2. ASSUME Tick
      PROVE  WindowsOpened' /\ VaultWindowCoversUsers'
  <2>1. UNCHANGED <<user_window, vault_window>> /\ now' = now + 1
    BY <1>2 DEF Tick, windowVars
  <2>2. \A u \in Users : user_window[u].window_started_at \in Nat
    BY DEF Paced, Ledger, TypeOK, Windows
  <2>3. vault_window.window_started_at \in Nat
    BY DEF Paced, Ledger, TypeOK, Windows
  <2>4. WindowsOpened'
    BY <1>0, <2>1, <2>2, <2>3 DEF Paced, WindowsOpened
  <2> QED
    BY <2>1, <2>4 DEF Paced, VaultWindowCoversUsers
<1>3. ASSUME ~Tick, ~\E u \in Users, minimum \in MinimumOuts :
                        \E n \in 1..shares[u] : Withdraw(u, n, minimum)
      PROVE  WindowsOpened' /\ VaultWindowCoversUsers'
  <2>1. UNCHANGED <<windowVars, now>>
    <3>1. CASE UserStep
      BY <1>3, <3>1 DEF UserStep, Deposit, Harvest
    <3>2. CASE TimelockStep
      BY <3>2 DEF TimelockStep, Propose, ExecutePendingAction, CancelPendingAction
    <3>3. CASE AdminStep
      BY <3>3 DEF AdminStep, SetWithdrawPacing, SetPrices, SetPaused
    <3>4. CASE EmergencyStep
      BY <3>4 DEF EmergencyStep, SetEmergencySigners, SetEmergencyThreshold, EmergencySetPaused
    <3>5. CASE UNCHANGED vars
      BY <3>5 DEF vars
    <3> QED
      BY <1>3, <3>1, <3>2, <3>3, <3>4, <3>5 DEF Next
  <2> QED
    BY <1>f, <2>1 DEF windowVars
<1> QED
  BY <1>0, <1>1, <1>2, <1>3 DEF Paced

(* The vault's window accounts for everything users took in windows opened  *)
(* after it, so the vault's limit bounds their sum: for any number of       *)
(* users, any pacing settings and any change of them between withdrawals.   *)
THEOREM VaultWindowIsCharged == Spec => []VaultWindowCoversUsers
<1>1. Paced => VaultWindowCoversUsers
  BY DEF Paced
<1> QED
  BY <1>1, PacedInit, PacedNext, PTL DEF Spec

-----------------------------------------------------------------------------
(* The pause.                                                              *)

(* Whoever paused the vault, and whatever else is still allowed meanwhile:  *)
(* no position, total, wallet or balance moves until it is lifted.          *)
THEOREM PauseFreezes == Spec => PausedFreezesLedger
<1>1. [Next]_vars => [paused => UNCHANGED <<ledgerVars, harvests>>]_vars
  <2> SUFFICES ASSUME [Next]_vars, paused PROVE UNCHANGED <<ledgerVars, harvests>>
    OBVIOUS
  <2>1. ~UserStep
    BY DEF UserStep, Deposit, Withdraw, Harvest, RequireNotPaused
  <2>2. CASE TimelockStep
    BY <2>2 DEF TimelockStep, Propose, ExecutePendingAction, CancelPendingAction
  <2>3. CASE AdminStep
    <3>1. CASE \E p \in PacingSettings : SetWithdrawPacing(p)
      BY <3>1 DEF SetWithdrawPacing
    <3>2. CASE \E prices \in PriceUpdates : SetPrices(prices)
      BY <3>2 DEF SetPrices
    <3>3. CASE \E flag \in BOOLEAN : SetPaused(flag)
      BY <3>3 DEF SetPaused
    <3> QED
      BY <2>3, <3>1, <3>2, <3>3 DEF AdminStep
  <2>4. CASE EmergencyStep
    BY <2>4 DEF EmergencyStep, SetEmergencySigners, SetEmergencyThreshold, EmergencySetPaused
  <2>5. CASE Tick
    BY <2>5 DEF Tick
  <2>6. CASE UNCHANGED vars
    BY <2>6 DEF vars
  <2> QED
    BY <2>1, <2>2, <2>3, <2>4, <2>5, <2>6 DEF Next
<1> QED
  BY <1>1, PTL DEF Spec, PausedFreezesLedger

-----------------------------------------------------------------------------
(* Exits.                                                                  *)

(* As long as no harvest has run, the vault holds what any exit redeems, so *)
(* that no exit fails for lack of tokens. That the fees never exceed what   *)
(* is redeemed, the other half of FullExitPossible, depends on the fee      *)
(* rates: the recorded deposits of a position may become negative.          *)
THEOREM ExitsAreFunded ==
  Spec => [](harvests = 0 => \A u \in Users : \A n \in 1..shares[u], l \in Legs :
               Redeemed(u, n)[l] <= balance[l])
<1>1. Ledger /\ BooksMatchTokens =>
        (harvests = 0 => \A u \in Users : \A n \in 1..shares[u], l \in Legs :
               Redeemed(u, n)[l] <= balance[l])
  <2> SUFFICES ASSUME Ledger, BooksMatchTokens, harvests = 0,
                      NEW u \in Users, NEW n \in 1..shares[u], NEW l \in Legs
               PROVE  Redeemed(u, n)[l] <= balance[l]
    OBVIOUS
  <2>1. /\ TypeOK /\ n \in Nat /\ n <= total_shares /\ total_shares > 0
    BY HoldingFits DEF Ledger, TypeOK
  <2>2. balance[l] \in Nat /\ PendingRewards \in Nat
    <3>1. balance \in [Legs -> Nat]
      BY <2>1 DEF TypeOK
    <3>2. PendingRewards \in Nat
      BY RatesAreNumbers
    <3> QED
      BY <3>1, <3>2
  <2>3. total_amount[l] = balance[l]
    BY <2>2 DEF BooksMatchTokens
  <2> QED
    BY <2>1, <2>3, RedeemedFits
<1> QED
  BY <1>1, LedgerInvariant, BooksAlwaysMatch, PTL

-----------------------------------------------------------------------------
(* The timelock's notice, over the history of YieldVaultHistory.tla.        *)
(*                                                                          *)
(* Notice is inductive. Its last two parts are what makes it so: nothing    *)
(* queued is due before the notice has run out, and as long as the notice   *)
(* has not run out the delay in force is still the one it started with, so  *)
(* that what is queued meanwhile is not due before either.                  *)

NoticeTypes ==
  /\ now \in Nat
  /\ DOMAIN params = Kinds /\ params.TimelockDelay \in Nat
  /\ quiet \in [at: Nat, delay: Nat] /\ quiet.at <= now
  /\ \A id \in DOMAIN pending : /\ pending[id].executable_at \in Nat
                                /\ pending[id].action \in Proposals

DueAfterNotice == \A id \in DOMAIN pending : pending[id].executable_at >= quiet.at + quiet.delay

DelayKept == now >= quiet.at + quiet.delay \/ params.TimelockDelay = quiet.delay

Notice == NoticeTypes /\ DueAfterNotice /\ DelayKept

(* With an empty queue the notice starts afresh.                            *)
LEMMA NoticeRestarts ==
  ASSUME now \in Nat, DOMAIN params = Kinds, params.TimelockDelay \in Nat,
         DOMAIN pending = {}, quiet = [at |-> now, delay |-> params.TimelockDelay]
  PROVE  Notice
  BY DEF Notice, NoticeTypes, DueAfterNotice, DelayKept

(* The notice starts with an empty queue.                                   *)
LEMMA NoticeInit == HInit => Notice
<1> SUFFICES ASSUME HInit PROVE Notice
  OBVIOUS
<1>1. now \in Nat /\ DOMAIN pending = {}
  BY DEF HInit, Init
<1>2. DOMAIN params = Kinds /\ params.TimelockDelay \in Nat
  BY TimelockAssumption DEF HInit, Init, Kinds
<1>3. quiet = [at |-> now, delay |-> params.TimelockDelay]
  BY DEF HInit
<1> QED
  BY <1>1, <1>2, <1>3, NoticeRestarts

(* What a step of the vault does to the queue, the parameters and the clock.*)
LEMMA QueueStep ==
  ASSUME Notice, [Next]_vars
  PROVE  \/ /\ now' \in Nat /\ now' >= now
            /\ UNCHANGED <<params, pending>>
         \/ /\ UNCHANGED <<now, pending>>
            /\ \E prices : params' = [params EXCEPT !.Prices = prices]
         \/ /\ UNCHANGED <<now, params>>
            /\ \E action \in Proposals : Propose(action)
         \/ /\ UNCHANGED now
            /\ \E id \in DOMAIN pending : ExecutePendingAction(id)
         \/ /\ UNCHANGED <<now, params>>
            /\ \E id \in DOMAIN pending : CancelPendingAction(id)
<1>0. now \in Nat
  BY DEF Notice, NoticeTypes
<1>1. CASE UserStep
  <2>1. UNCHANGED <<now, params, pending>>
    BY <1>1 DEF UserStep, Deposit, Withdraw, Harvest, timelockVars
  <2> QED
    BY <1>0, <2>1
<1>2. CASE TimelockStep
  BY <1>2 DEF TimelockStep, Propose, ExecutePendingAction, CancelPendingAction
<1>3. CASE AdminStep
  <2>1. CASE \E prices \in PriceUpdates : SetPrices(prices)
    BY <2>1 DEF SetPrices
  <2>2. CASE ~(\E prices \in PriceUpdates : SetPrices(prices))
    <3>1. UNCHANGED <<now, params, pending>>
      BY <1>3, <2>2 DEF AdminStep, SetWithdrawPacing, SetPaused, timelockVars
    <3> QED
      BY <1>0, <3>1
  <2> QED
    BY <2>1, <2>2
<1>4. CASE EmergencyStep
  <2>1. UNCHANGED <<now, params, pending>>
    BY <1>4 DEF EmergencyStep, SetEmergencySigners, SetEmergencyThreshold,
                EmergencySetPaused, timelockVars
  <2> QED
    BY <1>0, <2>1
<1>5. CASE Tick
  BY <1>0, <1>5 DEF Tick, timelockVars
<1>6. CASE UNCHANGED vars
  <2>1. UNCHANGED <<now, params, pending>>
    BY <1>6 DEF vars, timelockVars
  <2> QED
    BY <1>0, <2>1
<1> QED
  BY <1>1, <1>2, <1>3, <1>4, <1>5, <1>6 DEF Next

(* No proposal shortens the notice: what is queued now is due after it.     *)
LEMMA ProposalDue ==
  ASSUME Notice, NEW action \in Proposals, Propose(action)
  PROVE  \A id \in DOMAIN pending' : /\ pending'[id].executable_at \in Nat
                                     /\ pending'[id].action \in Proposals
                                     /\ pending'[id].executable_at >= quiet.at + quiet.delay
<1>1. pending' = [id \in DOMAIN pending \cup {next_action_id} |->
                    IF id = next_action_id
                    THEN [action |-> action, executable_at |-> now + params.TimelockDelay]
                    ELSE pending[id]]
  BY DEF Propose, ExecutableAt
<1>2. now + params.TimelockDelay \in Nat /\ now + params.TimelockDelay >= quiet.at + quiet.delay
  BY DEF Notice, NoticeTypes, DelayKept
<1> QED
  BY <1>1, <1>2 DEF Notice, NoticeTypes, DueAfterNotice

(* What a step leaves true whether or not the queue is empty after it.      *)
Kept ==
  /\ now' \in Nat /\ now' >= now
  /\ DOMAIN params' = Kinds /\ params'.TimelockDelay \in Nat
  /\ \A id \in DOMAIN pending' : /\ pending'[id].executable_at \in Nat
                                 /\ pending'[id].action \in Proposals
                                 /\ pending'[id].executable_at >= quiet.at + quiet.delay
  /\ now' >= quiet.at + quiet.delay \/ params'.TimelockDelay = quiet.delay

(* Whatever is queued, executed or cancelled keeps to the notice.           *)
LEMMA QueueKept ==
  ASSUME Notice, [Next]_vars
  PROVE  Kept
<1>0. /\ now \in Nat /\ DOMAIN params = Kinds /\ params.TimelockDelay \in Nat
      /\ quiet \in [at: Nat, delay: Nat]
      /\ \A id \in DOMAIN pending : /\ pending[id].executable_at \in Nat
                                    /\ pending[id].action \in Proposals
                                    /\ pending[id].executable_at >= quiet.at + quiet.delay
      /\ now >= quiet.at + quiet.delay \/ params.TimelockDelay = quiet.delay
  BY DEF Notice, NoticeTypes, DueAfterNotice, DelayKept
<1>1. CASE now' \in Nat /\ now' >= now /\ UNCHANGED <<params, pending>>
  BY <1>0, <1>1 DEF Kept
<1>2. ASSUME NEW prices, UNCHANGED <<now, pending>>,
             params' = [params EXCEPT !.Prices = prices]
      PROVE  Kept
  <2>1. DOMAIN params' = Kinds /\ params'.TimelockDelay = params.TimelockDelay
    BY <1>0, <1>2 DEF Kinds
  <2> QED
    BY <1>0, <1>2, <2>1 DEF Kept
<1>3. ASSUME NEW action \in Proposals, UNCHANGED <<now, params>>, Propose(action)
      PROVE  Kept
  BY <1>0, <1>3, ProposalDue DEF Kept
<1>4. ASSUME NEW id \in DOMAIN pending, UNCHANGED now, ExecutePendingAction(id)
      PROVE  Kept
  <2> DEFINE action == pending[id].action
  <2>1. /\ pending' = [i \in DOMAIN pending \ {id} |-> pending[i]]
        /\ params' = [params EXCEPT ![action.kind] = action.value]
        /\ now >= pending[id].executable_at
    BY <1>4 DEF ExecutePendingAction, Dequeue, ApplyAction
  <2>2. action.kind \in Kinds /\ (action.kind = "TimelockDelay" => action.value \in Nat)
    BY <1>0, TimelockAssumption
  <2>3. now >= quiet.at + quiet.delay
    BY <1>0, <2>1
  <2> HIDE DEF action
  <2>4. DOMAIN params' = Kinds /\ params'.TimelockDelay \in Nat
    <3>1. /\ DOMAIN params' = Kinds
          /\ params'["TimelockDelay"] = IF action.kind = "TimelockDelay" THEN action.value
                                        ELSE params["TimelockDelay"]
      BY <1>0, <2>1, <2>2 DEF Kinds
    <3> QED
      BY <1>0, <2>2, <3>1
  <2> QED
    BY <1>0, <1>4, <2>1, <2>3, <2>4 DEF Kept
<1>5. ASSUME NEW id \in DOMAIN pending, UNCHANGED <<now, params>>, CancelPendingAction(id)
      PROVE  Kept
  BY <1>0, <1>5 DEF CancelPendingAction, Dequeue, Kept
<1> QED
  BY <1>1, <1>2, <1>3, <1>4, <1>5, QueueStep

(* Every call keeps the notice.                                             *)
LEMMA NoticeNext == Notice /\ [HNext]_hvars => Notice'
<1> SUFFICES ASSUME Notice, [HNext]_hvars PROVE Notice'
  OBVIOUS
<1>1. CASE UNCHANGED hvars
  BY <1>1 DEF hvars, historyVars, vars, timelockVars, Notice, NoticeTypes, DueAfterNotice,
    DelayKept
<1>2. CASE HNext
  <2>1. Kept
    BY <1>2, QueueKept DEF HNext
  <2>2. CASE DOMAIN pending' = {}
    <3>1. quiet' = [at |-> now', delay |-> params'.TimelockDelay]
      BY <1>2, <2>2 DEF HNext
    <3> QED
      BY <2>1, <2>2, <3>1 DEF Kept, Notice, NoticeTypes, DueAfterNotice, DelayKept
  <2>3. CASE DOMAIN pending' # {}
    <3>1. quiet' = quiet
      BY <1>2, <2>3 DEF HNext
    <3>2. quiet.at \in Nat /\ quiet.at <= now /\ now \in Nat /\ quiet \in [at: Nat, delay: Nat]
      BY DEF Notice, NoticeTypes
    <3>3. quiet'.at <= now'
      BY <2>1, <3>1, <3>2 DEF Kept
    <3> QED
      BY <2>1, <3>1, <3>2, <3>3 DEF Kept, Notice, NoticeTypes, DueAfterNotice, DelayKept
  <2> QED
    BY <2>2, <2>3
<1> QED
  BY <1>1, <1>2

(* A change of the treasury, the minima or the delay takes effect only      *)
(* after the delay that was in force when the queue was last empty has gone *)
(* by since then, whatever was queued, executed or cancelled in between.    *)
THEOREM NoticeIsGiven == HSpec => NoticeBeforeEffect
<1>1. Notice /\ [HNext]_hvars =>
        [\A kind \in Kinds \ {"Prices"} : Changed(kind) => now >= quiet.at + quiet.delay]_hvars
  <2> SUFFICES ASSUME Notice, [HNext]_hvars,
                      NEW kind \in Kinds \ {"Prices"}, params'[kind] # params[kind]
               PROVE  now >= quiet.at + quiet.delay
    BY DEF Changed
  <2>1. [Next]_vars
    BY DEF HNext, hvars
  <2>2. DOMAIN params = Kinds /\ now \in Nat /\ quiet \in [at: Nat, delay: Nat]
    BY DEF Notice, NoticeTypes
  <2>3. ASSUME NEW prices, params' = [params EXCEPT !.Prices = prices]
        PROVE  FALSE
    BY <2>2, <2>3 DEF Kinds
  <2>4. ASSUME NEW id \in DOMAIN pending, ExecutePendingAction(id)
        PROVE  now >= quiet.at + quiet.delay
    <3>1. /\ now >= pending[id].executable_at
          /\ pending[id].executable_at \in Nat
          /\ pending[id].executable_at >= quiet.at + quiet.delay
      BY <2>4 DEF ExecutePendingAction, Notice, NoticeTypes, DueAfterNotice
    <3> QED
      BY <2>2, <3>1
  <2> QED
    BY <2>1, <2>3, <2>4, QueueStep
<1> QED
  BY <1>1, NoticeInit, NoticeNext, PTL DEF HSpec, NoticeBeforeEffect
=============================================================================
