---------------------------- MODULE MCYieldVault ----------------------------
(***************************************************************************)
(* Small instances of the vault. Amounts are a few units, so that every     *)
(* division of the contract rounds; the fee rates are large enough to       *)
(* charge such amounts.                                                     *)
(***************************************************************************)
EXTENDS YieldVault, Sequences

Pair(x, y) == [a |-> x, b |-> y]
Nothing == {}

NoMinimum == {Pair(0, 0)}
Pacing(user, vault, window) ==
  [user_max_bps |-> user, vault_max_bps |-> vault, window_seconds |-> window]
Change(k, v) == [kind |-> k, value |-> v]

(* Deposits of both legs in different proportions, of one leg alone.        *)
MixedDeposits == {Pair(1, 0), Pair(2, 3)}
WholeDeposits == {Pair(2, 1)}
EvenDeposits  == {Pair(4, 0)}
SomeMinimum   == {Pair(0, 0), Pair(1, 1)}

ManyWindows   == {Pacing(5000, 6000, 2), Pacing(10000, 5000, 1)}

DelayChanges  == {Change("TimelockDelay", 0), Change("TimelockDelay", 3),
                  Change("MinWithdrawShares", 2)}
MinimumChange == {Change("MinWithdrawShares", 2)}
OtherPrices   == {Pair(2, 1)}

OneSigner     == {<<1, 2>>}
Lists         == {<<1, 2>>, <<1, 1>>, <<4, 1>>}
=============================================================================
