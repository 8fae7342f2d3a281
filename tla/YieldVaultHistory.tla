------------------------- MODULE YieldVaultHistory -------------------------
(***************************************************************************)
(* The vault of YieldVault.tla observed over time: two history variables    *)
(* that no guard reads, for the properties that relate a call to what       *)
(* happened long before it.                                                 *)
(***************************************************************************)
EXTENDS YieldVault

VARIABLES
  quiet,   \* the last moment at which nothing was queued: its time and delay
  cost     \* what every user paid in for the shares it holds now

historyVars == <<quiet, cost>>
hvars == <<vars, historyVars>>

HInit ==
  /\ Init
  /\ quiet = [at |-> now, delay |-> params.TimelockDelay]
  /\ cost = [u \in Users |-> 0]

(* A deposit adds what it puts in; a withdrawal retires the cost of the     *)
(* shares it burns, all of it when none are left.                           *)
NextCost(u) ==
  CASE shares'[u] > shares[u] -> cost[u] + Value(deposited'[u]) - Value(deposited[u])
    [] shares'[u] < shares[u] -> (cost[u] * shares'[u]) \div shares[u]
    [] OTHER -> cost[u]

HNext ==
  /\ Next
  /\ quiet' = IF DOMAIN pending' = {} THEN [at |-> now', delay |-> params'.TimelockDelay]
              ELSE quiet
  /\ cost' = [u \in Users |-> NextCost(u)]

HSpec == HInit /\ [][HNext]_hvars

-----------------------------------------------------------------------------
Changed(kind) == params'[kind] # params[kind]

(* No parameter changes with less notice than the delay in force when the   *)
(* queue was last empty: in particular a queued shorter delay cannot help   *)
(* another change through early, in whatever order changes are queued,      *)
(* executed and cancelled ("cannot shorten the notice window and then act   *)
(* on it", yield_vault.rs 896-898). Prices are left out: set_prices writes   *)
(* them at once.                                                            *)
NoticeBeforeEffect ==
  [][\A kind \in Kinds \ {"Prices"} : Changed(kind) => now >= quiet.at + quiet.delay]_hvars

(* A withdrawal that redeems no more than its shares cost pays no           *)
(* performance fee: "Only gains are charged; a withdrawal at or below cost  *)
(* pays no performance fee" (yield_vault.rs 1010-1011). What the treasury   *)
(* takes beyond the withdrawal fee is the performance fee.                  *)
NoFeeAtCost ==
  [][\A u \in Users :
       LET redeemed == Minus(total_amount, total_amount')
           received == Minus(wallet'[u], wallet[u])
           fees     == WithdrawalFees(redeemed)
       IN  /\ shares'[u] < shares[u]
           /\ Value(redeemed) * shares[u] <= cost[u] * (shares[u] - shares'[u])
           => Value(received) = Value(redeemed) - Value(fees)]_hvars
=============================================================================
