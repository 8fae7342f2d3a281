-------------------------------- MODULE Sums --------------------------------
(***************************************************************************)
(* The total of a ledger: SumTo(f, n) adds up f[1] .. f[n].                 *)
(*                                                                          *)
(* Every contract of the system keeps some total beside the entries it is   *)
(* supposed to total (vault shares, token supply, locked tokens, reserve).  *)
(* The modules state "the stored total is the total of the entries" with    *)
(* SumTo, over accounts numbered 1 .. n. Sums_proofs proves what the        *)
(* invariance proofs need to know of it.                                    *)
(***************************************************************************)
EXTENDS Integers

(* Total of the entries f[1] .. f[n].                                      *)
SumTo(f, n) ==
  LET g[i \in 0..n] == IF i = 0 THEN 0 ELSE g[i - 1] + f[i]
  IN  g[n]
=============================================================================
