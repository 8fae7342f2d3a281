------------------------ MODULE MCYieldVaultHistory ------------------------
(* The vault with its history variables on the instances of MCYieldVault.   *)
EXTENDS YieldVaultHistory, MCYieldVault
=============================================================================
