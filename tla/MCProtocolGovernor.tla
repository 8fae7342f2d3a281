-------------------------- MODULE MCProtocolGovernor --------------------------
EXTENDS ProtocolGovernor

(* Two users hold the same amount.                                          *)
EvenUsers == <<2, 2>>
=============================================================================
