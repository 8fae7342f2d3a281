---------------------------- MODULE ClientMethods ----------------------------
(***************************************************************************)
(* The writing methods of the contract clients of the SDK: VaultClient      *)
(* (sdk/src/vaultClient.ts), RebalancerClient (sdk/src/rebalancer.ts) and   *)
(* GovernanceSDK (sdk/src/governance.ts).                                   *)
(*                                                                          *)
(* A method is what ClientCalls runs: the steps it takes until the          *)
(* transaction is sent, how long the transaction is valid, and what the     *)
(* method makes of the node's answer. The contract method that is called    *)
(* and its arguments, fees and texts are left out.                          *)
(*                                                                          *)
(*   "keypair", "contract", "arguments", "signer"   a check that throws     *)
(*   "publicKey"   the wallet is asked for its address                      *)
(*   "power"       the voting power is read and must suffice                *)
(*   "account"     the sequence number is read and the transaction built    *)
(*   "sign"        signed by a key pair or by the wallet                    *)
(*   "submit"      handed back signed, and submitted when the caller likes  *)
(*   "send"        sent to the node                                         *)
(*                                                                          *)
(*   "confirm"     confirmTransaction, which no class defines: it throws    *)
(*   "report"      the node's first answer is the result                    *)
(*   "wait"        waitForTransaction                                       *)
(*   "poll"        the loop of submitTransaction                            *)
(***************************************************************************)
EXTENDS Integers, Sequences

CONSTANTS
  ShortLife,      \* setTimeout(options?.timeout || 30)
  LongLife        \* setTimeout(180)

Method(steps, life, ending) == [steps |-> steps, life |-> life, ending |-> ending]

SendSteps == <<"account", "sign", "send">>

-----------------------------------------------------------------------------
(* VaultClient: the address comes from a key pair or a wallet.             *)

VaultWrite == Method(<<"publicKey">> \o SendSteps, ShortLife, "confirm")

deposit  == VaultWrite
withdraw == VaultWrite
harvest  == VaultWrite
(* The events that pause and unpause emit after a success are not reached.  *)
pause    == VaultWrite
unpause  == VaultWrite

-----------------------------------------------------------------------------
(* RebalancerClient.                                                       *)

createStrategy == Method(SendSteps, ShortLife, "wait")
updateStrategy == Method(SendSteps, ShortLife, "report")
executeRebalance == Method(<<"signer", "publicKey">> \o SendSteps, ShortLife, "wait")

(* They return before the code that would emit an event.                    *)
pauseEngine   == Method(SendSteps, ShortLife, "report")
unpauseEngine == Method(SendSteps, ShortLife, "report")

SignerWrite == Method(<<"publicKey">> \o SendSteps, ShortLife, "report")

setApyKeepers == SignerWrite
updatePoolApy == SignerWrite
setMaxApyAge  == SignerWrite

-----------------------------------------------------------------------------
(* GovernanceSDK: a method returns the signed transaction, submitTransaction *)
(* sends it.                                                                *)

Prepared(checks) ==
  Method(<<"keypair">> \o checks \o <<"contract", "account", "sign", "submit", "send">>,
         LongLife, "poll")

transfer         == Prepared(<<>>)
delegate         == Prepared(<<>>)
createLock       == Prepared(<<"arguments">>)
increaseLock     == Prepared(<<>>)
extendLock       == Prepared(<<>>)
withdrawFromEscrow == Prepared(<<>>)
delegateVotes    == Prepared(<<>>)
stake            == Prepared(<<>>)
unstake          == Prepared(<<>>)
claimRewards     == Prepared(<<>>)
claimFees        == Prepared(<<>>)
createProposal   == Prepared(<<"arguments", "power">>)
castVote         == Prepared(<<"power">>)
queueProposal    == Prepared(<<>>)
executeProposal  == Prepared(<<>>)
cancelProposal   == Prepared(<<>>)

(* It names the contract before it creates the proposal.                    *)
proposeParameterChange ==
  [createProposal EXCEPT !.steps = <<"contract">> \o createProposal.steps]

-----------------------------------------------------------------------------
VaultMethods == {deposit, withdraw, harvest, pause, unpause}

RebalancerMethods ==
  {createStrategy, updateStrategy, executeRebalance, pauseEngine, unpauseEngine,
   setApyKeepers, updatePoolApy, setMaxApyAge}

GovernanceMethods ==
  {transfer, delegate, createLock, increaseLock, extendLock, withdrawFromEscrow, delegateVotes,
   stake, unstake, claimRewards, claimFees, createProposal, castVote, queueProposal,
   executeProposal, cancelProposal, proposeParameterChange}

Methods == VaultMethods \cup RebalancerMethods \cup GovernanceMethods
=============================================================================
