----------------------------- MODULE MCTxFlows -----------------------------
(***************************************************************************)
(* All that a client can do in one behaviour of TxBuilder is too much for  *)
(* one run.  FlowSpec takes three parts of it, each with bounds of its     *)
(* own; every behaviour of FlowSpec is one of TxBuilder.                   *)
(***************************************************************************)
EXTENDS MCTxBuilder

VARIABLE flow

Small == 400000
MCInputAmounts == {10000000, Small}

\* Filling a body in any order and settling it more than once.
FeeFlow ==
  /\ flow = "fee" /\ UNCHANGED flow
  /\ \/ AddInputs \/ AddOutputs \/ SetFee \/ NewAuxiliaryData \/ AddMetadata
     \/ MinFee \/ AddChangeIfNeeded \/ SettleByHand \/ Sign \/ Build \/ Bytes
  /\ Len(xprvs') <= 1 /\ Len(wsets') <= 2 /\ Len(aux') <= 1
  /\ \A i \in 1 .. Len(aux') : aux'[i] \notin BadMetas

\* Building again and again, with old handles in use.
SignFlow ==
  /\ flow = "sign" /\ UNCHANGED flow
  /\ SetTTL \/ NewAuxiliaryData \/ AddMetadata \/ MinFee \/ Sign \/ Build \/ Bytes

\* What the tests do with builder.Tx(), among the builder's own methods.
MultisigFlow ==
  /\ flow = "multisig" /\ UNCHANGED flow
  /\ \/ AddInputs \/ AddOutputs \/ SetTTL \/ NewAuxiliaryData \/ AddMetadata
     \/ MinFee \/ AddChangeIfNeeded \/ SettleByHand \/ Bytes
     \/ AttachPlaceholders \/ AttachScripts \/ SignInPlace
  /\ xprvs = <<>> /\ body'.nIn <= 1 /\ body'.sumIn # Small /\ body'.bad = 0 /\ Len(aux') <= 1

FlowInit == Init /\ flow \in {"fee", "sign", "multisig"}
FlowNext == FeeFlow \/ SignFlow \/ MultisigFlow

FlowSpec == FlowInit /\ [][FlowNext]_<<vars, flow>>
=============================================================================
