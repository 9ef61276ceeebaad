---------------------------- MODULE MCTxBuilder ----------------------------
(***************************************************************************)
(* Values for model checking TxBuilder.  The protocol parameters and the   *)
(* lengths are those of the Cardano test network; a word is scaled down to *)
(* 2^30 and the last CBOR head to 2^29, which TLC's integers can hold.     *)
(* Metadata: 1 is an empty object, 2 and 3 are two contents of different   *)
(* length, 4 is a content that cannot be encoded.                          *)
(***************************************************************************)
EXTENDS TxBuilder

MCAuxSize == [m \in Metas |-> IF m = 1 THEN 4 ELSE IF m = 2 THEN 22 ELSE 90]

Word == 2 ^ 30
LastHead == 2 ^ 29
=============================================================================
