----------------------------- MODULE MCPayment -----------------------------
(***************************************************************************)
(* Values for model checking Payment, in units of 100000 lovelace: 50 is   *)
(* the amount the program sends, 12 what it wants beyond it, 2 a fee of at *)
(* most 200000 lovelace.  The wallet has an output that is more than what  *)
(* is sent but not enough, and one or two that are.  A slot stands for     *)
(* more than the 300 slots a transaction lives, so TtlSpan is 0.           *)
(***************************************************************************)
EXTENDS Payment

Amounts == <<55, 130>>
MoreAmounts == <<75, 55, 130>>

Word == 2 ^ 30
=============================================================================
