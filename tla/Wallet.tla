------------------------------- MODULE Wallet -------------------------------
(***************************************************************************)
(* What paying from a wallet promises, whatever happens between the        *)
(* programs that pay and the ledger: the wallet loses what was sent and    *)
(* one fee for each payment the ledger has taken, and nothing else, and no *)
(* more programs report success than there are payments.                   *)
(***************************************************************************)
EXTENDS Naturals, FiniteSets

CONSTANTS
  Runs,        \* the programs that pay from the wallet
  SendAmount,  \* what each payment sends
  Fee,         \* what each payment costs
  Funds        \* what the wallet holds at first

VARIABLES
  balance,   \* what the wallet holds
  paid,      \* what others have received from it
  payments,  \* how many payments the ledger has taken
  receipts   \* the programs that reported success

Init ==
  /\ balance = Funds
  /\ paid = 0
  /\ payments = 0
  /\ receipts = {}

\* A payment to someone else.
Pay ==
  /\ balance >= SendAmount + Fee
  /\ balance' = balance - (SendAmount + Fee)
  /\ paid' = paid + SendAmount
  /\ payments' = payments + 1
  /\ UNCHANGED receipts

\* A payment to the wallet's own address.
PaySelf ==
  /\ balance >= Fee
  /\ balance' = balance - Fee
  /\ payments' = payments + 1
  /\ UNCHANGED <<paid, receipts>>

Report(r) ==
  /\ r \notin receipts
  /\ Cardinality(receipts) < payments
  /\ receipts' = receipts \cup {r}
  /\ UNCHANGED <<balance, paid, payments>>

Next == Pay \/ PaySelf \/ \E r \in Runs : Report(r)

Spec == Init /\ [][Next]_<<balance, paid, payments, receipts>>
=============================================================================
