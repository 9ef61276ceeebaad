------------------------------ MODULE Payment ------------------------------
(***************************************************************************)
(* Paying from a wallet: runs of examples/transactions/txbuilder/main.go   *)
(* against a Blockfrost node (node/blockfrost.go) and the ledger behind    *)
(* it.  A run lists the unspent outputs of the wallet, picks one, asks for *)
(* the current slot, builds a transaction and submits it; any error ends   *)
(* it, and the user may start it again.  Several runs may use the same     *)
(* wallet at once, so what a run has listed may be spent when it submits.  *)
(* Requests and answers may be lost or late.                               *)
(*                                                                         *)
(* The ledger is not part of the repository: it takes a transaction whose  *)
(* input is unspent, whose time to live has not passed, which balances and *)
(* whose change is worth keeping.  Outputs of the wallet are numbered in   *)
(* the order the ledger creates them, the order in which it lists them.    *)
(***************************************************************************)
EXTENDS Integers, Sequences, FiniteSets, FiniteSetsExt

CONSTANTS
  Runs,        \* the runs of the program
  MaxReruns,   \* bound: how often the user starts a failed run again
  Genesis,     \* amounts of the wallet's outputs at first, a sequence
  NetworkId,   \* the network the client was created for: 0 or 1
  SendAmount,  \* 5000000
  Margin,      \* 1000000 + 200000: what an input holds beyond SendAmount
  Fee,         \* what AddChangeIfNeeded sets for one input, two outputs
  MinUtxo,     \* the least amount the ledger takes in an output
  PageSize,    \* outputs listed by one answer (100)
  TtlSpan,     \* 300 slots
  SlotMod,     \* 2^32: the time to live is a uint32
  UintMod,     \* 2^64: amounts are machine words
  MaxSlot      \* bound on the slots that pass

ASSUME AmountAssumption ==
  /\ {SendAmount, Margin, Fee, MinUtxo, UintMod} \subseteq Nat
  /\ MinUtxo <= SendAmount
  /\ Fee + MinUtxo <= Margin
  /\ SendAmount + Margin < UintMod

\* Amounts are words.
ASSUME GenesisAssumption == Genesis \in Seq(0 .. UintMod - 1)

ASSUME BoundAssumption ==
  /\ {MaxReruns, TtlSpan, MaxSlot, PageSize} \subseteq Nat
  /\ SlotMod \in Nat \ {0}

VARIABLES
  slot,      \* ledger: current slot
  worth,     \* ledger: amounts of all outputs the wallet ever had
  unspent,   \* ledger: the outputs not yet spent
  paid,      \* ledger: what others have received
  accepted,  \* ledger: the transactions taken
  inflight,  \* requests under way to the node
  pc,        \* where each run is
  tries,     \* how often each run was started
  to,        \* whom each run pays: "self" if no address was given, "other"
  input,     \* firstMatchInput: an output of the wallet, 0 if none matched
  txFinal,   \* the transaction each run has built
  reply      \* the answer to its submission: "none", "ok" or "error"

ledger == <<slot, worth, unspent, paid, accepted>>
vars == <<slot, worth, unspent, paid, accepted, inflight, pc, tries, to,
          input, txFinal, reply>>

NoTx == [in |-> 0, to |-> "self", send |-> 0, change |-> 0, fee |-> 0, ttl |-> 0]

Txs == [in : Nat, to : {"self", "other"}, send : Nat,
        change : 0 .. UintMod - 1, fee : Nat, ttl : 0 .. SlotMod - 1]

\* NewBlockfrostClient and getNetwork choose a server each.
QueryServer  == IF NetworkId = 0 THEN "preview" ELSE "mainnet"
SubmitServer == IF NetworkId = 0 THEN "testnet" ELSE "mainnet"

Init ==
  /\ slot = 0
  /\ worth = Genesis
  /\ unspent = DOMAIN Genesis
  /\ paid = 0
  /\ accepted = {}
  /\ inflight = {}
  /\ pc = [r \in Runs |-> "query"]
  /\ tries = [r \in Runs |-> 0]
  /\ to \in [Runs -> {"self", "other"}]
  /\ input = [r \in Runs |-> 0]
  /\ txFinal = [r \in Runs |-> NoTx]
  /\ reply = [r \in Runs |-> "none"]

(***************************************************************************)
(* The run.                                                                *)
(***************************************************************************)
\* Client.UTXOs: the first page of the unspent outputs, oldest first.
Listed == {u \in unspent : Cardinality({v \in unspent : v < u}) < PageSize}

\* Faulty: only what is sent is required of an input.
EnoughToSend(u) == worth[u] >= SendAmount
Enough(u) == worth[u] >= SendAmount + Margin

\* The loop over the listed outputs has no break: the last match stays.
LastMatch(page) ==
  LET matches == {u \in page : Enough(u)}
  IN  IF matches = {} THEN 0 ELSE Max(matches)

ListAndPick(r) ==
  /\ pc[r] = "query"
  /\ input' = [input EXCEPT ![r] = LastMatch(Listed)]
  /\ pc' = [pc EXCEPT ![r] = "tip"]
  /\ UNCHANGED <<ledger, inflight, tries, to, txFinal, reply>>

\* Faulty: the change is taken to be a number, not a word.
ChangeUnwrapped(amount) == amount - SendAmount - Fee

\* AddChangeIfNeeded: inputs - outputs - fee, as a word.
ChangeOf(amount) == (amount - SendAmount - Fee) % UintMod

\* AddInputs, AddOutputs, SetTTL, AddChangeIfNeeded and Build.  If nothing
\* matched the input is the zero TxInput, of amount 0.
Built(r) ==
  LET amount == IF input[r] = 0 THEN 0 ELSE worth[input[r]] IN
  [in |-> input[r], to |-> to[r], send |-> SendAmount,
   change |-> ChangeOf(amount), fee |-> Fee,
   ttl |-> (slot + TtlSpan) % SlotMod]

TipAndBuild(r) ==
  /\ pc[r] = "tip"
  /\ txFinal' = [txFinal EXCEPT ![r] = Built(r)]
  /\ pc' = [pc EXCEPT ![r] = "submit"]
  /\ UNCHANGED <<ledger, inflight, tries, to, input, reply>>

\* SubmitTx posts the bytes to the server for submissions.
Submit(r) ==
  /\ pc[r] = "submit"
  /\ inflight' = inflight \cup
       {[run |-> r, try |-> tries[r], tx |-> txFinal[r], server |-> SubmitServer]}
  /\ pc' = [pc EXCEPT ![r] = "wait"]
  /\ reply' = [reply EXCEPT ![r] = "none"]
  /\ UNCHANGED <<ledger, tries, to, input, txFinal>>

\* Faulty: the status of the answer is not looked at.
AnyAnswer(r) ==
  /\ pc[r] = "wait" /\ reply[r] # "none"
  /\ pc' = [pc EXCEPT ![r] = "done"]
  /\ UNCHANGED <<ledger, inflight, tries, to, input, txFinal, reply>>

\* Faulty: a rejection is waited out.
OnlyGoodAnswer(r) ==
  /\ pc[r] = "wait" /\ reply[r] = "ok"
  /\ pc' = [pc EXCEPT ![r] = "done"]
  /\ UNCHANGED <<ledger, inflight, tries, to, input, txFinal, reply>>

\* Any status but 200 is an error, and any error is fatal.
Answered(r) ==
  /\ pc[r] = "wait" /\ reply[r] # "none"
  /\ pc' = [pc EXCEPT ![r] = IF reply[r] = "ok" THEN "done" ELSE "fatal"]
  /\ UNCHANGED <<ledger, inflight, tries, to, input, txFinal, reply>>

\* A query fails, or the run is killed before it has submitted.
QueryFails(r) ==
  /\ pc[r] \in {"query", "tip", "submit"}
  /\ pc' = [pc EXCEPT ![r] = "fatal"]
  /\ UNCHANGED <<ledger, inflight, tries, to, input, txFinal, reply>>

\* The user starts a run that failed again, from the beginning.
Rerun(r) ==
  /\ pc[r] = "fatal" /\ tries[r] < MaxReruns
  /\ tries' = [tries EXCEPT ![r] = @ + 1]
  /\ pc' = [pc EXCEPT ![r] = "query"]
  /\ UNCHANGED <<ledger, inflight, to, input, txFinal, reply>>

(***************************************************************************)
(* The network and the ledger.                                             *)
(***************************************************************************)
Valid(t, server) ==
  /\ server = QueryServer  \* the ledger modelled is the one that is queried
  /\ t.in \in unspent
  /\ slot <= t.ttl
  /\ worth[t.in] = t.send + t.change + t.fee
  /\ t.send >= MinUtxo /\ t.change >= MinUtxo

\* The outputs of a transaction that are the wallet's.
Created(t) == IF t.to = "self" THEN <<t.send, t.change>> ELSE <<t.change>>

\* The ledger takes a transaction.
Take(t) ==
  /\ worth' = worth \o Created(t)
  /\ unspent' = (unspent \ {t.in}) \cup (Len(worth) + 1 .. Len(worth) + Len(Created(t)))
  /\ paid' = paid + (IF t.to = "self" THEN 0 ELSE t.send)
  /\ accepted' = accepted \cup {t}

\* The ledger takes or rejects a transaction.  Nobody hears of it if the
\* answer is lost, or the run has given up on the connection.
Decide(q, answered) ==
  /\ inflight' = inflight \ {q}
  /\ IF Valid(q.tx, q.server) THEN Take(q.tx)
     ELSE UNCHANGED <<worth, unspent, paid, accepted>>
  /\ reply' =
       IF answered /\ pc[q.run] = "wait" /\ tries[q.run] = q.try /\ reply[q.run] = "none"
       THEN [reply EXCEPT ![q.run] = IF Valid(q.tx, q.server) THEN "ok" ELSE "error"]
       ELSE reply
  /\ UNCHANGED <<slot, pc, tries, to, input, txFinal>>

\* A request is lost.
Lose(q) ==
  /\ inflight' = inflight \ {q}
  /\ UNCHANGED <<ledger, pc, tries, to, input, txFinal, reply>>

\* The connection of a waiting run breaks, wherever its request is.
Disconnect(r) ==
  /\ pc[r] = "wait" /\ reply[r] = "none"
  /\ reply' = [reply EXCEPT ![r] = "error"]
  /\ UNCHANGED <<ledger, inflight, pc, tries, to, input, txFinal>>

Tick ==
  /\ slot < MaxSlot
  /\ slot' = slot + 1
  /\ UNCHANGED <<worth, unspent, paid, accepted, inflight, pc, tries, to,
                 input, txFinal, reply>>

Step(r) == ListAndPick(r) \/ TipAndBuild(r) \/ Submit(r) \/ Answered(r)

Next ==
  \/ \E r \in Runs : Step(r) \/ QueryFails(r) \/ Rerun(r) \/ Disconnect(r)
  \/ \E q \in inflight : Lose(q) \/ \E a \in BOOLEAN : Decide(q, a)
  \/ Tick

\* A run takes the steps that wait for nobody.  Neither the queries nor the
\* submission have a timeout or a deadline, so nothing makes an answer come or
\* a connection break.
Fairness == \A r \in Runs : WF_vars(Submit(r)) /\ WF_vars(Answered(r))

Spec == Init /\ [][Next]_vars /\ Fairness

(***************************************************************************)
(* Properties.                                                             *)
(***************************************************************************)
TypeOK ==
  /\ slot \in 0 .. MaxSlot
  /\ worth \in Seq(0 .. UintMod - 1)
  /\ unspent \subseteq DOMAIN worth
  /\ paid \in Nat
  /\ accepted \subseteq Txs
  /\ inflight \subseteq [run : Runs, try : 0 .. MaxReruns, tx : Txs,
                         server : {"testnet", "mainnet"}]
  /\ pc \in [Runs -> {"query", "tip", "submit", "wait", "done", "fatal"}]
  /\ tries \in [Runs -> 0 .. MaxReruns]
  /\ to \in [Runs -> {"self", "other"}]
  /\ input \in [Runs -> 0 .. Len(worth)]
  /\ txFinal \in [Runs -> Txs]
  /\ reply \in [Runs -> {"none", "ok", "error"}]

\* A run that found an input builds a transaction the ledger could take: its
\* change did not wrap around and is worth keeping.  If it is rejected its
\* input was spent by another run or its time to live has passed.
OnlyStaleRejected ==
  \A r \in Runs : pc[r] \in {"submit", "wait"} /\ input[r] # 0 =>
    \/ Valid(txFinal[r], QueryServer)
    \/ input[r] \notin unspent
    \/ slot > txFinal[r].ttl

\* The wallet pays for what was accepted and for nothing else, and no two runs
\* report the success of one payment, although runs use the same outputs, build
\* the same transaction, are started again and hear of their submissions late,
\* wrongly or not at all.
Total(amounts, outputs) ==
  LET sum[n \in Nat] ==
        IF n = 0 THEN 0 ELSE sum[n - 1] + (IF n \in outputs THEN amounts[n] ELSE 0)
  IN  sum[Len(amounts)]

Holdings == Total(worth, unspent)

W == INSTANCE Wallet WITH
       balance <- Holdings, paid <- paid, payments <- Cardinality(accepted),
       receipts <- {r \in Runs : pc[r] = "done"},
       Funds <- Total(Genesis, DOMAIN Genesis)

RefinesWallet == W!Spec

\* A run that does not end, in success or in an error, is one that nobody has
\* answered: it neither starts over for ever nor keeps waiting once it has heard
\* of its submission, good or bad, or its connection is broken.
Unanswered(r) ==
  \/ pc[r] \in {"query", "tip"}
  \/ pc[r] = "wait" /\ reply[r] = "none"

EndsUnlessUnanswered ==
  \A r \in Runs : <>[](pc[r] \in {"done", "fatal"} \/ Unanswered(r))

\* "SubmitTx submits a signed transaction to the network": to the one whose
\* outputs UTXOs has listed, where the input of the transaction exists.
SubmittedWhereListed ==
  \A q \in inflight : q.tx.in # 0 => q.server = QueryServer
=============================================================================
