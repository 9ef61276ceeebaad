----------------------------- MODULE TxBuilder -----------------------------
(***************************************************************************)
(* The transaction builder: tx/tx_builder.go together with the Tx, TxBody  *)
(* and WitnessSet objects it drives.  The builder is used by one goroutine *)
(* through its methods and, as the tests and examples do, through the      *)
(* pointer that builder.Tx() returns; calls may come in any order.         *)
(*                                                                         *)
(* What makes it delicate is sharing.  Build returns a copy of the Tx      *)
(* struct, but the copy points to the same TxBody, WitnessSet and          *)
(* AuxiliaryData as the builder, Bytes() and Hash() write into that body,  *)
(* and MinFee writes into the witness set.  Objects behind pointers are    *)
(* therefore kept in heaps (sequences) and referred to by index; 0 is nil. *)
(*                                                                         *)
(* A body is kept as counts, sums and lengths of its two lists: the lists  *)
(* only ever grow at their end, only the amount of the last output is      *)
(* written again, and the code reads nothing else of them.  A hash is      *)
(* modelled by the value hashed, a signature by key and message.           *)
(***************************************************************************)
EXTENDS Sequences, CborLen

CONSTANTS
  Keys,           \* private keys a client may sign with
  Addrs,          \* kinds of address a client may pay to
  InputAmounts,   \* lovelace amounts of the inputs a client may add
  OutputAmounts,  \* lovelace amounts of the outputs a client may add
  ClientFees,     \* fees a client may set by hand
  TTLs,           \* times to live a client may set
  Metas,          \* contents auxiliary data may have; 0 is not one
  EmptyMeta,      \* the content of NewAuxiliaryData()
  BadMetas,       \* contents that cannot be encoded
  AuxSize,        \* length of the encoding of each content
  ScriptLens,     \* lengths of the native scripts a client may attach
  Placeholders,   \* numbers of empty witnesses a client may attach
  UintMod,        \* 2^64: amounts and fees are machine words
  FeeFixed, FeePerByte,                      \* protocol.Protocol
  MaxInputs, MaxOutputs, MaxKeys, MaxBuilds, MaxAux  \* bounds

Uint == 0 .. UintMod - 1

\* 2^33 <= 2^64.
ASSUME WordAssumption == UintMod \in Nat /\ 2 * Head64 <= UintMod

ASSUME ClientAssumption ==
  /\ InputAmounts \subseteq Uint /\ OutputAmounts \subseteq Uint
  /\ ClientFees \subseteq Uint
  /\ TTLs \subseteq Nat /\ ScriptLens \subseteq Nat /\ Placeholders \subseteq Nat
  /\ Addrs \subseteq AddrKinds

ASSUME AuxAssumption ==
  /\ Metas \subseteq Nat \ {0} /\ EmptyMeta \in Metas /\ BadMetas \subseteq Metas
  /\ AuxSize \in [Metas -> Nat]

ASSUME FeeAssumption == FeeFixed \in Nat /\ FeePerByte \in Nat

VARIABLES
  body,    \* the one TxBody every Tx of this builder points to
  aux,     \* heap of AuxiliaryData objects
  wsets,   \* heap of WitnessSet objects
  tx,      \* tb.tx: the pointers of the builder's own Tx
  xprvs,   \* tb.xprvs: the keys to sign with
  built,   \* the Tx values Build has returned: their pointers
  seal,    \* history: "open", "signed" or "built", see the properties
  quote    \* history: what the last fee computation assumed

vars == <<body, aux, wsets, tx, xprvs, built, seal, quote>>

(***************************************************************************)
(* Machine arithmetic on uint.                                             *)
(***************************************************************************)
Plus(a, b)  == IF a + b < UintMod THEN a + b ELSE a + b - UintMod

\* Faulty: the difference is taken to be a number, not a word.
MinusUnwrapped(a, b) == a - b
Minus(a, b) == IF a >= b THEN a - b ELSE a - b + UintMod

(***************************************************************************)
(* The transaction body.  rest and restLen are the sum of the amounts and  *)
(* the length of all outputs but the last; bad counts the outputs that     *)
(* cannot be encoded; auxHash is 0 when the field is empty.                *)
(***************************************************************************)
Bodies ==
  [nIn : Nat, sumIn : Uint, nOut : Nat, rest : Uint, restLen : Nat,
   last : Uint, lastLen : Nat, bad : Nat, fee : Uint, ttl : Nat,
   auxHash : Nat]

NewTxBody ==
  [nIn |-> 0, sumIn |-> 0, nOut |-> 0, rest |-> 0, restLen |-> 0,
   last |-> 0, lastLen |-> 0, bad |-> 0, fee |-> 0, ttl |-> 0,
   auxHash |-> 0]

\* GetTotalInputOutputs: the inputs' sum is b.sumIn.
TotalOut(b) == Plus(b.rest, b.last)

OutputsLen(b) ==
  b.restLen + (IF b.nOut = 0 THEN 0 ELSE b.lastLen + HeadLen(b.last))

AppendInput(b, a) == [b EXCEPT !.nIn = @ + 1, !.sumIn = Plus(@, a)]

AppendOutput(b, k, a) ==
  [b EXCEPT !.nOut = @ + 1, !.rest = TotalOut(b), !.restLen = OutputsLen(b),
            !.last = a, !.lastLen = 1 + AddrLen(k),
            !.bad = IF Marshals(k) THEN @ ELSE @ + 1]

WithFee(b, f)  == [b EXCEPT !.fee = f]
WithLast(b, a) == [b EXCEPT !.last = a]

\* Every pair of the body's map has a one-byte key; a zero TTL and an empty
\* hash are omitted.
BodyLen(b) ==
  1 + (1 + HeadLen(b.nIn) + b.nIn * InputLen)
    + (1 + HeadLen(b.nOut) + OutputsLen(b))
    + (1 + HeadLen(b.fee))
    + (IF b.ttl = 0 THEN 0 ELSE 1 + HeadLen(b.ttl))
    + (IF b.auxHash = 0 THEN 0 ELSE 1 + 2 + 32)

\* Tx: an array of body, n witnesses and s bytes of scripts, validity flag
\* and m bytes of auxiliary data.
TxLen(b, n, s, m) == 1 + BodyLen(b) + WitnessSetLen(n, s) + 1 + m

\* Faulty: the change forgets the fee.
ChangeWithoutFee(b, fee) == Minus(b.sumIn, TotalOut(b))

\* What the inputs leave when outputs and fee are paid.
Change(b, fee) == Minus(Minus(b.sumIn, TotalOut(b)), fee)

(***************************************************************************)
(* Objects behind pointers.                                                *)
(*   - AuxiliaryData: the object is its content, a member of Metas;        *)
(*   - WitnessSet: empties counts all-zero witnesses, sigs are the real    *)
(*     ones, scripts is the length of the native scripts.  What Hash gives *)
(*     when it fails is ZeroHash, the hash of no body.                     *)
(***************************************************************************)
ZeroHash    == [hash |-> 0]
Sigs        == [key : Keys, msg : Bodies \cup {ZeroHash}]
WitnessSets == [empties : Nat, sigs : Seq(Sigs), scripts : Nat]

EmptyWitnessSet == [empties |-> 0, sigs |-> <<>>, scripts |-> 0]

Witnesses(w) == w.empties + Len(w.sigs)

AuxOk(p)  == p # 0 => aux[p] \notin BadMetas
AuxLen(p) == IF p = 0 THEN 1 ELSE AuxSize[aux[p]]

\* CalculateAuxiliaryDataHash on body b of a Tx that points to p: nil leaves
\* the field as it is, so does data that cannot be encoded.
WithAuxHash(b, p) ==
  IF p = 0 \/ ~AuxOk(p) THEN b ELSE [b EXCEPT !.auxHash = aux[p]]

NoQuote == [on |-> FALSE, wits |-> 0, scripts |-> 0, change |-> 0, len |-> 0]
Quotes == [on : BOOLEAN, wits : Nat, scripts : Nat, change : Uint, len : Nat]

Init ==
  /\ body = NewTxBody
  /\ aux = <<>>
  /\ wsets = <<EmptyWitnessSet>>
  /\ tx = [ws |-> 1, aux |-> 0]
  /\ xprvs \in {<<>>} \cup {<<k>> : k \in Keys}
  /\ built = {}
  /\ seal = "open"
  /\ quote = NoQuote

(***************************************************************************)
(* Filling in the body.                                                    *)
(***************************************************************************)
\* Any change to what a signature covers, or to what the fee was computed
\* for, ends both histories.
Reopen == seal' = "open" /\ quote' = NoQuote

AddInputs ==
  /\ body.nIn < MaxInputs
  /\ \E a \in InputAmounts : body' = AppendInput(body, a)
  /\ Reopen
  /\ UNCHANGED <<aux, wsets, tx, xprvs, built>>

AddOutputs ==
  /\ body.nOut < MaxOutputs
  /\ \E k \in Addrs, a \in OutputAmounts : body' = AppendOutput(body, k, a)
  /\ Reopen
  /\ UNCHANGED <<aux, wsets, tx, xprvs, built>>

SetFee ==
  /\ \E f \in ClientFees : body' = WithFee(body, f)
  /\ Reopen
  /\ UNCHANGED <<aux, wsets, tx, xprvs, built>>

SetTTL ==
  /\ \E t \in TTLs : body' = [body EXCEPT !.ttl = t]
  /\ Reopen
  /\ UNCHANGED <<aux, wsets, tx, xprvs, built>>

\* builder.Tx().AuxiliaryData = NewAuxiliaryData(): a new object.  A Tx
\* returned earlier keeps its pointer to the old one.
NewAuxiliaryData ==
  /\ Len(aux) < MaxAux
  /\ aux' = Append(aux, EmptyMeta)
  /\ tx' = [tx EXCEPT !.aux = Len(aux) + 1]
  /\ Reopen
  /\ UNCHANGED <<body, wsets, xprvs, built>>

\* AddMetadataElement and AddMetadataTransaction write one key of the map,
\* new or not, in the object itself, whoever else points to it.
AddMetadata ==
  /\ tx.aux # 0
  /\ \E m \in Metas \ {EmptyMeta} : aux' = [aux EXCEPT ![tx.aux] = m]
  /\ Reopen
  /\ UNCHANGED <<body, wsets, tx, xprvs, built>>

(***************************************************************************)
(* Fee and change.                                                         *)
(***************************************************************************)
LinearFee(len) == (FeeFixed + FeePerByte * len) % UintMod

\* Tx.Fee of a Tx with body b, n witnesses and otherwise the builder's own
\* parts.  MinFee drops the error and goes on with the zero that comes with
\* it.
FeeOf(b, n) ==
  IF b.bad = 0 /\ AuxOk(tx.aux)
  THEN LinearFee(TxLen(b, n, wsets[tx.ws].scripts, AuxLen(tx.aux)))
  ELSE 0

\* Faulty: the fee is computed without room for the hash.
UnhashedFeeBody(b) == [b EXCEPT !.auxHash = 0]

\* MinFee's own body starts without a hash and gets that of the builder's
\* auxiliary data.
FeeBody(b) == WithAuxHash([b EXCEPT !.auxHash = 0], tx.aux)

\* The witnesses MinFee counts: at least one, empty if need be.
CountedWitnesses ==
  IF Witnesses(wsets[tx.ws]) = 0 THEN 1 ELSE Witnesses(wsets[tx.ws])

\* Two passes, because the first fee may take more bytes than the old one.
FirstFee(b) == FeeOf(FeeBody(b), CountedWitnesses)

\* Faulty: one pass, on the old fee's length.
OnePassFee(b) == FirstFee(b)
MinFeeOf(b) == FeeOf(WithFee(FeeBody(b), FirstFee(b)), CountedWitnesses)

\* Faulty: the empty witness is added whatever is there.
PadAlways == wsets' = [wsets EXCEPT ![tx.ws].empties = 1]

\* The witness set MinFee counts on is the builder's own, not a copy: the
\* empty witness it adds stays there.
PadWitnesses ==
  wsets' = IF Witnesses(wsets[tx.ws]) = 0
           THEN [wsets EXCEPT ![tx.ws].empties = 1]
           ELSE wsets

\* A client that asks for the fee only.
MinFee ==
  /\ PadWitnesses
  /\ UNCHANGED <<body, aux, tx, xprvs, built, seal, quote>>

\* Append a change output of c, set the fee to the minimum, then give the
\* change output what the inputs leave.
Settle(k, c) ==
  LET b   == AppendOutput(body, k, c)
      fee == MinFeeOf(b)
  IN
  /\ body.nOut < MaxOutputs
  /\ body' = WithLast(WithFee(b, fee), Change(body, fee))
  /\ PadWitnesses
  /\ quote' = [on |-> TRUE, wits |-> CountedWitnesses,
               scripts |-> wsets[tx.ws].scripts, change |-> c,
               len |-> TxLen(WithFee(FeeBody(b), FirstFee(b)),
                             CountedWitnesses, wsets[tx.ws].scripts,
                             AuxLen(tx.aux))]
  /\ seal' = "open"
  /\ UNCHANGED <<aux, tx, xprvs, built>>

AddChangeIfNeeded ==
  \E k \in Addrs : Settle(k, Change(body, body.fee))

\* The multisig flow of the tests settles by hand, from inputs - outputs.
SettleByHand == \E k \in Addrs : Settle(k, Change(body, 0))

(***************************************************************************)
(* Witnesses.                                                              *)
(***************************************************************************)
Sign ==
  /\ Len(xprvs) < MaxKeys
  /\ \E k \in Keys : xprvs' = Append(xprvs, k)
  /\ seal' = IF seal = "built" THEN "signed" ELSE seal
  /\ UNCHANGED <<body, aux, wsets, tx, built, quote>>

\* Faulty: the hash is taken before that of the auxiliary data is stored.
UnhashedBody == body

\* Tx.Hash: what is signed is the body after the hash of the auxiliary data
\* has been stored in it.
HashedBody == WithAuxHash(body, tx.aux)

\* Whether Tx.Hash succeeds, and what it gives.
Hashes == AuxOk(tx.aux) /\ body.bad = 0
Hash == IF Hashes THEN HashedBody ELSE ZeroHash

SignAll(keys, msg) == [i \in 1 .. Len(keys) |-> [key |-> keys[i], msg |-> msg]]

\* Faulty: the test at its head is on the builder's Tx, which has a witness
\* set from the start.
BuildUnlessWitnessed ==
  /\ built' = built \cup {tx}
  /\ seal' = "built"
  /\ UNCHANGED <<body, aux, wsets, tx, xprvs, quote>>

\* Build always signs afresh: the test at its head is on the named result,
\* whose WitnessSet is nil, not on the builder's Tx.  The new witness set
\* has no scripts.
Build ==
  /\ Hashes
  /\ Len(wsets) <= MaxBuilds
  /\ body' = WithAuxHash(body, tx.aux)
  /\ wsets' = Append(wsets, [empties |-> 0, sigs |-> SignAll(xprvs, HashedBody),
                             scripts |-> 0])
  /\ tx' = [tx EXCEPT !.ws = Len(wsets) + 1]
  /\ built' = built \cup {tx'}
  /\ seal' = "built"
  /\ UNCHANGED <<aux, xprvs, quote>>

\* Encoding a Tx (Hash, Bytes, Hex and the failing Build) first stores the
\* hash of that Tx's auxiliary data in the body all of them share.  If the
\* data cannot be encoded nothing is stored.
Bytes ==
  /\ \E t \in built \cup {tx} : body' = WithAuxHash(body, t.aux)
  /\ UNCHANGED <<aux, wsets, tx, xprvs, built, seal, quote>>

\* The multisig flow works on builder.Tx().WitnessSet directly: empty
\* witnesses for the fee, the scripts, and in the end the signatures.  The
\* empty ones are appended to whatever is there; it is the client that does
\* not append them to signatures.  As a bound it appends once, to no more
\* than the one MinFee may have left.
AttachPlaceholders ==
  /\ wsets[tx.ws].sigs = <<>> /\ wsets[tx.ws].empties <= 1
  /\ \E n \in Placeholders : wsets' = [wsets EXCEPT ![tx.ws].empties = @ + n]
  /\ seal' = "open"
  /\ UNCHANGED <<body, aux, tx, xprvs, built, quote>>

AttachScripts ==
  /\ \E s \in ScriptLens : wsets' = [wsets EXCEPT ![tx.ws].scripts = s]
  /\ UNCHANGED <<body, aux, tx, xprvs, built, seal, quote>>

\* The error of Hash is not looked at: when it fails, zeros are signed.
SignInPlace ==
  /\ body' = WithAuxHash(body, tx.aux)
  /\ \E n \in Placeholders : \E keys \in [1 .. n -> Keys] :
       wsets' = [wsets EXCEPT ![tx.ws].empties = 0,
                              ![tx.ws].sigs = SignAll(keys, Hash)]
  /\ seal' = IF Hashes THEN "signed" ELSE "open"
  /\ UNCHANGED <<aux, tx, xprvs, built, quote>>

Next ==
  \/ AddInputs \/ AddOutputs \/ SetFee \/ SetTTL
  \/ NewAuxiliaryData \/ AddMetadata
  \/ MinFee \/ AddChangeIfNeeded \/ SettleByHand
  \/ Sign \/ Build \/ Bytes
  \/ AttachPlaceholders \/ AttachScripts \/ SignInPlace

Spec == Init /\ [][Next]_vars

(***************************************************************************)
(* Properties.                                                             *)
(***************************************************************************)
\* Every variable has its type and every pointer is nil or points to an
\* object of its heap.
TypeOK ==
  /\ body \in Bodies
  /\ aux \in Seq(Metas)
  /\ wsets \in Seq(WitnessSets)
  /\ tx \in [ws : 1 .. Len(wsets), aux : 0 .. Len(aux)]
  /\ xprvs \in Seq(Keys)
  /\ built \subseteq [ws : 1 .. Len(wsets), aux : 0 .. Len(aux)]
  /\ seal \in {"open", "signed", "built"}
  /\ quote \in Quotes

\* What AddChangeIfNeeded and the by-hand settlement leave balances: inputs
\* are outputs plus fee, as machine words, and stays so through fee queries,
\* encodings, signing and building, until the client edits the body.
ChangeBalances == quote.on => Plus(TotalOut(body), body.fee) = body.sumIn

\* The transaction as the builder would put it on the wire now.
OnWire == WithAuxHash(body, tx.aux)
WireLen == TxLen(OnWire, Witnesses(wsets[tx.ws]), wsets[tx.ws].scripts,
                 AuxLen(tx.aux))

\* The quote is of a fee whose own length the second pass got right: the fixed
\* part alone takes the four-byte head, and nothing wraps or takes eight.
FeeInRange ==
  /\ FeeFixed >= Head32
  /\ FeeFixed + FeePerByte * quote.len < Head64

\* A fee set by AddChangeIfNeeded pays for the transaction that is finally
\* encoded, with its hash of auxiliary data and its signatures, if there are
\* no more witnesses or scripts than were counted and the final change is no
\* more than the change assumed: MinFee worked on another body than the one
\* that is sent, and Build, Bytes and the placeholders change what is sent.
FeeCovers ==
  /\ quote.on /\ body.bad = 0 /\ AuxOk(tx.aux) /\ FeeInRange
  /\ Witnesses(wsets[tx.ws]) <= quote.wits
  /\ wsets[tx.ws].scripts <= quote.scripts
  /\ body.last <= quote.change
  => body.fee >= LinearFee(WireLen)

\* Once signed, with a hash that could be computed, and until the client edits
\* the transaction, every signature in the witness set is one of exactly the
\* body that would be encoded now, although old handles, fee queries and
\* encodings go on writing into the shared body and witness set.
SignedOnWire ==
  seal # "open" =>
    \A i \in DOMAIN wsets[tx.ws].sigs : wsets[tx.ws].sigs[i].msg = OnWire

\* No witness set ever holds signatures next to empty witnesses, or signatures
\* of different bodies: Build replaces the set, MinFee pads only an empty one.
\* That the multisig client appends no placeholders to signatures is its own
\* doing, see AttachPlaceholders.
Unmixed(w) ==
  /\ w.empties = 0 \/ w.sigs = <<>>
  /\ \A i, j \in DOMAIN w.sigs : w.sigs[i].msg = w.sigs[j].msg

NoMixedWitnesses == \A i \in DOMAIN wsets : Unmixed(wsets[i])

\* What Build returned carries one signature for every key handed to the
\* builder, in order, and nothing else if there is any key, however often
\* Build ran before and whatever fee query came before or after it.
OneWitnessPerKey ==
  seal = "built" =>
    LET w == wsets[tx.ws] IN
    /\ Len(w.sigs) = Len(xprvs)
    /\ \A i \in DOMAIN xprvs : w.sigs[i].key = xprvs[i]
    /\ xprvs # <<>> => w.empties = 0

(***************************************************************************)
(* Promises of the source that the code does not keep.                     *)
(***************************************************************************)
\* "AddChangeIfNeeded calculates the excess change from UTXO inputs - outputs
\* and adds it": when the inputs cover the outputs, the change is part of
\* what the inputs hold.  If the excess is less than the fee it wraps around.
ChangeIsExcess ==
  quote.on /\ body.nIn > 0 /\ body.rest <= body.sumIn
    => body.last <= body.sumIn

\* "MinFee calculates the minimum fee for the provided transaction": the
\* transaction Build makes from a settled body pays its minimum fee.  With a
\* second key it does not, MinFee has counted one witness.
BuiltPaysMinFee ==
  /\ seal = "built" /\ quote.on /\ FeeInRange
  /\ body.nIn > 0 /\ body.last <= quote.change
  /\ \A i, j \in DOMAIN xprvs : xprvs[i] = xprvs[j] => i = j
  => body.fee >= LinearFee(WireLen)
=============================================================================
