-------------------------- MODULE TxBuilderProofs --------------------------
(***************************************************************************)
(* Proofs about the transaction builder, for any number of calls, keys,    *)
(* inputs and outputs and any word size.                                   *)
(***************************************************************************)
EXTENDS TxBuilder, TLAPS

(***************************************************************************)
(* Lengths and machine words have their types.                             *)
(***************************************************************************)
\* encodeHead: a head takes 1, 2, 3, 5 or 9 bytes whatever its argument.
LEMMA HeadLenType == \A n : HeadLen(n) \in {1, 2, 3, 5, 9}
BY DEF HeadLen

\* Multiplying counts by sizes gives lengths.
LEMMA ProductType == \A a, b \in Nat : a * b \in Nat
OBVIOUS

\* uint arithmetic stays in the word.
LEMMA WordType ==
  /\ 0 \in Uint
  /\ \A a, b \in Uint : Plus(a, b) \in Uint /\ Minus(a, b) \in Uint
BY WordAssumption, HeadAssumption DEF Uint, Plus, Minus

\* Reduction to a word.
LEMMA ModType == \A x \in Nat : x % UintMod \in Uint
BY WordAssumption, HeadAssumption DEF Uint

\* The linear fee is a word.
LEMMA LinearFeeType == \A n \in Nat : LinearFee(n) \in Uint
<1> TAKE n \in Nat
<1>1. FeePerByte * n \in Nat
  BY ProductType, FeeAssumption
<1>2. FeeFixed + FeePerByte * n \in Nat
  BY <1>1, FeeAssumption
<1> QED BY <1>2, ModType DEF LinearFee

(***************************************************************************)
(* The body: what edits it keeps its type, its length is a length.         *)
(***************************************************************************)
\* AddInputs, AddOutputs, SetFee and the aux hash keep a body a body.
LEMMA BodyType ==
  /\ NewTxBody \in Bodies
  /\ \A b \in Bodies, a \in Uint : AppendInput(b, a) \in Bodies
  /\ \A b \in Bodies, a \in Uint, k \in AddrKinds : AppendOutput(b, k, a) \in Bodies
  /\ \A b \in Bodies, a \in Uint : WithFee(b, a) \in Bodies
  /\ \A b \in Bodies, a \in Uint : WithLast(b, a) \in Bodies
  /\ \A b \in Bodies, a \in Nat  : [b EXCEPT !.ttl = a] \in Bodies
  /\ \A b \in Bodies, a \in Nat  : [b EXCEPT !.auxHash = a] \in Bodies
<1>1. \A k \in AddrKinds : AddrLen(k) \in Nat
  BY DEF AddrLen
<1>2. \A b \in Bodies : OutputsLen(b) \in Nat
  BY HeadLenType DEF OutputsLen, Bodies
<1>3. \A b \in Bodies : TotalOut(b) \in Uint
  BY WordType DEF TotalOut, Bodies
<1>4. ASSUME NEW b \in Bodies, NEW a \in Uint, NEW k \in AddrKinds
      PROVE  AppendOutput(b, k, a) \in Bodies
  <2>1. /\ b.nOut + 1 \in Nat /\ 1 + AddrLen(k) \in Nat
        /\ (IF Marshals(k) THEN b.bad ELSE b.bad + 1) \in Nat
    BY <1>1 DEF Bodies
  <2> QED BY <1>2, <1>3, <2>1 DEF Bodies, AppendOutput
<1>5. ASSUME NEW b \in Bodies, NEW a \in Uint
      PROVE  AppendInput(b, a) \in Bodies
  <2>1. b.nIn + 1 \in Nat /\ Plus(b.sumIn, a) \in Uint
    BY WordType DEF Bodies
  <2> QED BY <2>1 DEF Bodies, AppendInput
<1>6. NewTxBody \in Bodies
  BY WordType DEF Bodies, NewTxBody
<1>7. \A b \in Bodies, a \in Uint : WithFee(b, a) \in Bodies /\ WithLast(b, a) \in Bodies
  BY DEF Bodies, WithFee, WithLast
<1>8. \A b \in Bodies, a \in Nat :
        [b EXCEPT !.ttl = a] \in Bodies /\ [b EXCEPT !.auxHash = a] \in Bodies
  BY DEF Bodies
<1> QED BY <1>4, <1>5, <1>6, <1>7, <1>8

\* The change is a word.
LEMMA ChangeType == \A b \in Bodies, f \in Uint : Change(b, f) \in Uint
BY WordType DEF Change, TotalOut, Bodies

\* The length of a transaction is a natural number.
LEMMA TxLenType ==
  \A b \in Bodies, n, s, m \in Nat : TxLen(b, n, s, m) \in Nat
<1> TAKE b \in Bodies, n \in Nat, s \in Nat, m \in Nat
<1>1. OutputsLen(b) \in Nat
  BY HeadLenType DEF OutputsLen, Bodies
<1>2. b.nIn * InputLen \in Nat
  BY ProductType, LenAssumption DEF Bodies
<1>3. BodyLen(b) \in Nat
  BY <1>1, <1>2, HeadLenType DEF BodyLen, Bodies
<1>4. WitnessSetLen(n, s) \in Nat
  BY HeadLenType DEF WitnessSetLen, WitnessLen
<1> QED BY <1>3, <1>4 DEF TxLen

(***************************************************************************)
(* Reading the heaps.                                                      *)
(***************************************************************************)
\* A pointer of a Tx is nil or leads to an object of its heap.
LEMMA PointerType ==
  ASSUME TypeOK
  PROVE  /\ \A p \in 0 .. Len(aux) : p # 0 => aux[p] \in Metas
         /\ tx.aux \in 0 .. Len(aux)
         /\ tx.ws \in 1 .. Len(wsets)
         /\ wsets[tx.ws] \in WitnessSets
<1>1. aux \in Seq(Metas) /\ wsets \in Seq(WitnessSets)
  BY DEF TypeOK
<1>2. tx \in [ws : 1 .. Len(wsets), aux : 0 .. Len(aux)]
  BY DEF TypeOK
<1>3. tx.aux \in 0 .. Len(aux) /\ tx.ws \in 1 .. Len(wsets)
  BY <1>2
<1>4. wsets[tx.ws] \in WitnessSets
  BY <1>1, <1>3
<1>5. \A p \in 0 .. Len(aux) : p # 0 => aux[p] \in Metas
  BY <1>1
<1> QED BY <1>3, <1>4, <1>5

\* Storing the hash of auxiliary data in a body keeps it a body.
LEMMA WithAuxHashType ==
  ASSUME TypeOK, NEW b \in Bodies, NEW p \in 0 .. Len(aux)
  PROVE  WithAuxHash(b, p) \in Bodies
<1>1. p # 0 => aux[p] \in Nat
  BY PointerType, AuxAssumption
<1> QED BY <1>1, BodyType DEF WithAuxHash

\* The fee MinFee computes is a word, the length it rests on is a length.
LEMMA MinFeeType ==
  ASSUME TypeOK, NEW b \in Bodies
  PROVE  /\ MinFeeOf(b) \in Uint
         /\ CountedWitnesses \in Nat
         /\ FeeBody(b) \in Bodies /\ FirstFee(b) \in Uint
         /\ TxLen(WithFee(FeeBody(b), FirstFee(b)), CountedWitnesses,
                  wsets[tx.ws].scripts, AuxLen(tx.aux)) \in Nat
<1>1. /\ wsets[tx.ws] \in WitnessSets /\ tx.aux \in 0 .. Len(aux)
      /\ wsets[tx.ws].scripts \in Nat
  BY PointerType DEF WitnessSets
<1>2. CountedWitnesses \in Nat
  BY <1>1 DEF CountedWitnesses, Witnesses, WitnessSets
<1>3. AuxLen(tx.aux) \in Nat
  BY PointerType, AuxAssumption DEF AuxLen
<1>4. \A c \in Bodies : FeeOf(c, CountedWitnesses) \in Uint
  BY <1>1, <1>2, <1>3, TxLenType, LinearFeeType, WordType DEF FeeOf
<1>5. FeeBody(b) \in Bodies
  <2>1. [b EXCEPT !.auxHash = 0] \in Bodies
    BY BodyType
  <2> QED BY <1>1, <2>1, WithAuxHashType DEF FeeBody
<1>6. FirstFee(b) \in Uint
  BY <1>4, <1>5 DEF FirstFee
<1>7. WithFee(FeeBody(b), FirstFee(b)) \in Bodies
  BY <1>5, <1>6, BodyType
<1>8. MinFeeOf(b) \in Uint
  BY <1>4, <1>7 DEF MinFeeOf
<1>9. TxLen(WithFee(FeeBody(b), FirstFee(b)), CountedWitnesses,
            wsets[tx.ws].scripts, AuxLen(tx.aux)) \in Nat
  BY <1>1, <1>2, <1>3, <1>7, TxLenType
<1> QED BY <1>2, <1>5, <1>6, <1>8, <1>9

(***************************************************************************)
(* Type correctness.                                                       *)
(***************************************************************************)
\* MinFee's padding keeps the witness sets witness sets, and their number.
LEMMA PadType ==
  ASSUME TypeOK, PadWitnesses
  PROVE  wsets' \in Seq(WitnessSets) /\ Len(wsets') = Len(wsets)
<1>1. wsets \in Seq(WitnessSets) /\ tx.ws \in 1 .. Len(wsets)
  BY PointerType DEF TypeOK
<1>2. [wsets[tx.ws] EXCEPT !.empties = 1] \in WitnessSets
  BY PointerType DEF WitnessSets
<1> QED BY <1>1, <1>2 DEF PadWitnesses

\* The signatures Build and the multisig flow make are signatures.
LEMMA SignAllType ==
  ASSUME NEW n \in Nat, NEW keys \in [1 .. n -> Keys], NEW b \in Bodies \cup {ZeroHash},
         NEW s \in Nat
  PROVE  /\ SignAll(keys, b) \in Seq(Sigs)
         /\ Len(SignAll(keys, b)) = n
         /\ [empties |-> 0, sigs |-> SignAll(keys, b), scripts |-> s] \in WitnessSets
<1>1. Len(keys) = n
  BY DEF Sigs
<1>2. SignAll(keys, b) \in [1 .. n -> Sigs]
  BY <1>1 DEF SignAll, Sigs
<1>3. SignAll(keys, b) \in Seq(Sigs) /\ Len(SignAll(keys, b)) = n
  BY <1>2
<1> QED BY <1>3 DEF WitnessSets

\* TypeOK depends on the variables only.
LEMMA TypeNext == TypeOK /\ [Next]_vars => TypeOK'
<1> SUFFICES ASSUME TypeOK, [Next]_vars PROVE TypeOK'
  OBVIOUS
<1> USE DEF TypeOK
<1>r. ASSUME Reopen PROVE seal' \in {"open", "signed", "built"} /\ quote' \in Quotes
  BY <1>r, WordType DEF Reopen, NoQuote, Quotes
<1>1. CASE AddInputs
  <2>1. body' \in Bodies
    BY <1>1, BodyType, ClientAssumption DEF AddInputs
  <2> QED BY <1>1, <1>r, <2>1 DEF AddInputs
<1>2. CASE AddOutputs
  <2>1. body' \in Bodies
    BY <1>2, BodyType, ClientAssumption DEF AddOutputs
  <2> QED BY <1>2, <1>r, <2>1 DEF AddOutputs
<1>3. CASE SetFee
  <2>1. body' \in Bodies
    BY <1>3, BodyType, ClientAssumption DEF SetFee
  <2> QED BY <1>3, <1>r, <2>1 DEF SetFee
<1>4. CASE SetTTL
  <2>1. body' \in Bodies
    BY <1>4, BodyType, ClientAssumption DEF SetTTL
  <2> QED BY <1>4, <1>r, <2>1 DEF SetTTL
<1>5. CASE NewAuxiliaryData
  <2>1. aux' \in Seq(Metas) /\ Len(aux') = Len(aux) + 1
    BY <1>5, AuxAssumption DEF NewAuxiliaryData
  <2>2. tx' \in [ws : 1 .. Len(wsets'), aux : 0 .. Len(aux')]
    BY <1>5, <2>1 DEF NewAuxiliaryData
  <2>3. built' \subseteq [ws : 1 .. Len(wsets'), aux : 0 .. Len(aux')]
    BY <1>5, <2>1 DEF NewAuxiliaryData
  <2> QED BY <1>5, <1>r, <2>1, <2>2, <2>3 DEF NewAuxiliaryData
<1>6. CASE AddMetadata
  <2>1. aux' \in Seq(Metas) /\ Len(aux') = Len(aux)
    BY <1>6 DEF AddMetadata
  <2> QED BY <1>6, <1>r, <2>1 DEF AddMetadata
<1>7. CASE MinFee
  BY <1>7, PadType DEF MinFee
<1>8. ASSUME NEW k \in Addrs, NEW c \in Uint, Settle(k, c) PROVE TypeOK'
  <2> DEFINE b == AppendOutput(body, k, c)
  <2>1. b \in Bodies
    BY BodyType, ClientAssumption
  <2>2. MinFeeOf(b) \in Uint
    BY <2>1, MinFeeType
  <2>3. Change(body, MinFeeOf(b)) \in Uint
    BY <2>2, ChangeType
  <2>4. body' \in Bodies
    BY <1>8, <2>1, <2>2, <2>3, BodyType DEF Settle
  <2>5. PadWitnesses /\ quote' \in Quotes
    BY <1>8, <2>1, MinFeeType, PointerType DEF Settle, Quotes, WitnessSets
  <2> HIDE DEF b
  <2> QED BY <1>8, <2>4, <2>5, PadType DEF Settle
<1>9. CASE AddChangeIfNeeded
  BY <1>8, <1>9, ChangeType DEF AddChangeIfNeeded, Bodies
<1>10. CASE SettleByHand
  BY <1>8, <1>10, ChangeType, WordType DEF SettleByHand
<1>11. CASE Sign
  BY <1>11 DEF Sign
<1>12. CASE Build
  <2> DEFINE b == WithAuxHash(body, tx.aux)
             w == [empties |-> 0, sigs |-> SignAll(xprvs, b), scripts |-> 0]
  <2>1. b \in Bodies
    BY PointerType, WithAuxHashType
  <2>2. w \in WitnessSets
    BY <2>1, SignAllType
  <2>3. body' = b /\ wsets' = Append(wsets, w)
    BY <1>12 DEF Build, HashedBody
  <2> HIDE DEF b, w
  <2>4. wsets' \in Seq(WitnessSets) /\ Len(wsets') = Len(wsets) + 1
    BY <2>2, <2>3
  <2>5. tx' \in [ws : 1 .. Len(wsets'), aux : 0 .. Len(aux)]
    BY <1>12, <2>4 DEF Build
  <2>6. built' \subseteq [ws : 1 .. Len(wsets'), aux : 0 .. Len(aux)]
    <3>1. built' = built \cup {tx'}
      BY <1>12 DEF Build
    <3>2. built \subseteq [ws : 1 .. Len(wsets'), aux : 0 .. Len(aux)]
      BY <2>4
    <3> QED BY <2>5, <3>1, <3>2
  <2> QED BY <1>12, <2>1, <2>3, <2>4, <2>5, <2>6 DEF Build
<1>13. CASE Bytes
  <2>1. body' \in Bodies
    BY <1>13, WithAuxHashType, PointerType DEF Bytes
  <2> QED BY <1>13, <2>1 DEF Bytes
<1>14. CASE AttachPlaceholders
  <2>1. wsets' \in Seq(WitnessSets) /\ Len(wsets') = Len(wsets)
    <3>1. PICK n \in Placeholders : wsets' = [wsets EXCEPT ![tx.ws].empties = @ + n]
      BY <1>14 DEF AttachPlaceholders
    <3>2. PICK w : w = [wsets[tx.ws] EXCEPT !.empties = @ + n]
      OBVIOUS
    <3>3. w \in WitnessSets
      <4>1. wsets[tx.ws].empties + n \in Nat
        <5>1. wsets[tx.ws].empties \in Nat
          BY PointerType, Zenon DEF WitnessSets
        <5>2. n \in Nat
          BY ClientAssumption, Zenon
        <5> QED BY <5>1, <5>2
      <4> QED BY <3>2, <4>1, PointerType DEF WitnessSets
    <3>4. wsets' = [wsets EXCEPT ![tx.ws] = w]
      BY <3>1, <3>2, PointerType
    <3> QED BY <3>3, <3>4, PointerType
  <2> QED BY <1>14, <2>1 DEF AttachPlaceholders
<1>15. CASE AttachScripts
  <2>1. wsets' \in Seq(WitnessSets) /\ Len(wsets') = Len(wsets)
    <3>1. PICK s \in ScriptLens : wsets' = [wsets EXCEPT ![tx.ws].scripts = s]
      BY <1>15 DEF AttachScripts
    <3>2. [wsets[tx.ws] EXCEPT !.scripts = s] \in WitnessSets
      BY PointerType, ClientAssumption DEF WitnessSets
    <3> QED BY <3>1, <3>2, PointerType
  <2> QED BY <1>15, <2>1 DEF AttachScripts
<1>16. CASE SignInPlace
  <2>1. WithAuxHash(body, tx.aux) \in Bodies /\ Hash \in Bodies \cup {ZeroHash}
    BY PointerType, WithAuxHashType DEF HashedBody, Hash
  <2>2. wsets' \in Seq(WitnessSets) /\ Len(wsets') = Len(wsets)
    <3>0. PICK n \in Placeholders : \E keys \in [1 .. n -> Keys] :
            wsets' = [wsets EXCEPT ![tx.ws].empties = 0,
                        ![tx.ws].sigs = SignAll(keys, Hash)]
      BY <1>16 DEF SignInPlace
    <3>1. PICK keys \in [1 .. n -> Keys] :
            wsets' = [wsets EXCEPT ![tx.ws].empties = 0,
                        ![tx.ws].sigs = SignAll(keys, Hash)]
      BY <3>0
    <3>2. SignAll(keys, Hash) \in Seq(Sigs)
      BY <2>1, SignAllType, ClientAssumption
    <3> DEFINE s == SignAll(keys, Hash)
    <3> HIDE DEF s
    <3>3. [wsets[tx.ws] EXCEPT !.empties = 0, !.sigs = s] \in WitnessSets
      BY <3>2, PointerType DEF s, WitnessSets
    <3>4. wsets' = [wsets EXCEPT ![tx.ws] = [@ EXCEPT !.empties = 0, !.sigs = s]]
      BY <3>1, PointerType DEF s
    <3> QED BY <3>3, <3>4, PointerType
  <2> QED BY <1>16, <2>1, <2>2 DEF SignInPlace
<1>17. CASE UNCHANGED vars
  BY <1>17 DEF vars
<1> QED
  BY <1>1, <1>2, <1>3, <1>4, <1>5, <1>6, <1>7, <1>9, <1>10, <1>11, <1>12,
     <1>13, <1>14, <1>15, <1>16, <1>17 DEF Next

\* Whatever calls a client makes, every variable keeps its type: amounts stay
\* in the word, pointers stay within their heaps.
THEOREM TypeCorrect == Spec => []TypeOK
<1>1. Init => TypeOK
  <2> SUFFICES ASSUME Init PROVE TypeOK
    OBVIOUS
  <2>1. EmptyWitnessSet \in WitnessSets
    BY DEF EmptyWitnessSet, WitnessSets
  <2>2. wsets \in Seq(WitnessSets) /\ Len(wsets) = 1
    BY <2>1 DEF Init
  <2>3. aux \in Seq(Metas) /\ Len(aux) = 0
    BY DEF Init
  <2>4. xprvs \in Seq(Keys)
    <3>1. \A k \in Keys : <<k>> \in Seq(Keys)
      OBVIOUS
    <3>2. <<>> \in Seq(Keys)
      OBVIOUS
    <3>3. xprvs = <<>> \/ \E k \in Keys : xprvs = <<k>>
      BY DEF Init
    <3> QED BY <3>1, <3>2, <3>3
  <2>5. quote \in Quotes
    BY WordType DEF Init, NoQuote, Quotes
  <2> QED BY <2>2, <2>3, <2>4, <2>5, BodyType DEF Init, TypeOK
<1> QED BY <1>1, TypeNext, PTL DEF Spec

(***************************************************************************)
(* The change output balances the transaction.                             *)
(***************************************************************************)
\* What inputs - outputs - fee leaves, added to outputs and fee, gives the
\* inputs back, wrapped or not.
LEMMA ChangeArithmetic ==
  \A i, o, f \in Uint : Plus(Plus(o, Minus(Minus(i, o), f)), f) = i
BY WordAssumption, HeadAssumption DEF Plus, Minus, Uint

\* The hash of auxiliary data is the only field its computation writes.
LEMMA WithAuxHashFrame ==
  ASSUME NEW b \in Bodies, NEW p
  PROVE  LET c == WithAuxHash(b, p) IN
         /\ c.sumIn = b.sumIn /\ c.rest = b.rest /\ c.last = b.last
         /\ c.fee = b.fee /\ c.bad = b.bad
BY DEF WithAuxHash, Bodies

\* The steps that keep the quote keep everything it speaks of in the body.
LEMMA QuoteFrame ==
  ASSUME TypeOK, [Next]_vars, quote'.on
  PROVE  \/ \E k \in Addrs, c \in Uint : Settle(k, c)
         \/ /\ quote' = quote /\ aux' = aux /\ tx'.aux = tx.aux
            /\ \/ body' = body
               \/ \E t \in built \cup {tx} : body' = WithAuxHash(body, t.aux)
<1>1. ~ Reopen
  BY DEF Reopen, NoQuote
<1>2. CASE AddChangeIfNeeded \/ SettleByHand
  BY <1>2, ChangeType, WordType
     DEF AddChangeIfNeeded, SettleByHand, TypeOK, Bodies
<1>3. CASE MinFee \/ Sign \/ AttachPlaceholders \/ AttachScripts \/ UNCHANGED vars
  BY <1>3 DEF MinFee, Sign, AttachPlaceholders, AttachScripts, vars
<1>4. CASE Build \/ SignInPlace \/ Bytes
  BY <1>4 DEF Build, SignInPlace, Bytes, TypeOK
<1> QED
  BY <1>1, <1>2, <1>3, <1>4
     DEF Next, AddInputs, AddOutputs, SetFee, SetTTL, NewAuxiliaryData, AddMetadata

\* Every step keeps the balance.
LEMMA BalanceNext == TypeOK /\ ChangeBalances /\ [Next]_vars => ChangeBalances'
<1> SUFFICES ASSUME TypeOK, ChangeBalances, [Next]_vars, quote'.on
             PROVE  Plus(TotalOut(body'), body'.fee) = body'.sumIn
  BY DEF ChangeBalances
<1>1. body \in Bodies
  BY DEF TypeOK
<1>2. CASE \E k \in Addrs, c \in Uint : Settle(k, c)
  <2>1. PICK k \in Addrs, c \in Uint : Settle(k, c)
    BY <1>2
  <2> DEFINE b == AppendOutput(body, k, c)
             f == MinFeeOf(b)
             r == Change(body, f)
  <2>2. b \in Bodies /\ f \in Uint
    BY <1>1, BodyType, ClientAssumption, MinFeeType
  <2>3. b.sumIn = body.sumIn /\ b.rest = TotalOut(body)
    BY <1>1 DEF AppendOutput, Bodies
  <2>4. body' = WithLast(WithFee(b, f), r)
    BY <2>1 DEF Settle
  <2> HIDE DEF b, f, r
  <2>5. /\ body'.sumIn = body.sumIn /\ body'.rest = TotalOut(body)
        /\ body'.last = r /\ body'.fee = f
    BY <2>2, <2>3, <2>4 DEF WithLast, WithFee, Bodies
  <2>6. body.sumIn \in Uint /\ TotalOut(body) \in Uint
    BY <1>1, WordType DEF Bodies, TotalOut
  <2>7. Plus(Plus(TotalOut(body), r), f) = body.sumIn
    BY <2>2, <2>6, ChangeArithmetic DEF r, Change
  <2> QED BY <2>5, <2>7 DEF TotalOut
<1>3. CASE /\ quote' = quote
           /\ body' = body \/ \E p : body' = WithAuxHash(body, p)
  <2>1. /\ body'.sumIn = body.sumIn /\ body'.rest = body.rest
        /\ body'.last = body.last /\ body'.fee = body.fee
    BY <1>1, <1>3, WithAuxHashFrame
  <2> QED BY <1>3, <2>1 DEF ChangeBalances, TotalOut
<1> QED BY <1>2, <1>3, QuoteFrame

\* Inputs equal outputs plus fee from the moment the change is settled until
\* the client edits the transaction again.
THEOREM ChangeCorrect == Spec => []ChangeBalances
<1>1. Init => ChangeBalances
  BY DEF Init, NoQuote, ChangeBalances
<1> QED BY <1>1, BalanceNext, TypeCorrect, PTL DEF Spec

(***************************************************************************)
(* Signatures.  SignedOnWire is not inductive: an old handle could store   *)
(* the hash of its auxiliary data in the body for good.  It cannot, because *)
(* the builder's own data is there whenever an old handle has any, and can *)
(* be encoded whenever something is signed, so OnWire overwrites the hash. *)
(***************************************************************************)
SigInv ==
  /\ \A t \in built : t.aux # 0 => tx.aux # 0
  /\ seal # "open" => AuxOk(tx.aux)
  /\ SignedOnWire
  /\ NoMixedWitnesses
  /\ OneWitnessPerKey

\* Storing the hash of one object's data and then that of the builder's own
\* is storing the latter.
LEMMA LastHashWins ==
  ASSUME TypeOK, SigInv, AuxOk(tx.aux), NEW t \in built \cup {tx}
  PROVE  WithAuxHash(WithAuxHash(body, t.aux), tx.aux) = OnWire
<1>1. tx.aux = 0 => t.aux = 0
  BY DEF SigInv
<1>2. body \in Bodies
  BY DEF TypeOK
<1> QED BY <1>1, <1>2 DEF WithAuxHash, OnWire, Bodies, AuxOk

\* Steps that leave the heap of auxiliary data, and whose body differs at most
\* by a stored hash, leave what goes on the wire.
LEMMA WireFrame ==
  ASSUME TypeOK, SigInv, AuxOk(tx.aux), aux' = aux, tx'.aux = tx.aux,
         \/ body' = body
         \/ \E t \in built \cup {tx} : body' = WithAuxHash(body, t.aux)
  PROVE  OnWire' = OnWire
<1>1. OnWire' = WithAuxHash(body', tx.aux)
  BY DEF OnWire, WithAuxHash, AuxOk
<1> QED BY <1>1, LastHashWins DEF OnWire

\* Steps that change at most the empty witnesses and the scripts of the sets
\* keep the signatures.
LEMMA PadFrame ==
  ASSUME TypeOK, PadWitnesses
  PROVE  /\ DOMAIN wsets' = DOMAIN wsets
         /\ \A i \in DOMAIN wsets :
              /\ wsets'[i].sigs = wsets[i].sigs
              /\ wsets'[i].empties = wsets[i].empties \/ wsets[i].sigs = <<>>
<1>1. wsets \in Seq(WitnessSets) /\ tx.ws \in DOMAIN wsets
  BY PointerType DEF TypeOK
<1>2. CASE Witnesses(wsets[tx.ws]) = 0
  <2>1. wsets[tx.ws].sigs = <<>>
    <3>1. wsets[tx.ws].empties \in Nat /\ wsets[tx.ws].sigs \in Seq(Sigs)
      BY PointerType DEF WitnessSets
    <3>2. Len(wsets[tx.ws].sigs) = 0
      BY <1>2, <3>1 DEF Witnesses
    <3> QED BY <3>1, <3>2
  <2>2. wsets' = [wsets EXCEPT ![tx.ws].empties = 1]
    BY <1>2 DEF PadWitnesses
  <2>3. /\ DOMAIN wsets' = DOMAIN wsets
        /\ \A i \in DOMAIN wsets : i # tx.ws => wsets'[i] = wsets[i]
        /\ wsets'[tx.ws] = [wsets[tx.ws] EXCEPT !.empties = 1]
    BY <1>1, <2>2
  <2>4. wsets'[tx.ws].sigs = wsets[tx.ws].sigs
    BY <2>3, PointerType DEF WitnessSets
  <2> QED BY <2>1, <2>3, <2>4
<1>3. CASE Witnesses(wsets[tx.ws]) # 0
  BY <1>3 DEF PadWitnesses
<1> QED BY <1>2, <1>3

\* The signatures Build and the multisig flow make are of one message, one
\* for each key.
LEMMA SignAllFacts ==
  ASSUME NEW n \in Nat, NEW keys \in [1 .. n -> Keys], NEW b
  PROVE  LET s == SignAll(keys, b) IN
         /\ DOMAIN s = 1 .. n /\ Len(s) = n
         /\ \A i \in DOMAIN s : s[i].key = keys[i] /\ s[i].msg = b
<1>1. Len(keys) = n
  OBVIOUS
<1> QED BY <1>1 DEF SignAll


\* If every witness set of the heap keeps its signatures, and its empty
\* witnesses unless it has no signature, no set becomes mixed.
LEMMA UnmixedFrame ==
  ASSUME NoMixedWitnesses, DOMAIN wsets' = DOMAIN wsets,
         \A i \in DOMAIN wsets :
           /\ wsets'[i].sigs = wsets[i].sigs
           /\ wsets'[i].empties = wsets[i].empties \/ wsets[i].sigs = <<>>
  PROVE  NoMixedWitnesses'
<1> SUFFICES ASSUME NEW i \in DOMAIN wsets PROVE Unmixed(wsets'[i])
  BY DEF NoMixedWitnesses
<1>1. Unmixed(wsets[i])
  BY DEF NoMixedWitnesses
<1> QED BY <1>1 DEF Unmixed

\* Every step keeps SigInv.
LEMMA SigNext == TypeOK /\ SigInv /\ [Next]_vars => SigInv'
<1> SUFFICES ASSUME TypeOK, SigInv, [Next]_vars PROVE SigInv'
  OBVIOUS
<1>p. /\ tx \in [ws : 1 .. Len(wsets), aux : 0 .. Len(aux)]
      /\ tx.ws \in DOMAIN wsets /\ wsets \in Seq(WitnessSets)
      /\ wsets[tx.ws] \in WitnessSets /\ Len(aux) \in Nat
  BY PointerType DEF TypeOK
<1>1. CASE Reopen /\ wsets' = wsets /\ built' = built /\ (tx' = tx \/ tx'.aux # 0)
  BY <1>1 DEF SigInv, Reopen, SignedOnWire, OneWitnessPerKey, NoMixedWitnesses
<1>2. CASE AddInputs \/ AddOutputs \/ SetFee \/ SetTTL \/ AddMetadata
  BY <1>1, <1>2 DEF AddInputs, AddOutputs, SetFee, SetTTL, AddMetadata
<1>3. CASE NewAuxiliaryData
  <2>1. tx'.aux # 0
    BY <1>3, <1>p DEF NewAuxiliaryData
  <2> QED BY <1>1, <1>3, <2>1 DEF NewAuxiliaryData
<1>4. CASE MinFee
  <2>1. NoMixedWitnesses'
    BY <1>4, PadFrame, UnmixedFrame DEF MinFee, SigInv
  <2>2. wsets'[tx.ws].sigs = wsets[tx.ws].sigs
    BY <1>4, <1>p, PadFrame DEF MinFee
  <2>3. SignedOnWire'
    BY <1>4, <2>2, WireFrame DEF MinFee, SigInv, SignedOnWire
  <2>4. OneWitnessPerKey'
    <3>1. wsets[tx.ws].sigs = <<>> => Len(wsets[tx.ws].sigs) = 0
      OBVIOUS
    <3>2. Len(xprvs) = 0 => xprvs = <<>>
      BY DEF TypeOK
    <3>3. \/ wsets'[tx.ws].empties = wsets[tx.ws].empties
          \/ wsets[tx.ws].sigs = <<>>
      BY <1>4, <1>p, PadFrame DEF MinFee
    <3> QED BY <1>4, <2>2, <3>1, <3>2, <3>3 DEF MinFee, SigInv, OneWitnessPerKey
  <2> QED BY <1>4, <2>1, <2>3, <2>4 DEF MinFee, SigInv, AuxOk
<1>5. ASSUME NEW k, NEW c, Settle(k, c) PROVE SigInv'
  <2>1. NoMixedWitnesses'
    BY <1>5, PadFrame, UnmixedFrame DEF Settle, SigInv
  <2> QED BY <1>5, <2>1 DEF Settle, SigInv, SignedOnWire, OneWitnessPerKey
<1>6. CASE AddChangeIfNeeded \/ SettleByHand
  BY <1>5, <1>6 DEF AddChangeIfNeeded, SettleByHand
<1>7. CASE Sign
  <2>1. OneWitnessPerKey' /\ (seal' # "open" => seal # "open")
    BY <1>7 DEF Sign, OneWitnessPerKey
  <2>2. SignedOnWire'
    BY <1>7, <2>1, WireFrame DEF Sign, SigInv, SignedOnWire
  <2> QED BY <1>7, <2>1, <2>2 DEF Sign, SigInv, AuxOk, NoMixedWitnesses
<1>8. CASE Build
  <2> DEFINE b == WithAuxHash(body, tx.aux)
             s == SignAll(xprvs, b)
             w == [empties |-> 0, sigs |-> s, scripts |-> 0]
  <2>1. /\ AuxOk(tx.aux) /\ body' = b /\ wsets' = Append(wsets, w)
        /\ tx' = [tx EXCEPT !.ws = Len(wsets) + 1] /\ built' = built \cup {tx'}
        /\ seal' = "built" /\ aux' = aux /\ xprvs' = xprvs
    BY <1>8 DEF Build, Hashes, HashedBody
  <2>2. /\ DOMAIN s = 1 .. Len(xprvs) /\ Len(s) = Len(xprvs)
        /\ \A i \in DOMAIN s : s[i].key = xprvs[i] /\ s[i].msg = b
    BY SignAllFacts DEF TypeOK
  <2>3. tx'.aux = tx.aux /\ tx'.ws = Len(wsets) + 1
    BY <2>1, <1>p
  <2>4. OnWire' = b
    BY <2>1, <2>3, WireFrame DEF OnWire
  <2> HIDE DEF b, s
  <2>5. /\ wsets'[tx'.ws] = w /\ DOMAIN wsets' = DOMAIN wsets \cup {tx'.ws}
        /\ \A i \in DOMAIN wsets : wsets'[i] = wsets[i]
    BY <2>1, <2>3, <1>p
  <2>6. SignedOnWire'
    BY <2>2, <2>4, <2>5 DEF SignedOnWire
  <2>7. Unmixed(w)
    BY <2>2 DEF Unmixed
  <2>8. NoMixedWitnesses'
    BY <2>5, <2>7 DEF NoMixedWitnesses, SigInv
  <2>9. OneWitnessPerKey'
    BY <2>1, <2>2, <2>5 DEF OneWitnessPerKey, TypeOK
  <2>10. AuxOk(tx.aux)' /\ \A t \in built' : t.aux # 0 => tx'.aux # 0
    BY <2>1, <2>3 DEF AuxOk, SigInv
  <2> QED BY <2>6, <2>8, <2>9, <2>10 DEF SigInv
<1>9. CASE Bytes
  <2>1. SignedOnWire'
    BY <1>9, WireFrame DEF Bytes, SigInv, SignedOnWire
  <2> QED
    BY <1>9, <2>1 DEF Bytes, SigInv, AuxOk, NoMixedWitnesses, OneWitnessPerKey
<1>10. CASE AttachPlaceholders
  <2>1. wsets[tx.ws].sigs = <<>>
    BY <1>10 DEF AttachPlaceholders
  <2>2. PICK n \in Placeholders : wsets' = [wsets EXCEPT ![tx.ws].empties = @ + n]
    BY <1>10 DEF AttachPlaceholders
  <2>3. /\ DOMAIN wsets' = DOMAIN wsets
        /\ \A i \in DOMAIN wsets : i # tx.ws => wsets'[i] = wsets[i]
        /\ wsets'[tx.ws] = [wsets[tx.ws] EXCEPT !.empties = @ + n]
    BY <1>p, <2>2
  <2>4. wsets'[tx.ws].sigs = wsets[tx.ws].sigs
    BY <1>p, <2>3 DEF WitnessSets
  <2>5. NoMixedWitnesses'
    BY <2>1, <2>3, <2>4, UnmixedFrame DEF SigInv
  <2> QED
    BY <1>10, <2>5
       DEF AttachPlaceholders, SigInv, SignedOnWire, OneWitnessPerKey
<1>11. CASE AttachScripts
  <2>1. PICK n \in ScriptLens : wsets' = [wsets EXCEPT ![tx.ws].scripts = n]
    BY <1>11 DEF AttachScripts
  <2>2. /\ DOMAIN wsets' = DOMAIN wsets
        /\ \A i \in DOMAIN wsets : i # tx.ws => wsets'[i] = wsets[i]
        /\ wsets'[tx.ws] = [wsets[tx.ws] EXCEPT !.scripts = n]
    BY <1>p, <2>1
  <2>3. /\ wsets'[tx.ws].sigs = wsets[tx.ws].sigs
        /\ wsets'[tx.ws].empties = wsets[tx.ws].empties
    BY <1>p, <2>2 DEF WitnessSets
  <2>4. NoMixedWitnesses'
    BY <2>2, <2>3, UnmixedFrame DEF SigInv
  <2>5. SignedOnWire'
    BY <1>11, <2>3, WireFrame DEF AttachScripts, SigInv, SignedOnWire
  <2> QED
    BY <1>11, <2>3, <2>4, <2>5 DEF AttachScripts, SigInv, AuxOk, OneWitnessPerKey
<1>12. CASE SignInPlace
  <2>1. /\ body' = WithAuxHash(body, tx.aux)
        /\ seal' = IF Hashes THEN "signed" ELSE "open"
        /\ aux' = aux /\ tx' = tx /\ built' = built
    BY <1>12 DEF SignInPlace
  <2>2. PICK n \in Placeholders : \E keys \in [1 .. n -> Keys] :
          wsets' = [wsets EXCEPT ![tx.ws].empties = 0,
                                 ![tx.ws].sigs = SignAll(keys, Hash)]
    BY <1>12 DEF SignInPlace
  <2>3. PICK keys \in [1 .. n -> Keys] :
          wsets' = [wsets EXCEPT ![tx.ws].empties = 0,
                                 ![tx.ws].sigs = SignAll(keys, Hash)]
    BY <2>2
  <2> DEFINE s == SignAll(keys, Hash)
  <2>4. \A i \in DOMAIN s : s[i].msg = Hash
    BY SignAllFacts, ClientAssumption
  <2> HIDE DEF s
  <2>5. wsets' = [wsets EXCEPT ![tx.ws] = [@ EXCEPT !.empties = 0, !.sigs = s]]
    BY <2>3, <1>p DEF s
  <2>6. /\ DOMAIN wsets' = DOMAIN wsets
        /\ \A i \in DOMAIN wsets : i # tx.ws => wsets'[i] = wsets[i]
        /\ wsets'[tx.ws] = [wsets[tx.ws] EXCEPT !.empties = 0, !.sigs = s]
    BY <2>5, <1>p
  <2>7. wsets'[tx.ws].empties = 0 /\ wsets'[tx.ws].sigs = s
    BY <2>6, <1>p DEF WitnessSets
  <2>8. SignedOnWire'
    <3>1. CASE Hashes
      <4>1. AuxOk(tx.aux) /\ Hash = WithAuxHash(body, tx.aux)
        BY <3>1 DEF Hashes, Hash, HashedBody
      <4>2. OnWire' = Hash
        BY <2>1, <4>1, WireFrame DEF OnWire
      <4> QED BY <2>1, <2>4, <2>7, <4>2 DEF SignedOnWire
    <3>2. CASE ~Hashes
      BY <2>1, <3>2 DEF SignedOnWire
    <3> QED BY <3>1, <3>2
  <2>9. Unmixed(wsets'[tx.ws])
    BY <2>4, <2>7 DEF Unmixed
  <2>10. NoMixedWitnesses'
    BY <2>6, <2>9 DEF NoMixedWitnesses, SigInv
  <2>11. seal' # "open" => AuxOk(tx.aux)'
    BY <2>1 DEF Hashes, AuxOk
  <2> QED BY <2>1, <2>8, <2>10, <2>11 DEF SigInv, OneWitnessPerKey
<1>13. CASE UNCHANGED vars
  BY <1>13, WireFrame
     DEF vars, SigInv, AuxOk, SignedOnWire, NoMixedWitnesses, OneWitnessPerKey
<1> QED
  BY <1>2, <1>3, <1>4, <1>6, <1>7, <1>8, <1>9, <1>10, <1>11, <1>12, <1>13 DEF Next

\* Init satisfies the invariant and every step keeps it.
LEMMA SigInvariant == Spec => []SigInv
<1>1. Init => SigInv
  BY DEF Init, SigInv, SignedOnWire, NoMixedWitnesses, Unmixed,
         OneWitnessPerKey, EmptyWitnessSet
<1> QED BY <1>1, SigNext, TypeCorrect, PTL DEF Spec

\* Whatever else is called on the builder, its Tx or the handles Build has
\* returned: what was signed is what goes on the wire.
THEOREM SignaturesValid == Spec => []SignedOnWire
BY SigInvariant, PTL DEF SigInv

\* No witness set mixes signatures of two bodies, or signatures and padding.
THEOREM WitnessesUnmixed == Spec => []NoMixedWitnesses
BY SigInvariant, PTL DEF SigInv

\* Build signs once with every key the builder has.
THEOREM BuildSignsOnce == Spec => []OneWitnessPerKey
BY SigInvariant, PTL DEF SigInv

(***************************************************************************)
(* The fee covers the transaction.  MinFee encodes a body of its own, with *)
(* the first fee, the change assumed and at least one witness; FeeInv says *)
(* that this was no shorter than what goes on the wire.  Both fees have a  *)
(* head of at least five bytes and the final one of exactly five.          *)
(***************************************************************************)
QuotedLenCovers ==
  FeeInRange /\ body.last <= quote.change
    => TxLen(OnWire, quote.wits, quote.scripts, AuxLen(tx.aux)) <= quote.len

FeeInv ==
  /\ tx.aux = 0 => body.auxHash = 0
  /\ quote.on /\ body.bad = 0 /\ AuxOk(tx.aux) =>
       body.fee = LinearFee(quote.len) /\ QuotedLenCovers

\* A larger argument never has a shorter head.
LEMMA HeadLenMonotone ==
  \A m, n \in Nat : m <= n => HeadLen(m) <= HeadLen(n)
BY HeadAssumption DEF HeadLen

\* Fewer witnesses and shorter scripts make a transaction no longer.
LEMMA TxLenMonotone ==
  ASSUME NEW b \in Bodies, NEW m \in Nat,
         NEW n1 \in Nat, NEW n2 \in Nat, n1 <= n2,
         NEW s1 \in Nat, NEW s2 \in Nat, s1 <= s2
  PROVE  TxLen(b, n1, s1, m) <= TxLen(b, n2, s2, m)
<1>1. HeadLen(n1) <= HeadLen(n2) /\ HeadLen(n1) \in Nat /\ HeadLen(n2) \in Nat
  BY HeadLenMonotone, HeadLenType
<1>2. n1 * WitnessLen <= n2 * WitnessLen
  BY DEF WitnessLen
<1>3. WitnessSetLen(n1, s1) <= WitnessSetLen(n2, s2)
  BY <1>1, <1>2 DEF WitnessSetLen, WitnessLen
<1>4. BodyLen(b) \in Nat
  <2>1. OutputsLen(b) \in Nat
    BY HeadLenType DEF OutputsLen, Bodies
  <2>2. b.nIn * InputLen \in Nat
    BY ProductType, LenAssumption DEF Bodies
  <2> QED BY <2>1, <2>2, HeadLenType DEF BodyLen, Bodies
<1>5. WitnessSetLen(n1, s1) \in Nat /\ WitnessSetLen(n2, s2) \in Nat
  BY HeadLenType DEF WitnessSetLen, WitnessLen
<1> QED BY <1>3, <1>4, <1>5 DEF TxLen

\* Of two factors the larger gives the larger product.
LEMMA ProductMonotone ==
  \A k, m, n \in Nat : m <= n => k * m <= k * n
<1> TAKE k \in Nat, m \in Nat, n \in Nat
<1> HAVE m <= n
<1>1. n = m + (n - m) /\ n - m \in Nat
  OBVIOUS
<1>2. k * (n - m) \in Nat /\ k * n = k * m + k * (n - m)
  BY <1>1, ProductType
<1>3. k * m \in Nat
  BY ProductType
<1> QED BY <1>2, <1>3

\* A fee below the word size is not reduced.
LEMMA SmallFee ==
  \A n \in Nat : FeeFixed + FeePerByte * n < UintMod
                   => LinearFee(n) = FeeFixed + FeePerByte * n
<1> TAKE n \in Nat
<1>1. FeePerByte * n \in Nat /\ FeeFixed \in Nat
  BY ProductType, FeeAssumption
<1>2. \A x \in Nat : x < UintMod => x % UintMod = x
  BY WordAssumption, HeadAssumption
<1> QED BY <1>1, <1>2 DEF LinearFee

\* Bodies that differ in the last amount and the fee only compare by the
\* lengths of these two.
LEMMA ShorterBody ==
  ASSUME NEW b \in Bodies, NEW c \in Bodies,
         b.nIn = c.nIn, b.nOut = c.nOut, b.restLen = c.restLen,
         b.lastLen = c.lastLen, b.ttl = c.ttl, b.auxHash = c.auxHash,
         HeadLen(b.last) <= HeadLen(c.last), HeadLen(b.fee) <= HeadLen(c.fee)
  PROVE  BodyLen(b) <= BodyLen(c)
<1>1. OutputsLen(b) <= OutputsLen(c) /\ OutputsLen(b) \in Nat /\ OutputsLen(c) \in Nat
  BY HeadLenType DEF OutputsLen, Bodies
<1>2. b.nIn * InputLen \in Nat /\ b.nIn * InputLen = c.nIn * InputLen
  BY ProductType, LenAssumption DEF Bodies
<1>3. /\ HeadLen(b.fee) \in Nat /\ HeadLen(c.fee) \in Nat
      /\ HeadLen(b.nIn) \in Nat /\ HeadLen(b.nOut) \in Nat /\ HeadLen(b.ttl) \in Nat
  BY HeadLenType
<1> QED BY <1>1, <1>2, <1>3 DEF BodyLen

\* Changing the fee changes the length by less than a head, and no
\* transaction is shorter than that.
LEMMA FeeHeadBound ==
  ASSUME NEW b \in Bodies, NEW f \in Uint,
         NEW n \in Nat, NEW s \in Nat, NEW m \in Nat
  PROVE  /\ TxLen(b, n, s, m) <= TxLen(WithFee(b, f), n, s, m) + 8
         /\ TxLen(WithFee(b, f), n, s, m) >= 8
<1> DEFINE c == WithFee(b, f)
<1>1. /\ c.nIn = b.nIn /\ c.nOut = b.nOut /\ c.ttl = b.ttl
      /\ c.auxHash = b.auxHash /\ OutputsLen(c) = OutputsLen(b)
  BY DEF WithFee, Bodies, OutputsLen
<1>2. OutputsLen(b) \in Nat /\ b.nIn * InputLen \in Nat
  BY ProductType, LenAssumption, HeadLenType DEF OutputsLen, Bodies
<1> HIDE DEF c
<1>3. BodyLen(b) <= BodyLen(c) + 8 /\ BodyLen(c) >= 7
      /\ BodyLen(b) \in Nat /\ BodyLen(c) \in Nat
  <2>1. /\ HeadLen(b.fee) \in 1 .. 9 /\ HeadLen(c.fee) \in 1 .. 9
        /\ HeadLen(b.nIn) \in 1 .. 9 /\ HeadLen(b.nOut) \in 1 .. 9
        /\ HeadLen(b.ttl) \in 1 .. 9
    BY HeadLenType
  <2> DEFINE i == b.nIn * InputLen
             o == OutputsLen(b)
             t == IF b.ttl = 0 THEN 0 ELSE 1 + HeadLen(b.ttl)
             h == IF b.auxHash = 0 THEN 0 ELSE 1 + 2 + 32
  <2>2. i \in Nat /\ o \in Nat /\ t \in Nat /\ h \in Nat
    BY <1>2, <2>1
  <2>3. BodyLen(b) = 1 + (1 + HeadLen(b.nIn) + i) + (1 + HeadLen(b.nOut) + o)
                       + (1 + HeadLen(b.fee)) + t + h
    BY DEF BodyLen
  <2>4. BodyLen(c) = 1 + (1 + HeadLen(b.nIn) + i) + (1 + HeadLen(b.nOut) + o)
                       + (1 + HeadLen(c.fee)) + t + h
    BY <1>1 DEF BodyLen
  <2> DEFINE x == 4 + HeadLen(b.nIn) + i + HeadLen(b.nOut) + o + t + h
  <2> HIDE DEF i, o, t, h
  <2>5. x \in Nat /\ x >= 6
    BY <2>1, <2>2
  <2>6. BodyLen(b) = x + HeadLen(b.fee) /\ BodyLen(c) = x + HeadLen(c.fee)
    BY <2>1, <2>2, <2>3, <2>4
  <2> HIDE DEF x
  <2> QED BY <2>1, <2>5, <2>6
<1>4. WitnessSetLen(n, s) \in Nat
  BY HeadLenType DEF WitnessSetLen, WitnessLen
<1> QED BY <1>3, <1>4 DEF TxLen, c

\* If the fee of a length is in range, that of a length at most 8 more is a
\* fee with its fixed part.
LEMMA NearFee ==
  ASSUME NEW l \in Nat, NEW n \in Nat, n <= l + 8, l >= 8,
         FeeFixed >= Head32, FeeFixed + FeePerByte * l < Head64
  PROVE  LinearFee(n) \in Nat /\ LinearFee(n) >= Head32
<1>1. FeePerByte * n <= FeePerByte * (l + l)
  BY ProductMonotone, FeeAssumption
<1>2. FeePerByte * (l + l) = FeePerByte * l + FeePerByte * l
  BY FeeAssumption
<1>3. FeePerByte * n \in Nat /\ FeePerByte * l \in Nat /\ FeeFixed \in Nat
  BY ProductType, FeeAssumption
<1>4. FeeFixed + FeePerByte * n < 2 * Head64
  BY <1>1, <1>2, <1>3, HeadAssumption
<1>5. LinearFee(n) = FeeFixed + FeePerByte * n
  BY <1>3, <1>4, SmallFee, WordAssumption, HeadAssumption
<1> QED BY <1>3, <1>5, HeadAssumption

\* Settling the change quotes a length that covers what goes on the wire.
LEMMA SettleQuote ==
  ASSUME TypeOK, tx.aux = 0 => body.auxHash = 0,
         NEW k \in Addrs, NEW c \in Uint, Settle(k, c),
         body'.bad = 0, AuxOk(tx.aux)
  PROVE  body'.fee = LinearFee(quote'.len) /\ QuotedLenCovers'
<1> DEFINE b == AppendOutput(body, k, c)
           q == WithFee(FeeBody(b), FirstFee(b))
           f == MinFeeOf(b)
           r == Change(body, f)
           n == CountedWitnesses
           s == wsets[tx.ws].scripts
           m == AuxLen(tx.aux)
<1>1. body \in Bodies /\ b \in Bodies
  BY BodyType, ClientAssumption DEF TypeOK
<1>2. /\ f \in Uint /\ n \in Nat /\ FeeBody(b) \in Bodies
      /\ FirstFee(b) \in Uint /\ q \in Bodies
  BY <1>1, MinFeeType, BodyType
<1>3. s \in Nat /\ m \in Nat
  BY PointerType, AuxAssumption DEF AuxLen, WitnessSets
<1>4. r \in Uint
  BY <1>1, <1>2, ChangeType
<1>5. /\ body' = WithLast(WithFee(b, f), r)
      /\ quote' = [on |-> TRUE, wits |-> n, scripts |-> s, change |-> c,
                   len |-> TxLen(q, n, s, m)]
      /\ aux' = aux /\ tx' = tx
  BY <1>1 DEF Settle
<1>6. b.last = c /\ b.auxHash = body.auxHash
  BY <1>1 DEF AppendOutput, Bodies
<1>7. /\ FeeBody(b).auxHash = IF tx.aux = 0 THEN 0 ELSE aux[tx.aux]
      /\ \A x \in {"nIn", "nOut", "restLen", "lastLen", "ttl", "last", "bad"} :
           FeeBody(b)[x] = b[x]
  BY <1>1 DEF FeeBody, WithAuxHash, Bodies
<1>8. FeeOf(FeeBody(b), n) = FirstFee(b) /\ FeeOf(q, n) = f
  BY DEF FirstFee, MinFeeOf
<1> HIDE DEF b, f, n, s, m, r
<1>9. body'.bad = b.bad /\ body'.fee = f /\ body'.last = r
  BY <1>1, <1>2, <1>4, <1>5 DEF WithLast, WithFee, Bodies
<1>10. q.fee = FirstFee(b) /\ q.last = c /\ q.auxHash = FeeBody(b).auxHash
       /\ \A x \in {"nIn", "nOut", "restLen", "lastLen", "ttl", "bad"} : q[x] = b[x]
  BY <1>2, <1>6, <1>7 DEF WithFee, Bodies
<1> HIDE DEF q
<1>11. f = LinearFee(TxLen(q, n, s, m))
       /\ FirstFee(b) = LinearFee(TxLen(FeeBody(b), n, s, m))
  BY <1>7, <1>8, <1>9, <1>10 DEF FeeOf, s, m
<1>12. ASSUME FeeInRange', r <= c
       PROVE  TxLen(OnWire', n, s, m) <= TxLen(q, n, s, m)
  <2> DEFINE l == TxLen(q, n, s, m)
             w == OnWire'
  <2>1. l \in Nat /\ TxLen(FeeBody(b), n, s, m) \in Nat
    BY <1>2, <1>3, TxLenType
  <2>2. FeeFixed >= Head32 /\ FeeFixed + FeePerByte * l < Head64
    BY <1>5, <1>12 DEF FeeInRange
  <2>3. TxLen(FeeBody(b), n, s, m) <= l + 8 /\ l >= 8
    BY <1>2, <1>3, FeeHeadBound DEF q
  <2> HIDE DEF l
  <2>4. FirstFee(b) \in Nat /\ FirstFee(b) >= Head32
    BY <1>11, <2>1, <2>2, <2>3, NearFee
  <2>5. f < Head64
    <3>1. LinearFee(l) = FeeFixed + FeePerByte * l
      BY <2>1, <2>2, SmallFee, WordAssumption, HeadAssumption,
         ProductType, FeeAssumption
    <3> QED BY <1>11, <2>2, <3>1 DEF l
  <2>6. HeadLen(f) <= HeadLen(FirstFee(b))
    BY <1>2, <2>4, <2>5, HeadAssumption DEF HeadLen, Uint
  <2>7. HeadLen(r) <= HeadLen(c)
    BY <1>4, <1>12, HeadLenMonotone DEF Uint
  <2>8. w = IF tx.aux = 0 THEN body' ELSE [body' EXCEPT !.auxHash = aux[tx.aux]]
    BY <1>5 DEF OnWire, WithAuxHash, AuxOk
  <2>9. body' \in Bodies /\ body'.auxHash = body.auxHash
        /\ \A x \in {"nIn", "nOut", "restLen", "lastLen", "ttl"} : body'[x] = b[x]
    BY <1>1, <1>2, <1>4, <1>5, <1>6 DEF WithLast, WithFee, Bodies
  <2>10. tx.aux # 0 => aux[tx.aux] \in Nat
    BY PointerType, AuxAssumption
  <2>11. w \in Bodies /\ w.last = r /\ w.fee = f /\ w.auxHash = q.auxHash
         /\ \A x \in {"nIn", "nOut", "restLen", "lastLen", "ttl"} : w[x] = q[x]
    <3> HIDE DEF w
    <3>1. CASE tx.aux = 0
      BY <1>7, <1>9, <1>10, <2>8, <2>9, <3>1
    <3>2. CASE tx.aux # 0
      BY <1>7, <1>9, <1>10, <2>8, <2>9, <2>10, <3>2 DEF Bodies
    <3> QED BY <3>1, <3>2
  <2> HIDE DEF w
  <2>12. BodyLen(w) <= BodyLen(q)
    BY <1>2, <1>10, <2>6, <2>7, <2>11, ShorterBody
  <2>13. TxLen(w, n, s, m) <= TxLen(q, n, s, m)
    <3>1. BodyLen(w) \in Int /\ BodyLen(q) \in Int /\ WitnessSetLen(n, s) \in Int
      <4>1. \A x \in Bodies : OutputsLen(x) \in Nat /\ x.nIn * InputLen \in Nat
        BY ProductType, LenAssumption, HeadLenType DEF OutputsLen, Bodies
      <4> QED BY <4>1, <1>2, <1>3, <2>11, HeadLenType, SMTT(30)
              DEF BodyLen, Bodies, WitnessSetLen, WitnessLen
    <3> QED BY <1>3, <2>12, <3>1 DEF TxLen
  <2> QED BY <2>13 DEF w
<1> QED
  <2>1. AuxLen(tx.aux)' = m
    BY <1>5 DEF AuxLen, m
  <2> QED BY <1>5, <1>9, <1>11, <1>12, <2>1 DEF QuotedLenCovers

\* Every step keeps FeeInv.
LEMMA FeeNext == TypeOK /\ SigInv /\ FeeInv /\ [Next]_vars => FeeInv'
<1> SUFFICES ASSUME TypeOK, SigInv, FeeInv, [Next]_vars PROVE FeeInv'
  OBVIOUS
<1>1. body \in Bodies /\ tx \in [ws : 1 .. Len(wsets), aux : 0 .. Len(aux)]
  BY DEF TypeOK
<1>2. tx'.aux = 0 => tx.aux = 0 /\ body'.auxHash = body.auxHash
  <2>1. CASE \E k, c : Settle(k, c)
    <3>1. PICK k, c : Settle(k, c)
      BY <2>1
    <3>2. body'.auxHash = AppendOutput(body, k, c).auxHash /\ tx' = tx
      BY <3>1, <1>1 DEF Settle, WithLast, WithFee, AppendOutput, Bodies
    <3> QED BY <1>1, <3>2 DEF AppendOutput, Bodies
  <2>2. CASE AddInputs \/ AddOutputs \/ SetFee \/ SetTTL
    BY <1>1, <2>2 DEF AddInputs, AddOutputs, SetFee, SetTTL, AppendInput,
                      AppendOutput, WithFee, Bodies
  <2>3. CASE NewAuxiliaryData
    <3>1. tx'.aux # 0
      BY <1>1, <2>3, PointerType DEF NewAuxiliaryData, TypeOK
    <3> QED BY <3>1
  <2>4. CASE Build \/ Bytes \/ SignInPlace
    BY <1>1, <2>4 DEF Build, Bytes, SignInPlace, SigInv, WithAuxHash
  <2>5. CASE AddMetadata \/ MinFee \/ Sign \/ AttachPlaceholders
             \/ AttachScripts \/ UNCHANGED vars
    BY <2>5 DEF AddMetadata, MinFee, Sign, AttachPlaceholders, AttachScripts, vars
  <2> QED BY <2>1, <2>2, <2>3, <2>4, <2>5
          DEF Next, AddChangeIfNeeded, SettleByHand
<1>3. ASSUME quote'.on, body'.bad = 0, AuxOk(tx.aux)'
      PROVE  body'.fee = LinearFee(quote'.len) /\ QuotedLenCovers'
  <2>1. CASE \E k \in Addrs, c \in Uint : Settle(k, c)
    <3>1. PICK k \in Addrs, c \in Uint : Settle(k, c)
      BY <2>1
    <3>2. AuxOk(tx.aux)
      BY <1>3, <3>1 DEF Settle, AuxOk
    <3> QED BY <1>3, <3>1, <3>2, SettleQuote DEF FeeInv
  <2>2. CASE /\ quote' = quote /\ aux' = aux /\ tx'.aux = tx.aux
             /\ \/ body' = body
                \/ \E t \in built \cup {tx} : body' = WithAuxHash(body, t.aux)
    <3>1. AuxOk(tx.aux)
      BY <1>3, <2>2 DEF AuxOk
    <3>2. OnWire' = OnWire
      BY <2>2, <3>1, WireFrame
    <3>3. body'.bad = body.bad /\ body'.fee = body.fee /\ body'.last = body.last
      BY <1>1, <2>2, WithAuxHashFrame
    <3>4. body.fee = LinearFee(quote.len) /\ QuotedLenCovers
      BY <1>3, <2>2, <3>1, <3>3 DEF FeeInv
    <3> QED BY <2>2, <3>2, <3>3, <3>4 DEF QuotedLenCovers, FeeInRange, AuxLen
  <2> QED BY <1>3, <2>1, <2>2, QuoteFrame
<1> QED BY <1>2, <1>3 DEF FeeInv

\* The quoted length bounds the final one, and a smaller length in range has
\* a smaller fee.
LEMMA FeeInvCovers == TypeOK /\ FeeInv => FeeCovers
<1> DEFINE n == Witnesses(wsets[tx.ws])
           s == wsets[tx.ws].scripts
           m == AuxLen(tx.aux)
<1> SUFFICES ASSUME TypeOK, FeeInv, quote.on, body.bad = 0, AuxOk(tx.aux),
                    FeeInRange, n <= quote.wits, s <= quote.scripts,
                    body.last <= quote.change
             PROVE  body.fee >= LinearFee(WireLen)
  BY DEF FeeCovers
<1>1. body.fee = LinearFee(quote.len)
      /\ TxLen(OnWire, quote.wits, quote.scripts, m) <= quote.len
  BY DEF FeeInv, QuotedLenCovers
<1>2. /\ OnWire \in Bodies /\ n \in Nat /\ s \in Nat /\ m \in Nat
      /\ quote.wits \in Nat /\ quote.scripts \in Nat /\ quote.len \in Nat
  <2>1. OnWire \in Bodies
    BY PointerType, WithAuxHashType DEF OnWire, TypeOK
  <2>2. n \in Nat /\ s \in Nat
    BY PointerType DEF Witnesses, WitnessSets
  <2>3. m \in Nat
    BY PointerType, AuxAssumption DEF AuxLen
  <2>4. quote \in Quotes
    BY DEF TypeOK
  <2> QED BY <2>1, <2>2, <2>3, <2>4 DEF Quotes
<1>3. WireLen = TxLen(OnWire, n, s, m)
  BY DEF WireLen
<1> HIDE DEF n, s, m
<1>4. WireLen \in Nat /\ TxLen(OnWire, quote.wits, quote.scripts, m) \in Nat
  BY <1>2, <1>3, TxLenType
<1>5. WireLen <= quote.len
  BY <1>1, <1>2, <1>3, <1>4, TxLenMonotone
<1>6. FeePerByte * WireLen <= FeePerByte * quote.len
  BY <1>2, <1>4, <1>5, ProductMonotone, FeeAssumption
<1>7. FeePerByte * WireLen \in Nat /\ FeePerByte * quote.len \in Nat /\ FeeFixed \in Nat
  BY <1>2, <1>4, ProductType, FeeAssumption
<1>8. FeeFixed + FeePerByte * quote.len < UintMod
  BY <1>7, WordAssumption, HeadAssumption DEF FeeInRange
<1>9. LinearFee(quote.len) = FeeFixed + FeePerByte * quote.len
  BY <1>2, <1>8, SmallFee
<1>10. LinearFee(WireLen) = FeeFixed + FeePerByte * WireLen
  BY <1>4, <1>6, <1>7, <1>8, SmallFee, WordAssumption, HeadAssumption
<1> QED BY <1>1, <1>6, <1>7, <1>9, <1>10

\* A settled transaction pays at least the minimum fee of what is encoded in
\* the end, if it has no more witnesses and scripts than were counted.
THEOREM FeeSufficient == Spec => []FeeCovers
<1>1. Init => FeeInv
  BY DEF Init, FeeInv, NoQuote, NewTxBody
<1> QED BY <1>1, FeeNext, FeeInvCovers, SigInvariant, TypeCorrect, PTL DEF Spec
=============================================================================
