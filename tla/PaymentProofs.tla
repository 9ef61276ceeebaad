--------------------------- MODULE PaymentProofs ---------------------------
(***************************************************************************)
(* Proofs about Payment, for any number of runs, any wallet, any amounts,  *)
(* sizes of pages and words, and both networks.                            *)
(***************************************************************************)
EXTENDS Payment, Induction, SequenceTheorems

AmountOf(w, U, n) == IF n \in U THEN w[n] ELSE 0

\* s[n] is the total of the first n outputs.
Sums(s, w, U) ==
  /\ s \in [Nat -> Nat]
  /\ s[0] = 0
  /\ \A n \in Nat : s[n + 1] = s[n] + AmountOf(w, U, n + 1)

\* Total adds up, output by output.
LEMMA TotalSums ==
  ASSUME NEW w \in Seq(Nat), NEW U \in SUBSET DOMAIN w
  PROVE  \E s : Sums(s, w, U) /\ Total(w, U) = s[Len(w)]
<1> DEFINE amount(n) == AmountOf(w, U, n)
           sum == CHOOSE s : s = [n \in Nat |-> IF n = 0 THEN 0 ELSE s[n - 1] + amount(n)]
<1>1. \A n \in Nat : amount(n) \in Nat
  BY LenProperties DEF AmountOf
<1> HIDE DEF amount
<1>2. PICK step \in Steps(Nat) : \A n, t \in Nat : step[n][t] = t + amount(n)
  <2> DEFINE g == [n \in Nat |-> [t \in Nat |-> t + amount(n)]]
  <2>1. g \in Steps(Nat)
    BY <1>1, SMTT(30) DEF Steps
  <2>2. \A n, t \in Nat : g[n][t] = t + amount(n)
    OBVIOUS
  <2> HIDE DEF g
  <2> QED BY <2>1, <2>2
<1>3. PICK f : Iterates(f, Nat, 0, step)
  BY <1>2, RecursionDefines
<1>4. f \in [Nat -> Nat] /\ f[0] = 0 /\ \A n \in Nat : f[n + 1] = step[n + 1][f[n]]
  BY <1>3 DEF Iterates
<1>5. ASSUME NEW n \in Nat PROVE f[n + 1] = f[n] + amount(n + 1)
  <2>1. n + 1 \in Nat
    OBVIOUS
  <2>2. f[n] \in Nat
    BY <1>4
  <2>3. f[n + 1] = step[n + 1][f[n]]
    BY <1>4
  <2> QED BY <1>2, <2>1, <2>2, <2>3
<1>6. f = [n \in Nat |-> IF n = 0 THEN 0 ELSE f[n - 1] + amount(n)]
  <2>1. \A n \in Nat : n # 0 => f[n] = f[n - 1] + amount(n)
    <3>1. ASSUME NEW n \in Nat, n # 0 PROVE f[n] = f[n - 1] + amount(n)
      <4>1. n - 1 \in Nat /\ (n - 1) + 1 = n
        BY <3>1
      <4> QED BY <4>1, <1>5
    <3> QED BY <3>1
  <2> QED BY <1>4, <2>1
<1>7. sum = [n \in Nat |-> IF n = 0 THEN 0 ELSE sum[n - 1] + amount(n)]
  BY <1>6
<1>8. sum = f
  <2> DEFINE P == {n \in Nat : sum[n] = f[n]}
  <2> HIDE DEF sum
  <2>1. 0 \in P
    BY <1>4, <1>7
  <2>2. ASSUME NEW n \in Nat, n \in P PROVE n + 1 \in P
    <3>1. sum[n + 1] = sum[n] + amount(n + 1)
      BY <1>7
    <3> QED BY <3>1, <2>2, <1>5
  <2>3. Nat \subseteq P
    <3> HIDE DEF P
    <3> QED BY <2>1, <2>2, SetInduction
  <2>4. \A n \in Nat : sum[n] = f[n]
    BY <2>3
  <2>5. sum = [n \in Nat |-> sum[n]]
    BY <1>7
  <2>6. f = [n \in Nat |-> f[n]]
    BY <1>4
  <2> QED BY <2>4, <2>5, <2>6
<1>9. Total(w, U) = sum[Len(w)]
  BY DEF Total, amount, AmountOf
<1>10. Sums(f, w, U)
  BY <1>4, <1>5 DEF Sums, amount
<1> HIDE DEF sum
<1> QED BY <1>8, <1>9, <1>10

\* Two ways to add up that differ in one output.
DifferAt(w, U, v, V, i, L) ==
  /\ i \in U /\ i \notin V
  /\ \A n \in 1 .. L : AmountOf(w, U, n) \in Nat
  /\ \A n \in 1 .. L : n # i => AmountOf(v, V, n) = AmountOf(w, U, n)

LEMMA SumsDiffer ==
  ASSUME NEW w, NEW U, NEW v, NEW V, NEW s, NEW t, Sums(s, w, U), Sums(t, v, V),
         NEW L \in Nat, NEW i \in 1 .. L, DifferAt(w, U, v, V, i, L)
  PROVE  s[L] = t[L] + w[i]
<1> USE DEF DifferAt
<1> DEFINE P == {n \in Nat : n <= L => s[n] = t[n] + (IF i <= n THEN w[i] ELSE 0)}
<1>1. s \in [Nat -> Nat] /\ s[0] = 0 /\ \A n \in Nat : s[n + 1] = s[n] + AmountOf(w, U, n + 1)
  BY DEF Sums
<1>2. t \in [Nat -> Nat] /\ t[0] = 0 /\ \A n \in Nat : t[n + 1] = t[n] + AmountOf(v, V, n + 1)
  BY DEF Sums
<1>3. 0 \in P
  BY <1>1, <1>2
<1>4. ASSUME NEW n \in Nat, n \in P PROVE n + 1 \in P
  <2>1. CASE ~(n + 1 <= L)
    BY <2>1
  <2>2. CASE n + 1 <= L
    <3>1. /\ s[n] \in Nat /\ t[n] \in Nat /\ n + 1 \in 1 .. L
          /\ AmountOf(w, U, n + 1) \in Nat
      BY <1>1, <1>2, <2>2
    <3>2. s[n + 1] = s[n] + AmountOf(w, U, n + 1) /\ t[n + 1] = t[n] + AmountOf(v, V, n + 1)
      BY <1>1, <1>2
    <3>3. s[n] = t[n] + (IF i <= n THEN w[i] ELSE 0)
      BY <1>4, <2>2
    <3>4. CASE n + 1 = i
      <4>1. AmountOf(w, U, n + 1) = w[i] /\ AmountOf(v, V, n + 1) = 0
        BY <3>4 DEF AmountOf
      <4>2. s[n + 1] = t[n + 1] + w[i]
        BY <3>1, <3>2, <3>3, <3>4, <4>1
      <4> QED BY <4>2, <3>4
    <3>5. CASE n + 1 # i
      <4>1. AmountOf(v, V, n + 1) = AmountOf(w, U, n + 1) /\ (i <= n <=> i <= n + 1)
        BY <3>1, <3>5
      <4>2. w[i] \in Nat
        BY DEF AmountOf
      <4>3. CASE i <= n
        BY <3>1, <3>2, <3>3, <4>1, <4>2, <4>3
      <4>4. CASE ~(i <= n)
        BY <3>1, <3>2, <3>3, <4>1, <4>4
      <4> QED BY <4>3, <4>4
    <3> QED BY <3>4, <3>5
  <2> QED BY <2>1, <2>2
<1>5. Nat \subseteq P
  <2> HIDE DEF P
  <2> QED BY <1>3, <1>4, SetInduction
<1> QED BY <1>5

\* One output is spent, one or two others are created.
LEMMA TotalSpent ==
  ASSUME NEW w \in Seq(Nat), NEW U \in SUBSET DOMAIN w, NEW i \in U,
         NEW new \in Seq(Nat), Len(new) \in {1, 2}
  PROVE  /\ Total(w, U) \in Nat /\ w[i] \in Nat
         /\ Total(w, U) >= w[i]
         /\ Total(w \o new, (U \ {i}) \cup (Len(w) + 1 .. Len(w) + Len(new)))
              = (Total(w, U) - w[i]) + (IF Len(new) = 1 THEN new[1] ELSE new[1] + new[2])
<1>1. PICK L : L = Len(w)
  OBVIOUS
<1>2. PICK v : v = w \o new
  OBVIOUS
<1>3. PICK V : V = (U \ {i}) \cup (L + 1 .. L + Len(new))
  OBVIOUS
<1>4. /\ L \in Nat /\ DOMAIN w = 1 .. L /\ i \in 1 .. L
      /\ \A n \in 1 .. L : w[n] \in Nat
      /\ DOMAIN new = 1 .. Len(new)
      /\ \A n \in 1 .. Len(new) : new[n] \in Nat
  BY <1>1, LenProperties
<1>5. /\ v \in Seq(Nat) /\ Len(v) = L + Len(new)
      /\ \A n \in 1 .. L + Len(new) : v[n] = IF n <= L THEN w[n] ELSE new[n - L]
  BY <1>1, <1>2, ConcatProperties
<1>6. V \in SUBSET DOMAIN v
  <2>1. DOMAIN v = 1 .. L + Len(new)
    BY <1>5, LenProperties
  <2> QED BY <1>3, <1>4, <2>1
<1>7. PICK s : Sums(s, w, U) /\ Total(w, U) = s[L]
  BY <1>1, TotalSums
<1>8. PICK t : Sums(t, v, V) /\ Total(v, V) = t[L + Len(new)]
  BY <1>5, <1>6, TotalSums
<1>9. s[L] = t[L] + w[i]
  <2>1. \A n \in 1 .. L : n # i => AmountOf(v, V, n) = AmountOf(w, U, n)
    <3>1. \A n \in 1 .. L : v[n] = w[n]
      BY <1>4, <1>5, SMTT(30)
    <3>2. ASSUME NEW n \in 1 .. L, n # i PROVE n \in V <=> n \in U
      <4>1. ~(n >= L + 1)
        BY <1>4
      <4> QED BY <1>3, <1>4, <3>2, <4>1
    <3> QED BY <3>1, <3>2 DEF AmountOf
  <2>2. \A n \in 1 .. L : AmountOf(w, U, n) \in Nat
    BY <1>4 DEF AmountOf
  <2>3. i \notin V
    BY <1>3, <1>4
  <2>4. DifferAt(w, U, v, V, i, L)
    BY <2>1, <2>2, <2>3 DEF DifferAt
  <2>5. Sums(s, w, U) /\ Sums(t, v, V)
    BY <1>7, <1>8
  <2>6. L \in Nat /\ i \in 1 .. L
    BY <1>4
  <2> QED BY <2>4, <2>5, <2>6, SumsDiffer
<1>10. s[L] \in Nat /\ t[L] \in Nat /\ w[i] \in Nat
  BY <1>4, <1>7, <1>8 DEF Sums
<1>11. Total(w, U) - w[i] = t[L]
  BY <1>7, <1>9, <1>10
<1>12. t[L + 1] = t[L] + new[1]
  <2>1. L + 1 \in V /\ v[L + 1] = new[1]
    <3>1. /\ L + 1 \in L + 1 .. L + Len(new) /\ L + 1 \in 1 .. L + Len(new)
          /\ ~(L + 1 <= L) /\ (L + 1) - L = 1
      BY <1>4
    <3> QED BY <3>1, <1>3, <1>5
  <2>2. t[L + 1] = t[L] + AmountOf(v, V, L + 1)
    BY <1>4, <1>8 DEF Sums
  <2> QED BY <2>1, <2>2 DEF AmountOf
<1>13. CASE Len(new) = 1
  BY <1>1, <1>2, <1>3, <1>7, <1>8, <1>9, <1>10, <1>11, <1>12, <1>13, SMTT(30)
<1>14. CASE Len(new) = 2
  <2>1. L + 2 \in V /\ v[L + 2] = new[2]
    <3>1. L + 2 \in 1 .. L + Len(new) /\ ~(L + 2 <= L) /\ (L + 2) - L = 2
      BY <1>4, <1>14
    <3> QED BY <3>1, <1>3, <1>4, <1>5, <1>14
  <2>2. t[(L + 1) + 1] = t[L + 1] + AmountOf(v, V, (L + 1) + 1)
    BY <1>4, <1>8 DEF Sums
  <2>3. (L + 1) + 1 = L + 2
    BY <1>4
  <2>4. t[L + 2] = t[L + 1] + new[2]
    BY <2>1, <2>2, <2>3 DEF AmountOf
  <2>5. new[1] \in Nat /\ new[2] \in Nat
    BY <1>4, <1>14
  <2>6. t[L + 2] = t[L] + (new[1] + new[2])
    BY <1>10, <1>12, <2>4, <2>5, SMTT(30)
  <2> QED BY <1>1, <1>2, <1>3, <1>7, <1>8, <1>9, <1>10, <1>11, <1>14, <2>6
<1> QED BY <1>13, <1>14
(***************************************************************************)
(* Types.                                                                  *)
(***************************************************************************)
Word == 0 .. UintMod - 1

LEMMA Words ==
  /\ UintMod \in Nat \ {0} /\ SlotMod \in Nat \ {0}
  /\ \A n \in Int : n % UintMod \in Word
  /\ \A n \in Int : n % SlotMod \in 0 .. SlotMod - 1
<1>1. UintMod \in Nat \ {0} /\ SlotMod \in Nat \ {0}
  BY AmountAssumption, BoundAssumption
<1> QED BY <1>1 DEF Word

LEMMA Wallets ==
  ASSUME TypeOK
  PROVE  /\ Len(worth) \in Nat /\ DOMAIN worth = 1 .. Len(worth)
         /\ \A u \in 1 .. Len(worth) : worth[u] \in Word /\ worth[u] \in Nat
         /\ unspent \subseteq 1 .. Len(worth)
<1>1. worth \in Seq(Word) /\ unspent \subseteq DOMAIN worth
  BY DEF TypeOK, Word
<1>2. /\ Len(worth) \in Nat /\ DOMAIN worth = 1 .. Len(worth)
      /\ \A u \in 1 .. Len(worth) : worth[u] \in Word
  BY <1>1, LenProperties
<1>3. \A u \in Word : u \in Nat
  BY Words DEF Word
<1> QED BY <1>1, <1>2, <1>3

\* What the loop over the listed outputs leaves is none or one that is enough.
LEMMA LastMatchIsEnough ==
  ASSUME TypeOK
  PROVE  /\ LastMatch(Listed) \in 0 .. Len(worth)
         /\ LastMatch(Listed) # 0 => worth[LastMatch(Listed)] >= SendAmount + Margin
<1> DEFINE matches == {u \in Listed : Enough(u)}
<1>1. matches \subseteq 1 .. Len(worth)
  BY Wallets DEF Listed
<1>2. CASE matches = {}
  BY <1>2, Wallets DEF LastMatch
<1>3. CASE matches # {}
  <2>1. \E n \in matches : \A m \in matches : m <= n
    <3>1. PICK L \in Nat : matches \subseteq 1 .. L
      BY <1>1, Wallets
    <3>2. matches \subseteq Int /\ L \in Int
      BY <3>1
    <3>3. \A n \in matches : n <= L
      BY <3>1
    <3> HIDE DEF matches
    <3> QED BY <1>3, <3>2, <3>3, GreatestInteger, Zenon
  <2>2. Max(matches) \in matches
    <3>1. PICK n \in matches : \A m \in matches : m <= n
      BY <2>1
    <3>2. \A m \in matches : n >= m
      BY <3>1, <1>1, Wallets
    <3> HIDE DEF matches
    <3> QED BY <3>2 DEF Max
  <2>3. LastMatch(Listed) = Max(matches)
    BY <1>3 DEF LastMatch
  <2>4. Enough(Max(matches))
    BY <2>2
  <2> QED BY <1>1, <2>2, <2>3, <2>4, Wallets DEF Enough
<1> QED BY <1>2, <1>3

LEMMA BuiltTypes ==
  ASSUME TypeOK, NEW r \in Runs
  PROVE  Built(r) \in Txs
<1> DEFINE amount == IF input[r] = 0 THEN 0 ELSE worth[input[r]]
<1>1. input[r] \in 0 .. Len(worth) /\ to[r] \in {"self", "other"}
  BY DEF TypeOK
<1>2. amount \in Nat
  BY <1>1, Wallets
<1>3. SendAmount \in Nat /\ Fee \in Nat /\ TtlSpan \in Nat /\ slot \in Nat
  BY AmountAssumption, BoundAssumption DEF TypeOK
<1>4. ChangeOf(amount) \in Word
  <2>1. (amount - SendAmount) - Fee \in Int
    BY <1>2, <1>3
  <2> HIDE DEF amount
  <2> QED BY <2>1, Words DEF ChangeOf
<1>5. (slot + TtlSpan) % SlotMod \in 0 .. SlotMod - 1
  BY <1>3, Words
<1> QED BY <1>1, <1>3, <1>4, <1>5 DEF Built, Txs, Word

\* The outputs of a transaction that balances are words.
LEMMA CreatedTypes ==
  ASSUME TypeOK, NEW t \in Txs, NEW server, Valid(t, server)
  PROVE  /\ t.in \in unspent /\ t.in \in 1 .. Len(worth)
         /\ t.send \in Word /\ t.change \in Word
         /\ Created(t) \in Seq(Word) /\ Created(t) \in Seq(Nat)
         /\ Len(Created(t)) \in {1, 2}
         /\ t.to = "self" => Len(Created(t)) = 2 /\ Created(t)[1] = t.send /\ Created(t)[2] = t.change
         /\ t.to # "self" => Len(Created(t)) = 1 /\ Created(t)[1] = t.change
<1>1. t.in \in unspent /\ worth[t.in] = t.send + t.change + t.fee
  BY DEF Valid
<1>2. t.send \in Nat /\ t.change \in Word /\ t.fee \in Nat /\ t.change \in Nat
  BY Words DEF Txs, Word
<1>3. t.in \in 1 .. Len(worth) /\ worth[t.in] \in Word
  BY <1>1, Wallets
<1>4. t.send \in Word
  <2>1. \A a, s, c, f \in Nat : a = (s + c) + f => s <= a
    OBVIOUS
  <2>2. worth[t.in] \in Nat /\ worth[t.in] <= UintMod - 1 /\ UintMod \in Nat
    BY <1>3, Words DEF Word
  <2>3. t.send <= worth[t.in]
    BY <1>1, <1>2, <2>1, <2>2
  <2> QED BY <1>2, <2>2, <2>3 DEF Word
<1>5. CASE t.to = "self"
  <2>1. Created(t) = <<t.send, t.change>>
    BY <1>5 DEF Created
  <2> QED BY <1>1, <1>2, <1>3, <1>4, <1>5, <2>1
<1>6. CASE t.to # "self"
  <2>1. Created(t) = <<t.change>>
    BY <1>6 DEF Created
  <2> QED BY <1>1, <1>2, <1>3, <1>4, <1>6, <2>1
<1> QED BY <1>5, <1>6

\* Taking a transaction keeps what is there but for its input.
LEMMA TakeKeeps ==
  ASSUME TypeOK, NEW t \in Txs, NEW server, Valid(t, server), Take(t)
  PROVE  /\ worth' \in Seq(Word) /\ Len(worth') = Len(worth) + Len(Created(t))
         /\ \A u \in 1 .. Len(worth) : worth'[u] = worth[u]
         /\ unspent' \subseteq DOMAIN worth'
         /\ \A u \in 1 .. Len(worth) : u \in unspent' => u \in unspent /\ u # t.in
         /\ paid' \in Nat /\ accepted' \subseteq Txs
<1>1. /\ worth' = worth \o Created(t)
      /\ unspent' = (unspent \ {t.in}) \cup (Len(worth) + 1 .. Len(worth) + Len(Created(t)))
      /\ paid' = paid + (IF t.to = "self" THEN 0 ELSE t.send)
      /\ accepted' = accepted \cup {t}
  BY DEF Take
<1>2. worth \in Seq(Word) /\ paid \in Nat /\ accepted \subseteq Txs
  BY DEF TypeOK, Word
<1>3. Created(t) \in Seq(Word) /\ Len(Created(t)) \in {1, 2} /\ t.send \in Nat
  BY CreatedTypes DEF Word
<1>4. /\ worth' \in Seq(Word) /\ Len(worth') = Len(worth) + Len(Created(t))
      /\ \A u \in 1 .. Len(worth) + Len(Created(t)) :
           worth'[u] = IF u <= Len(worth) THEN worth[u] ELSE Created(t)[u - Len(worth)]
  BY <1>1, <1>2, <1>3, ConcatProperties
<1>5. DOMAIN worth' = 1 .. Len(worth) + Len(Created(t))
  BY <1>4, LenProperties
<1>6. \A u \in 1 .. Len(worth) : worth'[u] = worth[u]
  BY <1>3, <1>4, Wallets
<1>7. unspent' \subseteq DOMAIN worth'
  BY <1>1, <1>3, <1>5, Wallets
<1>8. ASSUME NEW u \in 1 .. Len(worth), u \in unspent' PROVE u \in unspent /\ u # t.in
  <2>1. ~(u >= Len(worth) + 1) /\ t.in \in 1 .. Len(worth)
    BY Wallets, CreatedTypes
  <2> QED BY <1>1, <1>8, <2>1, Wallets
<1>9. paid' \in Nat
  BY <1>1, <1>2, <1>3
<1> QED BY <1>1, <1>2, <1>4, <1>6, <1>7, <1>8, <1>9

LEMMA TypeInit == Init => TypeOK
<1>1. Genesis \in Seq(0 .. UintMod - 1)
  BY GenesisAssumption
<1>2. NoTx \in Txs
  BY Words DEF NoTx, Txs
<1> QED BY <1>1, <1>2, BoundAssumption, LenProperties DEF Init, TypeOK

LEMMA TypeStep == TypeOK /\ [Next]_vars => TypeOK'
<1> SUFFICES ASSUME TypeOK, [Next]_vars PROVE TypeOK'
  OBVIOUS
<1> USE DEF TypeOK, ledger
<1>1. ASSUME NEW r \in Runs, ListAndPick(r) PROVE TypeOK'
  BY <1>1, LastMatchIsEnough DEF ListAndPick
<1>2. ASSUME NEW r \in Runs, TipAndBuild(r) PROVE TypeOK'
  <2>1. Built(r) \in Txs
    BY BuiltTypes
  <2> QED BY <1>2, <2>1 DEF TipAndBuild
<1>3. ASSUME NEW r \in Runs, Submit(r) PROVE TypeOK'
  BY <1>3 DEF Submit, SubmitServer
<1>4. ASSUME NEW r \in Runs, Answered(r) PROVE TypeOK'
  BY <1>4 DEF Answered
<1>5. ASSUME NEW r \in Runs, QueryFails(r) PROVE TypeOK'
  BY <1>5 DEF QueryFails
<1>6. ASSUME NEW r \in Runs, Rerun(r) PROVE TypeOK'
  BY <1>6, BoundAssumption DEF Rerun
<1>7. ASSUME NEW r \in Runs, Disconnect(r) PROVE TypeOK'
  BY <1>7 DEF Disconnect
<1>8. ASSUME NEW q \in inflight, Lose(q) PROVE TypeOK'
  BY <1>8 DEF Lose
<1>9. ASSUME NEW q \in inflight, NEW a \in BOOLEAN, Decide(q, a) PROVE TypeOK'
  <2>1. q.run \in Runs /\ q.tx \in Txs
    OBVIOUS
  <2>2. /\ inflight' \subseteq inflight
        /\ reply' \in [Runs -> {"none", "ok", "error"}]
        /\ UNCHANGED <<slot, pc, tries, to, input, txFinal>>
    BY <1>9, <2>1 DEF Decide
  <2>3. CASE Valid(q.tx, q.server)
    <3>1. Take(q.tx)
      BY <1>9, <2>3 DEF Decide
    <3>2. /\ worth' \in Seq(Word) /\ Len(worth') = Len(worth) + Len(Created(q.tx))
          /\ unspent' \subseteq DOMAIN worth' /\ paid' \in Nat /\ accepted' \subseteq Txs
      BY <2>1, <2>3, <3>1, TakeKeeps
    <3>3. Len(Created(q.tx)) \in Nat
      BY <2>1, <2>3, CreatedTypes
    <3>4. input' \in [Runs -> 0 .. Len(worth')]
      BY <2>2, <3>2, <3>3, Wallets
    <3> QED BY <2>2, <3>2, <3>4 DEF Word
  <2>4. CASE ~Valid(q.tx, q.server)
    BY <1>9, <2>2, <2>4 DEF Decide
  <2> QED BY <2>3, <2>4
<1>10. CASE Tick
  BY <1>10, BoundAssumption DEF Tick
<1>11. CASE UNCHANGED vars
  BY <1>11 DEF vars
<1> QED
  BY <1>1, <1>2, <1>3, <1>4, <1>5, <1>6, <1>7, <1>8, <1>9, <1>10, <1>11 DEF Next, Step

\* Every variable keeps its type: amounts and change are machine words, the
\* unspent outputs are some of the wallet's, and an input is one of them or none.
THEOREM TypeCorrect == Spec => []TypeOK
  BY TypeInit, TypeStep, PTL DEF Spec

\* The ledger's outputs hold words, and what was accepted has spent its input.
SpentInv ==
  /\ IsFiniteSet(accepted)
  /\ \A t \in accepted : t.in \in DOMAIN worth \ unspent

\* An input that matched holds enough, and what is built of it balances.
BuiltInv ==
  \A r \in Runs :
    /\ pc[r] \in {"tip", "submit", "wait"} /\ input[r] # 0
         => worth[input[r]] >= SendAmount + Margin
    /\ pc[r] \in {"submit", "wait"} => txFinal[r].send = SendAmount /\ txFinal[r].fee = Fee
    /\ pc[r] \in {"submit", "wait"} /\ input[r] # 0
         => /\ txFinal[r].in = input[r]
            /\ txFinal[r].change = worth[input[r]] - SendAmount - Fee

\* A request of the current try of a run has the transaction of the run.
RequestInv ==
  \A q \in inflight :
    /\ q.tx.send = SendAmount /\ q.tx.fee = Fee
    /\ q.try <= tries[q.run]
    /\ q.try = tries[q.run] => pc[q.run] \in {"wait", "done", "fatal"} /\ q.tx = txFinal[q.run]

\* The runs that have been told, or have reported, that they were successful.
Credited(r) == pc[r] = "done" \/ (pc[r] = "wait" /\ reply[r] = "ok")

\* Each of them has an accepted transaction of its own.
ReceiptInv ==
  \A r \in Runs : Credited(r) =>
    /\ txFinal[r] \in accepted
    /\ \A s \in Runs \ {r} : Credited(s) => txFinal[s] # txFinal[r]

IInv == TypeOK /\ SpentInv /\ BuiltInv /\ RequestInv /\ ReceiptInv

LEMMA InvInit == Init => IInv
<1> SUFFICES ASSUME Init PROVE IInv
  OBVIOUS
<1>1. TypeOK
  BY TypeInit
<1>2. SpentInv
  BY FS_EmptySet DEF Init, SpentInv
<1>3. BuiltInv /\ RequestInv /\ ReceiptInv
  BY DEF Init, BuiltInv, RequestInv, ReceiptInv, Credited
<1> QED BY <1>1, <1>2, <1>3 DEF IInv

\* The change of an input that matched does not wrap around.
LEMMA ChangeOfEnough ==
  ASSUME NEW amount \in Word, amount >= SendAmount + Margin
  PROVE  ChangeOf(amount) = amount - SendAmount - Fee
<1>1. PICK c : c = amount - SendAmount - Fee
  OBVIOUS
<1>2. amount \in Nat /\ amount < UintMod /\ UintMod \in Nat \ {0}
  BY Words DEF Word
<1>3. c \in 0 .. UintMod - 1
  BY <1>1, <1>2, AmountAssumption
<1>4. c % UintMod = c
  BY <1>2, <1>3
<1> QED BY <1>1, <1>4 DEF ChangeOf

LEMMA InvStep == IInv /\ [Next]_vars => IInv'
<1> SUFFICES ASSUME IInv, [Next]_vars PROVE IInv'
  OBVIOUS
<1>t. TypeOK /\ TypeOK'
  BY TypeStep DEF IInv
<1>i. SpentInv /\ BuiltInv /\ RequestInv /\ ReceiptInv
  BY DEF IInv
<1>r. /\ pc \in [Runs -> {"query", "tip", "submit", "wait", "done", "fatal"}]
      /\ tries \in [Runs -> 0 .. MaxReruns]
      /\ input \in [Runs -> 0 .. Len(worth)]
      /\ txFinal \in [Runs -> Txs]
      /\ reply \in [Runs -> {"none", "ok", "error"}]
      /\ \A q \in inflight : q.run \in Runs /\ q.tx \in Txs /\ q.try \in 0 .. MaxReruns
  BY <1>t DEF TypeOK
<1> SUFFICES SpentInv' /\ BuiltInv' /\ RequestInv' /\ ReceiptInv'
  BY <1>t DEF IInv
<1>1. ASSUME NEW r \in Runs, ListAndPick(r)
      PROVE  SpentInv' /\ BuiltInv' /\ RequestInv' /\ ReceiptInv'
  <2>1. /\ pc[r] = "query" /\ pc' = [pc EXCEPT ![r] = "tip"]
        /\ input' = [input EXCEPT ![r] = LastMatch(Listed)]
        /\ UNCHANGED <<worth, unspent, accepted, inflight, tries, txFinal, reply>>
    BY <1>1 DEF ListAndPick, ledger
  <2>2. SpentInv'
    BY <1>i, <2>1 DEF SpentInv
  <2>3. BuiltInv'
    BY <1>t, <1>i, <1>r, <2>1, LastMatchIsEnough DEF BuiltInv
  <2>4. RequestInv'
    BY <1>i, <1>r, <2>1 DEF RequestInv
  <2>5. ReceiptInv'
    BY <1>i, <1>r, <2>1 DEF ReceiptInv, Credited
  <2> QED BY <2>2, <2>3, <2>4, <2>5
<1>2. ASSUME NEW r \in Runs, TipAndBuild(r)
      PROVE  SpentInv' /\ BuiltInv' /\ RequestInv' /\ ReceiptInv'
  <2>1. /\ pc[r] = "tip" /\ pc' = [pc EXCEPT ![r] = "submit"]
        /\ txFinal' = [txFinal EXCEPT ![r] = Built(r)]
        /\ UNCHANGED <<worth, unspent, accepted, inflight, tries, input, reply>>
    BY <1>2 DEF TipAndBuild, ledger
  <2>2. SpentInv'
    BY <1>i, <2>1 DEF SpentInv
  <2>3. BuiltInv'
    <3>1. Built(r).send = SendAmount /\ Built(r).fee = Fee /\ Built(r).in = input[r]
      BY DEF Built
    <3>2. input[r] # 0 => Built(r).change = worth[input[r]] - SendAmount - Fee
      <4>1. SUFFICES ASSUME input[r] # 0
                     PROVE  Built(r).change = worth[input[r]] - SendAmount - Fee
        OBVIOUS
      <4>2. input[r] \in 1 .. Len(worth)
        BY <1>t, <1>r, <4>1, Wallets
      <4>3. worth[input[r]] \in Word /\ worth[input[r]] >= SendAmount + Margin
        BY <1>t, <1>i, <2>1, <4>1, <4>2, Wallets DEF BuiltInv
      <4>4. Built(r).change = ChangeOf(worth[input[r]])
        BY <4>1 DEF Built
      <4> QED BY <4>3, <4>4, ChangeOfEnough
    <3>3. txFinal'[r] = Built(r) /\ pc'[r] = "submit"
      BY <1>r, <2>1
    <3>4. \A s \in Runs : s # r => txFinal'[s] = txFinal[s] /\ pc'[s] = pc[s]
      BY <1>r, <2>1
    <3> QED BY <1>i, <2>1, <3>1, <3>2, <3>3, <3>4 DEF BuiltInv
  <2>4. RequestInv'
    BY <1>i, <1>r, <2>1 DEF RequestInv
  <2>5. ReceiptInv'
    BY <1>i, <1>r, <2>1 DEF ReceiptInv, Credited
  <2> QED BY <2>2, <2>3, <2>4, <2>5
<1>3. ASSUME NEW r \in Runs, Submit(r)
      PROVE  SpentInv' /\ BuiltInv' /\ RequestInv' /\ ReceiptInv'
  <2> DEFINE q == [run |-> r, try |-> tries[r], tx |-> txFinal[r], server |-> SubmitServer]
  <2>1. /\ pc[r] = "submit" /\ pc' = [pc EXCEPT ![r] = "wait"]
        /\ inflight' = inflight \cup {q}
        /\ reply' = [reply EXCEPT ![r] = "none"]
        /\ UNCHANGED <<worth, unspent, accepted, tries, input, txFinal>>
    BY <1>3 DEF Submit, ledger
  <2>2. SpentInv'
    BY <1>i, <2>1 DEF SpentInv
  <2>3. BuiltInv'
    BY <1>i, <1>r, <2>1 DEF BuiltInv
  <2>4. RequestInv'
    <3>1. q.run = r /\ q.try = tries[r] /\ q.tx = txFinal[r]
      OBVIOUS
    <3>2. txFinal[r].send = SendAmount /\ txFinal[r].fee = Fee
      BY <1>i, <2>1 DEF BuiltInv
    <3>3. tries[r] <= tries[r]
      BY <1>r, BoundAssumption
    <3>4. pc'[r] = "wait" /\ \A s \in Runs : s # r => pc'[s] = pc[s]
      BY <1>r, <2>1
    <3> HIDE DEF q
    <3> QED BY <1>i, <1>r, <2>1, <3>1, <3>2, <3>3, <3>4 DEF RequestInv
  <2>5. ReceiptInv'
    BY <1>i, <1>r, <2>1 DEF ReceiptInv, Credited
  <2> QED BY <2>2, <2>3, <2>4, <2>5
<1>4. ASSUME NEW r \in Runs, Answered(r)
      PROVE  SpentInv' /\ BuiltInv' /\ RequestInv' /\ ReceiptInv'
  <2>1. /\ pc[r] = "wait" /\ pc' = [pc EXCEPT ![r] = IF reply[r] = "ok" THEN "done" ELSE "fatal"]
        /\ UNCHANGED <<worth, unspent, accepted, inflight, tries, input, txFinal, reply>>
    BY <1>4 DEF Answered, ledger
  <2>2. SpentInv' /\ BuiltInv' /\ RequestInv'
    BY <1>i, <1>r, <2>1 DEF SpentInv, BuiltInv, RequestInv
  <2>3. \A s \in Runs : Credited(s)' <=> Credited(s)
    BY <1>r, <2>1 DEF Credited
  <2>4. ReceiptInv'
    BY <1>i, <2>1, <2>3 DEF ReceiptInv
  <2> QED BY <2>2, <2>4
<1>5. ASSUME NEW r \in Runs, QueryFails(r)
      PROVE  SpentInv' /\ BuiltInv' /\ RequestInv' /\ ReceiptInv'
  <2>1. /\ pc[r] \in {"query", "tip", "submit"} /\ pc' = [pc EXCEPT ![r] = "fatal"]
        /\ UNCHANGED <<worth, unspent, accepted, inflight, tries, input, txFinal, reply>>
    BY <1>5 DEF QueryFails, ledger
  <2> QED BY <1>i, <1>r, <2>1 DEF SpentInv, BuiltInv, RequestInv, ReceiptInv, Credited
<1>6. ASSUME NEW r \in Runs, Rerun(r)
      PROVE  SpentInv' /\ BuiltInv' /\ RequestInv' /\ ReceiptInv'
  <2>1. /\ pc[r] = "fatal" /\ pc' = [pc EXCEPT ![r] = "query"]
        /\ tries' = [tries EXCEPT ![r] = tries[r] + 1]
        /\ UNCHANGED <<worth, unspent, accepted, inflight, input, txFinal, reply>>
    BY <1>6 DEF Rerun, ledger
  <2>2. SpentInv' /\ BuiltInv'
    BY <1>i, <1>r, <2>1 DEF SpentInv, BuiltInv
  <2>3. RequestInv'
    <3>1. \A s \in Runs : s # r => pc'[s] = pc[s] /\ tries'[s] = tries[s]
      BY <1>r, <2>1
    <3>2. tries'[r] = tries[r] + 1 /\ tries[r] \in Nat
      BY <1>r, <2>1
    <3>3. ASSUME NEW q \in inflight, q.run = r PROVE q.try <= tries'[r] /\ q.try # tries'[r]
      <4>1. q.try <= tries[r] /\ q.try \in Nat
        BY <1>i, <1>r, <3>3 DEF RequestInv
      <4> QED BY <3>2, <4>1
    <3> QED BY <1>i, <1>r, <2>1, <3>1, <3>3 DEF RequestInv
  <2>4. ReceiptInv'
    BY <1>i, <1>r, <2>1 DEF ReceiptInv, Credited
  <2> QED BY <2>2, <2>3, <2>4
<1>7. ASSUME NEW r \in Runs, Disconnect(r)
      PROVE  SpentInv' /\ BuiltInv' /\ RequestInv' /\ ReceiptInv'
  <2>1. /\ pc[r] = "wait" /\ reply[r] = "none" /\ reply' = [reply EXCEPT ![r] = "error"]
        /\ UNCHANGED <<worth, unspent, accepted, inflight, pc, tries, input, txFinal>>
    BY <1>7 DEF Disconnect, ledger
  <2> QED BY <1>i, <1>r, <2>1 DEF SpentInv, BuiltInv, RequestInv, ReceiptInv, Credited
<1>8. ASSUME NEW q \in inflight, Lose(q)
      PROVE  SpentInv' /\ BuiltInv' /\ RequestInv' /\ ReceiptInv'
  BY <1>8, <1>i DEF Lose, ledger, SpentInv, BuiltInv, RequestInv, ReceiptInv, Credited
<1>9. ASSUME NEW q \in inflight, NEW a \in BOOLEAN, Decide(q, a)
      PROVE  SpentInv' /\ BuiltInv' /\ RequestInv' /\ ReceiptInv'
  <2>1. /\ inflight' = inflight \ {q}
        /\ Valid(q.tx, q.server) => Take(q.tx)
        /\ ~Valid(q.tx, q.server) => UNCHANGED <<worth, unspent, paid, accepted>>
        /\ UNCHANGED <<slot, pc, tries, to, input, txFinal>>
    BY <1>9 DEF Decide
  <2>2. \A r \in Runs : reply'[r] = "ok" /\ reply[r] # "ok" =>
          /\ r = q.run /\ Valid(q.tx, q.server)
          /\ pc[r] = "wait" /\ tries[r] = q.try
    BY <1>9, <1>r DEF Decide
  <2>3. RequestInv'
    BY <1>i, <2>1 DEF RequestInv
  <2>4. CASE ~Valid(q.tx, q.server)
    <3>1. SpentInv' /\ BuiltInv'
      BY <1>i, <2>1, <2>4 DEF SpentInv, BuiltInv
    <3>2. \A s \in Runs : Credited(s)' => Credited(s)
      BY <1>r, <2>1, <2>2, <2>4 DEF Credited
    <3>3. ReceiptInv'
      BY <1>i, <2>1, <2>4, <3>2 DEF ReceiptInv
    <3> QED BY <2>3, <3>1, <3>3
  <2>5. CASE Valid(q.tx, q.server)
    <3>1. Take(q.tx) /\ q.tx \in Txs /\ q.run \in Runs
      BY <1>r, <2>1, <2>5
    <3>2. /\ Len(worth') = Len(worth) + Len(Created(q.tx))
          /\ \A u \in 1 .. Len(worth) : worth'[u] = worth[u]
          /\ \A u \in 1 .. Len(worth) : u \in unspent' => u \in unspent /\ u # q.tx.in
          /\ worth' \in Seq(Word)
      BY <1>t, <2>5, <3>1, TakeKeeps
    <3>3. q.tx.in \in unspent /\ q.tx.in \in 1 .. Len(worth) /\ Len(Created(q.tx)) \in {1, 2}
      BY <1>t, <2>5, <3>1, CreatedTypes
    <3>4. accepted' = accepted \cup {q.tx}
      BY <3>1 DEF Take
    <3>5. Len(worth) \in Nat /\ DOMAIN worth = 1 .. Len(worth)
      BY <1>t, Wallets
    <3>6. DOMAIN worth' = 1 .. Len(worth) + Len(Created(q.tx))
      BY <3>2, LenProperties
    <3>7. SpentInv'
      <4>1. IsFiniteSet(accepted')
        BY <1>i, <3>4, FS_AddElement DEF SpentInv
      <4>2. ASSUME NEW t \in accepted' PROVE t.in \in DOMAIN worth' /\ t.in \notin unspent'
        <5>1. t.in \in 1 .. Len(worth) /\ (t.in \notin unspent \/ t.in = q.tx.in)
          BY <1>i, <3>3, <3>4, <3>5 DEF SpentInv
        <5> QED BY <3>2, <3>3, <3>5, <3>6, <5>1
      <4> QED BY <4>1, <4>2 DEF SpentInv
    <3>8. BuiltInv'
      <4>1. \A r \in Runs : input[r] # 0 => worth'[input[r]] = worth[input[r]]
        BY <1>r, <3>2, <3>5
      <4> QED BY <1>i, <2>1, <4>1 DEF BuiltInv
    <3>9. ReceiptInv'
      <4>1. \A s \in Runs : Credited(s)' => Credited(s) \/ (s = q.run /\ txFinal[s] = q.tx)
        BY <1>i, <1>r, <2>1, <2>2 DEF Credited, RequestInv
      <4>2. \A s \in Runs : Credited(s) => txFinal[s] \in accepted /\ txFinal[s] # q.tx
        BY <1>i, <3>3 DEF ReceiptInv, SpentInv
      <4> QED BY <1>i, <2>1, <3>4, <4>1, <4>2 DEF ReceiptInv
    <3> QED BY <2>3, <3>7, <3>8, <3>9
  <2> QED BY <2>4, <2>5
<1>10. CASE Tick
  BY <1>10, <1>i DEF Tick, SpentInv, BuiltInv, RequestInv, ReceiptInv, Credited
<1>11. CASE UNCHANGED vars
  BY <1>11, <1>i DEF vars, SpentInv, BuiltInv, RequestInv, ReceiptInv, Credited
<1> QED
  BY <1>1, <1>2, <1>3, <1>4, <1>5, <1>6, <1>7, <1>8, <1>9, <1>10, <1>11 DEF Next, Step

LEMMA Invariant == Spec => []IInv
  BY InvInit, InvStep, PTL DEF Spec

\* What a run that found an input has built is rejected only if another run has
\* spent the input or the time to live has passed, never for its amounts.
THEOREM RejectedOnlyIfStale == Spec => []OnlyStaleRejected
<1>1. IInv => OnlyStaleRejected
  <2> SUFFICES ASSUME IInv, NEW r \in Runs, pc[r] \in {"submit", "wait"}, input[r] # 0,
                      input[r] \in unspent, ~(slot > txFinal[r].ttl)
               PROVE  Valid(txFinal[r], QueryServer)
    BY DEF OnlyStaleRejected
  <2>1. TypeOK /\ BuiltInv
    BY DEF IInv
  <2>2. /\ worth[input[r]] >= SendAmount + Margin
        /\ txFinal[r].send = SendAmount /\ txFinal[r].fee = Fee
        /\ txFinal[r].in = input[r]
        /\ txFinal[r].change = worth[input[r]] - SendAmount - Fee
    BY <2>1 DEF BuiltInv
  <2>3. worth[input[r]] \in Nat
    BY <2>1, Wallets
  <2>4. slot \in Nat /\ txFinal[r].ttl \in Nat
    BY <2>1, Words DEF TypeOK, Txs
  <2>5. SendAmount \in Nat /\ Fee \in Nat /\ MinUtxo \in Nat /\ Margin \in Nat
    BY AmountAssumption
  <2>6. slot <= txFinal[r].ttl
    BY <2>4
  <2>7. SendAmount >= MinUtxo /\ worth[input[r]] - SendAmount - Fee >= MinUtxo
    BY <2>2, <2>3, <2>5, AmountAssumption
  <2>8. worth[input[r]] = (SendAmount + (worth[input[r]] - SendAmount - Fee)) + Fee
    BY <2>3, <2>5
  <2> QED BY <2>2, <2>6, <2>7, <2>8 DEF Valid
<1> QED BY <1>1, Invariant, PTL

(***************************************************************************)
(* The runs and the ledger together are the wallet of module Wallet.       *)
(***************************************************************************)
Done == {r \in Runs : pc[r] = "done"}

\* A payment has the amounts of the program, and was not taken before.
LEMMA PaymentTaken ==
  ASSUME IInv, NEW q \in inflight, Valid(q.tx, q.server), Take(q.tx), UNCHANGED pc
  PROVE  W!Pay \/ W!PaySelf
<1> DEFINE t == q.tx
<1>1. TypeOK /\ SpentInv /\ RequestInv
  BY DEF IInv
<1>2. t \in Txs /\ t.send = SendAmount /\ t.fee = Fee
  BY <1>1 DEF TypeOK, RequestInv
<1>3. Valid(t, q.server) /\ Take(t)
  OBVIOUS
<1> HIDE DEF t
<1>4. /\ t.in \in unspent
      /\ worth[t.in] = (SendAmount + t.change) + Fee
  BY <1>2, <1>3 DEF Valid
<1>5. /\ Created(t) \in Seq(Nat) /\ Len(Created(t)) \in {1, 2}
      /\ t.to = "self" => Len(Created(t)) = 2 /\ Created(t)[1] = SendAmount /\ Created(t)[2] = t.change
      /\ t.to # "self" => Len(Created(t)) = 1 /\ Created(t)[1] = t.change
  BY <1>1, <1>2, <1>3, CreatedTypes
<1>6. worth \in Seq(Nat) /\ unspent \in SUBSET DOMAIN worth
  <2>1. Len(worth) \in Nat /\ DOMAIN worth = 1 .. Len(worth) /\ \A u \in 1 .. Len(worth) : worth[u] \in Nat
    BY <1>1, Wallets
  <2>2. worth = [u \in 1 .. Len(worth) |-> worth[u]]
    BY <1>1, <2>1, LenProperties DEF TypeOK
  <2>3. worth \in [1 .. Len(worth) -> Nat]
    BY <2>1, <2>2
  <2>4. worth \in Seq(Nat)
    BY <2>1, <2>3, SeqDef
  <2> QED BY <1>1, <2>4 DEF TypeOK
<1>7. PICK h : h = Total(worth, unspent)
  OBVIOUS
<1>8. /\ h \in Nat /\ worth[t.in] \in Nat /\ h >= worth[t.in]
      /\ Total(worth', unspent') = (h - worth[t.in])
           + (IF Len(Created(t)) = 1 THEN Created(t)[1] ELSE Created(t)[1] + Created(t)[2])
  <2>1. /\ worth' = worth \o Created(t)
        /\ unspent' = (unspent \ {t.in}) \cup (Len(worth) + 1 .. Len(worth) + Len(Created(t)))
    BY <1>3 DEF Take
  <2> QED BY <1>4, <1>5, <1>6, <1>7, <2>1, TotalSpent
<1>9. Cardinality(accepted') = Cardinality(accepted) + 1
  <2>1. accepted' = accepted \cup {t}
    BY <1>3 DEF Take
  <2>2. t \notin accepted /\ IsFiniteSet(accepted)
    BY <1>1, <1>4 DEF SpentInv
  <2> QED BY <2>1, <2>2, FS_AddElement
<1>10. SendAmount \in Nat /\ Fee \in Nat /\ t.change \in Nat
  BY <1>2, AmountAssumption DEF Txs
<1>11. Holdings = h /\ Holdings' = Total(worth', unspent')
  BY <1>7 DEF Holdings
<1>12. CASE t.to = "self"
  <2>1. paid' = paid
    <3>1. paid' = paid + 0
      BY <1>3, <1>12 DEF Take
    <3> QED BY <1>1, <3>1 DEF TypeOK
  <2>2. Total(worth', unspent') = (h - worth[t.in]) + (SendAmount + t.change)
    <3>1. Len(Created(t)) = 2 /\ Created(t)[1] = SendAmount /\ Created(t)[2] = t.change
      BY <1>5, <1>12
    <3>2. Total(worth', unspent') = (h - worth[t.in]) + (Created(t)[1] + Created(t)[2])
      BY <1>8, <3>1
    <3> QED BY <3>1, <3>2
  <2>3. h >= Fee /\ Total(worth', unspent') = h - Fee
    BY <1>4, <1>8, <1>10, <2>2
  <2> QED BY <1>9, <1>11, <2>1, <2>3 DEF W!PaySelf
<1>13. CASE t.to # "self"
  <2>1. paid' = paid + SendAmount
    BY <1>2, <1>3, <1>13 DEF Take
  <2>2. Total(worth', unspent') = (h - worth[t.in]) + t.change
    BY <1>5, <1>8, <1>13
  <2>3. h >= SendAmount + Fee /\ Total(worth', unspent') = h - (SendAmount + Fee)
    BY <1>4, <1>8, <1>10, <2>2
  <2> QED BY <1>9, <1>11, <2>1, <2>3 DEF W!Pay
<1> QED BY <1>12, <1>13

\* Each success has a payment of its own, so one more needs one more payment.
LEMMA OneReceiptEach ==
  ASSUME IInv, NEW r \in Runs, r \notin Done, Credited(r)
  PROVE  Cardinality(Done) < Cardinality(accepted)
<1> DEFINE S == Done \cup {r}
           f == [s \in S |-> txFinal[s]]
<1>1. ReceiptInv /\ IsFiniteSet(accepted)
  BY DEF IInv, SpentInv
<1>2. \A s \in S : s \in Runs /\ Credited(s)
  BY DEF Done, Credited
<1>3. \A s \in S : f[s] \in accepted
  BY <1>1, <1>2 DEF ReceiptInv
<1>4. \A s, u \in S : f[s] = f[u] => s = u
  BY <1>1, <1>2 DEF ReceiptInv
<1>5. f \in Injection(S, accepted)
  BY <1>3, <1>4 DEF Injection, IsInjective
<1> HIDE DEF S, f
<1>6. IsFiniteSet(S) /\ Cardinality(S) <= Cardinality(accepted)
  BY <1>1, <1>5, FS_Injection
<1>7. IsFiniteSet(Done)
  BY <1>6, FS_Subset DEF S
<1>8. Cardinality(S) = Cardinality(Done) + 1
  BY <1>7, FS_AddElement DEF S
<1> QED BY <1>1, <1>6, <1>7, <1>8, FS_CardinalityType

LEMMA SameCardinality == \A S : W!Cardinality(S) = Cardinality(S)
  BY DEF W!Cardinality, Cardinality

LEMMA WalletInit == Init => W!Init
<1> SUFFICES ASSUME Init PROVE W!Init
  OBVIOUS
<1>1. {r \in Runs : pc[r] = "done"} = {}
  BY DEF Init
<1>2. Cardinality(accepted) = 0
  BY FS_EmptySet DEF Init
<1> QED BY <1>1, <1>2 DEF Init, Holdings, W!Init

LEMMA WalletStep ==
  IInv /\ [Next]_vars =>
    [W!Next]_<<Holdings, paid, Cardinality(accepted), {r \in Runs : pc[r] = "done"}>>
<1> SUFFICES ASSUME IInv, [Next]_vars
             PROVE  \/ W!Next
                    \/ UNCHANGED <<Holdings, paid, Cardinality(accepted), Done>>
  BY DEF Done
<1>1. pc \in [Runs -> {"query", "tip", "submit", "wait", "done", "fatal"}]
  BY DEF IInv, TypeOK
<1>2. ASSUME UNCHANGED <<worth, unspent, paid, accepted>>
      PROVE  UNCHANGED <<Holdings, paid, Cardinality(accepted)>>
  BY <1>2 DEF Holdings
<1>3. ASSUME NEW r \in Runs, ListAndPick(r) \/ TipAndBuild(r) \/ Submit(r) \/ QueryFails(r) \/ Rerun(r)
      PROVE  UNCHANGED <<Holdings, paid, Cardinality(accepted), Done>>
  <2>1. /\ pc[r] # "done" /\ \E p \in {"query", "tip", "submit", "wait", "fatal"} : pc' = [pc EXCEPT ![r] = p]
        /\ UNCHANGED <<worth, unspent, paid, accepted>>
    BY <1>3 DEF ListAndPick, TipAndBuild, Submit, QueryFails, Rerun, ledger
  <2>2. Done' = Done
    BY <1>1, <2>1 DEF Done
  <2> QED BY <1>2, <2>1, <2>2
<1>4. ASSUME NEW r \in Runs, Answered(r)
      PROVE  W!Next \/ UNCHANGED <<Holdings, paid, Cardinality(accepted), Done>>
  <2>1. /\ pc[r] = "wait" /\ pc' = [pc EXCEPT ![r] = IF reply[r] = "ok" THEN "done" ELSE "fatal"]
        /\ UNCHANGED <<worth, unspent, paid, accepted>>
    BY <1>4 DEF Answered, ledger
  <2>2. CASE reply[r] # "ok"
    <3>1. Done' = Done
      BY <1>1, <2>1, <2>2 DEF Done
    <3> QED BY <1>2, <2>1, <3>1
  <2>3. CASE reply[r] = "ok"
    <3>1. Credited(r) /\ r \notin Done
      BY <2>1, <2>3 DEF Credited, Done
    <3>2. Cardinality(Done) < Cardinality(accepted)
      BY <3>1, OneReceiptEach
    <3>3. Done' = Done \cup {r}
      BY <1>1, <2>1, <2>3 DEF Done
    <3>4. W!Report(r)
      BY <1>2, <2>1, <3>1, <3>2, <3>3, SameCardinality DEF W!Report, Done
    <3> QED BY <3>4 DEF W!Next
  <2> QED BY <2>2, <2>3
<1>5. ASSUME UNCHANGED <<worth, unspent, paid, accepted, pc>>
      PROVE  UNCHANGED <<Holdings, paid, Cardinality(accepted), Done>>
  BY <1>2, <1>5 DEF Done
<1>6. ASSUME NEW r \in Runs, Disconnect(r)
      PROVE  UNCHANGED <<Holdings, paid, Cardinality(accepted), Done>>
  BY <1>5, <1>6 DEF Disconnect, ledger
<1>7. ASSUME NEW q \in inflight, Lose(q)
      PROVE  UNCHANGED <<Holdings, paid, Cardinality(accepted), Done>>
  BY <1>5, <1>7 DEF Lose, ledger
<1>8. ASSUME NEW q \in inflight, NEW a \in BOOLEAN, Decide(q, a)
      PROVE  W!Next \/ UNCHANGED <<Holdings, paid, Cardinality(accepted), Done>>
  <2>1. CASE Valid(q.tx, q.server)
    <3>1. Take(q.tx) /\ UNCHANGED pc
      BY <1>8, <2>1 DEF Decide
    <3>2. W!Pay \/ W!PaySelf
      BY <2>1, <3>1, PaymentTaken
    <3> QED BY <3>2 DEF W!Next
  <2>2. CASE ~Valid(q.tx, q.server)
    BY <1>5, <1>8, <2>2 DEF Decide
  <2> QED BY <2>1, <2>2
<1>9. CASE Tick
  BY <1>5, <1>9 DEF Tick
<1>10. CASE UNCHANGED vars
  BY <1>5, <1>10 DEF vars
<1> QED
  BY <1>3, <1>4, <1>6, <1>7, <1>8, <1>9, <1>10 DEF Next, Step

\* Whatever the runs, the network and the ledger do, the wallet loses what was
\* sent and one fee for each transaction accepted and nothing else, and no two
\* runs report the success of one payment.
THEOREM PaysAsPromised == Spec => RefinesWallet
  BY WalletInit, WalletStep, Invariant, PTL DEF Spec, RefinesWallet, W!Spec

=============================================================================
