--------------------------- MODULE AddressesProofs ---------------------------
(***************************************************************************)
(* Proofs about Addresses, for hashes of any length, words of any size     *)
(* that is a multiple of 128, and any addresses, edits and bytes.          *)
(***************************************************************************)
EXTENDS Addresses, Bech32Proofs

Uint64 == 0 .. UintMod - 1

(***************************************************************************)
(* Shifting digits into a word.                                            *)
(***************************************************************************)
Shift7(x, d) == ((x * 128) % UintMod) + (d % 128)

LEMMA ShiftType ==
  ASSUME NEW x \in Nat, NEW d \in Byte
  PROVE  Shift7(x, d) \in Uint64
<1>1. PICK U \in Nat \ {0} : U = UintMod /\ U % 128 = 0
  BY AddressAssumption
<1>2. PICK q \in Nat \ {0} : U = 128 * q
  <2>1. PICK q : q = U \div 128
    OBVIOUS
  <2>2. q \in Nat \ {0} /\ U = 128 * q
    BY <1>1, <2>1
  <2> QED BY <2>2
<1>3. PICK y : y = (x * 128) % U
  OBVIOUS
<1>4. y \in 0 .. U - 1
  BY <1>3
<1>5. PICK p \in Int : x * 128 = 128 * p + y
  <2>1. PICK k \in Int : k = (x * 128) \div U
    OBVIOUS
  <2>2. x * 128 = U * k + y
    BY <1>3, <2>1
  <2>3. PICK p \in Int : p = q * k
    OBVIOUS
  <2>4. U * k = 128 * p
    BY <1>2, <2>3
  <2>5. x * 128 = 128 * p + y
    BY <2>2, <2>4
  <2> QED BY <2>5
<1>6. y = 128 * (x - p)
  BY <1>4, <1>5
<1>7. y <= 128 * (q - 1)
  BY <1>2, <1>4, <1>6
<1>8. d % 128 \in 0 .. 127
  BY DEF Byte
<1>9. y + (d % 128) \in 0 .. U - 1
  BY <1>2, <1>4, <1>7, <1>8
<1> QED BY <1>1, <1>3, <1>9 DEF Shift7, Uint64

\* g[n] is the word after the first n digits.
Words(g, digits) ==
  /\ g \in [0 .. Len(digits) -> Uint64]
  /\ g[0] = 0
  /\ \A n \in 1 .. Len(digits) : g[n] = Shift7(g[n - 1], digits[n])

LEMMA ZeroIsUint == 0 \in Uint64 /\ Uint64 \subseteq Nat
  BY AddressAssumption DEF Uint64

LEMMA ShiftedWords ==
  ASSUME NEW digits \in Seq(Byte)
  PROVE  \E g : Words(g, digits) /\ Shifted(digits) = g[Len(digits)]
<1> DEFINE L == Len(digits)
           step == [n \in 1 .. L |-> [x \in Uint64 |-> Shift7(x, digits[n])]]
           output == CHOOSE f : f = [n \in 0 .. L |->
                       IF n = 0 THEN 0 ELSE ((f[n - 1] * 128) % UintMod) + (digits[n] % 128)]
<1>1. L \in Nat /\ \A n \in 1 .. L : digits[n] \in Byte
  BY Elements
<1>2. step \in StepsTo(L, Uint64)
  <2>1. \A n \in 1 .. L : \A x \in Uint64 : Shift7(x, digits[n]) \in Uint64
    BY <1>1, ZeroIsUint, ShiftType
  <2> QED BY <2>1 DEF StepsTo
<1>3. PICK g : IteratesTo(g, L, Uint64, 0, step)
  <2> HIDE DEF step, L
  <2> QED BY <1>1, <1>2, ZeroIsUint, RecursionUpTo
<1>4. g \in [0 .. L -> Uint64] /\ g[0] = 0 /\ \A n \in 1 .. L : g[n] = step[n][g[n - 1]]
  BY <1>3 DEF IteratesTo
<1>5. ASSUME NEW n \in 1 .. L PROVE g[n] = Shift7(g[n - 1], digits[n])
  <2>1. n - 1 \in 0 .. L
    BY <1>1
  <2>2. g[n - 1] \in Uint64
    <3> HIDE DEF step, output, L
    <3> QED BY <1>4, <2>1
  <2> HIDE DEF output
  <2> QED BY <1>4, <2>2
<1>6. g = [n \in 0 .. L |-> IF n = 0 THEN 0 ELSE ((g[n - 1] * 128) % UintMod) + (digits[n] % 128)]
  <2>1. \A n \in 0 .. L : n # 0 => n \in 1 .. L
    BY <1>1
  <2>2. \A n \in 1 .. L : g[n] = ((g[n - 1] * 128) % UintMod) + (digits[n] % 128)
    <3> HIDE DEF step, output, L
    <3> QED BY <1>5 DEF Shift7
  <2>3. \A n \in 0 .. L :
          g[n] = IF n = 0 THEN 0 ELSE ((g[n - 1] * 128) % UintMod) + (digits[n] % 128)
    <3> HIDE DEF step, output, L
    <3> QED BY <1>4, <2>1, <2>2
  <2> HIDE DEF L
  <2> QED BY <1>4, <2>3
<1>7. output = [n \in 0 .. L |->
        IF n = 0 THEN 0 ELSE ((output[n - 1] * 128) % UintMod) + (digits[n] % 128)]
  BY <1>6, ZenonT(30)
<1>8. Shifted(digits) = output[L]
  BY DEF Shifted
<1> HIDE DEF output
<1>9. ASSUME NEW n \in 1 .. L PROVE output[n] = Shift7(output[n - 1], digits[n])
  <2>1. n \in 0 .. L /\ n # 0
    BY <1>1
  <2> HIDE DEF L
  <2> QED BY <1>7, <2>1 DEF Shift7
<1>10. output[0] = 0
  BY <1>1, <1>7
<1>11. \A n \in 0 .. L : output[n] \in Uint64
  <2> DEFINE P == {n \in Nat : n <= L => output[n] \in Uint64}
  <2>1. 0 \in P
    BY <1>10, ZeroIsUint
  <2>2. ASSUME NEW n \in Nat, n \in P PROVE n + 1 \in P
    <3>1. CASE n + 1 <= L
      <4>1. (n + 1) - 1 = n /\ n <= L /\ n + 1 \in 1 .. L
        BY <3>1, <1>1
      <4>2. output[n + 1] = Shift7(output[n], digits[n + 1])
        BY <1>9, <4>1
      <4>3. output[n] \in Nat /\ digits[n + 1] \in Byte
        BY <1>1, <2>2, <4>1, ZeroIsUint
      <4> QED BY <4>2, <4>3, ShiftType
    <3> QED BY <3>1
  <2>3. Nat \subseteq P
    <3> HIDE DEF P
    <3> QED BY <2>1, <2>2, SetInduction
  <2> QED BY <2>3, <1>1
<1>12. Words(output, digits)
  <2>1. output \in [0 .. L -> Uint64]
    <3>1. output = [n \in 0 .. L |-> output[n]]
      BY <1>7
    <3> HIDE DEF L
    <3> QED BY <1>11, <3>1
  <2> QED BY <1>9, <1>10, <2>1 DEF Words
<1> QED BY <1>8, <1>12

\* Whatever digits there are, the word does not overflow.
LEMMA ShiftedType ==
  ASSUME NEW digits \in Seq(Byte)
  PROVE  Shifted(digits) \in Uint64
<1>1. PICK g : Words(g, digits) /\ Shifted(digits) = g[Len(digits)]
  BY ShiftedWords
<1>2. Len(digits) \in 0 .. Len(digits)
  <2>1. Len(digits) \in Nat
    BY LenProperties
  <2> QED BY <2>1
<1> QED BY <1>1, <1>2 DEF Words

LEMMA ShiftedEmpty == Shifted(<<>>) = 0
<1>1. PICK e : e = <<>>
  OBVIOUS
<1>2. e \in Seq(Byte) /\ Len(e) = 0
  BY <1>1
<1>3. PICK g : Words(g, e) /\ Shifted(e) = g[Len(e)]
  BY <1>2, ShiftedWords
<1> QED BY <1>1, <1>2, <1>3 DEF Words

LEMMA ShiftedAppend ==
  ASSUME NEW s \in Seq(Byte), NEW b \in Byte
  PROVE  Shifted(Append(s, b)) = Shift7(Shifted(s), b)
<1>1. PICK z : z = Append(s, b)
  OBVIOUS
<1>2. PICK L : L = Len(s)
  OBVIOUS
<1>3. /\ L \in Nat /\ z \in Seq(Byte) /\ Len(z) = L + 1
      /\ \A i \in 1 .. L : z[i] = s[i]
      /\ z[L + 1] = b
  <2>1. L \in Nat
    BY <1>2, LenProperties
  <2>2. /\ z \in Seq(Byte) /\ Len(z) = Len(s) + 1
        /\ \A i \in 1 .. Len(s) : z[i] = s[i]
        /\ z[Len(s) + 1] = b
    BY <1>1, AppendProperties
  <2> QED BY <1>2, <2>1, <2>2
<1>4. PICK f : Words(f, s) /\ Shifted(s) = f[L]
  BY <1>2, ShiftedWords
<1>5. PICK g : Words(g, z) /\ Shifted(z) = g[L + 1]
  BY <1>3, ShiftedWords
<1>6. f[0] = 0 /\ \A n \in 1 .. L : f[n] = Shift7(f[n - 1], s[n])
  BY <1>2, <1>4 DEF Words
<1>7. g[0] = 0 /\ \A n \in 1 .. L + 1 : g[n] = Shift7(g[n - 1], z[n])
  BY <1>3, <1>5 DEF Words
<1> DEFINE P == {n \in Nat : n <= L => g[n] = f[n]}
<1>8. 0 \in P
  BY <1>6, <1>7
<1>9. ASSUME NEW n \in Nat, n \in P PROVE n + 1 \in P
  <2>1. CASE n + 1 <= L
    <3>1. n + 1 \in 1 .. L /\ n + 1 \in 1 .. L + 1 /\ (n + 1) - 1 = n /\ n <= L
      BY <1>3, <2>1
    <3>2. g[n] = f[n]
      BY <1>9, <3>1
    <3> QED BY <1>3, <1>6, <1>7, <3>1, <3>2
  <2> QED BY <2>1
<1>10. Nat \subseteq P
  <2> HIDE DEF P
  <2> QED BY <1>8, <1>9, SetInduction
<1>11. g[L] = f[L]
  BY <1>3, <1>10
<1>12. g[L + 1] = Shift7(g[L], b)
  <2>1. L + 1 \in 1 .. L + 1 /\ (L + 1) - 1 = L
    BY <1>3
  <2> QED BY <1>3, <1>7, <2>1
<1> QED BY <1>1, <1>4, <1>5, <1>11, <1>12

(***************************************************************************)
(* The digits of a number.                                                 *)
(***************************************************************************)
More == 128 .. 255

LEMMA HighDigitsDefined ==
  /\ HighDigits[0] = <<>>
  /\ \A n \in Nat : n # 0 => HighDigits[n] = Append(HighDigits[n \div 128], (n % 128) + 128)
<1> DEFINE S == Seq(More)
           down == [n \in Nat |-> n \div 128]
           step == [n \in Nat |-> [s \in S |-> Append(s, (n % 128) + 128)]]
           high == CHOOSE f : f = [n \in Nat |->
                     IF n = 0 THEN <<>> ELSE Append(f[n \div 128], (n % 128) + 128)]
<1>1. \A n \in Nat : n \div 128 \in Nat /\ (n # 0 => n \div 128 < n) /\ (n % 128) + 128 \in More
  BY DEF More
<1>2. down \in Descents
  BY <1>1 DEF Descents
<1>3. step \in Steps(S)
  <2>1. \A n \in Nat : \A s \in S : Append(s, (n % 128) + 128) \in S
    BY <1>1, AppendProperties
  <2> HIDE DEF S
  <2> QED BY <2>1 DEF Steps
<1>4. <<>> \in S
  OBVIOUS
<1>5. PICK f : Descends(f, S, <<>>, down, step)
  <2> HIDE DEF S, down, step
  <2> QED BY <1>2, <1>3, <1>4, DescentDefines
<1>6. f \in [Nat -> S] /\ f[0] = <<>> /\ \A n \in Nat : n # 0 => f[n] = step[n][f[down[n]]]
  <2> HIDE DEF S, down, step
  <2> QED BY <1>5 DEF Descends
<1>7. ASSUME NEW n \in Nat, n # 0 PROVE f[n] = Append(f[n \div 128], (n % 128) + 128)
  <2>1. f[n] = step[n][f[n \div 128]]
    <3> HIDE DEF step, S
    <3> QED BY <1>6, <1>7
  <2>2. f[n \div 128] \in S
    <3> HIDE DEF S, step
    <3> QED BY <1>1, <1>6
  <2> HIDE DEF S
  <2> QED BY <2>1, <2>2
<1>8. f = [n \in Nat |-> IF n = 0 THEN <<>> ELSE Append(f[n \div 128], (n % 128) + 128)]
  <2> HIDE DEF S, step, down
  <2> QED BY <1>6, <1>7
<1>9. high = [n \in Nat |-> IF n = 0 THEN <<>> ELSE Append(high[n \div 128], (n % 128) + 128)]
  <2> HIDE DEF S, step, down
  <2> QED BY <1>8, ZenonT(30)
<1>10. HighDigits = high
  BY DEF HighDigits
<1> HIDE DEF high, S, step, down
<1> QED BY <1>9, <1>10

LEMMA HighDigitsAre ==
  ASSUME NEW n \in Nat
  PROVE  HighDigits[n] \in Seq(More) /\ (n < UintMod => Shifted(HighDigits[n]) = n)
<1> DEFINE Good(m) == HighDigits[m] \in Seq(More) /\ (m < UintMod => Shifted(HighDigits[m]) = m)
           P == {k \in Nat : \A m \in 0 .. k : Good(m)}
<1>1. UintMod \in Nat \ {0}
  BY AddressAssumption
<1>2. Good(0)
  BY HighDigitsDefined, ShiftedEmpty
<1>3. 0 \in P
  BY <1>2
<1>4. ASSUME NEW m \in Nat, m # 0, Good(m \div 128) PROVE Good(m)
  <2>1. PICK d \in Nat, r \in 0 .. 127 : d = m \div 128 /\ r = m % 128 /\ m = 128 * d + r
    OBVIOUS
  <2>2. PICK s : s = HighDigits[d]
    OBVIOUS
  <2>3. s \in Seq(More) /\ (d < UintMod => Shifted(s) = d)
    BY <1>4, <2>1, <2>2
  <2>4. HighDigits[m] = Append(s, r + 128)
    BY <1>4, <2>1, <2>2, HighDigitsDefined
  <2>5. r + 128 \in More /\ r + 128 \in Byte /\ (r + 128) % 128 = r
    BY DEF More, Byte
  <2>6. Append(s, r + 128) \in Seq(More)
    BY <2>3, <2>5, AppendProperties
  <2>7. CASE m < UintMod
    <3>1. d < UintMod /\ (d * 128) % UintMod = d * 128
      <4>1. d * 128 \in 0 .. UintMod - 1
        BY <1>1, <2>1, <2>7
      <4> QED BY <1>1, <2>1, <4>1
    <3>2. s \in Seq(Byte)
      <4>1. More \subseteq Byte
        BY DEF More, Byte
      <4> QED BY <2>3, <4>1, SeqOfMore
    <3>3. Shifted(Append(s, r + 128)) = Shift7(d, r + 128)
      BY <2>3, <2>5, <3>1, <3>2, ShiftedAppend
    <3>4. Shift7(d, r + 128) = d * 128 + r
      BY <2>5, <3>1 DEF Shift7
    <3> QED BY <2>1, <2>4, <2>6, <3>3, <3>4
  <2> QED BY <2>4, <2>6, <2>7
<1>5. ASSUME NEW k \in Nat, k \in P PROVE k + 1 \in P
  <2>1. Good(k + 1)
    <3>1. k + 1 \in Nat /\ k + 1 # 0 /\ (k + 1) \div 128 \in 0 .. k
      OBVIOUS
    <3>2. Good((k + 1) \div 128)
      <4> HIDE DEF Good
      <4> QED BY <1>5, <3>1
    <3> HIDE DEF Good
    <3> QED BY <1>4, <3>1, <3>2
  <2>2. \A m \in 0 .. k + 1 : m \in 0 .. k \/ m = k + 1
    OBVIOUS
  <2> HIDE DEF Good
  <2> QED BY <1>5, <2>1, <2>2
<1>6. Nat \subseteq P
  <2> HIDE DEF P
  <2> QED BY <1>3, <1>5, SetInduction
<1>7. n \in 0 .. n
  OBVIOUS
<1> HIDE DEF Good
<1>8. Good(n)
  BY <1>6, <1>7
<1> QED BY <1>8 DEF Good

(***************************************************************************)
(* A number and what is behind it.                                         *)
(***************************************************************************)
LEMMA TailAfter ==
  ASSUME NEW S, NEW a \in Seq(S), NEW b \in Seq(S)
  PROVE  From(a \o b, Len(a)) = b /\ SubSeq(a \o b, 1, Len(a)) = a
<1>1. PICK m, n : m = Len(a) /\ n = Len(b)
  OBVIOUS
<1>2. PICK z : z = a \o b
  OBVIOUS
<1>3. z \in Seq(S) /\ Joins(z, a, b, m, n)
  BY <1>1, <1>2, ConcatJoins
<1>4. /\ m \in Nat /\ n \in Nat /\ Len(z) = m + n
      /\ \A i \in 1 .. m : z[i] = a[i]
      /\ \A i \in 1 .. n : z[m + i] = b[i]
  BY <1>3 DEF Joins
<1>5. SubSeq(z, m + 1, m + n) = b
  BY <1>1, <1>3, <1>4, Slice
<1>6. SubSeq(z, 0 + 1, 0 + m) = a
  <2>1. \A i \in 1 .. m : z[0 + i] = a[i]
    BY <1>4
  <2>2. 0 \in Nat /\ 0 + m <= Len(z)
    BY <1>4
  <2> QED BY <1>1, <1>3, <2>1, <2>2, Slice
<1>7. 0 + 1 = 1 /\ 0 + m = m
  BY <1>4
<1> QED BY <1>1, <1>2, <1>4, <1>5, <1>6, <1>7 DEF From

LEMMA PartType ==
  ASSUME NEW S, NEW s \in Seq(S), NEW k \in Nat, NEW l \in Nat, k + l <= Len(s)
  PROVE  /\ SubSeq(s, k + 1, k + l) \in Seq(S) /\ Len(SubSeq(s, k + 1, k + l)) = l
         /\ \A i \in 1 .. l : SubSeq(s, k + 1, k + l)[i] = s[k + i]
<1>1. Len(s) \in Nat /\ \A i \in 1 .. Len(s) : s[i] \in S
  BY Elements
<1>2. PICK m \in Int, n \in Int : m = k + 1 /\ n = k + l
  OBVIOUS
<1>3. \A i \in m .. n : s[i] \in S
  BY <1>1, <1>2
<1>4. PICK r : r = SubSeq(s, m, n)
  OBVIOUS
<1>5. r \in Seq(S)
  BY <1>3, <1>4, SubSeqProperties
<1>6. Len(r) = IF m <= n THEN n - m + 1 ELSE 0
  BY <1>3, <1>4, SubSeqProperties
<1>7. \A i \in 1 .. n - m + 1 : r[i] = s[m + i - 1]
  BY <1>3, <1>4, SubSeqProperties
<1>8. Len(r) = l
  BY <1>2, <1>6
<1>9. ASSUME NEW i \in 1 .. l PROVE r[i] = s[k + i]
  <2>1. n - m + 1 = l /\ m + i - 1 = k + i
    BY <1>2
  <2>2. r[i] = s[m + i - 1]
    BY <1>7, <2>1
  <2> QED BY <2>1, <2>2
<1> QED BY <1>2, <1>4, <1>5, <1>8, <1>9

LEMMA TwoParts ==
  ASSUME NEW S, NEW s \in Seq(S), NEW n \in 0 .. Len(s)
  PROVE  /\ SubSeq(s, 1, n) \in Seq(S) /\ Len(SubSeq(s, 1, n)) = n
         /\ From(s, n) \in Seq(S) /\ Len(From(s, n)) = Len(s) - n
         /\ SubSeq(s, 1, n) \o From(s, n) = s
<1>1. PICK l : l = Len(s) - n
  OBVIOUS
<1>2. n \in Nat /\ l \in Nat /\ Len(s) = n + l
  BY <1>1, LenProperties
<1>3. PICK p : p = SubSeq(s, 0 + 1, 0 + n)
  OBVIOUS
<1>4. PICK q : q = SubSeq(s, n + 1, n + l)
  OBVIOUS
<1>5. p \in Seq(S) /\ Len(p) = n /\ \A i \in 1 .. n : p[i] = s[0 + i]
  <2>1. 0 \in Nat /\ 0 + n <= Len(s)
    BY <1>2
  <2> QED BY <1>2, <1>3, <2>1, PartType
<1>6. q \in Seq(S) /\ Len(q) = l /\ \A i \in 1 .. l : q[i] = s[n + i]
  <2>1. n + l <= Len(s)
    BY <1>2
  <2> QED BY <1>2, <1>4, <2>1, PartType
<1>7. PICK z : z = p \o q
  OBVIOUS
<1>8. z \in Seq(S) /\ Joins(z, p, q, n, l)
  BY <1>5, <1>6, <1>7, ConcatJoins
<1>9. /\ Len(z) = n + l
      /\ \A i \in 1 .. n : z[i] = p[i]
      /\ \A i \in 1 .. l : z[n + i] = q[i]
  BY <1>8 DEF Joins
<1>10. ASSUME NEW i \in 1 .. n + l PROVE z[i] = s[i]
  <2>1. CASE i <= n
    <3>1. i \in 1 .. n /\ 0 + i = i
      BY <1>2, <2>1
    <3> QED BY <1>5, <1>9, <3>1
  <2>2. CASE ~(i <= n)
    <3>1. PICK j \in 1 .. l : i = n + j
      <4>1. i - n \in 1 .. l /\ i = n + (i - n)
        BY <1>2, <2>2
      <4> QED BY <4>1
    <3> QED BY <1>6, <1>9, <3>1
  <2> QED BY <2>1, <2>2
<1>11. z = s
  BY <1>2, <1>8, <1>9, <1>10, SeqEqual
<1>12. p = SubSeq(s, 1, n) /\ q = From(s, n)
  BY <1>2, <1>3, <1>4 DEF From
<1> QED BY <1>1, <1>5, <1>6, <1>7, <1>11, <1>12

LEMMA FromConcat ==
  ASSUME NEW S, NEW s \in Seq(S), NEW e \in Seq(S), NEW n \in 0 .. Len(s)
  PROVE  From(s \o e, n) = From(s, n) \o e
<1>1. PICK p, q : p = SubSeq(s, 1, n) /\ q = From(s, n)
  OBVIOUS
<1>2. p \in Seq(S) /\ Len(p) = n /\ q \in Seq(S) /\ p \o q = s
  BY <1>1, TwoParts
<1>3. s \o e = p \o (q \o e)
  <2>1. p \in Seq(S) /\ q \in Seq(S)
    BY <1>2
  <2>2. (p \o q) \o e = p \o (q \o e)
    BY <2>1, ConcatAssociative
  <2> QED BY <1>2, <2>2
<1>4. PICK b : b = q \o e
  OBVIOUS
<1>5. b \in Seq(S)
  BY <1>2, <1>4, ConcatProperties
<1>6. From(p \o b, Len(p)) = b
  BY <1>2, <1>5, TailAfter
<1>7. From(s \o e, n) = b
  BY <1>2, <1>3, <1>4, <1>6
<1> QED BY <1>1, <1>4, <1>7

\* The k-th byte of s is the last one of a number.
FirstNat(s, k) ==
  /\ k \in 1 .. Len(s) /\ s[k] < 128
  /\ \A i \in 1 .. k - 1 : ~(s[i] < 128)

LEMMA NatLenFirst ==
  ASSUME NEW s \in Seq(Byte), NEW k, FirstNat(s, k)
  PROVE  NatLen(s) = k
<1> DEFINE I == {i \in 1 .. Len(s) : s[i] < 128}
<1>1. NatLen(s) = IF I # {} THEN Min(I) ELSE 0
  BY DEF NatLen, SelectInSeq
<1>2. Len(s) \in Nat
  BY LenProperties
<1>3. k \in I /\ k \in Int
  BY <1>2 DEF FirstNat
<1>4. ASSUME NEW i \in I PROVE i \in Int /\ k <= i
  <2>1. i \in Int /\ i \in 1 .. Len(s) /\ s[i] < 128
    BY <1>2
  <2>2. ~(i \in 1 .. k - 1)
    BY <2>1 DEF FirstNat
  <2> QED BY <1>3, <2>1, <2>2
<1>5. Min(I) = k
  <2> HIDE DEF I
  <2>1. \A y \in I : k <= y
    BY <1>4
  <2>2. \A x \in I : (\A y \in I : x <= y) => x = k
    BY <1>3, <1>4
  <2> QED BY <1>3, <2>1, <2>2 DEF Min
<1> QED BY <1>1, <1>3, <1>5

LEMMA NatLenCases ==
  ASSUME NEW s \in Seq(Byte)
  PROVE  NatLen(s) = 0 \/ FirstNat(s, NatLen(s))
<1> DEFINE I == {i \in 1 .. Len(s) : s[i] < 128}
<1>1. NatLen(s) = IF I # {} THEN Min(I) ELSE 0
  BY DEF NatLen, SelectInSeq
<1>2. CASE I = {}
  BY <1>1, <1>2
<1>3. CASE I # {}
  <2>1. I \subseteq Nat
    <3>1. Len(s) \in Nat
      BY LenProperties
    <3> QED BY <3>1
  <2>2. PICK k \in I : \A i \in I : k <= i
    <3> HIDE DEF I
    <3> QED BY <1>3, <2>1, LeastNatural
  <2>3. FirstNat(s, k)
    <3>1. k \in 1 .. Len(s) /\ s[k] < 128 /\ Len(s) \in Nat
      BY LenProperties
    <3>2. ASSUME NEW i \in 1 .. k - 1 PROVE ~(s[i] < 128)
      <4>1. i \in 1 .. Len(s) /\ ~(k <= i)
        BY <3>1
      <4> QED BY <2>2, <4>1
    <3> HIDE DEF I
    <3> QED BY <3>1, <3>2 DEF FirstNat
  <2> QED BY <2>3, NatLenFirst
<1> QED BY <1>2, <1>3

\* More bytes behind a number do not change where it ends.
LEMMA NatGoesOn ==
  ASSUME NEW s \in Seq(Byte), NEW e \in Seq(Byte), NEW k, FirstNat(s, k)
  PROVE  /\ k \in 1 .. Len(s) /\ NatLen(s \o e) = k
         /\ From(s \o e, k) = From(s, k) \o e
         /\ From(s, k) \in Seq(Byte)
<1>1. PICK m, n : m = Len(s) /\ n = Len(e)
  OBVIOUS
<1>2. PICK z : z = s \o e
  OBVIOUS
<1>3. z \in Seq(Byte) /\ Joins(z, s, e, m, n)
  BY <1>1, <1>2, ConcatJoins
<1>4. m \in Nat /\ n \in Nat /\ Len(z) = m + n /\ \A i \in 1 .. m : z[i] = s[i]
  BY <1>3 DEF Joins
<1>5. k \in 1 .. m /\ s[k] < 128 /\ \A i \in 1 .. k - 1 : ~(s[i] < 128)
  BY <1>1 DEF FirstNat
<1>6. FirstNat(z, k)
  <2>1. k \in 1 .. m + n
    BY <1>4, <1>5
  <2>2. z[k] < 128
    BY <1>4, <1>5
  <2>3. ASSUME NEW i \in 1 .. k - 1 PROVE ~(z[i] < 128)
    <3>1. i \in 1 .. m
      BY <1>4, <1>5
    <3> QED BY <1>4, <1>5, <3>1
  <2> QED BY <1>4, <2>1, <2>2, <2>3 DEF FirstNat
<1>7. k \in 0 .. Len(s)
  BY <1>1, <1>4, <1>5
<1>8. NatLen(z) = k
  BY <1>3, <1>6, NatLenFirst
<1>9. From(s \o e, k) = From(s, k) \o e
  BY <1>7, FromConcat
<1>10. From(s, k) \in Seq(Byte)
  BY <1>7, TwoParts
<1> QED BY <1>1, <1>2, <1>5, <1>8, <1>9, <1>10

\* A number that is written is read, whatever is behind it.
LEMMA NatReadsBack ==
  ASSUME NEW n \in Uint64, NEW t \in Seq(Byte), NEW v, v = VariableNatEncode(n)
  PROVE  /\ v \in Seq(Byte) /\ Len(v) \in Nat \ {0}
         /\ NatLen(v \o t) = Len(v)
         /\ VariableNatDecode(v \o t) = n
         /\ From(v \o t, Len(v)) = t
<1>1. UintMod \in Nat \ {0} /\ n \in Nat /\ n < UintMod
  BY AddressAssumption DEF Uint64
<1>2. PICK d \in Nat, r \in 0 .. 127 : d = n \div 128 /\ r = n % 128 /\ n = 128 * d + r
  BY <1>1
<1>3. PICK h : h = HighDigits[d]
  OBVIOUS
<1>4. d < UintMod
  BY <1>1, <1>2
<1>5. h \in Seq(More) /\ Shifted(h) = d
  BY <1>2, <1>3, <1>4, HighDigitsAre
<1>6. More \subseteq Byte /\ r \in Byte
  BY DEF More, Byte
<1>7. h \in Seq(Byte)
  BY <1>5, <1>6, SeqOfMore
<1>8. v = Append(h, r)
  BY <1>2, <1>3 DEF VariableNatEncode
<1>9. PICK l : l = Len(h)
  OBVIOUS
<1>10. /\ l \in Nat /\ v \in Seq(Byte) /\ Len(v) = l + 1
       /\ \A i \in 1 .. l : v[i] = h[i]
       /\ v[l + 1] = r
  <2>1. l \in Nat
    BY <1>7, <1>9, LenProperties
  <2>2. /\ v \in Seq(Byte) /\ Len(v) = Len(h) + 1
        /\ \A i \in 1 .. Len(h) : v[i] = h[i]
        /\ v[Len(h) + 1] = r
    BY <1>6, <1>7, <1>8, AppendProperties
  <2> QED BY <1>9, <2>1, <2>2
<1>11. \A i \in 1 .. l : h[i] \in More
  BY <1>5, <1>9, Elements
<1>12. FirstNat(v, l + 1)
  <2>1. l + 1 \in 1 .. l + 1 /\ (l + 1) - 1 = l
    BY <1>10
  <2>2. ASSUME NEW i \in 1 .. l PROVE ~(v[i] < 128)
    <3>1. PICK x \in More : x = v[i]
      BY <1>10, <1>11
    <3>2. ~(x < 128)
      BY DEF More
    <3> QED BY <3>1, <3>2
  <2>3. v[l + 1] < 128
    BY <1>10
  <2> QED BY <1>10, <2>1, <2>2, <2>3 DEF FirstNat
<1>13. Shifted(v) = n
  <2>1. (d * 128) % UintMod = d * 128
    <3>1. d * 128 \in 0 .. UintMod - 1
      BY <1>1, <1>2
    <3> QED BY <1>1, <3>1
  <2>2. r % 128 = r
    OBVIOUS
  <2>3. Shifted(v) = Shift7(d, r)
    BY <1>5, <1>6, <1>7, <1>8, ShiftedAppend
  <2> QED BY <1>2, <2>1, <2>2, <2>3 DEF Shift7
<1>14. NatLen(v \o t) = l + 1
  BY <1>10, <1>12, NatGoesOn
<1>15. SubSeq(v \o t, 1, l + 1) = v /\ From(v \o t, l + 1) = t
  BY <1>10, TailAfter
<1>16. VariableNatDecode(v \o t) = n
  BY <1>13, <1>14, <1>15 DEF VariableNatDecode
<1>17. l + 1 \in Nat \ {0}
  BY <1>10
<1> QED BY <1>10, <1>14, <1>15, <1>16, <1>17

(***************************************************************************)
(* What there is in an address.                                            *)
(***************************************************************************)
Nets == {"main", "test"}
Place == [slot : Uint64, txIndex : Uint64, certIndex : Uint64]

LEMMA FourTypes ==
  ASSUME NEW a
  PROVE  a \in Address <=>
           \/ \E net \in Nets, p \in Creds, s \in Creds : a = Base(net, p, s)
           \/ \E net \in Nets, p \in Creds, at \in Place : a = Pointer(net, p, at)
           \/ \E net \in Nets, p \in Creds : a = Enterprise(net, p)
           \/ \E net \in Nets, s \in Creds : a = Reward(net, s)
<1>1. a \in [type : {"base"}, net : Nets, payment : Creds, stake : Creds]
        <=> \E net \in Nets, p \in Creds, s \in Creds : a = Base(net, p, s)
  BY DEF Base
<1>2. a \in [type : {"pointer"}, net : Nets, payment : Creds, at : Place]
        <=> \E net \in Nets, p \in Creds, at \in Place : a = Pointer(net, p, at)
  BY DEF Pointer
<1>3. a \in [type : {"enterprise"}, net : Nets, payment : Creds]
        <=> \E net \in Nets, p \in Creds : a = Enterprise(net, p)
  BY DEF Enterprise
<1>4. a \in [type : {"reward"}, net : Nets, stake : Creds]
        <=> \E net \in Nets, s \in Creds : a = Reward(net, s)
  BY DEF Reward
<1>5. Address =
        [type : {"base"}, net : Nets, payment : Creds, stake : Creds]
          \cup [type : {"pointer"}, net : Nets, payment : Creds, at : Place]
          \cup [type : {"enterprise"}, net : Nets, payment : Creds]
          \cup [type : {"reward"}, net : Nets, stake : Creds]
  BY DEF Address, Nets, Place, Uint64
<1> QED BY <1>1, <1>2, <1>3, <1>4, <1>5

LEMMA CredParts ==
  ASSUME NEW c \in Creds
  PROVE  /\ c.kind \in {0, 1} /\ c.hash \in Seq(Byte) /\ Len(c.hash) = HashLen
         /\ c = [kind |-> c.kind, hash |-> c.hash]
<1>1. c.kind \in {0, 1} /\ c.hash \in [1 .. HashLen -> Byte] /\ c = [kind |-> c.kind, hash |-> c.hash]
  BY DEF Creds
<1>2. HashLen \in Nat
  BY AddressAssumption
<1> QED BY <1>1, <1>2, FunctionSeq

LEMMA CredOf ==
  ASSUME NEW k \in {0, 1}, NEW h \in Seq(Byte), Len(h) = HashLen
  PROVE  [kind |-> k, hash |-> h] \in Creds
<1>1. h \in [1 .. HashLen -> Byte]
  BY LenProperties
<1> QED BY <1>1 DEF Creds

LEMMA HeaderParts ==
  ASSUME NEW code \in 0 .. 15, NEW net \in Nets, NEW h, h = Header(code, net)
  PROVE  /\ h \in Byte /\ h \div 16 = code /\ NetworkOf(h % 16) = net
         /\ (h \div 2 ^ 4) % 2 = code % 2
         /\ (h \div 2 ^ 5) % 2 = (code \div 2) % 2
<1>1. PICK id \in {0, 1} : id = NetworkId(net) /\ NetworkOf(id) = net
  BY DEF Nets, NetworkId, NetworkOf
<1>2. h = code * 16 + id
  BY <1>1 DEF Header
<1>3. h \in Byte /\ h \div 16 = code /\ h % 16 = id
  BY <1>2 DEF Byte
<1>4. h \div 32 = code \div 2
  BY <1>2
<1>5. 2 ^ 4 = 16 /\ 2 ^ 5 = 32
  OBVIOUS
<1> QED BY <1>1, <1>3, <1>4, <1>5

\* A header, a hash and what is behind them.
Laid(d, h, x, t) ==
  /\ d \in Seq(Byte) /\ d # <<>> /\ d[1] = h
  /\ Len(d) = (1 + HashLen) + Len(t)
  /\ SubSeq(d, 1 + 1, 1 + HashLen) = x
  /\ From(d, 1 + HashLen) = t

LEMMA Layout ==
  ASSUME NEW h \in Byte, NEW x \in Seq(Byte), Len(x) = HashLen, NEW t \in Seq(Byte)
  PROVE  Laid((<<h>> \o x) \o t, h, x, t)
<1>0. PICK d : d = (<<h>> \o x) \o t
  OBVIOUS
<1>1. PICK z : z = <<h>>
  OBVIOUS
<1>2. z \in Seq(Byte) /\ Len(z) = 1 /\ z[1] = h
  BY <1>1
<1>3. PICK p : p = z \o x
  OBVIOUS
<1>4. HashLen \in Nat
  BY AddressAssumption
<1>5. /\ p \in Seq(Byte) /\ Len(p) = 1 + HashLen
      /\ \A i \in 1 .. 1 : p[i] = z[i]
      /\ \A i \in 1 .. HashLen : p[1 + i] = x[i]
  <2>1. p \in Seq(Byte) /\ Joins(p, z, x, 1, HashLen)
    BY <1>2, <1>3, ConcatJoins
  <2> QED BY <2>1 DEF Joins
<1>6. PICK k, n : k = 1 + HashLen /\ n = Len(t)
  OBVIOUS
<1>7. /\ k \in Nat /\ n \in Nat /\ d \in Seq(Byte) /\ Len(d) = k + n
      /\ \A i \in 1 .. k : d[i] = p[i]
  <2>1. d \in Seq(Byte) /\ Joins(d, p, t, k, n)
    BY <1>0, <1>1, <1>3, <1>5, <1>6, ConcatJoins
  <2> QED BY <2>1 DEF Joins
<1>8. d[1] = h
  <2>1. 1 \in 1 .. 1 /\ 1 \in 1 .. k
    BY <1>4, <1>6
  <2> QED BY <1>2, <1>5, <1>7, <2>1
<1>9. SubSeq(d, 1 + 1, 1 + HashLen) = x
  <2>1. ASSUME NEW i \in 1 .. HashLen PROVE d[1 + i] = x[i]
    <3>1. 1 + i \in 1 .. k
      BY <1>4, <1>6
    <3> QED BY <1>5, <1>7, <3>1
  <2>2. 1 \in Nat /\ 1 + HashLen <= Len(d)
    BY <1>6, <1>7
  <2> QED BY <1>7, <2>1, <2>2, Slice
<1>10. From(d, k) = t
  <2>1. d = p \o t
    BY <1>0, <1>1, <1>3
  <2> QED BY <1>5, <1>6, <2>1, TailAfter
<1>11. d # <<>>
  <2>1. Len(d) # 0
    BY <1>4, <1>6, <1>7
  <2> QED BY <2>1
<1>12. Laid(d, h, x, t)
  BY <1>6, <1>7, <1>8, <1>9, <1>10, <1>11 DEF Laid
<1> QED BY <1>0, <1>12

(***************************************************************************)
(* Which way bytes are read.                                               *)
(***************************************************************************)
LEMMA Dispatch ==
  ASSUME NEW d, d # <<>>, NEW code, code = d[1] \div 16
  PROVE  /\ code \in 0 .. 3 => NewAddressFromBytes(d) = BaseOf(d)
         /\ code \in {4, 5} => NewAddressFromBytes(d) = PointerOf(d)
         /\ code \in {6, 7} /\ Len(d) = 1 + HashLen =>
              NewAddressFromBytes(d) = <<"ok", Enterprise(NetworkOf(d[1] % 16), ReadAddrCred(d, 4, 1))>>
         /\ code \in {14, 15} /\ Len(d) = 1 + HashLen =>
              NewAddressFromBytes(d) = <<"ok", Reward(NetworkOf(d[1] % 16), ReadAddrCred(d, 4, 1))>>
         /\ code \in {6, 7, 14, 15} /\ Len(d) # 1 + HashLen => NewAddressFromBytes(d) = <<"error">>
         /\ ~(code \in 0 .. 7 \cup {14, 15}) => NewAddressFromBytes(d) \in {<<"byron">>, <<"error">>}
<1>1. PICK net : net = NetworkOf(d[1] % 16)
  OBVIOUS
<1>2. PICK b, p, c : b = BaseOf(d) /\ p = PointerOf(d) /\ c = ReadAddrCred(d, 4, 1)
  OBVIOUS
<1>3. NewAddressFromBytes(d) =
        CASE code \in 0 .. 3 -> b
          [] code \in {4, 5} -> p
          [] code \in {6, 7, 14, 15} ->
               IF Len(d) # 1 + HashLen THEN <<"error">>
               ELSE <<"ok", IF code \in {6, 7} THEN Enterprise(net, c) ELSE Reward(net, c)>>
          [] code = 8 -> <<"byron">>
          [] OTHER -> <<"error">>
  BY <1>1, <1>2 DEF NewAddressFromBytes
<1>4. code \in 0 .. 3 => NewAddressFromBytes(d) = b
  BY <1>3
<1>5. code \in {4, 5} => NewAddressFromBytes(d) = p
  BY <1>3
<1>6. code \in {6, 7, 14, 15} =>
        NewAddressFromBytes(d) =
          IF Len(d) # 1 + HashLen THEN <<"error">>
          ELSE <<"ok", IF code \in {6, 7} THEN Enterprise(net, c) ELSE Reward(net, c)>>
  BY <1>3
<1>7. code \in {14, 15} => ~(code \in {6, 7})
  OBVIOUS
<1>8. ~(code \in 0 .. 7 \cup {14, 15}) => NewAddressFromBytes(d) \in {<<"byron">>, <<"error">>}
  <2>1. ~(code \in 0 .. 7 \cup {14, 15}) =>
          ~(code \in 0 .. 3) /\ ~(code \in {4, 5}) /\ ~(code \in {6, 7, 14, 15})
    OBVIOUS
  <2> QED BY <1>3, <2>1
<1> QED BY <1>1, <1>2, <1>4, <1>5, <1>6, <1>7, <1>8

(***************************************************************************)
(* The three numbers of a pointer.                                         *)
(***************************************************************************)
LEMMA NatsBack ==
  ASSUME NEW at \in Place, NEW f, f = Nats(at),
         NEW g, g = From(f, NatLen(f)), NEW h, h = From(g, NatLen(g))
  PROVE  /\ f \in Seq(Byte) /\ Len(f) >= 3
         /\ NatLen(f) # 0 /\ NatLen(g) # 0 /\ NatLen(h) # 0
         /\ From(h, NatLen(h)) = <<>>
         /\ at = [slot |-> VariableNatDecode(f), txIndex |-> VariableNatDecode(g),
                  certIndex |-> VariableNatDecode(h)]
<1>1. /\ at.slot \in Uint64 /\ at.txIndex \in Uint64 /\ at.certIndex \in Uint64
      /\ at = [slot |-> at.slot, txIndex |-> at.txIndex, certIndex |-> at.certIndex]
  BY DEF Place
<1>2. PICK u : u = VariableNatEncode(at.slot)
  OBVIOUS
<1>3. PICK v : v = VariableNatEncode(at.txIndex)
  OBVIOUS
<1>4. PICK w : w = VariableNatEncode(at.certIndex)
  OBVIOUS
<1>5. <<>> \in Seq(Byte)
  OBVIOUS
<1>6. /\ w \in Seq(Byte) /\ Len(w) \in Nat \ {0}
      /\ NatLen(w \o <<>>) = Len(w) /\ VariableNatDecode(w \o <<>>) = at.certIndex
      /\ From(w \o <<>>, Len(w)) = <<>>
  BY <1>1, <1>4, <1>5, NatReadsBack
<1>7. w \o <<>> = w
  BY <1>6, ConcatEmptySeq
<1>8. /\ v \in Seq(Byte) /\ Len(v) \in Nat \ {0}
      /\ NatLen(v \o w) = Len(v) /\ VariableNatDecode(v \o w) = at.txIndex
      /\ From(v \o w, Len(v)) = w
  BY <1>1, <1>3, <1>6, NatReadsBack
<1>9. PICK b : b = v \o w
  OBVIOUS
<1>10. b \in Seq(Byte) /\ Len(b) = Len(v) + Len(w)
  BY <1>6, <1>8, <1>9, ConcatProperties
<1>11. /\ u \in Seq(Byte) /\ Len(u) \in Nat \ {0}
       /\ NatLen(u \o b) = Len(u) /\ VariableNatDecode(u \o b) = at.slot
       /\ From(u \o b, Len(u)) = b
  BY <1>1, <1>2, <1>10, NatReadsBack
<1>12. f = u \o b
  <2>1. f = (u \o v) \o w
    BY <1>2, <1>3, <1>4 DEF Nats
  <2>2. u \in Seq(Byte) /\ v \in Seq(Byte) /\ w \in Seq(Byte)
    BY <1>6, <1>8, <1>11
  <2>3. (u \o v) \o w = u \o (v \o w)
    BY <2>2, ConcatAssociative
  <2> QED BY <1>9, <2>1, <2>3
<1>13. NatLen(f) = Len(u) /\ g = b /\ VariableNatDecode(f) = at.slot
  BY <1>11, <1>12
<1>14. NatLen(g) = Len(v) /\ h = w /\ VariableNatDecode(g) = at.txIndex
  BY <1>8, <1>9, <1>13
<1>15. NatLen(h) = Len(w) /\ From(h, NatLen(h)) = <<>> /\ VariableNatDecode(h) = at.certIndex
  BY <1>6, <1>7, <1>14
<1>16. f \in Seq(Byte) /\ Len(f) = Len(u) + (Len(v) + Len(w))
  <2>1. f \in Seq(Byte) /\ Len(f) = Len(u) + Len(b)
    BY <1>10, <1>11, <1>12, ConcatProperties
  <2> QED BY <1>10, <2>1
<1>17. Len(f) >= 3
  BY <1>6, <1>8, <1>11, <1>16
<1> QED BY <1>1, <1>6, <1>8, <1>11, <1>13, <1>14, <1>15, <1>16, <1>17

(***************************************************************************)
(* The bytes of every address are read as that address.                    *)
(***************************************************************************)
ReadsItsBytes(a) ==
  /\ Bytes(a) \in Seq(Byte) /\ Bytes(a) # <<>>
  /\ NewAddressFromBytes(Bytes(a)) = <<"ok", a>>

LEMMA BaseReadsBack ==
  ASSUME NEW net \in Nets, NEW p \in Creds, NEW s \in Creds, NEW a, a = Base(net, p, s)
  PROVE  ReadsItsBytes(a)
<1>1. PICK code : code = p.kind + 2 * s.kind
  OBVIOUS
<1>2. p.kind \in {0, 1} /\ s.kind \in {0, 1}
  BY CredParts
<1>3. code \in 0 .. 3 /\ code \in 0 .. 15 /\ code % 2 = p.kind /\ (code \div 2) % 2 = s.kind
  <2>1. PICK k \in {0, 1}, l \in {0, 1} : k = p.kind /\ l = s.kind
    BY <1>2
  <2>2. code = k + 2 * l
    BY <1>1, <2>1
  <2>3. code \in 0 .. 3 /\ code \in 0 .. 15 /\ code % 2 = k /\ (code \div 2) % 2 = l
    BY <2>2
  <2> QED BY <2>1, <2>3
<1>4. PICK h : h = Header(code, net)
  OBVIOUS
<1>5. /\ h \in Byte /\ h \div 16 = code /\ NetworkOf(h % 16) = net
      /\ (h \div 2 ^ 4) % 2 = p.kind /\ (h \div 2 ^ 5) % 2 = s.kind
  BY <1>3, <1>4, HeaderParts
<1>6. PICK x, t : x = p.hash /\ t = s.hash
  OBVIOUS
<1>7. x \in Seq(Byte) /\ Len(x) = HashLen /\ t \in Seq(Byte) /\ Len(t) = HashLen
  BY <1>6, CredParts
<1>8. PICK d : d = (<<h>> \o x) \o t
  OBVIOUS
<1>9. Bytes(a) = d
  <2>1. a.type = "base" /\ a.net = net /\ a.payment = p /\ a.stake = s
    BY DEF Base
  <2> QED BY <1>1, <1>4, <1>6, <1>8, <2>1 DEF Bytes
<1>10. /\ d \in Seq(Byte) /\ d # <<>> /\ d[1] = h
       /\ Len(d) = (1 + HashLen) + Len(t)
       /\ SubSeq(d, 1 + 1, 1 + HashLen) = x
       /\ From(d, 1 + HashLen) = t
  <2>1. Laid(d, h, x, t)
    BY <1>5, <1>7, <1>8, Layout
  <2> QED BY <2>1 DEF Laid
<1>11. HashLen \in Nat
  BY AddressAssumption
<1>12. ReadAddrCred(d, 4, 1) = p
  <2>1. p = [kind |-> p.kind, hash |-> p.hash]
    BY CredParts
  <2> QED BY <1>5, <1>6, <1>10, <2>1 DEF ReadAddrCred
<1>13. ReadAddrCred(d, 5, 1 + HashLen) = s
  <2>1. s = [kind |-> s.kind, hash |-> s.hash]
    BY CredParts
  <2>2. SubSeq(d, (1 + HashLen) + 1, (1 + HashLen) + HashLen) = t
    BY <1>7, <1>10 DEF From
  <2> QED BY <1>5, <1>6, <1>10, <2>1, <2>2 DEF ReadAddrCred
<1>14. ~(Len(d) < 1 + 2 * HashLen)
  BY <1>7, <1>10, <1>11
<1>15. BaseOf(d) = <<"ok", a>>
  BY <1>5, <1>10, <1>12, <1>13, <1>14 DEF BaseOf
<1>16. NewAddressFromBytes(d) = BaseOf(d)
  BY <1>3, <1>5, <1>10, Dispatch
<1> QED BY <1>9, <1>10, <1>15, <1>16 DEF ReadsItsBytes

LEMMA PointerReadsBack ==
  ASSUME NEW net \in Nets, NEW p \in Creds, NEW at \in Place, NEW a, a = Pointer(net, p, at)
  PROVE  /\ ReadsItsBytes(a)
         /\ PointerOf(Bytes(a)) = <<"ok", a>> /\ Bytes(a)[1] \div 16 \in {4, 5}
<1>1. PICK code : code = 4 + p.kind
  OBVIOUS
<1>2. p.kind \in {0, 1}
  BY CredParts
<1>3. code \in {4, 5} /\ code \in 0 .. 15 /\ code % 2 = p.kind
  BY <1>1, <1>2
<1>4. PICK h : h = Header(code, net)
  OBVIOUS
<1>5. /\ h \in Byte /\ h \div 16 = code /\ NetworkOf(h % 16) = net
      /\ (h \div 2 ^ 4) % 2 = p.kind
  BY <1>3, <1>4, HeaderParts
<1>6. PICK x : x = p.hash
  OBVIOUS
<1>7. x \in Seq(Byte) /\ Len(x) = HashLen
  BY <1>6, CredParts
<1>8. PICK first : first = Nats(at)
  OBVIOUS
<1>9. PICK second : second = From(first, NatLen(first))
  OBVIOUS
<1>10. PICK third : third = From(second, NatLen(second))
  OBVIOUS
<1>11. /\ first \in Seq(Byte) /\ Len(first) >= 3
       /\ NatLen(first) # 0 /\ NatLen(second) # 0 /\ NatLen(third) # 0
       /\ From(third, NatLen(third)) = <<>>
       /\ at = [slot |-> VariableNatDecode(first), txIndex |-> VariableNatDecode(second),
                certIndex |-> VariableNatDecode(third)]
  BY <1>8, <1>9, <1>10, NatsBack
<1>12. PICK d : d = (<<h>> \o x) \o first
  OBVIOUS
<1>13. Bytes(a) = d
  <2>1. a.type = "pointer" /\ a.net = net /\ a.payment = p /\ a.at = at
    BY DEF Pointer
  <2> QED BY <1>1, <1>4, <1>6, <1>8, <1>12, <2>1 DEF Bytes
<1>14. /\ d \in Seq(Byte) /\ d # <<>> /\ d[1] = h
       /\ Len(d) = (1 + HashLen) + Len(first)
       /\ SubSeq(d, 1 + 1, 1 + HashLen) = x
       /\ From(d, 1 + HashLen) = first
  <2>1. Laid(d, h, x, first)
    BY <1>5, <1>7, <1>11, <1>12, Layout
  <2> QED BY <2>1 DEF Laid
<1>15. ReadAddrCred(d, 4, 1) = p
  <2>1. p = [kind |-> p.kind, hash |-> p.hash]
    BY CredParts
  <2> QED BY <1>5, <1>6, <1>14, <2>1 DEF ReadAddrCred
<1>16. ~(Len(d) < 1 + HashLen + 3)
  <2>1. HashLen \in Nat /\ Len(first) \in Nat
    BY <1>11, AddressAssumption, LenProperties
  <2> QED BY <1>11, <1>14, <2>1
<1>17. 0 \notin {NatLen(first), NatLen(second), NatLen(third)}
  BY <1>11
<1>18. PointerOf(d) = <<"ok", Pointer(NetworkOf(d[1] % 16), ReadAddrCred(d, 4, 1), at)>>
  BY <1>9, <1>10, <1>11, <1>14, <1>16, <1>17 DEF PointerOf, Complete
<1>19. PointerOf(d) = <<"ok", a>>
  BY <1>5, <1>14, <1>15, <1>18
<1>20. NewAddressFromBytes(d) = PointerOf(d)
  BY <1>3, <1>5, <1>14, Dispatch
<1> QED BY <1>3, <1>5, <1>13, <1>14, <1>19, <1>20 DEF ReadsItsBytes

\* Addresses of one hash.
Single(d, code, net, c) ==
  /\ d \in Seq(Byte) /\ d # <<>> /\ d[1] \div 16 = code /\ NetworkOf(d[1] % 16) = net
  /\ Len(d) = 1 + HashLen
  /\ ReadAddrCred(d, 4, 1) = c

LEMMA OneHash ==
  ASSUME NEW net \in Nets, NEW c \in Creds, NEW code \in 0 .. 15, code % 2 = c.kind
  PROVE  Single(<<Header(code, net)>> \o c.hash, code, net, c)
<1>0. PICK h, d : h = Header(code, net) /\ d = <<h>> \o c.hash
  OBVIOUS
<1>1. /\ h \in Byte /\ h \div 16 = code /\ NetworkOf(h % 16) = net
      /\ (h \div 2 ^ 4) % 2 = c.kind
  BY <1>0, HeaderParts
<1>2. PICK x : x = c.hash
  OBVIOUS
<1>3. x \in Seq(Byte) /\ Len(x) = HashLen /\ c = [kind |-> c.kind, hash |-> x]
  BY <1>2, CredParts
<1>4. PICK e : e = <<>>
  OBVIOUS
<1>5. e \in Seq(Byte) /\ Len(e) = 0
  BY <1>4
<1>6. d = (<<h>> \o x) \o e
  <2>1. PICK z : z = <<h>>
    OBVIOUS
  <2>2. z \in Seq(Byte)
    BY <1>1, <2>1
  <2>3. PICK y : y = z \o x
    OBVIOUS
  <2>4. y \in Seq(Byte)
    BY <1>3, <2>2, <2>3, ConcatProperties
  <2>5. y \o e = y
    BY <1>4, <2>4, ConcatEmptySeq
  <2> QED BY <1>0, <1>2, <2>1, <2>3, <2>5
<1>7. /\ d \in Seq(Byte) /\ d # <<>> /\ d[1] = h
      /\ Len(d) = (1 + HashLen) + Len(e)
      /\ SubSeq(d, 1 + 1, 1 + HashLen) = x
  <2>1. Laid(d, h, x, e)
    BY <1>1, <1>3, <1>5, <1>6, Layout
  <2> QED BY <2>1 DEF Laid
<1>8. Len(d) = 1 + HashLen
  BY <1>5, <1>7, AddressAssumption
<1>9. ReadAddrCred(d, 4, 1) = c
  BY <1>1, <1>3, <1>7 DEF ReadAddrCred
<1>10. Single(d, code, net, c)
  BY <1>1, <1>7, <1>8, <1>9 DEF Single
<1> QED BY <1>0, <1>10

LEMMA EnterpriseReadsBack ==
  ASSUME NEW net \in Nets, NEW p \in Creds, NEW a, a = Enterprise(net, p)
  PROVE  /\ ReadsItsBytes(a)
         /\ Len(Bytes(a)) = 1 + HashLen /\ Bytes(a)[1] \div 16 \in {6, 7}
<1>1. PICK code : code = 6 + p.kind
  OBVIOUS
<1>2. p.kind \in {0, 1}
  BY CredParts
<1>3. code \in {6, 7} /\ code \in 0 .. 15 /\ code % 2 = p.kind
  BY <1>1, <1>2
<1>4. PICK d : d = <<Header(code, net)>> \o p.hash
  OBVIOUS
<1>5. Bytes(a) = d
  <2>1. a.type = "enterprise" /\ a.net = net /\ a.payment = p
    BY DEF Enterprise
  <2> QED BY <1>1, <1>4, <2>1 DEF Bytes
<1>6. /\ d \in Seq(Byte) /\ d # <<>> /\ d[1] \div 16 = code /\ NetworkOf(d[1] % 16) = net
      /\ Len(d) = 1 + HashLen
      /\ ReadAddrCred(d, 4, 1) = p
  <2>1. Single(d, code, net, p)
    BY <1>3, <1>4, OneHash
  <2> QED BY <2>1 DEF Single
<1>7. NewAddressFromBytes(d) = <<"ok", Enterprise(NetworkOf(d[1] % 16), ReadAddrCred(d, 4, 1))>>
  BY <1>3, <1>6, Dispatch
<1> QED BY <1>3, <1>5, <1>6, <1>7 DEF ReadsItsBytes

LEMMA RewardReadsBack ==
  ASSUME NEW net \in Nets, NEW s \in Creds, NEW a, a = Reward(net, s)
  PROVE  /\ ReadsItsBytes(a)
         /\ Len(Bytes(a)) = 1 + HashLen /\ Bytes(a)[1] \div 16 \in {14, 15}
<1>1. PICK code : code = 14 + s.kind
  OBVIOUS
<1>2. s.kind \in {0, 1}
  BY CredParts
<1>3. code \in {14, 15} /\ code \in 0 .. 15 /\ code % 2 = s.kind
  BY <1>1, <1>2
<1>4. PICK d : d = <<Header(code, net)>> \o s.hash
  OBVIOUS
<1>5. Bytes(a) = d
  <2>1. a.type = "reward" /\ a.net = net /\ a.stake = s
    BY DEF Reward
  <2> QED BY <1>1, <1>4, <2>1 DEF Bytes
<1>6. /\ d \in Seq(Byte) /\ d # <<>> /\ d[1] \div 16 = code /\ NetworkOf(d[1] % 16) = net
      /\ Len(d) = 1 + HashLen
      /\ ReadAddrCred(d, 4, 1) = s
  <2>1. Single(d, code, net, s)
    BY <1>3, <1>4, OneHash
  <2> QED BY <2>1 DEF Single
<1>7. NewAddressFromBytes(d) = <<"ok", Reward(NetworkOf(d[1] % 16), ReadAddrCred(d, 4, 1))>>
  BY <1>3, <1>6, Dispatch
<1> QED BY <1>3, <1>5, <1>6, <1>7 DEF ReadsItsBytes

\* Whatever its type, its credentials and the size of its numbers, an address
\* is read from its bytes: NewAddressFromBytes undoes Bytes.
THEOREM BytesReadBack ==
  ASSUME NEW a \in Address
  PROVE  ReadsItsBytes(a)
<1>1. CASE \E net \in Nets, p \in Creds, s \in Creds : a = Base(net, p, s)
  BY <1>1, BaseReadsBack
<1>2. CASE \E net \in Nets, p \in Creds, at \in Place : a = Pointer(net, p, at)
  BY <1>2, PointerReadsBack
<1>3. CASE \E net \in Nets, p \in Creds : a = Enterprise(net, p)
  BY <1>3, EnterpriseReadsBack
<1>4. CASE \E net \in Nets, s \in Creds : a = Reward(net, s)
  BY <1>4, RewardReadsBack
<1> QED BY <1>1, <1>2, <1>3, <1>4, FourTypes

(***************************************************************************)
(* No pointer address begins another one.                                  *)
(***************************************************************************)
LEMMA PointerOutcomes ==
  ASSUME NEW d
  PROVE  \/ PointerOf(d) = <<"error">>
         \/ /\ PointerOf(d)[1] = "ok" /\ PointerOf(d) # <<"error">>
            /\ ~(Len(d) < 1 + HashLen + 3)
            /\ LET first  == From(d, 1 + HashLen)
                   second == From(first, NatLen(first))
                   third  == From(second, NatLen(second))
               IN  /\ NatLen(first) # 0 /\ NatLen(second) # 0 /\ NatLen(third) # 0
                   /\ From(third, NatLen(third)) = <<>>
<1>1. PICK first : first = From(d, 1 + HashLen)
  OBVIOUS
<1>2. PICK second : second = From(first, NatLen(first))
  OBVIOUS
<1>3. PICK third : third = From(second, NatLen(second))
  OBVIOUS
<1>4. PICK r : r = <<"ok", Pointer(NetworkOf(d[1] % 16), ReadAddrCred(d, 4, 1),
                                   [slot      |-> VariableNatDecode(first),
                                    txIndex   |-> VariableNatDecode(second),
                                    certIndex |-> VariableNatDecode(third)])>>
  OBVIOUS
<1>5. PointerOf(d) =
        IF \/ Len(d) < 1 + HashLen + 3
           \/ 0 \in {NatLen(first), NatLen(second), NatLen(third)}
           \/ ~(From(third, NatLen(third)) = <<>>)
        THEN <<"error">> ELSE r
  BY <1>1, <1>2, <1>3, <1>4 DEF PointerOf, Complete
<1>6. r[1] = "ok" /\ r # <<"error">>
  BY <1>4
<1> QED BY <1>1, <1>2, <1>3, <1>5, <1>6

LEMMA NothingBehindPointer ==
  ASSUME NEW d \in Seq(Byte), NEW e \in Seq(Byte), e # <<>>, PointerOf(d)[1] = "ok"
  PROVE  PointerOf(d \o e) = <<"error">>
<1>1. PICK first : first = From(d, 1 + HashLen)
  OBVIOUS
<1>2. PICK second : second = From(first, NatLen(first))
  OBVIOUS
<1>3. PICK third : third = From(second, NatLen(second))
  OBVIOUS
<1>4. /\ ~(Len(d) < 1 + HashLen + 3)
      /\ NatLen(first) # 0 /\ NatLen(second) # 0 /\ NatLen(third) # 0
      /\ From(third, NatLen(third)) = <<>>
  <2>1. <<"error">>[1] # "ok"
    OBVIOUS
  <2> QED BY <1>1, <1>2, <1>3, <2>1, PointerOutcomes
<1>5. 1 + HashLen \in 0 .. Len(d)
  <2>1. HashLen \in Nat /\ Len(d) \in Nat
    BY AddressAssumption, LenProperties
  <2> QED BY <1>4, <2>1
<1>6. first \in Seq(Byte) /\ From(d \o e, 1 + HashLen) = first \o e
  <2>1. From(d, 1 + HashLen) \in Seq(Byte)
    BY <1>5, TwoParts
  <2>2. From(d \o e, 1 + HashLen) = From(d, 1 + HashLen) \o e
    BY <1>5, FromConcat
  <2> QED BY <1>1, <2>1, <2>2
<1>7. /\ second \in Seq(Byte) /\ NatLen(first \o e) = NatLen(first)
      /\ From(first \o e, NatLen(first)) = second \o e
  <2>1. FirstNat(first, NatLen(first))
    BY <1>4, <1>6, NatLenCases
  <2> QED BY <1>2, <1>6, <2>1, NatGoesOn
<1>8. /\ third \in Seq(Byte) /\ NatLen(second \o e) = NatLen(second)
      /\ From(second \o e, NatLen(second)) = third \o e
  <2>1. FirstNat(second, NatLen(second))
    BY <1>4, <1>7, NatLenCases
  <2> QED BY <1>3, <1>7, <2>1, NatGoesOn
<1>9. /\ NatLen(third \o e) = NatLen(third)
      /\ From(third \o e, NatLen(third)) = e
  <2>1. FirstNat(third, NatLen(third))
    BY <1>4, <1>8, NatLenCases
  <2>2. /\ NatLen(third \o e) = NatLen(third)
        /\ From(third \o e, NatLen(third)) = From(third, NatLen(third)) \o e
    BY <1>8, <2>1, NatGoesOn
  <2>3. <<>> \o e = e
    BY ConcatEmptySeq
  <2> QED BY <1>4, <2>2, <2>3
<1>10. PICK f : f = From(d \o e, 1 + HashLen)
  OBVIOUS
<1>11. PICK g : g = From(f, NatLen(f))
  OBVIOUS
<1>12. PICK h : h = From(g, NatLen(g))
  OBVIOUS
<1>13. f = first \o e /\ g = second \o e /\ h = third \o e
  BY <1>6, <1>7, <1>8, <1>10, <1>11, <1>12
<1>14. From(h, NatLen(h)) # <<>>
  BY <1>9, <1>13
<1> QED BY <1>10, <1>11, <1>12, <1>14, PointerOutcomes

(***************************************************************************)
(* What is read is an address.                                             *)
(***************************************************************************)
LEMMA CredRead ==
  ASSUME NEW d \in Seq(Byte), NEW pos \in Nat, pos + HashLen <= Len(d), NEW bit \in {4, 5},
         NEW head \in Byte, head = d[1]
  PROVE  ReadAddrCred(d, bit, pos) \in Creds
<1>1. HashLen \in Nat
  BY AddressAssumption
<1>2. PICK x : x = SubSeq(d, pos + 1, pos + HashLen)
  OBVIOUS
<1>3. x \in Seq(Byte) /\ Len(x) = HashLen
  BY <1>1, <1>2, PartType
<1>4. PICK k : k = (head \div 2 ^ bit) % 2
  OBVIOUS
<1>5. k \in {0, 1}
  <2>1. 2 ^ bit \in {16, 32}
    <3>1. 2 ^ 4 = 16 /\ 2 ^ 5 = 32
      OBVIOUS
    <3> QED BY <3>1
  <2>2. PICK b \in 0 .. 255 : b = head
    BY DEF Byte
  <2>3. (b \div 16) % 2 \in {0, 1} /\ (b \div 32) % 2 \in {0, 1}
    OBVIOUS
  <2> QED BY <1>4, <2>1, <2>2, <2>3
<1>6. ReadAddrCred(d, bit, pos) = [kind |-> k, hash |-> x]
  BY <1>2, <1>4 DEF ReadAddrCred
<1> QED BY <1>3, <1>5, <1>6, CredOf

LEMMA NatRead ==
  ASSUME NEW s \in Seq(Byte), NatLen(s) # 0
  PROVE  VariableNatDecode(s) \in Uint64 /\ From(s, NatLen(s)) \in Seq(Byte)
<1>1. PICK k : k = NatLen(s)
  OBVIOUS
<1>2. k \in 0 .. Len(s)
  <2>1. FirstNat(s, k)
    BY <1>1, NatLenCases
  <2>2. Len(s) \in Nat
    BY LenProperties
  <2> QED BY <2>1, <2>2 DEF FirstNat
<1>3. SubSeq(s, 1, k) \in Seq(Byte) /\ From(s, k) \in Seq(Byte)
  BY <1>2, TwoParts
<1>4. Shifted(SubSeq(s, 1, k)) \in Uint64
  BY <1>3, ShiftedType
<1> QED BY <1>1, <1>3, <1>4 DEF VariableNatDecode

LEMMA NetworkKnown ==
  ASSUME NEW id
  PROVE  NetworkOf(id) \in Networks
  BY DEF NetworkOf, Networks

\* An address on another network.
On(a, net) == [a EXCEPT !.net = net]

LEMMA OnNetwork ==
  ASSUME NEW n, NEW net, NEW p, NEW s
  PROVE  /\ On(Base(n, p, s), net) = Base(net, p, s)
         /\ On(Pointer(n, p, s), net) = Pointer(net, p, s)
         /\ On(Enterprise(n, p), net) = Enterprise(net, p)
         /\ On(Reward(n, s), net) = Reward(net, s)
<1>1. On(Base(n, p, s), net) = Base(net, p, s)
  BY DEF On, Base
<1>2. On(Pointer(n, p, s), net) = Pointer(net, p, s)
  BY DEF On, Pointer
<1>3. On(Enterprise(n, p), net) = Enterprise(net, p)
  BY DEF On, Enterprise
<1>4. On(Reward(n, s), net) = Reward(net, s)
  BY DEF On, Reward
<1> QED BY <1>1, <1>2, <1>3, <1>4

\* What is read, if it is an address: one of those there are, but on the network
\* net, which the package need not know.
ReadsAddress(r, net) == r[1] = "ok" => \E a \in Address : r = <<"ok", On(a, net)>>

LEMMA BaseRead ==
  ASSUME NEW d \in Seq(Byte), NEW head \in Byte, head = d[1]
  PROVE  ReadsAddress(BaseOf(d), NetworkOf(d[1] % 16))
<1>1. CASE Len(d) < 1 + 2 * HashLen
  <2>1. BaseOf(d) = <<"unchecked">>
    BY <1>1 DEF BaseOf
  <2> QED BY <2>1 DEF ReadsAddress
<1>2. CASE ~(Len(d) < 1 + 2 * HashLen)
  <2>1. PICK net : net = NetworkOf(d[1] % 16)
    OBVIOUS
  <2>2. PICK p, s : p = ReadAddrCred(d, 4, 1) /\ s = ReadAddrCred(d, 5, 1 + HashLen)
    OBVIOUS
  <2>3. HashLen \in Nat /\ Len(d) \in Nat
    BY AddressAssumption, LenProperties
  <2>4. p \in Creds
    <3>1. 1 \in Nat /\ 1 + HashLen <= Len(d)
      BY <1>2, <2>3
    <3> QED BY <2>2, <3>1, CredRead
  <2>5. s \in Creds
    <3>1. 1 + HashLen \in Nat /\ (1 + HashLen) + HashLen <= Len(d)
      BY <1>2, <2>3
    <3> QED BY <2>2, <3>1, CredRead
  <2>6. PICK a : a = Base(net, p, s)
    OBVIOUS
  <2>7. BaseOf(d) = <<"ok", a>>
    BY <1>2, <2>1, <2>2, <2>6 DEF BaseOf
  <2>8. "main" \in Nets
    BY DEF Nets
  <2>9. Base("main", p, s) \in Address
    BY <2>4, <2>5, <2>8, FourTypes
  <2>10. a = On(Base("main", p, s), net)
    BY <2>6, OnNetwork
  <2> QED BY <2>1, <2>7, <2>9, <2>10 DEF ReadsAddress
<1> QED BY <1>1, <1>2

LEMMA PointerRead ==
  ASSUME NEW d \in Seq(Byte), NEW head \in Byte, head = d[1]
  PROVE  ReadsAddress(PointerOf(d), NetworkOf(d[1] % 16))
<1>1. PICK first : first = From(d, 1 + HashLen)
  OBVIOUS
<1>2. PICK second : second = From(first, NatLen(first))
  OBVIOUS
<1>3. PICK third : third = From(second, NatLen(second))
  OBVIOUS
<1>4. PICK net : net = NetworkOf(d[1] % 16)
  OBVIOUS
<1>5. PICK p : p = ReadAddrCred(d, 4, 1)
  OBVIOUS
<1>6. PICK at : at = [slot      |-> VariableNatDecode(first),
                      txIndex   |-> VariableNatDecode(second),
                      certIndex |-> VariableNatDecode(third)]
  OBVIOUS
<1>7. PICK a : a = Pointer(net, p, at)
  OBVIOUS
<1>8. PointerOf(d) =
        IF \/ Len(d) < 1 + HashLen + 3
           \/ 0 \in {NatLen(first), NatLen(second), NatLen(third)}
           \/ ~(From(third, NatLen(third)) = <<>>)
        THEN <<"error">> ELSE <<"ok", a>>
  BY <1>1, <1>2, <1>3, <1>4, <1>5, <1>6, <1>7 DEF PointerOf, Complete
<1>9. CASE PointerOf(d) = <<"error">>
  BY <1>9 DEF ReadsAddress
<1>10. CASE /\ ~(Len(d) < 1 + HashLen + 3)
            /\ NatLen(first) # 0 /\ NatLen(second) # 0 /\ NatLen(third) # 0
            /\ From(third, NatLen(third)) = <<>>
  <2>1. PointerOf(d) = <<"ok", a>>
    BY <1>8, <1>10
  <2>2. HashLen \in Nat /\ Len(d) \in Nat
    BY AddressAssumption, LenProperties
  <2>3. p \in Creds
    <3>1. 1 \in Nat /\ 1 + HashLen <= Len(d)
      BY <1>10, <2>2
    <3> QED BY <1>5, <3>1, CredRead
  <2>4. first \in Seq(Byte)
    <3>1. 1 + HashLen \in 0 .. Len(d)
      BY <1>10, <2>2
    <3> QED BY <1>1, <3>1, TwoParts
  <2>5. second \in Seq(Byte) /\ VariableNatDecode(first) \in Uint64
    BY <1>2, <1>10, <2>4, NatRead
  <2>6. third \in Seq(Byte) /\ VariableNatDecode(second) \in Uint64
    BY <1>3, <1>10, <2>5, NatRead
  <2>7. VariableNatDecode(third) \in Uint64
    BY <1>10, <2>6, NatRead
  <2>8. at \in Place
    BY <1>6, <2>5, <2>6, <2>7 DEF Place
  <2>9. "main" \in Nets
    BY DEF Nets
  <2>10. Pointer("main", p, at) \in Address
    BY <2>3, <2>8, <2>9, FourTypes
  <2>11. a = On(Pointer("main", p, at), net)
    BY <1>7, OnNetwork
  <2> QED BY <1>4, <2>1, <2>10, <2>11 DEF ReadsAddress
<1> QED BY <1>8, <1>9, <1>10

LEMMA OneHashRead ==
  ASSUME NEW d \in Seq(Byte), NEW head \in Byte, head = d[1], Len(d) = 1 + HashLen
  PROVE  LET net == NetworkOf(d[1] % 16)
             c == ReadAddrCred(d, 4, 1)
         IN  /\ ReadsAddress(<<"ok", Enterprise(net, c)>>, net)
             /\ ReadsAddress(<<"ok", Reward(net, c)>>, net)
<1>1. PICK net : net = NetworkOf(d[1] % 16)
  OBVIOUS
<1>2. PICK c : c = ReadAddrCred(d, 4, 1)
  OBVIOUS
<1>3. c \in Creds
  <2>1. 1 \in Nat /\ 1 + HashLen <= Len(d)
    BY AddressAssumption
  <2> QED BY <1>2, <2>1, CredRead
<1>4. PICK a, b : a = Enterprise(net, c) /\ b = Reward(net, c)
  OBVIOUS
<1>5. "main" \in Nets
  BY DEF Nets
<1>6. Enterprise("main", c) \in Address /\ Reward("main", c) \in Address
  BY <1>3, <1>5, FourTypes
<1>7. a = On(Enterprise("main", c), net) /\ b = On(Reward("main", c), net)
  BY <1>4, OnNetwork
<1>8. ReadsAddress(<<"ok", a>>, net) /\ ReadsAddress(<<"ok", b>>, net)
  BY <1>6, <1>7 DEF ReadsAddress
<1> QED BY <1>1, <1>2, <1>4, <1>8

\* Whatever bytes are taken for an address give one of the addresses there are,
\* on the network of the header: its hashes have their length and its numbers fit
\* into their words.  The network is the one thing that need not be one there is,
\* since sixteen ids fit into a header and only two are known.
THEOREM OnlyAddressesRead ==
  ASSUME NEW d \in Seq(Byte)
  PROVE  ReadsAddress(NewAddressFromBytes(d), NetworkOf(d[1] % 16))
<1>1. CASE d = <<>>
  <2>1. NewAddressFromBytes(d) = <<"panic">>
    BY <1>1 DEF NewAddressFromBytes
  <2> QED BY <2>1 DEF ReadsAddress
<1>2. CASE d # <<>>
  <2>1. PICK head \in Byte : head = d[1]
    <3>1. Len(d) \in Nat \ {0}
      BY <1>2, EmptySeq
    <3>2. 1 \in 1 .. Len(d)
      BY <3>1
    <3> QED BY <3>2, Elements
  <2>2. PICK code : code = d[1] \div 16
    OBVIOUS
  <2>3. code \in 0 .. 15
    <3>1. PICK b \in 0 .. 255 : b = d[1]
      BY <2>1 DEF Byte
    <3>2. b \div 16 \in 0 .. 15
      OBVIOUS
    <3> QED BY <2>2, <3>1, <3>2
  <2>4. CASE code \in 0 .. 3
    BY <1>2, <2>1, <2>2, <2>4, Dispatch, BaseRead
  <2>5. CASE code \in {4, 5}
    BY <1>2, <2>1, <2>2, <2>5, Dispatch, PointerRead
  <2>6. CASE code \in {6, 7, 14, 15} /\ Len(d) = 1 + HashLen
    BY <1>2, <2>1, <2>2, <2>6, Dispatch, OneHashRead
  <2>7. CASE code \in {6, 7, 14, 15} /\ Len(d) # 1 + HashLen
    <3>1. NewAddressFromBytes(d) = <<"error">>
      BY <1>2, <2>2, <2>7, Dispatch
    <3> QED BY <3>1 DEF ReadsAddress
  <2>8. CASE ~(code \in 0 .. 7 \cup {14, 15})
    <3>1. NewAddressFromBytes(d) \in {<<"byron">>, <<"error">>}
      BY <1>2, <2>2, <2>8, Dispatch
    <3> QED BY <3>1 DEF ReadsAddress
  <2> QED BY <2>3, <2>4, <2>5, <2>6, <2>7, <2>8
<1> QED BY <1>1, <1>2

(***************************************************************************)
(* Strings.                                                                *)
(***************************************************************************)
Begins(p, t) == \E y \in Seq(Nat) : t = p \o y

LEMMA BeginsIsPrefix ==
  ASSUME NEW p \in Seq(Nat), NEW t, Begins(p, t)
  PROVE  IsPrefix(p, t)
<1>1. PICK y \in Seq(Nat) : t = p \o y
  BY DEF Begins
<1>2. SubSeq(t, 1, Len(p)) = p
  BY <1>1, TailAfter
<1>3. SubSeq(p, 1, Len(p)) = p
  <2>1. <<>> \in Seq(Nat) /\ p \o <<>> = p
    BY ConcatEmptySeq
  <2>2. SubSeq(p \o <<>>, 1, Len(p)) = p
    BY <2>1, TailAfter
  <2> QED BY <2>1, <2>2
<1>4. Len(p) <= Len(t)
  <2>1. Len(t) = Len(p) + Len(y) /\ Len(p) \in Nat /\ Len(y) \in Nat
    BY <1>1, ConcatProperties, LenProperties
  <2> QED BY <2>1
<1> QED BY <1>2, <1>3, <1>4 DEF IsPrefix

LEMMA BeginsLonger ==
  ASSUME NEW p \in Seq(Nat), NEW t, Begins(p, t), NEW e \in Seq(Nat)
  PROVE  Begins(p, t \o e)
<1>1. PICK y \in Seq(Nat) : t = p \o y
  BY DEF Begins
<1>2. (p \o y) \o e = p \o (y \o e)
  BY ConcatAssociative, SMTT(30)
<1>3. y \o e \in Seq(Nat)
  BY ConcatProperties
<1> QED BY <1>1, <1>2, <1>3 DEF Begins

LEMMA PrintableNat == Printable \subseteq Nat /\ Character \subseteq Nat
<1>1. 33 .. 126 \subseteq Nat
  OBVIOUS
<1>2. Printable \subseteq 33 .. 126 /\ Character \subseteq 33 .. 126
  BY DEF Printable, Character
<1> QED BY <1>1, <1>2

LEMMA PrefixParts ==
  ASSUME NEW a \in Address
  PROVE  /\ Prefix(a) \in Hrps
         /\ Begins(addr_, Prefix(a)) \/ Begins(stake_, Prefix(a))
<1>1. PICK p \in {addr_, stake_}, x \in {test_, <<>>} : Prefix(a) = p \o x
  BY DEF Prefix
<1>2. p \in Seq(Printable) /\ Len(p) # 0 /\ p \in Seq(Nat)
  <2>1. addr_ \in Seq(Printable) /\ Len(addr_) # 0
    BY DEF addr_, Printable, Upper
  <2>2. stake_ \in Seq(Printable) /\ Len(stake_) # 0
    BY DEF stake_, Printable, Upper
  <2>3. Printable \subseteq Nat
    BY PrintableNat
  <2>4. p \in Seq(Printable) /\ Len(p) # 0
    BY <2>1, <2>2
  <2> QED BY <2>3, <2>4, SeqOfMore
<1>3. x \in Seq(Printable) /\ x \in Seq(Nat)
  <2>1. test_ \in Seq(Printable) /\ <<>> \in Seq(Printable)
    BY DEF test_, Printable, Upper
  <2>2. Printable \subseteq Nat
    BY PrintableNat
  <2>3. x \in Seq(Printable)
    BY <2>1
  <2> QED BY <2>2, <2>3, SeqOfMore
<1>4. PICK q : q = p \o x
  OBVIOUS
<1>5. q \in Seq(Printable) /\ Len(q) = Len(p) + Len(x)
  BY <1>2, <1>3, <1>4, ConcatProperties
<1>6. q # <<>>
  <2>1. Len(p) \in Nat /\ Len(x) \in Nat
    BY <1>2, <1>3, LenProperties
  <2>2. Len(q) # 0
    BY <1>2, <1>5, <2>1
  <2> QED BY <2>2
<1>7. Begins(p, q)
  BY <1>3, <1>4 DEF Begins
<1> QED BY <1>1, <1>4, <1>5, <1>6, <1>7 DEF Hrps

\* A string that is encoded begins like an address.
LEMMA EncodedIsBech32 ==
  ASSUME NEW a \in Address, NEW data \in Seq(Octet)
  PROVE  IsBech32(Encode(Prefix(a), data))
<1>1. PICK hrp : hrp = Prefix(a)
  OBVIOUS
<1>2. PICK v : v = Regroup(data, 8, 5)
  OBVIOUS
<1>3. PICK c : c = CreateChecksum(hrp, v)
  OBVIOUS
<1>4. hrp \in Hrps /\ v \in Seq(Quintet)
  BY <1>1, <1>2, PrefixParts, RegroupedBack
<1>5. c \in Seq(Quintet)
  <2>1. HrpExpand(hrp) \in Seq(Octet)
    BY <1>4, HrpsPrinted, ExpandType
  <2> QED BY <1>3, <1>4, <2>1, ChecksumHolds
<1>6. Chars(v) \in Seq(Nat) /\ Chars(c) \in Seq(Nat)
  <2>1. Character \subseteq Nat
    BY PrintableNat
  <2>2. Chars(v) \in Seq(Character) /\ Chars(c) \in Seq(Character)
    BY <1>4, <1>5, CharsType
  <2> QED BY <2>1, <2>2, SeqOfMore
<1>7. <<One>> \in Seq(Nat)
  BY DEF One
<1>8. PICK p \in {addr_, stake_} : Begins(p, hrp)
  BY <1>1, PrefixParts
<1>9. addr_ \in Seq(Nat) /\ stake_ \in Seq(Nat)
  BY DEF addr_, stake_
<1>10. p \in Seq(Nat)
  BY <1>9
<1>11. Begins(p, hrp \o <<One>>)
  BY <1>7, <1>8, <1>10, BeginsLonger
<1>12. Begins(p, (hrp \o <<One>>) \o Chars(v))
  BY <1>6, <1>10, <1>11, BeginsLonger
<1>13. Begins(p, ((hrp \o <<One>>) \o Chars(v)) \o Chars(c))
  BY <1>6, <1>10, <1>12, BeginsLonger
<1>14. Encode(hrp, data) = ((hrp \o <<One>>) \o Chars(v)) \o Chars(c)
  BY <1>2, <1>3 DEF Encode
<1>15. IsPrefix(p, Encode(hrp, data))
  BY <1>10, <1>13, <1>14, BeginsIsPrefix
<1> QED BY <1>1, <1>15 DEF IsBech32

\* The library that encodes pointer addresses fails on their header.
LEMMA PointerHasNoText ==
  ASSUME NEW a \in Address, a.type = "pointer"
  PROVE  Text(a) = <<>>
<1>1. Bytes(a) \in Seq(Byte) /\ Bytes(a) # <<>>
  BY BytesReadBack DEF ReadsItsBytes
<1>2. \E net \in Nets, p \in Creds, at \in Place : a = Pointer(net, p, at)
  BY FourTypes DEF Base, Enterprise, Reward
<1>3. Bytes(a)[1] \div 16 \in {4, 5}
  BY <1>2, PointerReadsBack
<1>4. ~(ToSet(Bytes(a)) \subseteq 0 .. 31)
  <2>1. PICK n : n = Len(Bytes(a))
    OBVIOUS
  <2>2. n \in Nat \ {0}
    BY <1>1, <2>1, EmptySeq
  <2>3. DOMAIN Bytes(a) = 1 .. n /\ 1 \in 1 .. n
    BY <1>1, <2>1, <2>2, Elements
  <2>4. Bytes(a)[1] \in ToSet(Bytes(a))
    BY <2>3 DEF ToSet
  <2>5. \A x \in 0 .. 31 : ~(x \div 16 \in {4, 5})
    OBVIOUS
  <2> QED BY <1>3, <2>4, <2>5
<1> QED BY <1>4 DEF Text, PointerText

\* The string of every other address.
LEMMA TextDecodes ==
  ASSUME NEW a \in Address, Text(a) # <<>>
  PROVE  Decode(Text(a)) = <<"ok", Bytes(a)>> /\ IsBech32(Text(a))
<1>1. a.type # "pointer"
  BY PointerHasNoText
<1>2. PICK s : s = Text(a)
  OBVIOUS
<1>3. s = Encode(Prefix(a), Bytes(a))
  BY <1>1, <1>2 DEF Text
<1>4. Bytes(a) \in Seq(Octet)
  BY BytesReadBack DEF ReadsItsBytes, Octet, Byte
<1>5. Decode(s) = <<"ok", Bytes(a)>>
  BY <1>3, <1>4, PrefixParts, DecodesEncoded
<1>6. IsBech32(s)
  BY <1>3, <1>4, EncodedIsBech32
<1> QED BY <1>2, <1>5, <1>6

\* The string of an address that has one is read as that address.
THEOREM TextReadsBack ==
  ASSUME NEW a \in Address
  PROVE  Text(a) # <<>> => NewAddress(Text(a)) = <<"ok", a>>
<1>1. NewAddressFromBytes(Bytes(a)) = <<"ok", a>>
  BY BytesReadBack DEF ReadsItsBytes
<1>2. ASSUME Text(a) # <<>> PROVE NewAddress(Text(a)) = <<"ok", a>>
  <2>1. Decode(Text(a)) = <<"ok", Bytes(a)>> /\ IsBech32(Text(a))
    BY <1>2, TextDecodes
  <2> QED BY <1>1, <2>1 DEF NewAddress
<1> QED BY <1>2

LEMMA PrefixElements ==
  ASSUME NEW S, NEW p \in Seq(S), NEW s \in Seq(S), IsPrefix(p, s)
  PROVE  Len(p) <= Len(s) /\ \A i \in 1 .. Len(p) : s[i] = p[i]
<1>1. PICK n \in Nat : n = Len(p)
  BY LenProperties
<1>2. n <= Len(s) /\ SubSeq(p, 1, n) = SubSeq(s, 1, n)
  BY <1>1 DEF IsPrefix
<1>3. (\A i \in 1 .. n : p[i] \in S) /\ (\A i \in 1 .. Len(s) : s[i] \in S) /\ Len(s) \in Nat
  BY <1>1, Elements
<1>4. \A i \in 1 .. n : s[i] \in S
  BY <1>2, <1>3
<1>5. PICK a \in Int, b \in Int : a = 1 /\ b = n
  OBVIOUS
<1>6. \A i \in 1 .. b - a + 1 : SubSeq(p, a, b)[i] = p[a + i - 1]
  BY <1>3, <1>5, SubSeqProperties
<1>7. \A i \in 1 .. b - a + 1 : SubSeq(s, a, b)[i] = s[a + i - 1]
  BY <1>4, <1>5, SubSeqProperties
<1>8. ASSUME NEW i \in 1 .. n PROVE s[i] = p[i]
  <2>1. i \in 1 .. b - a + 1 /\ a + i - 1 = i
    BY <1>5
  <2>2. SubSeq(p, a, b) = SubSeq(s, a, b)
    BY <1>2, <1>5
  <2> QED BY <1>6, <1>7, <2>1, <2>2
<1> QED BY <1>1, <1>2, <1>8

LEMMA ElementsPrefix ==
  ASSUME NEW S, NEW p \in Seq(S), NEW s \in Seq(S), Len(p) <= Len(s),
         \A i \in 1 .. Len(p) : s[i] = p[i]
  PROVE  IsPrefix(p, s)
<1>1. PICK n \in Nat : n = Len(p)
  BY LenProperties
<1>2. \A i \in 1 .. n : s[0 + i] = p[i] /\ p[0 + i] = p[i]
  BY <1>1
<1>3. 0 \in Nat /\ 0 + n <= Len(s) /\ 0 + n <= Len(p) /\ 0 + 1 = 1 /\ 0 + n = n
  BY <1>1
<1>4. SubSeq(s, 0 + 1, 0 + n) = p
  BY <1>1, <1>2, <1>3, Slice
<1>5. SubSeq(p, 0 + 1, 0 + n) = p
  BY <1>1, <1>2, <1>3, Slice
<1> QED BY <1>1, <1>3, <1>4, <1>5 DEF IsPrefix

\* Who mistypes, swaps or overwrites up to six characters in a row of the string
\* of an address, behind the prefix and with no '1', has an address refused:
\* NewAddress does not take it for another one, whatever the address and however
\* long its hashes.
THEOREM GarbledAddressRefused ==
  ASSUME NEW a \in Address, Text(a) # <<>>, NEW t, NEW k, Garbled(Text(a), t, k)
  PROVE  NewAddress(t) = <<"error">>
<1>1. PICK s : s = Text(a)
  OBVIOUS
<1>2. Decode(s) = <<"ok", Bytes(a)>> /\ IsBech32(s)
  BY <1>1, TextDecodes
<1>3. Decode(s) # <<"error">>
  <2>1. Decode(s)[1] = "ok" /\ <<"error">>[1] = "error"
    BY <1>2
  <2> QED BY <2>1
<1>4. s \in Seq(Octet) /\ t \in Seq(Octet) /\ Len(t) = Len(s) /\ k \in Nat /\ k > Separator(s)
  BY <1>1 DEF Garbled
<1>5. Decode(t) = <<"error">>
  BY <1>1, <1>3, GarbledIsRefused
<1>6. PICK p \in {addr_, stake_} : IsPrefix(p, s)
  BY <1>2 DEF IsBech32
<1>7. p \in Seq(Octet) /\ Len(p) \in Nat /\ \A i \in 1 .. Len(p) : p[i] # One
  <2>1. addr_ \in Seq(Octet) /\ Len(addr_) \in Nat /\ \A i \in 1 .. Len(addr_) : addr_[i] # One
    BY DEF addr_, One, Octet
  <2>2. stake_ \in Seq(Octet) /\ Len(stake_) \in Nat /\ \A i \in 1 .. Len(stake_) : stake_[i] # One
    BY DEF stake_, One, Octet
  <2> QED BY <2>1, <2>2
<1>8. Len(p) <= Len(s) /\ \A i \in 1 .. Len(p) : s[i] = p[i]
  BY <1>4, <1>6, <1>7, PrefixElements
<1>9. PICK pos : pos = Separator(s)
  OBVIOUS
<1>10. pos \in Nat /\ pos >= 2 /\ s[pos] = One
  <2>1. PICK n, hrp, v : Reads(s, pos, n, hrp, v)
    BY <1>3, <1>4, <1>9, DecodeReads
  <2> QED BY <2>1 DEF Reads
<1>11. Len(p) < pos
  <2>1. ASSUME pos <= Len(p) PROVE FALSE
    <3>1. pos \in 1 .. Len(p)
      BY <1>7, <1>10, <2>1
    <3> QED BY <1>7, <1>8, <1>10, <3>1
  <2> QED BY <1>7, <1>10, <2>1
<1>12. ASSUME NEW i \in 1 .. Len(p) PROVE t[i] = p[i]
  <2>1. Len(s) \in Nat
    BY <1>4, LenProperties
  <2>2. i \in 1 .. Len(s) /\ i \notin k .. k + 5
    BY <1>4, <1>7, <1>8, <1>9, <1>10, <1>11, <2>1
  <2>3. t[i] = s[i]
    BY <1>1, <2>2 DEF Garbled
  <2> QED BY <1>8, <2>3
<1>13. IsPrefix(p, t)
  BY <1>4, <1>7, <1>8, <1>12, ElementsPrefix
<1>14. IsBech32(t)
  BY <1>6, <1>13 DEF IsBech32
<1>15. Decode(t)[1] # "ok"
  BY <1>5
<1> QED BY <1>14, <1>15 DEF NewAddress

(***************************************************************************)
(* An address on its way.                                                  *)
(***************************************************************************)
\* Bytes that begin others and are not all of them.
LEMMA MoreBehind ==
  ASSUME NEW s \in Seq(Byte), NEW t \in Seq(Byte), IsPrefix(s, t), s # t
  PROVE  \E e \in Seq(Byte) : e # <<>> /\ t = s \o e
<1>1. PICK n : n = Len(s)
  OBVIOUS
<1>2. n \in Nat /\ n <= Len(t) /\ SubSeq(s, 1, n) = SubSeq(t, 1, n)
  BY <1>1, LenProperties DEF IsPrefix
<1>3. <<>> \in Seq(Byte) /\ s \o <<>> = s
  BY ConcatEmptySeq
<1>4. SubSeq(s, 1, n) = s
  <2>1. SubSeq(s \o <<>>, 1, Len(s)) = s
    BY <1>3, TailAfter
  <2> QED BY <1>1, <1>3, <2>1
<1>5. n \in 0 .. Len(t)
  BY <1>2, LenProperties
<1>6. PICK e : e = From(t, n)
  OBVIOUS
<1>7. e \in Seq(Byte) /\ SubSeq(t, 1, n) \o e = t
  BY <1>5, <1>6, TwoParts
<1>8. t = s \o e
  BY <1>2, <1>4, <1>7
<1>9. e # <<>>
  BY <1>3, <1>8
<1> QED BY <1>7, <1>8, <1>9

LEMMA LongerSameHead ==
  ASSUME NEW s \in Seq(Byte), s # <<>>, NEW e \in Seq(Byte), e # <<>>
  PROVE  /\ s \o e \in Seq(Byte) /\ s \o e # <<>>
         /\ (s \o e)[1] = s[1] /\ Len(s \o e) > Len(s)
<1>1. PICK m, n : m = Len(s) /\ n = Len(e)
  OBVIOUS
<1>2. PICK z : z = s \o e
  OBVIOUS
<1>3. z \in Seq(Byte) /\ Joins(z, s, e, m, n)
  BY <1>1, <1>2, ConcatJoins
<1>4. /\ m \in Nat /\ n \in Nat /\ Len(z) = m + n
      /\ \A i \in 1 .. m : z[i] = s[i]
  BY <1>3 DEF Joins
<1>5. m # 0 /\ n # 0
  BY <1>1, EmptySeq
<1>6. 1 \in 1 .. m /\ m + n > m /\ m + n # 0
  BY <1>4, <1>5
<1>7. z # <<>>
  BY <1>3, <1>4, <1>6, EmptySeq
<1> QED BY <1>1, <1>2, <1>3, <1>4, <1>6, <1>7

Refused(d) == NewAddressFromBytes(d) \in {<<"error">>, <<"panic">>}

LEMMA WrongLength ==
  ASSUME NEW b \in Seq(Byte), b # <<>>, Len(b) = 1 + HashLen,
         b[1] \div 16 \in {6, 7, 14, 15},
         NEW d \in Seq(Byte), d # <<>>, d[1] = b[1], Len(d) # Len(b)
  PROVE  Refused(d)
<1>1. NewAddressFromBytes(d) = <<"error">>
  BY Dispatch
<1> QED BY <1>1 DEF Refused

LEMMA PointerRefused ==
  ASSUME NEW b \in Seq(Byte), b # <<>>, b[1] \div 16 \in {4, 5},
         NEW d \in Seq(Byte), d # <<>>, d[1] = b[1], PointerOf(d) = <<"error">>
  PROVE  Refused(d)
<1>1. NewAddressFromBytes(d) = PointerOf(d)
  BY Dispatch
<1> QED BY <1>1 DEF Refused

LEMMA PartRefused ==
  ASSUME NEW a \in Address, a.type # "base", NEW d \in Seq(Byte), d # Bytes(a),
         IsPrefix(d, Bytes(a)) \/ IsPrefix(Bytes(a), d)
  PROVE  Refused(d)
<1>1. PICK b : b = Bytes(a)
  OBVIOUS
<1>2. b \in Seq(Byte) /\ b # <<>>
  BY <1>1, BytesReadBack DEF ReadsItsBytes
<1>3. CASE d = <<>>
  <2>1. NewAddressFromBytes(d) = <<"panic">>
    BY <1>3 DEF NewAddressFromBytes
  <2> QED BY <2>1 DEF Refused
<1>4. CASE d # <<>>
  <2>1. \/ \E e \in Seq(Byte) : e # <<>> /\ b = d \o e
        \/ \E e \in Seq(Byte) : e # <<>> /\ d = b \o e
    BY <1>1, <1>2, MoreBehind
  <2>2. d[1] = b[1] /\ Len(d) # Len(b)
    <3>1. Len(d) \in Nat /\ Len(b) \in Nat
      BY <1>2, LenProperties
    <3>2. CASE \E e \in Seq(Byte) : e # <<>> /\ b = d \o e
      <4>1. b[1] = d[1] /\ Len(b) > Len(d)
        BY <1>4, <3>2, LongerSameHead
      <4> QED BY <3>1, <4>1
    <3>3. CASE \E e \in Seq(Byte) : e # <<>> /\ d = b \o e
      <4>1. d[1] = b[1] /\ Len(d) > Len(b)
        BY <1>2, <3>3, LongerSameHead
      <4> QED BY <3>1, <4>1
    <3> QED BY <2>1, <3>2, <3>3
  <2>3. CASE \E net \in Nets, p \in Creds, at \in Place : a = Pointer(net, p, at)
    <3>1. PointerOf(b) = <<"ok", a>> /\ b[1] \div 16 \in {4, 5}
      BY <1>1, <2>3, PointerReadsBack
    <3>2. PointerOf(b)[1] = "ok" /\ PointerOf(b) # <<"error">>
      BY <3>1
    <3>3. PointerOf(d) = <<"error">>
      <4>1. CASE \E e \in Seq(Byte) : e # <<>> /\ d = b \o e
        BY <1>2, <3>2, <4>1, NothingBehindPointer
      <4>2. CASE \E e \in Seq(Byte) : e # <<>> /\ b = d \o e
        BY <3>2, <4>2, NothingBehindPointer, PointerOutcomes
      <4> QED BY <2>1, <4>1, <4>2
    <3> QED BY <1>2, <1>4, <2>2, <3>1, <3>3, PointerRefused
  <2>4. CASE \E net \in Nets, p \in Creds : a = Enterprise(net, p)
    <3>1. Len(b) = 1 + HashLen /\ b[1] \div 16 \in {6, 7}
      BY <1>1, <2>4, EnterpriseReadsBack
    <3>2. b[1] \div 16 \in {6, 7, 14, 15}
      BY <3>1
    <3> QED BY <1>2, <1>4, <2>2, <3>1, <3>2, WrongLength
  <2>5. CASE \E net \in Nets, s \in Creds : a = Reward(net, s)
    <3>1. Len(b) = 1 + HashLen /\ b[1] \div 16 \in {14, 15}
      BY <1>1, <2>5, RewardReadsBack
    <3>2. b[1] \div 16 \in {6, 7, 14, 15}
      BY <3>1
    <3> QED BY <1>2, <1>4, <2>2, <3>1, <3>2, WrongLength
  <2>6. ~\E net \in Nets, p \in Creds, s \in Creds : a = Base(net, p, s)
    BY DEF Base
  <2> QED BY <2>3, <2>4, <2>5, <2>6, FourTypes
<1> QED BY <1>3, <1>4

\* What arrives are bytes, and until somebody changes something they and the
\* string are those of the address.
IInv ==
  /\ addr \in Address /\ edits \in Nat /\ raw \in Seq(Byte)
  /\ edits = 0 => raw = Bytes(addr) /\ text = Text(addr)

LEMMA InvInit == Init => IInv
<1> SUFFICES ASSUME Init PROVE IInv
  OBVIOUS
<1>1. addr \in Address
  BY WrittenAssumption DEF Init
<1>2. raw \in Seq(Byte)
  BY <1>1, BytesReadBack DEF Init, ReadsItsBytes
<1> QED BY <1>1, <1>2 DEF Init, IInv

LEMMA Converted ==
  ASSUME NEW a \in Address, a.type = "base"
  PROVE  ToEnterprise(a) \in Address /\ ToReward(a) \in Address
<1>1. PICK net \in Nets, p \in Creds, s \in Creds : a = Base(net, p, s)
  BY FourTypes DEF Pointer, Enterprise, Reward
<1>2. a.net = net /\ a.payment = p /\ a.stake = s
  BY <1>1 DEF Base
<1>3. Enterprise(net, p) \in Address /\ Reward(net, s) \in Address
  BY FourTypes
<1> QED BY <1>2, <1>3 DEF ToEnterprise, ToReward

LEMMA InvStep == IInv /\ [Next]_vars => IInv'
<1> SUFFICES ASSUME IInv, [Next]_vars PROVE IInv'
  OBVIOUS
<1>0. /\ addr \in Address /\ edits \in Nat /\ raw \in Seq(Byte)
      /\ edits = 0 => raw = Bytes(addr) /\ text = Text(addr)
  BY DEF IInv
<1>1. edits' = edits + 1 => edits' \in Nat /\ edits' # 0
  BY <1>0
<1>2. CASE Mistype
  BY <1>0, <1>1, <1>2 DEF Mistype, IInv
<1>3. CASE Cut
  <2>1. raw' \in Seq(Byte)
    <3>1. Len(raw) \in Nat \ {0}
      BY <1>0, <1>3, EmptySeq DEF Cut
    <3>2. Len(raw) - 1 \in 0 .. Len(raw)
      BY <3>1
    <3>3. SubSeq(raw, 1, Len(raw) - 1) \in Seq(Byte)
      BY <1>0, <3>2, TwoParts
    <3> QED BY <1>3, <3>3 DEF Cut, Front
  <2> QED BY <1>0, <1>1, <1>3, <2>1 DEF Cut, IInv
<1>4. CASE Extend
  <2>1. PICK b \in Garbage : raw' = Append(raw, b)
    BY <1>4 DEF Extend
  <2>2. b \in Byte
    BY GarbageAssumption
  <2>3. raw' \in Seq(Byte)
    BY <1>0, <2>1, <2>2, AppendProperties
  <2> QED BY <1>0, <1>1, <1>4, <2>3 DEF Extend, IInv
<1>5. CASE Garble
  <2>1. PICK i \in DOMAIN raw, b \in Garbage : raw' = [raw EXCEPT ![i] = b]
    BY <1>5 DEF Garble
  <2>2. b \in Byte
    BY GarbageAssumption
  <2>3. raw' \in Seq(Byte)
    BY <1>0, <2>1, <2>2
  <2> QED BY <1>0, <1>1, <1>5, <2>3 DEF Garble, IInv
<1>6. CASE Convert
  <2>1. addr' \in Address
    BY <1>0, <1>6, Converted DEF Convert
  <2>2. raw' \in Seq(Byte)
    BY <1>6, <2>1, BytesReadBack DEF Convert, ReadsItsBytes
  <2> QED BY <1>0, <1>6, <2>1, <2>2 DEF Convert, IInv
<1>7. CASE UNCHANGED vars
  BY <1>0, <1>7 DEF vars, IInv
<1> QED BY <1>2, <1>3, <1>4, <1>5, <1>6, <1>7 DEF Next

LEMMA Invariant == Spec => []IInv
  BY InvInit, InvStep, PTL DEF Spec

\* An address that nobody changed is read from its bytes, and from its string
\* if it has one.
THEOREM WrittenReadsBack == Spec => []ReadsBack
<1>1. IInv => ReadsBack
  <2> SUFFICES ASSUME IInv, edits = 0
               PROVE  /\ NewAddressFromBytes(raw) = <<"ok", addr>>
                      /\ text # <<>> => NewAddress(text) = <<"ok", addr>>
    BY DEF ReadsBack
  <2>1. addr \in Address /\ raw = Bytes(addr) /\ text = Text(addr)
    BY DEF IInv
  <2>2. NewAddressFromBytes(Bytes(addr)) = <<"ok", addr>>
    BY <2>1, BytesReadBack DEF ReadsItsBytes
  <2>3. Text(addr) # <<>> => NewAddress(Text(addr)) = <<"ok", addr>>
    BY <2>1, TextReadsBack
  <2> QED BY <2>1, <2>2, <2>3
<1> QED BY <1>1, Invariant, PTL

\* However bytes are cut, extended and garbled: if they begin the bytes of the
\* address, or these begin them, and something is missing or too much, they
\* are refused.  A base address is not covered: its reader looks for two hashes
\* and ignores what is behind them.
THEOREM PartsRefused == Spec => []OnlyWhole
<1>1. IInv => OnlyWhole
  <2> SUFFICES ASSUME IInv, raw # Bytes(addr), addr.type # "base",
                      IsPrefix(raw, Bytes(addr)) \/ IsPrefix(Bytes(addr), raw)
               PROVE  NewAddressFromBytes(raw) \in {<<"error">>, <<"panic">>}
    BY DEF OnlyWhole
  <2>1. addr \in Address /\ raw \in Seq(Byte)
    BY DEF IInv
  <2>2. Refused(raw)
    BY <2>1, PartRefused
  <2> QED BY <2>2 DEF Refused
<1> QED BY <1>1, Invariant, PTL

\* An address on any network is written like the one it is rewritten to, which
\* is one of those there are.
LEMMA WrittenOnNetwork ==
  ASSUME NEW a \in Address, NEW net \in Networks
  PROVE  /\ Rewritten(On(a, net)) \in Address
         /\ Bytes(On(a, net)) = Bytes(Rewritten(On(a, net)))
<1>1. PICK known : known = IF net = "zero" THEN "test" ELSE net
  OBVIOUS
<1>2. known \in Nets /\ NetworkId(net) = NetworkId(known)
  BY <1>1 DEF Networks, Nets, NetworkId
<1>3. \A code : Header(code, net) = Header(code, known)
  BY <1>2 DEF Header
<1>4. CASE \E n \in Nets, p \in Creds, s \in Creds : a = Base(n, p, s)
  <2>1. PICK n \in Nets, p \in Creds, s \in Creds : a = Base(n, p, s)
    BY <1>4
  <2>2. On(a, net) = Base(net, p, s)
    BY <2>1, OnNetwork
  <2>3. Rewritten(Base(net, p, s)) = Base(known, p, s)
    BY <1>1 DEF Rewritten, Base
  <2>4. Bytes(Base(net, p, s)) = Bytes(Base(known, p, s))
    <3>1. PICK code : code = p.kind + 2 * s.kind
      OBVIOUS
    <3>2. \A m : Bytes(Base(m, p, s)) = <<Header(code, m)>> \o p.hash \o s.hash
      <4> SUFFICES ASSUME NEW m
                   PROVE  Bytes(Base(m, p, s)) = <<Header(code, m)>> \o p.hash \o s.hash
        OBVIOUS
      <4>1. PICK x : x = Base(m, p, s)
        OBVIOUS
      <4>2. x.type = "base" /\ x.net = m /\ x.payment = p /\ x.stake = s
        BY <4>1 DEF Base
      <4> QED BY <3>1, <4>1, <4>2 DEF Bytes
    <3>3. Header(code, net) = Header(code, known)
      BY <1>3
    <3> QED BY <3>2, <3>3
  <2>5. Base(known, p, s) \in Address
    BY <1>2, FourTypes
  <2> QED BY <2>2, <2>3, <2>4, <2>5
<1>5. CASE \E n \in Nets, p \in Creds, at \in Place : a = Pointer(n, p, at)
  <2>1. PICK n \in Nets, p \in Creds, at \in Place : a = Pointer(n, p, at)
    BY <1>5
  <2>2. On(a, net) = Pointer(net, p, at)
    BY <2>1, OnNetwork
  <2>3. Rewritten(Pointer(net, p, at)) = Pointer(known, p, at)
    BY <1>1 DEF Rewritten, Pointer
  <2>4. Bytes(Pointer(net, p, at)) = Bytes(Pointer(known, p, at))
    BY <1>3 DEF Bytes, Pointer
  <2>5. Pointer(known, p, at) \in Address
    BY <1>2, FourTypes
  <2> QED BY <2>2, <2>3, <2>4, <2>5
<1>6. CASE \E n \in Nets, p \in Creds : a = Enterprise(n, p)
  <2>1. PICK n \in Nets, p \in Creds : a = Enterprise(n, p)
    BY <1>6
  <2>2. On(a, net) = Enterprise(net, p)
    BY <2>1, OnNetwork
  <2>3. Rewritten(Enterprise(net, p)) = Enterprise(known, p)
    BY <1>1 DEF Rewritten, Enterprise
  <2>4. Bytes(Enterprise(net, p)) = Bytes(Enterprise(known, p))
    BY <1>3 DEF Bytes, Enterprise
  <2>5. Enterprise(known, p) \in Address
    BY <1>2, FourTypes
  <2> QED BY <2>2, <2>3, <2>4, <2>5
<1>7. CASE \E n \in Nets, s \in Creds : a = Reward(n, s)
  <2>1. PICK n \in Nets, s \in Creds : a = Reward(n, s)
    BY <1>7
  <2>2. On(a, net) = Reward(net, s)
    BY <2>1, OnNetwork
  <2>3. Rewritten(Reward(net, s)) = Reward(known, s)
    BY <1>1 DEF Rewritten, Reward
  <2>4. Bytes(Reward(net, s)) = Bytes(Reward(known, s))
    BY <1>3 DEF Bytes, Reward
  <2>5. Reward(known, s) \in Address
    BY <1>2, FourTypes
  <2> QED BY <2>2, <2>3, <2>4, <2>5
<1> QED BY <1>4, <1>5, <1>6, <1>7, FourTypes

\* Whatever NewAddressFromBytes takes for an address is written as bytes that it
\* takes for the same one, on the test network if its own is not known.
THEOREM ReadReencodes == Spec => []Reencodes
<1>1. IInv => Reencodes
  <2> SUFFICES ASSUME IInv PROVE Reencodes
    OBVIOUS
  <2>1. PICK read : read = NewAddressFromBytes(raw)
    OBVIOUS
  <2>2. ASSUME read[1] = "ok"
        PROVE  NewAddressFromBytes(Bytes(read[2])) = <<"ok", Rewritten(read[2])>>
    <3>1. PICK net : net = NetworkOf(raw[1] % 16)
      OBVIOUS
    <3>2. net \in Networks
      BY <3>1, NetworkKnown
    <3>3. ReadsAddress(read, net)
      BY <2>1, <3>1, OnlyAddressesRead DEF IInv
    <3>4. PICK a \in Address : read = <<"ok", On(a, net)>>
      BY <2>2, <3>3 DEF ReadsAddress
    <3>5. read[2] = On(a, net)
      BY <3>4
    <3>6. PICK b : b = Rewritten(read[2])
      OBVIOUS
    <3>7. b \in Address /\ Bytes(read[2]) = Bytes(b)
      BY <3>2, <3>5, <3>6, WrittenOnNetwork
    <3>8. NewAddressFromBytes(Bytes(b)) = <<"ok", b>>
      BY <3>7, BytesReadBack DEF ReadsItsBytes
    <3> QED BY <3>6, <3>7, <3>8
  <2> QED BY <2>1, <2>2 DEF Reencodes
<1> QED BY <1>1, Invariant, PTL
=============================================================================
