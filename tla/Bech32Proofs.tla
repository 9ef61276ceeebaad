---------------------------- MODULE Bech32Proofs ----------------------------
(***************************************************************************)
(* Proofs about Bech32, for data and prefixes of any length: what is       *)
(* encoded is decoded to what it was, and not if it was garbled.           *)
(***************************************************************************)
EXTENDS Bech32, Induction, SequenceTheorems, FiniteSetTheorems

Octet == 0 .. 255
Quintet == 0 .. 31
Bit == {0, 1}

LEMMA FunctionSeq ==
  ASSUME NEW S, NEW n \in Nat, NEW f \in [1 .. n -> S]
  PROVE  f \in Seq(S) /\ Len(f) = n
  BY SeqDef

(***************************************************************************)
(* Numbers and their bits.                                                 *)
(***************************************************************************)
\* g[n] is the number that the first n bits make.
Numbers(g, bits) ==
  /\ g \in [0 .. Len(bits) -> Nat]
  /\ g[0] = 0
  /\ \A n \in 1 .. Len(bits) : g[n] = 2 * g[n - 1] + bits[n]

LEMMA ValueNumbers ==
  ASSUME NEW bits \in Seq(Bit)
  PROVE  \E g : Numbers(g, bits) /\ Value(bits) = g[Len(bits)]
<1> DEFINE L == Len(bits)
           step == [n \in 1 .. L |-> [x \in Nat |-> 2 * x + bits[n]]]
           number == CHOOSE f : f = [n \in 0 .. L |-> IF n = 0 THEN 0 ELSE 2 * f[n - 1] + bits[n]]
<1>1. L \in Nat /\ \A n \in 1 .. L : bits[n] \in Nat
  BY LenProperties DEF Bit
<1>2. step \in StepsTo(L, Nat)
  BY <1>1 DEF StepsTo
<1>3. PICK g : IteratesTo(g, L, Nat, 0, step)
  <2> HIDE DEF step, L
  <2> QED BY <1>1, <1>2, RecursionUpTo
<1>4. g \in [0 .. L -> Nat] /\ g[0] = 0 /\ \A n \in 1 .. L : g[n] = step[n][g[n - 1]]
  BY <1>3 DEF IteratesTo
<1>5. ASSUME NEW n \in 1 .. L PROVE g[n] = 2 * g[n - 1] + bits[n]
  <2>1. n - 1 \in 0 .. L
    BY <1>1
  <2>2. g[n - 1] \in Nat
    <3> HIDE DEF step, number, L
    <3> QED BY <1>4, <2>1
  <2> HIDE DEF number
  <2> QED BY <1>4, <2>2
<1>6. g = [n \in 0 .. L |-> IF n = 0 THEN 0 ELSE 2 * g[n - 1] + bits[n]]
  <2>1. \A n \in 0 .. L : n # 0 => n \in 1 .. L
    BY <1>1
  <2> HIDE DEF L
  <2> QED BY <1>4, <1>5, <2>1
<1>7. number = [n \in 0 .. L |-> IF n = 0 THEN 0 ELSE 2 * number[n - 1] + bits[n]]
  BY <1>6
<1>8. Value(bits) = number[L]
  BY DEF Value
<1> HIDE DEF number
<1>9. \A n \in 0 .. L : number[n] \in Nat
  <2> DEFINE P == {n \in Nat : n <= L => number[n] \in Nat}
  <2>1. 0 \in P
    BY <1>1, <1>7
  <2>2. ASSUME NEW n \in Nat, n \in P PROVE n + 1 \in P
    <3>1. CASE n + 1 <= L
      <4>1. n + 1 \in 0 .. L /\ n + 1 # 0 /\ (n + 1) - 1 = n /\ n <= L /\ n + 1 \in 1 .. L
        BY <3>1, <1>1
      <4>2. number[n + 1] = 2 * number[n] + bits[n + 1]
        BY <1>7, <4>1
      <4>3. number[n] \in Nat /\ bits[n + 1] \in Nat
        BY <1>1, <2>2, <4>1
      <4> QED BY <4>2, <4>3
    <3> QED BY <3>1
  <2>3. Nat \subseteq P
    <3> HIDE DEF P
    <3> QED BY <2>1, <2>2, SetInduction
  <2> QED BY <2>3, <1>1
<1>10. Numbers(number, bits)
  <2>1. number \in [0 .. L -> Nat]
    BY <1>7, <1>9
  <2>2. number[0] = 0 /\ 0 \in 0 .. L
    BY <1>1, <1>7
  <2>3. ASSUME NEW n \in 1 .. L PROVE number[n] = 2 * number[n - 1] + bits[n]
    <3>1. n \in 0 .. L /\ n # 0
      BY <1>1
    <3> HIDE DEF L
    <3> QED BY <1>7, <3>1
  <2> QED BY <2>1, <2>2, <2>3 DEF Numbers
<1> QED BY <1>8, <1>10

LEMMA ValueOfFive ==
  ASSUME NEW b \in Seq(Bit), Len(b) = 5
  PROVE  Value(b) = 2 * (2 * (2 * (2 * b[1] + b[2]) + b[3]) + b[4]) + b[5]
<1>1. PICK g : Numbers(g, b) /\ Value(b) = g[5]
  BY ValueNumbers
<1>2. \A n \in 1 .. 5 : b[n] \in Bit
  BY LenProperties
<1>3. g[0] = 0 /\ \A n \in 1 .. 5 : g[n] = 2 * g[n - 1] + b[n]
  BY <1>1 DEF Numbers
<1>4. g[1] = b[1]
  <2>1. g[1] = 2 * g[0] + b[1]
    BY <1>3, 1 - 1 = 0
  <2>2. b[1] \in Nat
    BY <1>2, 1 \in 1 .. Len(b) DEF Bit
  <2> QED BY <1>3, <2>1, <2>2
<1>5. g[2] = 2 * g[1] + b[2]
  BY <1>3, 2 - 1 = 1
<1>6. g[3] = 2 * g[2] + b[3]
  BY <1>3, 3 - 1 = 2
<1>7. g[4] = 2 * g[3] + b[4]
  BY <1>3, 4 - 1 = 3
<1>8. g[5] = 2 * g[4] + b[5]
  BY <1>3, 5 - 1 = 4
<1> QED BY <1>1, <1>4, <1>5, <1>6, <1>7, <1>8

LEMMA ValueOfEight ==
  ASSUME NEW b \in Seq(Bit), Len(b) = 8
  PROVE  Value(b) = 2 * (2 * (2 * (2 * (2 * (2 * (2 * b[1] + b[2]) + b[3]) + b[4]) + b[5]) + b[6]) + b[7]) + b[8]
<1>1. PICK g : Numbers(g, b) /\ Value(b) = g[8]
  BY ValueNumbers
<1>2. \A n \in 1 .. 8 : b[n] \in Bit
  BY LenProperties
<1>3. g[0] = 0 /\ \A n \in 1 .. 8 : g[n] = 2 * g[n - 1] + b[n]
  BY <1>1 DEF Numbers
<1>4. g[1] = b[1]
  <2>1. g[1] = 2 * g[0] + b[1]
    BY <1>3, 1 - 1 = 0
  <2>2. b[1] \in Nat
    BY <1>2, 1 \in 1 .. Len(b) DEF Bit
  <2> QED BY <1>3, <2>1, <2>2
<1>5. g[2] = 2 * g[1] + b[2]
  BY <1>3, 2 - 1 = 1
<1>6. g[3] = 2 * g[2] + b[3]
  BY <1>3, 3 - 1 = 2
<1>7. g[4] = 2 * g[3] + b[4]
  BY <1>3, 4 - 1 = 3
<1>8. g[5] = 2 * g[4] + b[5]
  BY <1>3, 5 - 1 = 4
<1>9. g[6] = 2 * g[5] + b[6]
  BY <1>3, 6 - 1 = 5
<1>10. g[7] = 2 * g[6] + b[7]
  BY <1>3, 7 - 1 = 6
<1>11. g[8] = 2 * g[7] + b[8]
  BY <1>3, 8 - 1 = 7
<1> QED BY <1>1, <1>4, <1>5, <1>6, <1>7, <1>8, <1>9, <1>10, <1>11

(***************************************************************************)
(* Groups of five and of eight bits.                                       *)
(***************************************************************************)
LEMMA FiveBits ==
  ASSUME NEW a \in Bit, NEW b \in Bit, NEW c \in Bit, NEW d \in Bit, NEW e \in Bit,
         NEW v, v = 2 * (2 * (2 * (2 * a + b) + c) + d) + e
  PROVE  /\ v \in Quintet
         /\ (v \div 2 ^ 4) % 2 = a /\ (v \div 2 ^ 3) % 2 = b /\ (v \div 2 ^ 2) % 2 = c
         /\ (v \div 2 ^ 1) % 2 = d /\ (v \div 2 ^ 0) % 2 = e
<1>1. v = 16 * a + 8 * b + 4 * c + 2 * d + e
  BY DEF Bit
<1>2. v \in Quintet
  BY <1>1 DEF Bit, Quintet
<1>3. (v \div 16) % 2 = a /\ (v \div 8) % 2 = b
  BY <1>1 DEF Bit
<1>4. (v \div 4) % 2 = c /\ (v \div 2) % 2 = d
  BY <1>1 DEF Bit
<1>5. (v \div 1) % 2 = e
  BY <1>1 DEF Bit
<1>6. 2 ^ 4 = 16 /\ 2 ^ 3 = 8 /\ 2 ^ 2 = 4 /\ 2 ^ 1 = 2 /\ 2 ^ 0 = 1
  OBVIOUS
<1> QED BY <1>2, <1>3, <1>4, <1>5, <1>6

LEMMA PowersOfTwo == \A k \in 0 .. 7 : 2 ^ k \in {1, 2, 4, 8, 16, 32, 64, 128}
<1> SUFFICES ASSUME NEW k \in 0 .. 7 PROVE 2 ^ k \in {1, 2, 4, 8, 16, 32, 64, 128}
  OBVIOUS
<1>1. k = 0 \/ k = 1 \/ k = 2 \/ k = 3 \/ k = 4 \/ k = 5 \/ k = 6 \/ k = 7
  OBVIOUS
<1>2. CASE k = 0
  <2>1. 2 ^ k = 1
    BY <1>2
  <2> QED BY <2>1
<1>3. CASE k = 1
  <2>1. 2 ^ k = 2
    BY <1>3
  <2> QED BY <2>1
<1>4. CASE k = 2
  <2>1. 2 ^ k = 4
    BY <1>4
  <2> QED BY <2>1
<1>5. CASE k = 3
  <2>1. 2 ^ k = 8
    BY <1>5
  <2> QED BY <2>1
<1>6. CASE k = 4
  <2>1. 2 ^ k = 16
    BY <1>6
  <2> QED BY <2>1
<1>7. CASE k = 5
  <2>1. 2 ^ k = 32
    BY <1>7
  <2> QED BY <2>1
<1>8. CASE k = 6
  <2>1. 2 ^ k = 64
    BY <1>8
  <2> QED BY <2>1
<1>9. CASE k = 7
  <2>1. 2 ^ k = 128
    BY <1>9
  <2> QED BY <2>1
<1> QED BY <1>1, <1>2, <1>3, <1>4, <1>5, <1>6, <1>7, <1>8, <1>9

LEMMA EightBits ==
  ASSUME NEW v \in Octet
  PROVE  LET b(k) == (v \div 2 ^ k) % 2 IN
         /\ \A k \in 0 .. 7 : b(k) \in Bit
         /\ v = 2 * (2 * (2 * (2 * (2 * (2 * (2 * b(7) + b(6)) + b(5)) + b(4)) + b(3)) + b(2)) + b(1)) + b(0)
<1>1. /\ 2 ^ 7 = 128 /\ 2 ^ 6 = 64 /\ 2 ^ 5 = 32 /\ 2 ^ 4 = 16
      /\ 2 ^ 3 = 8 /\ 2 ^ 2 = 4 /\ 2 ^ 1 = 2 /\ 2 ^ 0 = 1
  OBVIOUS
<1>2. \A d \in {1, 2, 4, 8, 16, 32, 64, 128} : v \div d \in Nat /\ (v \div d) % 2 \in Bit
  BY DEF Octet, Bit
<1>3. ASSUME NEW k \in 0 .. 7 PROVE (v \div 2 ^ k) % 2 \in Bit
  <2>1. 2 ^ k \in {1, 2, 4, 8, 16, 32, 64, 128}
    BY PowersOfTwo
  <2> QED BY <1>2, <2>1
<1>4. /\ v \div 128 = (v \div 128) % 2
      /\ v \div 64 = 2 * (v \div 128) + ((v \div 64) % 2)
      /\ v \div 32 = 2 * (v \div 64) + ((v \div 32) % 2)
      /\ v \div 16 = 2 * (v \div 32) + ((v \div 16) % 2)
  BY DEF Octet
<1>5. /\ v \div 8 = 2 * (v \div 16) + ((v \div 8) % 2)
      /\ v \div 4 = 2 * (v \div 8) + ((v \div 4) % 2)
      /\ v \div 2 = 2 * (v \div 4) + ((v \div 2) % 2)
      /\ v = 2 * (v \div 2) + ((v \div 1) % 2)
  BY DEF Octet
<1> DEFINE b(k) == (v \div 2 ^ k) % 2
<1>6. /\ b(7) = (v \div 128) % 2 /\ b(6) = (v \div 64) % 2 /\ b(5) = (v \div 32) % 2
      /\ b(4) = (v \div 16) % 2 /\ b(3) = (v \div 8) % 2 /\ b(2) = (v \div 4) % 2
      /\ b(1) = (v \div 2) % 2 /\ b(0) = (v \div 1) % 2
  BY <1>1
<1> HIDE DEF b
<1>7. v \div 64 = 2 * b(7) + b(6)
  BY <1>4, <1>6
<1>8. v \div 32 = 2 * (2 * b(7) + b(6)) + b(5)
  BY <1>4, <1>6, <1>7
<1>9. v \div 16 = 2 * (2 * (2 * b(7) + b(6)) + b(5)) + b(4)
  BY <1>4, <1>6, <1>8
<1>10. v \div 8 = 2 * (2 * (2 * (2 * b(7) + b(6)) + b(5)) + b(4)) + b(3)
  BY <1>5, <1>6, <1>9
<1>11. v \div 4 = 2 * (2 * (2 * (2 * (2 * b(7) + b(6)) + b(5)) + b(4)) + b(3)) + b(2)
  BY <1>5, <1>6, <1>10
<1>12. v \div 2 = 2 * (2 * (2 * (2 * (2 * (2 * b(7) + b(6)) + b(5)) + b(4)) + b(3)) + b(2)) + b(1)
  BY <1>5, <1>6, <1>11
<1>13. v = 2 * (2 * (2 * (2 * (2 * (2 * (2 * b(7) + b(6)) + b(5)) + b(4)) + b(3)) + b(2)) + b(1)) + b(0)
  BY <1>5, <1>6, <1>12
<1> QED BY <1>3, <1>13 DEF b

LEMMA ZeroPadding ==
  ASSUME NEW bits \in Seq(Bit), NEW p \in Nat
  PROVE  LET z == bits \o [i \in 1 .. p |-> 0] IN
         /\ z \in Seq(Bit) /\ Len(z) = Len(bits) + p
         /\ \A j \in 1 .. Len(bits) : z[j] = bits[j]
         /\ \A j \in Len(bits) + 1 .. Len(bits) + p : z[j] = 0
<1> DEFINE f == [i \in 1 .. p |-> 0]
<1>1. f \in [1 .. p -> Bit] /\ \A i \in 1 .. p : f[i] = 0
  BY DEF Bit
<1> HIDE DEF f
<1>2. f \in Seq(Bit) /\ Len(f) = p
  BY <1>1, FunctionSeq
<1>3. PICK z : z = bits \o f
  OBVIOUS
<1>4. /\ z \in Seq(Bit) /\ Len(z) = Len(bits) + p
      /\ \A j \in 1 .. Len(bits) + p : z[j] = IF j <= Len(bits) THEN bits[j] ELSE f[j - Len(bits)]
  BY <1>2, <1>3, ConcatProperties
<1>5. Len(bits) \in Nat
  BY LenProperties
<1>6. \A j \in 1 .. Len(bits) : z[j] = bits[j]
  BY <1>4, <1>5
<1>7. ASSUME NEW j \in Len(bits) + 1 .. Len(bits) + p PROVE z[j] = 0
  <2>1. j \in 1 .. Len(bits) + p /\ ~(j <= Len(bits)) /\ j - Len(bits) \in 1 .. p
    BY <1>5
  <2> QED BY <1>1, <1>4, <2>1
<1>8. /\ z \in Seq(Bit) /\ Len(z) = Len(bits) + p
      /\ \A j \in 1 .. Len(bits) : z[j] = bits[j]
      /\ \A j \in Len(bits) + 1 .. Len(bits) + p : z[j] = 0
  BY <1>4, <1>6, <1>7
<1> QED BY <1>3, <1>8 DEF f

\* One group of a sequence of groups.
LEMMA GroupOf ==
  ASSUME NEW bits \in Seq(Bit), NEW w \in Nat \ {0}, NEW G \in Nat, Len(bits) >= G * w,
         NEW g \in 1 .. G
  PROVE  LET s == SubSeq(bits, (g - 1) * w + 1, g * w) IN
         /\ s \in Seq(Bit) /\ Len(s) = w
         /\ \A i \in 1 .. w : s[i] = bits[(g - 1) * w + i]
<1>1. PICK m \in Nat : m = (g - 1) * w
  OBVIOUS
<1>2. g * w = m + w
  BY <1>1
<1>3. m + w <= Len(bits) /\ Len(bits) \in Nat
  <2>1. Len(bits) \in Nat
    BY LenProperties
  <2>2. g * w <= G * w
    OBVIOUS
  <2> QED BY <1>2, <2>1, <2>2
<1>4. PICK s : s = SubSeq(bits, m + 1, m + w)
  OBVIOUS
<1>5. /\ s \in Seq(Bit) /\ Len(s) = w
      /\ \A i \in 1 .. w : s[i] = bits[m + i]
  <2>1. m + 1 \in 1 .. Len(bits) + 1 /\ m + w \in 0 .. Len(bits)
    BY <1>3
  <2>2. s \in Seq(Bit) /\ Len(s) = (IF m + 1 <= m + w THEN m + w - (m + 1) + 1 ELSE 0)
        /\ \A i \in 1 .. m + w - (m + 1) + 1 : s[i] = bits[m + 1 + i - 1]
    BY <2>1, <1>4, SubSeqProperties
  <2>3. m + w - (m + 1) + 1 = w /\ m + 1 <= m + w
    OBVIOUS
  <2>4. \A i \in 1 .. w : m + 1 + i - 1 = m + i
    OBVIOUS
  <2> QED BY <2>2, <2>3, <2>4
<1> QED BY <1>1, <1>2, <1>4, <1>5

LEMMA FivesBack ==
  ASSUME NEW bits \in Seq(Bit), NEW G \in Nat, Len(bits) = G * 5
  PROVE  /\ Whole(bits, 5) \in Seq(Quintet) /\ Len(Whole(bits, 5)) = G
         /\ BitsOf(Whole(bits, 5), 5) = bits
<1>1. PICK v : v = Whole(bits, 5)
  OBVIOUS
<1>2. Len(bits) \div 5 = G /\ Len(bits) \in Nat
  OBVIOUS
<1>3. v = [g \in 1 .. G |-> Value(SubSeq(bits, (g - 1) * 5 + 1, g * 5))]
  BY <1>1, <1>2 DEF Whole
<1>4. ASSUME NEW g \in 1 .. G
      PROVE  LET b(i) == bits[(g - 1) * 5 + i] IN
             /\ \A i \in 1 .. 5 : b(i) \in Bit
             /\ v[g] = 2 * (2 * (2 * (2 * b(1) + b(2)) + b(3)) + b(4)) + b(5)
  <2>1. PICK s : s = SubSeq(bits, (g - 1) * 5 + 1, g * 5)
    OBVIOUS
  <2>2. /\ s \in Seq(Bit) /\ Len(s) = 5
        /\ \A i \in 1 .. 5 : s[i] = bits[(g - 1) * 5 + i]
    BY <2>1, GroupOf
  <2>3. v[g] = Value(s)
    BY <1>3, <2>1
  <2>4. Value(s) = 2 * (2 * (2 * (2 * s[1] + s[2]) + s[3]) + s[4]) + s[5]
    BY <2>2, ValueOfFive
  <2>5. \A i \in 1 .. 5 : s[i] \in Bit
    BY <2>2, LenProperties
  <2>6. 1 \in 1 .. 5 /\ 2 \in 1 .. 5 /\ 3 \in 1 .. 5 /\ 4 \in 1 .. 5 /\ 5 \in 1 .. 5
    OBVIOUS
  <2> QED BY <2>2, <2>3, <2>4, <2>5, <2>6
<1>5. ASSUME NEW g \in 1 .. G
      PROVE  /\ v[g] \in Quintet
             /\ \A k \in 0 .. 4 : (v[g] \div 2 ^ (4 - k)) % 2 = bits[(g - 1) * 5 + (k + 1)]
  <2> DEFINE b(i) == bits[(g - 1) * 5 + i]
  <2>1. \A i \in 1 .. 5 : b(i) \in Bit
    BY <1>4
  <2>2. v[g] = 2 * (2 * (2 * (2 * b(1) + b(2)) + b(3)) + b(4)) + b(5)
    BY <1>4
  <2>3. \A k \in 0 .. 4 : bits[(g - 1) * 5 + (k + 1)] = b(k + 1)
    OBVIOUS
  <2> HIDE DEF b
  <2>4. b(1) \in Bit /\ b(2) \in Bit /\ b(3) \in Bit /\ b(4) \in Bit /\ b(5) \in Bit
    BY <2>1
  <2>5. /\ v[g] \in Quintet
        /\ (v[g] \div 2 ^ 4) % 2 = b(1) /\ (v[g] \div 2 ^ 3) % 2 = b(2) /\ (v[g] \div 2 ^ 2) % 2 = b(3)
        /\ (v[g] \div 2 ^ 1) % 2 = b(4) /\ (v[g] \div 2 ^ 0) % 2 = b(5)
    <3>1. PICK x : x = v[g]
      OBVIOUS
    <3>2. PICK a \in Bit, c \in Bit, d \in Bit, e \in Bit, f \in Bit :
            a = b(1) /\ c = b(2) /\ d = b(3) /\ e = b(4) /\ f = b(5)
      BY <2>4
    <3>3. x = 2 * (2 * (2 * (2 * a + c) + d) + e) + f
      BY <2>2, <3>1, <3>2
    <3>4. /\ x \in Quintet
          /\ (x \div 2 ^ 4) % 2 = a /\ (x \div 2 ^ 3) % 2 = c /\ (x \div 2 ^ 2) % 2 = d
          /\ (x \div 2 ^ 1) % 2 = e /\ (x \div 2 ^ 0) % 2 = f
      BY <3>3, FiveBits
    <3> QED BY <3>1, <3>2, <3>4
  <2>6. ASSUME NEW k \in 0 .. 4 PROVE (v[g] \div 2 ^ (4 - k)) % 2 = b(k + 1)
    <3>1. CASE k = 0
      BY <2>5, <3>1, 4 - 0 = 4, 0 + 1 = 1
    <3>2. CASE k = 1
      BY <2>5, <3>2, 4 - 1 = 3, 1 + 1 = 2
    <3>3. CASE k = 2
      BY <2>5, <3>3, 4 - 2 = 2, 2 + 1 = 3
    <3>4. CASE k = 3
      BY <2>5, <3>4, 4 - 3 = 1, 3 + 1 = 4
    <3>5. CASE k = 4
      BY <2>5, <3>5, 4 - 4 = 0, 4 + 1 = 5
    <3> QED BY <3>1, <3>2, <3>3, <3>4, <3>5
  <2> QED BY <2>3, <2>5, <2>6
<1>6. v \in Seq(Quintet) /\ Len(v) = G
  <2>1. v \in [1 .. G -> Quintet]
    BY <1>3, <1>5
  <2> QED BY <2>1, FunctionSeq
<1>7. BitsOf(v, 5) = [j \in 1 .. G * 5 |-> (v[(j - 1) \div 5 + 1] \div 2 ^ (5 - 1 - ((j - 1) % 5))) % 2]
  BY <1>6 DEF BitsOf
<1>8. ASSUME NEW j \in 1 .. G * 5
      PROVE  (v[(j - 1) \div 5 + 1] \div 2 ^ (5 - 1 - ((j - 1) % 5))) % 2 = bits[j]
  <2>1. PICK q : q = (j - 1) \div 5
    OBVIOUS
  <2>2. PICK k : k = (j - 1) % 5
    OBVIOUS
  <2>3. q \in Nat /\ k \in 0 .. 4 /\ j = q * 5 + (k + 1)
    BY <2>1, <2>2
  <2>4. q + 1 \in 1 .. G /\ (q + 1) - 1 = q /\ 5 - 1 - k = 4 - k
    BY <2>3
  <2>5. (v[q + 1] \div 2 ^ (4 - k)) % 2 = bits[((q + 1) - 1) * 5 + (k + 1)]
    BY <1>5, <2>3, <2>4
  <2> QED BY <2>1, <2>2, <2>3, <2>4, <2>5
<1>9. bits = [j \in 1 .. G * 5 |-> bits[j]]
  BY LenProperties
<1>10. BitsOf(v, 5) = bits
  BY <1>7, <1>8, <1>9
<1> QED BY <1>1, <1>6, <1>10

LEMMA BitsOfBytes ==
  ASSUME NEW data \in Seq(Octet)
  PROVE  /\ BitsOf(data, 8) \in Seq(Bit) /\ Len(BitsOf(data, 8)) = Len(data) * 8
         /\ \A g \in 1 .. Len(data), i \in 1 .. 8 :
              BitsOf(data, 8)[(g - 1) * 8 + i] = (data[g] \div 2 ^ (8 - i)) % 2
<1> DEFINE N == Len(data)
           f == [j \in 1 .. N * 8 |-> (data[(j - 1) \div 8 + 1] \div 2 ^ (8 - 1 - ((j - 1) % 8))) % 2]
<1>1. BitsOf(data, 8) = f
  BY DEF BitsOf
<1>2. N \in Nat /\ \A g \in 1 .. N : data[g] \in Octet
  BY LenProperties
<1> HIDE DEF N
<1>3. ASSUME NEW g \in 1 .. N, NEW i \in 1 .. 8
      PROVE  (g - 1) * 8 + i \in 1 .. N * 8 /\ f[(g - 1) * 8 + i] = (data[g] \div 2 ^ (8 - i)) % 2
  <2>1. PICK j : j = (g - 1) * 8 + i
    OBVIOUS
  <2>2. j \in 1 .. N * 8 /\ (j - 1) \div 8 = g - 1 /\ (j - 1) % 8 = i - 1
    BY <1>2, <2>1
  <2>3. (g - 1) + 1 = g /\ 8 - 1 - (i - 1) = 8 - i
    BY <1>2
  <2>4. f[j] = (data[(j - 1) \div 8 + 1] \div 2 ^ (8 - 1 - ((j - 1) % 8))) % 2
    BY <2>2
  <2>5. f[j] = (data[g] \div 2 ^ (8 - i)) % 2
    <3> HIDE DEF f
    <3> QED BY <2>2, <2>3, <2>4
  <2> HIDE DEF f
  <2> QED BY <2>1, <2>2, <2>5
<1>4. ASSUME NEW j \in 1 .. N * 8 PROVE f[j] \in Bit
  <2>1. PICK g : g = (j - 1) \div 8 + 1
    OBVIOUS
  <2>2. PICK k : k = 8 - 1 - ((j - 1) % 8)
    OBVIOUS
  <2>3. g \in 1 .. N /\ k \in 0 .. 7
    BY <1>2, <2>1, <2>2
  <2>4. f[j] = (data[g] \div 2 ^ k) % 2
    BY <2>1, <2>2
  <2>5. data[g] \in Octet
    BY <1>2, <2>3
  <2>6. (data[g] \div 2 ^ k) % 2 \in Bit
    BY <2>3, <2>5, EightBits
  <2> HIDE DEF f
  <2> QED BY <2>4, <2>6
<1>5. f \in Seq(Bit) /\ Len(f) = N * 8
  <2>1. f \in [1 .. N * 8 -> Bit]
    <3>1. f = [j \in 1 .. N * 8 |-> f[j]]
      OBVIOUS
    <3> HIDE DEF f
    <3> QED BY <1>4, <3>1
  <2>2. N * 8 \in Nat
    BY <1>2
  <2> HIDE DEF f
  <2> QED BY <2>1, <2>2, FunctionSeq
<1> HIDE DEF f
<1> QED BY <1>1, <1>3, <1>5 DEF N

LEMMA EightsBack ==
  ASSUME NEW data \in Seq(Octet), NEW bits \in Seq(Bit), Len(bits) \div 8 = Len(data),
         \A j \in 1 .. Len(data) * 8 : bits[j] = BitsOf(data, 8)[j]
  PROVE  Whole(bits, 8) = data
<1>1. PICK N : N = Len(data)
  OBVIOUS
<1>2. N \in Nat /\ data = [g \in 1 .. N |-> data[g]] /\ \A g \in 1 .. N : data[g] \in Octet
  BY <1>1, LenProperties
<1>3. Whole(bits, 8) = [g \in 1 .. N |-> Value(SubSeq(bits, (g - 1) * 8 + 1, g * 8))]
  BY <1>1 DEF Whole
<1>4. Len(bits) \in Nat /\ Len(bits) >= N * 8
  <2>1. Len(bits) \in Nat
    BY LenProperties
  <2> QED BY <1>1, <1>2, <2>1
<1>5. ASSUME NEW g \in 1 .. N PROVE Value(SubSeq(bits, (g - 1) * 8 + 1, g * 8)) = data[g]
  <2>1. PICK s : s = SubSeq(bits, (g - 1) * 8 + 1, g * 8)
    OBVIOUS
  <2>2. /\ s \in Seq(Bit) /\ Len(s) = 8
        /\ \A i \in 1 .. 8 : s[i] = bits[(g - 1) * 8 + i]
    <3>1. 8 \in Nat \ {0} /\ N \in Nat
      BY <1>2
    <3>2. Len(bits) >= N * 8
      BY <1>4
    <3> QED BY <2>1, <3>1, <3>2, GroupOf
  <2>3. Value(s) = 2 * (2 * (2 * (2 * (2 * (2 * (2 * s[1] + s[2]) + s[3]) + s[4]) + s[5]) + s[6]) + s[7]) + s[8]
    BY <2>2, ValueOfEight
  <2> DEFINE b(k) == (data[g] \div 2 ^ k) % 2
  <2>4. ASSUME NEW i \in 1 .. 8 PROVE s[i] = b(8 - i)
    <3>1. (g - 1) * 8 + i \in 1 .. N * 8
      BY <1>2, SMTT(30)
    <3>2. bits[(g - 1) * 8 + i] = BitsOf(data, 8)[(g - 1) * 8 + i]
      BY <1>1, <3>1
    <3>3. BitsOf(data, 8)[(g - 1) * 8 + i] = (data[g] \div 2 ^ (8 - i)) % 2
      BY <1>1, BitsOfBytes
    <3> QED BY <2>2, <3>2, <3>3
  <2>5. data[g] = 2 * (2 * (2 * (2 * (2 * (2 * (2 * b(7) + b(6)) + b(5)) + b(4)) + b(3)) + b(2)) + b(1)) + b(0)
    BY <1>2, EightBits
  <2> HIDE DEF b
  <2>6. /\ s[1] = b(7) /\ s[2] = b(6) /\ s[3] = b(5) /\ s[4] = b(4)
        /\ s[5] = b(3) /\ s[6] = b(2) /\ s[7] = b(1) /\ s[8] = b(0)
    BY <2>4, 8 - 1 = 7, 8 - 2 = 6, 8 - 3 = 5, 8 - 4 = 4, 8 - 5 = 3, 8 - 6 = 2, 8 - 7 = 1, 8 - 8 = 0
  <2> QED BY <2>1, <2>3, <2>5, <2>6
<1> QED BY <1>2, <1>3, <1>5

\* Regrouped as quintets and back, octets are what they were.
LEMMA RegroupedBack ==
  ASSUME NEW data \in Seq(Octet)
  PROVE  /\ Regroup(data, 8, 5) \in Seq(Quintet)
         /\ Ungroup(Regroup(data, 8, 5), 5, 8) = <<"ok", data>>
<1>1. PICK bits : bits = BitsOf(data, 8)
  OBVIOUS
<1>2. PICK N : N = Len(data)
  OBVIOUS
<1>3. N \in Nat /\ bits \in Seq(Bit) /\ Len(bits) = N * 8
  BY <1>1, <1>2, BitsOfBytes, LenProperties
<1>4. PICK p : p = (-Len(bits)) % 5
  OBVIOUS
<1>5. PICK G : G = (N * 8 + p) \div 5
  OBVIOUS
<1>6. p \in 0 .. 4 /\ G \in Nat /\ N * 8 + p = G * 5
  BY <1>3, <1>4, <1>5
<1>7. PICK z : z = Padded(bits, 5)
  OBVIOUS
<1>8. /\ z \in Seq(Bit) /\ Len(z) = N * 8 + p
      /\ \A j \in 1 .. N * 8 : z[j] = bits[j]
      /\ \A j \in N * 8 + 1 .. N * 8 + p : z[j] = 0
  <2>1. z = bits \o [i \in 1 .. p |-> 0]
    BY <1>4, <1>7 DEF Padded
  <2>2. p \in Nat
    BY <1>6
  <2> QED BY <1>3, <2>1, <2>2, ZeroPadding, ZenonT(30)
<1>9. PICK v : v = Regroup(data, 8, 5)
  OBVIOUS
<1>10. v = Whole(z, 5)
  BY <1>1, <1>7, <1>9 DEF Regroup
<1>11. v \in Seq(Quintet) /\ BitsOf(v, 5) = z
  BY <1>6, <1>8, <1>10, FivesBack
<1>12. Len(z) % 8 = p /\ Len(z) \div 8 = N
  <2>1. N \in Nat /\ p \in 0 .. 4
    BY <1>3, <1>6
  <2>2. (N * 8 + p) % 8 = p /\ (N * 8 + p) \div 8 = N
    BY <2>1
  <2> QED BY <1>8, <2>2
<1>13. Whole(z, 8) = data
  <2>1. \A j \in 1 .. Len(data) * 8 : z[j] = BitsOf(data, 8)[j]
    BY <1>1, <1>2, <1>8
  <2>2. Len(z) \div 8 = Len(data)
    BY <1>2, <1>12
  <2> QED BY <1>8, <2>1, <2>2, EightsBack
<1>14. Ungroup(v, 5, 8) = <<"ok", data>>
  <2>1. ~(p >= 5)
    BY <1>6
  <2>2. \A j \in Len(z) - p + 1 .. Len(z) : z[j] # 1
    <3>1. Len(z) - p + 1 = N * 8 + 1
      BY <1>3, <1>6, <1>8
    <3> QED BY <1>8, <3>1
  <2> QED BY <1>11, <1>12, <1>13, <2>1, <2>2 DEF Ungroup
<1> QED BY <1>9, <1>11, <1>14

(***************************************************************************)
(* The checksum.                                                           *)
(***************************************************************************)
Sums30 == SUBSET (0 .. 29)
Shift(B) == {b + 5 : b \in B}

LEMMA StepType ==
  ASSUME NEW chk \in Sums30, NEW v \in Octet
  PROVE  Step(chk, v) \in Sums30
<1> DEFINE top == {b - 25 : b \in chk \cap 25 .. 29}
<1>1. Carried[top] \subseteq 0 .. 29
  <2>1. top \in SUBSET (0 .. 4)
    OBVIOUS
  <2> HIDE DEF top
  <2> QED BY <2>1 DEF Carried
<1>2. Five[v] \subseteq 0 .. 29
  BY DEF Five, Bits, Octet
<1>3. {b + 5 : b \in chk \cap 0 .. 24} \subseteq 0 .. 29
  OBVIOUS
<1> QED BY <1>1, <1>2, <1>3 DEF Step, Xor, Sums30

\* What is added to the low bits of the sum is shifted and added to the next.
LEMMA StepAdds ==
  ASSUME NEW A \in Sums30, NEW B \in SUBSET (0 .. 24), NEW v \in Octet
  PROVE  Step(Xor(A, B), v) = Xor(Step(A, 0), Xor(Shift(B), Five[v]))
<1>1. {b - 25 : b \in Xor(A, B) \cap 25 .. 29} = {b - 25 : b \in A \cap 25 .. 29}
  <2>1. Xor(A, B) \cap 25 .. 29 = A \cap 25 .. 29
    BY DEF Xor
  <2> QED BY <2>1
<1>2. PICK C : C = Carried[{b - 25 : b \in A \cap 25 .. 29}]
  OBVIOUS
<1>3. Five[0] = {}
  <2>1. Bits(0, 8) = {}
    <3>3. ASSUME NEW k \in 0 .. 8 - 1 PROVE ~((0 \div 2 ^ k) % 2 = 1)
      <4>1. PICK d : d = 2 ^ k
        OBVIOUS
      <4>2. k \in 0 .. 7
        OBVIOUS
      <4>3. d \in {1, 2, 4, 8, 16, 32, 64, 128}
        BY <4>1, <4>2, PowersOfTwo
      <4>4. ~((0 \div d) % 2 = 1)
        BY <4>3
      <4> QED BY <4>1, <4>4
    <3>4. Bits(0, 8) = {k \in 0 .. 8 - 1 : (0 \div 2 ^ k) % 2 = 1}
      BY DEF Bits
    <3> QED BY <3>3, <3>4
  <2> QED BY <2>1 DEF Five
<1>4. {b + 5 : b \in Xor(A, B) \cap 0 .. 24} = Xor(Shift(A \cap 0 .. 24), Shift(B))
  BY DEF Xor, Shift
<1>5. Step(Xor(A, B), v) = Xor(Xor(Xor(Shift(A \cap 0 .. 24), Shift(B)), Five[v]), C)
  BY <1>1, <1>2, <1>4 DEF Step
<1>6. Step(A, 0) = Xor(Xor(Shift(A \cap 0 .. 24), {}), C)
  BY <1>2, <1>3 DEF Step, Shift
<1> QED BY <1>5, <1>6 DEF Xor

\* chk[n] is the sum of the first n values.
Checks(chk, values) ==
  /\ chk \in [0 .. Len(values) -> Sums30]
  /\ chk[0] = {0}
  /\ \A n \in 1 .. Len(values) : chk[n] = Step(chk[n - 1], values[n])

LEMMA PolymodChecks ==
  ASSUME NEW values \in Seq(Octet)
  PROVE  \E chk : Checks(chk, values) /\ Polymod(values) = chk[Len(values)]
<1> DEFINE L == Len(values)
           step == [n \in 1 .. L |-> [x \in Sums30 |-> Step(x, values[n])]]
           chk == CHOOSE f : f = [n \in 0 .. L |-> IF n = 0 THEN {0} ELSE Step(f[n - 1], values[n])]
<1>1. L \in Nat /\ \A n \in 1 .. L : values[n] \in Octet
  BY LenProperties
<1>2. step \in StepsTo(L, Sums30)
  BY <1>1, StepType DEF StepsTo
<1>3. {0} \in Sums30
  BY DEF Sums30
<1>4. PICK g : IteratesTo(g, L, Sums30, {0}, step)
  <2> HIDE DEF step, L
  <2> QED BY <1>1, <1>2, <1>3, RecursionUpTo
<1>5. g \in [0 .. L -> Sums30] /\ g[0] = {0} /\ \A n \in 1 .. L : g[n] = step[n][g[n - 1]]
  BY <1>4 DEF IteratesTo
<1>6. ASSUME NEW n \in 1 .. L PROVE g[n] = Step(g[n - 1], values[n])
  <2>1. n - 1 \in 0 .. L
    BY <1>1
  <2>2. g[n - 1] \in Sums30
    <3> HIDE DEF step, chk, L
    <3> QED BY <1>5, <2>1
  <2> HIDE DEF chk
  <2> QED BY <1>5, <2>2
<1>7. g = [n \in 0 .. L |-> IF n = 0 THEN {0} ELSE Step(g[n - 1], values[n])]
  <2>1. \A n \in 0 .. L : n # 0 => n \in 1 .. L
    BY <1>1
  <2> HIDE DEF L
  <2> QED BY <1>5, <1>6, <2>1
<1>8. chk = [n \in 0 .. L |-> IF n = 0 THEN {0} ELSE Step(chk[n - 1], values[n])]
  BY <1>7
<1>9. Polymod(values) = chk[L]
  BY DEF Polymod
<1> HIDE DEF chk
<1>10. \A n \in 0 .. L : chk[n] \in Sums30
  <2> DEFINE P == {n \in Nat : n <= L => chk[n] \in Sums30}
  <2>1. 0 \in P
    BY <1>1, <1>3, <1>8
  <2>2. ASSUME NEW n \in Nat, n \in P PROVE n + 1 \in P
    <3>1. CASE n + 1 <= L
      <4>1. n + 1 \in 0 .. L /\ n + 1 # 0 /\ (n + 1) - 1 = n /\ n <= L /\ n + 1 \in 1 .. L
        BY <3>1, <1>1
      <4>2. chk[n + 1] = Step(chk[n], values[n + 1])
        BY <1>8, <4>1
      <4>3. chk[n] \in Sums30 /\ values[n + 1] \in Octet
        BY <1>1, <2>2, <4>1
      <4> QED BY <4>2, <4>3, StepType
    <3> QED BY <3>1
  <2>3. Nat \subseteq P
    <3> HIDE DEF P
    <3> QED BY <2>1, <2>2, SetInduction
  <2> QED BY <2>3, <1>1
<1>11. Checks(chk, values)
  <2>1. chk \in [0 .. L -> Sums30]
    BY <1>8, <1>10
  <2>2. chk[0] = {0}
    BY <1>1, <1>8
  <2>3. ASSUME NEW n \in 1 .. L PROVE chk[n] = Step(chk[n - 1], values[n])
    <3>1. n \in 0 .. L /\ n # 0
      BY <1>1
    <3> HIDE DEF L
    <3> QED BY <1>8, <3>1
  <2> QED BY <2>1, <2>2, <2>3 DEF Checks
<1> QED BY <1>9, <1>11

\* The sum of a sequence goes on from that of its beginning.
LEMMA ChecksAgree ==
  ASSUME NEW x \in Seq(Octet), NEW y \in Seq(Octet), NEW f, NEW g,
         Checks(f, x), Checks(g, x \o y)
  PROVE  g[Len(x)] = f[Len(x)]
<1> DEFINE L == Len(x)
           P == {n \in Nat : n <= L => g[n] = f[n]}
<1>1. /\ L \in Nat /\ Len(y) \in Nat /\ Len(x \o y) = L + Len(y)
      /\ \A n \in 1 .. L : (x \o y)[n] = x[n]
  <2>1. L \in Nat /\ Len(y) \in Nat
    BY LenProperties
  <2> QED BY <2>1, ConcatProperties
<1>2. f[0] = {0} /\ \A n \in 1 .. L : f[n] = Step(f[n - 1], x[n])
  BY DEF Checks
<1>3. g[0] = {0} /\ \A n \in 1 .. L : g[n] = Step(g[n - 1], x[n])
  <2>1. \A n \in 1 .. L : n \in 1 .. Len(x \o y)
    BY <1>1
  <2>2. g[0] = {0} /\ \A n \in 1 .. Len(x \o y) : g[n] = Step(g[n - 1], (x \o y)[n])
    BY DEF Checks
  <2> QED BY <1>1, <2>1, <2>2
<1>4. 0 \in P
  BY <1>2, <1>3
<1>5. ASSUME NEW n \in Nat, n \in P PROVE n + 1 \in P
  <2>1. CASE n + 1 <= L
    <3>1. n + 1 \in 1 .. L /\ (n + 1) - 1 = n /\ n <= L
      BY <1>1, <2>1
    <3> QED BY <1>2, <1>3, <1>5, <3>1
  <2> QED BY <2>1
<1>6. Nat \subseteq P
  <2> HIDE DEF P
  <2> QED BY <1>4, <1>5, SetInduction
<1> QED BY <1>1, <1>6

\* Six more values are six more steps.
SixSteps(r, start, c, end) ==
  /\ r \in [0 .. 6 -> Sums30]
  /\ r[0] = start /\ r[6] = end
  /\ \A i \in 1 .. 6 : r[i] = Step(r[i - 1], c[i])

LEMMA PolymodSix ==
  ASSUME NEW x \in Seq(Octet), NEW c \in Seq(Octet), Len(c) = 6
  PROVE  \E r : SixSteps(r, Polymod(x), c, Polymod(x \o c))
<1>1. PICK L : L = Len(x)
  OBVIOUS
<1>2. PICK z : z = x \o c
  OBVIOUS
<1>3. /\ L \in Nat /\ z \in Seq(Octet) /\ Len(z) = L + 6
      /\ \A i \in 1 .. 6 : z[L + i] = c[i]
  <2>1. L \in Nat
    BY <1>1, LenProperties
  <2>2. /\ z \in Seq(Octet) /\ Len(z) = L + 6
        /\ \A i \in 1 .. L + 6 : z[i] = IF i <= L THEN x[i] ELSE c[i - L]
    <3>1. /\ z \in Seq(Octet) /\ Len(z) = Len(x) + Len(c)
          /\ \A i \in 1 .. Len(x) + Len(c) : z[i] = IF i <= Len(x) THEN x[i] ELSE c[i - Len(x)]
      BY <1>2, ConcatProperties
    <3> QED BY <1>1, <3>1
  <2>3. ASSUME NEW i \in 1 .. 6 PROVE z[L + i] = c[i]
    <3>1. L + i \in 1 .. L + 6 /\ ~(L + i <= L) /\ (L + i) - L = i
      BY <2>1
    <3> QED BY <2>2, <3>1
  <2> QED BY <2>1, <2>2, <2>3
<1>4. PICK f : Checks(f, x) /\ Polymod(x) = f[L]
  BY <1>1, PolymodChecks
<1>5. PICK g : Checks(g, z) /\ Polymod(z) = g[L + 6]
  BY <1>3, PolymodChecks
<1>6. g[L] = Polymod(x)
  BY <1>1, <1>2, <1>4, <1>5, ChecksAgree
<1>7. g \in [0 .. L + 6 -> Sums30] /\ \A n \in 1 .. L + 6 : g[n] = Step(g[n - 1], z[n])
  BY <1>3, <1>5 DEF Checks
<1> DEFINE r == [i \in 0 .. 6 |-> g[L + i]]
<1>8. \A i \in 0 .. 6 : r[i] = g[L + i] /\ g[L + i] \in Sums30
  BY <1>3, <1>7
<1>9. r \in [0 .. 6 -> Sums30]
  BY <1>8
<1> HIDE DEF r
<1>10. ASSUME NEW i \in 1 .. 6 PROVE r[i] = Step(r[i - 1], c[i])
  <2>1. /\ L + i \in 1 .. L + 6 /\ (L + i) - 1 = L + (i - 1)
        /\ i \in 0 .. 6 /\ i - 1 \in 0 .. 6
    <3>1. L \in Nat
      BY <1>3
    <3> QED BY <3>1
  <2>2. r[i] = g[L + i] /\ r[i - 1] = g[L + (i - 1)]
    BY <1>8, <2>1
  <2>3. g[L + i] = Step(g[L + (i - 1)], z[L + i])
    BY <1>7, <2>1
  <2>4. z[L + i] = c[i]
    BY <1>3
  <2> QED BY <2>2, <2>3, <2>4
<1>11. r[0] = Polymod(x) /\ r[6] = Polymod(z)
  BY <1>3, <1>5, <1>6, <1>8, L + 0 = L
<1> QED BY <1>2, <1>9, <1>10, <1>11 DEF SixSteps


LEMMA FiveOf ==
  ASSUME NEW T
  PROVE  LET s == [i \in 1 .. 5 |-> IF 5 - i \in T THEN 1 ELSE 0] IN
         Value(s) \in Quintet /\ Five[Value(s)] = T \cap 0 .. 4
<1>1. PICK s : s = [i \in 1 .. 5 |-> IF 5 - i \in T THEN 1 ELSE 0]
  OBVIOUS
<1>2. s \in Seq(Bit) /\ Len(s) = 5
  <2>1. s \in [1 .. 5 -> Bit]
    BY <1>1 DEF Bit
  <2> QED BY <2>1, FunctionSeq
<1>3. PICK v : v = Value(s)
  OBVIOUS
<1>4. PICK a \in Bit, b \in Bit, c \in Bit, d \in Bit, e \in Bit :
        a = s[1] /\ b = s[2] /\ c = s[3] /\ d = s[4] /\ e = s[5]
  <2>1. \A i \in 1 .. 5 : s[i] \in Bit
    BY <1>1 DEF Bit
  <2> QED BY <2>1
<1>5. v = 2 * (2 * (2 * (2 * a + b) + c) + d) + e
  BY <1>2, <1>3, <1>4, ValueOfFive
<1>6. /\ v \in Quintet
      /\ (v \div 2 ^ 4) % 2 = a /\ (v \div 2 ^ 3) % 2 = b /\ (v \div 2 ^ 2) % 2 = c
      /\ (v \div 2 ^ 1) % 2 = d /\ (v \div 2 ^ 0) % 2 = e
  BY <1>5, FiveBits
<1>7. /\ a = 1 <=> 4 \in T
      /\ b = 1 <=> 3 \in T
      /\ c = 1 <=> 2 \in T
      /\ d = 1 <=> 1 \in T
      /\ e = 1 <=> 0 \in T
  BY <1>1, <1>4, 5 - 1 = 4, 5 - 2 = 3, 5 - 3 = 2, 5 - 4 = 1, 5 - 5 = 0
<1>8. ASSUME NEW k \in 0 .. 8 - 1 PROVE (v \div 2 ^ k) % 2 = 1 <=> k \in T \cap 0 .. 4
  <2>1. CASE k = 0
    BY <1>6, <1>7, <2>1
  <2>2. CASE k = 1
    BY <1>6, <1>7, <2>2
  <2>3. CASE k = 2
    BY <1>6, <1>7, <2>3
  <2>4. CASE k = 3
    BY <1>6, <1>7, <2>4
  <2>5. CASE k = 4
    BY <1>6, <1>7, <2>5
  <2>6. CASE k = 5
    <3>1. 2 ^ k = 32
      BY <2>6
    <3>2. (v \div 32) % 2 = 0
      BY <1>6 DEF Quintet
    <3> QED BY <2>6, <3>1, <3>2
  <2>7. CASE k = 6
    <3>1. 2 ^ k = 64
      BY <2>7
    <3>2. (v \div 64) % 2 = 0
      BY <1>6 DEF Quintet
    <3> QED BY <2>7, <3>1, <3>2
  <2>8. CASE k = 7
    <3>1. 2 ^ k = 128
      BY <2>8
    <3>2. (v \div 128) % 2 = 0
      BY <1>6 DEF Quintet
    <3> QED BY <2>8, <3>1, <3>2
  <2> QED BY <2>1, <2>2, <2>3, <2>4, <2>5, <2>6, <2>7, <2>8
<1>9. Five[v] = {k \in 0 .. 8 - 1 : (v \div 2 ^ k) % 2 = 1}
  <2>1. v \in 0 .. 255
    BY <1>6 DEF Quintet
  <2> QED BY <2>1 DEF Five, Bits
<1>10. {k \in 0 .. 8 - 1 : (v \div 2 ^ k) % 2 = 1} = T \cap 0 .. 4
  <2>1. T \cap 0 .. 4 \subseteq 0 .. 8 - 1
    OBVIOUS
  <2> QED BY <1>8, <2>1
<1> QED BY <1>1, <1>3, <1>6, <1>9, <1>10

\* The sum with the checksum behind, from the sum with zeros behind: after i
\* more values the two differ in the bits that will be shifted to where mod
\* has them.
Ahead(mod, i) == {b \in 0 .. 29 : b < 5 * i /\ b + 5 * (6 - i) \in mod}

LEMMA AheadStep ==
  ASSUME NEW mod \in Sums30, NEW i \in 1 .. 6, NEW F,
         F = {b \in 0 .. 4 : 5 * (6 - i) + b \in mod}
  PROVE  /\ Ahead(mod, i - 1) \in SUBSET (0 .. 24)
         /\ Xor(Shift(Ahead(mod, i - 1)), F) = Ahead(mod, i)
<1>1. Ahead(mod, i - 1) \in SUBSET (0 .. 24)
  BY DEF Ahead
<1>2. ASSUME NEW b PROVE b \in Shift(Ahead(mod, i - 1)) <=> b \in Ahead(mod, i) /\ b \notin 0 .. 4
  <2>1. ASSUME b \in Shift(Ahead(mod, i - 1)) PROVE b \in Ahead(mod, i) /\ b \notin 0 .. 4
    <3>1. PICK a \in 0 .. 29 : a < 5 * (i - 1) /\ a + 5 * (6 - (i - 1)) \in mod /\ b = a + 5
      BY <2>1 DEF Ahead, Shift
    <3>2. a + 5 * (6 - (i - 1)) = b + 5 * (6 - i)
      BY <3>1
    <3> QED BY <3>1, <3>2 DEF Ahead
  <2>2. ASSUME b \in Ahead(mod, i), b \notin 0 .. 4 PROVE b \in Shift(Ahead(mod, i - 1))
    <3>1. b \in 0 .. 29 /\ b < 5 * i /\ b + 5 * (6 - i) \in mod
      BY <2>2 DEF Ahead
    <3>2. b - 5 \in 0 .. 29 /\ b - 5 < 5 * (i - 1) /\ (b - 5) + 5 * (6 - (i - 1)) = b + 5 * (6 - i)
      BY <2>2, <3>1
    <3>3. b - 5 \in Ahead(mod, i - 1) /\ (b - 5) + 5 = b
      BY <3>1, <3>2 DEF Ahead
    <3> QED BY <3>3 DEF Shift
  <2> QED BY <2>1, <2>2
<1>3. ASSUME NEW b PROVE b \in F <=> b \in Ahead(mod, i) /\ b \in 0 .. 4
  <2>1. \A a \in 0 .. 4 : a \in 0 .. 29 /\ a < 5 * i /\ 5 * (6 - i) + a = a + 5 * (6 - i)
    OBVIOUS
  <2> QED BY <2>1 DEF Ahead
<1> QED BY <1>1, <1>2, <1>3 DEF Xor

LEMMA AheadEnds ==
  ASSUME NEW mod \in Sums30
  PROVE  Ahead(mod, 0) = {} /\ Ahead(mod, 6) = mod
<1>1. \A b \in 0 .. 29 : ~(b < 5 * 0) /\ b < 5 * 6 /\ b + 5 * (6 - 6) = b
  OBVIOUS
<1>2. \A b : b \in mod => b \in 0 .. 29
  BY DEF Sums30
<1>3. \A b : b \notin Ahead(mod, 0)
  BY <1>1 DEF Ahead
<1>4. \A b : b \in Ahead(mod, 6) <=> b \in mod
  BY <1>1, <1>2 DEF Ahead
<1>5. Ahead(mod, 6) \subseteq 0 .. 29
  BY DEF Ahead
<1>6. Ahead(mod, 6) = mod
  BY <1>4
<1>7. Ahead(mod, 0) = {}
  BY <1>3
<1> QED BY <1>6, <1>7

LEMMA XorTwice ==
  ASSUME NEW A \in Sums30
  PROVE  Xor(A, {0}) \in Sums30 /\ Xor(A, Xor(A, {0})) = {0}
<1>1. Xor(A, {0}) \subseteq 0 .. 29
  BY DEF Xor, Sums30
<1> QED BY <1>1 DEF Xor, Sums30

\* The six values of a checksum have the bits of mod.
Spells(c, mod) ==
  \A i \in 1 .. 6 : Five[c[i]] = {b \in 0 .. 4 : 5 * (6 - i) + b \in mod}

LEMMA ChecksumSums ==
  ASSUME NEW x \in Seq(Octet), NEW c \in Seq(Octet), Len(c) = 6, NEW mod,
         mod = Xor(Polymod(x \o <<0, 0, 0, 0, 0, 0>>), {0}),
         Spells(c, mod)
  PROVE  Polymod(x \o c) = {0}
<1>1. PICK z : z = <<0, 0, 0, 0, 0, 0>>
  OBVIOUS
<1>2. z \in Seq(Octet) /\ Len(z) = 6 /\ \A i \in 1 .. 6 : z[i] = 0
  BY <1>1 DEF Octet
<1>3. PICK r : SixSteps(r, Polymod(x), z, Polymod(x \o z))
  BY <1>2, PolymodSix
<1>4. PICK q : SixSteps(q, Polymod(x), c, Polymod(x \o c))
  BY PolymodSix
<1>5. /\ r \in [0 .. 6 -> Sums30] /\ r[0] = Polymod(x) /\ r[6] = Polymod(x \o z)
      /\ \A i \in 1 .. 6 : r[i] = Step(r[i - 1], 0)
  BY <1>2, <1>3 DEF SixSteps
<1>6. /\ q[0] = Polymod(x) /\ q[6] = Polymod(x \o c)
      /\ \A i \in 1 .. 6 : q[i] = Step(q[i - 1], c[i])
  BY <1>4 DEF SixSteps
<1>7. \A i \in 0 .. 6 : r[i] \in Sums30
  BY <1>5
<1>8. mod \in Sums30 /\ mod = Xor(r[6], {0})
  <2>1. mod = Xor(r[6], {0})
    BY <1>1, <1>5
  <2>2. r[6] \in Sums30
    BY <1>7
  <2> QED BY <2>1, <2>2, XorTwice
<1>9. \A i \in 1 .. 6 : c[i] \in Octet
  BY LenProperties
<1> DEFINE P == {i \in Nat : i <= 6 => q[i] = Xor(r[i], Ahead(mod, i))}
<1>10. 0 \in P
  <2>1. Ahead(mod, 0) = {}
    BY <1>8, AheadEnds
  <2> QED BY <1>5, <1>6, <2>1 DEF Xor
<1>11. ASSUME NEW i \in Nat, i \in P PROVE i + 1 \in P
  <2>1. CASE i + 1 <= 6
    <3>1. i + 1 \in 1 .. 6 /\ (i + 1) - 1 = i /\ i \in 0 .. 6 /\ i <= 6
      BY <2>1
    <3>2. PICK F : F = Five[c[i + 1]]
      OBVIOUS
    <3>3. F = {b \in 0 .. 4 : 5 * (6 - (i + 1)) + b \in mod}
      BY <3>1, <3>2 DEF Spells
    <3>4. /\ Ahead(mod, i) \in SUBSET (0 .. 24)
          /\ Xor(Shift(Ahead(mod, i)), F) = Ahead(mod, i + 1)
      BY <1>8, <3>1, <3>3, AheadStep
    <3>5. q[i + 1] = Step(q[i], c[i + 1]) /\ r[i + 1] = Step(r[i], 0)
      BY <1>5, <1>6, <3>1
    <3>6. q[i] = Xor(r[i], Ahead(mod, i))
      BY <1>11, <3>1
    <3>7. Step(Xor(r[i], Ahead(mod, i)), c[i + 1])
            = Xor(Step(r[i], 0), Xor(Shift(Ahead(mod, i)), Five[c[i + 1]]))
      BY <1>7, <1>9, <3>1, <3>4, StepAdds
    <3>8. q[i + 1] = Xor(r[i + 1], Ahead(mod, i + 1))
      BY <3>2, <3>4, <3>5, <3>6, <3>7
    <3> QED BY <3>8
  <2> QED BY <2>1
<1>12. Nat \subseteq P
  <2> HIDE DEF P
  <2> QED BY <1>10, <1>11, SetInduction
<1>13. q[6] = Xor(r[6], Ahead(mod, 6))
  BY <1>12
<1>14. Ahead(mod, 6) = mod
  BY <1>8, AheadEnds
<1>15. Xor(r[6], Xor(r[6], {0})) = {0}
  BY <1>7, XorTwice
<1> QED BY <1>6, <1>8, <1>13, <1>14, <1>15

\* A checksum that is created is verified.
LEMMA ChecksumHolds ==
  ASSUME NEW hrp, HrpExpand(hrp) \in Seq(Octet), NEW values \in Seq(Quintet)
  PROVE  LET c == CreateChecksum(hrp, values) IN
         /\ c \in Seq(Quintet) /\ Len(c) = 6
         /\ VerifyChecksum(hrp, values \o c)
<1>1. PICK h : h = HrpExpand(hrp)
  OBVIOUS
<1>2. PICK x : x = h \o values
  OBVIOUS
<1>3. h \in Seq(Octet) /\ values \in Seq(Octet) /\ x \in Seq(Octet)
  <2>1. Quintet \subseteq Octet
    BY DEF Quintet, Octet
  <2>2. h \in Seq(Octet) /\ values \in Seq(Octet)
    BY <1>1, <2>1
  <2> QED BY <1>2, <2>2, ConcatProperties
<1>4. PICK mod : mod = Xor(Polymod(x \o <<0, 0, 0, 0, 0, 0>>), {0})
  OBVIOUS
<1>5. PICK c : c = CreateChecksum(hrp, values)
  OBVIOUS
<1>6. c = [p \in 1 .. 6 |-> Value([i \in 1 .. 5 |-> IF 5 * (6 - p) + (5 - i) \in mod THEN 1 ELSE 0])]
  BY <1>1, <1>2, <1>4, <1>5 DEF CreateChecksum
<1>7. ASSUME NEW p \in 1 .. 6
      PROVE  c[p] \in Quintet /\ Five[c[p]] = {b \in 0 .. 4 : 5 * (6 - p) + b \in mod}
  <2>1. PICK T : T = {b \in 0 .. 4 : 5 * (6 - p) + b \in mod}
    OBVIOUS
  <2>2. PICK s : s = [i \in 1 .. 5 |-> IF 5 - i \in T THEN 1 ELSE 0]
    OBVIOUS
  <2>3. s = [i \in 1 .. 5 |-> IF 5 * (6 - p) + (5 - i) \in mod THEN 1 ELSE 0]
    <3>1. \A i \in 1 .. 5 : 5 - i \in T <=> 5 * (6 - p) + (5 - i) \in mod
      BY <2>1
    <3> QED BY <2>2, <3>1
  <2>4. c[p] = Value(s)
    BY <1>6, <2>3
  <2>5. Value(s) \in Quintet /\ Five[Value(s)] = T \cap 0 .. 4
    BY <2>2, FiveOf
  <2> QED BY <2>1, <2>4, <2>5
<1>8. c \in Seq(Quintet) /\ Len(c) = 6
  <2>1. c \in [1 .. 6 -> Quintet]
    BY <1>6, <1>7
  <2> QED BY <2>1, FunctionSeq, ZenonT(30)
<1>9. c \in Seq(Octet)
  BY <1>8 DEF Quintet, Octet
<1>10. Polymod(x \o c) = {0}
  <2>1. Spells(c, mod)
    BY <1>7 DEF Spells
  <2> QED BY <1>3, <1>4, <1>8, <1>9, <2>1, ChecksumSums
<1>11. x \o c = h \o (values \o c)
  BY <1>2, <1>3, <1>9, ConcatAssociative, SMTT(30)
<1>12. VerifyChecksum(hrp, values \o c)
  BY <1>1, <1>10, <1>11 DEF VerifyChecksum
<1> QED BY <1>5, <1>8, <1>12

(***************************************************************************)
(* Sequences and their parts.                                              *)
(***************************************************************************)
LEMMA SeqOfMore ==
  ASSUME NEW S, NEW T, S \subseteq T, NEW s \in Seq(S)
  PROVE  s \in Seq(T)
<1>1. Len(s) \in Nat /\ s \in [1 .. Len(s) -> S]
  BY LenProperties
<1>2. s \in [1 .. Len(s) -> T]
  BY <1>1
<1> QED BY <1>1, <1>2, SeqDef

LEMMA Elements ==
  ASSUME NEW S, NEW s \in Seq(S), NEW n, n = Len(s)
  PROVE  /\ n \in Nat /\ DOMAIN s = 1 .. n
         /\ \A i \in 1 .. n : s[i] \in S
         /\ s = [i \in 1 .. n |-> s[i]]
<1>1. n \in Nat /\ s \in [1 .. n -> S]
  BY LenProperties
<1> QED BY <1>1

\* z is a and b one behind the other.
Joins(z, a, b, m, n) ==
  /\ m \in Nat /\ n \in Nat /\ Len(z) = m + n
  /\ \A i \in 1 .. m : z[i] = a[i]
  /\ \A i \in 1 .. n : z[m + i] = b[i]

LEMMA ConcatJoins ==
  ASSUME NEW S, NEW a \in Seq(S), NEW b \in Seq(S)
  PROVE  a \o b \in Seq(S) /\ Joins(a \o b, a, b, Len(a), Len(b))
<1>1. PICK m, n : m = Len(a) /\ n = Len(b)
  OBVIOUS
<1>2. PICK z : z = a \o b
  OBVIOUS
<1>3. m \in Nat /\ n \in Nat
  BY <1>1, LenProperties
<1>4. /\ z \in Seq(S) /\ Len(z) = Len(a) + Len(b)
      /\ \A i \in 1 .. Len(a) + Len(b) : z[i] = IF i <= Len(a) THEN a[i] ELSE b[i - Len(a)]
  BY <1>2, ConcatProperties
<1>5. Len(z) = m + n /\ \A i \in 1 .. m + n : z[i] = IF i <= m THEN a[i] ELSE b[i - m]
  BY <1>1, <1>4
<1>6. ASSUME NEW i \in 1 .. m PROVE z[i] = a[i]
  <2>1. i \in 1 .. m + n /\ i <= m
    BY <1>3
  <2> QED BY <1>5, <2>1
<1>7. ASSUME NEW i \in 1 .. n PROVE z[m + i] = b[i]
  <2>1. m + i \in 1 .. m + n /\ ~(m + i <= m) /\ (m + i) - m = i
    BY <1>3
  <2> QED BY <1>5, <2>1
<1>8. Joins(z, a, b, m, n)
  BY <1>3, <1>5, <1>6, <1>7 DEF Joins
<1> QED BY <1>1, <1>2, <1>4, <1>8

\* A sequence that is found in another one.
LEMMA Slice ==
  ASSUME NEW S, NEW s \in Seq(S), NEW t \in Seq(S), NEW k \in Nat, NEW n, n = Len(t),
         k + n <= Len(s), \A i \in 1 .. n : s[k + i] = t[i]
  PROVE  SubSeq(s, k + 1, k + n) = t
<1>1. n \in Nat /\ Len(s) \in Nat
  BY LenProperties
<1>2. \A i \in 1 .. Len(s) : s[i] \in S
  BY Elements
<1>3. PICK l \in Int, m \in Int : l = k + 1 /\ m = k + n
  BY <1>1
<1>4. \A i \in l .. m : s[i] \in S
  BY <1>1, <1>2, <1>3
<1>5. PICK r : r = SubSeq(s, l, m)
  OBVIOUS
<1>6. r \in Seq(S)
  BY <1>4, <1>5, SubSeqProperties
<1>7. Len(r) = IF l <= m THEN m - l + 1 ELSE 0
  BY <1>4, <1>5, SubSeqProperties
<1>8. \A i \in 1 .. m - l + 1 : r[i] = s[l + i - 1]
  BY <1>4, <1>5, SubSeqProperties
<1>9. Len(r) = n
  BY <1>1, <1>3, <1>7
<1>10. ASSUME NEW i \in 1 .. n PROVE r[i] = t[i]
  <2>1. m - l + 1 = n /\ l + i - 1 = k + i
    BY <1>1, <1>3
  <2>2. r[i] = s[l + i - 1]
    BY <1>8, <2>1
  <2> QED BY <2>1, <2>2
<1> QED BY <1>3, <1>5, <1>6, <1>9, <1>10, SeqEqual

(***************************************************************************)
(* Characters.                                                             *)
(***************************************************************************)
LEMMA CharsetValues ==
  /\ Charset[1] = 113 /\ Charset[2] = 112 /\ Charset[3] = 122 /\ Charset[4] = 114
  /\ Charset[5] = 121 /\ Charset[6] = 57 /\ Charset[7] = 120 /\ Charset[8] = 56
  /\ Charset[9] = 103 /\ Charset[10] = 102 /\ Charset[11] = 50 /\ Charset[12] = 116
  /\ Charset[13] = 118 /\ Charset[14] = 100 /\ Charset[15] = 119 /\ Charset[16] = 48
  /\ Charset[17] = 115 /\ Charset[18] = 51 /\ Charset[19] = 106 /\ Charset[20] = 110
  /\ Charset[21] = 53 /\ Charset[22] = 52 /\ Charset[23] = 107 /\ Charset[24] = 104
  /\ Charset[25] = 99 /\ Charset[26] = 101 /\ Charset[27] = 54 /\ Charset[28] = 109
  /\ Charset[29] = 117 /\ Charset[30] = 97 /\ Charset[31] = 55 /\ Charset[32] = 108
  BY DEF Charset

LEMMA CharsetChars ==
  \A i \in 1 .. 32 : Charset[i] \in 33 .. 126 /\ Charset[i] \notin Upper /\ Charset[i] # One
  BY CharsetValues DEF Upper, One

LEMMA CharsetInjective ==
  \A i, j \in 1 .. 32 : Charset[i] = Charset[j] => i = j
  BY CharsetValues

LEMMA DigitOfChar ==
  \A v \in Quintet : Digits[Charset[v + 1]] = v
<1> SUFFICES ASSUME NEW v \in Quintet PROVE Digits[Charset[v + 1]] = v
  OBVIOUS
<1>1. v + 1 \in 1 .. 32 /\ v + 1 \in Int /\ (v + 1) - 1 = v
  BY DEF Quintet
<1>2. DOMAIN Charset = 1 .. 32
  BY DEF Charset
<1>3. Charset[v + 1] \in ToSet(Charset)
  BY <1>1, <1>2 DEF ToSet
<1>4. Digits[Charset[v + 1]] = (CHOOSE i \in 1 .. 32 : Charset[i] = Charset[v + 1]) - 1
  BY <1>3 DEF Digits
<1>5. (CHOOSE i \in 1 .. 32 : Charset[i] = Charset[v + 1]) = v + 1
  BY <1>1, CharsetInjective
<1> QED BY <1>1, <1>4, <1>5

\* What can be printed, and the characters that values are written with.
Printable == (33 .. 126) \ Upper
Character == Printable \ {One}

LEMMA CharsType ==
  ASSUME NEW w \in Seq(Quintet), NEW n, n = Len(w)
  PROVE  /\ Chars(w) \in Seq(Character) /\ Len(Chars(w)) = n
         /\ ToSet(Chars(w)) \subseteq ToSet(Charset)
         /\ \A i \in 1 .. n : Chars(w)[i] = Charset[w[i] + 1]
<1>1. DOMAIN w = 1 .. n /\ n \in Nat /\ \A i \in 1 .. n : w[i] \in Quintet
  BY Elements
<1>2. Chars(w) = [i \in 1 .. n |-> Charset[w[i] + 1]]
  BY <1>1 DEF Chars
<1>3. ASSUME NEW i \in 1 .. n
      PROVE  Charset[w[i] + 1] \in Character /\ Charset[w[i] + 1] \in ToSet(Charset)
  <2>1. PICK x \in 0 .. 31 : x = w[i]
    BY <1>1 DEF Quintet
  <2>2. w[i] + 1 \in 1 .. 32
    <3>1. x + 1 \in 1 .. 32
      OBVIOUS
    <3> QED BY <2>1, <3>1
  <2>3. DOMAIN Charset = 1 .. 32
    BY DEF Charset
  <2>4. Charset[w[i] + 1] \in ToSet(Charset)
    BY <2>2, <2>3 DEF ToSet
  <2>5. Charset[w[i] + 1] \in Character
    BY <2>2, CharsetChars DEF Character, Printable
  <2> QED BY <2>4, <2>5
<1>4. Chars(w) \in [1 .. n -> Character]
  BY <1>2, <1>3
<1>5. Chars(w) \in Seq(Character) /\ Len(Chars(w)) = n
  BY <1>1, <1>4, FunctionSeq
<1>6. ToSet(Chars(w)) \subseteq ToSet(Charset)
  <2>1. \A x \in ToSet(Chars(w)) : \E i \in 1 .. n : x = Charset[w[i] + 1]
    BY <1>2 DEF ToSet
  <2> QED BY <1>3, <2>1
<1> QED BY <1>2, <1>5, <1>6

LEMMA CharsConcat ==
  ASSUME NEW v \in Seq(Quintet), NEW c \in Seq(Quintet)
  PROVE  Chars(v) \o Chars(c) = Chars(v \o c)
<1>1. PICK w : w = v \o c
  OBVIOUS
<1>2. PICK m, n : m = Len(v) /\ n = Len(c)
  OBVIOUS
<1>3. PICK p, q : p = Chars(v) /\ q = Chars(c)
  OBVIOUS
<1>4. PICK a : a = p \o q
  OBVIOUS
<1>5. /\ m \in Nat /\ n \in Nat
      /\ w \in Seq(Quintet) /\ Len(w) = m + n
      /\ \A i \in 1 .. m : w[i] = v[i]
      /\ \A i \in 1 .. n : w[m + i] = c[i]
  <2>1. w \in Seq(Quintet) /\ Joins(w, v, c, m, n)
    BY <1>1, <1>2, ConcatJoins
  <2> QED BY <2>1 DEF Joins
<1>6. /\ p \in Seq(Character) /\ Len(p) = m
      /\ \A i \in 1 .. m : p[i] = Charset[v[i] + 1]
  BY <1>2, <1>3, CharsType
<1>7. /\ q \in Seq(Character) /\ Len(q) = n
      /\ \A i \in 1 .. n : q[i] = Charset[c[i] + 1]
  BY <1>2, <1>3, CharsType
<1>8. /\ a \in Seq(Character) /\ Len(a) = m + n
      /\ \A i \in 1 .. m : a[i] = p[i]
      /\ \A i \in 1 .. n : a[m + i] = q[i]
  <2>1. a \in Seq(Character) /\ Joins(a, p, q, m, n)
    BY <1>4, <1>6, <1>7, ConcatJoins
  <2> QED BY <2>1 DEF Joins
<1>9. PICK r : r = Chars(w)
  OBVIOUS
<1>10. /\ r \in Seq(Character) /\ Len(r) = m + n
       /\ \A i \in 1 .. m + n : r[i] = Charset[w[i] + 1]
  BY <1>5, <1>9, CharsType
<1>11. ASSUME NEW i \in 1 .. m + n PROVE a[i] = r[i]
  <2>1. CASE i <= m
    <3>1. i \in 1 .. m
      BY <1>5, <2>1
    <3> QED BY <1>5, <1>6, <1>8, <1>10, <3>1
  <2>2. CASE ~(i <= m)
    <3>1. PICK j \in 1 .. n : i = m + j
      <4>1. i - m \in 1 .. n /\ i = m + (i - m)
        BY <1>5, <2>2
      <4> QED BY <4>1
    <3>2. a[i] = Charset[c[j] + 1]
      BY <1>7, <1>8, <3>1
    <3>3. r[i] = Charset[c[j] + 1]
      BY <1>5, <1>10, <3>1
    <3> QED BY <3>2, <3>3
  <2> QED BY <1>5, <2>1, <2>2
<1>12. a = r
  BY <1>8, <1>10, <1>11, SeqEqual
<1> QED BY <1>1, <1>3, <1>4, <1>9, <1>12

\* The values that characters stand for.
LEMMA DigitsOfChars ==
  ASSUME NEW w \in Seq(Quintet)
  PROVE  /\ ToLower(Chars(w)) = Chars(w)
         /\ [i \in DOMAIN Chars(w) |-> Digits[Chars(w)[i]]] = w
<1>1. PICK t : t = Chars(w)
  OBVIOUS
<1>2. PICK n : n = Len(w)
  OBVIOUS
<1>3. t \in Seq(Character) /\ Len(t) = n /\ \A i \in 1 .. n : t[i] = Charset[w[i] + 1]
  BY <1>1, <1>2, CharsType
<1>4. /\ w = [i \in 1 .. n |-> w[i]]
      /\ \A i \in 1 .. n : w[i] \in Quintet
  BY <1>2, Elements
<1>5. /\ DOMAIN t = 1 .. n /\ t = [i \in 1 .. n |-> t[i]]
      /\ \A i \in 1 .. n : t[i] \in Character
  BY <1>3, Elements
<1>6. ToLower(t) = t
  <2>1. ToLower(t) = [i \in 1 .. n |-> IF t[i] \in Upper THEN t[i] + 32 ELSE t[i]]
    BY <1>5 DEF ToLower
  <2>2. \A i \in 1 .. n : t[i] \notin Upper
    BY <1>5 DEF Character, Printable
  <2>3. ToLower(t) = [i \in 1 .. n |-> t[i]]
    BY <2>1, <2>2
  <2> QED BY <1>5, <2>3
<1>7. \A i \in 1 .. n : Digits[t[i]] = w[i]
  BY <1>3, <1>4, DigitOfChar
<1>8. [i \in DOMAIN t |-> Digits[t[i]]] = w
  <2>1. [i \in 1 .. n |-> Digits[t[i]]] = [i \in 1 .. n |-> w[i]]
    BY <1>7
  <2> QED BY <1>4, <1>5, <2>1
<1> QED BY <1>1, <1>6, <1>8

\* Prefixes as they are encoded, with no upper-case letter.
Hrps == Seq(Printable) \ {<<>>}

LEMMA HrpsPrinted ==
  ASSUME NEW hrp \in Hrps
  PROVE  hrp \in Seq(33 .. 126)
<1>1. Printable \subseteq 33 .. 126
  BY DEF Printable
<1> QED BY <1>1, SeqOfMore, ZenonT(30) DEF Hrps

LEMMA ExpandType ==
  ASSUME NEW hrp \in Seq(33 .. 126)
  PROVE  HrpExpand(hrp) \in Seq(Octet)
<1>1. PICK low : low = ToLower(hrp)
  OBVIOUS
<1>2. PICK n : n = Len(hrp)
  OBVIOUS
<1>3. PICK S : S = 33 .. 126
  OBVIOUS
<1>4. n \in Nat /\ DOMAIN hrp = 1 .. n /\ \A i \in 1 .. n : hrp[i] \in S
  <2>1. hrp \in Seq(S)
    BY <1>3
  <2> QED BY <1>2, <2>1, Elements
<1>5. DOMAIN low = 1 .. n /\ \A i \in 1 .. n : low[i] \in 33 .. 126
  <2>1. \A i \in 1 .. n : hrp[i] \in 33 .. 126
    BY <1>3, <1>4
  <2>2. low = [i \in 1 .. n |-> IF hrp[i] \in Upper THEN hrp[i] + 32 ELSE hrp[i]]
    BY <1>1, <1>4 DEF ToLower
  <2>3. \A c \in 33 .. 126 : (IF c \in Upper THEN c + 32 ELSE c) \in 33 .. 126
    BY DEF Upper
  <2> QED BY <2>1, <2>2, <2>3
<1>6. PICK a : a = [i \in 1 .. n |-> low[i] \div 32]
  OBVIOUS
<1>7. PICK b : b = [i \in 1 .. n |-> low[i] % 32]
  OBVIOUS
<1>8. \A x \in 33 .. 126 : x \div 32 \in Octet /\ x % 32 \in Octet
  BY DEF Octet
<1>9. a \in [1 .. n -> Octet] /\ b \in [1 .. n -> Octet]
  BY <1>5, <1>6, <1>7, <1>8
<1>10. a \in Seq(Octet) /\ b \in Seq(Octet)
  BY <1>4, <1>9, FunctionSeq
<1>11. PICK z : z = <<0>>
  OBVIOUS
<1>12. z \in Seq(Octet)
  BY <1>11 DEF Octet
<1>13. (a \o z) \o b \in Seq(Octet)
  <2>1. a \o z \in Seq(Octet)
    BY <1>10, <1>12, ConcatProperties
  <2> QED BY <1>10, <2>1, ConcatProperties
<1>14. HrpExpand(hrp) = (a \o z) \o b
  BY <1>1, <1>5, <1>6, <1>7, <1>11 DEF HrpExpand
<1> QED BY <1>13, <1>14

LEMMA LastOfSet ==
  ASSUME NEW I, I \subseteq Int, NEW m \in I, \A i \in I : i <= m
  PROVE  Max(I) = m
<1>1. \A y \in I : m >= y
  OBVIOUS
<1>2. \A x \in I : (\A y \in I : x >= y) => x = m
  OBVIOUS
<1> QED BY <1>1, <1>2 DEF Max

\* A prefix, the separator and the characters of values are told apart.
Separates(s, hrp, t, h, n) ==
  /\ h \in Nat /\ n \in Nat
  /\ s \in Seq(Printable) /\ Len(s) = (h + 1) + n
  /\ Separator(s) = h + 1
  /\ SubSeq(s, 1, h) = hrp
  /\ SubSeq(s, (h + 1) + 1, (h + 1) + n) = t

LEMMA TextParts ==
  ASSUME NEW hrp \in Seq(Printable), NEW t \in Seq(Character),
         NEW s, s = (hrp \o <<One>>) \o t
  PROVE  Separates(s, hrp, t, Len(hrp), Len(t))
<1>0. PICK h, n : h = Len(hrp) /\ n = Len(t)
  OBVIOUS
<1>1. t \in Seq(Printable)
  <2>1. Character \subseteq Printable
    BY DEF Character
  <2> QED BY <2>1, SeqOfMore
<1>2. h \in Nat /\ n \in Nat /\ \A i \in 1 .. n : t[i] \in Character
  BY <1>0, Elements
<1>3. PICK z : z = <<One>>
  OBVIOUS
<1>4. z \in Seq(Printable) /\ Len(z) = 1 /\ z[1] = One
  <2>1. One \in Printable
    BY DEF One, Printable, Upper
  <2> QED BY <1>3, <2>1
<1>5. PICK p : p = hrp \o z
  OBVIOUS
<1>6. /\ p \in Seq(Printable) /\ Len(p) = h + 1
      /\ \A i \in 1 .. h : p[i] = hrp[i]
      /\ \A i \in 1 .. 1 : p[h + i] = z[i]
  <2>1. p \in Seq(Printable) /\ Joins(p, hrp, z, h, 1)
    BY <1>0, <1>4, <1>5, ConcatJoins
  <2> QED BY <2>1 DEF Joins
<1>7. PICK k : k = h + 1
  OBVIOUS
<1>8. /\ s \in Seq(Printable) /\ Len(s) = k + n
      /\ \A i \in 1 .. k : s[i] = p[i]
      /\ \A i \in 1 .. n : s[k + i] = t[i]
  <2>1. s \in Seq(Printable) /\ Joins(s, p, t, k, n)
    BY <1>0, <1>1, <1>3, <1>5, <1>6, <1>7, ConcatJoins
  <2> QED BY <2>1 DEF Joins
<1>9. s[k] = One
  <2>1. 1 \in 1 .. 1 /\ k \in 1 .. k
    BY <1>2, <1>7
  <2> QED BY <1>4, <1>6, <1>7, <1>8, <2>1
<1>10. ASSUME NEW i \in 1 .. k + n, i > k PROVE s[i] # One
  <2>1. PICK j \in 1 .. n : i = k + j
    <3>1. i - k \in 1 .. n /\ i = k + (i - k)
      BY <1>2, <1>7, <1>10
    <3> QED BY <3>1
  <2>2. s[i] \in Character
    BY <1>2, <1>8, <2>1
  <2> QED BY <2>2 DEF Character
<1>11. Separator(s) = k
  <2> DEFINE I == {i \in 1 .. Len(s) : s[i] = One}
  <2>1. Separator(s) = IF I # {} THEN Max(I) ELSE 0
    BY DEF Separator, SelectLastInSeq
  <2>2. k \in I
    <3>1. k \in 1 .. k + n
      BY <1>2, <1>7
    <3> QED BY <1>8, <1>9, <3>1
  <2>3. I \subseteq Int /\ \A i \in I : i <= k
    <3>1. \A i \in 1 .. k + n : i \in Int /\ (i <= k \/ i > k)
      BY <1>2, <1>7
    <3> QED BY <1>8, <1>10, <3>1
  <2>4. Max(I) = k
    <3> HIDE DEF I
    <3> QED BY <2>2, <2>3, LastOfSet
  <2> QED BY <2>1, <2>2, <2>4
<1>12. SubSeq(s, 0 + 1, 0 + h) = hrp
  <2>1. \A i \in 1 .. h : s[0 + i] = hrp[i]
    <3>1. \A i \in 1 .. h : i \in 1 .. k /\ 0 + i = i
      BY <1>2, <1>7
    <3> QED BY <1>6, <1>8, <3>1
  <2>2. 0 \in Nat /\ 0 + h <= Len(s)
    BY <1>2, <1>7, <1>8
  <2> QED BY <1>0, <1>8, <2>1, <2>2, Slice
<1>13. SubSeq(s, k + 1, k + n) = t
  <2>1. k \in Nat /\ k + n <= Len(s)
    BY <1>2, <1>7, <1>8
  <2> QED BY <1>0, <1>1, <1>8, <2>1, Slice
<1>14. 0 + 1 = 1 /\ 0 + h = h
  BY <1>2
<1>15. Separates(s, hrp, t, h, n)
  BY <1>2, <1>7, <1>8, <1>11, <1>12, <1>13, <1>14 DEF Separates
<1> QED BY <1>0, <1>15

\* What Encode writes is decoded to the data that were encoded, however long
\* they are: the groups of bits, the checksum and the separator all fit.
THEOREM DecodesEncoded ==
  ASSUME NEW hrp \in Hrps, NEW data \in Seq(Octet)
  PROVE  Decode(Encode(hrp, data)) = <<"ok", data>>
<1>1. PICK v : v = Regroup(data, 8, 5)
  OBVIOUS
<1>2. v \in Seq(Quintet) /\ Ungroup(v, 5, 8) = <<"ok", data>>
  BY <1>1, RegroupedBack
<1>3. PICK c : c = CreateChecksum(hrp, v)
  OBVIOUS
<1>4. c \in Seq(Quintet) /\ Len(c) = 6 /\ VerifyChecksum(hrp, v \o c)
  <2>1. HrpExpand(hrp) \in Seq(Octet)
    BY HrpsPrinted, ExpandType
  <2> QED BY <1>2, <1>3, <2>1, ChecksumHolds
<1>5. PICK w : w = v \o c
  OBVIOUS
<1>6. PICK h, n : h = Len(hrp) /\ n = Len(v)
  OBVIOUS
<1>7. /\ n \in Nat /\ w \in Seq(Quintet) /\ Len(w) = n + 6
      /\ \A i \in 1 .. n : w[i] = v[i]
  <2>1. w \in Seq(Quintet) /\ Joins(w, v, c, n, 6)
    BY <1>2, <1>4, <1>5, <1>6, ConcatJoins
  <2> QED BY <2>1 DEF Joins
<1>8. SubSeq(w, 1, n) = v
  <2>1. \A i \in 1 .. n : w[0 + i] = v[i]
    BY <1>7
  <2>2. 0 \in Nat /\ 0 + n <= Len(w) /\ 0 + 1 = 1 /\ 0 + n = n
    BY <1>7
  <2>3. SubSeq(w, 0 + 1, 0 + n) = v
    BY <1>2, <1>6, <1>7, <2>1, <2>2, Slice
  <2> QED BY <2>2, <2>3
<1>9. PICK u : u = Chars(w)
  OBVIOUS
<1>10. /\ u \in Seq(Character) /\ Len(u) = n + 6
       /\ ToSet(u) \subseteq ToSet(Charset)
       /\ ToLower(u) = u
       /\ [i \in DOMAIN u |-> Digits[u[i]]] = w
  BY <1>7, <1>9, DigitsOfChars, CharsType
<1>11. PICK s : s = Encode(hrp, data)
  OBVIOUS
<1>12. hrp \in Seq(Printable) /\ hrp # <<>>
  BY DEF Hrps
<1>13. s = (hrp \o <<One>>) \o u
  <2>1. s = ((hrp \o <<One>>) \o Chars(v)) \o Chars(c)
    BY <1>1, <1>3, <1>11 DEF Encode
  <2>2. PICK p : p = hrp \o <<One>>
    OBVIOUS
  <2>3. p \in Seq(Printable)
    <3>1. One \in Printable
      BY DEF One, Printable, Upper
    <3>2. <<One>> \in Seq(Printable)
      BY <3>1
    <3> QED BY <1>12, <2>2, <3>2, ConcatProperties
  <2>4. Chars(v) \in Seq(Printable) /\ Chars(c) \in Seq(Printable)
    <3>1. Chars(v) \in Seq(Character) /\ Chars(c) \in Seq(Character)
      BY <1>2, <1>4, CharsType
    <3>2. Character \subseteq Printable
      BY DEF Character
    <3> QED BY <3>1, <3>2, SeqOfMore
  <2>5. (p \o Chars(v)) \o Chars(c) = p \o (Chars(v) \o Chars(c))
    BY <2>3, <2>4, ConcatAssociative
  <2>6. Chars(v) \o Chars(c) = u
    BY <1>2, <1>4, <1>5, <1>9, CharsConcat
  <2> QED BY <2>1, <2>2, <2>5, <2>6
<1>14. PICK m : m = n + 6
  OBVIOUS
<1>15. /\ h \in Nat /\ s \in Seq(Printable) /\ Len(s) = (h + 1) + m
       /\ Separator(s) = h + 1
       /\ SubSeq(s, 1, h) = hrp
       /\ SubSeq(s, (h + 1) + 1, (h + 1) + m) = u
  <2>1. Separates(s, hrp, u, h, m)
    BY <1>6, <1>10, <1>12, <1>13, <1>14, TextParts
  <2> QED BY <2>1 DEF Separates
<1>16. h # 0
  BY <1>6, <1>12, EmptySeq
<1>17. ~MixedCase(s)
  <2>1. DOMAIN s = 1 .. Len(s) /\ \A i \in 1 .. Len(s) : s[i] \in Printable
    BY <1>15, Elements
  <2> QED BY <2>1 DEF MixedCase, Printable
<1>18. ~(h + 1 < 2) /\ ~(h + 1 + 6 > Len(s))
  BY <1>7, <1>14, <1>15, <1>16
<1>19. ToSet(hrp) \subseteq 33 .. 126
  <2>1. DOMAIN hrp = 1 .. h /\ \A i \in 1 .. h : hrp[i] \in Printable
    BY <1>6, <1>12, Elements
  <2> QED BY <2>1, ZenonT(30) DEF ToSet, Printable
<1>20. VerifyChecksum(hrp, w)
  BY <1>4, <1>5
<1>21. Ungroup(SubSeq(w, 1, Len(w) - 6), 5, 8) = <<"ok", data>>
  <2>1. Len(w) - 6 = n
    BY <1>7
  <2> QED BY <1>2, <1>8, <2>1
<1>22. Decode(s) = Ungroup(SubSeq(w, 1, Len(w) - 6), 5, 8)
  <2>1. (h + 1) - 1 = h
    BY <1>15
  <2>2. ToLower(SubSeq(s, (h + 1) + 1, Len(s))) = u
    BY <1>10, <1>15
  <2> QED BY <1>10, <1>15, <1>17, <1>18, <1>19, <1>20, <2>1, <2>2 DEF Decode
<1> QED BY <1>11, <1>21, <1>22

(***************************************************************************)
(* Errors: what is shifted out of the checksum is not lost, so sums that   *)
(* differ go on differing.                                                 *)
(***************************************************************************)
Odd(S) == Cardinality(S) % 2 = 1

LEMMA OddWithout == \A T : ~Odd(T \cap {})
BY FS_EmptySet DEF Odd

LEMMA OddWith ==
  ASSUME NEW T, NEW S, IsFiniteSet(S), NEW x, x \notin S
  PROVE  Odd(T \cap (S \cup {x})) <=> (Odd(T \cap S) <=> x \notin T)
<1> DEFINE A == T \cap S
<1>1. IsFiniteSet(A) /\ x \notin A
  BY FS_Subset
<1>2. Cardinality(A) \in Nat
  BY <1>1, FS_CardinalityType
<1>3. CASE x \in T
  <2>1. T \cap (S \cup {x}) = A \cup {x}
    BY <1>3
  <2>2. Cardinality(A \cup {x}) = Cardinality(A) + 1
    BY <1>1, FS_AddElement
  <2>3. PICK n \in Nat : n = Cardinality(A)
    BY <1>2
  <2>4. Odd(T \cap (S \cup {x})) <=> (n + 1) % 2 = 1
    BY <2>1, <2>2, <2>3 DEF Odd
  <2>5. Odd(T \cap S) <=> n % 2 = 1
    BY <2>3 DEF Odd
  <2>6. (n + 1) % 2 = 1 <=> n % 2 # 1
    OBVIOUS
  <2> HIDE DEF A
  <2> QED BY <1>3, <2>4, <2>5, <2>6
<1>4. CASE x \notin T
  <2>1. T \cap (S \cup {x}) = A
    BY <1>4
  <2> QED BY <1>4, <2>1
<1> QED BY <1>3, <1>4

OddOf(T, a, b, c, d) ==
  /\ Odd(T \cap {a, b}) <=> (a \in T <=> b \notin T)
  /\ Odd(T \cap {a, b, c}) <=> ((a \in T <=> b \in T) <=> c \in T)
  /\ Odd(T \cap {a, b, c, d}) <=> (((a \in T <=> b \in T) <=> c \in T) <=> d \notin T)

LEMMA OddFour ==
  ASSUME NEW T, NEW a, NEW b, NEW c, NEW d, a # b, a # c, b # c, a # d, b # d, c # d
  PROVE  OddOf(T, a, b, c, d)
<1>1. /\ {} \cup {a} = {a} /\ {a} \cup {b} = {a, b} /\ {a, b} \cup {c} = {a, b, c}
      /\ {a, b, c} \cup {d} = {a, b, c, d}
  OBVIOUS
<1>2. IsFiniteSet({}) /\ IsFiniteSet({a}) /\ IsFiniteSet({a, b}) /\ IsFiniteSet({a, b, c})
  BY <1>1, FS_EmptySet, FS_AddElement
<1>3. Odd(T \cap {a}) <=> a \in T
  <2>1. ~Odd(T \cap {})
    BY OddWithout
  <2>2. Odd(T \cap ({} \cup {a})) <=> (Odd(T \cap {}) <=> a \notin T)
    BY <1>2, OddWith
  <2> QED BY <1>1, <2>1, <2>2
<1>4. Odd(T \cap {a, b}) <=> (Odd(T \cap {a}) <=> b \notin T)
  <2>1. b \notin {a}
    OBVIOUS
  <2>2. Odd(T \cap ({a} \cup {b})) <=> (Odd(T \cap {a}) <=> b \notin T)
    BY <1>2, <2>1, OddWith
  <2> QED BY <1>1, <2>2
<1>5. Odd(T \cap {a, b, c}) <=> (Odd(T \cap {a, b}) <=> c \notin T)
  <2>1. c \notin {a, b}
    OBVIOUS
  <2>2. Odd(T \cap ({a, b} \cup {c})) <=> (Odd(T \cap {a, b}) <=> c \notin T)
    BY <1>2, <2>1, OddWith
  <2> QED BY <1>1, <2>2
<1>6. Odd(T \cap {a, b, c, d}) <=> (Odd(T \cap {a, b, c}) <=> d \notin T)
  <2>1. d \notin {a, b, c}
    OBVIOUS
  <2>2. Odd(T \cap ({a, b, c} \cup {d})) <=> (Odd(T \cap {a, b, c}) <=> d \notin T)
    BY <1>2, <2>1, OddWith
  <2> QED BY <1>1, <2>2
<1> QED BY <1>3, <1>4, <1>5, <1>6 DEF OddOf

\* The five lowest bits of the generators.
Lowest == <<{1, 4}, {0, 2, 3}, {1, 3, 4}, {0, 2, 3, 4}, {0, 1, 4}>>

LEMMA GeneratorLowest ==
  \A i, b \in 0 .. 4 : b \in Generator[i] <=> b \in Lowest[i + 1]
<1> DEFINE numbers == <<996825010, 642813549, 513874426, 1027748829, 705979059>>
           bit(n, b) == (n \div 2 ^ b) % 2 = 1
<1>1. /\ numbers[1] = 996825010 /\ numbers[2] = 642813549 /\ numbers[3] = 513874426
      /\ numbers[4] = 1027748829 /\ numbers[5] = 705979059
  OBVIOUS
<1>2. 2 ^ 0 = 1 /\ 2 ^ 1 = 2 /\ 2 ^ 2 = 4 /\ 2 ^ 3 = 8 /\ 2 ^ 4 = 16
  OBVIOUS
<1>3. ASSUME NEW i \in 0 .. 4, NEW b \in 0 .. 4
      PROVE  b \in Generator[i] <=> bit(numbers[i + 1], b)
  <2>1. Generator = [j \in 0 .. 4 |-> Bits(numbers[j + 1], 30)]
    BY DEF Generator
  <2> HIDE DEF numbers
  <2>2. Generator[i] = Bits(numbers[i + 1], 30)
    BY <2>1
  <2>3. b \in 0 .. 30 - 1
    OBVIOUS
  <2> QED BY <2>2, <2>3 DEF Bits
<1>4. ASSUME NEW n, NEW i \in 0 .. 4, numbers[i + 1] = n
      PROVE  /\ 0 \in Generator[i] <=> (n \div 1) % 2 = 1
             /\ 1 \in Generator[i] <=> (n \div 2) % 2 = 1
             /\ 2 \in Generator[i] <=> (n \div 4) % 2 = 1
             /\ 3 \in Generator[i] <=> (n \div 8) % 2 = 1
             /\ 4 \in Generator[i] <=> (n \div 16) % 2 = 1
  <2> HIDE DEF numbers
  <2>1. \A b \in 0 .. 4 : b \in Generator[i] <=> (n \div 2 ^ b) % 2 = 1
    BY <1>3, <1>4
  <2>2. 0 \in Generator[i] <=> (n \div 2 ^ 0) % 2 = 1
    BY <2>1
  <2>3. 1 \in Generator[i] <=> (n \div 2 ^ 1) % 2 = 1
    BY <2>1
  <2>4. 2 \in Generator[i] <=> (n \div 2 ^ 2) % 2 = 1
    BY <2>1
  <2>5. 3 \in Generator[i] <=> (n \div 2 ^ 3) % 2 = 1
    BY <2>1
  <2>6. 4 \in Generator[i] <=> (n \div 2 ^ 4) % 2 = 1
    BY <2>1
  <2> QED BY <1>2, <2>2, <2>3, <2>4, <2>5, <2>6
<1> HIDE DEF numbers
<1>5. /\ 0 \notin Generator[0] /\ 1 \in Generator[0] /\ 2 \notin Generator[0]
      /\ 3 \notin Generator[0] /\ 4 \in Generator[0]
  <2>1. numbers[0 + 1] = 996825010
    BY <1>1
  <2> QED BY <1>4, <2>1
<1>6. /\ 0 \in Generator[1] /\ 1 \notin Generator[1] /\ 2 \in Generator[1]
      /\ 3 \in Generator[1] /\ 4 \notin Generator[1]
  <2>1. numbers[1 + 1] = 642813549
    BY <1>1
  <2> QED BY <1>4, <2>1
<1>7. /\ 0 \notin Generator[2] /\ 1 \in Generator[2] /\ 2 \notin Generator[2]
      /\ 3 \in Generator[2] /\ 4 \in Generator[2]
  <2>1. numbers[2 + 1] = 513874426
    BY <1>1
  <2> QED BY <1>4, <2>1
<1>8. /\ 0 \in Generator[3] /\ 1 \notin Generator[3] /\ 2 \in Generator[3]
      /\ 3 \in Generator[3] /\ 4 \in Generator[3]
  <2>1. numbers[3 + 1] = 1027748829
    BY <1>1
  <2> QED BY <1>4, <2>1
<1>9. /\ 0 \in Generator[4] /\ 1 \in Generator[4] /\ 2 \notin Generator[4]
      /\ 3 \notin Generator[4] /\ 4 \in Generator[4]
  <2>1. numbers[4 + 1] = 705979059
    BY <1>1
  <2> QED BY <1>4, <2>1
<1>10. /\ Lowest[0 + 1] = {1, 4} /\ Lowest[1 + 1] = {0, 2, 3} /\ Lowest[2 + 1] = {1, 3, 4}
       /\ Lowest[3 + 1] = {0, 2, 3, 4} /\ Lowest[4 + 1] = {0, 1, 4}
  BY DEF Lowest
<1>11. ASSUME NEW i \in 0 .. 4, NEW b \in 0 .. 4
       PROVE  b \in Generator[i] <=> b \in Lowest[i + 1]
  <2>1. i = 0 \/ i = 1 \/ i = 2 \/ i = 3 \/ i = 4
    OBVIOUS
  <2>2. b = 0 \/ b = 1 \/ b = 2 \/ b = 3 \/ b = 4
    OBVIOUS
  <2>3. CASE i = 0
    BY <1>5, <1>10, <2>2, <2>3
  <2>4. CASE i = 1
    BY <1>6, <1>10, <2>2, <2>4
  <2>5. CASE i = 2
    BY <1>7, <1>10, <2>2, <2>5
  <2>6. CASE i = 3
    BY <1>8, <1>10, <2>2, <2>6
  <2>7. CASE i = 4
    BY <1>9, <1>10, <2>2, <2>7
  <2> QED BY <2>1, <2>3, <2>4, <2>5, <2>6, <2>7
<1> QED BY <1>11

\* The five lowest bits of what is added tell which bits were shifted out.
LEMMA CarriedTells ==
  ASSUME NEW T \in SUBSET (0 .. 4), NEW U \in SUBSET (0 .. 4),
         \A b \in 0 .. 4 : b \in Carried[T] <=> b \in Carried[U]
  PROVE  T = U
<1> DEFINE Column(b) == {i \in 0 .. 4 : b \in Lowest[i + 1]}
<1>1. Column(0) = {1, 3, 4}
  BY DEF Lowest
<1>2. Column(1) = {0, 2, 4}
  BY DEF Lowest
<1>3. Column(2) = {1, 3}
  BY DEF Lowest
<1>4. Column(3) = {1, 2, 3}
  BY DEF Lowest
<1>5. Column(4) = {0, 2, 3, 4}
  BY DEF Lowest
<1>6. ASSUME NEW S \in SUBSET (0 .. 4), NEW b \in 0 .. 4
      PROVE  b \in Carried[S] <=> Odd(S \cap Column(b))
  <2>1. {i \in S : b \in Generator[i]} = S \cap Column(b)
    BY GeneratorLowest
  <2>2. b \in Carried[S] <=> b \in 0 .. 29 /\ Cardinality({i \in S : b \in Generator[i]}) % 2 = 1
    BY DEF Carried
  <2>3. PICK Z : Z = {i \in S : b \in Generator[i]}
    OBVIOUS
  <2>4. b \in Carried[S] <=> Odd(Z)
    BY <2>2, <2>3 DEF Odd
  <2> HIDE DEF Column
  <2> QED BY <2>1, <2>3, <2>4
<1>7. ASSUME NEW S \in SUBSET (0 .. 4)
      PROVE  /\ 0 \in Carried[S] <=> Odd(S \cap {1, 3, 4})
             /\ 1 \in Carried[S] <=> Odd(S \cap {0, 2, 4})
             /\ 2 \in Carried[S] <=> Odd(S \cap {1, 3})
             /\ 3 \in Carried[S] <=> Odd(S \cap {1, 2, 3})
             /\ 4 \in Carried[S] <=> Odd(S \cap {0, 2, 3, 4})
  <2> HIDE DEF Column
  <2>1. \A b \in 0 .. 4 : b \in Carried[S] <=> Odd(S \cap Column(b))
    BY <1>6
  <2>2. 0 \in 0 .. 4 /\ 1 \in 0 .. 4 /\ 2 \in 0 .. 4 /\ 3 \in 0 .. 4 /\ 4 \in 0 .. 4
    OBVIOUS
  <2> QED BY <1>1, <1>2, <1>3, <1>4, <1>5, <2>1, <2>2
<1>8. ASSUME NEW S \in SUBSET (0 .. 4)
      PROVE  /\ 0 \in Carried[S] <=> ((1 \in S <=> 3 \in S) <=> 4 \in S)
             /\ 1 \in Carried[S] <=> ((0 \in S <=> 2 \in S) <=> 4 \in S)
             /\ 2 \in Carried[S] <=> (1 \in S <=> 3 \notin S)
             /\ 3 \in Carried[S] <=> ((1 \in S <=> 2 \in S) <=> 3 \in S)
             /\ 4 \in Carried[S] <=> (((0 \in S <=> 2 \in S) <=> 3 \in S) <=> 4 \notin S)
  <2>1. OddOf(S, 1, 3, 4, 0)
    BY OddFour
  <2>2. OddOf(S, 0, 2, 4, 1)
    BY OddFour
  <2>3. OddOf(S, 1, 2, 3, 0)
    BY OddFour
  <2>4. OddOf(S, 0, 2, 3, 4)
    BY OddFour
  <2>5. OddOf(S, 1, 3, 0, 2)
    BY OddFour
  <2>6. Odd(S \cap {1, 3, 4}) <=> ((1 \in S <=> 3 \in S) <=> 4 \in S)
    BY <2>1 DEF OddOf
  <2>7. Odd(S \cap {0, 2, 4}) <=> ((0 \in S <=> 2 \in S) <=> 4 \in S)
    BY <2>2 DEF OddOf
  <2>8. Odd(S \cap {1, 3}) <=> (1 \in S <=> 3 \notin S)
    BY <2>5 DEF OddOf
  <2>9. Odd(S \cap {1, 2, 3}) <=> ((1 \in S <=> 2 \in S) <=> 3 \in S)
    BY <2>3 DEF OddOf
  <2>10. Odd(S \cap {0, 2, 3, 4}) <=> (((0 \in S <=> 2 \in S) <=> 3 \in S) <=> 4 \notin S)
    BY <2>4 DEF OddOf
  <2> QED BY <1>7, <2>6, <2>7, <2>8, <2>9, <2>10
<1>9. /\ 0 \in Carried[T] <=> 0 \in Carried[U]
      /\ 1 \in Carried[T] <=> 1 \in Carried[U]
      /\ 2 \in Carried[T] <=> 2 \in Carried[U]
      /\ 3 \in Carried[T] <=> 3 \in Carried[U]
      /\ 4 \in Carried[T] <=> 4 \in Carried[U]
  OBVIOUS
<1>10. 2 \in T <=> 2 \in U
  BY <1>8, <1>9
<1>11. 4 \in T <=> 4 \in U
  BY <1>8, <1>9
<1>12. 0 \in T <=> 0 \in U
  BY <1>8, <1>9, <1>10, <1>11
<1>13. 3 \in T <=> 3 \in U
  BY <1>8, <1>9, <1>10, <1>11, <1>12
<1>14. 1 \in T <=> 1 \in U
  BY <1>8, <1>9, <1>13
<1>15. ASSUME NEW i \in 0 .. 4 PROVE i \in T <=> i \in U
  <2>1. i = 0 \/ i = 1 \/ i = 2 \/ i = 3 \/ i = 4
    OBVIOUS
  <2> QED BY <1>10, <1>11, <1>12, <1>13, <1>14, <2>1
<1> QED BY <1>15

LEMMA StepInjective ==
  ASSUME NEW A \in Sums30, NEW B \in Sums30, NEW v, Step(A, v) = Step(B, v)
  PROVE  A = B
<1>1. PICK T : T = {b - 25 : b \in A \cap 25 .. 29}
  OBVIOUS
<1>2. PICK U : U = {b - 25 : b \in B \cap 25 .. 29}
  OBVIOUS
<1>3. T \in SUBSET (0 .. 4) /\ U \in SUBSET (0 .. 4)
  BY <1>1, <1>2
<1>4. PICK C : C = Carried[T]
  OBVIOUS
<1>5. PICK D : D = Carried[U]
  OBVIOUS
<1>6. PICK K : K = {b + 5 : b \in A \cap 0 .. 24}
  OBVIOUS
<1>7. PICK L : L = {b + 5 : b \in B \cap 0 .. 24}
  OBVIOUS
<1>8. PICK F : F = Five[v]
  OBVIOUS
<1>9. Xor(Xor(K, F), C) = Xor(Xor(L, F), D)
  BY <1>1, <1>2, <1>4, <1>5, <1>6, <1>7, <1>8 DEF Step
<1>10. \A b : (b \in K <=> b \in C) <=> (b \in L <=> b \in D)
  BY <1>9 DEF Xor
<1>11. \A b \in 0 .. 4 : b \notin K /\ b \notin L
  BY <1>6, <1>7
<1>12. \A b \in 0 .. 4 : b \in C <=> b \in D
  BY <1>10, <1>11
<1>13. T = U
  BY <1>3, <1>4, <1>5, <1>12, CarriedTells
<1>14. K = L
  BY <1>4, <1>5, <1>10, <1>13
<1>15. ASSUME NEW b \in 0 .. 29 PROVE b \in A <=> b \in B
  <2>1. CASE b \in 0 .. 24
    <3>1. b + 5 \in K <=> b \in A
      BY <1>6, <2>1
    <3>2. b + 5 \in L <=> b \in B
      BY <1>7, <2>1
    <3> QED BY <1>14, <3>1, <3>2
  <2>2. CASE b \in 25 .. 29
    <3>1. b - 25 \in T <=> b \in A
      BY <1>1, <2>2
    <3>2. b - 25 \in U <=> b \in B
      BY <1>2, <2>2
    <3> QED BY <1>13, <3>1, <3>2
  <2> QED BY <2>1, <2>2
<1> QED BY <1>15 DEF Sums30

\* Differences that are not shifted out are shifted, and those of the values added.
LEMMA StepShifts ==
  ASSUME NEW A \in Sums30, NEW B \in Sums30, NEW X, X = Xor(A, B), X \subseteq 0 .. 24,
         NEW v, NEW w
  PROVE  Xor(Step(A, v), Step(B, w)) = Xor(Shift(X), Xor(Five[v], Five[w]))
<1>1. A \cap 25 .. 29 = B \cap 25 .. 29
  BY DEF Xor, Sums30
<1>2. PICK C : C = Carried[{b - 25 : b \in A \cap 25 .. 29}]
  OBVIOUS
<1>3. PICK K : K = {b + 5 : b \in A \cap 0 .. 24}
  OBVIOUS
<1>4. PICK L : L = {b + 5 : b \in B \cap 0 .. 24}
  OBVIOUS
<1>5. Step(A, v) = Xor(Xor(K, Five[v]), C)
  BY <1>2, <1>3 DEF Step
<1>6. Step(B, w) = Xor(Xor(L, Five[w]), C)
  BY <1>1, <1>2, <1>4 DEF Step
<1>7. Xor(K, L) = Shift(X)
  BY <1>3, <1>4 DEF Xor, Shift, Sums30
<1>8. Xor(Xor(Xor(K, Five[v]), C), Xor(Xor(L, Five[w]), C)) = Xor(Xor(K, L), Xor(Five[v], Five[w]))
  BY DEF Xor
<1> QED BY <1>5, <1>6, <1>7, <1>8

\* The bits of a value below 32.
LEMMA FiveOfQuintets ==
  ASSUME NEW v \in Quintet, NEW w \in Quintet
  PROVE  Five[v] \subseteq 0 .. 4 /\ (Five[v] = Five[w] => v = w)
<1>1. ASSUME NEW x \in Quintet
      PROVE  /\ x \in Octet /\ \A k : k \in Five[x] <=> k \in 0 .. 7 /\ (x \div 2 ^ k) % 2 = 1
  BY <1>1 DEF Five, Bits, Quintet, Octet
<1>2. v \div 32 = 0 /\ v \div 64 = 0 /\ v \div 128 = 0
  BY DEF Quintet
<1>3. 2 ^ 5 = 32 /\ 2 ^ 6 = 64 /\ 2 ^ 7 = 128
  OBVIOUS
<1>4. ASSUME NEW k \in Five[v] PROVE k \in 0 .. 4
  <2>1. k \in 0 .. 7 /\ (v \div 2 ^ k) % 2 = 1
    BY <1>1
  <2>2. ASSUME k = 5 PROVE FALSE
    <3>1. v \div 2 ^ k = 0
      BY <1>2, <1>3, <2>2
    <3> QED BY <2>1, <3>1
  <2>3. ASSUME k = 6 PROVE FALSE
    <3>1. v \div 2 ^ k = 0
      BY <1>2, <1>3, <2>3
    <3> QED BY <2>1, <3>1
  <2>4. ASSUME k = 7 PROVE FALSE
    <3>1. v \div 2 ^ k = 0
      BY <1>2, <1>3, <2>4
    <3> QED BY <2>1, <3>1
  <2> QED BY <2>1, <2>2, <2>3, <2>4
<1>5. ASSUME Five[v] = Five[w] PROVE v = w
  <2> DEFINE b(x, k) == (x \div 2 ^ k) % 2
  <2>1. \A k \in 0 .. 7 : b(v, k) \in Bit /\ b(w, k) \in Bit
    BY <1>1, EightBits
  <2>2. \A k \in 0 .. 7 : b(v, k) = 1 <=> b(w, k) = 1
    BY <1>1, <1>5
  <2>3. ASSUME NEW x \in Quintet
        PROVE  x = 2 * (2 * (2 * (2 * (2 * (2 * (2 * b(x, 7) + b(x, 6)) + b(x, 5)) + b(x, 4)) + b(x, 3)) + b(x, 2)) + b(x, 1)) + b(x, 0)
    BY <1>1, EightBits
  <2> HIDE DEF b
  <2>4. \A k \in 0 .. 7 : b(v, k) = b(w, k)
    BY <2>1, <2>2 DEF Bit
  <2>5. /\ b(v, 7) = b(w, 7) /\ b(v, 6) = b(w, 6) /\ b(v, 5) = b(w, 5) /\ b(v, 4) = b(w, 4)
        /\ b(v, 3) = b(w, 3) /\ b(v, 2) = b(w, 2) /\ b(v, 1) = b(w, 1) /\ b(v, 0) = b(w, 0)
    BY <2>4
  <2> QED BY <2>3, <2>5
<1> QED BY <1>4, <1>5

\* The sums f and g of two sequences whose values differ at k first, and behind
\* k + 5 no more: at first what differs are the lowest bits, none of which is
\* shifted out in six steps.
Diverges(f, g, k, n) ==
  /\ n < k => f[n] = g[n]
  /\ n >= k => f[n] # g[n]
  /\ n \in k .. k + 5 => Xor(f[n], g[n]) \subseteq 0 .. 5 * (n - k) + 4

\* Two sequences of values that differ in six places in a row at most.
Burst(x, y, k) ==
  /\ x \in Seq(Octet) /\ y \in Seq(Octet) /\ Len(x) = Len(y)
  /\ k \in 1 .. Len(x) /\ x[k] # y[k]
  /\ \A i \in 1 .. Len(x) : i \notin k .. k + 5 => x[i] = y[i]
  /\ \A i \in 1 .. Len(x) : i \in k .. k + 5 => x[i] \in Quintet /\ y[i] \in Quintet

LEMMA DivergesOn ==
  ASSUME NEW x, NEW y, NEW k, Burst(x, y, k), NEW f, NEW g, Checks(f, x), Checks(g, y),
         NEW n \in Nat, n + 1 <= Len(x), Diverges(f, g, k, n)
  PROVE  Diverges(f, g, k, n + 1)
<1>1. PICK L \in Nat : L = Len(x) /\ L = Len(y)
  BY LenProperties DEF Burst
<1>2. k \in Nat /\ n \in 0 .. L /\ n + 1 \in 1 .. L /\ (n + 1) - 1 = n
  BY <1>1 DEF Burst
<1>3. PICK A, B : A = f[n] /\ B = g[n]
  OBVIOUS
<1>4. PICK v, w : v = x[n + 1] /\ w = y[n + 1]
  OBVIOUS
<1>5. A \in Sums30 /\ B \in Sums30
  BY <1>1, <1>2, <1>3 DEF Checks
<1>6. PICK C, D : C = f[n + 1] /\ D = g[n + 1]
  OBVIOUS
<1>7. C = Step(A, v)
  BY <1>1, <1>2, <1>3, <1>4, <1>6 DEF Checks
<1>8. D = Step(B, w)
  BY <1>1, <1>2, <1>3, <1>4, <1>6 DEF Checks
<1>9. n + 1 \notin k .. k + 5 => v = w
  BY <1>1, <1>2, <1>4 DEF Burst
<1>10. n + 1 \in k .. k + 5 => v \in Quintet /\ w \in Quintet
  BY <1>1, <1>2, <1>4 DEF Burst
<1>11. n + 1 = k => v # w
  BY <1>4 DEF Burst
<1>12. ASSUME n + 1 \in k .. k + 5
       PROVE  /\ Xor(Five[v], Five[w]) \subseteq 0 .. 4
              /\ v # w => Xor(Five[v], Five[w]) # {}
  <2>1. v \in Quintet /\ w \in Quintet
    BY <1>10, <1>12
  <2>2. Five[v] \subseteq 0 .. 4 /\ Five[w] \subseteq 0 .. 4 /\ (Five[v] = Five[w] => v = w)
    BY <2>1, FiveOfQuintets
  <2> QED BY <2>2 DEF Xor
<1> DEFINE E == Xor(A, B)
           F == Xor(Five[v], Five[w])
<1> HIDE DEF E
<1>13. CASE n + 1 < k
  <2>1. A = B /\ v = w
    BY <1>2, <1>3, <1>9, <1>13 DEF Diverges
  <2> QED BY <1>2, <1>6, <1>7, <1>8, <1>13, <2>1 DEF Diverges
<1>14. CASE n + 1 = k
  <2>1. A = B
    BY <1>2, <1>3, <1>14 DEF Diverges
  <2>2. E = {} /\ Shift(E) = {}
    BY <2>1 DEF Xor, Shift, E
  <2>3. Xor(C, D) = Xor(Shift(E), F)
    <3>1. E \subseteq 0 .. 24
      BY <2>2
    <3> QED BY <1>5, <1>7, <1>8, <3>1, StepShifts DEF E
  <2>4. n + 1 \in k .. k + 5 /\ v # w
    BY <1>2, <1>11, <1>14
  <2>5. Xor(C, D) \subseteq 0 .. 4 /\ Xor(C, D) # {}
    <3>1. Xor(C, D) = F
      BY <2>2, <2>3 DEF Xor
    <3> QED BY <1>12, <2>4, <3>1
  <2>6. C # D
    BY <2>5 DEF Xor
  <2>7. 5 * ((n + 1) - k) + 4 = 4 /\ ~(n + 1 < k)
    BY <1>2, <1>14
  <2> QED BY <1>6, <2>5, <2>6, <2>7 DEF Diverges
<1>15. CASE n + 1 > k /\ n + 1 <= k + 5
  <2>1. n \in k .. k + 5 /\ n >= k /\ n + 1 \in k .. k + 5 /\ ~(n + 1 < k)
    BY <1>2, <1>15
  <2>2. PICK m \in Nat : m = 5 * (n - k) + 4
    BY <1>2, <2>1
  <2>3. m <= 24 /\ 5 * ((n + 1) - k) + 4 = m + 5
    BY <1>2, <1>15, <2>2
  <2>4. A # B /\ E \subseteq 0 .. m
    BY <1>3, <2>1, <2>2 DEF Diverges, E
  <2>5. E \subseteq 0 .. 24
    BY <2>3, <2>4
  <2>6. Xor(C, D) = Xor(Shift(E), F)
    BY <1>5, <1>7, <1>8, <2>5, StepShifts DEF E
  <2>7. PICK b \in 0 .. m : b \in E
    BY <2>4 DEF Xor, E
  <2>8. Shift(E) \subseteq 5 .. m + 5 /\ b + 5 \in Shift(E) /\ b + 5 \notin 0 .. 4
    BY <2>4, <2>7 DEF Shift
  <2>9. F \subseteq 0 .. 4
    BY <1>12, <2>1
  <2>10. Xor(C, D) \subseteq 0 .. m + 5 /\ b + 5 \in Xor(C, D)
    <3>1. Xor(C, D) \subseteq Shift(E) \cup F
      BY <2>6 DEF Xor
    <3>2. 5 .. m + 5 \subseteq 0 .. m + 5 /\ 0 .. 4 \subseteq 0 .. m + 5
      OBVIOUS
    <3>3. Xor(C, D) \subseteq 0 .. m + 5
      BY <2>8, <2>9, <3>1, <3>2
    <3>4. b + 5 \notin F
      BY <2>8, <2>9
    <3>5. b + 5 \in Xor(C, D)
      BY <2>6, <2>8, <3>4 DEF Xor
    <3> QED BY <3>3, <3>5
  <2>11. C # D
    BY <2>10 DEF Xor
  <2> QED BY <1>6, <2>1, <2>3, <2>10, <2>11 DEF Diverges
<1>16. CASE n + 1 > k + 5
  <2>1. n >= k /\ n + 1 \notin k .. k + 5 /\ ~(n + 1 < k)
    BY <1>2, <1>16
  <2>2. A # B
    BY <1>3, <2>1 DEF Diverges
  <2>3. C # D
    BY <1>5, <1>7, <1>8, <1>9, <2>1, <2>2, StepInjective
  <2> QED BY <1>6, <2>1, <2>3 DEF Diverges
<1>17. n + 1 < k \/ n + 1 = k \/ (n + 1 > k /\ n + 1 <= k + 5) \/ n + 1 > k + 5
  BY <1>2
<1> QED BY <1>13, <1>14, <1>15, <1>16, <1>17

\* The checksum tells values from others that differ in six places in a row.
LEMMA PolymodTells ==
  ASSUME NEW x, NEW y, NEW k, Burst(x, y, k)
  PROVE  Polymod(x) # Polymod(y)
<1>1. x \in Seq(Octet) /\ y \in Seq(Octet)
  BY DEF Burst
<1>2. PICK L \in Nat : L = Len(x) /\ L = Len(y)
  BY LenProperties DEF Burst
<1>3. k \in 1 .. L
  BY <1>2 DEF Burst
<1>4. PICK f : Checks(f, x) /\ Polymod(x) = f[L]
  BY <1>1, <1>2, PolymodChecks
<1>5. PICK g : Checks(g, y) /\ Polymod(y) = g[L]
  BY <1>1, <1>2, PolymodChecks
<1> DEFINE P == {n \in Nat : n <= L => Diverges(f, g, k, n)}
<1>6. 0 \in P
  <2>1. f[0] = g[0]
    BY <1>4, <1>5 DEF Checks
  <2>2. ~(0 >= k) /\ 0 \notin k .. k + 5
    BY <1>3
  <2> QED BY <2>1, <2>2 DEF Diverges
<1>7. ASSUME NEW n \in Nat, n \in P PROVE n + 1 \in P
  <2>1. ASSUME n + 1 <= L PROVE Diverges(f, g, k, n + 1)
    <3>1. Diverges(f, g, k, n)
      BY <1>2, <1>7, <2>1
    <3> QED BY <1>2, <1>4, <1>5, <2>1, <3>1, DivergesOn
  <2> QED BY <2>1
<1>8. Nat \subseteq P
  <2> HIDE DEF P
  <2> QED BY <1>6, <1>7, SetInduction
<1>9. Diverges(f, g, k, L)
  BY <1>2, <1>8
<1>10. L >= k
  BY <1>2, <1>3
<1> QED BY <1>4, <1>5, <1>9, <1>10 DEF Diverges

(***************************************************************************)
(* What Decode has found in a string that it does not refuse.              *)
(***************************************************************************)
LowerOf(c) == IF c \in Upper THEN c + 32 ELSE c

Reads(s, pos, n, hrp, values) ==
  /\ pos \in Nat /\ pos >= 2 /\ n \in Nat /\ Len(s) = pos + n
  /\ s[pos] = One /\ \A i \in 1 .. n : s[pos + i] # One
  /\ hrp = SubSeq(s, 1, pos - 1) /\ hrp \in Seq(33 .. 126) /\ Len(hrp) = pos - 1
  /\ \A i \in 1 .. pos - 1 : hrp[i] = s[i]
  /\ values \in Seq(Quintet) /\ Len(values) = n
  /\ \A i \in 1 .. n : /\ LowerOf(s[pos + i]) \in ToSet(Charset)
                       /\ values[i] = Digits[LowerOf(s[pos + i])]
  /\ VerifyChecksum(hrp, values)

LEMMA DigitsTell ==
  \A c \in ToSet(Charset) : /\ Digits[c] \in Quintet
                            /\ \A d \in ToSet(Charset) : Digits[c] = Digits[d] => c = d
<1>1. ASSUME NEW c \in ToSet(Charset) PROVE \E v \in Quintet : c = Charset[v + 1] /\ Digits[c] = v
  <2>1. DOMAIN Charset = 1 .. 32
    BY DEF Charset
  <2>2. PICK i \in 1 .. 32 : c = Charset[i]
    BY <2>1 DEF ToSet
  <2>3. i - 1 \in Quintet /\ (i - 1) + 1 = i
    BY DEF Quintet
  <2> QED BY <2>2, <2>3, DigitOfChar
<1> QED BY <1>1

LEMMA SeparatorFound ==
  ASSUME NEW s \in Seq(Octet), NEW pos, pos = Separator(s), pos # 0
  PROVE  pos \in 1 .. Len(s) /\ s[pos] = One /\ \A i \in 1 .. Len(s) : i > pos => s[i] # One
<1> DEFINE I == {i \in 1 .. Len(s) : s[i] = One}
<1>1. Separator(s) = IF I # {} THEN Max(I) ELSE 0
  BY DEF Separator, SelectLastInSeq
<1>2. Len(s) \in Int /\ I \subseteq Int /\ \A i \in I : i <= Len(s)
  BY LenProperties
<1>3. I # {}
  BY <1>1
<1>4. PICK m \in I : \A i \in I : i <= m
  <2> HIDE DEF I
  <2> QED BY <1>2, <1>3, GreatestInteger
<1>5. Max(I) = m
  <2> HIDE DEF I
  <2> QED BY <1>2, <1>4, LastOfSet
<1>6. pos = m
  BY <1>1, <1>3, <1>5
<1>7. ASSUME NEW i \in 1 .. Len(s), i > m PROVE s[i] # One
  <2>1. m \in Int /\ i \in Int /\ ~(i <= m)
    BY <1>2, <1>7
  <2> QED BY <1>4, <2>1
<1> QED BY <1>4, <1>6, <1>7

LEMMA SeparatorIs ==
  ASSUME NEW s \in Seq(Octet), NEW pos \in 1 .. Len(s), s[pos] = One,
         \A i \in 1 .. Len(s) : i > pos => s[i] # One
  PROVE  Separator(s) = pos
<1> DEFINE I == {i \in 1 .. Len(s) : s[i] = One}
<1>1. Separator(s) = IF I # {} THEN Max(I) ELSE 0
  BY DEF Separator, SelectLastInSeq
<1>2. pos \in I /\ I \subseteq Int
  OBVIOUS
<1>3. \A i \in I : i <= pos
  <2>1. \A i \in 1 .. Len(s) : i \in Int /\ (i <= pos \/ i > pos)
    OBVIOUS
  <2> QED BY <2>1
<1>4. Max(I) = pos
  <2> HIDE DEF I
  <2> QED BY <1>2, <1>3, LastOfSet
<1> QED BY <1>1, <1>2, <1>4

LEMMA DecodeReads ==
  ASSUME NEW s \in Seq(Octet), Decode(s) # <<"error">>
  PROVE  \E n, hrp, values : Reads(s, Separator(s), n, hrp, values)
<1>1. PICK pos : pos = Separator(s)
  OBVIOUS
<1>2. PICK hrp : hrp = SubSeq(s, 1, pos - 1)
  OBVIOUS
<1>3. PICK u : u = SubSeq(s, pos + 1, Len(s))
  OBVIOUS
<1>4. PICK low : low = ToLower(u)
  OBVIOUS
<1>5. PICK values : values = [i \in DOMAIN low |-> Digits[low[i]]]
  OBVIOUS
<1>6. /\ ~(pos < 2) /\ ~(pos + 6 > Len(s))
      /\ ToSet(hrp) \subseteq 33 .. 126
      /\ ToSet(low) \subseteq ToSet(Charset)
      /\ VerifyChecksum(hrp, values)
  BY <1>1, <1>2, <1>3, <1>4, <1>5 DEF Decode
<1>7. PICK L \in Nat : L = Len(s) /\ \A i \in 1 .. L : s[i] \in Octet
  BY Elements
<1>8. pos # 0
  BY <1>6
<1>9. pos \in 1 .. L /\ s[pos] = One /\ \A i \in 1 .. L : i > pos => s[i] # One
  BY <1>1, <1>7, <1>8, SeparatorFound
<1>10. pos \in Nat /\ pos >= 2
  BY <1>6, <1>9
<1>11. PICK n \in Nat : L = pos + n
  <2>1. L - pos \in Nat /\ L = pos + (L - pos)
    BY <1>9, <1>10
  <2> QED BY <2>1
<1>12. \A i \in 1 .. n : pos + i \in 1 .. L /\ pos + i > pos
  BY <1>10, <1>11
<1>13. \A i \in 1 .. n : s[pos + i] # One
  BY <1>9, <1>12
<1>14. hrp \in Seq(Octet) /\ Len(hrp) = pos - 1 /\ \A i \in 1 .. pos - 1 : hrp[i] = s[i]
  <2>1. PICK a \in Int, b \in Int : a = 1 /\ b = pos - 1
    BY <1>10
  <2>2. \A i \in a .. b : s[i] \in Octet
    BY <1>7, <1>9, <2>1
  <2>3. /\ SubSeq(s, a, b) \in Seq(Octet)
        /\ Len(SubSeq(s, a, b)) = IF a <= b THEN b - a + 1 ELSE 0
        /\ \A i \in 1 .. b - a + 1 : SubSeq(s, a, b)[i] = s[a + i - 1]
    BY <2>2, SubSeqProperties
  <2>4. hrp \in Seq(Octet) /\ Len(hrp) = b /\ \A i \in 1 .. b : hrp[i] = s[a + i - 1]
    BY <1>2, <1>10, <2>1, <2>3
  <2>5. \A i \in 1 .. b : a + i - 1 = i
    BY <2>1
  <2> QED BY <2>1, <2>4, <2>5
<1>15. hrp \in Seq(33 .. 126)
  <2>1. PICK h \in Nat : h = Len(hrp) /\ hrp \in [1 .. h -> Octet]
    BY <1>14, LenProperties
  <2>2. \A i \in 1 .. h : hrp[i] \in 33 .. 126
    BY <1>6, <2>1, ZenonT(30) DEF ToSet
  <2>3. hrp \in [1 .. h -> 33 .. 126]
    BY <2>1, <2>2
  <2> QED BY <2>1, <2>3, FunctionSeq
<1>16. u \in Seq(Octet) /\ Len(u) = n /\ \A i \in 1 .. n : u[i] = s[pos + i]
  <2>1. PICK a \in Int, b \in Int : a = pos + 1 /\ b = L
    BY <1>10
  <2>2. \A i \in a .. b : s[i] \in Octet
    BY <1>7, <1>9, <2>1
  <2>3. /\ SubSeq(s, a, b) \in Seq(Octet)
        /\ Len(SubSeq(s, a, b)) = IF a <= b THEN b - a + 1 ELSE 0
        /\ \A i \in 1 .. b - a + 1 : SubSeq(s, a, b)[i] = s[a + i - 1]
    BY <2>2, SubSeqProperties
  <2>4. b - a + 1 = n /\ (IF a <= b THEN b - a + 1 ELSE 0) = n
    BY <1>10, <1>11, <2>1
  <2>5. u \in Seq(Octet) /\ Len(u) = n /\ \A i \in 1 .. n : u[i] = s[a + i - 1]
    BY <1>3, <1>7, <2>1, <2>3, <2>4
  <2>6. \A i \in 1 .. n : a + i - 1 = pos + i
    BY <1>10, <2>1
  <2> QED BY <2>5, <2>6
<1>17. DOMAIN low = 1 .. n /\ \A i \in 1 .. n : low[i] = LowerOf(s[pos + i])
  <2>1. DOMAIN u = 1 .. n
    BY <1>16, Elements
  <2> QED BY <1>4, <1>16, <2>1 DEF ToLower, LowerOf
<1>18. ASSUME NEW i \in 1 .. n
       PROVE  /\ LowerOf(s[pos + i]) \in ToSet(Charset)
              /\ values[i] = Digits[LowerOf(s[pos + i])]
              /\ values[i] \in Quintet
  <2>1. low[i] \in ToSet(Charset)
    BY <1>6, <1>17 DEF ToSet
  <2>2. values[i] = Digits[low[i]]
    BY <1>5, <1>17
  <2> QED BY <1>17, <2>1, <2>2, DigitsTell
<1>19. values \in Seq(Quintet) /\ Len(values) = n
  <2>1. values \in [1 .. n -> Quintet]
    BY <1>5, <1>17, <1>18
  <2> QED BY <2>1, FunctionSeq
<1>20. Reads(s, pos, n, hrp, values)
  BY <1>2, <1>6, <1>7, <1>9, <1>10, <1>11, <1>13, <1>14, <1>15, <1>18, <1>19 DEF Reads
<1> QED BY <1>1, <1>20

\* t is s with other characters in six places in a row at most, all of them
\* behind the separator, and not only other cases of letters.
Garbled(s, t, k) ==
  /\ s \in Seq(Octet) /\ t \in Seq(Octet) /\ Len(t) = Len(s)
  /\ k \in Nat /\ k > Separator(s)
  /\ \A i \in 1 .. Len(s) : IF i \in k .. k + 5 THEN t[i] # One ELSE t[i] = s[i]
  /\ ToLower(t) # ToLower(s)

LEMMA SameSeparator ==
  ASSUME NEW s, NEW t, NEW k, Garbled(s, t, k), Separator(s) # 0
  PROVE  Separator(t) = Separator(s)
<1>1. PICK pos : pos = Separator(s)
  OBVIOUS
<1>2. s \in Seq(Octet) /\ t \in Seq(Octet) /\ Len(t) = Len(s) /\ k \in Nat /\ k > pos
  BY <1>1 DEF Garbled
<1>3. pos \in 1 .. Len(s) /\ s[pos] = One /\ \A i \in 1 .. Len(s) : i > pos => s[i] # One
  BY <1>1, <1>2, SeparatorFound
<1>4. t[pos] = One
  <2>1. pos \notin k .. k + 5
    BY <1>2, <1>3
  <2> QED BY <1>3, <2>1 DEF Garbled
<1>5. ASSUME NEW i \in 1 .. Len(t), i > pos PROVE t[i] # One
  BY <1>2, <1>3, <1>5 DEF Garbled
<1>6. Separator(t) = pos
  BY <1>2, <1>3, <1>4, <1>5, SeparatorIs
<1> QED BY <1>1, <1>6

\* The values of the two strings differ somewhere.
LEMMA ValuesDiffer ==
  ASSUME NEW s, NEW t, NEW k, Garbled(s, t, k), NEW pos, pos = Separator(s),
         NEW n, NEW hrp, NEW v, NEW w, Reads(s, pos, n, hrp, v), Reads(t, pos, n, hrp, w)
  PROVE  \E i \in 1 .. n : v[i] # w[i]
<1> SUFFICES ASSUME \A i \in 1 .. n : v[i] = w[i]
             PROVE  ToLower(t) = ToLower(s)
  BY DEF Garbled
<1>1. /\ pos \in Nat /\ n \in Nat /\ Len(s) = pos + n /\ Len(t) = pos + n
      /\ s \in Seq(Octet) /\ t \in Seq(Octet) /\ k \in Nat /\ k > pos
  BY DEF Reads, Garbled
<1>2. DOMAIN s = 1 .. pos + n /\ DOMAIN t = 1 .. pos + n
  BY <1>1, Elements
<1>3. ASSUME NEW i \in 1 .. pos + n PROVE LowerOf(t[i]) = LowerOf(s[i])
  <2>1. CASE i <= pos
    <3>1. i \notin k .. k + 5 /\ i \in 1 .. Len(s)
      BY <1>1, <2>1
    <3>2. t[i] = s[i]
      BY <3>1 DEF Garbled
    <3> QED BY <3>2
  <2>2. CASE i > pos
    <3>1. PICK j \in 1 .. n : i = pos + j
      <4>1. i - pos \in 1 .. n /\ i = pos + (i - pos)
        BY <1>1, <2>2
      <4> QED BY <4>1
    <3>2. LowerOf(s[i]) \in ToSet(Charset) /\ v[j] = Digits[LowerOf(s[i])]
      BY <3>1 DEF Reads
    <3>3. LowerOf(t[i]) \in ToSet(Charset) /\ w[j] = Digits[LowerOf(t[i])]
      BY <3>1 DEF Reads
    <3> QED BY <3>2, <3>3, DigitsTell
  <2> QED BY <1>1, <2>1, <2>2
<1>4. /\ ToLower(s) = [i \in 1 .. pos + n |-> LowerOf(s[i])]
      /\ ToLower(t) = [i \in 1 .. pos + n |-> LowerOf(t[i])]
  BY <1>2 DEF ToLower, LowerOf
<1> QED BY <1>3, <1>4

LEMMA GarbledBursts ==
  ASSUME NEW s, NEW t, NEW k, Garbled(s, t, k), NEW pos, pos = Separator(s),
         NEW n, NEW hrp, NEW v, NEW w, Reads(s, pos, n, hrp, v), Reads(t, pos, n, hrp, w)
  PROVE  \E j : Burst(HrpExpand(hrp) \o v, HrpExpand(hrp) \o w, j)
<1>1. PICK e : e = HrpExpand(hrp)
  OBVIOUS
<1>2. e \in Seq(Octet)
  BY <1>1, ExpandType DEF Reads
<1>3. /\ pos \in Nat /\ n \in Nat /\ Len(s) = pos + n /\ Len(t) = pos + n
      /\ k \in Nat /\ k > pos
  BY DEF Reads, Garbled
<1>4. v \in Seq(Quintet) /\ w \in Seq(Quintet) /\ Len(v) = n /\ Len(w) = n
  BY DEF Reads
<1>5. v \in Seq(Octet) /\ w \in Seq(Octet)
  <2>1. Quintet \subseteq Octet
    BY DEF Quintet, Octet
  <2> QED BY <1>4, <2>1, SeqOfMore
<1>6. \A i \in 1 .. n : v[i] \in Quintet /\ w[i] \in Quintet
  BY <1>4, Elements
<1>7. PICK h, x, y : h = Len(e) /\ x = e \o v /\ y = e \o w
  OBVIOUS
<1>8. x \in Seq(Octet) /\ Joins(x, e, v, h, n)
  BY <1>2, <1>4, <1>5, <1>7, ConcatJoins
<1>9. y \in Seq(Octet) /\ Joins(y, e, w, h, n)
  BY <1>2, <1>4, <1>5, <1>7, ConcatJoins
<1>10. h \in Nat /\ Len(x) = h + n /\ Len(y) = h + n
  BY <1>8, <1>9 DEF Joins
<1> DEFINE I == {i \in 1 .. n : v[i] # w[i]}
<1>11. I \subseteq Nat /\ I # {}
  BY <1>3, ValuesDiffer
<1>12. PICK j \in I : \A i \in I : j <= i
  <2> HIDE DEF I
  <2> QED BY <1>11, LeastNatural
<1>13. j \in Nat /\ j \in 1 .. n /\ v[j] # w[j]
  BY <1>12
<1>14. ASSUME NEW i \in 1 .. n, v[i] # w[i] PROVE i >= j /\ pos + i \in k .. k + 5
  <2>1. i \in I
    BY <1>14
  <2>2. j <= i
    BY <1>12, <2>1
  <2>3. pos + i \in 1 .. Len(s)
    BY <1>3
  <2>4. v[i] = Digits[LowerOf(s[pos + i])] /\ w[i] = Digits[LowerOf(t[pos + i])]
    BY DEF Reads
  <2>5. t[pos + i] # s[pos + i]
    BY <1>14, <2>4
  <2> QED BY <1>13, <2>2, <2>3, <2>5 DEF Garbled
<1>15. ASSUME NEW i \in 1 .. n, i \notin j .. j + 5 PROVE v[i] = w[i]
  <2>1. pos + j \in k .. k + 5
    BY <1>13, <1>14
  <2>2. ASSUME v[i] # w[i] PROVE FALSE
    <3>1. i >= j /\ pos + i \in k .. k + 5
      BY <1>14, <2>2
    <3>2. i <= j + 5
      BY <1>3, <1>13, <2>1, <3>1
    <3> QED BY <1>13, <1>15, <3>1, <3>2
  <2> QED BY <2>2
<1>16. PICK l : l = h + j
  OBVIOUS
<1>17. l \in 1 .. h + n /\ l \in Nat
  BY <1>10, <1>13, <1>16, <1>3
<1>18. x[l] # y[l]
  <2>1. x[h + j] = v[j] /\ y[h + j] = w[j]
    BY <1>8, <1>9, <1>13 DEF Joins
  <2> QED BY <1>13, <1>16, <2>1
<1>19. ASSUME NEW i \in 1 .. h + n
       PROVE  /\ i \notin l .. l + 5 => x[i] = y[i]
              /\ i \in l .. l + 5 => x[i] \in Quintet /\ y[i] \in Quintet
  <2>1. CASE i <= h
    <3>1. i \in 1 .. h /\ i \notin l .. l + 5
      BY <1>10, <1>13, <1>16, <2>1
    <3>2. x[i] = e[i] /\ y[i] = e[i]
      BY <1>8, <1>9, <3>1 DEF Joins
    <3> QED BY <3>1, <3>2
  <2>2. CASE i > h
    <3>1. PICK m \in 1 .. n : i = h + m
      <4>1. i - h \in 1 .. n /\ i = h + (i - h)
        BY <1>10, <1>3, <2>2
      <4> QED BY <4>1
    <3>2. x[i] = v[m]
      BY <1>8, <3>1 DEF Joins
    <3>3. y[i] = w[m]
      BY <1>9, <3>1 DEF Joins
    <3>4. i \notin l .. l + 5 => m \notin j .. j + 5
      BY <1>10, <1>13, <1>16, <3>1
    <3> QED BY <1>6, <1>15, <3>2, <3>3, <3>4
  <2> QED BY <1>10, <2>1, <2>2
<1>20. Burst(x, y, l)
  BY <1>8, <1>9, <1>10, <1>17, <1>18, <1>19 DEF Burst
<1> QED BY <1>1, <1>7, <1>20

\* A string that Decode takes is taken no more when up to six characters in a row
\* behind the separator were mistyped, swapped or overwritten, whatever was written
\* there but a '1': the checksum of bech32.go finds it, for strings of any length.
THEOREM GarbledIsRefused ==
  ASSUME NEW s, NEW t, NEW k, Garbled(s, t, k), Decode(s) # <<"error">>
  PROVE  Decode(t) = <<"error">>
<1> SUFFICES ASSUME Decode(t) # <<"error">> PROVE FALSE
  OBVIOUS
<1>1. s \in Seq(Octet) /\ t \in Seq(Octet) /\ Len(t) = Len(s) /\ k \in Nat
  BY DEF Garbled
<1>2. PICK pos : pos = Separator(s)
  OBVIOUS
<1>3. PICK n, hrp, v : Reads(s, pos, n, hrp, v)
  BY <1>1, <1>2, DecodeReads
<1>4. pos # 0 /\ pos \in Nat /\ pos < k
  BY <1>2, <1>3 DEF Reads, Garbled
<1>5. Separator(t) = pos
  BY <1>2, <1>4, SameSeparator
<1>6. PICK m, p, w : Reads(t, pos, m, p, w)
  BY <1>1, <1>5, DecodeReads
<1>7. m = n
  BY <1>1, <1>3, <1>6 DEF Reads
<1>8. p = hrp
  <2>1. /\ p \in Seq(33 .. 126) /\ Len(p) = pos - 1 /\ \A i \in 1 .. pos - 1 : p[i] = t[i]
    BY <1>6 DEF Reads
  <2>2. /\ hrp \in Seq(33 .. 126) /\ Len(hrp) = pos - 1 /\ \A i \in 1 .. pos - 1 : hrp[i] = s[i]
        /\ Len(s) = pos + n /\ n \in Nat
    BY <1>3 DEF Reads
  <2>3. ASSUME NEW i \in 1 .. pos - 1 PROVE t[i] = s[i]
    <3>1. i \in 1 .. Len(s) /\ i \notin k .. k + 5
      BY <1>1, <1>4, <2>2
    <3> QED BY <3>1 DEF Garbled
  <2>4. \A i \in 1 .. Len(p) : p[i] = hrp[i]
    BY <2>1, <2>2, <2>3
  <2>5. Len(p) = Len(hrp)
    BY <2>1, <2>2
  <2> QED BY <2>1, <2>2, <2>4, <2>5, SeqEqual
<1>9. Reads(t, pos, n, hrp, w)
  BY <1>6, <1>7, <1>8
<1>10. PICK j : Burst(HrpExpand(hrp) \o v, HrpExpand(hrp) \o w, j)
  BY <1>2, <1>3, <1>9, GarbledBursts
<1>11. Polymod(HrpExpand(hrp) \o v) # Polymod(HrpExpand(hrp) \o w)
  BY <1>10, PolymodTells
<1>12. VerifyChecksum(hrp, v) /\ VerifyChecksum(hrp, w)
  BY <1>3, <1>9 DEF Reads
<1> QED BY <1>11, <1>12 DEF VerifyChecksum
=============================================================================
