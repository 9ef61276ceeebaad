-------------------------- MODULE CborItemsProofs --------------------------
(***************************************************************************)
(* Proofs about CborItems and CborParts, for data of any length and all    *)
(* limits: validation and skip are tables that are filled in from the end  *)
(* of the data, what is found is in the data and stays what it is when     *)
(* more arrives, and skip ends where validation ended.                     *)
(***************************************************************************)
EXTENDS CborParts, Induction, SequenceTheorems

\* Bytes of data are octets.
LEMMA Octets ==
  ASSUME NEW s \in Seq(Octet)
  PROVE  Len(s) \in Nat /\ \A i \in 1 .. Len(s) : s[i] \in Octet
BY LenProperties

LEMMA BigEndianType ==
  ASSUME NEW b \in Seq(Octet)
  PROVE  BigEndian(b) \in Nat
<1> DEFINE L == Len(b)
           v == CHOOSE v : v = [n \in 0 .. L |->
                  IF n = 0 THEN 0
                  ELSE LET high == v[n - 1] IN
                       IF high > MaxArg THEN high ELSE 256 * high + b[n]]
           g == [n \in 1 .. L |-> [x \in Nat |-> IF x > MaxArg THEN x ELSE 256 * x + b[n]]]
<1>1. L \in Nat /\ \A n \in 1 .. L : b[n] \in Nat
  <2>1. L \in Nat /\ \A n \in 1 .. L : b[n] \in Octet
    BY Octets
  <2> HIDE DEF L, v, g
  <2>2. \A x \in Octet : x \in Nat
    BY DEF Octet
  <2> QED BY <2>1, <2>2
<1> HIDE DEF L
<1>2. g \in StepsTo(L, Nat)
  BY <1>1 DEF StepsTo
<1>3. \A n \in 1 .. L : \A x \in Nat : g[n][x] = IF x > MaxArg THEN x ELSE 256 * x + b[n]
  OBVIOUS
<1> HIDE DEF g
<1>4. PICK f : IteratesTo(f, L, Nat, 0, g)
  BY <1>1, <1>2, RecursionUpTo
<1>5. f \in [0 .. L -> Nat] /\ f[0] = 0 /\ \A n \in 1 .. L : f[n] = g[n][f[n - 1]]
  BY <1>4 DEF IteratesTo
<1>6. ASSUME NEW n \in 0 .. L, n # 0
      PROVE  f[n] = IF f[n - 1] > MaxArg THEN f[n - 1] ELSE 256 * f[n - 1] + b[n]
  <2>1. n \in 1 .. L /\ n - 1 \in 0 .. L
    BY <1>6, <1>1
  <2>2. f[n - 1] \in Nat
    BY <1>5, <2>1
  <2> QED BY <1>3, <1>5, <2>1, <2>2
<1>7. f = [n \in 0 .. L |->
             IF n = 0 THEN 0
             ELSE LET high == f[n - 1] IN
                  IF high > MaxArg THEN high ELSE 256 * high + b[n]]
  BY <1>5, <1>6
<1>8. v = [n \in 0 .. L |->
             IF n = 0 THEN 0
             ELSE LET high == v[n - 1] IN
                  IF high > MaxArg THEN high ELSE 256 * high + b[n]]
  BY <1>7, ZenonT(30)
<1> HIDE DEF v
<1> DEFINE P == {n \in Nat : n <= L => v[n] \in Nat}
<1>9. 0 \in P
  BY <1>8, <1>1
<1>10. ASSUME NEW n \in Nat, n \in P PROVE n + 1 \in P
  <2>1. CASE n + 1 <= L
    <3>1. n + 1 \in 0 .. L /\ n + 1 # 0 /\ (n + 1) - 1 = n /\ n + 1 \in 1 .. L
      BY <2>1, <1>1
    <3>2. v[n + 1] = IF v[n] > MaxArg THEN v[n] ELSE 256 * v[n] + b[n + 1]
      BY <1>8, <3>1, ZenonT(30)
    <3>3. v[n] \in Nat /\ b[n + 1] \in Nat
      BY <1>1, <1>10, <2>1, <3>1
    <3> QED BY <3>2, <3>3
  <2>2. CASE ~(n + 1 <= L)
    BY <2>2
  <2> QED BY <2>1, <2>2
<1>11. Nat \subseteq P
  <2> HIDE DEF P
  <2> QED BY <1>9, <1>10, SetInduction
<1>12. v[L] \in Nat
  BY <1>11, <1>1
<1>13. BigEndian(b) = v[L]
  BY DEF BigEndian, v, L
<1> QED BY <1>12, <1>13

\* The bytes of an argument, and the head they make.
Heads == [t : 0 .. 7, ai : 0 .. 31, val : Int, off : Nat]

LEMMA ArgBytesType ==
  ASSUME NEW ai
  PROVE  ArgBytes(ai) \in {0, 1, 2, 4, 8}
BY DEF ArgBytes

LEMMA OctetParts ==
  ASSUME NEW b \in Octet
  PROVE  Type(b) \in 0 .. 7 /\ Info(b) \in 0 .. 31
BY DEF Octet, Type, Info

LEMMA HeadOfType ==
  ASSUME NEW b \in Octet, NEW off \in Nat, NEW bytes \in Seq(Octet)
  PROVE  HeadOf(b, off, bytes) \in Heads
<1>1. Len(bytes) \in Nat
  BY LenProperties
<1>2. Type(b) \in 0 .. 7 /\ Info(b) \in 0 .. 31
  BY OctetParts
<1>3. BigEndian(bytes) \in Nat
  BY BigEndianType
<1>4. Arg(Info(b), bytes) \in Int
  <2>1. -1 \in Int
    OBVIOUS
  <2>3. Info(b) \in Int
    <3>1. \A x \in 0 .. 31 : x \in Int
      OBVIOUS
    <3> QED BY <1>2, <3>1
  <2>4. BigEndian(bytes) \in Int
    BY <1>3
  <2>2. Arg(Info(b), bytes) \in {Info(b), BigEndian(bytes), -1}
    BY Zenon DEF Arg
  <2> QED BY <2>1, <2>2, <2>3, <2>4
<1> QED BY <1>1, <1>2, <1>4 DEF HeadOf, Heads

\* A head that validHead accepts is in the data, and getHead reads it.
Fits(s, off, h) ==
  /\ off < Len(s)
  /\ h \in Heads
  /\ h.off \in off + 1 .. Len(s)
  /\ h.t = Type(At(s, off)) /\ h.ai = Info(At(s, off))
  /\ h.ai = Indefinite => h.t \in {ByteString, TextString, Array, Map}

LEMMA HeadFits ==
  ASSUME NEW s \in Seq(Octet), NEW off \in 0 .. Len(s), HeadError(s, off) = "nil"
  PROVE  Fits(s, off, GetHead(s, off))
<1> DEFINE a == At(s, off)
           n == ArgBytes(Info(a))
<1>1. Len(s) \in Nat /\ \A i \in 1 .. Len(s) : s[i] \in Octet
  BY Octets
<1>2. n \in {0, 1, 2, 4, 8}
  BY ArgBytesType
<1>3. /\ Len(s) - off # 0 /\ ~(Len(s) - off < 1 + n)
      /\ ~(Info(a) = Indefinite /\ Type(a) \in {PosInt, NegInt, Tag, Primitives})
  <2> HIDE DEF n
  <2> QED BY n = ArgBytes(Info(a)) DEF HeadError, n
<1> HIDE DEF n
<1>4. off < Len(s) /\ off + 1 + n <= Len(s)
  BY <1>1, <1>2, <1>3
<1>5. a \in Octet
  BY <1>1, <1>4 DEF At
<1> HIDE DEF a
<1>6. PICK l \in Int, m \in Int : l = off + 2 /\ m = off + 1 + n
  BY <1>2
<1>7. PICK bytes : bytes = SubSeq(s, l, m)
  OBVIOUS
<1>8. \A i \in l .. m : s[i] \in Octet
  BY <1>1, <1>4, <1>6
<1>9. bytes \in Seq(Octet)
  BY <1>7, <1>8, SubSeqProperties
<1>10. Len(bytes) = IF l <= m THEN m - l + 1 ELSE 0
  BY <1>7, <1>8, SubSeqProperties
<1>11. Len(bytes) = n
  BY <1>2, <1>6, <1>10
<1>12. GetHead(s, off) = HeadOf(a, off + 1, bytes)
  BY <1>6, <1>7 DEF GetHead, a, n
<1>13. HeadOf(a, off + 1, bytes) \in Heads
  BY <1>5, <1>9, HeadOfType
<1>14. /\ HeadOf(a, off + 1, bytes).off = off + 1 + n
       /\ HeadOf(a, off + 1, bytes).t = Type(a) /\ HeadOf(a, off + 1, bytes).ai = Info(a)
  BY <1>11 DEF HeadOf
<1>15. Type(a) \in 0 .. 7
  BY <1>5, OctetParts
<1>16. Info(a) = Indefinite => Type(a) \in {ByteString, TextString, Array, Map}
  BY <1>3, <1>15 DEF PosInt, NegInt, Tag, Primitives, ByteString, TextString, Array, Map
<1> QED BY <1>2, <1>4, <1>12, <1>13, <1>14, <1>16 DEF Fits, a

(***************************************************************************)
(* What is found in data is found in data that goes on as well, unless it  *)
(* is one of the errors U.                                                 *)
(***************************************************************************)
Continues(s, t, U) ==
  /\ s \in Seq(Octet) /\ t \in Seq(Octet)
  /\ Len(s) <= Len(t)
  /\ \A i \in 1 .. Len(s) : t[i] = s[i]
  /\ "nil" \notin U /\ (s = t \/ U = {"UnexpectedEOF"})

SameHead(s, t, off) ==
  /\ HeadError(t, off) = HeadError(s, off)
  /\ HeadError(s, off) = "nil" => GetHead(t, off) = GetHead(s, off)

LEMMA HeadKept ==
  ASSUME NEW s, NEW t, NEW U, Continues(s, t, U), NEW off \in 0 .. Len(s),
         HeadError(s, off) \notin U
  PROVE  SameHead(s, t, off)
<1>1. CASE s = t
  BY <1>1 DEF SameHead
<1>2. CASE s # t
  <2> DEFINE a == At(s, off)
             n == ArgBytes(Info(a))
  <2>1. /\ s \in Seq(Octet) /\ t \in Seq(Octet) /\ Len(s) <= Len(t)
        /\ \A i \in 1 .. Len(s) : t[i] = s[i]
        /\ U = {"UnexpectedEOF"}
    BY <1>2 DEF Continues
  <2>2. Len(s) \in Nat /\ Len(t) \in Nat /\ \A i \in 1 .. Len(s) : s[i] \in Octet
    BY <2>1, Octets
  <2>3. n \in {0, 1, 2, 4, 8}
    BY ArgBytesType
  <2>4. HeadError(s, off) # "UnexpectedEOF"
    BY <2>1
  <2>5. Len(s) - off # 0 /\ ~(Len(s) - off < 1 + n)
    <3> HIDE DEF n
    <3> QED BY <2>4, n = ArgBytes(Info(a)) DEF HeadError, n
  <2>6. off + 1 + n <= Len(s) /\ off + 1 \in 1 .. Len(s)
    <3> HIDE DEF n
    <3> QED BY <2>2, <2>3, <2>5
  <2>7. At(t, off) = a
    BY <2>1, <2>6 DEF At
  <2>8. n # 0 => At(t, off + 1) = At(s, off + 1)
    <3> HIDE DEF n, a
    <3>1. n # 0 => (off + 1) + 1 \in 1 .. Len(s)
      BY <2>2, <2>3, <2>6
    <3> QED BY <2>1, <3>1 DEF At
  <2>9. HeadError(t, off) = HeadError(s, off)
    <3>1. Len(t) - off # 0 /\ ~(Len(t) - off < 1 + n)
      <4> HIDE DEF n, a
      <4> QED BY <2>1, <2>2, <2>3, <2>6
    <3>2. Info(a) = 24 => n # 0
      BY DEF ArgBytes
    <3>3. Info(a) = 24 => At(t, off + 1) = At(s, off + 1)
      <4> HIDE DEF n, a
      <4> QED BY <2>8, <3>2
    <3> DEFINE bad == \/ Type(a) = Primitives /\ Info(a) = 24 /\ At(s, off + 1) < 32
                      \/ Info(a) = Indefinite /\ Type(a) \in {PosInt, NegInt, Tag, Primitives}
                      \/ Info(a) \in 28 .. 30
               worse == \/ Type(a) = Primitives /\ Info(a) = 24 /\ At(t, off + 1) < 32
                        \/ Info(a) = Indefinite /\ Type(a) \in {PosInt, NegInt, Tag, Primitives}
                        \/ Info(a) \in 28 .. 30
    <3>4. bad <=> worse
      <4> HIDE DEF a
      <4> QED BY <3>3
    <3>5. HeadError(s, off) = IF bad THEN "syntax" ELSE "nil"
      BY <2>5 DEF HeadError
    <3>6. HeadError(t, off) = IF worse THEN "syntax" ELSE "nil"
      BY <3>1, <2>7 DEF HeadError
    <3> HIDE DEF bad, worse, a, n
    <3> QED BY <3>4, <3>5, <3>6
  <2>10. GetHead(t, off) = GetHead(s, off)
    <3> HIDE DEF a, n
    <3>1. PICK l \in Int, m \in Int : l = off + 2 /\ m = off + 1 + n
      BY <2>3
    <3>2. PICK x : x = SubSeq(s, l, m)
      OBVIOUS
    <3>3. PICK y : y = SubSeq(t, l, m)
      OBVIOUS
    <3>4. \A i \in l .. m : s[i] \in Octet /\ t[i] = s[i]
      <4>1. \A i \in l .. m : i \in 1 .. Len(s)
        BY <2>2, <2>6, <3>1
      <4> QED BY <2>1, <2>2, <4>1
    <3>5. x \in Seq(Octet)
      BY <3>2, <3>4, SubSeqProperties
    <3>6. Len(x) = IF l <= m THEN m - l + 1 ELSE 0
      BY <3>2, <3>4, SubSeqProperties
    <3>7. \A i \in 1 .. m - l + 1 : x[i] = s[l + i - 1]
      BY <3>2, <3>4, SubSeqProperties
    <3>8. y \in Seq(Octet)
      BY <3>3, <3>4, SubSeqProperties
    <3>9. Len(y) = IF l <= m THEN m - l + 1 ELSE 0
      BY <3>3, <3>4, SubSeqProperties
    <3>10. \A i \in 1 .. m - l + 1 : y[i] = t[l + i - 1]
      BY <3>3, <3>4, SubSeqProperties
    <3>11. ASSUME NEW i \in 1 .. Len(x) PROVE x[i] = y[i]
      <4>1. i \in 1 .. m - l + 1 /\ l + i - 1 \in l .. m
        BY <3>6
      <4> QED BY <3>4, <3>7, <3>10, <4>1
    <3>12. Len(x) = Len(y)
      BY <3>6, <3>9
    <3>13. x = y
      BY <3>5, <3>8, <3>11, <3>12, SeqEqual
    <3>14. GetHead(s, off) = HeadOf(a, off + 1, x)
      BY <3>1, <3>2 DEF GetHead, a, n
    <3>15. GetHead(t, off) = HeadOf(a, off + 1, y)
      BY <3>1, <3>3, <2>7 DEF GetHead, n
    <3> QED BY <3>13, <3>14, <3>15
  <2> QED BY <2>9, <2>10 DEF SameHead
<1> QED BY <1>1, <1>2

(***************************************************************************)
(* What validation finds: a nil error comes with an offset in the data, in *)
(* or behind the place where reading started.                              *)
(***************************************************************************)
Errors == {"nil", "EOF", "UnexpectedEOF", "syntax", "overflow", "indefinite", "levels",
           "elements", "tags"}
Results == [off : Nat, depth : Nat, err : Errors]
Finds(s, from) == {r \in Results : r.err = "nil" => r.off \in from .. Len(s)}

\* The same, of a table, for all places behind off.
Ahead(s, F, off) ==
  \A y \in off + 1 .. Len(s) : \A c \in Remainders : F[y][c] \in Finds(s, y)

LEMMA FailFound ==
  ASSUME NEW s, NEW x, NEW e \in Errors, e # "nil"
  PROVE  Fail(e) \in Finds(s, x)
BY DEF Fail, Finds, Results

LEMMA OkFound ==
  ASSUME NEW s, NEW x \in Nat, NEW off \in Nat, NEW depth \in Nat, off \in x .. Len(s)
  PROVE  Ok(off, depth) \in Finds(s, x)
BY DEF Ok, Finds, Results, Errors

LEMMA FoundBefore ==
  ASSUME NEW s \in Seq(Octet), NEW x \in Nat, NEW y \in Nat, x <= y, NEW r \in Finds(s, y)
  PROVE  r \in Finds(s, x)
<1>1. Len(s) \in Nat
  BY LenProperties
<1> QED BY <1>1 DEF Finds

LEMMA HeadErrors ==
  ASSUME NEW s, NEW off
  PROVE  HeadError(s, off) \in {"nil", "UnexpectedEOF", "syntax"}
BY DEF HeadError

LEMMA RemainderType ==
  ASSUME NEW t \in 0 .. 7, NEW indef \in BOOLEAN, NEW depth \in Nat, NEW n \in Nat
  PROVE  Remainder(t, indef, depth, n) \in Remainders
BY DEF Remainder, Remainders

\* Behind a head.
LEMMA BehindHead ==
  ASSUME NEW s \in Seq(Octet), NEW F, NEW off \in Nat, Ahead(s, F, off),
         NEW h, Fits(s, off, h), NEW indef \in BOOLEAN, NEW depth \in Nat, NEW n \in Nat
  PROVE  F[h.off][Remainder(h.t, indef, depth, n)] \in Finds(s, off + 1)
<1>1. /\ h.off \in off + 1 .. Len(s) /\ h.t \in 0 .. 7
      /\ h.off \in Nat /\ off + 1 \in Nat /\ off + 1 <= h.off
  <2>1. h.off \in off + 1 .. Len(s) /\ h.t \in 0 .. 7 /\ h.off \in Nat
    BY DEF Fits, Heads
  <2> QED BY <2>1
<1>2. Remainder(h.t, indef, depth, n) \in Remainders
  BY <1>1, RemainderType
<1>3. F[h.off][Remainder(h.t, indef, depth, n)] \in Finds(s, h.off)
  BY <1>1, <1>2 DEF Ahead
<1> QED BY <1>1, <1>3, FoundBefore

LEMMA StringFound ==
  ASSUME NEW s \in Seq(Octet), NEW F, NEW off \in Nat, Ahead(s, F, off),
         NEW h, Fits(s, off, h), NEW depth \in Nat
  PROVE  ValidString(s, F, h, depth) \in Finds(s, off + 1)
<1>1. F[h.off][Remainder(h.t, TRUE, depth, 0)] \in Finds(s, off + 1)
  BY BehindHead
<1>2. /\ Fail("indefinite") \in Finds(s, off + 1) /\ Fail("overflow") \in Finds(s, off + 1)
      /\ Fail("UnexpectedEOF") \in Finds(s, off + 1)
  BY FailFound DEF Errors
<1>3. ASSUME ~(h.val < 0), ~(Len(s) - h.off < h.val)
      PROVE  Ok(h.off + h.val, depth) \in Finds(s, off + 1)
  <2>1. Len(s) \in Nat /\ h.val \in Int /\ h.off \in off + 1 .. Len(s)
    BY LenProperties DEF Fits, Heads
  <2>2. off + 1 \in Nat /\ h.off + h.val \in Nat /\ h.off + h.val \in off + 1 .. Len(s)
    BY <1>3, <2>1
  <2> QED BY <2>2, OkFound
<1> QED BY <1>1, <1>2, <1>3 DEF ValidString

LEMMA ContainerFound ==
  ASSUME NEW s \in Seq(Octet), NEW F, NEW off \in Nat, Ahead(s, F, off),
         NEW h, Fits(s, off, h), NEW depth \in Nat
  PROVE  ValidContainer(F, h, depth) \in Finds(s, off + 1)
<1>1. F[h.off][Remainder(h.t, TRUE, depth, 0)] \in Finds(s, off + 1)
  BY BehindHead
<1>2. /\ Fail("indefinite") \in Finds(s, off + 1) /\ Fail("overflow") \in Finds(s, off + 1)
      /\ Fail("levels") \in Finds(s, off + 1) /\ Fail("elements") \in Finds(s, off + 1)
  BY FailFound DEF Errors
<1> DEFINE n == IF h.t = Array THEN h.val ELSE 2 * h.val
<1>3. ASSUME ~(h.val < 0)
      PROVE  F[h.off][Remainder(h.t, FALSE, depth, n)] \in Finds(s, off + 1)
  <2>1. h.val \in Int
    BY DEF Fits, Heads
  <2>2. n \in Nat
    BY <1>3, <2>1
  <2> HIDE DEF n
  <2> QED BY <2>2, BehindHead
<1> QED BY <1>1, <1>2, <1>3 DEF ValidContainer

LEMMA ItemFound ==
  ASSUME NEW s \in Seq(Octet), NEW F, NEW off \in 0 .. Len(s), Ahead(s, F, off),
         NEW depth \in Nat
  PROVE  ValidItem(s, F, off, depth) \in Finds(s, off + 1)
<1>1. CASE HeadError(s, off) # "nil"
  <2>1. HeadError(s, off) \in Errors
    BY HeadErrors DEF Errors
  <2>2. Fail(HeadError(s, off)) \in Finds(s, off + 1)
    BY <1>1, <2>1, FailFound
  <2> QED BY <1>1, <2>2 DEF ValidItem
<1>2. CASE HeadError(s, off) = "nil"
  <2>1. PICK h : h = GetHead(s, off)
    OBVIOUS
  <2>2. Fits(s, off, h) /\ off \in Nat
    BY <1>2, <2>1, HeadFits
  <2>3. ValidString(s, F, h, depth) \in Finds(s, off + 1)
    BY <2>2, StringFound
  <2>4. ValidContainer(F, h, depth + 1) \in Finds(s, off + 1)
    <3>1. depth + 1 \in Nat
      OBVIOUS
    <3> QED BY <2>2, <3>1, ContainerFound
  <2>5. h.t = Tag => F[h.off][Remainder(Tag, FALSE, depth, 0)] \in Finds(s, off + 1)
    <3>1. F[h.off][Remainder(h.t, FALSE, depth, 0)] \in Finds(s, off + 1)
      BY <2>2, BehindHead
    <3> QED BY <3>1
  <2>6. Fail("tags") \in Finds(s, off + 1)
    BY FailFound DEF Errors
  <2>7. Ok(h.off, depth) \in Finds(s, off + 1)
    <3>1. h.off \in off + 1 .. Len(s) /\ h.off \in Nat /\ off + 1 \in Nat
      BY <2>2 DEF Fits, Heads
    <3> QED BY <3>1, OkFound
  <2>8. ValidItem(s, F, off, depth) =
          CASE h.t \in {ByteString, TextString} -> ValidString(s, F, h, depth)
            [] h.t \in {Array, Map} -> ValidContainer(F, h, depth + 1)
            [] h.t = Tag -> IF TagsForbidden THEN Fail("tags")
                            ELSE F[h.off][Remainder(Tag, FALSE, depth, 0)]
            [] OTHER -> Ok(h.off, depth)
    BY <1>2, <2>1 DEF ValidItem
  <2> QED BY <2>3, <2>4, <2>5, <2>6, <2>7, <2>8 DEF ByteString, TextString, Array, Map, Tag
<1> QED BY <1>1, <1>2

LEMMA DeepestFound ==
  ASSUME NEW s, NEW x, NEW y, NEW r \in Finds(s, y), NEW rest \in Finds(s, x)
  PROVE  Deepest(r, rest) \in Finds(s, x)
<1>1. r.depth \in Nat /\ rest \in Results
  BY DEF Finds, Results
<1>2. [rest EXCEPT !.depth = r.depth] \in Finds(s, x)
  BY <1>1 DEF Finds, Results
<1> QED BY <1>2 DEF Deepest

\* Behind an item.
LEMMA BehindItem ==
  ASSUME NEW s \in Seq(Octet), NEW F, NEW off \in 0 .. Len(s), Ahead(s, F, off),
         NEW r \in Finds(s, off + 1), r.err = "nil", NEW c \in Remainders
  PROVE  F[r.off][c] \in Finds(s, off + 1)
<1>1. r.off \in off + 1 .. Len(s) /\ off \in Nat
  BY DEF Finds
<1>2. r.off \in Nat /\ off + 1 \in Nat /\ off + 1 <= r.off
  BY <1>1
<1>3. F[r.off][c] \in Finds(s, r.off)
  BY <1>1 DEF Ahead
<1> QED BY <1>2, <1>3, FoundBefore

LEMMA ItemsFound ==
  ASSUME NEW s \in Seq(Octet), NEW F, NEW off \in 0 .. Len(s), Ahead(s, F, off),
         NEW c \in Remainders
  PROVE  ValidItems(s, F, off, c) \in Finds(s, off)
<1>1. c.depth \in Nat /\ c.n \in Nat /\ off \in Nat
  BY DEF Remainders
<1>2. PICK r : r = ValidItem(s, F, off, c.depth)
  OBVIOUS
<1>3. r \in Finds(s, off + 1)
  BY <1>1, <1>2, ItemFound
<1>4. CASE c.n = 0
  <2>1. Len(s) \in Nat /\ off \in off .. Len(s)
    BY LenProperties
  <2>2. Ok(off, c.depth) \in Finds(s, off)
    BY <1>1, <2>1, OkFound
  <2> QED BY <1>4, <2>2 DEF ValidItems
<1>5. CASE c.n # 0 /\ r.err # "nil"
  <2>1. r \in Finds(s, off)
    BY <1>3, <1>5 DEF Finds
  <2> QED BY <1>2, <1>5, <2>1 DEF ValidItems
<1>6. CASE c.n # 0 /\ r.err = "nil"
  <2> DEFINE next == [c EXCEPT !.n = c.n - 1]
  <2>1. next \in Remainders
    BY <1>1, <1>6 DEF Remainders
  <2> HIDE DEF next
  <2>2. F[r.off][next] \in Finds(s, off + 1)
    BY <1>3, <1>6, <2>1, BehindItem
  <2>3. Deepest(r, F[r.off][next]) \in Finds(s, off + 1)
    BY <1>3, <2>2, DeepestFound
  <2>4. Deepest(r, F[r.off][next]) \in Finds(s, off)
    <3>1. off + 1 \in Nat /\ off <= off + 1
      BY <1>1
    <3> QED BY <1>1, <2>3, <3>1, FoundBefore
  <2> QED BY <1>2, <1>6, <2>4 DEF ValidItems, next
<1> QED BY <1>4, <1>5, <1>6

\* A place behind, or an item that starts here.
LEMMA FoundHere ==
  ASSUME NEW s \in Seq(Octet), NEW off \in Nat, NEW r \in Finds(s, off + 1)
  PROVE  r \in Finds(s, off)
<1>1. off + 1 \in Nat /\ off <= off + 1
  OBVIOUS
<1> QED BY <1>1, FoundBefore

LEMMA AfterByte ==
  ASSUME NEW s \in Seq(Octet), NEW off \in 0 .. Len(s), off # Len(s), NEW depth \in Nat
  PROVE  Ok(off + 1, depth) \in Finds(s, off)
<1>1. Len(s) \in Nat
  BY LenProperties
<1>2. off \in Nat /\ off + 1 \in Nat /\ off + 1 \in off .. Len(s)
  BY <1>1
<1> QED BY <1>2, OkFound

LEMMA TagFound ==
  ASSUME NEW s \in Seq(Octet), NEW F, NEW off \in 0 .. Len(s), Ahead(s, F, off),
         NEW c \in Remainders
  PROVE  ValidTag(s, F, off, c) \in Finds(s, off)
<1>1. c.depth \in Nat /\ off \in Nat
  BY DEF Remainders
<1>2. Fail("UnexpectedEOF") \in Finds(s, off) /\ Fail("levels") \in Finds(s, off)
  BY FailFound DEF Errors
<1>3. ValidItem(s, F, off, c.depth) \in Finds(s, off)
  BY <1>1, ItemFound, FoundHere
<1>4. HeadError(s, off) # "nil" => Fail(HeadError(s, off)) \in Finds(s, off)
  <2>1. HeadError(s, off) \in Errors
    BY HeadErrors DEF Errors
  <2> QED BY <2>1, FailFound
<1> DEFINE deeper == [c EXCEPT !.depth = c.depth + 1]
<1>5. ASSUME HeadError(s, off) = "nil" PROVE F[GetHead(s, off).off][deeper] \in Finds(s, off)
  <2>1. deeper \in Remainders
    BY <1>1 DEF Remainders
  <2> HIDE DEF deeper
  <2>2. PICK x : x = GetHead(s, off).off
    OBVIOUS
  <2>3. x \in off + 1 .. Len(s) /\ x \in Nat /\ off <= x
    <3>1. x \in off + 1 .. Len(s) /\ x \in Nat
      BY <1>5, <2>2, HeadFits DEF Fits, Heads
    <3> QED BY <1>1, <3>1
  <2>4. F[x][deeper] \in Finds(s, x)
    BY <2>1, <2>3 DEF Ahead
  <2>5. F[x][deeper] \in Finds(s, off)
    BY <1>1, <2>3, <2>4, FoundBefore
  <2> QED BY <2>2, <2>5
<1> QED BY <1>2, <1>3, <1>4, <1>5 DEF ValidTag

LEMMA ChunksFound ==
  ASSUME NEW s \in Seq(Octet), NEW F, NEW off \in 0 .. Len(s), Ahead(s, F, off),
         NEW c \in Remainders
  PROVE  ValidChunks(s, F, off, c) \in Finds(s, off)
<1>1. c.depth \in Nat /\ off \in Nat
  BY DEF Remainders
<1>2. PICK r : r = ValidItem(s, F, off, c.depth)
  OBVIOUS
<1>3. r \in Finds(s, off + 1) /\ r \in Finds(s, off)
  BY <1>1, <1>2, ItemFound, FoundHere
<1>4. Fail("UnexpectedEOF") \in Finds(s, off) /\ Fail("syntax") \in Finds(s, off)
  BY FailFound DEF Errors
<1>5. off # Len(s) => Ok(off + 1, c.depth) \in Finds(s, off)
  BY <1>1, AfterByte
<1> DEFINE next == [c EXCEPT !.depth = r.depth]
<1>6. r.err = "nil" => F[r.off][next] \in Finds(s, off)
  <2>1. r.depth \in Nat
    BY <1>3 DEF Finds, Results
  <2>2. next \in Remainders
    BY <2>1 DEF Remainders
  <2> HIDE DEF next
  <2> QED BY <1>1, <1>3, <2>2, BehindItem, FoundHere
<1> QED BY <1>2, <1>3, <1>4, <1>5, <1>6 DEF ValidChunks

LEMMA UntilBreakFound ==
  ASSUME NEW s \in Seq(Octet), NEW F, NEW off \in 0 .. Len(s), Ahead(s, F, off),
         NEW c \in Remainders
  PROVE  ValidUntilBreak(s, F, off, c) \in Finds(s, off)
<1>1. c.depth \in Nat /\ c.n \in Nat /\ off \in Nat
  BY DEF Remainders
<1>2. PICK r : r = ValidItem(s, F, off, c.depth)
  OBVIOUS
<1>3. r \in Finds(s, off + 1) /\ r \in Finds(s, off)
  BY <1>1, <1>2, ItemFound, FoundHere
<1>4. /\ Fail("UnexpectedEOF") \in Finds(s, off) /\ Fail("syntax") \in Finds(s, off)
      /\ Fail("elements") \in Finds(s, off)
  BY FailFound DEF Errors
<1>5. off # Len(s) => Ok(off + 1, c.depth) \in Finds(s, off)
  BY <1>1, AfterByte
<1> DEFINE next == [c EXCEPT !.n = c.n + 1]
<1>6. r.err = "nil" => Deepest(r, F[r.off][next]) \in Finds(s, off)
  <2>1. next \in Remainders
    BY <1>1 DEF Remainders
  <2> HIDE DEF next
  <2>2. ASSUME r.err = "nil" PROVE Deepest(r, F[r.off][next]) \in Finds(s, off)
    <3>1. F[r.off][next] \in Finds(s, off + 1)
      BY <1>3, <2>1, <2>2, BehindItem
    <3>2. Deepest(r, F[r.off][next]) \in Finds(s, off + 1)
      BY <1>3, <3>1, DeepestFound
    <3> QED BY <1>1, <3>2, FoundHere
  <2> QED BY <2>2
<1> QED BY <1>2, <1>3, <1>4, <1>5, <1>6 DEF ValidUntilBreak

LEMMA RemainderFound ==
  ASSUME NEW s \in Seq(Octet), NEW F, NEW off \in 0 .. Len(s), Ahead(s, F, off),
         NEW c \in Remainders
  PROVE  ValidRemainder(s, F, off, c) \in Finds(s, off)
<1>1. /\ ValidTag(s, F, off, c) \in Finds(s, off)
      /\ ValidChunks(s, F, off, c) \in Finds(s, off)
      /\ ValidUntilBreak(s, F, off, c) \in Finds(s, off)
      /\ ValidItems(s, F, off, c) \in Finds(s, off)
  BY TagFound, ChunksFound, UntilBreakFound, ItemsFound
<1> QED BY <1>1 DEF ValidRemainder, Tag, ByteString, TextString, Array, Map

(***************************************************************************)
(* Where two tables agree behind off, but for the errors U, so does what   *)
(* is found at off.                                                        *)
(***************************************************************************)
Carries(s, F, G, U, off) ==
  \A y \in off + 1 .. Len(s) : \A c \in Remainders :
    F[y][c].err \notin U => G[y][c] = F[y][c]

KeptAt(F, G, U, x, c) == F[x][c].err \notin U => G[x][c] = F[x][c]

LEMMA FailError ==
  ASSUME NEW e
  PROVE  Fail(e).err = e
BY DEF Fail

LEMMA KeptBehindHead ==
  ASSUME NEW s, NEW F, NEW G, NEW U, NEW off, Carries(s, F, G, U, off),
         NEW h, Fits(s, off, h), NEW indef \in BOOLEAN, NEW depth \in Nat, NEW n \in Nat
  PROVE  KeptAt(F, G, U, h.off, Remainder(h.t, indef, depth, n))
<1>1. h.off \in off + 1 .. Len(s) /\ h.t \in 0 .. 7
  BY DEF Fits, Heads
<1>2. Remainder(h.t, indef, depth, n) \in Remainders
  BY <1>1, RemainderType
<1> QED BY <1>1, <1>2 DEF Carries, KeptAt

LEMMA StringKept ==
  ASSUME NEW s, NEW t, NEW U, Continues(s, t, U), NEW F, NEW G, NEW off \in 0 .. Len(s),
         Carries(s, F, G, U, off), NEW h, Fits(s, off, h), NEW depth \in Nat,
         ValidString(s, F, h, depth).err \notin U
  PROVE  ValidString(t, G, h, depth) = ValidString(s, F, h, depth)
<1> DEFINE c == Remainder(h.t, TRUE, depth, 0)
<1>1. KeptAt(F, G, U, h.off, c)
  BY KeptBehindHead
<1> HIDE DEF c
<1>2. CASE h.ai = Indefinite
  <2>1. CASE IndefForbidden
    BY <1>2, <2>1 DEF ValidString
  <2>2. CASE ~IndefForbidden
    <3>1. /\ ValidString(s, F, h, depth) = F[h.off][c]
          /\ ValidString(t, G, h, depth) = G[h.off][c]
      BY <1>2, <2>2 DEF ValidString, c
    <3> QED BY <1>1, <3>1 DEF KeptAt
  <2> QED BY <2>1, <2>2
<1>3. CASE h.ai # Indefinite /\ s = t
  BY <1>3 DEF ValidString
<1>4. CASE h.ai # Indefinite /\ U = {"UnexpectedEOF"}
  <2>1. CASE h.val < 0
    BY <1>4, <2>1 DEF ValidString
  <2>2. CASE ~(h.val < 0) /\ Len(s) - h.off < h.val
    <3>1. ValidString(s, F, h, depth) = Fail("UnexpectedEOF")
      BY <1>4, <2>2 DEF ValidString
    <3> QED BY <1>4, <3>1, FailError
  <2>3. CASE ~(h.val < 0) /\ ~(Len(s) - h.off < h.val)
    <3>1. Len(s) \in Nat /\ Len(t) \in Nat /\ Len(s) <= Len(t)
      BY LenProperties DEF Continues
    <3>2. h.val \in Int /\ h.off \in Nat
      BY DEF Fits, Heads
    <3>3. ~(Len(t) - h.off < h.val)
      BY <2>3, <3>1, <3>2
    <3> QED BY <1>4, <2>3, <3>3 DEF ValidString
  <2> QED BY <2>1, <2>2, <2>3
<1> QED BY <1>2, <1>3, <1>4 DEF Continues

LEMMA ContainerKept ==
  ASSUME NEW s, NEW U, NEW F, NEW G, NEW off, Carries(s, F, G, U, off),
         NEW h, Fits(s, off, h), NEW depth \in Nat,
         ValidContainer(F, h, depth).err \notin U
  PROVE  ValidContainer(G, h, depth) = ValidContainer(F, h, depth)
<1> DEFINE c == Remainder(h.t, TRUE, depth, 0)
           n == IF h.t = Array THEN h.val ELSE 2 * h.val
           d == Remainder(h.t, FALSE, depth, n)
           max == IF h.t = Array THEN MaxArrayElements ELSE MaxMapPairs
<1>1. KeptAt(F, G, U, h.off, c)
  BY KeptBehindHead
<1>2. ~(h.val < 0) => KeptAt(F, G, U, h.off, d)
  <2>1. ASSUME ~(h.val < 0) PROVE n \in Nat
    <3>1. h.val \in Int
      BY DEF Fits, Heads
    <3> QED BY <2>1, <3>1
  <2> HIDE DEF n
  <2> QED BY <2>1, KeptBehindHead
<1>3. ASSUME NEW H
      PROVE  ValidContainer(H, h, depth) =
               IF depth > MaxNestedLevels THEN Fail("levels")
               ELSE IF h.ai = Indefinite
               THEN IF IndefForbidden THEN Fail("indefinite") ELSE H[h.off][c]
               ELSE IF h.val < 0 THEN Fail("overflow")
               ELSE IF h.val > max THEN Fail("elements")
               ELSE H[h.off][d]
  BY DEF ValidContainer
<1> HIDE DEF c, d, max
<1> QED BY <1>1, <1>2, <1>3 DEF KeptAt

\* An accepted item, by the type that its head says.
ItemIs(s, F, off, depth, h) ==
  /\ h.t \in {2, 3} => ValidItem(s, F, off, depth) = ValidString(s, F, h, depth)
  /\ h.t \in {4, 5} => ValidItem(s, F, off, depth) = ValidContainer(F, h, depth + 1)
  /\ h.t = 6 => ValidItem(s, F, off, depth) =
                  IF TagsForbidden THEN Fail("tags")
                  ELSE F[h.off][Remainder(Tag, FALSE, depth, 0)]
  /\ h.t \in {0, 1, 7} => ValidItem(s, F, off, depth) = Ok(h.off, depth)

LEMMA ItemCases ==
  ASSUME NEW s, NEW F, NEW off, NEW depth, HeadError(s, off) = "nil",
         NEW h, h = GetHead(s, off), h.t \in 0 .. 7
  PROVE  ItemIs(s, F, off, depth, h)
<1>1. PICK str : str = ValidString(s, F, h, depth)
  OBVIOUS
<1>2. PICK con : con = ValidContainer(F, h, depth + 1)
  OBVIOUS
<1>3. PICK tag : tag = IF TagsForbidden THEN Fail("tags")
                       ELSE F[h.off][Remainder(Tag, FALSE, depth, 0)]
  OBVIOUS
<1>4. PICK r : r = ValidItem(s, F, off, depth)
  OBVIOUS
<1>5. r = CASE h.t \in {2, 3} -> str
            [] h.t \in {4, 5} -> con
            [] h.t = 6 -> tag
            [] OTHER -> Ok(h.off, depth)
  BY <1>1, <1>2, <1>3, <1>4 DEF ValidItem, ByteString, TextString, Array, Map, Tag
<1>6. h.t \in {2, 3} => r = str
  BY <1>5
<1>7. h.t \in {4, 5} => r = con
  BY <1>5
<1>8. h.t = 6 => r = tag
  BY <1>5
<1>9. h.t \in {0, 1, 7} => r = Ok(h.off, depth)
  BY <1>5
<1> QED BY <1>1, <1>2, <1>3, <1>4, <1>6, <1>7, <1>8, <1>9 DEF ItemIs

LEMMA ItemKept ==
  ASSUME NEW s, NEW t, NEW U, Continues(s, t, U), NEW F, NEW G, NEW off \in 0 .. Len(s),
         Carries(s, F, G, U, off), NEW depth \in Nat,
         ValidItem(s, F, off, depth).err \notin U
  PROVE  ValidItem(t, G, off, depth) = ValidItem(s, F, off, depth)
<1>1. HeadError(s, off) \notin U
  <2>1. CASE HeadError(s, off) # "nil"
    <3>1. ValidItem(s, F, off, depth) = Fail(HeadError(s, off))
      BY <2>1 DEF ValidItem
    <3> QED BY <3>1, FailError
  <2> QED BY <2>1 DEF Continues
<1>2. SameHead(s, t, off)
  BY <1>1, HeadKept
<1>3. CASE HeadError(s, off) # "nil"
  BY <1>2, <1>3 DEF ValidItem, SameHead
<1>4. CASE HeadError(s, off) = "nil"
  <2>1. PICK h : h = GetHead(s, off)
    OBVIOUS
  <2>2. s \in Seq(Octet)
    BY DEF Continues
  <2>3. Fits(s, off, h)
    BY <1>4, <2>1, <2>2, HeadFits
  <2>4. HeadError(t, off) = "nil" /\ h = GetHead(t, off)
    BY <1>2, <1>4, <2>1 DEF SameHead
  <2>5. h.t \in 0 .. 7
    BY <2>3 DEF Fits, Heads
  <2>6. ItemIs(s, F, off, depth, h)
    BY <1>4, <2>1, <2>5, ItemCases
  <2>7. ItemIs(t, G, off, depth, h)
    BY <2>4, <2>5, ItemCases
  <2>9. h.t = Tag => KeptAt(F, G, U, h.off, Remainder(Tag, FALSE, depth, 0))
    <3>1. KeptAt(F, G, U, h.off, Remainder(h.t, FALSE, depth, 0))
      BY <2>3, KeptBehindHead
    <3> QED BY <3>1
  <2>10. CASE h.t \in {2, 3}
    <3>1. /\ ValidItem(s, F, off, depth) = ValidString(s, F, h, depth)
          /\ ValidItem(t, G, off, depth) = ValidString(t, G, h, depth)
      BY <2>6, <2>7, <2>10 DEF ItemIs
    <3> QED BY <2>3, <3>1, StringKept
  <2>11. CASE h.t \in {4, 5}
    <3>1. /\ ValidItem(s, F, off, depth) = ValidContainer(F, h, depth + 1)
          /\ ValidItem(t, G, off, depth) = ValidContainer(G, h, depth + 1)
      BY <2>6, <2>7, <2>11 DEF ItemIs
    <3>2. depth + 1 \in Nat
      OBVIOUS
    <3> QED BY <2>3, <3>1, <3>2, ContainerKept
  <2>12. CASE h.t = 6
    <3>1. /\ ValidItem(s, F, off, depth) =
               IF TagsForbidden THEN Fail("tags")
               ELSE F[h.off][Remainder(Tag, FALSE, depth, 0)]
          /\ ValidItem(t, G, off, depth) =
               IF TagsForbidden THEN Fail("tags")
               ELSE G[h.off][Remainder(Tag, FALSE, depth, 0)]
      BY <2>6, <2>7, <2>12 DEF ItemIs
    <3>2. KeptAt(F, G, U, h.off, Remainder(Tag, FALSE, depth, 0))
      BY <2>9, <2>12 DEF Tag
    <3>3. CASE TagsForbidden
      BY <3>1, <3>3
    <3>4. CASE ~TagsForbidden
      <4>1. /\ ValidItem(s, F, off, depth) = F[h.off][Remainder(Tag, FALSE, depth, 0)]
            /\ ValidItem(t, G, off, depth) = G[h.off][Remainder(Tag, FALSE, depth, 0)]
        BY <3>1, <3>4
      <4> QED BY <4>1, <3>2 DEF KeptAt
    <3> QED BY <3>3, <3>4
  <2>13. CASE h.t \in {0, 1, 7}
    <3>1. /\ ValidItem(s, F, off, depth) = Ok(h.off, depth)
          /\ ValidItem(t, G, off, depth) = Ok(h.off, depth)
      BY <2>6, <2>7, <2>13 DEF ItemIs
    <3> QED BY <3>1
  <2>14. h.t \in {2, 3} \/ h.t \in {4, 5} \/ h.t = 6 \/ h.t \in {0, 1, 7}
    BY <2>5
  <2> QED BY <2>10, <2>11, <2>12, <2>13, <2>14
<1> QED BY <1>3, <1>4

LEMMA KeptBehindItem ==
  ASSUME NEW s, NEW F, NEW G, NEW U, NEW off \in Nat, Carries(s, F, G, U, off),
         NEW r \in Finds(s, off + 1), r.err = "nil", NEW c \in Remainders
  PROVE  KeptAt(F, G, U, r.off, c)
<1>1. r.off \in off + 1 .. Len(s)
  BY DEF Finds
<1> QED BY <1>1 DEF Carries, KeptAt

LEMMA DeepestError ==
  ASSUME NEW s, NEW x, NEW r, NEW rest \in Finds(s, x)
  PROVE  Deepest(r, rest).err = rest.err
BY DEF Deepest, Finds, Results

\* What the two tables find of an item at off.
LEMMA TwoItems ==
  ASSUME NEW s, NEW t, NEW U, Continues(s, t, U), NEW F, NEW G, NEW off \in 0 .. Len(s),
         Ahead(s, F, off), Carries(s, F, G, U, off), NEW depth \in Nat,
         NEW r, r = ValidItem(s, F, off, depth), NEW q, q = ValidItem(t, G, off, depth)
  PROVE  r \in Finds(s, off + 1) /\ (r.err \notin U => q = r)
<1>1. s \in Seq(Octet)
  BY DEF Continues
<1>2. r \in Finds(s, off + 1)
  BY <1>1, ItemFound
<1>3. r.err \notin U => q = r
  BY ItemKept
<1> QED BY <1>2, <1>3

\* What follows an item.
LEMMA FollowKept ==
  ASSUME NEW s, NEW t, NEW U, Continues(s, t, U), NEW F, NEW G, NEW off \in 0 .. Len(s),
         Ahead(s, F, off), Carries(s, F, G, U, off),
         NEW r \in Finds(s, off + 1), r.err = "nil", NEW c \in Remainders,
         Deepest(r, F[r.off][c]).err \notin U
  PROVE  Deepest(r, G[r.off][c]) = Deepest(r, F[r.off][c])
<1>1. s \in Seq(Octet) /\ off \in Nat
  BY DEF Continues
<1>2. F[r.off][c] \in Finds(s, off + 1)
  BY <1>1, BehindItem
<1>3. F[r.off][c].err \notin U
  BY <1>2, DeepestError
<1>4. KeptAt(F, G, U, r.off, c)
  BY <1>1, KeptBehindItem
<1> QED BY <1>3, <1>4 DEF KeptAt

LEMMA ItemsKept ==
  ASSUME NEW s, NEW t, NEW U, Continues(s, t, U), NEW F, NEW G, NEW off \in 0 .. Len(s),
         Ahead(s, F, off), Carries(s, F, G, U, off), NEW c \in Remainders,
         ValidItems(s, F, off, c).err \notin U
  PROVE  ValidItems(t, G, off, c) = ValidItems(s, F, off, c)
<1>1. c.depth \in Nat /\ c.n \in Nat /\ "nil" \notin U
  BY DEF Remainders, Continues
<1>2. PICK r : r = ValidItem(s, F, off, c.depth)
  OBVIOUS
<1>3. PICK q : q = ValidItem(t, G, off, c.depth)
  OBVIOUS
<1>4. r \in Finds(s, off + 1) /\ (r.err \notin U => q = r)
  BY <1>1, <1>2, <1>3, TwoItems
<1> DEFINE next == [c EXCEPT !.n = c.n - 1]
<1>5. CASE c.n = 0
  BY <1>5 DEF ValidItems
<1>6. CASE c.n # 0 /\ r.err # "nil"
  <2>1. ValidItems(s, F, off, c) = r
    BY <1>2, <1>6 DEF ValidItems
  <2>2. q = r
    BY <1>4, <2>1
  <2>3. ValidItems(t, G, off, c) = q
    BY <1>3, <1>6, <2>2 DEF ValidItems
  <2> QED BY <2>1, <2>2, <2>3
<1>7. CASE c.n # 0 /\ r.err = "nil"
  <2>1. q = r
    BY <1>1, <1>4, <1>7
  <2>2. next \in Remainders
    BY <1>1, <1>7 DEF Remainders
  <2>3. ValidItems(s, F, off, c) = Deepest(r, F[r.off][next])
    BY <1>2, <1>7 DEF ValidItems
  <2>4. ValidItems(t, G, off, c) = Deepest(r, G[r.off][next])
    BY <1>3, <1>7, <2>1 DEF ValidItems
  <2> HIDE DEF next
  <2>5. Deepest(r, G[r.off][next]) = Deepest(r, F[r.off][next])
    BY <1>4, <1>7, <2>2, <2>3, FollowKept
  <2> QED BY <2>3, <2>4, <2>5
<1> QED BY <1>5, <1>6, <1>7

\* A byte that is there.
LEMMA ByteKept ==
  ASSUME NEW s, NEW t, NEW U, Continues(s, t, U), NEW off \in 0 .. Len(s), off # Len(s)
  PROVE  At(t, off) = At(s, off) /\ off # Len(t)
<1>1. Len(s) \in Nat /\ Len(t) \in Nat /\ Len(s) <= Len(t)
  BY LenProperties DEF Continues
<1>2. off + 1 \in 1 .. Len(s)
  BY <1>1
<1> QED BY <1>1, <1>2 DEF Continues, At

LEMMA EndKept ==
  ASSUME NEW s, NEW t, NEW U, Continues(s, t, U), "UnexpectedEOF" \notin U
  PROVE  s = t
BY DEF Continues

LEMMA TagKept ==
  ASSUME NEW s, NEW t, NEW U, Continues(s, t, U), NEW F, NEW G, NEW off \in 0 .. Len(s),
         Ahead(s, F, off), Carries(s, F, G, U, off), NEW c \in Remainders,
         ValidTag(s, F, off, c).err \notin U
  PROVE  ValidTag(t, G, off, c) = ValidTag(s, F, off, c)
<1>1. c.depth \in Nat /\ "nil" \notin U /\ s \in Seq(Octet) /\ off \in Nat
  BY DEF Remainders, Continues
<1>2. CASE off = Len(s)
  <2>1. ValidTag(s, F, off, c) = Fail("UnexpectedEOF")
    BY <1>2 DEF ValidTag
  <2>2. s = t
    BY <2>1, FailError, EndKept
  <2> QED BY <1>2, <2>2 DEF ValidTag
<1>3. CASE off # Len(s)
  <2>1. At(t, off) = At(s, off) /\ off # Len(t)
    BY <1>3, ByteKept
  <2>2. CASE Type(At(s, off)) # Tag
    <3>1. ValidTag(s, F, off, c) = ValidItem(s, F, off, c.depth)
      BY <1>3, <2>2 DEF ValidTag
    <3>2. ValidTag(t, G, off, c) = ValidItem(t, G, off, c.depth)
      BY <2>1, <2>2 DEF ValidTag
    <3>3. ValidItem(t, G, off, c.depth) = ValidItem(s, F, off, c.depth)
      BY <1>1, <3>1, ItemKept
    <3> QED BY <3>1, <3>2, <3>3
  <2>3. CASE Type(At(s, off)) = Tag /\ HeadError(s, off) # "nil"
    <3>1. ValidTag(s, F, off, c) = Fail(HeadError(s, off))
      BY <1>3, <2>3 DEF ValidTag
    <3>2. HeadError(s, off) \notin U
      BY <3>1, FailError
    <3>3. SameHead(s, t, off)
      BY <3>2, HeadKept
    <3>4. HeadError(t, off) = HeadError(s, off)
      BY <3>3 DEF SameHead
    <3>5. ValidTag(t, G, off, c) = Fail(HeadError(t, off))
      BY <2>1, <2>3, <3>4 DEF ValidTag
    <3> QED BY <3>1, <3>4, <3>5
  <2>4. CASE Type(At(s, off)) = Tag /\ HeadError(s, off) = "nil"
    <3> DEFINE deeper == [c EXCEPT !.depth = c.depth + 1]
    <3>1. SameHead(s, t, off)
      BY <1>1, <2>4, HeadKept
    <3>2. PICK x : x = GetHead(s, off).off
      OBVIOUS
    <3>3. HeadError(t, off) = "nil" /\ x = GetHead(t, off).off
      BY <2>4, <3>1, <3>2 DEF SameHead
    <3>4. x \in off + 1 .. Len(s)
      BY <1>1, <2>4, <3>2, HeadFits DEF Fits
    <3>5. deeper \in Remainders
      BY <1>1 DEF Remainders
    <3>6. CASE c.depth + 1 > MaxNestedLevels
      BY <1>3, <2>1, <2>4, <3>3, <3>6 DEF ValidTag
    <3>7. CASE ~(c.depth + 1 > MaxNestedLevels)
      <4>1. ValidTag(s, F, off, c) = F[x][deeper]
        BY <1>3, <2>4, <3>2, <3>7 DEF ValidTag
      <4>2. ValidTag(t, G, off, c) = G[x][deeper]
        BY <2>1, <2>4, <3>3, <3>7 DEF ValidTag
      <4> HIDE DEF deeper
      <4> QED BY <3>4, <3>5, <4>1, <4>2 DEF Carries
    <3> QED BY <3>6, <3>7
  <2> QED BY <2>2, <2>3, <2>4
<1> QED BY <1>2, <1>3

LEMMA ChunksKept ==
  ASSUME NEW s, NEW t, NEW U, Continues(s, t, U), NEW F, NEW G, NEW off \in 0 .. Len(s),
         Ahead(s, F, off), Carries(s, F, G, U, off), NEW c \in Remainders,
         ValidChunks(s, F, off, c).err \notin U
  PROVE  ValidChunks(t, G, off, c) = ValidChunks(s, F, off, c)
<1>1. c.depth \in Nat /\ "nil" \notin U /\ s \in Seq(Octet) /\ off \in Nat
  BY DEF Remainders, Continues
<1>2. CASE off = Len(s)
  <2>1. ValidChunks(s, F, off, c) = Fail("UnexpectedEOF")
    BY <1>2 DEF ValidChunks
  <2>2. s = t
    BY <2>1, FailError, EndKept
  <2> QED BY <1>2, <2>2 DEF ValidChunks
<1>3. CASE off # Len(s)
  <2>1. At(t, off) = At(s, off) /\ off # Len(t)
    BY <1>3, ByteKept
  <2>2. CASE At(s, off) = Break
    BY <1>3, <2>1, <2>2 DEF ValidChunks
  <2>3. CASE At(s, off) # Break /\ (Type(At(s, off)) # c.t \/ Info(At(s, off)) = Indefinite)
    BY <1>3, <2>1, <2>3 DEF ValidChunks
  <2>4. CASE At(s, off) # Break /\ ~(Type(At(s, off)) # c.t \/ Info(At(s, off)) = Indefinite)
    <3>1. PICK r : r = ValidItem(s, F, off, c.depth)
      OBVIOUS
    <3>2. PICK q : q = ValidItem(t, G, off, c.depth)
      OBVIOUS
    <3>3. r \in Finds(s, off + 1) /\ (r.err \notin U => q = r)
      BY <1>1, <3>1, <3>2, TwoItems
    <3>4. ValidChunks(s, F, off, c) =
            IF r.err # "nil" THEN r ELSE F[r.off][[c EXCEPT !.depth = r.depth]]
      BY <1>3, <2>4, <3>1 DEF ValidChunks
    <3>5. ValidChunks(t, G, off, c) =
            IF q.err # "nil" THEN q ELSE G[q.off][[c EXCEPT !.depth = q.depth]]
      BY <2>1, <2>4, <3>2 DEF ValidChunks
    <3>6. CASE r.err # "nil"
      BY <3>3, <3>4, <3>5, <3>6
    <3>7. CASE r.err = "nil"
      <4> DEFINE next == [c EXCEPT !.depth = r.depth]
      <4>1. q = r
        BY <1>1, <3>3, <3>7
      <4>2. next \in Remainders
        <5>1. r.depth \in Nat
          BY <3>3 DEF Finds, Results
        <5> QED BY <5>1 DEF Remainders
      <4>3. ValidChunks(s, F, off, c) = F[r.off][next]
        BY <3>4, <3>7
      <4>4. ValidChunks(t, G, off, c) = G[r.off][next]
        BY <3>5, <3>7, <4>1
      <4> HIDE DEF next
      <4>5. KeptAt(F, G, U, r.off, next)
        BY <1>1, <3>3, <3>7, <4>2, KeptBehindItem
      <4> QED BY <4>3, <4>4, <4>5 DEF KeptAt
    <3> QED BY <3>6, <3>7
  <2> QED BY <2>2, <2>3, <2>4
<1> QED BY <1>2, <1>3

LEMMA UntilBreakKept ==
  ASSUME NEW s, NEW t, NEW U, Continues(s, t, U), NEW F, NEW G, NEW off \in 0 .. Len(s),
         Ahead(s, F, off), Carries(s, F, G, U, off), NEW c \in Remainders,
         ValidUntilBreak(s, F, off, c).err \notin U
  PROVE  ValidUntilBreak(t, G, off, c) = ValidUntilBreak(s, F, off, c)
<1>1. c.depth \in Nat /\ c.n \in Nat /\ "nil" \notin U /\ s \in Seq(Octet) /\ off \in Nat
  BY DEF Remainders, Continues
<1>2. CASE off = Len(s)
  <2>1. ValidUntilBreak(s, F, off, c) = Fail("UnexpectedEOF")
    BY <1>2 DEF ValidUntilBreak
  <2>2. s = t
    BY <2>1, FailError, EndKept
  <2> QED BY <1>2, <2>2 DEF ValidUntilBreak
<1>3. CASE off # Len(s)
  <2>1. At(t, off) = At(s, off) /\ off # Len(t)
    BY <1>3, ByteKept
  <2>2. CASE At(s, off) = Break
    BY <1>3, <2>1, <2>2 DEF ValidUntilBreak
  <2>3. CASE At(s, off) # Break
    <3> DEFINE i == c.n + 1
               many == \/ c.t = Array /\ i > MaxArrayElements
                       \/ c.t = Map /\ i % 2 = 0 /\ i \div 2 > MaxMapPairs
               next == [c EXCEPT !.n = i]
    <3>1. PICK r : r = ValidItem(s, F, off, c.depth)
      OBVIOUS
    <3>2. PICK q : q = ValidItem(t, G, off, c.depth)
      OBVIOUS
    <3>3. r \in Finds(s, off + 1) /\ (r.err \notin U => q = r)
      BY <1>1, <3>1, <3>2, TwoItems
    <3>4. ValidUntilBreak(s, F, off, c) =
            IF r.err # "nil" THEN r
            ELSE IF many THEN Fail("elements") ELSE Deepest(r, F[r.off][next])
      BY <1>3, <2>3, <3>1 DEF ValidUntilBreak
    <3>5. ValidUntilBreak(t, G, off, c) =
            IF q.err # "nil" THEN q
            ELSE IF many THEN Fail("elements") ELSE Deepest(q, G[q.off][next])
      BY <2>1, <2>3, <3>2 DEF ValidUntilBreak
    <3>6. next \in Remainders
      BY <1>1 DEF Remainders
    <3> HIDE DEF i, many, next
    <3>7. CASE r.err # "nil"
      BY <3>3, <3>4, <3>5, <3>7
    <3>8. CASE r.err = "nil" /\ many
      <4>1. q = r
        BY <1>1, <3>3, <3>8
      <4> QED BY <3>4, <3>5, <3>8, <4>1
    <3>9. CASE r.err = "nil" /\ ~many
      <4>1. q = r
        BY <1>1, <3>3, <3>9
      <4>2. ValidUntilBreak(s, F, off, c) = Deepest(r, F[r.off][next])
        BY <3>4, <3>9
      <4>3. ValidUntilBreak(t, G, off, c) = Deepest(r, G[r.off][next])
        BY <3>5, <3>9, <4>1
      <4>4. Deepest(r, G[r.off][next]) = Deepest(r, F[r.off][next])
        BY <3>3, <3>6, <3>9, <4>2, FollowKept
      <4> QED BY <4>2, <4>3, <4>4
    <3> QED BY <3>7, <3>8, <3>9
  <2> QED BY <2>2, <2>3
<1> QED BY <1>2, <1>3

\* The part of a loop that the remainder says.
LEMMA RemainderCases ==
  ASSUME NEW s, NEW F, NEW off, NEW c
  PROVE  /\ c.t = Tag => ValidRemainder(s, F, off, c) = ValidTag(s, F, off, c)
         /\ c.t \in {ByteString, TextString} =>
              ValidRemainder(s, F, off, c) = ValidChunks(s, F, off, c)
         /\ c.t \in {Array, Map} /\ c.indef =>
              ValidRemainder(s, F, off, c) = ValidUntilBreak(s, F, off, c)
         /\ ~(c.t = Tag \/ c.t \in {ByteString, TextString} \/ (c.t \in {Array, Map} /\ c.indef))
              => ValidRemainder(s, F, off, c) = ValidItems(s, F, off, c)
<1>1. PICK tag : tag = ValidTag(s, F, off, c)
  OBVIOUS
<1>2. PICK chunks : chunks = ValidChunks(s, F, off, c)
  OBVIOUS
<1>3. PICK until : until = ValidUntilBreak(s, F, off, c)
  OBVIOUS
<1>4. PICK items : items = ValidItems(s, F, off, c)
  OBVIOUS
<1>5. PICK r : r = ValidRemainder(s, F, off, c)
  OBVIOUS
<1>6. PICK t : t = c.t
  OBVIOUS
<1>7. r = CASE t = 6 -> tag [] t \in {2, 3} -> chunks
            [] t \in {4, 5} /\ c.indef -> until [] OTHER -> items
  BY <1>1, <1>2, <1>3, <1>4, <1>5, <1>6
     DEF ValidRemainder, Tag, ByteString, TextString, Array, Map
<1>8. t = 6 => r = tag
  BY <1>7
<1>9. t \in {2, 3} => r = chunks
  BY <1>7
<1>10. t \in {4, 5} /\ c.indef => r = until
  BY <1>7
<1>11. ~(t = 6 \/ t \in {2, 3} \/ (t \in {4, 5} /\ c.indef)) => r = items
  BY <1>7
<1> QED BY <1>1, <1>2, <1>3, <1>4, <1>5, <1>6, <1>8, <1>9, <1>10, <1>11
        DEF Tag, ByteString, TextString, Array, Map

LEMMA RemainderKept ==
  ASSUME NEW s, NEW t, NEW U, Continues(s, t, U), NEW F, NEW G, NEW off \in 0 .. Len(s),
         Ahead(s, F, off), Carries(s, F, G, U, off), NEW c \in Remainders,
         ValidRemainder(s, F, off, c).err \notin U
  PROVE  ValidRemainder(t, G, off, c) = ValidRemainder(s, F, off, c)
<1>1. CASE c.t = Tag
  <2>1. /\ ValidRemainder(s, F, off, c) = ValidTag(s, F, off, c)
        /\ ValidRemainder(t, G, off, c) = ValidTag(t, G, off, c)
    BY <1>1, RemainderCases
  <2> QED BY <2>1, TagKept
<1>2. CASE c.t \in {ByteString, TextString}
  <2>1. /\ ValidRemainder(s, F, off, c) = ValidChunks(s, F, off, c)
        /\ ValidRemainder(t, G, off, c) = ValidChunks(t, G, off, c)
    BY <1>2, RemainderCases
  <2> QED BY <2>1, ChunksKept
<1>3. CASE c.t \in {Array, Map} /\ c.indef
  <2>1. /\ ValidRemainder(s, F, off, c) = ValidUntilBreak(s, F, off, c)
        /\ ValidRemainder(t, G, off, c) = ValidUntilBreak(t, G, off, c)
    BY <1>3, RemainderCases
  <2> QED BY <2>1, UntilBreakKept
<1>4. CASE ~(c.t = Tag \/ c.t \in {ByteString, TextString} \/ (c.t \in {Array, Map} /\ c.indef))
  <2>1. /\ ValidRemainder(s, F, off, c) = ValidItems(s, F, off, c)
        /\ ValidRemainder(t, G, off, c) = ValidItems(t, G, off, c)
    BY <1>4, RemainderCases
  <2> QED BY <2>1, ItemsKept
<1> QED BY <1>1, <1>2, <1>3, <1>4

(***************************************************************************)
(* Validation ends: ValidFrom is a table in which every entry is what      *)
(* validInternal or one of its loops finds with the entries behind it.     *)
(***************************************************************************)
Validates(s, V) ==
  \A off \in 0 .. Len(s) : \A c \in Remainders : V[off][c] = ValidRemainder(s, V, off, c)

LEMMA ValidFromDefined ==
  ASSUME NEW s \in Seq(Octet)
  PROVE  Validates(s, ValidFrom(s))
<1> DEFINE L == Len(s)
           Made(F) == [off \in 0 .. L |-> [c \in Remainders |-> ValidRemainder(s, F, off, c)]]
           V == [Remainders -> Results]
           Good(F) == \A y \in 0 .. L : \A c \in Remainders : F[y][c] \in Finds(s, y)
           T == {F \in [0 .. L -> V] : Good(F)}
           start == [off \in 0 .. L |-> [c \in Remainders |-> Fail("syntax")]]
           next == [F \in T |-> Made(F)]
           from == CHOOSE from : from = Made(from)
<1>1. L \in Nat
  BY LenProperties
<1>2. ASSUME NEW F \in T, NEW off \in 0 .. L PROVE Ahead(s, F, off)
  <2>1. \A y \in off + 1 .. L : y \in 0 .. L
    BY <1>1
  <2>2. Good(F)
    BY <1>2
  <2> QED BY <2>1, <2>2 DEF Ahead
<1>3. ASSUME NEW F \in T PROVE Made(F) \in T
  <2>1. ASSUME NEW off \in 0 .. L, NEW c \in Remainders
        PROVE  ValidRemainder(s, F, off, c) \in Finds(s, off)
    <3>1. Ahead(s, F, off)
      BY <1>2
    <3> HIDE DEF T
    <3> QED BY <3>1, RemainderFound
  <2>2. ASSUME NEW off \in 0 .. L, NEW c \in Remainders
        PROVE  ValidRemainder(s, F, off, c) \in Results
    BY <2>1 DEF Finds
  <2> HIDE DEF L
  <2>3. Made(F) \in [0 .. L -> V]
    BY <2>2
  <2>4. Good(Made(F))
    BY <2>1
  <2> QED BY <2>3, <2>4
<1>4. start \in T
  <2>1. ASSUME NEW y \in 0 .. L PROVE Fail("syntax") \in Finds(s, y)
    BY FailFound DEF Errors
  <2>2. Fail("syntax") \in Results
    BY DEF Fail, Results, Errors
  <2> HIDE DEF L
  <2>3. start \in [0 .. L -> V]
    BY <2>2
  <2>4. Good(start)
    BY <2>1
  <2> QED BY <2>3, <2>4
<1>5. Causal(L, T, next)
  <2>1. ASSUME NEW F \in T, NEW G \in T, NEW x \in 0 .. L,
               \A y \in x + 1 .. L : F[y] = G[y]
        PROVE  next[F][x] = next[G][x]
    <3>1. ASSUME NEW c \in Remainders
          PROVE  ValidRemainder(s, G, x, c) = ValidRemainder(s, F, x, c)
      <4>1. Ahead(s, F, x)
        BY <1>2
      <4>2. Carries(s, F, G, {}, x)
        BY <2>1 DEF Carries
      <4>3. Continues(s, s, {})
        BY <1>1 DEF Continues
      <4>4. ValidRemainder(s, F, x, c).err \notin {}
        OBVIOUS
      <4> HIDE DEF T
      <4> QED BY <4>1, <4>2, <4>3, <4>4, RemainderKept
    <3>2. next[F] = Made(F) /\ next[G] = Made(G)
      <4> HIDE DEF T, Made
      <4> QED OBVIOUS
    <3>3. /\ Made(F)[x] = [c \in Remainders |-> ValidRemainder(s, F, x, c)]
          /\ Made(G)[x] = [c \in Remainders |-> ValidRemainder(s, G, x, c)]
      <4> HIDE DEF L, T, next
      <4> QED OBVIOUS
    <3>4. Made(F)[x] = Made(G)[x]
      <4> HIDE DEF Made, L, T, next
      <4> QED BY <3>1, <3>3
    <3> HIDE DEF Made, L, T, next
    <3> QED BY <3>2, <3>4
  <2> HIDE DEF T, next, L
  <2> QED BY <2>1 DEF Causal
<1>6. next \in [T -> T]
  <2> HIDE DEF T, Made
  <2> QED BY <1>3
<1>7. PICK f \in T : next[f] = f
  <2>1. T \subseteq [0 .. L -> V] /\ T # {}
    <3> HIDE DEF start
    <3> QED BY <1>4
  <2> HIDE DEF T, next, V, L
  <2> QED BY <1>1, <1>5, <1>6, <2>1, CourseOfValues, ZenonT(30)
<1>8. f = Made(f)
  <2> HIDE DEF T, Made
  <2> QED BY <1>7
<1>9. from = Made(from)
  <2> HIDE DEF Made
  <2> QED BY <1>8
<1>10. ValidFrom(s) = from
  BY DEF ValidFrom
<1>11. ASSUME NEW off \in 0 .. L, NEW c \in Remainders
       PROVE  from[off][c] = ValidRemainder(s, from, off, c)
  <2> HIDE DEF from, L
  <2>1. from[off] = [d \in Remainders |-> ValidRemainder(s, from, off, d)]
    BY <1>9
  <2> QED BY <2>1
<1> HIDE DEF from
<1> QED BY <1>10, <1>11 DEF Validates

\* What is found is in the data, behind the place where reading started.
LEMMA ValidFromFinds ==
  ASSUME NEW s \in Seq(Octet), NEW off \in 0 .. Len(s), NEW c \in Remainders
  PROVE  ValidFrom(s)[off][c] \in Finds(s, off)
<1> DEFINE V == ValidFrom(s)
           P == {x \in 0 .. Len(s) : \A d \in Remainders : V[x][d] \in Finds(s, x)}
<1> HIDE DEF V
<1>1. Validates(s, V)
  BY ValidFromDefined DEF V
<1>2. Len(s) \in Nat
  BY LenProperties
<1>3. ASSUME NEW x \in 0 .. Len(s), \A y \in x + 1 .. Len(s) : y \in P
      PROVE  x \in P
  <2>1. Ahead(s, V, x)
    BY <1>3 DEF Ahead
  <2>2. ASSUME NEW d \in Remainders PROVE V[x][d] \in Finds(s, x)
    <3>1. V[x][d] = ValidRemainder(s, V, x, d)
      BY <1>1 DEF Validates
    <3> QED BY <2>1, <3>1, RemainderFound
  <2> QED BY <2>2
<1>4. 0 .. Len(s) \subseteq P
  <2> HIDE DEF P
  <2> QED BY <1>2, <1>3, DownTo
<1> QED BY <1>4 DEF V

LEMMA ValidFromAhead ==
  ASSUME NEW s \in Seq(Octet), NEW off \in 0 .. Len(s)
  PROVE  Ahead(s, ValidFrom(s), off)
<1>1. Len(s) \in Nat
  BY LenProperties
<1>2. \A y \in off + 1 .. Len(s) : y \in 0 .. Len(s)
  BY <1>1
<1> QED BY <1>2, ValidFromFinds DEF Ahead

\* What is found in a part of the data, other than its end, is found in the whole.
LEMMA ValidFromKept ==
  ASSUME NEW s, NEW t, NEW U, Continues(s, t, U), NEW off \in 0 .. Len(s)
  PROVE  Carries(s, ValidFrom(s), ValidFrom(t), U, off)
<1> DEFINE V == ValidFrom(s)
           W == ValidFrom(t)
           P == {x \in 0 .. Len(s) : \A c \in Remainders : KeptAt(V, W, U, x, c)}
<1>1. s \in Seq(Octet) /\ t \in Seq(Octet) /\ Len(s) \in Nat
  BY LenProperties DEF Continues
<1>2. Len(t) \in Nat /\ Len(s) <= Len(t)
  BY <1>1, LenProperties DEF Continues
<1>3. Validates(s, V) /\ Validates(t, W)
  BY <1>1, ValidFromDefined
<1>4. ASSUME NEW x \in 0 .. Len(s) PROVE Ahead(s, V, x)
  BY <1>1, ValidFromAhead
<1> HIDE DEF V, W
<1>5. ASSUME NEW x \in 0 .. Len(s), \A y \in x + 1 .. Len(s) : y \in P
      PROVE  x \in P
  <2>1. Carries(s, V, W, U, x)
    BY <1>5 DEF Carries, KeptAt
  <2>2. ASSUME NEW c \in Remainders, V[x][c].err \notin U PROVE W[x][c] = V[x][c]
    <3>1. x \in 0 .. Len(t)
      BY <1>1, <1>2
    <3>2. V[x][c] = ValidRemainder(s, V, x, c)
      BY <1>3 DEF Validates
    <3>3. W[x][c] = ValidRemainder(t, W, x, c)
      BY <1>3, <3>1 DEF Validates
    <3>4. ValidRemainder(s, V, x, c).err \notin U
      BY <2>2, <3>2
    <3>5. ValidRemainder(t, W, x, c) = ValidRemainder(s, V, x, c)
      BY <1>4, <2>1, <3>4, RemainderKept
    <3> QED BY <3>2, <3>3, <3>5
  <2> QED BY <2>2 DEF KeptAt
<1>6. 0 .. Len(s) \subseteq P
  <2> HIDE DEF P
  <2> QED BY <1>1, <1>5, DownTo
<1>7. \A y \in off + 1 .. Len(s) : y \in 0 .. Len(s)
  BY <1>1
<1>8. ASSUME NEW y \in off + 1 .. Len(s), NEW c \in Remainders PROVE KeptAt(V, W, U, y, c)
  BY <1>6, <1>7
<1>9. Carries(s, V, W, U, off)
  BY <1>8 DEF Carries, KeptAt
<1> QED BY <1>9 DEF V, W

\* valid.
LEMMA ValidFinds ==
  ASSUME NEW s \in Seq(Octet)
  PROVE  Valid(s) \in Results /\ (Valid(s).err = "nil" => Valid(s).off \in 1 .. Len(s))
<1>1. Fail("EOF") \in Results /\ Fail("EOF").err # "nil"
  BY DEF Fail, Results, Errors
<1>2. Len(s) \in Nat /\ 0 \in 0 .. Len(s)
  BY LenProperties
<1>3. ValidItem(s, ValidFrom(s), 0, 0) \in Finds(s, 0 + 1)
  BY <1>2, ValidFromAhead, ItemFound
<1> QED BY <1>1, <1>3 DEF Valid, Finds

LEMMA ValidKept ==
  ASSUME NEW s, NEW t, Continues(s, t, {"UnexpectedEOF"}), s # <<>>,
         Valid(s).err # "UnexpectedEOF"
  PROVE  Valid(t) = Valid(s)
<1> DEFINE U == {"UnexpectedEOF"}
           V == ValidFrom(s)
           W == ValidFrom(t)
<1>1. s \in Seq(Octet) /\ t \in Seq(Octet) /\ Len(s) \in Nat /\ Len(t) \in Nat /\ Len(s) <= Len(t)
  <2>1. s \in Seq(Octet) /\ t \in Seq(Octet) /\ Len(s) <= Len(t)
    BY DEF Continues
  <2> QED BY <2>1, LenProperties
<1>2. 0 \in 0 .. Len(s) /\ t # <<>>
  <2>1. Len(s) # 0
    BY <1>1, EmptySeq
  <2>2. Len(t) # 0
    BY <1>1, <2>1
  <2> QED BY <1>1, <2>2, EmptySeq
<1>3. Valid(s) = ValidItem(s, V, 0, 0) /\ Valid(t) = ValidItem(t, W, 0, 0)
  BY <1>2 DEF Valid
<1>4. Carries(s, V, W, U, 0)
  BY <1>2, ValidFromKept
<1>5. ValidItem(s, V, 0, 0).err \notin U
  BY <1>3
<1> HIDE DEF V, W, U
<1>6. Continues(s, t, U)
  BY DEF U
<1> QED BY <1>2, <1>3, <1>4, <1>5, <1>6, ItemKept

(***************************************************************************)
(* skip: it does no bounds checking, and ends where validation has ended.  *)
(***************************************************************************)
Counts == Nat \cup {ToBreak}

Skips(s, K) ==
  \A off \in 0 .. Len(s) : \A n \in Counts :
    K[off][n] = IF n = ToBreak THEN SkipUntilBreak(s, K, off) ELSE SkipItems(s, K, off, n)

\* What skip makes of an item depends on what it makes of what is behind the head.
LEMMA SkipItemCases ==
  ASSUME NEW s, NEW K, NEW off, NEW h, h = GetHead(s, off), h.t \in 0 .. 7,
         h.ai = Indefinite => h.t \in {ByteString, TextString, Array, Map}
  PROVE  /\ h.ai = Indefinite => SkipItem(s, K, off) = Behind(s, K, off, h.off, ToBreak)
         /\ h.ai # Indefinite /\ h.t \in {ByteString, TextString} =>
              SkipItem(s, K, off) = h.off + h.val
         /\ h.ai # Indefinite /\ h.t = Array =>
              SkipItem(s, K, off) = Behind(s, K, off, h.off, h.val)
         /\ h.ai # Indefinite /\ h.t = Map =>
              SkipItem(s, K, off) = Behind(s, K, off, h.off, 2 * h.val)
         /\ h.t = Tag => SkipItem(s, K, off) = Behind(s, K, off, h.off, 1)
         /\ h.t \in {PosInt, NegInt, Primitives} => SkipItem(s, K, off) = h.off
<1> USE DEF ByteString, TextString, Array, Map, Tag, PosInt, NegInt, Primitives
<1>1. PICK open : open = Behind(s, K, off, h.off, ToBreak)
  OBVIOUS
<1>2. PICK list : list = Behind(s, K, off, h.off, h.val)
  OBVIOUS
<1>3. PICK pairs : pairs = Behind(s, K, off, h.off, 2 * h.val)
  OBVIOUS
<1>4. PICK content : content = Behind(s, K, off, h.off, 1)
  OBVIOUS
<1>5. PICK bytes : bytes = h.off + h.val
  OBVIOUS
<1>6. PICK r : r = SkipItem(s, K, off)
  OBVIOUS
<1>7. PICK t : t = h.t
  OBVIOUS
<1>8. t \in 0 .. 7 /\ (h.ai = Indefinite => t \in {2, 3, 4, 5})
  BY <1>7
<1>9. r = IF h.ai = Indefinite /\ t \in {2, 3, 4, 5} THEN open
          ELSE CASE t \in {2, 3} -> bytes [] t = 4 -> list [] t = 5 -> pairs
                 [] t = 6 -> content [] OTHER -> h.off
  BY <1>1, <1>2, <1>3, <1>4, <1>5, <1>6, <1>7 DEF SkipItem, SkipHead
<1>10. h.ai = Indefinite => r = open
  BY <1>8, <1>9
<1>11. ASSUME h.ai # Indefinite
       PROVE  r = CASE t \in {2, 3} -> bytes [] t = 4 -> list [] t = 5 -> pairs
                    [] t = 6 -> content [] OTHER -> h.off
  BY <1>9, <1>11
<1>12. h.ai # Indefinite /\ t \in {2, 3} => r = bytes
  BY <1>11
<1>13. h.ai # Indefinite /\ t = 4 => r = list
  BY <1>11
<1>14. h.ai # Indefinite /\ t = 5 => r = pairs
  BY <1>11
<1>15. t = 6 => r = content
  BY <1>8, <1>11
<1>16. t \in {0, 1, 7} => r = h.off
  BY <1>8, <1>11
<1> QED BY <1>1, <1>2, <1>3, <1>4, <1>5, <1>6, <1>7, <1>10, <1>12, <1>13, <1>14, <1>15, <1>16

\* It depends on what is behind only.
Alike(s, F, G, x) == \A y \in x + 1 .. Len(s) : F[y] = G[y]

LEMMA BehindAlike ==
  ASSUME NEW s, NEW F, NEW G, NEW x, Alike(s, F, G, x), NEW next, NEW n
  PROVE  Behind(s, F, x, next, n) = Behind(s, G, x, next, n)
BY DEF Alike, Behind

LEMMA SkipItemAlike ==
  ASSUME NEW s, NEW F, NEW G, NEW x, Alike(s, F, G, x)
  PROVE  SkipItem(s, F, x) = SkipItem(s, G, x)
<1>1. PICK h : h = GetHead(s, x)
  OBVIOUS
<1>2. /\ Behind(s, F, x, h.off, ToBreak) = Behind(s, G, x, h.off, ToBreak)
      /\ Behind(s, F, x, h.off, h.val) = Behind(s, G, x, h.off, h.val)
      /\ Behind(s, F, x, h.off, 2 * h.val) = Behind(s, G, x, h.off, 2 * h.val)
      /\ Behind(s, F, x, h.off, 1) = Behind(s, G, x, h.off, 1)
  BY BehindAlike
<1>3. PICK open : open = Behind(s, F, x, h.off, ToBreak)
  OBVIOUS
<1>4. PICK list : list = Behind(s, F, x, h.off, h.val)
  OBVIOUS
<1>5. PICK pairs : pairs = Behind(s, F, x, h.off, 2 * h.val)
  OBVIOUS
<1>6. PICK content : content = Behind(s, F, x, h.off, 1)
  OBVIOUS
<1> DEFINE found ==
      IF h.ai = Indefinite /\ h.t \in {ByteString, TextString, Array, Map} THEN open
      ELSE CASE h.t \in {ByteString, TextString} -> h.off + h.val
             [] h.t = Array -> list
             [] h.t = Map -> pairs
             [] h.t = Tag -> content
             [] OTHER -> h.off
<1>7. SkipItem(s, F, x) = found
  BY <1>1, <1>3, <1>4, <1>5, <1>6 DEF SkipItem, SkipHead
<1>8. SkipItem(s, G, x) = found
  BY <1>1, <1>2, <1>3, <1>4, <1>5, <1>6 DEF SkipItem, SkipHead
<1> HIDE DEF found
<1> QED BY <1>7, <1>8

LEMMA SkipAlike ==
  ASSUME NEW s, NEW F, NEW G, NEW x, Alike(s, F, G, x), NEW n
  PROVE  /\ SkipItems(s, F, x, n) = SkipItems(s, G, x, n)
         /\ SkipUntilBreak(s, F, x) = SkipUntilBreak(s, G, x)
<1>1. SkipItem(s, F, x) = SkipItem(s, G, x)
  BY SkipItemAlike
<1>2. PICK y : y = SkipItem(s, F, x)
  OBVIOUS
<1>3. Behind(s, F, x, y, n - 1) = Behind(s, G, x, y, n - 1)
  BY BehindAlike
<1>4. Behind(s, F, x, y, ToBreak) = Behind(s, G, x, y, ToBreak)
  BY BehindAlike
<1>5. SkipItems(s, F, x, n) = SkipItems(s, G, x, n)
  BY <1>1, <1>2, <1>3 DEF SkipItems
<1>6. SkipUntilBreak(s, F, x) = SkipUntilBreak(s, G, x)
  BY <1>1, <1>2, <1>4 DEF SkipUntilBreak
<1> QED BY <1>5, <1>6

LEMMA SkipFromDefined ==
  ASSUME NEW s \in Seq(Octet)
  PROVE  Skips(s, SkipFrom(s))
<1> DEFINE L == Len(s)
           One(F, off, n) ==
             IF n = ToBreak THEN SkipUntilBreak(s, F, off) ELSE SkipItems(s, F, off, n)
           Made(F) == [off \in 0 .. L |-> [n \in Counts |-> One(F, off, n)]]
           V == [Counts -> Nat]
           T == [0 .. L -> V]
           start == [off \in 0 .. L |-> [n \in Counts |-> 0]]
           next == [F \in T |-> Made(F)]
           from == CHOOSE from : from = Made(from)
<1>1. L \in Nat
  BY LenProperties
<1>2. ASSUME NEW F \in T, NEW off \in 0 .. L, NEW n \in Counts PROVE One(F, off, n) \in Nat
  <2>1. ASSUME NEW m \in Counts, NEW x PROVE Behind(s, F, off, x, m) \in Nat
    <3>1. CASE x \in off + 1 .. Len(s)
      <4>1. x \in 0 .. L
        BY <1>1, <3>1
      <4>2. F[x][m] \in Nat
        BY <4>1
      <4> QED BY <3>1, <4>2 DEF Behind
    <3>2. CASE x \notin off + 1 .. Len(s)
      BY <3>2 DEF Behind, Lost
    <3> QED BY <3>1, <3>2
  <2>2. off \in Nat /\ off + 1 \in Nat
    BY <1>1
  <2>3. CASE n = ToBreak
    <3>1. Behind(s, F, off, SkipItem(s, F, off), ToBreak) \in Nat
      <4>1. ToBreak \in Counts
        BY DEF Counts
      <4> HIDE DEF T
      <4> QED BY <2>1, <4>1
    <3> QED BY <2>2, <2>3, <3>1 DEF SkipUntilBreak
  <2>4. CASE n # ToBreak
    <3>1. n \in Nat
      BY <2>4 DEF Counts
    <3>2. n # 0 => Behind(s, F, off, SkipItem(s, F, off), n - 1) \in Nat
      <4>1. n # 0 => n - 1 \in Counts
        BY <3>1 DEF Counts
      <4> HIDE DEF T
      <4> QED BY <2>1, <4>1
    <3> QED BY <2>2, <2>4, <3>1, <3>2 DEF SkipItems
  <2> QED BY <2>3, <2>4
<1>3. ASSUME NEW F \in T PROVE Made(F) \in T
  <2> HIDE DEF One, L
  <2> QED BY <1>2
<1>4. start \in T
  OBVIOUS
<1>5. Causal(L, T, next)
  <2>1. ASSUME NEW F \in T, NEW G \in T, NEW x \in 0 .. L,
               \A y \in x + 1 .. L : F[y] = G[y]
        PROVE  next[F][x] = next[G][x]
    <3>1. ASSUME NEW n \in Counts PROVE One(F, x, n) = One(G, x, n)
      <4>1. Alike(s, F, G, x)
        BY <2>1 DEF Alike
      <4>2. /\ SkipItems(s, F, x, n) = SkipItems(s, G, x, n)
            /\ SkipUntilBreak(s, F, x) = SkipUntilBreak(s, G, x)
        BY <4>1, SkipAlike
      <4> QED BY <4>2
    <3>2. next[F] = Made(F) /\ next[G] = Made(G)
      <4> HIDE DEF T, Made
      <4> QED OBVIOUS
    <3>3. /\ Made(F)[x] = [n \in Counts |-> One(F, x, n)]
          /\ Made(G)[x] = [n \in Counts |-> One(G, x, n)]
      <4> HIDE DEF L, T, next, One
      <4> QED OBVIOUS
    <3>4. Made(F)[x] = Made(G)[x]
      <4> HIDE DEF Made, L, T, next, One
      <4> QED BY <3>1, <3>3
    <3> HIDE DEF Made, L, T, next
    <3> QED BY <3>2, <3>4
  <2> HIDE DEF T, next, L
  <2> QED BY <2>1 DEF Causal
<1>6. next \in [T -> T]
  <2> HIDE DEF T, Made
  <2> QED BY <1>3
<1>7. PICK f \in T : next[f] = f
  <2>1. T \subseteq [0 .. L -> V] /\ T # {}
    <3> HIDE DEF start
    <3> QED BY <1>4
  <2> HIDE DEF T, next, V, L
  <2> QED BY <1>1, <1>5, <1>6, <2>1, CourseOfValues, ZenonT(30)
<1>8. f = Made(f)
  <2> HIDE DEF T, Made
  <2> QED BY <1>7
<1>9. from = Made(from)
  <2> HIDE DEF Made
  <2> QED BY <1>8
<1>10. SkipFrom(s) = from
  BY DEF SkipFrom, Counts
<1>11. ASSUME NEW off \in 0 .. L, NEW n \in Counts
       PROVE  from[off][n] = One(from, off, n)
  <2> HIDE DEF from, L, One
  <2>1. from[off] = [m \in Counts |-> One(from, off, m)]
    BY <1>9
  <2> QED BY <2>1
<1> HIDE DEF from
<1> QED BY <1>10, <1>11 DEF Skips

\* How many items skip takes for what is left of an item, and that it ends where
\* validation has ended.
CountOf(c) ==
  IF c.t = Tag THEN 1
  ELSE IF c.t \in {ByteString, TextString} \/ (c.t \in {Array, Map} /\ c.indef) THEN ToBreak
  ELSE c.n

SkippedAt(V, K, x, c) == V[x][c].err = "nil" => K[x][CountOf(c)] = V[x][c].off

SkippedBehind(s, V, K, off) ==
  \A y \in off + 1 .. Len(s) : \A c \in Remainders : SkippedAt(V, K, y, c)

SkippedPartAt(s, V, K, off, x, c) ==
  V[x][c].err = "nil" => Behind(s, K, off, x, CountOf(c)) = V[x][c].off

\* A part of an item behind its head.
LEMMA SkippedPart ==
  ASSUME NEW s, NEW V, NEW K, NEW off, SkippedBehind(s, V, K, off), NEW h, Fits(s, off, h),
         NEW indef \in BOOLEAN, NEW depth \in Nat, NEW n \in Nat
  PROVE  SkippedPartAt(s, V, K, off, h.off, Remainder(h.t, indef, depth, n))
<1> DEFINE c == Remainder(h.t, indef, depth, n)
<1>1. h.off \in off + 1 .. Len(s) /\ h.t \in 0 .. 7
  BY DEF Fits, Heads
<1>2. c \in Remainders
  BY <1>1, RemainderType
<1> HIDE DEF c
<1>3. SkippedAt(V, K, h.off, c)
  BY <1>1, <1>2 DEF SkippedBehind
<1>4. Behind(s, K, off, h.off, CountOf(c)) = K[h.off][CountOf(c)]
  BY <1>1 DEF Behind
<1>5. SkippedPartAt(s, V, K, off, h.off, c)
  BY <1>3, <1>4 DEF SkippedAt, SkippedPartAt
<1> QED BY <1>5 DEF c

LEMMA ItemSkipped ==
  ASSUME NEW s \in Seq(Octet), NEW V, NEW K, NEW off \in 0 .. Len(s),
         SkippedBehind(s, V, K, off), NEW depth \in Nat,
         NEW r, r = ValidItem(s, V, off, depth), r.err = "nil"
  PROVE  SkipItem(s, K, off) = r.off
<1>1. HeadError(s, off) = "nil"
  <2>1. ASSUME HeadError(s, off) # "nil" PROVE FALSE
    <3>1. r = Fail(HeadError(s, off))
      BY <2>1 DEF ValidItem
    <3> QED BY <2>1, <3>1, FailError
  <2> QED BY <2>1
<1>2. PICK h : h = GetHead(s, off)
  OBVIOUS
<1>3. Fits(s, off, h)
  BY <1>1, <1>2, HeadFits
<1>4. /\ h.t \in 0 .. 7 /\ h.val \in Int
      /\ h.ai = Indefinite => h.t \in {ByteString, TextString, Array, Map}
  BY <1>3 DEF Fits, Heads
<1>5. ItemIs(s, V, off, depth, h)
  <2>1. h.t \in 0 .. 7
    BY <1>4
  <2> QED BY <1>1, <1>2, <2>1, ItemCases
<1>6. CASE h.t \in {ByteString, TextString}
  <2>1. r = ValidString(s, V, h, depth)
    BY <1>5, <1>6 DEF ItemIs, ByteString, TextString
  <2>2. CASE h.ai = Indefinite
    <3> DEFINE c == Remainder(h.t, TRUE, depth, 0)
    <3>1. CountOf(c) = ToBreak
      BY <1>6 DEF CountOf, Remainder, Tag, ByteString, TextString, Array, Map
    <3>2. r = V[h.off][c]
      <4>1. Fail("indefinite").err # "nil"
        BY FailError
      <4> HIDE DEF c
      <4> QED BY <2>1, <2>2, <4>1, c = Remainder(h.t, TRUE, depth, 0) DEF ValidString, c
    <3>3. SkipItem(s, K, off) = Behind(s, K, off, h.off, ToBreak)
      BY <1>2, <1>4, <2>2, SkipItemCases
    <3>4. SkippedPartAt(s, V, K, off, h.off, c)
      BY <1>3, SkippedPart
    <3> HIDE DEF c
    <3> QED BY <3>1, <3>2, <3>3, <3>4 DEF SkippedPartAt
  <2>3. CASE h.ai # Indefinite
    <3>1. Fail("overflow").err # "nil" /\ Fail("UnexpectedEOF").err # "nil"
      BY FailError
    <3>2. r = Ok(h.off + h.val, depth)
      BY <2>1, <2>3, <3>1 DEF ValidString
    <3>3. SkipItem(s, K, off) = h.off + h.val
      BY <1>2, <1>4, <1>6, <2>3, SkipItemCases
    <3> QED BY <3>2, <3>3 DEF Ok
  <2> QED BY <2>2, <2>3
<1>7. CASE h.t \in {Array, Map}
  <2>1. r = ValidContainer(V, h, depth + 1)
    BY <1>5, <1>7 DEF ItemIs, Array, Map
  <2>2. depth + 1 \in Nat
    OBVIOUS
  <2>3. /\ Fail("levels").err # "nil" /\ Fail("indefinite").err # "nil"
        /\ Fail("overflow").err # "nil" /\ Fail("elements").err # "nil"
    BY FailError
  <2>4. CASE h.ai = Indefinite
    <3> DEFINE c == Remainder(h.t, TRUE, depth + 1, 0)
    <3>1. CountOf(c) = ToBreak
      BY <1>7 DEF CountOf, Remainder, Tag, ByteString, TextString, Array, Map
    <3>2. r = V[h.off][c]
      BY <2>1, <2>3, <2>4 DEF ValidContainer
    <3>3. SkipItem(s, K, off) = Behind(s, K, off, h.off, ToBreak)
      BY <1>2, <1>4, <2>4, SkipItemCases
    <3>4. SkippedPartAt(s, V, K, off, h.off, c)
      BY <1>3, <2>2, SkippedPart
    <3> HIDE DEF c
    <3> QED BY <3>1, <3>2, <3>3, <3>4 DEF SkippedPartAt
  <2>5. CASE h.ai # Indefinite
    <3> DEFINE n == IF h.t = Array THEN h.val ELSE 2 * h.val
               c == Remainder(h.t, FALSE, depth + 1, n)
               max == IF h.t = Array THEN MaxArrayElements ELSE MaxMapPairs
    <3>1. CountOf(c) = n
      <4> HIDE DEF n
      <4> QED BY <1>7 DEF CountOf, Remainder, Tag, ByteString, TextString, Array, Map
    <3>2. r = IF depth + 1 > MaxNestedLevels THEN Fail("levels")
              ELSE IF h.val < 0 THEN Fail("overflow")
              ELSE IF h.val > max THEN Fail("elements") ELSE V[h.off][c]
      BY <2>1, <2>5 DEF ValidContainer
    <3>3. r = V[h.off][c] /\ ~(h.val < 0)
      <4> HIDE DEF c, max
      <4> QED BY <2>3, <3>2
    <3>4. n \in Nat
      BY <1>4, <3>3
    <3>5. SkipItem(s, K, off) = Behind(s, K, off, h.off, n)
      BY <1>2, <1>4, <1>7, <2>5, SkipItemCases DEF Array, Map
    <3>6. SkippedPartAt(s, V, K, off, h.off, c)
      <4> HIDE DEF n
      <4> QED BY <1>3, <2>2, <3>4, SkippedPart
    <3> HIDE DEF c, n
    <3> QED BY <3>1, <3>3, <3>5, <3>6 DEF SkippedPartAt
  <2> QED BY <2>4, <2>5
<1>8. CASE h.t = Tag
  <2> DEFINE c == Remainder(h.t, FALSE, depth, 0)
  <2>1. CountOf(c) = 1
    BY <1>8 DEF CountOf, Remainder
  <2>2. r = IF TagsForbidden THEN Fail("tags") ELSE V[h.off][Remainder(Tag, FALSE, depth, 0)]
    BY <1>5, <1>8 DEF ItemIs, Tag
  <2>3. r = V[h.off][c]
    <3>1. Fail("tags").err # "nil"
      BY FailError
    <3> QED BY <1>8, <2>2, <3>1
  <2>4. SkipItem(s, K, off) = Behind(s, K, off, h.off, 1)
    BY <1>2, <1>4, <1>8, SkipItemCases
  <2>5. SkippedPartAt(s, V, K, off, h.off, c)
    BY <1>3, SkippedPart
  <2> HIDE DEF c
  <2> QED BY <2>1, <2>3, <2>4, <2>5 DEF SkippedPartAt
<1>9. CASE h.t \in {PosInt, NegInt, Primitives}
  <2>1. r = Ok(h.off, depth)
    BY <1>5, <1>9 DEF ItemIs, PosInt, NegInt, Primitives
  <2>2. SkipItem(s, K, off) = h.off
    BY <1>2, <1>4, <1>9, SkipItemCases
  <2> QED BY <2>1, <2>2 DEF Ok
<1>10. h.t \in {ByteString, TextString} \/ h.t \in {Array, Map} \/ h.t = Tag
       \/ h.t \in {PosInt, NegInt, Primitives}
  BY <1>4 DEF ByteString, TextString, Array, Map, Tag, PosInt, NegInt, Primitives
<1> QED BY <1>6, <1>7, <1>8, <1>9, <1>10

LEMMA DeepestOff ==
  ASSUME NEW s, NEW x, NEW r, NEW rest \in Finds(s, x)
  PROVE  Deepest(r, rest).off = rest.off
BY DEF Deepest, Finds, Results

\* An item, and what is left behind it.
LEMMA FollowSkipped ==
  ASSUME NEW s \in Seq(Octet), NEW V, NEW K, NEW off \in 0 .. Len(s),
         SkippedBehind(s, V, K, off), NEW depth \in Nat,
         NEW r \in Finds(s, off + 1), r = ValidItem(s, V, off, depth), r.err = "nil",
         NEW c \in Remainders, V[r.off][c].err = "nil"
  PROVE  Behind(s, K, off, SkipItem(s, K, off), CountOf(c)) = V[r.off][c].off
<1>1. SkipItem(s, K, off) = r.off
  BY ItemSkipped
<1>2. r.off \in off + 1 .. Len(s)
  BY DEF Finds
<1>3. SkippedAt(V, K, r.off, c)
  BY <1>2 DEF SkippedBehind
<1>4. Behind(s, K, off, r.off, CountOf(c)) = K[r.off][CountOf(c)]
  BY <1>2 DEF Behind
<1> QED BY <1>1, <1>3, <1>4 DEF SkippedAt

\* One item.
LEMMA SkipOne ==
  ASSUME NEW s \in Seq(Octet), NEW K, Skips(s, K), NEW off \in 0 .. Len(s),
         SkipItem(s, K, off) \in off + 1 .. Len(s)
  PROVE  K[off][1] = SkipItem(s, K, off)
<1>1. PICK x : x = SkipItem(s, K, off)
  OBVIOUS
<1>2. Len(s) \in Nat
  BY LenProperties
<1>3. 1 \in Counts /\ 1 # ToBreak /\ 0 \in Counts /\ 0 # ToBreak
  BY DEF Counts, ToBreak
<1>4. x \in off + 1 .. Len(s) /\ x \in 0 .. Len(s)
  BY <1>1, <1>2
<1>5. K[off][1] = SkipItems(s, K, off, 1)
  BY <1>3 DEF Skips
<1>6. SkipItems(s, K, off, 1) = Behind(s, K, off, x, 0)
  BY <1>1 DEF SkipItems
<1>7. Behind(s, K, off, x, 0) = K[x][0]
  BY <1>4 DEF Behind
<1>8. K[x][0] = SkipItems(s, K, x, 0)
  BY <1>3, <1>4 DEF Skips
<1>9. SkipItems(s, K, x, 0) = x
  BY DEF SkipItems
<1> QED BY <1>1, <1>5, <1>6, <1>7, <1>8, <1>9

\* The tables of validation and of skip.
Tables(s, V, K) ==
  /\ s \in Seq(Octet) /\ Len(s) \in Nat
  /\ V = ValidFrom(s) /\ Validates(s, V) /\ Skips(s, K)

LEMMA TagSkipped ==
  ASSUME NEW s, NEW V, NEW K, Tables(s, V, K), NEW off \in 0 .. Len(s),
         SkippedBehind(s, V, K, off), NEW c \in Remainders, c.t = Tag,
         NEW r, r = ValidTag(s, V, off, c), r.err = "nil"
  PROVE  K[off][1] = r.off
<1>1. /\ s \in Seq(Octet) /\ Len(s) \in Nat /\ off \in Nat /\ c.depth \in Nat
      /\ V = ValidFrom(s) /\ Skips(s, K)
  BY DEF Tables, Remainders
<1>2. off # Len(s)
  BY FailError DEF ValidTag
<1>3. CASE Type(At(s, off)) # Tag
  <2>1. r = ValidItem(s, V, off, c.depth)
    BY <1>2, <1>3 DEF ValidTag
  <2>2. SkipItem(s, K, off) = r.off
    BY <1>1, <2>1, ItemSkipped
  <2>3. r \in Finds(s, off + 1)
    BY <1>1, <2>1, ValidFromAhead, ItemFound
  <2>4. r.off \in off + 1 .. Len(s)
    BY <2>3 DEF Finds
  <2> QED BY <1>1, <2>2, <2>4, SkipOne
<1>4. CASE Type(At(s, off)) = Tag
  <2> DEFINE deeper == [c EXCEPT !.depth = c.depth + 1]
  <2>1. PICK h : h = GetHead(s, off)
    OBVIOUS
  <2>2. HeadError(s, off) = "nil"
    BY <1>2, <1>4, FailError DEF ValidTag
  <2>3. Fits(s, off, h)
    BY <1>1, <2>1, <2>2, HeadFits
  <2>4. Fail("levels").err # "nil"
    BY FailError
  <2>5. r = V[h.off][deeper]
    BY <1>2, <1>4, <2>1, <2>2, <2>4 DEF ValidTag
  <2>6. deeper \in Remainders /\ CountOf(deeper) = 1
    BY <1>1 DEF Remainders, CountOf
  <2>7. h.off \in off + 1 .. Len(s) /\ h.t = Tag /\ h.t \in 0 .. 7
    BY <1>4, <2>3 DEF Fits, Heads
  <2>8. h.ai = Indefinite => h.t \in {ByteString, TextString, Array, Map}
    BY <2>3 DEF Fits
  <2> HIDE DEF deeper
  <2>9. SkipItem(s, K, off) = Behind(s, K, off, h.off, 1)
    BY <2>1, <2>7, <2>8, SkipItemCases
  <2>10. Behind(s, K, off, h.off, 1) = K[h.off][1]
    BY <2>7 DEF Behind
  <2>11. SkippedAt(V, K, h.off, deeper)
    BY <2>6, <2>7 DEF SkippedBehind
  <2>12. SkipItem(s, K, off) = r.off
    BY <2>5, <2>6, <2>9, <2>10, <2>11 DEF SkippedAt
  <2>13. h.off \in 0 .. Len(s)
    BY <1>1, <2>7
  <2>14. r \in Finds(s, h.off)
    BY <1>1, <2>5, <2>6, <2>13, ValidFromFinds
  <2>15. r.off \in off + 1 .. Len(s)
    <3>1. r.off \in h.off .. Len(s)
      BY <2>14 DEF Finds
    <3> QED BY <1>1, <2>7, <3>1
  <2> QED BY <1>1, <2>12, <2>15, SkipOne
<1> QED BY <1>3, <1>4

LEMMA ChunksSkipped ==
  ASSUME NEW s, NEW V, NEW K, Tables(s, V, K), NEW off \in 0 .. Len(s),
         SkippedBehind(s, V, K, off), NEW c \in Remainders, c.t \in {ByteString, TextString},
         NEW r, r = ValidChunks(s, V, off, c), r.err = "nil"
  PROVE  K[off][ToBreak] = r.off
<1>1. /\ s \in Seq(Octet) /\ Len(s) \in Nat /\ off \in Nat /\ c.depth \in Nat
      /\ V = ValidFrom(s) /\ Skips(s, K)
  BY DEF Tables, Remainders
<1>2. off # Len(s)
  BY FailError DEF ValidChunks
<1>3. K[off][ToBreak] = SkipUntilBreak(s, K, off)
  BY <1>1 DEF Skips, Counts
<1>4. CASE At(s, off) = Break
  BY <1>2, <1>3, <1>4 DEF ValidChunks, SkipUntilBreak, Ok
<1>5. CASE At(s, off) # Break
  <2>1. PICK q : q = ValidItem(s, V, off, c.depth)
    OBVIOUS
  <2>2. q \in Finds(s, off + 1)
    BY <1>1, <2>1, ValidFromAhead, ItemFound
  <2> DEFINE next == [c EXCEPT !.depth = q.depth]
  <2>3. Fail("syntax").err # "nil"
    BY FailError
  <2>4. q.err = "nil" /\ r = V[q.off][next]
    BY <1>2, <1>5, <2>1, <2>3 DEF ValidChunks
  <2>5. next \in Remainders /\ CountOf(next) = ToBreak
    <3>1. q.depth \in Nat
      BY <2>2 DEF Finds, Results
    <3> QED BY <3>1 DEF Remainders, CountOf, ByteString, TextString, Tag
  <2> HIDE DEF next
  <2>6. Behind(s, K, off, SkipItem(s, K, off), CountOf(next)) = V[q.off][next].off
    BY <1>1, <2>1, <2>2, <2>4, <2>5, FollowSkipped
  <2>7. SkipUntilBreak(s, K, off) = Behind(s, K, off, SkipItem(s, K, off), ToBreak)
    BY <1>5 DEF SkipUntilBreak
  <2> QED BY <1>3, <2>4, <2>5, <2>6, <2>7
<1> QED BY <1>4, <1>5

LEMMA UntilBreakSkipped ==
  ASSUME NEW s, NEW V, NEW K, Tables(s, V, K), NEW off \in 0 .. Len(s),
         SkippedBehind(s, V, K, off), NEW c \in Remainders, c.t \in {Array, Map}, c.indef,
         NEW r, r = ValidUntilBreak(s, V, off, c), r.err = "nil"
  PROVE  K[off][ToBreak] = r.off
<1>1. /\ s \in Seq(Octet) /\ Len(s) \in Nat /\ off \in Nat /\ c.depth \in Nat /\ c.n \in Nat
      /\ V = ValidFrom(s) /\ Skips(s, K)
  BY DEF Tables, Remainders
<1>2. off # Len(s)
  BY FailError DEF ValidUntilBreak
<1>3. K[off][ToBreak] = SkipUntilBreak(s, K, off)
  BY <1>1 DEF Skips, Counts
<1>4. CASE At(s, off) = Break
  <2>1. Fail("syntax").err # "nil"
    BY FailError
  <2>2. r = Ok(off + 1, c.depth)
    BY <1>2, <1>4, <2>1 DEF ValidUntilBreak
  <2> QED BY <1>3, <1>4, <2>2 DEF SkipUntilBreak, Ok
<1>5. CASE At(s, off) # Break
  <2>1. PICK q : q = ValidItem(s, V, off, c.depth)
    OBVIOUS
  <2>2. q \in Finds(s, off + 1)
    BY <1>1, <2>1, ValidFromAhead, ItemFound
  <2> DEFINE next == [c EXCEPT !.n = c.n + 1]
             i == c.n + 1
             many == \/ c.t = Array /\ i > MaxArrayElements
                     \/ c.t = Map /\ i % 2 = 0 /\ i \div 2 > MaxMapPairs
  <2>3. Fail("elements").err # "nil"
    BY FailError
  <2>4. r = IF q.err # "nil" THEN q
            ELSE IF many THEN Fail("elements") ELSE Deepest(q, V[q.off][next])
    BY <1>2, <1>5, <2>1 DEF ValidUntilBreak
  <2>5. next \in Remainders /\ CountOf(next) = ToBreak
    BY <1>1 DEF Remainders, CountOf, ByteString, TextString, Array, Map, Tag
  <2> HIDE DEF next, many
  <2>6. q.err = "nil" /\ r = Deepest(q, V[q.off][next])
    BY <2>3, <2>4
  <2>7. V[q.off][next] \in Finds(s, off + 1)
    BY <1>1, <2>2, <2>5, <2>6, ValidFromAhead, BehindItem
  <2>8. V[q.off][next].err = "nil" /\ r.off = V[q.off][next].off
    BY <2>6, <2>7, DeepestError, DeepestOff
  <2>9. Behind(s, K, off, SkipItem(s, K, off), CountOf(next)) = V[q.off][next].off
    BY <1>1, <2>1, <2>2, <2>5, <2>6, <2>8, FollowSkipped
  <2>10. SkipUntilBreak(s, K, off) = Behind(s, K, off, SkipItem(s, K, off), ToBreak)
    BY <1>5 DEF SkipUntilBreak
  <2> QED BY <1>3, <2>5, <2>8, <2>9, <2>10
<1> QED BY <1>4, <1>5

LEMMA ItemsSkipped ==
  ASSUME NEW s, NEW V, NEW K, Tables(s, V, K), NEW off \in 0 .. Len(s),
         SkippedBehind(s, V, K, off), NEW c \in Remainders,
         CountOf(c) = c.n, \A n \in Nat : CountOf([c EXCEPT !.n = n]) = n,
         NEW r, r = ValidItems(s, V, off, c), r.err = "nil"
  PROVE  K[off][c.n] = r.off
<1>1. /\ s \in Seq(Octet) /\ Len(s) \in Nat /\ off \in Nat /\ c.depth \in Nat /\ c.n \in Nat
      /\ V = ValidFrom(s) /\ Skips(s, K)
  BY DEF Tables, Remainders
<1>2. K[off][c.n] = SkipItems(s, K, off, c.n)
  BY <1>1 DEF Skips, Counts, ToBreak
<1>3. CASE c.n = 0
  BY <1>2, <1>3 DEF ValidItems, SkipItems, Ok
<1>4. CASE c.n # 0
  <2>1. PICK q : q = ValidItem(s, V, off, c.depth)
    OBVIOUS
  <2>2. q \in Finds(s, off + 1)
    BY <1>1, <2>1, ValidFromAhead, ItemFound
  <2> DEFINE next == [c EXCEPT !.n = c.n - 1]
  <2>3. q.err = "nil" /\ r = Deepest(q, V[q.off][next])
    BY <1>4, <2>1 DEF ValidItems
  <2>4. c.n - 1 \in Nat
    BY <1>1, <1>4
  <2>5. next \in Remainders
    BY <2>4 DEF Remainders
  <2>6. CountOf(next) = c.n - 1
    BY <2>4
  <2> HIDE DEF next
  <2>7. V[q.off][next] \in Finds(s, off + 1)
    BY <1>1, <2>2, <2>3, <2>5, ValidFromAhead, BehindItem
  <2>8. V[q.off][next].err = "nil" /\ r.off = V[q.off][next].off
    BY <2>3, <2>7, DeepestError, DeepestOff
  <2>9. Behind(s, K, off, SkipItem(s, K, off), CountOf(next)) = V[q.off][next].off
    BY <1>1, <2>1, <2>2, <2>3, <2>5, <2>8, FollowSkipped, SMTT(30)
  <2>10. SkipItems(s, K, off, c.n) = Behind(s, K, off, SkipItem(s, K, off), c.n - 1)
    BY <1>4 DEF SkipItems
  <2> QED BY <1>2, <2>6, <2>8, <2>9, <2>10
<1> QED BY <1>3, <1>4

LEMMA RemainderSkipped ==
  ASSUME NEW s, NEW V, NEW K, Tables(s, V, K), NEW off \in 0 .. Len(s),
         SkippedBehind(s, V, K, off), NEW c \in Remainders
  PROVE  SkippedAt(V, K, off, c)
<1>1. SUFFICES ASSUME V[off][c].err = "nil"
               PROVE  K[off][CountOf(c)] = V[off][c].off
  BY DEF SkippedAt
<1>2. PICK r : r = V[off][c]
  OBVIOUS
<1>3. r = ValidRemainder(s, V, off, c) /\ r.err = "nil"
  BY <1>1, <1>2 DEF Tables, Validates
<1>4. CASE c.t = Tag
  <2>1. r = ValidTag(s, V, off, c)
    BY <1>3, <1>4, RemainderCases
  <2>2. K[off][1] = r.off
    BY <1>3, <1>4, <2>1, TagSkipped
  <2> QED BY <1>2, <1>4, <2>2 DEF CountOf
<1>5. CASE c.t \in {ByteString, TextString}
  <2>1. r = ValidChunks(s, V, off, c)
    BY <1>3, <1>5, RemainderCases
  <2>2. K[off][ToBreak] = r.off
    BY <1>3, <1>5, <2>1, ChunksSkipped
  <2>3. CountOf(c) = ToBreak
    BY <1>5 DEF CountOf, ByteString, TextString, Tag
  <2> QED BY <1>2, <2>2, <2>3
<1>6. CASE c.t \in {Array, Map} /\ c.indef
  <2>1. r = ValidUntilBreak(s, V, off, c)
    BY <1>3, <1>6, RemainderCases
  <2>2. K[off][ToBreak] = r.off
    BY <1>3, <1>6, <2>1, UntilBreakSkipped
  <2>3. CountOf(c) = ToBreak
    BY <1>6 DEF CountOf, Array, Map, Tag
  <2> QED BY <1>2, <2>2, <2>3
<1>7. CASE ~(c.t = Tag \/ c.t \in {ByteString, TextString} \/ (c.t \in {Array, Map} /\ c.indef))
  <2>1. r = ValidItems(s, V, off, c)
    BY <1>3, <1>7, RemainderCases
  <2>2. CountOf(c) = c.n
    BY <1>7 DEF CountOf
  <2>3. \A n \in Nat : CountOf([c EXCEPT !.n = n]) = n
    BY <1>7 DEF CountOf, Remainders
  <2>4. K[off][c.n] = r.off
    BY <1>3, <2>1, <2>2, <2>3, ItemsSkipped
  <2> QED BY <1>2, <2>2, <2>4
<1> QED BY <1>4, <1>5, <1>6, <1>7

LEMMA SkippedFrom ==
  ASSUME NEW s \in Seq(Octet), NEW off \in 0 .. Len(s)
  PROVE  SkippedBehind(s, ValidFrom(s), SkipFrom(s), off)
<1> DEFINE V == ValidFrom(s)
           K == SkipFrom(s)
           P == {x \in 0 .. Len(s) : \A c \in Remainders : SkippedAt(V, K, x, c)}
<1>1. Tables(s, V, K) /\ Len(s) \in Nat
  BY LenProperties, ValidFromDefined, SkipFromDefined DEF Tables
<1> HIDE DEF V, K
<1>2. ASSUME NEW x \in 0 .. Len(s), \A y \in x + 1 .. Len(s) : y \in P
      PROVE  x \in P
  <2>1. SkippedBehind(s, V, K, x)
    BY <1>2 DEF SkippedBehind
  <2>2. ASSUME NEW c \in Remainders PROVE SkippedAt(V, K, x, c)
    BY <1>1, <2>1, RemainderSkipped
  <2> QED BY <2>2
<1>3. 0 .. Len(s) \subseteq P
  <2> HIDE DEF P
  <2> QED BY <1>1, <1>2, DownTo
<1>4. \A y \in off + 1 .. Len(s) : y \in 0 .. Len(s)
  BY <1>1
<1>5. SkippedBehind(s, V, K, off)
  BY <1>3, <1>4 DEF SkippedBehind
<1> QED BY <1>5 DEF V, K


(***************************************************************************)
(* The theorems.                                                           *)
(***************************************************************************)

\* Wherever an item starts in the data and however deep it is nested: if valid.go
\* finds it well-formed, skip ends behind it, in the data.  decode.go may skip an
\* element of an array, a pair of a map or a field it does not know without any
\* bounds check.
THEOREM ValidItemIsSkipped ==
  ASSUME NEW s \in Seq(Octet), NEW off \in 0 .. Len(s), NEW depth \in Nat,
         ValidItem(s, ValidFrom(s), off, depth).err = "nil"
  PROVE  /\ Skip(s, off) = ValidItem(s, ValidFrom(s), off, depth).off
         /\ Skip(s, off) \in off + 1 .. Len(s)
<1> DEFINE V == ValidFrom(s)
           K == SkipFrom(s)
<1>1. PICK r : r = ValidItem(s, V, off, depth)
  OBVIOUS
<1>2. r \in Finds(s, off + 1) /\ r.err = "nil"
  BY <1>1, ValidFromAhead, ItemFound
<1>3. r.off \in off + 1 .. Len(s)
  BY <1>2 DEF Finds
<1>4. SkippedBehind(s, V, K, off)
  BY SkippedFrom
<1>5. Skips(s, K)
  BY SkipFromDefined
<1> HIDE DEF V, K
<1>6. SkipItem(s, K, off) = r.off
  BY <1>1, <1>2, <1>4, ItemSkipped
<1>7. K[off][1] = r.off
  BY <1>3, <1>5, <1>6, SkipOne
<1> QED BY <1>1, <1>3, <1>7 DEF Skip, V, K

\* The data is a sequence of bytes.
IsBytes == data \in Seq(Octet)

LEMMA DataIsBytes == Spec => []IsBytes
<1>1. Init => IsBytes
  BY ArrivalAssumption DEF Init, IsBytes
<1>2. IsBytes /\ [Next]_vars => IsBytes'
  <2> SUFFICES ASSUME data \in Seq(Octet), [Next]_vars PROVE data' \in Seq(Octet)
    BY DEF IsBytes
  <2>1. CASE Next
    <3>1. PICK b \in Alphabet : data' = Append(data, b)
      BY <2>1 DEF Next, Arrive
    <3>2. b \in Octet
      BY ArrivalAssumption
    <3> QED BY <3>1, <3>2, AppendProperties
  <2>2. CASE UNCHANGED vars
    BY <2>2 DEF vars
  <2> QED BY <2>1, <2>2
<1> QED BY <1>1, <1>2, PTL DEF Spec

\* skip ends where validation ended, whatever has arrived: decode.go never leaves
\* data that was validated.
THEOREM SpecSkipAgrees == Spec => []SkipAgrees
<1>1. IsBytes => SkipAgrees
  <2> SUFFICES ASSUME data \in Seq(Octet), Complete PROVE Skip(data, 0) = Valid(data).off
    BY DEF SkipAgrees, IsBytes
  <2>1. Valid(data).err = "nil" /\ Fail("EOF").err # "nil"
    BY FailError DEF Complete
  <2>2. Valid(data) = ValidItem(data, ValidFrom(data), 0, 0)
    BY <2>1 DEF Valid
  <2>3. 0 \in 0 .. Len(data)
    BY LenProperties
  <2> QED BY <2>1, <2>2, <2>3, ValidItemIsSkipped
<1> QED BY <1>1, DataIsBytes, PTL

\* A byte more does not change what has been found.
LEMMA ByteMore ==
  ASSUME NEW s \in Seq(Octet), NEW b \in Octet, ~Undecided(s)
  PROVE  Valid(Append(s, b)) = Valid(s)
<1>1. s # <<>> /\ Valid(s).err # "UnexpectedEOF"
  <2>1. s = <<>> => Valid(s).err = "EOF"
    BY FailError DEF Valid
  <2> QED BY <2>1 DEF Undecided
<1>2. Continues(s, Append(s, b), {"UnexpectedEOF"})
  <2>1. PICK t : t = Append(s, b)
    OBVIOUS
  <2>2. /\ t \in Seq(Octet) /\ Len(t) = Len(s) + 1
        /\ \A i \in 1 .. Len(s) : t[i] = s[i]
    BY <2>1, AppendProperties
  <2>3. Len(s) <= Len(t)
    BY <2>2, LenProperties
  <2>4. Continues(s, t, {"UnexpectedEOF"})
    BY <2>2, <2>3 DEF Continues
  <2> QED BY <2>1, <2>4
<1> QED BY <1>1, <1>2, ValidKept

\* An item that is complete, or an error, stays what it is when more arrives: a
\* stream decoder that has to wait for more may start over from the first byte.
THEOREM SpecPrefixStable == Spec => PrefixStable
<1>1. IsBytes /\ [Next]_vars => [~Undecided(data) => Valid(data') = Valid(data)]_data
  <2> SUFFICES ASSUME data \in Seq(Octet), [Next]_vars, data' # data, ~Undecided(data)
               PROVE  Valid(data') = Valid(data)
    BY DEF IsBytes
  <2>1. Next
    BY DEF vars
  <2>2. PICK b \in Alphabet : data' = Append(data, b)
    BY <2>1 DEF Next, Arrive
  <2>3. b \in Octet
    BY ArrivalAssumption
  <2>4. Valid(Append(data, b)) = Valid(data)
    BY <2>3, ByteMore
  <2> QED BY <2>2, <2>4
<1> QED BY <1>1, DataIsBytes, PTL DEF Spec, PrefixStable

\* What a stream decoder makes of a part of a stream, from i to j, is of the three
\* kinds it knows; an item is not empty and does not leave the part; and an item or
\* an error is what it makes of all the rest of the stream.
FoundInPart(s, i, j) ==
  LET found == Scanned(SubSeq(s, i, j)) IN
  /\ found.res \in {"item", "more", "bad"}
  /\ found.res = "item" => found.len \in 1 .. j - i + 1
  /\ found.res # "more" => Scanned(SubSeq(s, i, Len(s))) = found

LEMMA ScannedKinds ==
  ASSUME NEW s
  PROVE  /\ Valid(s).err = "nil" => Scanned(s).res = "item" /\ Scanned(s).len = Valid(s).off
         /\ Valid(s).err # "nil" => Scanned(s).res \in {"more", "bad"}
         /\ Valid(s).err = "UnexpectedEOF" => Scanned(s).res = "more"
<1>1. PICK v : v = Valid(s)
  OBVIOUS
<1>2. PICK r : r = Scanned(s)
  OBVIOUS
<1>3. r = CASE v.err = "nil" -> [res |-> "item", len |-> v.off]
            [] v.err = "UnexpectedEOF" -> [res |-> "more", len |-> 0]
            [] OTHER -> [res |-> "bad", len |-> 0]
  BY <1>1, <1>2 DEF Scanned
<1>4. v.err = "nil" => r.res = "item" /\ r.len = v.off
  BY <1>3
<1>5. v.err # "nil" => r.res \in {"more", "bad"}
  BY <1>3
<1>6. v.err = "UnexpectedEOF" => r.res = "more"
  BY <1>3
<1> QED BY <1>1, <1>2, <1>4, <1>5, <1>6

\* The first three of the four assumptions of CborStream about finding an item hold
\* of the validation that stream.go uses, for every stream of bytes.
THEOREM ValidationScans ==
  ASSUME NEW s \in Seq(Octet), NEW i \in 1 .. Len(s), NEW j \in 1 .. Len(s), i <= j
  PROVE  FoundInPart(s, i, j)
<1>1. PICK L \in Nat : L = Len(s)
  BY LenProperties
<1>2. i \in Int /\ j \in Int /\ L \in Int /\ 1 <= i /\ j <= L
  BY <1>1
<1>3. \A k \in i .. L : s[k] \in Octet
  BY <1>1, <1>2, LenProperties
<1>4. \A k \in i .. j : s[k] \in Octet
  BY <1>2, <1>3
<1>5. PICK part : part = SubSeq(s, i, j)
  OBVIOUS
<1>6. PICK rest : rest = SubSeq(s, i, L)
  OBVIOUS
<1>7. /\ part \in Seq(Octet) /\ Len(part) = j - i + 1
      /\ \A k \in 1 .. j - i + 1 : part[k] = s[i + k - 1]
  BY <1>2, <1>4, <1>5, SubSeqProperties
<1>8. /\ rest \in Seq(Octet) /\ Len(rest) = L - i + 1
      /\ \A k \in 1 .. L - i + 1 : rest[k] = s[i + k - 1]
  BY <1>2, <1>3, <1>6, SubSeqProperties
<1>9. Continues(part, rest, {"UnexpectedEOF"})
  <2>1. Len(part) <= Len(rest)
    BY <1>2, <1>7, <1>8
  <2>2. ASSUME NEW k \in 1 .. Len(part) PROVE rest[k] = part[k]
    <3>1. k \in 1 .. j - i + 1 /\ k \in 1 .. L - i + 1
      BY <1>2, <1>7
    <3> QED BY <1>7, <1>8, <3>1
  <2> QED BY <1>7, <1>8, <2>1, <2>2 DEF Continues
<1>10. part # <<>>
  <2>1. Len(part) # 0
    BY <1>2, <1>7
  <2> QED BY <2>1, EmptySeq
<1>11. PICK found : found = Scanned(part)
  OBVIOUS
<1>12. found.res \in {"item", "more", "bad"}
  BY <1>11, ScannedKinds
<1>13. found.res = "item" => found.len \in 1 .. j - i + 1
  <2> SUFFICES ASSUME found.res = "item" PROVE found.len \in 1 .. j - i + 1
    OBVIOUS
  <2>1. Valid(part).err = "nil" /\ found.len = Valid(part).off
    BY <1>11, ScannedKinds
  <2> QED BY <1>7, <2>1, ValidFinds
<1>14. found.res # "more" => Scanned(rest) = found
  <2> SUFFICES ASSUME found.res # "more" PROVE Scanned(rest) = found
    OBVIOUS
  <2>1. Valid(part).err # "UnexpectedEOF"
    BY <1>11, ScannedKinds
  <2>2. Valid(rest) = Valid(part)
    BY <1>9, <1>10, <2>1, ValidKept
  <2> QED BY <1>11, <2>2 DEF Scanned
<1> QED BY <1>1, <1>5, <1>6, <1>11, <1>12, <1>13, <1>14 DEF FoundInPart
=============================================================================
