-------------------------- MODULE CborStreamProofs --------------------------
(***************************************************************************)
(* Proofs about the stream decoder, for all streams, sizes of reads and of *)
(* the buffer, and whatever finds the items.                               *)
(***************************************************************************)
EXTENDS CborStream, SequenceTheorems, TLAPS

Bytes == 0 .. 255

(***************************************************************************)
(* Parts of a stream.                                                      *)
(***************************************************************************)
\* dec.buf[dec.off:]: what is unread in a window on a stream is a part of it.
LEMMA RestOfWindow ==
  ASSUME NEW s \in Seq(Bytes), NEW t \in 0 .. Len(s),
         NEW b \in Seq(Bytes), NEW n \in 0 .. t, NEW o \in 0 .. n,
         n = Len(b)
  PROVE  b = SubSeq(s, t - n + 1, t) =>
           /\ SubSeq(b, o + 1, n) = SubSeq(s, t - n + o + 1, t)
           /\ SubSeq(b, o + 1, n) \in Seq(Bytes)
           /\ Len(SubSeq(b, o + 1, n)) = n - o
<1>1. Len(s) \in Nat /\ t \in Nat /\ n \in Nat /\ o \in Nat /\ o <= n
  BY LenProperties
<1>2. \A i \in o + 1 .. n : b[i] \in Bytes
  BY <1>1, LenProperties
<1>3. /\ SubSeq(b, o + 1, n) \in Seq(Bytes)
      /\ Len(SubSeq(b, o + 1, n)) = IF o + 1 <= n THEN n - (o + 1) + 1 ELSE 0
  BY <1>1, <1>2, SubSeqProperties
<1>4. Len(SubSeq(b, o + 1, n)) = n - o
  BY <1>1, <1>3
<1>5. ASSUME b = SubSeq(s, t - n + 1, t)
      PROVE  SubSeq(b, o + 1, n) = SubSeq(s, t - n + o + 1, t)
  <2>1. CASE o = n
    <3>1. SubSeq(b, o + 1, n) = <<>>
      BY <1>1, <2>1, SubSeqEmpty
    <3>2. SubSeq(s, t - n + o + 1, t) = <<>>
      BY <1>1, <2>1, SubSeqEmpty
    <3> QED BY <3>1, <3>2
  <2>2. CASE o < n
    <3>1. /\ t - n + 1 \in 1 .. Len(s) /\ t \in 1 .. Len(s)
          /\ o + 1 \in 1 .. t - (t - n + 1) + 1
          /\ n \in 1 .. t - (t - n + 1) + 1
      BY <1>1, <2>2
    <3>2. SubSeq(SubSeq(s, t - n + 1, t), o + 1, n)
            = SubSeq(s, t - n + 1 + (o + 1) - 1, t - n + 1 + n - 1)
      BY <3>1, SubSeqOfSubSeq
    <3>3. t - n + 1 + (o + 1) - 1 = t - n + o + 1 /\ t - n + 1 + n - 1 = t
      BY <1>1
    <3> QED BY <1>5, <3>2, <3>3
  <2> QED BY <1>1, <2>1, <2>2
<1> QED BY <1>3, <1>4, <1>5

\* read: n more bytes behind the unread ones.
LEMMA Refill ==
  ASSUME NEW s \in Seq(Bytes), NEW t \in 0 .. Len(s), NEW r \in 0 .. t,
         NEW n \in 0 .. Len(s) - t
  PROVE  /\ SubSeq(s, r + 1, t) \o SubSeq(s, t + 1, t + n) = SubSeq(s, r + 1, t + n)
         /\ SubSeq(s, r + 1, t + n) \in Seq(Bytes)
         /\ Len(SubSeq(s, r + 1, t + n)) = t + n - r
<1>1. Len(s) \in Nat
  BY LenProperties
<1>2. /\ r + 1 \in 1 .. Len(s) + 1 /\ t \in r + 1 - 1 .. Len(s)
      /\ t + n \in t .. Len(s)
  BY <1>1
<1>3. SubSeq(s, r + 1, t) \o SubSeq(s, t + 1, t + n) = SubSeq(s, r + 1, t + n)
  BY <1>2, ConcatAdjacentSubSeq
<1>4. \A i \in r + 1 .. t + n : s[i] \in Bytes
  BY <1>1, LenProperties
<1>5. /\ SubSeq(s, r + 1, t + n) \in Seq(Bytes)
      /\ Len(SubSeq(s, r + 1, t + n)) =
           IF r + 1 <= t + n THEN t + n - (r + 1) + 1 ELSE 0
  BY <1>1, <1>4, SubSeqProperties
<1>6. Len(SubSeq(s, r + 1, t + n)) = t + n - r
  BY <1>1, <1>5
<1> QED BY <1>3, <1>5, <1>6

(***************************************************************************)
(* The buffer.                                                             *)
(***************************************************************************)
\* A call that is under way has returned nothing yet, and decodes something.
Pending ==
  /\ pc = "idle" <=> ret # "none"
  /\ pc = "value" => off < Len(buf)

Inv == TypeOK /\ Window /\ Pending

\* What the types and the window say of the numbers.
LEMMA Numbers ==
  ASSUME TypeOK, Window
  PROVE  /\ stream \in Seq(Bytes) /\ Len(stream) \in Nat
         /\ Len(buf) \in 0 .. taken /\ off \in 0 .. Len(buf)
         /\ taken \in 0 .. Len(stream) /\ bytesRead \in 0 .. taken
         /\ bufCap \in Nat /\ MinRead \in Nat \ {0}
         /\ Len(buf) <= bufCap
<1>1. stream \in Seq(Bytes) /\ MinRead \in Nat \ {0}
  BY StreamAssumption DEF TypeOK, Bytes
<1>2. Len(stream) \in Nat /\ Len(buf) \in Nat
  BY <1>1, LenProperties DEF TypeOK
<1>3. /\ off \in 0 .. Len(buf) /\ taken \in 0 .. Len(stream)
      /\ bufCap \in Nat /\ Len(buf) <= bufCap
  BY DEF TypeOK
<1>4. Len(buf) <= taken /\ bytesRead = taken - Len(buf) + off
  BY DEF Window
<1>5. Len(buf) \in 0 .. taken /\ bytesRead \in 0 .. taken
  BY <1>2, <1>3, <1>4
<1> QED BY <1>1, <1>2, <1>3, <1>5

\* What is unread is the part of the stream that starts where the next item does.
LEMMA UnreadOfStream ==
  ASSUME TypeOK, Window
  PROVE  /\ Unread = SubSeq(stream, bytesRead + 1, taken)
         /\ Unread \in Seq(Bytes)
         /\ Len(Unread) = Len(buf) - off
         /\ Len(Unread) = taken - bytesRead
<1>1. buf \in Seq(Bytes) /\ Len(buf) \in 0 .. taken
  BY Numbers DEF TypeOK, Bytes
<1>2. /\ SubSeq(buf, off + 1, Len(buf))
           = SubSeq(stream, taken - Len(buf) + off + 1, taken)
      /\ SubSeq(buf, off + 1, Len(buf)) \in Seq(Bytes)
      /\ Len(SubSeq(buf, off + 1, Len(buf))) = Len(buf) - off
  <2>1. buf = SubSeq(stream, taken - Len(buf) + 1, taken)
    BY DEF Window
  <2>2. stream \in Seq(Bytes) /\ taken \in 0 .. Len(stream) /\ off \in 0 .. Len(buf)
    BY Numbers
  <2> QED BY <1>1, <2>1, <2>2, RestOfWindow
<1>3. bytesRead = taken - Len(buf) + off
  BY DEF Window
<1>4. taken - Len(buf) + off + 1 = bytesRead + 1 /\ Len(buf) - off = taken - bytesRead
  BY <1>3, Numbers
<1> QED BY <1>2, <1>4 DEF Unread

\* Validation of what is unread finds what it would find in the whole stream,
\* unless it is only a part of an item.
LEMMA FoundInStream ==
  ASSUME TypeOK, Window, off < Len(buf)
  PROVE  /\ Found.res \in {"item", "more", "bad"}
         /\ Found.res = "item" => Found.len \in 1 .. Len(buf) - off
         /\ Found.res # "more" =>
              Scan(SubSeq(stream, bytesRead + 1, Len(stream))) = Found
         /\ Found.res = "more" => Len(buf) - off <= MaxPart
         /\ bytesRead < taken
<1>1. /\ bytesRead + 1 \in 1 .. Len(stream) /\ taken \in 1 .. Len(stream)
      /\ bytesRead + 1 <= taken
      /\ taken - (bytesRead + 1) + 1 = Len(buf) - off
      /\ bytesRead < taken
  <2>1. Len(buf) - off = taken - bytesRead
    BY UnreadOfStream
  <2> QED BY <2>1, Numbers
<1>2. Found = Scan(SubSeq(stream, bytesRead + 1, taken))
  BY UnreadOfStream DEF Found
<1>3. stream \in Streams
  BY DEF TypeOK
<1> QED BY <1>1, <1>2, <1>3, ScanAssumption

\* read: growing leaves at least MinRead bytes of room and loses nothing.
LEMMA RoomForRead ==
  ASSUME TypeOK, Window
  PROVE  /\ GrownCap \in Nat /\ Room \in Nat /\ Room >= MinRead
         /\ Len(Unread) + Room = GrownCap
<1>1. Len(Unread) = Len(buf) - off
  BY UnreadOfStream
<1>2. /\ Len(buf) \in Nat /\ off \in 0 .. Len(buf)
      /\ bufCap \in Nat /\ Len(buf) <= bufCap /\ MinRead \in Nat \ {0}
  BY Numbers
<1>3. GrownCap \in Nat /\ GrownCap - (Len(buf) - off) >= MinRead
  BY <1>2 DEF GrownCap
<1> QED BY <1>1, <1>2, <1>3 DEF Room

\* read: the types and the window survive a read of n bytes.
LEMMA ReceiveKeeps ==
  ASSUME TypeOK, Window, NEW n \in 0 .. Room, taken + n <= Len(stream), Receive(n)
  PROVE  /\ stream' \in Streams /\ buf' \in Seq(Bytes)
         /\ bufCap' \in Nat /\ Len(buf') <= bufCap'
         /\ off' = 0 /\ off' \in 0 .. Len(buf')
         /\ taken' \in 0 .. Len(stream')
         /\ Len(buf') = taken' - bytesRead'
         /\ buf' = SubSeq(stream', bytesRead' + 1, taken')
         /\ taken' = taken + n /\ bytesRead' = bytesRead
         /\ Window'
<1>1. /\ n \in Nat /\ n <= Room /\ n \in 0 .. Len(stream) - taken
      /\ GrownCap \in Nat /\ Len(Unread) + Room = GrownCap /\ Room \in Nat
  BY RoomForRead, Numbers
<1>2. /\ Unread = SubSeq(stream, bytesRead + 1, taken)
      /\ Len(Unread) = taken - bytesRead
  BY UnreadOfStream
<1>3. /\ buf' = SubSeq(stream, bytesRead + 1, taken + n)
      /\ buf' \in Seq(Bytes)
      /\ Len(buf') = taken + n - bytesRead
  <2>1. /\ stream \in Seq(Bytes) /\ taken \in 0 .. Len(stream)
        /\ bytesRead \in 0 .. taken
    BY Numbers
  <2>2. buf' = SubSeq(stream, bytesRead + 1, taken) \o SubSeq(stream, taken + 1, taken + n)
    BY <1>2 DEF Receive
  <2> QED BY <1>1, <2>1, <2>2, Refill, SMTT(30)
<1>4. /\ stream' = stream /\ bytesRead' = bytesRead /\ taken' = taken + n
      /\ off' = 0 /\ bufCap' = GrownCap
  BY DEF Receive
<1>5. /\ taken \in Nat /\ bytesRead \in 0 .. taken /\ Len(stream) \in Nat
      /\ stream \in Streams
  <2>1. stream \in Streams
    BY DEF TypeOK
  <2> QED BY <2>1, Numbers
<1>6. /\ Len(buf') \in Nat /\ Len(buf') <= bufCap' /\ Len(buf') <= taken'
      /\ taken' \in 0 .. Len(stream')
  BY <1>1, <1>2, <1>3, <1>4, <1>5
<1>7. /\ taken' - Len(buf') + 1 = bytesRead + 1
      /\ bytesRead' = taken' - Len(buf') + off'
  BY <1>1, <1>3, <1>4, <1>5
<1>8. Window'
  <2>1. buf' = SubSeq(stream', taken' - Len(buf') + 1, taken')
    BY <1>3, <1>4, <1>7
  <2> QED BY <1>6, <1>7, <2>1 DEF Window
<1> QED BY <1>1, <1>3, <1>4, <1>5, <1>6, <1>8

\* NewDecoder.
LEMMA InitInv == Init => Inv
<1> SUFFICES ASSUME Init PROVE Inv
  OBVIOUS
<1>1. stream \in Seq(Bytes) /\ Len(stream) \in Nat
  BY StreamAssumption, LenProperties DEF Init, Bytes
<1>2. buf = <<>> /\ Len(buf) = 0 /\ off = 0 /\ taken = 0 /\ bytesRead = 0
  BY DEF Init
<1>3. SubSeq(stream, taken - Len(buf) + 1, taken) = <<>>
  BY <1>2, SubSeqEmpty
<1>4. TypeOK
  BY <1>1, <1>2 DEF Init, TypeOK
<1>5. Window
  <2>1. Len(buf) <= taken /\ bytesRead = taken - Len(buf) + off
    <3>1. Len(buf) = 0 /\ taken = 0 /\ bytesRead = 0 /\ off = 0
      BY <1>2
    <3> QED BY <3>1
  <2> QED BY <1>2, <1>3, <2>1 DEF Window
<1>6. Pending
  BY DEF Init, Pending
<1> QED BY <1>4, <1>5, <1>6 DEF Inv

\* Decode's first line.
LEMMA DecodeInv == Inv /\ Decode => Inv'
<1> SUFFICES ASSUME Inv, Decode PROVE Inv'
  OBVIOUS
<1>1. Window'
  BY DEF Inv, Decode, Window
<1>2. TypeOK'
  <2>1. pc' \in {"first", "value"} /\ ret' = "none" /\ target' \in BOOLEAN
    BY DEF Decode
  <2> QED BY <2>1 DEF Inv, Decode, TypeOK
<1>3. Pending'
  <2>1. off \in 0 .. Len(buf) /\ Len(buf) \in Nat
    BY Numbers DEF Inv
  <2>2. Len(buf) = off \/ off < Len(buf)
    BY <2>1
  <2>3. pc' # "idle" /\ ret' = "none" /\ buf' = buf /\ off' = off
    BY DEF Decode
  <2>4. pc' = "value" => Len(buf) # off
    BY DEF Decode
  <2> QED BY <2>2, <2>3, <2>4 DEF Pending
<1> QED BY <1>1, <1>2, <1>3 DEF Inv

\* read and what Decode does with its result.
LEMMA ReadInv == Inv /\ Read => Inv'
<1> SUFFICES ASSUME Inv, Read PROVE Inv'
  OBVIOUS
<1>2. Room \in Nat /\ taken \in 0 .. Len(stream) /\ Len(stream) \in Nat
  BY RoomForRead, Numbers DEF Inv
<1>1. ASSUME NEW n \in 0 .. Room, taken + n <= Len(stream), Receive(n),
             pc' \in {"idle", "value"},
             ret' \in {"none", "nil", "read error", "EOF"},
             pc' = "idle" <=> ret' # "none",
             pc' = "value" => n > 0
      PROVE  Inv'
  <2>1. TypeOK /\ Window
    BY DEF Inv
  <2>2. /\ stream' \in Streams /\ buf' \in Seq(Bytes)
        /\ bufCap' \in Nat /\ Len(buf') <= bufCap'
        /\ off' = 0 /\ off' \in 0 .. Len(buf')
        /\ taken' \in 0 .. Len(stream')
        /\ Len(buf') = taken' - bytesRead'
        /\ taken' = taken + n /\ bytesRead' = bytesRead
        /\ Window'
    BY <1>1, <2>1, ReceiveKeeps
  <2>3. began' = began /\ target' = target
    BY <1>1 DEF Receive
  <2>4. TypeOK'
    BY <1>1, <2>1, <2>2, <2>3 DEF TypeOK, Bytes
  <2>5. n > 0 => off' < Len(buf')
    <3>1. bytesRead \in 0 .. taken /\ taken \in Nat
      BY <2>1, Numbers
    <3>2. n \in Nat
      BY <1>2
    <3> QED BY <2>2, <3>1, <3>2
  <2> QED BY <1>1, <2>2, <2>4, <2>5 DEF Inv, Pending
<1>3. ret = "none"
  BY DEF Inv, Pending, Read
<1>4. CASE ReadSome
  <2>1. PICK n \in 1 .. Room : taken + n <= Len(stream) /\ Receive(n)
    BY <1>4 DEF ReadSome
  <2>2. pc' = "value" /\ ret' = "none"
    BY <1>3, <1>4 DEF ReadSome
  <2>3. n \in 0 .. Room /\ n > 0
    BY <1>2
  <2> QED BY <1>1, <2>1, <2>2, <2>3
<1>5. CASE ReadNothing
  <2>1. Receive(0) /\ pc' = "idle" /\ ret' \in {"nil", "read error", "EOF"}
    BY <1>5 DEF ReadNothing, ReadErrors
  <2>2. 0 \in 0 .. Room /\ taken + 0 <= Len(stream)
    BY <1>2
  <2> QED BY <1>1, <2>1, <2>2
<1> QED BY <1>4, <1>5 DEF Read

\* Decoding, or failing to decode, what is in the buffer.
LEMMA ValueInv == Inv /\ Value => Inv'
<1> SUFFICES ASSUME Inv, Value PROVE Inv'
  OBVIOUS
<1>1. /\ stream' = stream /\ buf' = buf /\ bufCap' = bufCap /\ taken' = taken
      /\ target' = target /\ began' = began
      /\ pc = "value" /\ ret = "none" /\ off < Len(buf)
  BY DEF Value, Inv, Pending
<1>2. TypeOK /\ Window
  BY DEF Inv
<1>3. ASSUME off' = off, bytesRead' = bytesRead,
             pc' \in {"idle", "more"},
             ret' \in {"none", "syntax error", "argument error"},
             pc' = "idle" <=> ret' # "none"
      PROVE  Inv'
  <2>1. Window'
    BY <1>1, <1>2, <1>3 DEF Window
  <2>2. TypeOK'
    BY <1>1, <1>2, <1>3 DEF TypeOK
  <2> QED BY <1>3, <2>1, <2>2 DEF Inv, Pending
<1>4. CASE Decoded
  <2>1. Found.res = "item" /\ Found.len \in 1 .. Len(buf) - off
    BY <1>1, <1>2, <1>4, FoundInStream DEF Decoded
  <2>2. off' = off + Found.len /\ bytesRead' = bytesRead + Found.len
    BY <1>4 DEF Decoded, Advance
  <2>3. off' \in 0 .. Len(buf) /\ bytesRead' \in Nat
    BY <1>2, <2>1, <2>2, Numbers, SMTT(30)
  <2>4. /\ pc' \in {"idle", "more"}
        /\ ret' \in {"none", "nil", "type error"}
        /\ pc' = "idle" <=> ret' # "none"
    BY <1>1, <1>4 DEF Decoded
  <2>5. Window'
    <3>1. bytesRead = taken - Len(buf) + off
      BY <1>2 DEF Window
    <3>2. bytesRead' = taken - Len(buf) + off'
      BY <1>2, <2>1, <2>2, <3>1, Numbers, SMTT(30)
    <3> QED BY <1>1, <1>2, <3>2 DEF Window
  <2>6. TypeOK'
    BY <1>1, <1>2, <2>3, <2>4 DEF TypeOK
  <2> QED BY <2>4, <2>5, <2>6 DEF Inv, Pending
<1>5. CASE BadTarget
  BY <1>3, <1>5 DEF BadTarget
<1>6. CASE Incomplete
  BY <1>1, <1>3, <1>6 DEF Incomplete
<1>7. CASE Malformed
  BY <1>3, <1>7 DEF Malformed
<1> QED BY <1>4, <1>5, <1>6, <1>7 DEF Value

\* All three, and steps that change nothing.
LEMMA NextInv == Inv /\ [Next]_vars => Inv'
<1> SUFFICES ASSUME Inv, [Next]_vars PROVE Inv'
  OBVIOUS
<1>1. CASE Decode
  BY <1>1, DecodeInv
<1>2. CASE Read
  BY <1>2, ReadInv
<1>3. CASE Value
  BY <1>3, ValueInv
<1>4. CASE UNCHANGED vars
  BY <1>4 DEF Inv, TypeOK, Window, Pending, vars
<1> QED BY <1>1, <1>2, <1>3, <1>4 DEF Next

LEMMA InvHolds == Spec => []Inv
BY InitInv, NextInv, PTL DEF Spec

\* Decoder: its fields keep their types and ranges, whatever is read and decoded.
THEOREM TypeCorrect == Spec => []TypeOK
<1>1. Inv => TypeOK
  BY DEF Inv
<1> QED BY <1>1, InvHolds, PTL

\* dec.buf, dec.off and dec.bytesRead always describe the same place of the stream,
\* even if an item is passed over.
THEOREM WindowKept == Spec => []Window
<1>1. Inv => Window
  BY DEF Inv
<1> QED BY <1>1, InvHolds, PTL

\* read: the slice offered to the reader has at least minRead bytes.
THEOREM ReadsHaveRoom == Spec => []RoomToRead
<1>1. Inv => RoomToRead
  BY RoomForRead DEF Inv, RoomToRead
<1> QED BY <1>1, InvHolds, PTL

(***************************************************************************)
(* What holds of a reader that never returns no bytes and no error, and of *)
(* values whose UnmarshalCBOR never returns io.ErrUnexpectedEOF.           *)
(***************************************************************************)
Regular == "unexpected" \notin Outcomes /\ ~ZeroReads

\* More is read only if nothing is left, or a part of an item.
PartRead ==
  /\ pc = "first" => off = Len(buf)
  /\ pc = "more" => off < Len(buf) /\ Found.res = "more"

PartInv == Inv /\ PartRead /\ BufferBounded

LEMMA InitPartInv == Init => PartInv
<1> SUFFICES ASSUME Init PROVE PartInv
  OBVIOUS
<1>1. PartRead
  BY DEF Init, PartRead
<1>2. BufferBounded
  BY StreamAssumption DEF Init, BufferBounded
<1> QED BY <1>1, <1>2, InitInv DEF PartInv

LEMMA NextPartInv ==
  ASSUME Regular PROVE PartInv /\ [Next]_vars => PartInv'
<1> SUFFICES ASSUME PartInv, [Next]_vars PROVE PartInv'
  OBVIOUS
<1>1. Inv /\ Inv'
  BY NextInv DEF PartInv
<1>2. TypeOK /\ Window
  BY <1>1 DEF Inv
<1>3. CASE Decode
  <2>1. PartRead'
    <3>1. pc' = "first" => off' = Len(buf')
      BY <1>3 DEF Decode
    <3>2. pc' # "more"
      BY <1>3 DEF Decode
    <3> QED BY <3>1, <3>2 DEF PartRead
  <2>2. BufferBounded'
    BY <1>3 DEF Decode, PartInv, BufferBounded
  <2> QED BY <1>1, <2>1, <2>2 DEF PartInv
<1>4. CASE Read
  <2>1. bufCap' = GrownCap /\ pc' \in {"idle", "value"}
    BY <1>4 DEF Read, ReadSome, ReadNothing, Receive
  <2>2. PartRead'
    BY <2>1 DEF PartRead
  <2>3. Len(buf) - off <= MaxPart
    <3>1. CASE pc = "first"
      BY <1>2, <3>1, Numbers, StreamAssumption DEF PartInv, PartRead
    <3>2. CASE pc = "more"
      BY <1>2, <3>2, FoundInStream DEF PartInv, PartRead
    <3> QED BY <1>4, <3>1, <3>2 DEF Read
  <2>4. GrownCap <= 2 * (MaxPart + MinRead) + MinRead
    <3>1. /\ Len(buf) \in Nat /\ off \in 0 .. Len(buf)
          /\ bufCap \in Nat /\ MinRead \in Nat /\ MaxPart \in Nat
      BY <1>2, Numbers, StreamAssumption
    <3>2. bufCap <= 2 * (MaxPart + MinRead) + MinRead
      BY DEF PartInv, BufferBounded
    <3>3. CASE bufCap - Len(buf) + off < MinRead
      <4>1. bufCap < MaxPart + MinRead
        BY <2>3, <3>1, <3>3
      <4> QED BY <3>1, <3>3, <4>1 DEF GrownCap
    <3> QED BY <3>2, <3>3 DEF GrownCap
  <2> QED BY <1>1, <2>1, <2>2, <2>4 DEF PartInv, BufferBounded
<1>5. CASE Value
  <2>1. /\ buf' = buf /\ bufCap' = bufCap /\ pc = "value" /\ off < Len(buf)
        /\ pc' # "first"
    BY <1>1, <1>5 DEF Value, BadTarget, Incomplete, Malformed, Decoded, Inv, Pending
  <2>2. pc' = "more" => Incomplete
    BY <1>5 DEF Value, BadTarget, Malformed, Decoded, Regular
  <2>3. Incomplete => off' = off /\ Found.res = "more" /\ Found' = Found
    BY <2>1 DEF Incomplete, Found, Unread
  <2>4. PartRead'
    BY <2>1, <2>2, <2>3 DEF PartRead
  <2>5. BufferBounded'
    BY <2>1 DEF PartInv, BufferBounded
  <2> QED BY <1>1, <2>4, <2>5 DEF PartInv
<1>6. CASE UNCHANGED vars
  BY <1>1, <1>6 DEF PartInv, PartRead, BufferBounded, Found, Unread, vars
<1> QED BY <1>3, <1>4, <1>5, <1>6 DEF Next

LEMMA PartInvHolds == ASSUME Regular PROVE Spec => []PartInv
BY InitPartInv, NextPartInv, PTL DEF Spec

\* read: the buffer never grows beyond what the longest item needs.
THEOREM BufferStaysSmall == ASSUME Regular PROVE Spec => []BufferBounded
<1>1. PartInv => BufferBounded
  BY DEF PartInv
<1> QED BY <1>1, PartInvHolds, PTL

(***************************************************************************)
(* The decoder implements the stream of items.                             *)
(***************************************************************************)
\* The decoder and the items start alike.
LEMMA InitItems == Init => Items!Init
BY DEF Init, Items!Init

\* A read that fails, or ends the stream, is an answer the items allow.
LEMMA NoReadStep ==
  ASSUME Regular, PartInv, pc \in {"first", "more"}, ReadNothing
  PROVE  Items!Fail \/ Items!NoItem
<1>1. /\ ret = "none" /\ bytesRead' = bytesRead
  BY DEF PartInv, Inv, Pending, ReadNothing, Receive
<1>2. CASE ret' = "read error"
  BY <1>1, <1>2 DEF Items!Fail
<1>3. CASE ret' = "EOF" /\ taken = Len(stream)
  <2>1. TypeOK /\ Window
    BY DEF PartInv, Inv
  <2>2. CASE pc = "first"
    <3>1. off = Len(buf)
      BY <2>2 DEF PartInv, PartRead
    <3>2. bytesRead = Len(stream)
      BY <1>3, <2>1, <3>1, Numbers DEF Window
    <3> QED BY <1>1, <1>3, <3>2 DEF Items!NoItem
  <2>3. CASE pc = "more"
    <3>1. Found.res = "more"
      BY <2>3 DEF PartInv, PartRead
    <3>2. Found = Items!NextItem
      BY <1>3, <2>1, UnreadOfStream DEF Found, Items!NextItem
    <3> QED BY <1>1, <1>3, <3>1, <3>2 DEF Items!NoItem
  <2> QED BY <2>2, <2>3
<1>4. ret' \in {"read error"} \cup (IF taken = Len(stream) THEN {"EOF"} ELSE {})
  BY DEF ReadNothing, ReadErrors, Regular
<1> QED BY <1>2, <1>3, <1>4

\* What Decode makes of its buffer is what the items say of the stream; while it
\* waits for the rest of an item nothing has happened to them.
LEMMA ValueStep ==
  ASSUME Regular, PartInv, Value
  PROVE  \/ Items!Consume \/ Items!Malformed \/ Items!Fail
         \/ bytesRead' = bytesRead /\ ret' = ret
<1>1. ret = "none" /\ off < Len(buf) /\ TypeOK /\ Window
  BY DEF PartInv, Inv, Pending, Value
<1>2. bytesRead < Len(stream)
  BY <1>1, FoundInStream, Numbers
<1>3. Found.res # "more" => Items!NextItem = Found
  BY <1>1, FoundInStream DEF Items!NextItem
<1>4. CASE BadTarget
  BY <1>1, <1>4 DEF BadTarget, Items!Fail
<1>5. CASE Incomplete
  BY <1>5 DEF Incomplete
<1>6. CASE Malformed
  BY <1>1, <1>2, <1>3, <1>6 DEF Malformed, Items!Malformed
<1>7. CASE Decoded
  <2>1. /\ Found.res = "item" /\ bytesRead' = bytesRead + Found.len
        /\ ret' \in {"nil", "type error"}
    BY <1>7 DEF Decoded, Advance, Regular
  <2>2. Items!NextItem = Found
    BY <1>3, <2>1
  <2> QED BY <1>1, <1>2, <2>1, <2>2 DEF Items!Consume
<1> QED BY <1>4, <1>5, <1>6, <1>7 DEF Value

\* Every step of the decoder is a step of the items, or none.
LEMMA NextItems ==
  ASSUME Regular
  PROVE  PartInv /\ [Next]_vars => [Items!Next]_<<stream, bytesRead, ret>>
<1> SUFFICES ASSUME PartInv, [Next]_vars
             PROVE  Items!Next \/ UNCHANGED <<stream, bytesRead, ret>>
  OBVIOUS
<1>1. CASE Decode
  <2>1. ret # "none"
    BY <1>1 DEF PartInv, Inv, Pending, Decode
  <2> QED BY <1>1, <2>1 DEF Decode, Items!Next, Items!Call
<1>2. CASE Read
  <2>1. stream' = stream
    BY <1>2 DEF Read, ReadSome, ReadNothing, Receive
  <2>2. CASE ReadSome
    BY <2>1, <2>2 DEF ReadSome, Receive
  <2>3. CASE ReadNothing
    BY <1>2, <2>1, <2>3, NoReadStep DEF Read, Items!Next
  <2> QED BY <1>2, <2>2, <2>3 DEF Read
<1>3. CASE Value
  <2>1. stream' = stream
    BY <1>3 DEF Value
  <2> QED BY <1>3, <2>1, ValueStep DEF Items!Next
<1>4. CASE UNCHANGED vars
  BY <1>4 DEF vars
<1> QED BY <1>1, <1>2, <1>3, <1>4 DEF Next

\* Decode: each call consumes the next item of the stream, or says why not, however
\* the bytes arrive and the buffer moves.
THEOREM ImplementsItems == ASSUME Regular PROVE Spec => RefinesItems
<1>1. Init => Items!Init
  BY InitItems
<1>2. PartInv /\ [Next]_vars => [Items!Next]_<<stream, bytesRead, ret>>
  BY NextItems
<1> QED BY <1>1, <1>2, PartInvHolds, PTL DEF Spec, RefinesItems, Items!Spec

(***************************************************************************)
(* What a call that returned no error has done.                            *)
(***************************************************************************)
\* A call that is under way has consumed nothing.
NothingYet == ret = "none" => bytesRead = began

LEMMA InitNil == Init => NothingYet /\ NilDecodesNext
BY DEF Init, NothingYet, NilDecodesNext

LEMMA NextNil ==
  ASSUME Regular
  PROVE  PartInv /\ NothingYet /\ NilDecodesNext /\ [Next]_vars
           => NothingYet' /\ NilDecodesNext'
<1> SUFFICES ASSUME PartInv, NothingYet, NilDecodesNext, [Next]_vars
             PROVE  NothingYet' /\ NilDecodesNext'
  OBVIOUS
<1>1. TypeOK /\ Window
  BY DEF PartInv, Inv
<1>2. bytesRead \in 0 .. Len(stream)
  BY <1>1, Numbers
<1>3. CASE Decode
  BY <1>2, <1>3 DEF Decode, NothingYet, NilDecodesNext
<1>4. CASE Read
  <2>1. stream' = stream /\ began' = began /\ bytesRead' = bytesRead /\ ret = "none"
    BY <1>4 DEF Read, ReadSome, ReadNothing, Receive, PartInv, Inv, Pending
  <2>2. ret' # "nil" /\ ret' # "new"
    BY <1>4, <2>1 DEF Read, ReadSome, ReadNothing, ReadErrors, Regular
  <2> QED BY <2>1, <2>2 DEF NothingYet, NilDecodesNext
<1>5. CASE Value
  <2>1. stream' = stream /\ began' = began /\ ret = "none" /\ bytesRead = began
    BY <1>5 DEF Value, PartInv, Inv, Pending, NothingYet
  <2>2. \/ Items!Consume \/ Items!Malformed \/ Items!Fail
        \/ bytesRead' = bytesRead /\ ret' = ret
    BY <1>5, ValueStep
  <2>3. ret' = "nil" => bytesRead' = bytesRead + Items!NextItem.len
    BY <2>1, <2>2 DEF Items!Consume, Items!Malformed, Items!Fail
  <2>4. ret' = "none" => bytesRead' = bytesRead
    BY <2>1, <2>2 DEF Items!Consume, Items!Malformed, Items!Fail
  <2> QED BY <1>2, <2>1, <2>3, <2>4 DEF NothingYet, NilDecodesNext, Items!NextItem
<1>6. CASE UNCHANGED vars
  BY <1>6 DEF NothingYet, NilDecodesNext, vars
<1> QED BY <1>3, <1>4, <1>5, <1>6 DEF Next

\* Decode: without these two exceptions, a call that returned nil has decoded the
\* item that was next when it was made.
THEOREM NilMeansDecoded == ASSUME Regular PROVE Spec => []NilDecodesNext
BY InitNil, NextNil, PartInvHolds, PTL DEF Spec
=============================================================================
