----------------------------- MODULE CborStream -----------------------------
(***************************************************************************)
(* The stream decoder, internal/bech32/cbor/stream.go.  Decode validates   *)
(* what its buffer holds; if that is only a part of an item it reads more, *)
(* as much as the reader has, and starts over.  Consumed bytes are dropped *)
(* from the buffer before a read, which may also move it to a larger one.  *)
(*                                                                         *)
(* Reads may return any number of bytes, fail, and fail together with the  *)
(* last bytes.  Finding an item is a constant operator here, of which only *)
(* is assumed what ValidationScans of CborItemsProofs proves of valid.go,  *)
(* and that parts of items are bounded.                                    *)
(***************************************************************************)
EXTENDS Integers, Sequences

CONSTANTS
  Streams,    \* what the reader may have, all it will ever deliver
  Scan(_),    \* validation: [res |-> "item", "more" or "bad", len |-> length]
  MaxPart,    \* no part of an item of a stream is longer
  Outcomes,   \* what decoding a valid item may lead to: "ok", "type" (the
              \* item does not fit the value), "unexpected" (a custom
              \* UnmarshalCBOR has returned io.ErrUnexpectedEOF)
  ZeroReads,  \* whether a read may return no bytes and no error
  MinRead     \* 512

ASSUME StreamAssumption ==
  /\ Streams \subseteq Seq(0 .. 255)
  /\ MinRead \in Nat \ {0} /\ MaxPart \in Nat
  /\ ZeroReads \in BOOLEAN
  /\ Outcomes \subseteq {"ok", "type", "unexpected"}

\* What follows a complete item, or an error, does not change it.
ASSUME ScanAssumption ==
  \A s \in Streams : \A i, j \in 1 .. Len(s) : i <= j =>
    LET found == Scan(SubSeq(s, i, j)) IN
    /\ found.res \in {"item", "more", "bad"}
    /\ found.res = "item" => found.len \in 1 .. j - i + 1
    /\ found.res # "more" => Scan(SubSeq(s, i, Len(s))) = found
    /\ found.res = "more" => j - i + 1 <= MaxPart

VARIABLES
  stream,     \* dec.r
  buf,        \* dec.buf
  bufCap,     \* cap(dec.buf)
  off,        \* dec.off: offset of the next item in buf
  bytesRead,  \* dec.bytesRead
  taken,      \* how many bytes the reader has delivered
  target,     \* whether v is a pointer that is not nil
  pc,         \* where the call is; "idle" between calls
  ret,        \* what the last call returned, "none" while one is under way
  began       \* history: bytesRead when the last call was made

vars == <<stream, buf, bufCap, off, bytesRead, taken, target, pc, ret,
          began>>

Init ==
  /\ stream \in Streams
  /\ buf = <<>> /\ bufCap = 0 /\ off = 0
  /\ bytesRead = 0
  /\ taken = 0
  /\ target = TRUE
  /\ pc = "idle"
  /\ ret = "new"
  /\ began = 0

Unread == SubSeq(buf, off + 1, Len(buf))

\* A buffer that has been consumed is filled first.
Decode ==
  /\ pc = "idle"
  /\ pc' = IF Len(buf) = off THEN "first" ELSE "value"
  /\ target' \in BOOLEAN
  /\ ret' = "none"
  /\ began' = bytesRead
  /\ UNCHANGED <<stream, buf, bufCap, off, bytesRead, taken>>

(***************************************************************************)
(* read.                                                                   *)
(***************************************************************************)
\* Faulty: what has been consumed is not counted as room.
GrowEarly ==
  IF bufCap - Len(buf) < MinRead THEN 2 * bufCap + MinRead ELSE bufCap

\* Faulty: a buffer of no capacity keeps it.
GrowTwice == IF bufCap - Len(buf) + off < MinRead THEN 2 * bufCap ELSE bufCap

GrownCap ==
  IF bufCap - Len(buf) + off < MinRead THEN 2 * bufCap + MinRead ELSE bufCap

\* The space offered to the reader.
Room == GrownCap - Len(Unread)

\* Faulty: bytes are moved, the offset is not reset.
ReceiveKeepingOffset(n) ==
  /\ buf' = Unread \o SubSeq(stream, taken + 1, taken + n)
  /\ bufCap' = GrownCap
  /\ taken' = taken + n
  /\ UNCHANGED <<stream, off, bytesRead, target, began>>

\* n bytes arrive behind the unread ones.
Receive(n) ==
  /\ buf' = Unread \o SubSeq(stream, taken + 1, taken + n)
  /\ bufCap' = GrownCap
  /\ off' = 0
  /\ taken' = taken + n
  /\ UNCHANGED <<stream, bytesRead, target, began>>

ReadErrors ==
  {"read error"}
    \cup (IF taken = Len(stream) THEN {"EOF"} ELSE {})
    \cup (IF ZeroReads THEN {"nil"} ELSE {})

\* An error that comes with bytes is dropped, to be met again by the next read.
\* Decode starts over: there is now something to decode.
ReadSome ==
  /\ \E n \in 1 .. Room : taken + n <= Len(stream) /\ Receive(n)
  /\ pc' = "value"
  /\ UNCHANGED ret

\* Faulty: reading is tried again.
RetryRead == Receive(0) /\ UNCHANGED <<pc, ret>>

ReadNothing ==
  /\ Receive(0)
  /\ pc' = "idle"
  /\ ret' \in ReadErrors

Read == pc \in {"first", "more"} /\ (ReadSome \/ ReadNothing)

(***************************************************************************)
(* Decoding what is in the buffer.                                         *)
(***************************************************************************)
Found == Scan(Unread)

\* Faulty: after an item the decoder goes on with what it has just decoded.
AdvanceCount ==
  bytesRead' = bytesRead + Found.len /\ UNCHANGED off

Advance == off' = off + Found.len /\ bytesRead' = bytesRead + Found.len

\* v is looked at first.
BadTarget ==
  /\ ~target
  /\ pc' = "idle" /\ ret' = "argument error"
  /\ UNCHANGED <<off, bytesRead>>

\* Faulty: validation leaves its offset where the data ended.
PartConsumed ==
  /\ target /\ Found.res = "more"
  /\ pc' = "more"
  /\ off' = Len(buf) /\ bytesRead' = taken
  /\ UNCHANGED ret

\* A part of an item: validation restores its offset.
Incomplete ==
  /\ target /\ Found.res = "more"
  /\ pc' = "more"
  /\ UNCHANGED <<off, bytesRead, ret>>

Malformed ==
  /\ target /\ Found.res = "bad"
  /\ pc' = "idle" /\ ret' = "syntax error"
  /\ UNCHANGED <<off, bytesRead>>

\* The offset moves behind the item whether it could be decoded or not, before
\* the error is looked at.
Decoded ==
  /\ target /\ Found.res = "item"
  /\ Advance
  /\ \/ "ok" \in Outcomes /\ pc' = "idle" /\ ret' = "nil"
     \/ "type" \in Outcomes /\ pc' = "idle" /\ ret' = "type error"
     \/ "unexpected" \in Outcomes /\ pc' = "more" /\ UNCHANGED ret

Value ==
  /\ pc = "value"
  /\ BadTarget \/ Incomplete \/ Malformed \/ Decoded
  /\ UNCHANGED <<stream, buf, bufCap, taken, target, began>>

Next == Decode \/ Read \/ Value

\* A call that has started runs on, and the reader's Read returns.
Fairness == WF_vars(Read) /\ WF_vars(Value)

Spec == Init /\ [][Next]_vars /\ Fairness

(***************************************************************************)
(* Properties.                                                             *)
(***************************************************************************)
TypeOK ==
  /\ stream \in Streams
  /\ buf \in Seq(0 .. 255)
  /\ bufCap \in Nat /\ Len(buf) <= bufCap
  /\ off \in 0 .. Len(buf)
  /\ bytesRead \in Nat /\ began \in Nat
  /\ taken \in 0 .. Len(stream)
  /\ target \in BOOLEAN
  /\ pc \in {"idle", "first", "value", "more"}
  /\ ret \in {"new", "none", "nil", "type error", "syntax error", "argument error",
              "read error", "EOF"}

\* The buffer is a window on the stream that ends with the last byte read, and
\* NumBytesRead is the place in the stream where the next item is looked for,
\* through all moves, growths, partial reads and errors.
Window ==
  /\ Len(buf) <= taken
  /\ buf = SubSeq(stream, taken - Len(buf) + 1, taken)
  /\ bytesRead = taken - Len(buf) + off

\* A read offers the reader at least MinRead bytes of room, never an empty slice,
\* from which every reader returns nothing.
RoomToRead == pc \in {"first", "more"} => Room >= MinRead

\* The buffer stays within what the longest item takes, however many items pass
\* through it.
BufferBounded == bufCap <= 2 * (MaxPart + MinRead) + MinRead

\* Decoding in parts is decoding the stream: the items are those of the stream as
\* a whole, each consumed by one call, and a failed read loses nothing.
Items == INSTANCE ItemStream WITH pos <- bytesRead

RefinesItems == Items!Spec

\* Every call returns, whatever the reader does.
EveryCallReturns == pc # "idle" ~> pc = "idle"

(***************************************************************************)
(* A promise of the source that the code does not keep.                    *)
(***************************************************************************)
\* "Decode reads CBOR value and decodes it into the value pointed to by v": a call
\* that returned no error has consumed the item that was next when it was made, and
\* no other.  But an item whose UnmarshalCBOR has returned io.ErrUnexpectedEOF is
\* passed over, its error dropped and the item after it decoded instead; and if the
\* reader returns no bytes and no error, nothing is decoded.
NilDecodesNext ==
  ret = "nil" =>
    bytesRead = began + Scan(SubSeq(stream, began + 1, Len(stream))).len
=============================================================================
