----------------------------- MODULE ItemStream -----------------------------
(***************************************************************************)
(* What decoding a stream promises, however its bytes arrive: each call    *)
(* delivers the next item of the stream or says why not.  No item is lost, *)
(* delivered twice or put together from parts of others, a call that fails *)
(* to read changes nothing, and the end of the stream is reported only     *)
(* where no item follows.                                                  *)
(***************************************************************************)
EXTENDS Naturals, Sequences

CONSTANTS
  Streams,  \* the streams there may be, with all they will ever deliver
  Scan(_)   \* finds the item at the start of a sequence of bytes

VARIABLES
  stream,
  pos,   \* how many bytes belong to items already consumed
  ret    \* result of the last call, "none" while one is under way

\* The item after pos, looking at everything that will ever arrive.
NextItem == Scan(SubSeq(stream, pos + 1, Len(stream)))

Init == stream \in Streams /\ pos = 0 /\ ret = "new"

Call == ret # "none" /\ ret' = "none" /\ UNCHANGED pos

\* The item is consumed: decoded, or found not to fit the value given.
Consume ==
  /\ ret = "none"
  /\ pos < Len(stream) /\ NextItem.res = "item"
  /\ pos' = pos + NextItem.len
  /\ ret' \in {"nil", "type error"}

Malformed ==
  /\ ret = "none"
  /\ pos < Len(stream) /\ NextItem.res = "bad"
  /\ ret' = "syntax error"
  /\ UNCHANGED pos

NoItem ==
  /\ ret = "none"
  /\ pos = Len(stream) \/ NextItem.res = "more"
  /\ ret' = "EOF"
  /\ UNCHANGED pos

\* The reader fails, or there is nothing to decode into.
Fail ==
  /\ ret = "none"
  /\ ret' \in {"read error", "argument error"}
  /\ UNCHANGED pos

Next ==
  /\ Call \/ Consume \/ Malformed \/ NoItem \/ Fail
  /\ UNCHANGED stream

Spec == Init /\ [][Next]_<<stream, pos, ret>>
=============================================================================
