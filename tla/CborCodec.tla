----------------------------- MODULE CborCodec -----------------------------
(***************************************************************************)
(* An Encoder of stream.go over a writer that may fail: values and the     *)
(* beginnings and ends of indefinite-length items, as its client calls it, *)
(* and what a decoder finds in the bytes that have been written.           *)
(***************************************************************************)
EXTENDS CborEncode

CONSTANTS
  Codecs,    \* pairs of an encoding mode enc and the decoding mode dec
  Orders,    \* the orders a map is iterated in
  Values,    \* the values, with their types, that are encoded alone
  Few,       \* those that are encoded one after another
  MaxCalls   \* bound: how often the encoder is called

VARIABLES
  codec,       \* the modes
  indefTypes,  \* Encoder: the open items, the last one is the innermost
  buf,         \* Encoder.e
  out,         \* what has arrived at the writer
  torn,        \* a write has failed after some bytes
  said,        \* for each open item and, at first, for none: what was said
  last,        \* the last value that was encoded
  calls

vars == <<codec, indefTypes, buf, out, torn, said, last, calls>>

AnyT == [kind |-> "iface"]
Em(order) == codec.enc @@ [order |-> order]
em == Em(CHOOSE order \in Orders : TRUE)
dm == codec.dec

Init ==
  /\ codec \in Codecs
  /\ indefTypes = <<>> /\ buf = <<>> /\ out = <<>> /\ torn = FALSE
  /\ said = <<<<>>>> /\ last = <<>> /\ calls = 0

Decoded(bytes, ty) == Unmarshal(bytes, dm, ty)

\* A writer that takes n bytes of what it is given fails if that is not all.
Took(bytes, n) ==
  /\ out' = out \o SubSeq(bytes, 1, n)
  /\ torn' = (0 < n /\ n < Len(bytes))

Takes(bytes) == {0, Len(bytes)} \cup (IF Len(bytes) > 1 THEN {1} ELSE {})

\* What is said goes to the innermost open item.
Say(stack, v) == [stack EXCEPT ![Len(stack)] = Append(@, v)]

InString == indefTypes # <<>> /\ Last(indefTypes) \in {ByteString, TextString}

IsBytes(ty) ==
  ty.kind = "unmarshaler" \/ (ty.kind \in {"slice", "array"} /\ IsByte(ty.elem))

IsNil(x) == x.ty.kind = "iface" /\ x.v = Nil

\* What does not belong in the open string, as far as its type says.
Refused(x) ==
  /\ InString /\ ~IsNil(x)
  /\ IF Last(indefTypes) = TextString THEN x.ty.kind # "string" ELSE ~IsBytes(x.ty)

\* Faulty: after a failed write the rest is kept.
KeepRest(all, n) == SubSeq(all, n + 1, Len(all))

\* Encoder.e after the writer took n bytes of it: it is reset in any case.
Rest(all, n) == <<>>

Write(x, r, all, n) ==
  /\ IF r.err = "nil" THEN Took(all, n) ELSE UNCHANGED <<out, torn>>
  /\ buf' = IF r.err = "nil" THEN Rest(all, n) ELSE <<>>
  /\ said' = IF r.err = "nil" /\ n = Len(all)
             THEN Say(said, Decoded(r.bytes, AnyT).val) ELSE said

\* Encoder.Encode.
EncodeCall(x) ==
  /\ last' = x
  /\ IF Refused(x) THEN UNCHANGED <<buf, out, torn, said>>
     ELSE LET r == Encode(em, x.ty, x.v) IN
          \E n \in Takes(buf \o r.bytes) : Write(x, r, buf \o r.bytes, n)
  /\ UNCHANGED indefTypes

IndefHead(t) == 32 * t + Indefinite

OpenAfter(t, ok) == IF ok THEN Append(indefTypes, t) ELSE indefTypes

\* startIndefinite.
StartIndefinite(t) ==
  /\ IF em.indefForbidden THEN UNCHANGED <<indefTypes, out, torn, said>>
     ELSE \E n \in {0, 1} :
            /\ Took(<<IndefHead(t)>>, n)
            /\ indefTypes' = OpenAfter(t, n = 1)
            /\ said' = IF n = 1 THEN Append(said, <<>>) ELSE said
  /\ UNCHANGED <<buf, last>>

\* What the items of an indefinite-length item make.
PairsOf(s) == [i \in 1 .. Len(s) \div 2 |-> <<s[2 * i - 1], s[2 * i]>>]

Whole(t, s) ==
  CASE t = Array -> ListV(s)
    [] t = Map -> MapV(FoldLeft(LAMBDA m, p : SetKey(m, WrapKey([dm |-> dm], p[1]), p[2]), {}, PairsOf(s)))
    [] t = ByteString -> <<"bytes", FlattenSeq([i \in DOMAIN s |-> s[i][2]])>>
    [] t = TextString -> <<"string", FlattenSeq([i \in DOMAIN s |-> s[i][2]])>>

Ended(types, stack) == Say(Front(stack), Whole(Last(types), Last(stack)))

\* EndIndefinite.
EndIndefinite ==
  /\ IF indefTypes = <<>> THEN UNCHANGED <<indefTypes, out, torn, said>>
     ELSE \E n \in {0, 1} :
            /\ Took(<<Break>>, n)
            /\ indefTypes' = IF n = 1 THEN Front(indefTypes) ELSE indefTypes
            /\ said' = IF n = 1 THEN Ended(indefTypes, said) ELSE said
  /\ UNCHANGED <<buf, last>>

(***************************************************************************)
(* The client: it ends a map after an element only, does not begin an item *)
(* in a string, puts only strings without a tag into one, gives a map keys *)
(* that can be keys, and does not go on after a part of an item was        *)
(* written.                                                                *)
(***************************************************************************)
HalfPair == indefTypes # <<>> /\ Last(indefTypes) = Map /\ Len(Last(said)) % 2 = 1
OnKey == indefTypes # <<>> /\ Last(indefTypes) = Map /\ Len(Last(said)) % 2 = 0

Chunk(x) == ~IsNil(x) /\ x.v # Nil /\ x.ty.kind # "unmarshaler" /\ EncTagBytes(em, x.ty) = <<>>

Call ==
  \/ \E x \in Few :
       /\ OnKey => x.isKey
       /\ InString => Refused(x) \/ Chunk(x)
       /\ EncodeCall(x)
  \/ \E t \in {ByteString, TextString, Array, Map} : ~InString /\ ~OnKey /\ StartIndefinite(t)
  \/ ~HalfPair /\ EndIndefinite

Alone == calls = 0 /\ \E x \in Values : EncodeCall(x)

Next ==
  /\ calls < MaxCalls /\ ~torn
  /\ \/ Call /\ calls' = calls + 1
     \/ Alone /\ calls' = MaxCalls
  /\ UNCHANGED codec

Spec == Init /\ [][Next]_vars

(***************************************************************************)
(* What is written.                                                        *)
(***************************************************************************)
RECURSIVE Closed(_, _), ItemsIn(_)

\* What was said if the open items ended now.
Closed(types, stack) ==
  IF types = <<>> THEN stack[1] ELSE Closed(Front(types), Ended(types, stack))

After(s, r) == <<Decoded(SubSeq(s, 1, r.off), AnyT).val>> \o ItemsIn(SubSeq(s, r.off + 1, Len(s)))

ItemsIn(s) ==
  IF s = <<>> THEN <<>>
  ELSE IF Valid(s).err # "nil" THEN <<<<"malformed">>>> ELSE After(s, Valid(s))

Closing == [i \in DOMAIN indefTypes |-> Break]

\* Whatever fails, and at whatever moment the client ends what is open, the
\* writer has what was said: a failed call leaves no open item that was not
\* begun and none ended that is open, it leaves nothing in the buffer for the
\* next call to write, and it may be called again.
SaidIsWritten ==
  ~torn /\ ~HalfPair => ItemsIn(out \o Closing) = Closed(indefTypes, said)

(***************************************************************************)
(* Values.                                                                 *)
(***************************************************************************)
Encoded(order) == Encode(Em(order), last.ty, last.v)
Fresh == calls = MaxCalls /\ last \in Values /\ Encode(em, last.ty, last.v).err = "nil"

RightBack(bytes, r) ==
  /\ Valid(bytes) \in {Ok(Len(bytes), depth) : depth \in 0 .. MaxNestedLevels}
  /\ r.err = "nil"
  /\ r.val = last.v

\* A value is encoded to one well-formed item, which is decoded to the value.
\* The values that are not exact are those that a mode may change: NaN,
\* what omitempty leaves out, a pointer to nil.
RoundTrip ==
  Fresh /\ last.exact => \A o \in Orders :
    RightBack(Encoded(o).bytes, Decoded(Encoded(o).bytes, last.ty))

SameBytes(bytes, r) ==
  r.err = "nil" /\ \A o \in Orders : Encode(Em(o), last.ty, r.val).bytes = bytes

\* In a mode that sorts, what was decoded is encoded to the bytes it was
\* decoded from, in whatever order the maps are iterated.
Reencodes ==
  Fresh /\ em.sort # "none" => \A o \in Orders :
    SameBytes(Encoded(o).bytes, Decoded(Encoded(o).bytes, last.ty))

RECURSIVE KeysFrom(_, _, _)
KeysFrom(s, off, n) ==
  IF n = 0 THEN <<>>
  ELSE <<SubSeq(s, off + 1, Skip(s, off))>> \o KeysFrom(s, Skip(s, Skip(s, off)), n - 1)

ContentHead(s) == GetHead(s, TagContent([data |-> s], 0))

KeysOf(s, h) == IF h.t = Map THEN KeysFrom(s, h.off, h.val) ELSE <<>>

\* A struct whose keys are all numbers.
NumbersOnly(ty) == ty.kind = "struct" /\ \A i \in DOMAIN ty.fields : ty.fields[i].asInt

Ascending(keys, ty) ==
  \A i \in 1 .. Len(keys) - 1 :
    IF em.sort = "length" /\ ~NumbersOnly(ty) THEN Shorter(keys[i], keys[i + 1])
    ELSE Bytewise(keys[i], keys[i + 1])

\* The keys of a map are in the order of the mode, and no key is there twice,
\* whether the map was a map or a struct whose fields were sorted beforehand.
\* There is one exception, which SortLengthFirst does not mention: a struct whose
\* keys are all numbers is in bytewise order then too, so 24 precedes -1, which is
\* shorter.  A value of the model has one kind of integer, so a map from
\* interfaces that holds a number twice, as an int8 and as an int64, is not among
\* the values: its keys are encoded alike and stand twice in what is written.
KeysAscend ==
  Fresh /\ em.sort # "none" => \A o \in Orders :
    Ascending(KeysOf(Encoded(o).bytes, ContentHead(Encoded(o).bytes)), last.ty)
=============================================================================
