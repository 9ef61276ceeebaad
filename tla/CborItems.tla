----------------------------- MODULE CborItems -----------------------------
(***************************************************************************)
(* Well-formedness of CBOR data: internal/bech32/cbor/valid.go, and the    *)
(* scanning that decode.go does on data that has passed it.  Data is a     *)
(* sequence of bytes, an offset counts the bytes before it.  Everything    *)
(* that is decoded, whether from a slice or from a stream, is validated    *)
(* first; the rest of the decoder does no bounds checking.                 *)
(***************************************************************************)
EXTENDS Integers, Sequences, SequencesExt

CONSTANTS
  MaxNestedLevels, MaxArrayElements, MaxMapPairs,  \* DecOptions
  IndefForbidden, TagsForbidden,                   \* DecOptions, BOOLEAN
  MaxArg  \* bound: greater arguments are not told apart

ASSUME LimitAssumption ==
  /\ {MaxNestedLevels, MaxArrayElements, MaxMapPairs, MaxArg} \subseteq Nat
  /\ {IndefForbidden, TagsForbidden} \subseteq BOOLEAN

Octet == 0 .. 255

\* Major types.
PosInt == 0
NegInt == 1
ByteString == 2
TextString == 3
Array == 4
Map == 5
Tag == 6
Primitives == 7

Break == 255
Indefinite == 31   \* additional information of an indefinite length

At(s, off) == s[off + 1]
Type(b) == b \div 32
Info(b) == b % 32

\* Bytes of the argument that follow the first byte of a head.
ArgBytes(ai) ==
  CASE ai = 24 -> 1 [] ai = 25 -> 2 [] ai = 26 -> 4 [] ai = 27 -> 8 [] OTHER -> 0

BigEndian(bytes) ==
  LET v[n \in 0 .. Len(bytes)] ==
        IF n = 0 THEN 0
        ELSE LET high == v[n - 1] IN
             IF high > MaxArg THEN high ELSE 256 * high + bytes[n]
  IN v[Len(bytes)]

\* The argument, as an int: -1 if the conversion from uint64 overflows.
Arg(ai, bytes) ==
  IF bytes = <<>> THEN ai
  ELSE IF Len(bytes) = 8 /\ bytes[1] >= 128 THEN -1
  ELSE BigEndian(bytes)

HeadOf(b, off, bytes) ==
  [t |-> Type(b), ai |-> Info(b), val |-> Arg(Info(b), bytes), off |-> off + Len(bytes)]

\* getHead: no bounds checking.
GetHead(s, off) ==
  HeadOf(At(s, off), off + 1, SubSeq(s, off + 2, off + 1 + ArgBytes(Info(At(s, off)))))

(***************************************************************************)
(* valid.go.  A result has the offset after the item, its greatest depth   *)
(* and the error: "EOF" is that of empty data, "UnexpectedEOF" that of     *)
(* data that ends inside an item.                                          *)
(***************************************************************************)
Ok(off, depth) == [off |-> off, depth |-> depth, err |-> "nil"]
Fail(e) == [off |-> 0, depth |-> 0, err |-> e]

HeadError(s, off) ==
  LET room == Len(s) - off
      t  == Type(At(s, off))
      ai == Info(At(s, off))
  IN
  IF room = 0 THEN "UnexpectedEOF"
  ELSE IF room < 1 + ArgBytes(ai) THEN "UnexpectedEOF"
  ELSE IF \/ t = Primitives /\ ai = 24 /\ At(s, off + 1) < 32
          \/ ai = Indefinite /\ t \in {PosInt, NegInt, Tag, Primitives}
          \/ ai \in 28 .. 30
       THEN "syntax"
  ELSE "nil"

\* What is left of an item of type t behind its head: the content of a tag, the
\* chunks of a string or the elements up to a break, n of which have been read,
\* or n elements.
Remainder(t, indef, depth, n) == [t |-> t, indef |-> indef, depth |-> depth, n |-> n]
Remainders == [t : 0 .. 7, indef : BOOLEAN, depth : Nat, n : Nat]

(***************************************************************************)
(* from[off][c] is the result of reading the rest c from off on.  An item  *)
(* takes at least a byte: it is found by what is found behind its head.    *)
(***************************************************************************)
\* Faulty: data that is too short for a string is an error of its own.
ShortString(s, from, h, depth) ==
  IF h.ai = Indefinite THEN from[h.off][Remainder(h.t, TRUE, depth, 0)]
  ELSE IF h.val < 0 \/ Len(s) - h.off < h.val THEN Fail("syntax")
  ELSE Ok(h.off + h.val, depth)

\* validInternal: strings.
ValidString(s, from, h, depth) ==
  IF h.ai = Indefinite
  THEN IF IndefForbidden THEN Fail("indefinite")
       ELSE from[h.off][Remainder(h.t, TRUE, depth, 0)]
  ELSE IF h.val < 0 THEN Fail("overflow")
  ELSE IF Len(s) - h.off < h.val THEN Fail("UnexpectedEOF")
  ELSE Ok(h.off + h.val, depth)

\* validInternal: arrays and maps.
ValidContainer(from, h, depth) ==
  IF depth > MaxNestedLevels THEN Fail("levels")
  ELSE IF h.ai = Indefinite
  THEN IF IndefForbidden THEN Fail("indefinite")
       ELSE from[h.off][Remainder(h.t, TRUE, depth, 0)]
  ELSE IF h.val < 0 THEN Fail("overflow")
  ELSE IF h.val > (IF h.t = Array THEN MaxArrayElements ELSE MaxMapPairs)
       THEN Fail("elements")
  ELSE from[h.off][Remainder(h.t, FALSE, depth, IF h.t = Array THEN h.val ELSE 2 * h.val)]

\* validInternal.
ValidItem(s, from, off, depth) ==
  IF HeadError(s, off) # "nil" THEN Fail(HeadError(s, off))
  ELSE LET h == GetHead(s, off) IN
    CASE h.t \in {ByteString, TextString} -> ValidString(s, from, h, depth)
      [] h.t \in {Array, Map} -> ValidContainer(from, h, depth + 1)
      [] h.t = Tag -> IF TagsForbidden THEN Fail("tags")
                      ELSE from[h.off][Remainder(Tag, FALSE, depth, 0)]
      [] OTHER -> Ok(h.off, depth)

\* The greater depth of an item and of those after it.
Deepest(r, rest) ==
  IF rest.err = "nil" /\ r.depth > rest.depth
  THEN [rest EXCEPT !.depth = r.depth] ELSE rest

ValidItems(s, from, off, c) ==
  IF c.n = 0 THEN Ok(off, c.depth)
  ELSE LET r == ValidItem(s, from, off, c.depth) IN
       IF r.err # "nil" THEN r
       ELSE Deepest(r, from[r.off][[c EXCEPT !.n = c.n - 1]])

\* A tag number has been read: nested tag numbers are scanned, the first one
\* is no level.
ValidTag(s, from, off, c) ==
  IF off = Len(s) THEN Fail("UnexpectedEOF")
  ELSE IF Type(At(s, off)) # Tag THEN ValidItem(s, from, off, c.depth)
  ELSE IF HeadError(s, off) # "nil" THEN Fail(HeadError(s, off))
  ELSE IF c.depth + 1 > MaxNestedLevels THEN Fail("levels")
  ELSE from[GetHead(s, off).off][[c EXCEPT !.depth = c.depth + 1]]

\* validIndefiniteString.
ValidChunks(s, from, off, c) ==
  IF off = Len(s) THEN Fail("UnexpectedEOF")
  ELSE IF At(s, off) = Break THEN Ok(off + 1, c.depth)
  ELSE IF Type(At(s, off)) # c.t \/ Info(At(s, off)) = Indefinite THEN Fail("syntax")
  ELSE LET r == ValidItem(s, from, off, c.depth) IN
       IF r.err # "nil" THEN r ELSE from[r.off][[c EXCEPT !.depth = r.depth]]

\* validIndefiniteArrayOrMap, after i items.
ValidUntilBreak(s, from, off, c) ==
  IF off = Len(s) THEN Fail("UnexpectedEOF")
  ELSE IF At(s, off) = Break
  THEN IF c.t = Map /\ c.n % 2 = 1 THEN Fail("syntax") ELSE Ok(off + 1, c.depth)
  ELSE LET r == ValidItem(s, from, off, c.depth)
           i == c.n + 1
       IN
       IF r.err # "nil" THEN r
       ELSE IF \/ c.t = Array /\ i > MaxArrayElements
               \/ c.t = Map /\ i % 2 = 0 /\ i \div 2 > MaxMapPairs
            THEN Fail("elements")
       ELSE Deepest(r, from[r.off][[c EXCEPT !.n = i]])

ValidRemainder(s, from, off, c) ==
  CASE c.t = Tag -> ValidTag(s, from, off, c)
    [] c.t \in {ByteString, TextString} -> ValidChunks(s, from, off, c)
    [] c.t \in {Array, Map} /\ c.indef -> ValidUntilBreak(s, from, off, c)
    [] OTHER -> ValidItems(s, from, off, c)

ValidFrom(s) ==
  LET from[off \in 0 .. Len(s)] == [c \in Remainders |-> ValidRemainder(s, from, off, c)] IN from

\* valid.
Valid(s) == IF s = <<>> THEN Fail("EOF") ELSE ValidItem(s, ValidFrom(s), 0, 0)

\* What a stream decoder makes of the part of a stream that it has: an item, an
\* error, or that it has to read more.
Scanned(s) ==
  LET v == Valid(s) IN
  CASE v.err = "nil" -> [res |-> "item", len |-> v.off]
    [] v.err = "UnexpectedEOF" -> [res |-> "more", len |-> 0]
    [] OTHER -> [res |-> "bad", len |-> 0]

(***************************************************************************)
(* decode.go: skip.  It assumes that the data is well-formed: what it      *)
(* does if it leaves the data or does not advance is not told apart.       *)
(* from[off][n] is the offset after n items, or after the next break.      *)
(***************************************************************************)
ToBreak == -1
Lost == 0

Behind(s, from, off, next, n) == IF next \in off + 1 .. Len(s) THEN from[next][n] ELSE Lost

\* An item with the head h.
SkipHead(s, from, off, h) ==
  LET After(n) == Behind(s, from, off, h.off, n) IN
  IF h.ai = Indefinite /\ h.t \in {ByteString, TextString, Array, Map} THEN After(ToBreak)
  ELSE CASE h.t \in {ByteString, TextString} -> h.off + h.val
         [] h.t = Array -> After(h.val)
         [] h.t = Map -> After(2 * h.val)
         [] h.t = Tag -> After(1)
         [] OTHER -> h.off

SkipItem(s, from, off) == SkipHead(s, from, off, GetHead(s, off))

SkipItems(s, from, off, n) ==
  IF n = 0 THEN off ELSE Behind(s, from, off, SkipItem(s, from, off), n - 1)

\* Faulty: the break stays.
SkipToBreak(s, from, off) ==
  IF At(s, off) = Break THEN off
  ELSE Behind(s, from, off, SkipItem(s, from, off), ToBreak)

SkipUntilBreak(s, from, off) ==
  IF At(s, off) = Break THEN off + 1
  ELSE Behind(s, from, off, SkipItem(s, from, off), ToBreak)

SkipFrom(s) ==
  LET from[off \in 0 .. Len(s)] ==
        [n \in Nat \cup {ToBreak} |->
          IF n = ToBreak THEN SkipUntilBreak(s, from, off) ELSE SkipItems(s, from, off, n)]
  IN from

Skip(s, off) == SkipFrom(s)[off][1]
=============================================================================
