----------------------------- MODULE CborDecode -----------------------------
(***************************************************************************)
(* Decoding of well-formed CBOR data into Go values: parse, parseToValue   *)
(* and what they call in internal/bech32/cbor/decode.go.                   *)
(*                                                                         *)
(* A decoder d is its data and its mode dm.  A Go type is a record with    *)
(* its kind: "int" and "uint" (with the greatest value, max), "float",     *)
(* "bool", "string", "bigint", "tag" and "rawtag" (cbor.Tag, cbor.RawTag), *)
(* "time", "unmarshaler" (cbor.RawMessage), "iface" (the empty interface), *)
(* "bytestring", "binary" (one that unmarshals itself from bytes), "ptr"   *)
(* and "slice" (with elem), "array" (len, elem), "map" (key, elem) and     *)
(* "struct" (bad, toArray, fields).                                        *)
(* A Go value is a tuple that starts with its kind; a map is a set of      *)
(* pairs.                                                                  *)
(* A result is the offset behind what was consumed, the error, and what    *)
(* the destination was set to: Left if it was left as it was.  Before, the *)
(* destination held cur; the capacity of a slice is its length.            *)
(***************************************************************************)
EXTENDS CborItems, CborFloats, FiniteSets

SelfDescribed == 55799

R(off, err, val) == [off |-> off, err |-> err, val |-> val]

Left == <<"left">>
Nil == <<"nil">>
IntV(n) == <<"int", n>>
\* An argument above the greatest int64 is -1; they are not told apart.
UintV(n) == IF n < 0 THEN <<"uint64">> ELSE IntV(n)
ListV(s) == <<"list", s>>
MapV(m) == <<"map", m>>

\* The first error is the one that is returned.
First(err, next) == IF err = "nil" THEN next ELSE err

\* The field of a struct that a nil pointer embeds.
Absent == <<"absent">>

RECURSIVE Zero(_)

Zero(ty) ==
  CASE ty.kind \in {"int", "uint"} -> IntV(0)
    [] ty.kind = "array" -> ListV([i \in 1 .. ty.len |-> Zero(ty.elem)])
    [] ty.kind = "struct" ->
         <<"struct", [i \in DOMAIN ty.fields |->
                        IF ty.fields[i].viaPtr THEN Absent ELSE Zero(ty.fields[i].ty)]>>
    [] ty.kind \in {"slice", "map", "ptr", "iface"} -> Nil
    [] ty.kind = "bool" -> <<"bool", FALSE>>
    [] ty.kind \in {"string", "bytestring", "binary"} -> <<ty.kind, <<>>>>
    [] ty.kind = "float" -> <<"float", PlusZero>>
    [] ty.kind = "bigint" -> <<"bigint", 2, <<>>>>
    [] OTHER -> <<ty.kind>>

Immutable(ty) == ty.kind \in {"int", "uint", "float", "bool", "string"}

\* What a destination holds after it was set to val; before, it held cur.
Or(val, cur) == IF val = Left THEN cur ELSE val
Held(r, ty) == [r EXCEPT !.val = Or(@, Zero(ty))]

(***************************************************************************)
(* Filling a destination from a decoded item.                              *)
(***************************************************************************)
Fails(off, err) == R(off, err, Left)

\* The bytes of a big number, without zeros in front; eight of 255 stand for
\* those above the greatest int64.
Significant(b) == SelectInSeq(b, LAMBDA c : c > 0)
Stripped(b) == IF Significant(b) = 0 THEN <<>> ELSE SubSeq(b, Significant(b), Len(b))
BigBytes(n) ==
  IF n < 0 THEN [i \in 1 .. 8 |-> 255]
  ELSE Stripped(<<n \div 16777216, (n \div 65536) % 256, (n \div 256) % 256, n % 256>>)

\* Numbers above MaxArg are one; a max of MaxArg + 1 stands for 64 bits.
FillPositiveInt(off, n, ty) ==
  CASE ty.kind = "int" /\ 0 <= n /\ n <= ty.max -> R(off, "nil", IntV(n))
    [] ty.kind = "uint" /\ (ty.max > MaxArg \/ (0 <= n /\ n <= ty.max)) ->
         R(off, "nil", UintV(n))
    [] ty.kind = "float" -> R(off, "nil", <<"float", FloatOfInt(0, n)>>)
    [] ty.kind = "bigint" -> R(off, "nil", <<"bigint", 2, BigBytes(n)>>)
    [] OTHER -> Fails(off, "type")

\* The number is -1 - n; n < 0 is a number below the least int64.
FillNegativeInt(off, n, ty) ==
  CASE ty.kind = "int" /\ 0 <= n /\ n <= ty.max -> R(off, "nil", IntV(-1 - n))
    [] ty.kind = "bigint" -> R(off, "nil", <<"bigint", 3, BigBytes(n)>>)
    [] ty.kind = "float" /\ n >= 0 -> R(off, "nil", <<"float", FloatOfInt(1, n + 1)>>)
    [] OTHER -> Fails(off, "type")

FillInt(pos, off, n, ty) ==
  IF pos THEN FillPositiveInt(off, n, ty) ELSE FillNegativeInt(off, n, ty)

FillNil(off, ty) ==
  R(off, "nil", IF ty.kind \in {"slice", "map", "iface", "ptr"} THEN Nil ELSE Left)

FillAs(kind, off, val, ty) ==
  IF ty.kind = kind THEN R(off, "nil", val) ELSE Fails(off, "type")

IsByte(ty) == ty.kind = "uint" /\ ty.max = 255

FillByteString(off, b, ty) ==
  CASE ty.kind = "slice" /\ IsByte(ty.elem) ->
         R(off, "nil", ListV([i \in DOMAIN b |-> IntV(b[i])]))
    [] ty.kind = "binary" -> R(off, "nil", <<"binary", b>>)
    [] ty.kind = "array" /\ IsByte(ty.elem) ->
         R(off, "nil", ListV([i \in 1 .. ty.len |->
                                IF i <= Len(b) THEN IntV(b[i]) ELSE IntV(0)]))
    [] OTHER -> Fails(off, "type")

\* A byte string; the one in the case of tags 2 and 3 is none for a ByteString.
FillBytes(r, ty) ==
  IF ty.kind = "bytestring" THEN R(r.off, "nil", <<"bytestring", r.val>>)
  ELSE FillByteString(r.off, r.val, ty)

(***************************************************************************)
(* Strings.                                                                *)
(***************************************************************************)
RECURSIVE Chunks(_, _), BadChunk(_, _), CountItems(_, _), StripHead(_, _, _), NumsFrom(_, _)

ChunkAt(s, h) == SubSeq(s, h.off + 1, h.off + h.val) \o Chunks(s, h.off + h.val)

Chunks(s, off) == IF At(s, off) = Break THEN <<>> ELSE ChunkAt(s, GetHead(s, off))

\* unicode/utf8: the data of the runs has no longer sequences than one byte.
ValidUtf8(b) == \A i \in DOMAIN b : b[i] < 128

BadAt(s, h) ==
  \/ ~ValidUtf8(SubSeq(s, h.off + 1, h.off + h.val))
  \/ BadChunk(s, h.off + h.val)

\* Some chunk is no UTF-8 by itself.
BadChunk(s, off) == At(s, off) # Break /\ BadAt(s, GetHead(s, off))

StringOf(d, h) ==
  IF h.ai = Indefinite
  THEN R(SkipFrom(d.data)[h.off][ToBreak], "nil", Chunks(d.data, h.off))
  ELSE R(h.off + h.val, "nil", SubSeq(d.data, h.off + 1, h.off + h.val))

ParseByteString(d, off) == StringOf(d, GetHead(d.data, off))

TextOf(d, h, r) ==
  IF IF h.ai = Indefinite THEN BadChunk(d.data, h.off) ELSE ~ValidUtf8(r.val)
  THEN R(r.off, "utf8", <<>>) ELSE r

ParseTextString(d, off) == TextOf(d, GetHead(d.data, off), ParseByteString(d, off))

(***************************************************************************)
(* Tags.                                                                   *)
(***************************************************************************)
NilAt(d, off) == At(d.data, off) \in {246, 247}

StripHead(d, off, h) ==
  IF h.t = Tag /\ h.val = SelfDescribed THEN StripHead(d, h.off, GetHead(d.data, h.off))
  ELSE off

\* Tags of the number 55799, which only says that this is CBOR, are passed over.
StripSelf(d, off) == StripHead(d, off, GetHead(d.data, off))

NumsFrom(d, h) ==
  IF h.t # Tag THEN <<>> ELSE <<h.val>> \o NumsFrom(d, GetHead(d.data, h.off))

\* The tag numbers at off, and the offset of their content.
TagNums(d, off) == NumsFrom(d, GetHead(d.data, off))

RECURSIVE ContentOff(_, _, _)
ContentOff(d, off, h) ==
  IF h.t # Tag THEN off ELSE ContentOff(d, h.off, GetHead(d.data, h.off))

TagContent(d, off) == ContentOff(d, off, GetHead(d.data, off))

\* validBuiltinTag: the first byte of the content does not fit.
BadTag(num, c) ==
  CASE num = 0 -> Type(c) # TextString
    [] num = 1 -> Type(c) \notin {PosInt, NegInt} /\ c \notin 249 .. 251
    [] num \in {2, 3} -> Type(c) # ByteString
    [] OTHER -> FALSE

BadHead(d, h) == h.t = Tag /\ BadTag(h.val, At(d.data, h.off))

BadBuiltin(d, off) == BadHead(d, GetHead(d.data, off))

\* Registered tags are a set of items with a type, its tag numbers and whether
\* they are required when decoding.
ItemOfType(d, ty) == {i \in d.dm.tags : i.ty = ty}
ItemOfNums(d, nums) == {i \in d.dm.tags : i.nums = nums}
TheItem(items) == CHOOSE i \in items : TRUE

(***************************************************************************)
(* Containers: where a loop over the items of one is, and where it ends.   *)
(***************************************************************************)
CountItems(s, off) == IF At(s, off) = Break THEN 0 ELSE 1 + CountItems(s, Skip(s, off))

Count(d, h) == IF h.ai = Indefinite THEN CountItems(d.data, h.off) ELSE h.val

AtEnd(d, off, h, i) ==
  IF h.ai = Indefinite THEN At(d.data, off) = Break ELSE i >= h.val

EndOff(off, h) == IF h.ai = Indefinite THEN off + 1 ELSE off

\* Faulty: as many items are skipped as there are pairs.
SkipSome(d, off, h, i) ==
  SkipFrom(d.data)[off][IF h.ai = Indefinite THEN ToBreak ELSE h.val - i]

\* The rest of a map is skipped from its i-th pair on.
SkipPairs(d, off, h, i) ==
  SkipFrom(d.data)[off][IF h.ai = Indefinite THEN ToBreak ELSE 2 * (h.val - i)]

SetKey(m, k, e) == {p \in m : p[1] # k} \cup {<<k, e>>}
Keys(m) == {p[1] : p \in m}

(***************************************************************************)
(* A Go map that is filled: its entries, how many there were after the     *)
(* pair before (keyCount), and the keys it held at first that have not     *)
(* been set since (existingKeys).  A pair is stored first; that the map    *)
(* has not grown tells that its key was there.                             *)
(***************************************************************************)
Filling(m) == [map |-> m, count |-> Cardinality(m), held |-> Keys(m)]

\* Faulty: a key that was held at first stays so after it was set.
StoreAgain(st, key, e) ==
  LET m == SetKey(st.map, key, e) IN [st EXCEPT !.map = m, !.count = Cardinality(m)]

Store(st, key, e) ==
  LET m == SetKey(st.map, key, e) IN
  [map |-> m, count |-> Cardinality(m),
   held |-> IF Cardinality(m) = st.count THEN st.held \ {key} ELSE st.held]

\* Faulty: any key that was there is a duplicate.
NotGrown(st, key) == Cardinality(SetKey(st.map, key, Nil)) = st.count

IsDup(st, key) == Cardinality(SetKey(st.map, key, Nil)) = st.count /\ key \notin st.held

NoPair == <<Nil, Nil>>

RECURSIVE Hashable(_)

Hashable(v) ==
  /\ v[1] \notin {"bytes", "list", "map", "bigint"}
  /\ v[1] = "tag" => Hashable(v[3])

\* A byte string as a key of an interface type.
WrapKey(d, k) ==
  IF k[1] = "bytes" /\ d.dm.wrapKeys THEN <<"bytestring", k[2]>> ELSE k

(***************************************************************************)
(* Decoding into the empty interface.                                      *)
(***************************************************************************)
RECURSIVE ParseToValue(_, _, _, _)

\* parse is parseToValue to a destination of this type.
ItemT == [kind |-> "item"]
Parse(d, off, strip) == ParseToValue(d, IF strip THEN StripSelf(d, off) ELSE off, ItemT, Nil)

\* Into a new destination.
ParseNew(d, off, ty) == Held(ParseToValue(d, off, ty, Zero(ty)), ty)

\* Integers, simple values and floats.
ParsePrimitive(d, off, h) ==
  CASE h.ai < 20 \/ h.ai = 24 -> R(h.off, "nil", IntV(h.val))
    [] h.ai \in {20, 21} -> R(h.off, "nil", <<"bool", h.ai = 21>>)
    [] h.ai \in {22, 23} -> R(h.off, "nil", Nil)
    [] OTHER -> R(h.off, "nil", <<"float", FloatOf(SubSeq(d.data, off + 2, h.off))>>)

As(kind, r) == [r EXCEPT !.val = IF r.err = "nil" THEN <<kind, @>> ELSE Nil]

AsType(ty, r) ==
  [r EXCEPT !.val = IF r.err = "nil" THEN <<"registered", ty, @>> ELSE Nil]

Tagged(num, r) == [r EXCEPT !.val = IF r.err = "nil" THEN <<"tag", num, @>> ELSE Nil]

\* parseArray: a failed element stays nil.
RECURSIVE ParseArray(_, _, _, _, _, _)

\* The element that was read to e.
ArrayElem(d, e, h, i, vals, err) ==
  ParseArray(d, e.off, h, i + 1, Append(vals, IF e.err = "nil" THEN e.val ELSE Nil),
             First(err, e.err))

ParseArray(d, off, h, i, vals, err) ==
  IF AtEnd(d, off, h, i) THEN R(EndOff(off, h), err, ListV(vals))
  ELSE ArrayElem(d, Parse(d, off, TRUE), h, i, vals, err)

\* parseMap: a pair of which something failed is left out.
RECURSIVE ParseMap(_, _, _, _, _, _)

\* Faulty: a failed element leaves its key with nil.
PairOrNil(d, key, e, h, i, st, err) ==
  ParseMap(d, e.off, h, i + 1, Store(st, key, IF e.err = "nil" THEN e.val ELSE Nil), err)

\* The pair of the key that was read to k and the element that was read to e.
MapPair(d, key, e, h, i, st, err) ==
  IF e.err = "nil" /\ d.dm.noDups /\ IsDup(st, key)
  THEN R(SkipPairs(d, e.off, h, i + 1), "dup", MapV(SetKey(st.map, key, Nil)))
  ELSE ParseMap(d, e.off, h, i + 1,
                IF e.err = "nil" THEN Store(st, key, e.val) ELSE st, First(err, e.err))

MapElem(d, k, h, i, st, err) ==
  IF k.err # "nil" \/ ~Hashable(WrapKey(d, k.val))
  THEN ParseMap(d, Skip(d.data, k.off), h, i + 1, st,
                First(err, IF k.err # "nil" THEN k.err ELSE "key"))
  ELSE MapPair(d, WrapKey(d, k.val), Parse(d, k.off, TRUE), h, i, st, err)

ParseMap(d, off, h, i, st, err) ==
  IF AtEnd(d, off, h, i) THEN R(EndOff(off, h), err, MapV(st.map))
  ELSE MapElem(d, Parse(d, off, TRUE), h, i, st, err)

\* time: no text of the runs is a date.
TimeOf(c) ==
  CASE c.err # "nil" -> Fails(c.off, c.err)
    [] c.err = "nil" /\ c.val[1] = "string" -> Fails(c.off, "date")
    [] c.err = "nil" /\ c.val[1] \in {"int", "float"} -> R(c.off, "nil", <<"time", c.val>>)
    [] c.err = "nil" /\ c.val[1] = "nil" -> R(c.off, "nil", <<"time">>)
    [] OTHER -> Fails(c.off, "type")

TimeAt(d, off, h) ==
  CASE h.t = Tag /\ d.dm.timeTag # "ignored" /\ h.val \notin {0, 1} ->
         Fails(Skip(d.data, h.off), "tag")
    [] h.t # Tag /\ d.dm.timeTag = "required" -> Fails(Skip(d.data, off), "type")
    [] OTHER ->
         TimeOf(Parse(d, IF h.t = Tag /\ d.dm.timeTag # "ignored" THEN h.off
                         ELSE TagContent(d, off), FALSE))

\* parseToTime.
ParseToTime(d, off) == TimeAt(d, off, GetHead(d.data, off))

BigOf(num, b) == R(b.off, "nil", <<"bigint", num, Stripped(b.val)>>)

\* A value of a registered type, of one of the items.
ParseTagged(d, off, item) ==
  AsType(item.ty, ParseNew(d, off, item.ty))

\* parse, a tag: the built-in ones, a registered one, any other.
ParseTag(d, off, h, items) ==
  CASE h.val \in {0, 1} -> Held(ParseToTime(d, off), [kind |-> "time"])
    [] h.val \in {2, 3} -> BigOf(h.val, ParseByteString(d, h.off))
    [] h.val > 3 /\ items # {} -> ParseTagged(d, off, TheItem(items))
    [] OTHER -> Tagged(h.val, Parse(d, h.off, FALSE))

\* parse.
ParseItem(d, off, h) ==
  CASE BadHead(d, h) -> R(Skip(d.data, h.off), "builtin", Nil)
    [] h.t = PosInt ->
         IF d.dm.signed /\ h.val < 0 THEN R(h.off, "type", Nil)
         ELSE R(h.off, "nil", UintV(h.val))
    [] h.t = NegInt ->
         R(h.off, "nil", IF h.val < 0 THEN <<"bigint", 3, BigBytes(h.val)>> ELSE IntV(-1 - h.val))
    [] h.t = ByteString -> As("bytes", StringOf(d, h))
    [] h.t = TextString -> As("string", ParseTextString(d, off))
    [] h.t = Tag /\ ~BadHead(d, h) -> ParseTag(d, off, h, ItemOfNums(d, TagNums(d, off)))
    [] h.t = Primitives -> ParsePrimitive(d, off, h)
    [] h.t = Array -> ParseArray(d, h.off, h, 0, <<>>, "nil")
    [] h.t = Map -> ParseMap(d, h.off, h, 0, Filling({}), "nil")

(***************************************************************************)
(* Decoding into a type.                                                   *)
(***************************************************************************)
\* Destinations that decide themselves what to do with an item.
Special(ty) == ty.kind \in {"iface", "tag", "time", "unmarshaler", "rawtag"}

\* An interface is set to what was decoded, in part if there was an error, and
\* left alone if that is nil.
SetIface(r) == [r EXCEPT !.val = IF @ = Nil THEN Left ELSE @]

OnSuccess(r) == [r EXCEPT !.val = IF r.err = "nil" THEN @ ELSE Left]

\* parseToTag.
ParseToTag(d, off, h) ==
  CASE NilAt(d, off) -> R(h.off, "nil", Left)
    [] h.t = Tag -> OnSuccess(Tagged(h.val, Parse(d, h.off, FALSE)))
    [] OTHER -> Fails(Skip(d.data, off), "type")

\* parseToUnmarshaler: the method of the type is given the item.
ParseToUnmarshaler(d, off, end) ==
  R(end, "nil", <<"unmarshaler", SubSeq(d.data, off + 1, end)>>)

\* RawTag.UnmarshalCBOR.
RawTagOf(d, off, h, end) ==
  CASE NilAt(d, off) -> R(end, "nil", Left)
    [] h.t = Tag -> R(end, "nil", <<"rawtag", h.val, SubSeq(d.data, h.off + 1, end)>>)
    [] OTHER -> Fails(end, "type")

ParseSpecial(d, off, ty) ==
  CASE ty.kind = "iface" -> SetIface(Parse(d, off, FALSE))
    [] ty.kind = "tag" -> ParseToTag(d, off, GetHead(d.data, off))
    [] ty.kind = "time" ->
         IF NilAt(d, off) THEN R(off + 1, "nil", Left) ELSE ParseToTime(d, off)
    [] ty.kind = "unmarshaler" -> ParseToUnmarshaler(d, off, Skip(d.data, off))
    [] ty.kind = "rawtag" -> RawTagOf(d, off, GetHead(d.data, off), Skip(d.data, off))

\* IsUint64 of a big number n, and IsInt64 of -1 - n.
IsWord(num, b) == Len(b) < 8 \/ (Len(b) = 8 /\ (num = 2 \/ b[1] < 128))

\* The argument that the bytes of a big number are, if it has 64 bits.
ArgOf(b) == IF Len(b) = 8 /\ b[1] >= 128 THEN -1 ELSE BigEndian(b)

\* Tags 2 and 3: a big number that fits may become an integer.
ParseBignum(num, b, ty) ==
  CASE ty.kind = "bigint" -> BigOf(num, b)
    [] ty.kind \in {"slice", "array"} -> FillByteString(b.off, b.val, ty)
    [] OTHER -> IF IsWord(num, Stripped(b.val))
                THEN FillInt(num = 2, b.off, ArgOf(Stripped(b.val)), ty)
                ELSE Fails(b.off, "type")

FillPrimitive(p, ty) ==
  CASE p.val[1] = "int" -> FillPositiveInt(p.off, p.val[2], ty)
    [] p.val[1] \in {"bool", "float"} -> FillAs(p.val[1], p.off, p.val, ty)
    [] p.val = Nil -> FillNil(p.off, ty)

FillTextString(r, ty) ==
  IF r.err # "nil" THEN Fails(r.off, r.err)
  ELSE FillAs("string", r.off, <<"string", r.val>>, ty)

\* parseArrayToSlice: a slice of n elements, a new one if cur has no room.
SliceOfLen(n, ty, cur) ==
  IF cur = Nil \/ Len(cur[2]) < n THEN [i \in 1 .. n |-> Zero(ty.elem)] ELSE SubSeq(cur[2], 1, n)

RECURSIVE ParseArrayToSlice(_, _, _, _, _, _, _)

SliceElem(d, e, h, i, ty, vals, err) ==
  ParseArrayToSlice(d, e.off, h, i + 1, ty, [vals EXCEPT ![i + 1] = Or(e.val, @)],
                    First(err, e.err))

ParseArrayToSlice(d, off, h, i, ty, vals, err) ==
  IF AtEnd(d, off, h, i) THEN R(EndOff(off, h), err, ListV(vals))
  ELSE SliceElem(d, ParseToValue(d, off, ty.elem, vals[i + 1]), h, i, ty, vals, err)

\* parseArrayToArray: what is too much is skipped, what is missing is zero.
RECURSIVE ParseArrayToArray(_, _, _, _, _, _, _)

ArrayToArrayElem(d, e, h, i, ty, vals, err) ==
  ParseArrayToArray(d, e.off, h, i + 1, ty,
                    IF i < ty.len THEN [vals EXCEPT ![i + 1] = Or(e.val, @)] ELSE vals,
                    First(err, e.err))

ParseArrayToArray(d, off, h, i, ty, vals, err) ==
  IF AtEnd(d, off, h, i)
  THEN R(EndOff(off, h), err,
         ListV([j \in 1 .. ty.len |-> IF j <= i THEN vals[j] ELSE Zero(ty.elem)]))
  ELSE ArrayToArrayElem(d, IF i < ty.len THEN ParseToValue(d, off, ty.elem, vals[i + 1])
                           ELSE R(Skip(d.data, off), "nil", Left), h, i, ty, vals, err)

\* Faulty: the destination of an element is that of the pair before.
ReuseAlways(ty, before) == IF before = Nil THEN Zero(ty) ELSE before

\* What the destination of a key or an element holds: before is that of the
\* pair before, Nil if there is none.
Reuse(ty, before) ==
  IF Immutable(ty) /\ before # Nil THEN before ELSE Zero(ty)

\* parseMapToMap.  last holds the destinations of the pair before.
RECURSIVE ParseMapToMap(_, _, _, _, _, _, _, _)

\* The pair of key and the element that was read to elem, with the result e.
MapToMapPair(d, key, e, elem, h, i, ty, st, err) ==
  IF e.err = "nil" /\ d.dm.noDups /\ IsDup(st, key)
  THEN R(SkipPairs(d, e.off, h, i + 1), "dup", MapV(SetKey(st.map, key, Zero(ty.elem))))
  ELSE ParseMapToMap(d, e.off, h, i + 1, ty,
                     IF e.err = "nil" THEN Store(st, key, elem) ELSE st,
                     <<key, elem>>, First(err, e.err))

ElemRead(d, key, e, cur, h, i, ty, st, err) ==
  MapToMapPair(d, key, e, Or(e.val, cur), h, i, ty, st, err)

ReadElem(d, key, off, cur, h, i, ty, st, err) ==
  ElemRead(d, key, ParseToValue(d, off, ty.elem, cur), cur, h, i, ty, st, err)

\* The key that was read to key, with the result k.
MapToMapElem(d, k, key, h, i, ty, st, last, err) ==
  IF k.err # "nil" \/ (ty.key.kind = "iface" /\ ~Hashable(key))
  THEN ParseMapToMap(d, Skip(d.data, k.off), h, i + 1, ty, st, <<key, last[2]>>,
                     First(err, IF k.err # "nil" THEN k.err ELSE "key"))
  ELSE ReadElem(d, key, k.off, Reuse(ty.elem, last[2]), h, i, ty, st, err)

KeyFrom(d, ty, read) == IF ty.kind = "iface" THEN WrapKey(d, read) ELSE read

KeyRead(d, k, cur, h, i, ty, st, last, err) ==
  MapToMapElem(d, k, KeyFrom(d, ty.key, Or(k.val, cur)), h, i, ty, st, last, err)

ReadKey(d, off, cur, h, i, ty, st, last, err) ==
  KeyRead(d, ParseToValue(d, off, ty.key, cur), cur, h, i, ty, st, last, err)

ParseMapToMap(d, off, h, i, ty, st, last, err) ==
  IF AtEnd(d, off, h, i) THEN R(EndOff(off, h), err, MapV(st.map))
  ELSE ReadKey(d, off, Reuse(ty.key, last[1]), h, i, ty, st, last, err)

(***************************************************************************)
(* Structs.                                                                *)
(***************************************************************************)
\* A nil pointer that embeds the field is set first, to a zero struct.
Together(f, g) == g.viaPtr /\ Front(g.idx) = Front(f.idx)
Allocated(ty, v, f) ==
  IF ~f.viaPtr THEN v[2]
  ELSE [j \in DOMAIN v[2] |->
          IF v[2][j] = Absent /\ Together(f, ty.fields[j]) THEN Zero(ty.fields[j].ty) ELSE v[2][j]]

\* A field of a nil pointer that embeds an unexported struct cannot be set.
Sealed(ty, v, i) == ty.fields[i].sealed /\ v[2][i] = Absent

SetField(ty, v, i, val) ==
  IF Sealed(ty, v, i) THEN v
  ELSE <<"struct", [Allocated(ty, v, ty.fields[i]) EXCEPT ![i] = Or(val, @)]>>

\* What the field holds, and what is read into it.
FieldOf(ty, v, i) == IF v[2][i] = Absent THEN Zero(ty.fields[i].ty) ELSE v[2][i]

ParseField(d, off, ty, v, i) ==
  IF Sealed(ty, v, i) THEN Fails(Skip(d.data, off), "sealed")
  ELSE ParseToValue(d, off, ty.fields[i].ty, FieldOf(ty, v, i))

\* parseArrayToStruct: the elements.
RECURSIVE ArrayFields(_, _, _, _, _, _, _)

ArrayField(d, e, h, i, ty, v, err) ==
  ArrayFields(d, e.off, h, i + 1, ty, SetField(ty, v, i + 1, e.val), First(err, e.err))

ArrayFields(d, off, h, i, ty, v, err) ==
  IF AtEnd(d, off, h, i) THEN R(EndOff(off, h), err, v)
  ELSE ArrayField(d, ParseField(d, off, ty, v, i + 1), h, i, ty, v, err)

\* parseArrayToStruct.
ParseArrayToStruct(d, off, h, ty, cur) ==
  CASE ty.bad -> Fails(off, "struct")
    [] ~ty.bad /\ (~ty.toArray \/ Count(d, h) # Len(ty.fields)) ->
         Fails(Skip(d.data, off), "type")
    [] OTHER -> ArrayFields(d, h.off, h, 0, ty, cur, "nil")

Folded(b) == [i \in DOMAIN b |-> IF b[i] \in 65 .. 90 THEN b[i] + 32 ELSE b[i]]

Least(S) == {i \in S : \A j \in S : i <= j}

\* The field for a text key: the first free one with that name, or else with
\* that name in other cases.
FieldNamed(ty, name, found) ==
  LET free  == DOMAIN ty.fields \ found
      exact == {i \in free : ty.fields[i].name = name}
      alike == {i \in free : Folded(ty.fields[i].name) = Folded(name)}
  IN Least(IF exact # {} THEN exact ELSE alike)

FieldNumbered(ty, n, found) ==
  Least({i \in DOMAIN ty.fields \ found : ty.fields[i].asInt /\ ty.fields[i].num = n})

\* A key of a map that is decoded to a struct: whether the pair goes on, the
\* field it names, at most one, and the key itself for telling duplicates.
Key(off, use, field, key, err) ==
  [off |-> off, use |-> use, field |-> field, key |-> key, err |-> err]

TextKey(r, ty, found) ==
  Key(r.off, r.err = "nil", FieldNamed(ty, r.val, found), <<"string", r.val>>, r.err)

\* An int64: what is above it becomes negative.
IntKey(off, n, ty, found) ==
  Key(off, TRUE, FieldNumbered(ty, n, found), IntV(n), "nil")

NumberKey(h, ty, found) ==
  IF h.t = NegInt /\ h.val < 0 THEN Key(h.off, FALSE, {}, Nil, "type")
  ELSE IntKey(h.off, IF h.t = PosInt THEN h.val ELSE -1 - h.val, ty, found)

OtherKey(r) == Key(r.off, r.err = "nil" /\ Hashable(r.val), {}, r.val, "type")

KeyOfStruct(d, off, h, ty, found) ==
  CASE h.t = TextString -> TextKey(ParseTextString(d, off), ty, found)
    [] h.t \in {PosInt, NegInt} -> NumberKey(h, ty, found)
    [] OTHER ->
         IF d.dm.noDups THEN OtherKey(Parse(d, off, TRUE))
         ELSE Key(Skip(d.data, off), TRUE, {}, Nil, "type")

\* parseMapToStruct: the pairs.  found are the fields that were set, keys all
\* keys that were seen and count their number (keyCount).
RECURSIVE MapFields(_, _, _, _, _, _, _)

\* The field f of the key k was decoded to e.
StructField(d, f, e, h, i, ty, st, err) ==
  MapFields(d, e.off, h, i + 1, ty,
            [st EXCEPT !.v = SetField(ty, @, f, e.val), !.found = @ \cup {f}],
            First(err, e.err))

\* A pair whose key was seen for the first time, or no matter how often.
StructElem(d, k, h, i, ty, st, err) ==
  IF k.use /\ k.field # {}
  THEN StructField(d, TheItem(k.field), ParseField(d, k.off, ty, st.v, TheItem(k.field)),
                   h, i, ty, st, First(err, k.err))
  ELSE IF k.use /\ d.dm.unknown
  THEN R(SkipPairs(d, Skip(d.data, k.off), h, i + 1), "unknown", st.v)
  ELSE MapFields(d, Skip(d.data, k.off), h, i + 1, ty, st, First(err, k.err))

Seen(st, keys) == [st EXCEPT !.keys = keys, !.count = Cardinality(keys)]

\* A duplicate or an unknown field may end the map: the rest is skipped.
StructPair(d, k, h, i, ty, st, err) ==
  CASE ~k.use \/ ~d.dm.noDups -> StructElem(d, k, h, i, ty, st, err)
    [] k.use /\ d.dm.noDups /\ Cardinality(st.keys \cup {k.key}) = st.count ->
         R(SkipPairs(d, Skip(d.data, k.off), h, i + 1), "dup", st.v)
    [] OTHER -> StructElem(d, k, h, i, ty, Seen(st, st.keys \cup {k.key}), err)

MapFields(d, off, h, i, ty, st, err) ==
  IF AtEnd(d, off, h, i) THEN R(EndOff(off, h), err, st.v)
  ELSE StructPair(d, KeyOfStruct(d, off, GetHead(d.data, off), ty, st.found), h, i, ty, st, err)

\* parseMapToStruct.
ParseMapToStruct(d, off, h, ty, cur) ==
  CASE ty.bad -> Fails(off, "struct")
    [] ~ty.bad /\ ty.toArray -> Fails(Skip(d.data, off), "type")
    [] OTHER ->
         MapFields(d, h.off, h, 0, ty, [v |-> cur, found |-> {}, keys |-> {}, count |-> 0], "nil")

(***************************************************************************)
(* parseToValue.                                                           *)
(***************************************************************************)
ParseToArray(d, off, h, ty, cur) ==
  CASE ty.kind = "slice" ->
         ParseArrayToSlice(d, h.off, h, 0, ty, SliceOfLen(Count(d, h), ty, cur), "nil")
    [] ty.kind = "array" -> ParseArrayToArray(d, h.off, h, 0, ty, cur[2], "nil")
    [] ty.kind = "struct" -> ParseArrayToStruct(d, off, h, ty, cur)
    [] OTHER -> Fails(Skip(d.data, off), "type")

\* big.Int and ByteString are structs, none of whose fields is exported.
NoFields == [kind |-> "struct", bad |-> FALSE, toArray |-> FALSE, fields |-> <<>>]

Entries(m) == IF m = Nil THEN {} ELSE m[2]

ParseToMap(d, off, h, ty, cur) ==
  CASE ty.kind = "struct" -> ParseMapToStruct(d, off, h, ty, cur)
    [] ty.kind \in {"bigint", "bytestring"} -> ParseMapToStruct(d, off, h, NoFields, Left)
    [] ty.kind = "map" ->
         ParseMapToMap(d, h.off, h, 0, ty, Filling(Entries(cur)), NoPair, "nil")
    [] OTHER -> Fails(Skip(d.data, off), "type")

\* The switch on the type of the item.
ParseContent(d, off, h, ty, cur) ==
  CASE h.t \in {PosInt, NegInt} -> FillInt(h.t = PosInt, h.off, h.val, ty)
    [] h.t = ByteString -> FillBytes(StringOf(d, h), ty)
    [] h.t = TextString -> FillTextString(ParseTextString(d, off), ty)
    [] h.t = Primitives -> FillPrimitive(ParsePrimitive(d, off, h), ty)
    [] h.t = Tag -> IF h.val \in {2, 3} THEN ParseBignum(h.val, ParseByteString(d, h.off), ty)
                    ELSE ParseToValue(d, h.off, ty, cur)
    [] h.t = Array -> ParseToArray(d, off, h, ty, cur)
    [] h.t = Map -> ParseToMap(d, off, h, ty, cur)

\* A registered type is preceded by exactly its tag numbers, or by none unless
\* they are required.
ParseRegistered(d, off, nums, items, ty, cur) ==
  CASE items # {} /\ nums = <<>> /\ TheItem(items).required ->
         Fails(Skip(d.data, off), "type")
    [] items # {} /\ nums # <<>> /\ nums # TheItem(items).nums ->
         Fails(Skip(d.data, off), "tag")
    [] items # {} /\ nums = TheItem(items).nums ->
         ParseContent(d, TagContent(d, off), GetHead(d.data, TagContent(d, off)), ty, cur)
    [] OTHER -> ParseContent(d, off, GetHead(d.data, off), ty, cur)

\* What a pointer points to, at first or after it was set to a new value.
Pointee(ty, cur) == IF cur = Nil THEN Zero(ty) ELSE cur[2]
To(r, old) == [r EXCEPT !.val = <<"ptr", Or(@, old)>>]

Follow(d, off, ty, old) == To(ParseToValue(d, off, ty, old), old)

RECURSIVE BaseType(_)
BaseType(ty) == IF ty.kind = "ptr" THEN BaseType(ty.elem) ELSE ty

\* A pointer to a destination that decides itself is not set to nil; one that
\* points to an Unmarshaler has it decide.
ParseNilToPointer(d, off, ty, cur) ==
  IF cur # Nil /\ BaseType(ty).kind \in {"unmarshaler", "rawtag"}
  THEN IF ty.elem.kind = "ptr" THEN Fails(off + 1, "type") ELSE Follow(d, off, ty.elem, cur[2])
  ELSE R(off + 1, "nil", IF Special(BaseType(ty)) THEN Left ELSE Nil)

ParsePointer(d, off, ty, cur) ==
  IF ~NilAt(d, off) THEN Follow(d, off, ty.elem, Pointee(ty.elem, cur))
  ELSE IF \E i \in ItemOfType(d, BaseType(ty)) : i.required THEN Fails(off + 1, "type")
  ELSE ParseNilToPointer(d, off, ty, cur)

ParseStripped(d, off, ty, cur) ==
  IF BadBuiltin(d, off) THEN Fails(Skip(d.data, off), "builtin")
  ELSE IF Special(ty) THEN ParseSpecial(d, off, ty)
  ELSE ParseRegistered(d, off, TagNums(d, off), ItemOfType(d, ty), ty, cur)

\* parseToValue.
ParseToValue(d, off, ty, cur) ==
  CASE ty = ItemT -> ParseItem(d, off, GetHead(d.data, off))
    [] ty.kind = "ptr" -> ParsePointer(d, off, ty, cur)
    [] OTHER -> ParseStripped(d, StripSelf(d, off), ty, cur)

\* decMode.Unmarshal of valid data to a destination that holds cur.
UnmarshalTo(s, dm, ty, cur) ==
  LET r == ParseToValue([data |-> s, dm |-> dm], 0, ty, cur) IN [r EXCEPT !.val = Or(@, cur)]
Unmarshal(s, dm, ty) == UnmarshalTo(s, dm, ty, Zero(ty))
=============================================================================
