----------------------------- MODULE CborEncode -----------------------------
(***************************************************************************)
(* Encoding of Go values: encode and what it calls in encode.go.  Types    *)
(* and values are those of CborDecode, with types "chan" that cannot be    *)
(* encoded, floats that have bits (32 or 64), and "binary" types that      *)
(* marshal themselves to bytes.                                            *)
(*                                                                         *)
(* An encoding mode em has sort, float, nan, inf, bigint, timeTag,         *)
(* tagsForbidden and indefForbidden of its options, the registered tags,   *)
(* and order, in which a Go map happens to be iterated: a permutation of   *)
(* as many numbers as a map has pairs, or more.                            *)
(*                                                                         *)
(* A result is the error and what was written to the buffer; what a failed *)
(* call has written is not kept, its callers discard it.                   *)
(***************************************************************************)
EXTENDS CborDecode, CborFields

Wrote(bytes) == [err |-> "nil", bytes |-> bytes]
Refuse(err) == [err |-> err, bytes |-> <<>>]

\* One after the other, up to the first error.
Then(a, b) ==
  IF a.err # "nil" THEN a ELSE IF b.err # "nil" THEN b ELSE Wrote(a.bytes \o b.bytes)
AllOf(results) == FoldLeft(Then, Wrote(<<>>), results)

Null == Wrote(<<246>>)
String(t, b) == Wrote(EncodeHead(t, Len(b)) \o b)

BytesT == [kind |-> "slice", elem |-> [kind |-> "uint", max |-> 255]]
ListT == [kind |-> "slice", elem |-> [kind |-> "iface"]]
MapT == [kind |-> "map", key |-> [kind |-> "iface"], elem |-> [kind |-> "iface"]]

\* The type of the value of an interface.
DynamicType(v) ==
  CASE v[1] \in {"int", "uint64"} -> [kind |-> "int", max |-> MaxArg]
    [] v[1] = "float" -> [kind |-> "float", bits |-> 64]
    [] v[1] = "list" -> ListT
    [] v[1] = "map" -> MapT
    [] v[1] = "bytes" -> BytesT
    [] v[1] = "registered" -> v[2]
    [] OTHER -> [kind |-> v[1]]

ValueIn(v) == IF v[1] = "registered" THEN v[3] ELSE v

(***************************************************************************)
(* getEncodeFunc: what can be encoded.  A struct type is asked when a      *)
(* value of it is encoded.                                                 *)
(***************************************************************************)
RECURSIVE Supported(_)

Supported(ty) ==
  CASE ty.kind \in {"ptr", "slice", "array"} -> Supported(ty.elem)
    [] ty.kind = "map" -> Supported(ty.key) /\ Supported(ty.elem)
    [] ty.kind = "chan" -> FALSE
    [] OTHER -> TRUE

StructError(ty) ==
  CASE \E i \in DOMAIN ty.fields : ~Supported(ty.fields[i].ty) -> "unsupported"
    [] ty.encBad -> "struct"
    [] OTHER -> "nil"

(***************************************************************************)
(* isEmpty: what omitempty leaves out.                                     *)
(***************************************************************************)
RECURSIVE IsEmpty(_, _)

\* isEmptyStruct: every field would be left out.
IsEmptyStruct(ty, v) ==
  IF ty.toArray THEN ty.fields = <<>>
  ELSE \A i \in DOMAIN ty.fields :
         /\ ty.fields[i].omitEmpty
         /\ v[2][i] # Absent => IsEmpty(ty.fields[i].ty, v[2][i])

IsEmpty(ty, v) ==
  CASE ty.kind \in {"tag", "time", "bigint", "rawtag"} -> FALSE
    [] ty.kind \in {"ptr", "iface"} -> v = Nil
    [] ty.kind = "unmarshaler" -> v \in {<<"unmarshaler">>, <<"unmarshaler", <<>>>>}
    [] ty.kind = "bool" -> ~v[2]
    [] ty.kind \in {"int", "uint"} -> v = IntV(0)
    [] ty.kind = "float" -> v[2].class = "zero"
    [] ty.kind \in {"string", "bytestring", "binary"} -> v[2] = <<>>
    [] ty.kind \in {"slice", "array"} -> v = Nil \/ v[2] = <<>>
    [] ty.kind = "map" -> v = Nil \/ v[2] = {}
    [] ty.kind = "struct" -> StructError(ty) = "nil" /\ IsEmptyStruct(ty, v)

(***************************************************************************)
(* Single items.                                                           *)
(***************************************************************************)
Heads(nums) == FlattenSeq([i \in DOMAIN nums |-> EncodeHead(Tag, nums[i])])

\* encTagBytes: the numbers of the tag that is registered for the type.
EncTagBytes(em, ty) ==
  IF ItemOfType([dm |-> em], ty) = {} THEN <<>>
  ELSE Heads(TheItem(ItemOfType([dm |-> em], ty)).nums)

WithTag(em, ty, r) == Then(Wrote(EncTagBytes(em, ty)), r)

EncodeInteger(v) ==
  Wrote(IF v = <<"uint64">> THEN EncodeHead(PosInt, -1) ELSE EncodeInt(v[2]))

\* encodeFloat.
EncodeFloat(em, f, w) ==
  LET b == EncodedFloat(em, f, w)
  IN Wrote(<<32 * Primitives + (CASE Len(b) = 2 -> 25 [] Len(b) = 4 -> 26 [] Len(b) = 8 -> 27)>>
             \o b)

\* encodeBigInt.
EncodeBigInt(em, v) ==
  IF em.bigint = "shortest" /\ Len(v[3]) <= 8
  THEN Wrote(EncodeHead(IF v[2] = 2 THEN PosInt ELSE NegInt, ArgOf(v[3])))
  ELSE Then(Wrote(EncodeHead(Tag, v[2])), String(ByteString, v[3]))

\* encodeTime, of whole seconds or of a float where the mode is TimeUnixDynamic.
EncodeTime(em, v) ==
  IF Len(v) = 1 THEN Null
  ELSE Then(Wrote(IF em.timeTag = "required" THEN EncodeHead(Tag, 1) ELSE <<>>),
            IF v[2][1] = "int" THEN EncodeInteger(v[2]) ELSE EncodeFloat(em, v[2][2], 8))

\* encodeMarshalerType: MarshalCBOR of RawMessage and of RawTag.
EncodeRaw(v) == IF Len(v) = 1 \/ v[2] = <<>> THEN Null ELSE Wrote(v[2])

EncodeRawTag(em, v) ==
  CASE em.tagsForbidden -> Refuse("tags")
    [] ~em.tagsForbidden /\ Len(v) = 1 -> Null
    [] OTHER -> Then(Wrote(EncodeHead(Tag, v[2])), EncodeRaw(<<"raw", v[3]>>))

(***************************************************************************)
(* Containers.                                                             *)
(***************************************************************************)
RECURSIVE Encode(_, _, _)

\* encodeByteString and arrayEncodeFunc.encode.
EncodeElems(em, ty, vals) ==
  Then(Wrote(EncodeHead(Array, Len(vals))),
       AllOf([i \in DOMAIN vals |-> Encode(em, ty, vals[i])]))

Bytes(v) == IF v[1] = "list" THEN [i \in DOMAIN v[2] |-> v[2][i][2]] ELSE v[2]

EncodeList(em, ty, v) ==
  CASE v = Nil -> Null
    [] v # Nil /\ IsByte(ty.elem) -> WithTag(em, ty, String(ByteString, Bytes(v)))
    [] OTHER -> WithTag(em, ty, EncodeElems(em, ty.elem, v[2]))

\* The pairs of a map in the order of its iterator.
Iterated(order, pairs) ==
  LET here == SelectSeq(order, LAMBDA i : i <= Len(pairs))
  IN [i \in DOMAIN here |-> pairs[here[i]]]

EncodePair(em, ty, p) ==
  [key |-> Encode(em, ty.key, p[1]), elem |-> Encode(em, ty.elem, p[2])]

\* encodeCanonical.
SortedPairs(sort, ps) ==
  CASE sort = "none" -> ps
    [] sort = "bytewise" -> SortSeq(ps, LAMBDA p, q : Bytewise(p.key.bytes, q.key.bytes))
    [] sort = "length" -> SortSeq(ps, LAMBDA p, q : Shorter(p.key.bytes, q.key.bytes))

PairsInOrder(em, ps) ==
  AllOf([i \in DOMAIN ps |-> Then(SortedPairs(em.sort, ps)[i].key, SortedPairs(em.sort, ps)[i].elem)])

EncodePairs(em, ty, pairs) ==
  Then(Wrote(EncodeHead(Map, Len(pairs))),
       PairsInOrder(em, [i \in DOMAIN pairs |-> EncodePair(em, ty, pairs[i])]))

\* mapEncodeFunc.encode.
EncodeMap(em, ty, v) ==
  IF v = Nil THEN Null
  ELSE WithTag(em, ty, EncodePairs(em, ty, Iterated(em.order, SetToSeq(v[2]))))

(***************************************************************************)
(* Structs.                                                                *)
(***************************************************************************)
\* A nil pointer that embeds a field is a null in an array and nothing in a map.
EncodeField(em, f, val) == IF val = Absent THEN Null ELSE Encode(em, f.ty, val)

\* encodeStructToArray.
EncodeStructToArray(em, ty, v) ==
  Then(Wrote(EncodeHead(Array, Len(ty.fields))),
       AllOf([i \in DOMAIN ty.fields |-> EncodeField(em, ty.fields[i], v[2][i])]))

\* Faulty: a field that is not there counts, and so does an empty one.
KeptAll(ty, v, i) == TRUE

Kept(ty, v, i) ==
  /\ v[2][i] # Absent
  /\ ty.fields[i].omitEmpty => ~IsEmpty(ty.fields[i].ty, v[2][i])

EncodeFields(em, ty, v, kept) ==
  Then(Wrote(EncodeHead(Map, Len(kept))),
       AllOf([i \in DOMAIN kept |->
                Then(Wrote(ty.fields[kept[i]].cborName),
                     EncodeField(em, ty.fields[kept[i]], v[2][kept[i]]))]))

\* encodeStruct and encodeFixedLengthStruct.
EncodeStruct(em, ty, v) ==
  CASE StructError(ty) # "nil" -> Refuse(StructError(ty))
    [] StructError(ty) = "nil" /\ ty.toArray -> WithTag(em, ty, EncodeStructToArray(em, ty, v))
    [] OTHER ->
         WithTag(em, ty,
           EncodeFields(em, ty, v,
             SelectSeq(FieldsFor(em.sort, ty.fields), LAMBDA i : Kept(ty, v, i))))

(***************************************************************************)
(* encode.                                                                 *)
(***************************************************************************)
\* encodeTag.
EncodeTag(em, v) ==
  CASE em.tagsForbidden -> Refuse("tags")
    [] ~em.tagsForbidden /\ Len(v) = 1 -> Null
    [] OTHER -> Then(Wrote(EncodeHead(Tag, v[2])), Encode(em, [kind |-> "iface"], v[3]))

EncodeIntf(em, v) == IF v = Nil THEN Null ELSE Encode(em, DynamicType(v), ValueIn(v))

\* getEncodeIndirectValueFunc: all pointers are followed.
EncodeIndirect(em, ty, v) == IF v = Nil THEN Null ELSE Encode(em, ty.elem, v[2])

EncodeValue(em, ty, v) ==
  CASE ty.kind = "bool" -> WithTag(em, ty, Wrote(<<IF v[2] THEN 245 ELSE 244>>))
    [] ty.kind \in {"int", "uint"} -> WithTag(em, ty, EncodeInteger(v))
    [] ty.kind = "float" -> WithTag(em, ty, EncodeFloat(em, v[2], ty.bits \div 8))
    [] ty.kind = "string" -> WithTag(em, ty, String(TextString, v[2]))
    [] ty.kind = "binary" -> WithTag(em, ty, String(ByteString, v[2]))
    [] ty.kind = "bytestring" -> String(ByteString, v[2])
    [] ty.kind \in {"slice", "array"} -> EncodeList(em, ty, v)
    [] ty.kind = "map" -> EncodeMap(em, ty, v)
    [] ty.kind = "struct" -> EncodeStruct(em, ty, v)
    [] ty.kind = "ptr" -> EncodeIndirect(em, ty, v)
    [] ty.kind = "iface" -> EncodeIntf(em, v)
    [] ty.kind = "tag" -> EncodeTag(em, v)
    [] ty.kind = "rawtag" -> EncodeRawTag(em, v)
    [] ty.kind = "unmarshaler" -> EncodeRaw(v)
    [] ty.kind = "time" -> EncodeTime(em, v)
    [] ty.kind = "bigint" -> EncodeBigInt(em, v)

\* encode.
Encode(em, ty, v) ==
  IF ~Supported(ty) THEN Refuse("unsupported") ELSE EncodeValue(em, ty, v)
=============================================================================
