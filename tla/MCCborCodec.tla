---------------------------- MODULE MCCborCodec ----------------------------
EXTENDS CborCodec

Int64 == [kind |-> "int", max |-> 2 ^ 24]
Int8 == [kind |-> "int", max |-> 127]
Uint == [kind |-> "uint", max |-> 2 ^ 24]
Str == [kind |-> "string"]
Bool == [kind |-> "bool"]
Float(bits) == [kind |-> "float", bits |-> bits]
Ptr(ty) == [kind |-> "ptr", elem |-> ty]
SliceOf(ty) == [kind |-> "slice", elem |-> ty]
ArrayOf(n, ty) == [kind |-> "array", len |-> n, elem |-> ty]
MapOf(k, e) == [kind |-> "map", key |-> k, elem |-> e]
Kind(k) == [kind |-> k]

(***************************************************************************)
(* Declarations of structs.                                                *)
(***************************************************************************)
NoTag == [name |-> <<>>, omit |-> FALSE, asInt |-> FALSE, set |-> FALSE, skip |-> FALSE]
Named(name) == [NoTag EXCEPT !.name = name, !.set = TRUE]
Omit == [NoTag EXCEPT !.omit = TRUE, !.set = TRUE]
Numbered(name) == [Named(name) EXCEPT !.asInt = TRUE]
NoDecl == [name |-> "", toArray |-> FALSE, fields |-> <<>>]

Field(name, tag, ty) ==
  [name |-> name, exported |-> TRUE, tag |-> tag, anon |-> FALSE, ptr |-> FALSE, ty |-> ty,
   decl |-> NoDecl]
Embed(decl, ptr, exported) ==
  [name |-> <<90>>, exported |-> exported, tag |-> NoTag, anon |-> TRUE, ptr |-> ptr,
   ty |-> Kind("struct"), decl |-> decl]
Decl(name, toArray, fields) == [name |-> name, toArray |-> toArray, fields |-> fields]

\* Two structs with fields of the same names, embedded in a third and in each other.
Base == Decl("Base", FALSE, <<Field(<<66>>, NoTag, Int8), Field(<<65>>, NoTag, Str)>>)
Other == Decl("Other", FALSE, <<Field(<<67>>, NoTag, Int8), Field(<<68>>, Named(<<66>>), Str),
                                Embed(Base, FALSE, TRUE)>>)
Outer == StructType(Decl("Outer", FALSE,
  <<Field(<<65>>, Omit, Kind("iface")), Embed(Base, FALSE, FALSE), Embed(Other, TRUE, TRUE),
    Field(<<78>>, Numbered(<<50, 52>>), Int8), Field(<<77>>, Numbered(<<45, 49>>), Int8)>>))
Twice == StructType(Decl("Twice", FALSE, <<Embed(Base, TRUE, TRUE), Embed(Base, FALSE, TRUE),
                                           Field(<<78>>, Named(<<88, 88>>), Int8),
                                           Field(<<79>>, Named(<<89>>), Int8)>>))
Arr == StructType(Decl("Arr", TRUE, <<Field(<<78>>, NoTag, Ptr(Str)), Embed(Base, FALSE, TRUE)>>))
Numbers == StructType(Decl("Numbers", FALSE, <<Field(<<78>>, Numbered(<<49, 57>>), Int8),
                                               Field(<<79>>, Numbered(<<50>>), Int8)>>))
\* Numbers whose encodings have different lengths.
Longer == StructType(Decl("Longer", FALSE, <<Field(<<79>>, Numbered(<<45, 49>>), Int8),
                                             Field(<<78>>, Numbered(<<50, 52>>), Int8)>>))
Inner == StructType(Decl("Inner", FALSE, <<Field(<<73>>, Omit, Int8)>>))
Opts == StructType(Decl("Opts", FALSE,
  <<Field(<<66>>, Omit, Bool), Field(<<67>>, Omit, Float(64)), Field(<<68>>, Omit, Str),
    Field(<<69>>, Omit, SliceOf(Int8)), Field(<<70>>, Omit, MapOf(Str, Int8)),
    Field(<<71>>, Omit, Ptr(Int8)), Field(<<72>>, Omit, Inner), Field(<<74>>, Omit, Kind("unmarshaler")),
    Field(<<75>>, Omit, Kind("bigint")), Field(<<76>>, Omit, Kind("binary"))>>))
BadNum == StructType(Decl("BadNum", FALSE, <<Field(<<78>>, Numbered(<<120>>), Int8)>>))
Chan == StructType(Decl("Chan", FALSE, <<Field(<<78>>, NoTag, SliceOf(Kind("chan")))>>))

(***************************************************************************)
(* Values.                                                                 *)
(***************************************************************************)
X(ty, v) == [ty |-> ty, v |-> v, exact |-> TRUE, isKey |-> FALSE]
About(ty, v) == [X(ty, v) EXCEPT !.exact = FALSE]
StrV(b) == <<"string", b>>
BoolV(b) == <<"bool", b>>
FloatB(b) == <<"float", FloatOf(b)>>
StructV(s) == <<"struct", s>>
PtrV(v) == <<"ptr", v>>
BytesV(b) == ListV([i \in DOMAIN b |-> IntV(b[i])])

Integers1 ==
  {X(Int64, IntV(n)) : n \in {-65537, -257, -25, -24, -1, 0, 23, 24, 255, 256, 65535, 65536}}
  \cup {X(Uint, <<"uint64">>), X(Kind("bigint"), <<"bigint", 2, <<>>>>),
        X(Kind("bigint"), <<"bigint", 3, <<24>>>>),
        X(Kind("bigint"), <<"bigint", 3, [i \in 1 .. 9 |-> 1]>>)}

Floats ==
  {X(Float(64), FloatB(b)) :
     b \in {<<60, 0>>, <<0, 1>>, <<3, 255>>, <<123, 255>>, <<124, 0>>, <<128, 0>>,
            <<71, 127, 240, 0>>, <<51, 0, 0, 0>>, <<51, 192, 0, 0>>, <<0, 0, 0, 1>>,
            <<63, 241, 153, 153, 153, 153, 153, 154>>, <<55, 232, 0, 0, 0, 0, 0, 1>>}}
  \cup {About(Float(64), FloatB(b)) :
          b \in {<<126, 0>>, <<124, 1>>, <<127, 240, 0, 0, 0, 0, 0, 1>>}}
  \cup {X(Float(32), FloatB(<<71, 127, 240, 0>>)), X(Float(32), FloatB(<<56, 0>>)),
        About(Float(32), FloatB(<<255, 128, 32, 0>>))}

AnyMapV == MapV({<<StrV(<<98>>), IntV(1)>>, <<StrV(<<97, 97>>), Nil>>, <<IntV(-1), ListV(<<BoolV(TRUE)>>)>>})

Containers ==
  {X(Kind("iface"), AnyMapV), X(Kind("iface"), ListV(<<AnyMapV, <<"bytes", <<7>>>>, FloatB(<<60, 0>>)>>)),
   X(Kind("iface"), MapV({<<<<"bytestring", <<1>>>>, StrV(<<>>)>>})),
   X(MapOf(Str, Int8), Nil), X(MapOf(Str, Int8), MapV({})),
   X(MapOf(Int8, SliceOf(Int8)), MapV({<<IntV(24), Nil>>, <<IntV(-1), ListV(<<>>)>>})),
   X(SliceOf(Int8), Nil), X(SliceOf(Int8), ListV(<<IntV(1), IntV(-1)>>)), X(BytesT, Nil),
   X(BytesT, BytesV(<<>>)), X(ArrayOf(2, [kind |-> "uint", max |-> 255]), BytesV(<<1, 2>>)),
   X(Ptr(Ptr(Str)), PtrV(PtrV(StrV(<<97>>)))), About(Ptr(Ptr(Str)), PtrV(Nil)),
   X(SliceOf(Bool), ListV(<<BoolV(TRUE), BoolV(FALSE)>>)), X(Kind("binary"), <<"binary", <<9>>>>),
   X(Kind("iface"), Nil)}

Tags ==
  {X(Kind("iface"), <<"tag", 24, <<"bytes", <<1>>>>>>), X(Kind("tag"), <<"tag">>),
   X(Kind("tag"), <<"tag", 200, IntV(1)>>), X(Kind("rawtag"), <<"rawtag">>),
   X(Kind("rawtag"), <<"rawtag", 99, <<0>>>>),
   About(Kind("rawtag"), <<"rawtag", 99, <<>>>>), X(Kind("unmarshaler"), <<"unmarshaler", <<129, 0>>>>),
   About(Kind("unmarshaler"), <<"unmarshaler">>), X(Kind("time"), <<"time">>),
   X(Kind("time"), <<"time", IntV(300)>>), X(Kind("time"), <<"time", FloatB(<<60, 1>>)>>)}

EmptyOpts ==
  <<BoolV(FALSE), <<"float", PlusZero>>, StrV(<<>>), Nil, Nil, Nil, StructV(<<IntV(0)>>),
    <<"unmarshaler">>, <<"bigint", 2, <<>>>>, <<"binary", <<>>>>>>

Structs ==
  {X(Outer, StructV(<<Nil, IntV(1), StrV(<<98>>), IntV(3), IntV(-3)>>)),
   X(Outer, StructV(<<StrV(<<99>>), Absent, Absent, IntV(3), IntV(-3)>>)),
   X(Twice, StructV(<<IntV(1), IntV(2)>>)), X(Numbers, StructV(<<IntV(1), IntV(2)>>)),
   X(Longer, StructV(<<IntV(1), IntV(2)>>)), X(MapOf(Int8, Int8), MapV({<<IntV(24), IntV(1)>>, <<IntV(-1), IntV(2)>>})),
   X(Arr, StructV(<<PtrV(StrV(<<97>>)), IntV(1), StrV(<<98>>)>>)),
   X(Arr, StructV(<<Nil, IntV(0), StrV(<<>>)>>)),
   X(Opts, StructV(EmptyOpts)), About(Opts, StructV([EmptyOpts EXCEPT ![4] = ListV(<<>>)])),
   X(Opts, StructV([EmptyOpts EXCEPT ![5] = MapV({<<StrV(<<>>), IntV(0)>>}), ![6] = PtrV(IntV(0)),
                                     ![7] = StructV(<<IntV(1)>>), ![10] = <<"binary", <<1>>>>])),
   About(Opts, StructV([EmptyOpts EXCEPT ![2] = FloatB(<<128, 0>>)])),
   X(BadNum, StructV(<<IntV(0)>>)), X(Chan, StructV(<<Nil>>)), X(Ptr(Kind("chan")), Nil)}

MCValues == Integers1 \cup Floats \cup Containers \cup Tags \cup Structs

MCFew ==
  {[X(Str, StrV(<<97>>)) EXCEPT !.isKey = TRUE], [X(Int64, IntV(24)) EXCEPT !.isKey = TRUE],
   X(BytesT, BytesV(<<1, 2>>)), X(SliceOf(Int8), ListV(<<IntV(1)>>))}

(***************************************************************************)
(* Modes.                                                                  *)
(***************************************************************************)
TagOf(ty, num) == [ty |-> ty, nums |-> <<num, 24>>, required |-> TRUE]

Enc(sort, float, nan, tags) ==
  [sort |-> sort, float |-> float, nan |-> nan, tags |-> tags,
   inf |-> IF float = "none" THEN "none" ELSE "float16",
   bigint |-> IF sort = "none" THEN "none" ELSE "shortest",
   timeTag |-> IF tags = {} THEN "none" ELSE "required",
   tagsForbidden |-> FALSE, indefForbidden |-> sort = "length"]

Codec(enc) ==
  [enc |-> enc,
   dec |-> [noDups |-> FALSE, wrapKeys |-> TRUE, signed |-> FALSE, unknown |-> TRUE,
            timeTag |-> enc.timeTag, tags |-> enc.tags]]

MCCodecs ==
  {Codec(Enc("none", "none", "none", {})),
   Codec(Enc("bytewise", "float16", "7e00", {TagOf(Outer, 100), TagOf(Inner, 300)})),
   Codec(Enc("length", "float16", "preserve", {TagOf(Outer, 100)})),
   Codec(Enc("bytewise", "none", "quiet", {}))}

MCOrders == {<<1, 2, 3>>, <<3, 1, 2>>, <<2, 1, 3>>}
=============================================================================
