----------------------------- MODULE MCCborData -----------------------------
EXTENDS CborData

\* The first key or pair of a map of two pairs; the element an array, a map of
\* numbers, what fits a struct or a map with a text, and the second key; the head
\* of a second key of two bytes, which may be the first one again.
MapStarts ==
  {<<162, 0>>, <<162, 97, 65, 0>>, <<162, 65, 0, 0>>, <<162, 0, 130, 5, 6, 32>>,
   <<162, 0, 161, 5, 6, 32>>, <<162, 0, 161, 97, 65, 5, 32>>, <<162, 0, 161, 0, 97, 97, 32>>,
   <<162, 0, 0, 24>>}

OfMaps == {0, 32, 65, 97, 130, 161, 244, 246, 255}

MCArrive ==
  /\ Arrive
  /\ (\E s \in MapStarts : IsPrefix(s, data)) => data'[Len(data')] \in OfMaps

MCSpec == Init /\ [][MCArrive]_vars

\* Nothing; an eight-byte argument of which one byte is missing, more than an int
\* and more than any data; nested arrays; open arrays, maps and strings; what
\* starts a tagged item, a float, a registered type and a map of two pairs; and
\* MapStarts, of which less arrives.
MCStarts ==
  {<<>>, <<91, 255, 255, 255, 255, 255, 255, 255>>,
   <<155, 127, 255, 255, 255, 255, 255, 255>>, <<129, 193, 193, 129>>,
   <<159, 130>>, <<161, 97>>, <<95, 65>>, <<127, 97, 97>>, <<191, 97, 0>>, <<162, 97, 0>>,
   <<162, 65, 0>>, <<130, 194>>, <<129, 161, 0>>, <<217, 217, 247>>, <<129, 249, 0>>,
   <<216, 24>>, <<216, 24, 130>>, <<162, 24, 24, 0>>, <<162, 27, 255, 255, 255, 255, 255, 255, 255, 255>>}
  \cup MapStarts

Byte == [kind |-> "uint", max |-> 255]
Int8 == [kind |-> "int", max |-> 127]
Str == [kind |-> "string"]
SliceOf(ty) == [kind |-> "slice", elem |-> ty]
MapOf(k, e) == [kind |-> "map", key |-> k, elem |-> e]
Field(name, num, ty) ==
  [name |-> name, asInt |-> num # -99, num |-> num, ty |-> ty, idx |-> <<0>>,
   sealed |-> FALSE, viaPtr |-> FALSE]
Struct(toArray, fields) ==
  [kind |-> "struct", bad |-> FALSE, toArray |-> toArray, fields |-> fields]
Pair == Struct(TRUE, <<Field(<<97>>, -99, Int8), Field(<<65>>, -99, AnyT)>>)
Record == Struct(FALSE, <<Field(<<65>>, -99, Int8), Field(<<97>>, -99, SliceOf(Byte)),
                          Field(<<>>, 0, [kind |-> "ptr", elem |-> Str]),
                          [Field(<<>>, 24, Int8) EXCEPT !.sealed = TRUE, !.viaPtr = TRUE]>>)

New(ty) == [ty |-> ty, cur |-> Zero(ty)]
Holding(ty, cur) == [ty |-> ty, cur |-> cur]
PtrTo(ty) == [kind |-> "ptr", elem |-> ty]
Held0 == MapV({<<IntV(0), Nil>>})
HeldNumbers == MapV({<<IntV(0), IntV(7)>>, <<IntV(-1), IntV(7)>>})

\* New destinations, and some that hold something: slices that are long enough,
\* maps, structs, pointers.
MCDests ==
  {New(ty) : ty \in
     {AnyT, AnyMap, AnyList, SliceOf(Byte), MapOf(AnyT, SliceOf(Byte)), MapOf(Str, Int8),
      SliceOf(Record), Record, Pair, [kind |-> "tag"], [kind |-> "time"], [kind |-> "bigint"],
      [kind |-> "array", len |-> 1, elem |-> [kind |-> "unmarshaler"]], [kind |-> "rawtag"],
      [kind |-> "array", len |-> 2, elem |-> Byte]}}
  \cup {Holding(SliceOf(Record), ListV(<<Zero(Record), Zero(Record)>>)),
        Holding(SliceOf(PtrTo(AnyMap)), ListV(<<<<"ptr", Held0>>, <<"ptr", Nil>>>>))}

\* Maps of which a key that the data may have is held, or not.
MCMaps ==
  {New(ty) : ty \in
     {AnyMap, MapOf(AnyT, SliceOf(Byte)), MapOf(AnyT, Pair), MapOf(AnyT, Record),
      MapOf(AnyT, MapOf(Int8, Int8)), MapOf(AnyT, PtrTo(Record)), MapOf(Int8, Int8),
      MapOf(AnyT, [kind |-> "array", len |-> 2, elem |-> Byte])}}
  \cup {Holding(AnyMap, Held0), Holding(MapOf(Int8, Int8), HeldNumbers),
        Holding(MapOf(Str, Int8), MapV({<<<<"string", <<0>>>>, IntV(7)>>, <<<<"string", <<65>>>>, IntV(7)>>})),
        Holding(MapOf(AnyT, MapOf(Int8, Int8)), MapV({<<IntV(0), HeldNumbers>>}))}

\* A map of two numbers, the first pair of which is there.
NullStarts == {<<162, 0, 24>>, <<162, 0, 0>>, <<162>>}
NullMaps == {New(MapOf(Int8, Int8))}

Tag24 == [ty |-> Pair, nums |-> <<24>>, required |-> TRUE]
Mode(noDups, tags) ==
  [noDups |-> noDups, wrapKeys |-> ~noDups, signed |-> noDups, unknown |-> noDups,
   timeTag |-> IF noDups THEN "required" ELSE "ignored", tags |-> tags]
NullModes == {Mode(TRUE, {})}
MCModes == {Mode(TRUE, {}), Mode(FALSE, {Tag24})}
=============================================================================
