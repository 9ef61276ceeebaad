----------------------------- MODULE CborFields -----------------------------
(***************************************************************************)
(* The description of a Go struct that the CBOR encoder and decoder work   *)
(* with: getFields of structfields.go, which chooses the visible fields,   *)
(* and the struct types of cache.go, which name and order them.            *)
(*                                                                         *)
(* A declaration is [name, toArray, fields]; one of its fields is [name,   *)
(* exported, tag, anon, ptr, ty, decl].  tag is that of the field, with a  *)
(* name and the options omit and asInt; set says whether there is one, and *)
(* skip whether it is "-".  decl is the declaration of an anonymous struct *)
(* and ptr whether it is embedded by a pointer.  Names are sequences of    *)
(* bytes.                                                                  *)
(***************************************************************************)
EXTENDS Integers, Sequences, SequencesExt, FiniteSets, TLC

\* bytes.Compare and the order of strings.
Bytewise(a, b) ==
  \E n \in 0 .. Len(b) - 1 :
    /\ n <= Len(a)
    /\ SubSeq(a, 1, n) = SubSeq(b, 1, n)
    /\ n = Len(a) \/ a[n + 1] < b[n + 1]

(***************************************************************************)
(* getFields.  where says how a field is reached: its indexes, whether one *)
(* of the pointers on the way may be nil, and whether it cannot be set.    *)
(***************************************************************************)
Top == [idx |-> <<>>, viaPtr |-> FALSE, sealed |-> FALSE]

Inside(f, i, where) ==
  [idx |-> Append(where.idx, i), viaPtr |-> where.viaPtr \/ f.ptr,
   sealed |-> where.sealed \/ (f.ptr /\ ~f.exported)]

Embedded(f) == f.anon /\ f.tag.name = <<>>

Looked(d) == {i \in DOMAIN d.fields :
                /\ d.fields[i].exported \/ d.fields[i].anon
                /\ ~d.fields[i].tag.skip}

NewField(f, i, where) ==
  [name |-> IF f.tag.name = <<>> THEN f.name ELSE f.tag.name,
   idx |-> Append(where.idx, i), ty |-> f.ty, omitEmpty |-> f.tag.omit,
   asInt |-> f.tag.asInt, tagged |-> f.tag.set,
   sealed |-> where.sealed, viaPtr |-> where.viaPtr]

\* appendFields: the fields of d, and the structs embedded in it.
OwnFields(d, where) ==
  {NewField(d.fields[i], i, where) : i \in {j \in Looked(d) : ~Embedded(d.fields[j])}}

Nested(d, where) ==
  {[decl |-> d.fields[i].decl, where |-> Inside(d.fields[i], i, where)] :
     i \in {j \in Looked(d) : Embedded(d.fields[j])}}

\* A struct that is embedded twice at one level is not entered, nor is one that
\* was met at a level above.
Once(level, seen) ==
  {e \in level : e.decl \notin seen /\ \A g \in level : g.decl = e.decl => g = e}

RECURSIVE Levels(_, _, _)

LevelBelow(entered, seen, flds) ==
  Levels(UNION {Nested(e.decl, e.where) : e \in entered},
         seen \cup {e.decl : e \in entered},
         flds \cup UNION {OwnFields(e.decl, e.where) : e \in entered})

Levels(level, seen, flds) ==
  IF level = {} THEN flds ELSE LevelBelow(Once(level, seen), seen, flds)

\* Of the fields of one name, the one at the least depth, or the tagged one of
\* several at that depth.
Dominates(f, g) ==
  \/ Len(f.idx) < Len(g.idx)
  \/ Len(f.idx) = Len(g.idx) /\ f.tagged /\ ~g.tagged

Visible(flds) ==
  {f \in flds : \A g \in flds \ {f} : g.name = f.name => Dominates(f, g)}

RECURSIVE ByIndex(_)

FieldThen(f, flds) == <<f>> \o ByIndex(flds \ {f})

\* In the order of the indexes.
ByIndex(flds) ==
  IF flds = {} THEN <<>>
  ELSE FieldThen(CHOOSE f \in flds : \A g \in flds : ~Bytewise(g.idx, f.idx), flds)

GetFields(d) ==
  ByIndex(Visible(Levels({[decl |-> d, where |-> Top]}, {}, {})))

(***************************************************************************)
(* encodeHead: the first bytes of an item; n < 0 stands for an argument    *)
(* above the greatest int64.                                               *)
(***************************************************************************)
EncodeHead(t, n) ==
  CASE n \in 0 .. 23 -> <<32 * t + n>>
    [] n \in 24 .. 255 -> <<32 * t + 24, n>>
    [] n \in 256 .. 65535 -> <<32 * t + 25, n \div 256, n % 256>>
    [] n > 65535 -> <<32 * t + 26, n \div 16777216, (n \div 65536) % 256,
                      (n \div 256) % 256, n % 256>>
    [] n < 0 -> <<32 * t + 27>> \o [i \in 1 .. 8 |-> 255]

EncodeInt(n) == IF n >= 0 THEN EncodeHead(0, n) ELSE EncodeHead(1, -1 - n)
EncodeText(b) == EncodeHead(3, Len(b)) \o b

(***************************************************************************)
(* getDecodingStructType and getEncodingStructType.                        *)
(***************************************************************************)
Digits(b) == IF b # <<>> /\ b[1] \in {43, 45} THEN Tail(b) ELSE b

\* strconv.Atoi.
IsNumber(b) == Digits(b) # <<>> /\ \A i \in DOMAIN Digits(b) : Digits(b)[i] \in 48 .. 57

Atoi(b) ==
  (IF b[1] = 45 THEN -1 ELSE 1) * FoldLeft(LAMBDA n, c : 10 * n + c - 48, 0, Digits(b))

BadName(f) == f.asInt /\ ~IsNumber(f.name)

Num(f) == IF f.asInt /\ IsNumber(f.name) THEN Atoi(f.name) ELSE 0

CborName(f) ==
  IF ~f.asInt THEN EncodeText(f.name)
  ELSE IF BadName(f) THEN <<>> ELSE EncodeInt(Num(f))

Described(f) ==
  [name |-> f.name, asInt |-> f.asInt, num |-> Num(f), ty |-> f.ty, sealed |-> f.sealed,
   omitEmpty |-> f.omitEmpty, viaPtr |-> f.viaPtr, idx |-> f.idx, cborName |-> CborName(f)]

\* The fields of a struct that becomes a map need names, those of one that
\* becomes an array do not when it is encoded.
StructType(d) ==
  LET flds == GetFields(d)
      bad  == \E i \in DOMAIN flds : BadName(flds[i])
  IN
  [kind |-> "struct", toArray |-> d.toArray, bad |-> bad, encBad |-> bad /\ ~d.toArray,
   fixedLength |-> \A i \in DOMAIN flds : Len(flds[i].idx) = 1 /\ ~flds[i].omitEmpty,
   fields |-> [i \in DOMAIN flds |-> Described(flds[i])]]

Shorter(a, b) == IF Len(a) # Len(b) THEN Len(a) < Len(b) ELSE Bytewise(a, b)

HasBoth(flds) ==
  (\E i \in DOMAIN flds : flds[i].asInt) /\ (\E i \in DOMAIN flds : ~flds[i].asInt)

Indexes(flds) == [i \in DOMAIN flds |-> i]

BytewiseFields(flds) ==
  SortSeq(Indexes(flds), LAMBDA i, j : Bytewise(flds[i].cborName, flds[j].cborName))

LengthFirstFields(flds) ==
  IF HasBoth(flds)
  THEN SortSeq(Indexes(flds), LAMBDA i, j : Shorter(flds[i].cborName, flds[j].cborName))
  ELSE BytewiseFields(flds)

\* Faulty: the order of one mode is that of the other.
FieldsOneWay(sort, flds) ==
  IF sort = "none" THEN Indexes(flds) ELSE BytewiseFields(flds)

\* encodingStructType.getFields: the indexes of the fields in the order of the
\* mode.
FieldsFor(sort, flds) ==
  CASE sort = "none" -> Indexes(flds)
    [] sort = "length" -> LengthFirstFields(flds)
    [] OTHER -> BytewiseFields(flds)
=============================================================================
