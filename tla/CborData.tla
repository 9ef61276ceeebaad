------------------------------ MODULE CborData ------------------------------
(***************************************************************************)
(* What the decoding of CborDecode finds in the data of CborParts.         *)
(***************************************************************************)
EXTENDS CborParts, CborDecode

CONSTANTS
  Modes,  \* the modes of decoding
  Dests,  \* destinations: a type, and what one of it holds, its zero if it is new
  Maps    \* more of them, whose types are maps

Into(dm, x) == UnmarshalTo(data, dm, x.ty, x.cur)

\* Whatever an item is decoded into and whatever goes wrong on the way, a
\* type that does not fit, a broken text, a key that is no key, a duplicate, a
\* struct of another size, decoding ends where the item ends: what follows in
\* an array, a map or a stream is decoded from its own first byte.  Types whose
\* field tags are broken are left out of Dests: for them nothing is consumed.
ConsumesItem ==
  Whole => \A dm \in Modes, x \in Dests : Into(dm, x).off = Valid(data).off

AnyT == [kind |-> "iface"]
AnyMap == [kind |-> "map", key |-> AnyT, elem |-> AnyT]
AnyList == [kind |-> "slice", elem |-> AnyT]

Agree(a, b) == a.err = b.err /\ (a.err = "nil" => a.val = b.val)

\* parseMap and parseMapToMap, parseArray and parseArrayToSlice are four loops
\* with their own handling of errors, keys and duplicates: decoding into the
\* empty interface and into the type it makes fail on the same data, and come
\* to the same value if they do not.
SameEitherWay ==
  Whole /\ Type(data[1]) \in {Array, Map} =>
    \A dm \in Modes :
      Agree(Unmarshal(data, dm, AnyT),
            Unmarshal(data, dm, IF Type(data[1]) = Map THEN AnyMap ELSE AnyList))

\* The pairs of the map at the head of the data, as offsets of key and element.
RECURSIVE PairsFrom(_, _, _)
PairFrom(off, e, h, i) == <<[key |-> off, elem |-> e]>> \o PairsFrom(Skip(data, e), h, i + 1)
PairsFrom(off, h, i) ==
  IF (IF h.ai = Indefinite THEN At(data, off) = Break ELSE i >= h.val) THEN <<>>
  ELSE PairFrom(off, Skip(data, off), h, i)
Pairs == PairsFrom(GetHead(data, 0).off, GetHead(data, 0), 0)

IsMap == Whole /\ Type(data[1]) = Map

(***************************************************************************)
(* A pair that is decoded by itself, its key and its element to new        *)
(* destinations.  It has kept a key if it sets none, a null, where the     *)
(* destination is used again.                                              *)
(***************************************************************************)
PairRead(ty, k, key, e) ==
  [key |-> key, val |-> Or(e.val, Zero(ty.elem)),
   kept |-> k.err = "nil" /\ k.val = Left /\ Immutable(ty.key),
   err |-> IF k.err # "nil" THEN k.err
           ELSE IF ty.key.kind = "iface" /\ ~Hashable(key) THEN "key" ELSE e.err]

PairOf(d, ty, k, off) ==
  PairRead(ty, k, KeyFrom(d, ty.key, Or(k.val, Zero(ty.key))),
           ParseToValue(d, off, ty.elem, Zero(ty.elem)))

PairAt(d, ty, at) == PairOf(d, ty, ParseToValue(d, at.key, ty.key, Zero(ty.key)), at.elem)

AllPairs(d, ty, pairs) == FoldLeft(LAMBDA ps, at : Append(ps, PairAt(d, ty, at)), <<>>, pairs)

\* What is in a map that held m when the pairs have been stored: a later one
\* replaces an earlier one of the same key.
Updated(m, ps) == FoldLeft(LAMBDA n, p : SetKey(n, p.key, p.val), m, ps)

SameKeyTwice(ps) ==
  \E i, j \in DOMAIN ps :
    i < j /\ ps[i].err = "nil" /\ ps[j].err = "nil" /\ ps[i].key = ps[j].key

Tells(r, held, ps) ==
  (\A i \in DOMAIN ps : ~ps[i].kept /\ ps[i].err # "dup") =>
    /\ r.err = "dup" <=> SameKeyTwice(ps)
    /\ r.err = "nil" => Keys(r.val[2]) = Keys(held) \cup {ps[i].key : i \in DOMAIN ps}

\* Where duplicate keys are enforced they are told by the size of the map, and
\* the keys that it held at first.  An error says so exactly if two pairs that
\* decode have the same key: neither a key that the map held before nor a pair
\* that failed is taken for one, and no pair replaces another without it.  By
\* SameEitherWay it is so where the destination is the empty interface.
DuplicatesTold ==
  IsMap =>
    LET pairs == Pairs IN
    \A dm \in {m \in Modes : m.noDups}, x \in Maps :
      Tells(Into(dm, x), Entries(x.cur), AllPairs([data |-> data, dm |-> dm], x.ty, pairs))

HasEntries(r, m) == r.err = "nil" => r.val[2] = m

PairsAlone(x, pairs) ==
  \A dm \in Modes :
    HasEntries(Into(dm, x),
               Updated(Entries(x.cur), AllPairs([data |-> data, dm |-> dm], x.ty, pairs)))

\* The destinations of a key and of an element are used again from pair to
\* pair.  In a map of interfaces, slices, arrays, maps, structs or pointers an
\* entry is what its pair says all the same, and nothing of the pair before, nor
\* of what the map held under its key.
EntriesIndependent ==
  IsMap =>
    LET pairs == Pairs IN
    \A x \in {y \in Maps : ~Immutable(y.ty.key) /\ ~Immutable(y.ty.elem)} : PairsAlone(x, pairs)

\* "unmarshalling CBOR null and undefined value into any other Go type has no
\* effect": so in a map of numbers, strings or booleans, a null makes a zero.
\* It makes what the pair before had.
NullHasNoEffect ==
  IsMap =>
    LET pairs == Pairs IN
    \A x \in {y \in Maps : Immutable(y.ty.elem)} : PairsAlone(x, pairs)
=============================================================================
