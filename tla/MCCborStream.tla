---------------------------- MODULE MCCborStream ----------------------------
EXTENDS CborStream, CborItems

\* Integers, a string, arrays and maps, some of indefinite length.
MCItems ==
  <<<<129, 0>>, <<68, 1, 2, 3, 4>>, <<159, 129, 7, 255>>, <<24, 200>>, <<1>>,
    <<161, 5, 65, 9>>>>

\* Ends of a stream: at an item, inside a text, with what is not well-formed.
MCCut == <<98, 65>>
MCBad == <<130, 248, 1>>

MCStreams ==
  LET bytes == FlattenSeq(MCItems) IN {bytes, bytes \o MCCut, bytes \o MCBad}

MCScan(s) ==
  IF IsPrefix(MCBad, s) THEN [res |-> "bad", len |-> 0]
  ELSE IF \E t \in Range(MCItems) : IsPrefix(t, s)
  THEN [res |-> "item",
        len |-> Len(CHOOSE t \in Range(MCItems) : IsPrefix(t, s))]
  ELSE IF \E t \in Range(MCItems) \cup {MCCut, MCBad} : IsPrefix(s, t)
  THEN [res |-> "more", len |-> 0]
  ELSE [res |-> "bad", len |-> 0]

\* It finds what valid.go finds wherever an item of a stream may start.
ASSUME MCScanAssumption ==
  \A bytes \in MCStreams :
    \A n \in 0 .. Len(MCItems) :
      LET start == Len(FlattenSeq(SubSeq(MCItems, 1, n))) + 1 IN
      \A end \in start .. Len(bytes) :
        LET part == SubSeq(bytes, start, end) IN MCScan(part) = Scanned(part)
=============================================================================
