---------------------------- MODULE MCAddresses ----------------------------
EXTENDS Addresses

Word == 2 ^ 15

Key(h) == [kind |-> 0, hash |-> <<h>>]
Script(h) == [kind |-> 1, hash |-> <<h>>]
At(slot, txIndex, certIndex) == [slot |-> slot, txIndex |-> txIndex, certIndex |-> certIndex]

Bounds == {0, 127, 128, 16384, Word - 1}

\* Every combination of credentials, and numbers at the bounds of their
\* lengths in every place.
MCWritten ==
  {Base(net, payment, stake) : net \in {"main", "test"}, payment \in {Key(0), Script(255)},
                               stake \in {Key(7), Script(128)}}
    \cup {Pointer("test", Script(200), At(s, t, c)) : s \in Bounds, t \in Bounds, c \in Bounds}
    \cup {Pointer("main", Key(3), At(s, 1, 128)) : s \in Bounds}

\* q, p, l, 1, a capital and a character that is no digit.
MCTyped == {113, 112, 108, 49, 81, 98}

\* As a header: a base address, an enterprise and a reward address of networks
\* there are not, and a Byron address.
MCGarbage == {0, 127, 128, 255}
=============================================================================
