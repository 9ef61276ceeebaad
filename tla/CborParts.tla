----------------------------- MODULE CborParts -----------------------------
(***************************************************************************)
(* Data that arrives byte by byte, every sequence over Alphabet: what the  *)
(* validation and the scanning of CborItems find in it, now and after more *)
(* has arrived.                                                            *)
(***************************************************************************)
EXTENDS CborItems

CONSTANTS
  Alphabet,  \* the bytes that arrive
  Starts,    \* what is there at first
  MaxMore    \* bound: how many bytes arrive

ASSUME ArrivalAssumption ==
  Alphabet \subseteq Octet /\ Starts \subseteq Seq(Octet) /\ MaxMore \in Nat

VARIABLES data, more

vars == <<data, more>>

Init == data \in Starts /\ more = 0

Undecided(s) == Valid(s).err \in {"EOF", "UnexpectedEOF"}

\* One byte more than what decides the matter, and then no more.
Arrive ==
  /\ more < MaxMore
  /\ data # <<>> => Undecided(Front(data))
  /\ \E b \in Alphabet : data' = Append(data, b)
  /\ more' = more + 1

Next == Arrive

Spec == Init /\ [][Next]_vars

Complete == Valid(data).err = "nil"
Whole == Complete /\ Valid(data).off = Len(data)

\* What is found in data is not changed by data that arrives later: a complete
\* item stays complete and of the same length, an error stays that error.  So a
\* stream decoder that validates a part of an item has to wait for more only if
\* the error is UnexpectedEOF, and may start over from the first byte.
PrefixStable == [][~Undecided(data) => Valid(data') = Valid(data)]_data

\* skip, which does no bounds checking, ends where validation ended, so it never
\* leaves data that was validated.
SkipAgrees == Complete => Skip(data, 0) = Valid(data).off
=============================================================================
