------------------------------ MODULE CborLen ------------------------------
(***************************************************************************)
(* How many bytes the CBOR encoding of a transaction takes.  Only lengths  *)
(* are modelled: the fee is a linear function of the length, and nothing   *)
(* else in the builder depends on the bytes themselves.                    *)
(***************************************************************************)
EXTENDS Integers

CONSTANTS
  Head8,        \* first value whose head takes one more byte    (24)
  Head16,       \* first value whose head takes two more bytes   (2^8)
  Head32,       \* first value whose head takes four more bytes  (2^16)
  Head64,       \* first value whose head takes eight more bytes (2^32)
  InputLen      \* length of one encoded input, its index included

ASSUME HeadAssumption ==
  /\ {Head8, Head16, Head32, Head64} \subseteq Nat
  /\ 0 < Head8 /\ Head8 < Head16 /\ Head16 < Head32 /\ Head32 < Head64

ASSUME LenAssumption == InputLen \in Nat

\* Length of the head of a data item whose argument (an integer, or the
\* length of a string, array or map) is n, as the library github.com/fxamacker/
\* cbor writes it, whose Marshal the packages tx and address call.
HeadLen(n) ==
  IF n < Head8 THEN 1
  ELSE IF n < Head16 THEN 2
  ELSE IF n < Head32 THEN 3
  ELSE IF n < Head64 THEN 5 ELSE 9

\* The kinds of address an output may pay to.
AddrKinds == {"base", "enterprise", "reward"}

\* Length of the byte string of an address, with its two-byte head.
AddrLen(k) == IF k = "base" THEN 2 + 57 ELSE 2 + 29

\* A reward address hands the encoder the method r.Bytes instead of its
\* result.  The encoder does not know how to encode a function, so encoding
\* an output that pays to a reward address fails.
Marshals(k) == k # "reward"

\* Witness: an array of a 32-byte key and a 64-byte signature.
WitnessLen == 1 + (2 + 32) + (2 + 64)

\* n witnesses and s bytes of native scripts; an empty list is omitted.
WitnessSetLen(n, s) ==
  1 + (IF n = 0 THEN 0 ELSE 1 + HeadLen(n) + n * WitnessLen) + s
=============================================================================
