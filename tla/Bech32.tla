------------------------------- MODULE Bech32 -------------------------------
(***************************************************************************)
(* internal/bech32/bech32.go.  Strings are sequences of character codes.   *)
(* A word of the checksum is the set of its bits that are one, so that     *)
(* exclusive or is the symmetric difference.                               *)
(***************************************************************************)
EXTENDS Integers, Sequences, FiniteSets, SequencesExt

Upper == 65 .. 90
Lower == 97 .. 122

ToLower(s) == [i \in DOMAIN s |-> IF s[i] \in Upper THEN s[i] + 32 ELSE s[i]]

MixedCase(s) == (\E i \in DOMAIN s : s[i] \in Upper) /\ (\E i \in DOMAIN s : s[i] \in Lower)

One == 49

\* qpzry9x8gf2tvdw0s3jn54khce6mua7l
Charset ==
  <<113, 112, 122, 114, 121, 57, 120, 56, 103, 102, 50, 116, 118, 100, 119, 48,
    115, 51, 106, 110, 53, 52, 107, 104, 99, 101, 54, 109, 117, 97, 55, 108>>

Digits == [c \in ToSet(Charset) |-> (CHOOSE i \in 1 .. 32 : Charset[i] = c) - 1]

Chars(values) == [i \in DOMAIN values |-> Charset[values[i] + 1]]

(***************************************************************************)
(* The checksum.                                                           *)
(***************************************************************************)
Xor(a, b) == (a \ b) \cup (b \ a)
Bits(n, width) == {b \in 0 .. width - 1 : (n \div 2 ^ b) % 2 = 1}

\* 0x3b6a57b2, 0x26508e6d, 0x1ea119fa, 0x3d4233dd, 0x2a1462b3.
Generator ==
  LET numbers == <<996825010, 642813549, 513874426, 1027748829, 705979059>> IN
  [i \in 0 .. 4 |-> Bits(numbers[i + 1], 30)]

\* The five bits of a value.
Five == [v \in 0 .. 255 |-> Bits(v, 8)]

\* What the bits that are shifted out add: a bit that is in an odd number of
\* their generators.
Carried ==
  [top \in SUBSET (0 .. 4) |->
     {b \in 0 .. 29 : Cardinality({i \in top : b \in Generator[i]}) % 2 = 1}]

\* Faulty: the bits that are shifted out are lost.
ShiftOnly(chk, v) == Xor({b + 5 : b \in chk \cap 0 .. 24}, Five[v])

Step(chk, v) ==
  Xor(Xor({b + 5 : b \in chk \cap 0 .. 24}, Five[v]), Carried[{b - 25 : b \in chk \cap 25 .. 29}])

Polymod(values) ==
  LET chk[n \in 0 .. Len(values)] ==
        IF n = 0 THEN {0} ELSE Step(chk[n - 1], values[n])
  IN  chk[Len(values)]

HrpExpand(hrp) ==
  LET low == ToLower(hrp) IN
  [i \in DOMAIN low |-> low[i] \div 32] \o <<0>> \o [i \in DOMAIN low |-> low[i] % 32]

VerifyChecksum(hrp, values) == Polymod(HrpExpand(hrp) \o values) = {0}

\* The number that bits make, the highest first.
Value(bits) ==
  LET number[n \in 0 .. Len(bits)] ==
        IF n = 0 THEN 0 ELSE 2 * number[n - 1] + bits[n]
  IN  number[Len(bits)]

CreateChecksum(hrp, values) ==
  LET mod == Xor(Polymod(HrpExpand(hrp) \o values \o <<0, 0, 0, 0, 0, 0>>), {0}) IN
  [p \in 1 .. 6 |-> Value([i \in 1 .. 5 |-> IF 5 * (6 - p) + (5 - i) \in mod THEN 1 ELSE 0])]

(***************************************************************************)
(* Groups of bits, in place of the accumulator of the code.                *)
(***************************************************************************)
BitsOf(data, frombits) ==
  [j \in 1 .. Len(data) * frombits |->
     (data[(j - 1) \div frombits + 1] \div 2 ^ (frombits - 1 - ((j - 1) % frombits))) % 2]

Whole(bits, tobits) ==
  [g \in 1 .. Len(bits) \div tobits |-> Value(SubSeq(bits, (g - 1) * tobits + 1, g * tobits))]

\* Filled up with zeros, if the last group is not whole.
Padded(bits, tobits) == bits \o [i \in 1 .. (-Len(bits)) % tobits |-> 0]

\* convertBits with and without padding.
Regroup(data, frombits, tobits) == Whole(Padded(BitsOf(data, frombits), tobits), tobits)

Ungroup(data, frombits, tobits) ==
  LET bits == BitsOf(data, frombits)
      rest == Len(bits) % tobits
  IN
  IF rest >= frombits \/ \E j \in Len(bits) - rest + 1 .. Len(bits) : bits[j] = 1
  THEN <<"error">> ELSE <<"ok", Whole(bits, tobits)>>

(***************************************************************************)
(* Strings.  The prefixes that are encoded are lower-case.                 *)
(***************************************************************************)
Encode(hrp, data) ==
  LET values == Regroup(data, 8, 5) IN
  hrp \o <<One>> \o Chars(values) \o Chars(CreateChecksum(hrp, values))

\* strings.LastIndex, counting from 1; 0 if there is none.
Separator(s) == SelectLastInSeq(s, LAMBDA c : c = One)

Decode(s) ==
  LET pos    == Separator(s)
      hrp    == SubSeq(s, 1, pos - 1)
      low    == ToLower(SubSeq(s, pos + 1, Len(s)))
      values == [i \in DOMAIN low |-> Digits[low[i]]]
  IN
  IF \/ MixedCase(s)
     \/ pos < 2 \/ pos + 6 > Len(s)
     \/ ~(ToSet(hrp) \subseteq 33 .. 126)
     \/ ~(ToSet(low) \subseteq ToSet(Charset))
     \/ ~VerifyChecksum(hrp, values)
  THEN <<"error">>
  ELSE Ungroup(SubSeq(values, 1, Len(values) - 6), 5, 8)
=============================================================================
