----------------------------- MODULE Addresses -----------------------------
(***************************************************************************)
(* The addresses of package address: their bytes, their strings and what   *)
(* NewAddress and NewAddressFromBytes make of them.  An address is given   *)
(* away as bytes or as a string, which somebody mistypes or cuts.          *)
(*                                                                         *)
(* Byron addresses are left out but for the place where they are told      *)
(* apart, as is base58.  A hash has HashLen bytes, and an unsigned integer *)
(* is a word of UintMod values.                                            *)
(***************************************************************************)
EXTENDS Bech32

CONSTANTS
  HashLen,    \* 28
  UintMod,    \* 2^64
  Written,    \* the addresses that are given away
  Typed,      \* characters that are typed by mistake
  Garbage,    \* bytes that were not written
  MaxEdits    \* how often

Byte == 0 .. 255
Creds == [kind : {0, 1}, hash : [1 .. HashLen -> Byte]]

\* Seven bits are shifted out of a word as a whole.
ASSUME AddressAssumption ==
  HashLen \in Nat \ {0} /\ UintMod \in Nat \ {0} /\ UintMod % 128 = 0

\* network.NetworkInfo: MainNet, TestNet, or the zero value that the map of
\* networks gives for any other id.
Networks == {"main", "test", "zero"}
NetworkId(net) == IF net = "main" THEN 1 ELSE 0
NetworkOf(id) == IF id = 1 THEN "main" ELSE IF id = 0 THEN "test" ELSE "zero"

Base(net, payment, stake) == [type |-> "base", net |-> net, payment |-> payment, stake |-> stake]
Pointer(net, payment, at) == [type |-> "pointer", net |-> net, payment |-> payment, at |-> at]
Enterprise(net, payment) == [type |-> "enterprise", net |-> net, payment |-> payment]
Reward(net, stake) == [type |-> "reward", net |-> net, stake |-> stake]

\* The addresses there are, with a network of those that NewAddressFromBytes
\* knows.
Address ==
  LET net == {"main", "test"}
      uint64 == 0 .. UintMod - 1
      at == [slot : uint64, txIndex : uint64, certIndex : uint64]
  IN
  [type : {"base"}, net : net, payment : Creds, stake : Creds]
    \cup [type : {"pointer"}, net : net, payment : Creds, at : at]
    \cup [type : {"enterprise"}, net : net, payment : Creds]
    \cup [type : {"reward"}, net : net, stake : Creds]

ASSUME WrittenAssumption == Written \subseteq Address
ASSUME GarbageAssumption == Garbage \subseteq Byte

ToEnterprise(base) == Enterprise(base.net, base.payment)
ToReward(base) == Reward(base.net, base.stake)

(***************************************************************************)
(* Numbers of variable length, seven bits a byte.                          *)
(***************************************************************************)
HighDigits[n \in Nat] ==
  IF n = 0 THEN <<>> ELSE Append(HighDigits[n \div 128], (n % 128) + 128)

\* Faulty: the digits are left in the order in which they are found.
LowDigitsFirst(n) == Reverse(Append(HighDigits[n \div 128], n % 128))

VariableNatEncode(n) == Append(HighDigits[n \div 128], n % 128)

\* The bytes of the first number in raw; 0 if the last of them is missing.
NatLen(raw) == SelectInSeq(raw, LAMBDA b : b < 128)

\* The word into which digits are shifted.
Shifted(digits) ==
  LET output[i \in 0 .. Len(digits)] ==
        IF i = 0 THEN 0 ELSE ((output[i - 1] * 128) % UintMod) + (digits[i] % 128)
  IN  output[Len(digits)]

VariableNatDecode(raw) == Shifted(SubSeq(raw, 1, NatLen(raw)))

(***************************************************************************)
(* To bytes.                                                               *)
(***************************************************************************)
\* Faulty: the network is not in the header.
HeaderOfType(code, net) == code * 16

Header(code, net) == code * 16 + NetworkId(net)

Nats(at) ==
  VariableNatEncode(at.slot) \o VariableNatEncode(at.txIndex) \o VariableNatEncode(at.certIndex)

Bytes(a) ==
  CASE a.type = "base" ->
         <<Header(a.payment.kind + 2 * a.stake.kind, a.net)>> \o a.payment.hash \o a.stake.hash
    [] a.type = "pointer" ->
         <<Header(4 + a.payment.kind, a.net)>> \o a.payment.hash \o Nats(a.at)
    [] a.type = "enterprise" -> <<Header(6 + a.payment.kind, a.net)>> \o a.payment.hash
    [] a.type = "reward" -> <<Header(14 + a.stake.kind, a.net)>> \o a.stake.hash

(***************************************************************************)
(* From bytes.  "unchecked": a slice goes beyond the length of the data,   *)
(* which panics or takes what the array has behind it.                     *)
(***************************************************************************)
ReadAddrCred(data, bit, pos) ==
  [kind |-> (data[1] \div 2 ^ bit) % 2, hash |-> SubSeq(data, pos + 1, pos + HashLen)]

BaseOf(data) ==
  IF Len(data) < 1 + 2 * HashLen THEN <<"unchecked">>
  ELSE <<"ok", Base(NetworkOf(data[1] % 16), ReadAddrCred(data, 4, 1),
                    ReadAddrCred(data, 5, 1 + HashLen))>>

From(s, n) == SubSeq(s, n + 1, Len(s))

\* Faulty: bytes behind the last number are no error.
NoRest(rest) == TRUE

Complete(rest) == rest = <<>>

PointerOf(data) ==
  LET first  == From(data, 1 + HashLen)
      second == From(first, NatLen(first))
      third  == From(second, NatLen(second))
  IN
  IF \/ Len(data) < 1 + HashLen + 3
     \/ 0 \in {NatLen(first), NatLen(second), NatLen(third)}
     \/ ~Complete(From(third, NatLen(third)))
  THEN <<"error">>
  ELSE <<"ok", Pointer(NetworkOf(data[1] % 16), ReadAddrCred(data, 4, 1),
                       [slot      |-> VariableNatDecode(first),
                        txIndex   |-> VariableNatDecode(second),
                        certIndex |-> VariableNatDecode(third)])>>

NewAddressFromBytes(data) ==
  IF data = <<>> THEN <<"panic">>
  ELSE LET code == data[1] \div 16
           net  == NetworkOf(data[1] % 16)
       IN
       CASE code \in 0 .. 3 -> BaseOf(data)
         [] code \in {4, 5} -> PointerOf(data)
         [] code \in {6, 7, 14, 15} ->
              IF Len(data) # 1 + HashLen THEN <<"error">>
              ELSE <<"ok", IF code \in {6, 7} THEN Enterprise(net, ReadAddrCred(data, 4, 1))
                           ELSE Reward(net, ReadAddrCred(data, 4, 1))>>
         [] code = 8 -> <<"byron">>
         [] OTHER -> <<"error">>

(***************************************************************************)
(* Strings.                                                                *)
(***************************************************************************)
addr_ == <<97, 100, 100, 114>>
stake_ == <<115, 116, 97, 107, 101>>
test_ == <<95, 116, 101, 115, 116>>

Prefix(a) ==
  (IF a.type = "reward" THEN stake_ ELSE addr_)
    \o (IF IF a.type = "pointer" THEN a.net = "test" ELSE NetworkId(a.net) = 0
        THEN test_ ELSE <<>>)

\* The library that encodes pointer addresses, another one than the others',
\* takes groups of five bits and fails on a byte that is none; the error is
\* dropped.
PointerText(a) ==
  IF ToSet(Bytes(a)) \subseteq 0 .. 31
  THEN Prefix(a) \o <<One>> \o Chars(Bytes(a)) \o Chars(CreateChecksum(Prefix(a), Bytes(a)))
  ELSE <<>>

Text(a) == IF a.type = "pointer" THEN PointerText(a) ELSE Encode(Prefix(a), Bytes(a))

IsBech32(s) == IsPrefix(addr_, s) \/ IsPrefix(stake_, s)

\* Whatever does not begin like that is base58.
NewAddress(s) ==
  IF ~IsBech32(s) THEN <<"base58">>
  ELSE LET decoded == Decode(s) IN
       IF decoded[1] = "ok" THEN NewAddressFromBytes(decoded[2]) ELSE <<"error">>

(***************************************************************************)
(* An address on its way.                                                  *)
(***************************************************************************)
VARIABLES
  addr,   \* the address that was given away
  raw,    \* its bytes, as they arrive
  text,   \* its string
  edits   \* how often somebody has changed them

vars == <<addr, raw, text, edits>>

Init ==
  /\ addr \in Written
  /\ raw = Bytes(addr) /\ text = Text(addr)
  /\ edits = 0

Mistype ==
  /\ edits < MaxEdits /\ edits' = edits + 1
  /\ \E i \in DOMAIN text, c \in Typed : text' = [text EXCEPT ![i] = c]
  /\ UNCHANGED <<addr, raw>>

Cut ==
  /\ edits < MaxEdits /\ edits' = edits + 1
  /\ raw # <<>> /\ raw' = Front(raw)
  /\ UNCHANGED <<addr, text>>

Extend ==
  /\ edits < MaxEdits /\ edits' = edits + 1
  /\ \E b \in Garbage : raw' = Append(raw, b)
  /\ UNCHANGED <<addr, text>>

Garble ==
  /\ edits < MaxEdits /\ edits' = edits + 1
  /\ \E i \in DOMAIN raw, b \in Garbage : raw' = [raw EXCEPT ![i] = b]
  /\ UNCHANGED <<addr, text>>

\* The enterprise and the reward address of a base address are given away.
Convert ==
  /\ addr.type = "base" /\ edits = 0
  /\ addr' \in {ToEnterprise(addr), ToReward(addr)}
  /\ raw' = Bytes(addr') /\ text' = Text(addr')
  /\ UNCHANGED edits

Next == Mistype \/ Cut \/ Extend \/ Garble \/ Convert

Spec == Init /\ [][Next]_vars

(***************************************************************************)
(* Properties.                                                             *)
(***************************************************************************)
\* What was written is read: from the bytes of every address, and from every
\* string that was encoded.
ReadsBack ==
  edits = 0 =>
    /\ NewAddressFromBytes(raw) = <<"ok", addr>>
    /\ text # <<>> => NewAddress(text) = <<"ok", addr>>

\* A string in which a few characters are wrong is never taken for an address,
\* if it still begins like one.
MistypeFound ==
  text # Text(addr) /\ IsBech32(text) => NewAddress(text) = <<"error">>

\* Bytes of which some are missing, and bytes with more behind them, are never
\* taken for the address nor for another one, base addresses apart.
OnlyWhole ==
  /\ raw # Bytes(addr) /\ addr.type # "base"
  /\ IsPrefix(raw, Bytes(addr)) \/ IsPrefix(Bytes(addr), raw)
  => NewAddressFromBytes(raw) \in {<<"error">>, <<"panic">>}

\* What becomes of an address that is written and read: of a network the package
\* does not know nothing is kept, and its zero value is written as the test
\* network.
Rewritten(a) == [a EXCEPT !.net = IF @ = "zero" THEN "test" ELSE @]

\* Whatever bytes are taken for an address, the address they give is written as
\* bytes that are taken for the same one; only that of an unknown network has
\* moved to the test network.
Reencodes ==
  LET read == NewAddressFromBytes(raw) IN
  read[1] = "ok" => NewAddressFromBytes(Bytes(read[2])) = <<"ok", Rewritten(read[2])>>

\* "String returns bech32 encoded human readable string": of every address.
EveryAddressHasText == edits = 0 => NewAddress(text) = <<"ok", addr>>
=============================================================================
