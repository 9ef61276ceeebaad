----------------------------- MODULE CborFloats -----------------------------
(***************************************************************************)
(* Binary floating-point numbers of 2, 4 and 8 bytes: what a decoder makes *)
(* of them, and the widths that the encoder may write a number in without  *)
(* changing it.  A number is the same in all widths: its sign, whether it  *)
(* is zero, "special" (an infinity or NaN) or an ordinary number, and then *)
(* its exponent and the bits behind the leading one, down to the last one. *)
(***************************************************************************)
EXTENDS Integers, Sequences, SequencesExt, FiniteSetsExt

Zeros(n) == [i \in 1 .. n |-> 0]
Ones(n) == [i \in 1 .. n |-> 1]

ToBits(n, w) == [i \in 1 .. w |-> (n \div 2 ^ (w - i)) % 2]
OfBits(bits) == FoldLeft(LAMBDA n, b : 2 * n + b, 0, bits)

BitsOf(bytes) == FlattenSeq([i \in DOMAIN bytes |-> ToBits(bytes[i], 8)])
BytesOf(bits) == [i \in 1 .. Len(bits) \div 8 |-> OfBits(SubSeq(bits, 8 * i - 7, 8 * i))]

ExpBits(w) == CASE w = 2 -> 5 [] w = 4 -> 8 [] w = 8 -> 11
FracBits(w) == 8 * w - 1 - ExpBits(w)
Bias(w) == 2 ^ (ExpBits(w) - 1) - 1

\* Without the zeros at the end.
Trimmed(bits) == SubSeq(bits, 1, Max({0} \cup {i \in DOMAIN bits : bits[i] = 1}))

FloatV(sign, class, exp, frac) ==
  [sign |-> sign, class |-> class, exp |-> exp, frac |-> Trimmed(frac)]

\* A subnormal number whose first one is the k-th bit of frac.
Subnormal(sign, w, frac, k) ==
  FloatV(sign, "number", 1 - Bias(w) - k, SubSeq(frac, k + 1, Len(frac)))

FloatFrom(sign, exp, frac, w) ==
  CASE exp = 2 ^ ExpBits(w) - 1 -> FloatV(sign, "special", 0, frac)
    [] exp = 0 /\ Trimmed(frac) = <<>> -> FloatV(sign, "zero", 0, frac)
    [] exp = 0 /\ Trimmed(frac) # <<>> ->
         Subnormal(sign, w, frac, Min({i \in DOMAIN frac : frac[i] = 1}))
    [] OTHER -> FloatV(sign, "number", exp - Bias(w), frac)

FloatOfBits(bits, w) ==
  FloatFrom(bits[1], OfBits(SubSeq(bits, 2, 1 + ExpBits(w))),
            SubSeq(bits, 2 + ExpBits(w), 8 * w), w)

\* The number that the bytes are.
FloatOf(bytes) == FloatOfBits(BitsOf(bytes), Len(bytes))

PositionedOne(sign, bits, k) ==
  FloatV(sign, "number", Len(bits) - k, SubSeq(bits, k + 1, Len(bits)))

\* The conversion of an integer; n < 0 stands for one above the greatest int64.
FloatOfInt(sign, n) ==
  CASE n = 0 -> FloatV(sign, "zero", 0, <<>>)
    [] n > 0 -> PositionedOne(sign, ToBits(n, 30), Min({i \in 1 .. 30 : ToBits(n, 30)[i] = 1}))
    [] n < 0 -> FloatV(sign, "number", 63, <<>>)

PlusZero == FloatV(0, "zero", 0, <<>>)
IsNaN(f) == f.class = "special" /\ f.frac # <<>>
IsInf(f) == f.class = "special" /\ f.frac = <<>>

\* How far below the least normal exponent the number is.
Below(f, w) == IF f.class = "number" /\ f.exp < 1 - Bias(w) THEN 1 - Bias(w) - f.exp ELSE 0

\* Faulty: subnormal numbers lose bits at the end.
FitsNormal(f, w) ==
  /\ Len(f.frac) <= FracBits(w)
  /\ f.class = "number" => 1 - Bias(w) - FracBits(w) <= f.exp /\ f.exp <= Bias(w)

\* The number can be written in w bytes.
FitsIn(f, w) ==
  /\ Len(f.frac) <= FracBits(w) - Below(f, w)
  /\ f.class = "number" => f.exp <= Bias(w)

Padded(bits, n) == SubSeq(bits \o Zeros(n), 1, n)

ExpField(f, w) ==
  CASE f.class = "special" -> Ones(ExpBits(w))
    [] f.class = "number" /\ Below(f, w) = 0 -> ToBits(f.exp + Bias(w), ExpBits(w))
    [] OTHER -> Zeros(ExpBits(w))

FracField(f, w) ==
  Padded(IF Below(f, w) > 0 THEN Zeros(Below(f, w) - 1) \o <<1>> \o f.frac ELSE f.frac,
         FracBits(w))

FloatBytes(f, w) == BytesOf(<<f.sign>> \o ExpField(f, w) \o FracField(f, w))

\* The least of the widths up to w that the number fits in.
Shortest(f, w) == Min({v \in {2, 4, 8} : v = w \/ (v < w /\ FitsIn(f, v))})

Quieted(f) == [f EXCEPT !.frac = <<1>> \o Tail(@)]

\* encodeNaN, encodeInf and encodeFloat: the bytes of a float of width w.
NaNBytes(mode, f, w) ==
  CASE mode = "7e00" -> <<126, 0>>
    [] mode = "none" -> FloatBytes(f, w)
    [] mode = "preserve" -> FloatBytes(f, Shortest(f, w))
    [] mode = "quiet" -> FloatBytes(Quieted(f), Shortest(Quieted(f), w))

EncodedFloat(em, f, w) ==
  CASE IsNaN(f) -> NaNBytes(em.nan, f, w)
    [] IsInf(f) -> FloatBytes(f, IF em.inf = "float16" THEN 2 ELSE w)
    [] OTHER -> FloatBytes(f, IF em.float = "none" THEN w ELSE Shortest(f, w))
=============================================================================
