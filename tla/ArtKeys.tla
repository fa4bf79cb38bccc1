------------------------------ MODULE ArtKeys ------------------------------
(***************************************************************************)
(* The encoders of art_map (container/art_map.hpp): a number becomes a     *)
(* sequence of bytes, the high one first, in the order of the numbers.     *)
(* Numbers have NumberBits bits; of those of a floating point number one   *)
(* is the sign, MantissaBits the mantissa and the rest the exponent.       *)
(***************************************************************************)
EXTENDS Integers, Sequences

CONSTANTS ByteBits, NumberBits, MantissaBits

ByteMod == 2 ^ ByteBits
Mod     == 2 ^ NumberBits
Half    == Mod \div 2
Length  == NumberBits \div ByteBits

HighFirst(u) == [i \in 1 .. Length |-> (u \div ByteMod ^ (Length - i)) % ByteMod]

Unsigned(k) == HighFirst(k)

\* The top bit is flipped.
Signed(k) == HighFirst((k + Half) % Mod)

\* -0 becomes 0; a negative number is complemented, the top bit of another is set.
Zero(bits) == bits % Half = 0
Float(bits) == LET b == IF Zero(bits) THEN 0 ELSE bits IN
               IF b >= Half THEN HighFirst(Mod - 1 - b) ELSE HighFirst(b + Half)

-----------------------------------------------------------------------------
MantissaMod == 2 ^ MantissaBits
MaxExponent == (Half \div MantissaMod) - 1

\* What the bits of a floating point number stand for, in units of the least one; infinity is the next.
Magnitude(bits) == LET e == (bits % Half) \div MantissaMod  f == bits % MantissaMod IN
                   IF e = 0 THEN f ELSE (MantissaMod + f) * 2 ^ (e - 1)
Number(bits) == IF bits >= Half THEN -Magnitude(bits) ELSE Magnitude(bits)
IsNaN(bits)  == (bits % Half) \div MantissaMod = MaxExponent /\ bits % MantissaMod # 0

Below(a, b) == \E i \in 1 .. Length : a[i] < b[i] /\ \A j \in 1 .. i - 1 : a[j] = b[j]
Agree(a, b, x, y) == (Below(a, b) <=> x < y) /\ (a = b <=> x = y)

\* Numbers are in the order of their encodings, and equal numbers, 0 and -0 too, have one encoding.
EncodersOrdered ==
  /\ \A x, y \in 0 .. Mod - 1 : Agree(Unsigned(x), Unsigned(y), x, y)
  /\ \A x, y \in -Half .. Half - 1 : Agree(Signed(x), Signed(y), x, y)
  /\ \A x, y \in {b \in 0 .. Mod - 1 : ~IsNaN(b)} : Agree(Float(x), Float(y), Number(x), Number(y))
=============================================================================
