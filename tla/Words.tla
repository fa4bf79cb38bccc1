------------------------------- MODULE Words -------------------------------
(***************************************************************************)
(* bitmap.hpp, bitmap_detail: operations over arrays of words, as each     *)
(* architecture does them, in registers of several words and then in       *)
(* smaller ones.  An array is a function from 0 .. n - 1 to words and a    *)
(* word the set of its bits.                                               *)
(***************************************************************************)
EXTENDS Integers, Sequences, SequencesExt

CONSTANTS
  WordBits,    \* kBitsPerWord
  ByteBits,    \* 8, the bits that one lane of popcount_avx2 adds at a time
  LaneMod,     \* 2^8, what a lane counts to
  PopFold,     \* kFoldEvery
  VectorWords  \* svcntd()

WordsFor(n) == (n + WordBits - 1) \div WordBits
Zeroed(n)   == [w \in 0 .. n - 1 |-> {}]
BitAt(d, p) == p % WordBits \in d[p \div WordBits]
PutBit(d, p, x) ==
  [d EXCEPT ![p \div WordBits] = IF x THEN @ \cup {p % WordBits} ELSE @ \ {p % WordBits}]

Applied(op, x, y) ==
  CASE op = "and"    -> x \cap y
    [] op = "or"     -> x \cup y
    [] op = "xor"    -> (x \cup y) \ (x \cap y)
    [] op = "andnot" -> x \ y

\* Where loops of these steps, one after the other, have come to when none fits before n.
Reached(n, steps) == FoldLeft(LAMBDA i, step : i + ((n - i) \div step) * step, 0, steps)
UpTo(op, d, s, n) == [w \in DOMAIN d |-> IF w < n THEN Applied(op, d[w], s[w]) ELSE d[w]]

Scalar(op, d, s, n) == UpTo(op, d, s, Reached(n, <<1>>))
Sse2(op, d, s, n)   == UpTo(op, d, s, Reached(n, <<2, 1>>))
Avx2Tailless(op, d, s, n) == UpTo(op, d, s, Reached(n, <<4, 2>>))  \* mutant
Avx2(op, d, s, n)   == UpTo(op, d, s, Reached(n, <<4, 2, 1>>))
Avx512(op, d, s, n) == UpTo(op, d, s, Reached(n, <<8, 4, 1>>))
Neon(op, d, s, n)   == UpTo(op, d, s, Reached(n, <<2, 1>>))
\* One predicated register takes what is left.
Sve(op, d, s, n)    == LET i == Reached(n, <<VectorWords>>) IN
                       UpTo(op, d, s, IF i + VectorWords > n THEN n ELSE i + VectorWords)

\* bitmap_and, bitmap_or, bitmap_xor, bitmap_andnot of a build.
Architectures == {"avx512", "avx2", "sse2", "sve", "neon", "scalar"}
Bulk(arch, op, d, s, n) ==
  CASE arch = "avx512" -> Avx512(op, d, s, n)
    [] arch = "avx2"   -> Avx2(op, d, s, n)
    [] arch = "sse2"   -> Sse2(op, d, s, n)
    [] arch = "sve"    -> Sve(op, d, s, n)
    [] arch = "neon"   -> Neon(op, d, s, n)
    [] OTHER           -> Scalar(op, d, s, n)

-----------------------------------------------------------------------------
(* popcount: lanes wide enough for any sum, but for AVX2.                  *)

Ones(d, words) == MapThenSumSet(LAMBDA w : Cardinality(d[w]), words)
PopScalar(d, n) == Ones(d, 0 .. n - 1)
PopNeon(d, n)   == Ones(d, 0 .. Reached(n, <<2>>) - 1) + Ones(d, Reached(n, <<2>>) .. n - 1)
PopAvx512(d, n) == Ones(d, 0 .. Reached(n, <<8>>) - 1) + Ones(d, Reached(n, <<8>>) .. n - 1)
PopSve(d, n)    == LET i == Reached(n, <<VectorWords>>) IN
                   Ones(d, 0 .. i - 1) + Ones(d, i .. n - 1)

Byte(x, b) == x \cap ((b * ByteBits) .. (b * ByteBits + ByteBits - 1))

\* What the lane of byte b of the words 4 * k + l holds when its n-th fold comes.
Folded(d, n, l, b, fold) ==
  MapThenSumSet(LAMBDA k : Cardinality(Byte(d[4 * k + l], b)),
                {k \in 0 .. (n \div 4) - 1 : k \div PopFold = fold}) % LaneMod

PopAvx2(d, n) ==
  MapThenSumSet(LAMBDA lane : Folded(d, n, lane[1], lane[2], lane[3]),
                (0 .. 3) \X (0 .. (WordBits \div ByteBits) - 1) \X (0 .. n \div 4))
    + Ones(d, Reached(n, <<4>>) .. n - 1)

PopCount(arch, d, n) ==
  CASE arch = "avx512" -> PopAvx512(d, n)
    [] arch = "avx2"   -> PopAvx2(d, n)
    [] arch = "sve"    -> PopSve(d, n)
    [] arch = "neon"   -> PopNeon(d, n)
    [] OTHER           -> PopScalar(d, n)

-----------------------------------------------------------------------------
(* The first set bit, and the next, below size: the lowest bit of the      *)
(* first word that has one.                                                *)

None == -1
Lowest(x) == CHOOSE p \in x : \A q \in x : p <= q
FirstFrom(d, first, size) ==
  LET held == {w \in first .. WordsFor(size) - 1 : d[w] # {}} IN
  IF held = {} THEN None
  ELSE LET p == Lowest(held) * WordBits + Lowest(d[Lowest(held)]) IN IF p < size THEN p ELSE None

FindFirst(d, size) == FirstFrom(d, 0, size)
FindNextUnmasked(d, pos, size) ==  \* mutant
  IF pos + 1 >= size THEN None ELSE FirstFrom(d, (pos + 1) \div WordBits, size)
FindNext(d, pos, size) ==
  LET start == pos + 1
      w     == start \div WordBits
      after == {p \in d[w] : p >= start % WordBits}
      found == w * WordBits + Lowest(after)
  IN IF start >= size THEN None
     ELSE IF after = {} THEN FirstFrom(d, w + 1, size)
     ELSE IF found < size THEN found ELSE None

\* What a scan of the bits finds.
NextBit(d, start, size) ==
  LET ahead == {p \in start .. size - 1 : BitAt(d, p)} IN IF ahead = {} THEN None ELSE Lowest(ahead)
WalkRight(d, size) ==
  /\ FindFirst(d, size) = NextBit(d, 0, size)
  /\ \A p \in 0 .. size - 1 : FindNext(d, p, size) = NextBit(d, p + 1, size)
=============================================================================
