---------------------------- MODULE StaticBitmap ----------------------------
(***************************************************************************)
(* bitmap.hpp, static_bitmap: NumBits bits in an array of words.  The last *)
(* word has bits to spare, which no call may set.                          *)
(***************************************************************************)
EXTENDS Words

CONSTANTS
  Obj,      \* the objects
  NumBits,  \* of the class, at least 1
  Arch,     \* the architecture of the build
  Query,    \* the id lists of the bulk lookups
  Spreads   \* the lengths of arrays that the bulk operations are checked on

VARIABLE data

num_words == WordsFor(NumBits)
Blank     == Zeroed(num_words)

\* fill: every bit, then not those to spare.
Filled ==
  [w \in 0 .. num_words - 1 |->
     IF w = num_words - 1 /\ NumBits % WordBits # 0 THEN 0 .. (NumBits % WordBits) - 1
     ELSE 0 .. WordBits - 1]

Member(d, id)  == id < NumBits /\ BitAt(d, id)
InList(d, ids) == SelectSeq(ids, LAMBDA id : Member(d, id))
InFlags(d, ids) ==
  [w \in 0 .. num_words - 1 |->
     {b \in 0 .. WordBits - 1 : LET j == w * WordBits + b IN
        j < NumBits /\ j < Len(ids) /\ Member(d, ids[j + 1])}]
-----------------------------------------------------------------------------
Init == data = [o \in Obj |-> Blank]

Become(o, d)   == data' = [data EXCEPT ![o] = d]
Clear(o)       == Become(o, Blank)
Fill(o)        == Become(o, Filled)
PutOne(o, p, x) == Become(o, PutBit(data[o], p, x))
FlipOne(o, p)  == PutOne(o, p, ~BitAt(data[o], p))
Copy(o, p)     == Become(o, data[p])
Combine(op, o, p) == Become(o, Bulk(Arch, op, data[o], data[p], num_words))
In(o, p, ids)  == o # p /\ Become(o, InFlags(data[p], ids))

Next ==
  \E o \in Obj :
    \/ Clear(o) \/ Fill(o)
    \/ \E n \in 0 .. NumBits - 1 : FlipOne(o, n) \/ \E x \in BOOLEAN : PutOne(o, n, x)
    \/ \E p \in Obj : \/ Copy(o, p)
                      \/ \E op \in {"and", "or", "xor", "andnot"} : Combine(op, o, p)
                      \/ \E ids \in Query : In(o, p, ids)

Spec == Init /\ [][Next]_data
-----------------------------------------------------------------------------
\* No call sets a bit to spare, which popcount would count and find_first stop at
\* (bitmap.hpp:1105), and the iterator visits the set bits in order.
SparesClear == \A o \in Obj : \A w \in 0 .. num_words - 1 :
                 \A b \in data[o][w] : w * WordBits + b < NumBits
WalksRight  ==
  \A o \in Obj :
    /\ WalkRight(data[o], NumBits)
    /\ \A ids \in Query : InList(data[o], ids) =
         SelectSeq(ids, LAMBDA id : id \in {p \in 0 .. NumBits - 1 : BitAt(data[o], p)})

\* An array of n words that hold the bits of an object over and over.
Spread(d, n) ==
  [w \in 0 .. n - 1 |-> {b \in 0 .. WordBits - 1 : BitAt(d, (w * WordBits + b) % NumBits)}]

\* On each architecture the loop in registers and the loops behind it come to every word
\* (bitmap.hpp:193, 490, 529), and the lanes that popcount_avx2 adds up in bytes are emptied
\* before they wrap (bitmap.hpp:282).
BulkRight ==
  \A o, p \in Obj, n \in Spreads : LET d == Spread(data[o], n)  s == Spread(data[p], n) IN
    /\ \A arch \in Architectures, op \in {"and", "or", "xor", "andnot"} :
         Bulk(arch, op, d, s, n) = [w \in 0 .. n - 1 |-> Applied(op, d[w], s[w])]
PopcountRight ==
  \A o \in Obj, n \in Spreads, arch \in Architectures :
    LET d == Spread(data[o], n) IN PopCount(arch, d, n) = PopScalar(d, n)

\* Each object is a sequence of NumBits bits.
Promise == INSTANCE Bits WITH
  content <- [o \in Obj |-> [j \in 1 .. NumBits |-> BitAt(data[o], j - 1)]], usable <- TRUE
ImplementsBits == Promise!BitsSpec
=============================================================================
