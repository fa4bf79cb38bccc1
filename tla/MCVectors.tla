----------------------------- MODULE MCVectors -----------------------------
(***************************************************************************)
(* Small instances of the vectors, the bitmaps and the sorted index.  Each *)
(* behaviour of Spec is that of two objects of one of these classes, or of *)
(* one index.  Two elements fit inside a small_vectra, so that the cases   *)
(* of inline and allocated storage meet; words have two or three bits, so  *)
(* that a few bits make a word, a register and a remainder.                *)
(***************************************************************************)
EXTENDS Slots

CONSTANTS
  Obj, v1, v2,  \* the objects, the members of Value
  Stale,        \* content of a cell
  Arch          \* of the bitmaps' single calls

VARIABLES kind, vec, fixed, flags, maps, behind, data, index, given, status

vars == <<kind, vec, fixed, flags, maps, behind, data, index, given, status>>

Lists == {<<>>, <<v1, v2>>, <<v2, v1, v1>>}
Bools == {<<>>, <<TRUE, FALSE>>, <<FALSE, TRUE, TRUE>>}

SM == INSTANCE SmallVectra WITH Inline <- 2, Given <- Lists, MaxCapacity <- 4, MaxTotal <- 3
ST == INSTANCE StaticVectra WITH Room <- 4, Given <- Lists, MaxTotal <- 4
BO == INSTANCE BooleanVector WITH Inline <- 2, Given <- Bools, Step <- 2, LaneMod <- 2,
                                  FoldEvery <- 1, MaxCapacity <- 6, MaxTotal <- 4
BM == INSTANCE Bitmap WITH WordBits <- 2, ByteBits <- 2, LaneMod <- 4, PopFold <- 1,
                           VectorWords <- 2, MaxBits <- 4, Query <- {<<>>, <<0, 3, 1>>, <<2, 2>>}
SB == INSTANCE StaticBitmap WITH WordBits <- 3, ByteBits <- 3, LaneMod <- 8, PopFold <- 2,
                                 VectorWords <- 2, NumBits <- 4, Spreads <- {3, 13},
                                 Query <- {<<>>, <<0, 3, 1>>, <<2, 9, 4, 0, 1, 3>>}
SI == INSTANCE SortedIndex WITH MaxKey <- 4, MaxPairs <- 5, OffsetMod <- 9

ASSUME ConstantsFit == SM!SmallConstants /\ ST!StaticConstants

Init ==
  /\ SM!Init /\ ST!Init /\ BO!Init /\ BM!Init /\ SB!Init /\ SI!Init
  /\ kind \in {"small", "static", "boolean", "bitmap", "static_bitmap", "multimap"}
Next ==
  /\ UNCHANGED kind
  /\ \/ kind = "small" /\ SM!Next /\ UNCHANGED <<fixed, flags, maps, behind, data, index, given>>
     \/ kind = "static" /\ ST!Next /\ UNCHANGED <<vec, flags, maps, behind, data, index, given>>
     \/ kind = "boolean" /\ BO!Next /\ UNCHANGED <<vec, fixed, maps, behind, data, index, given, status>>
     \/ kind = "bitmap" /\ BM!Next /\ UNCHANGED <<vec, fixed, flags, data, index, given, status>>
     \/ kind = "static_bitmap" /\ SB!Next
        /\ UNCHANGED <<vec, fixed, flags, maps, behind, index, given, status>>
     \/ kind = "multimap" /\ SI!Next
        /\ UNCHANGED <<vec, fixed, flags, maps, behind, data, status>>
Spec == Init /\ [][Next]_vars

\* The slots of the elements hold elements and no others do; no bit is set past the last one
\* (small_vectra.hpp:92, static_vectra.hpp:124, boolean_vector.hpp:490, bitmap.hpp:1105).
SlotsHeld == /\ kind = "small"   => SM!SlotsHeld
             /\ kind = "static"  => ST!SlotsHeld
             /\ kind = "boolean" => BO!CellsSet
             /\ SB!SparesClear

\* Counting in the lanes of a register counts right, and the bulk operations reach every word, on every
\* architecture (boolean_vector.hpp:565, bitmap.hpp:282).
LanesRight == /\ BO!CountsRight
              /\ kind = "static_bitmap" => SB!PopcountRight /\ SB!BulkRight

\* Iterators visit the set bits in order, and each lookup of the index is one span, the right one
\* (bitmap.hpp:1020, immutable_ordered_multimap.hpp:56).
QueriesRight == /\ BM!WalksRight /\ SB!WalksRight
                /\ kind = "multimap" => SI!SpansRight

\* Each object is a sequence, of elements or of bits.
ImplementsVector == SM!ImplementsVector /\ ST!ImplementsVector /\ BO!ImplementsVector
ImplementsBits   == BM!ImplementsBits /\ SB!ImplementsBits
ImplementsSequence == ImplementsVector /\ ImplementsBits
=============================================================================
