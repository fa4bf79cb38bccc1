----------------------------- MODULE MCPromises -----------------------------
(***************************************************************************)
(* What comments and tests say of the containers and the code does not do. *)
(* In one behaviour a devectra takes calls until the promises about it are *)
(* broken, then a small_vectra, a bitmap, an immutable multimap, a B-tree  *)
(* together with a skip list, and the storages of dense_map: its last      *)
(* state refutes them all.                                                 *)
(***************************************************************************)
EXTENDS Integers, Sequences, TLC

CONSTANTS
  Value, NoObject, Husk, Clash,                                              \* of SmallVectra
  Dead, DefaultCapacity, GrowthFactor, ShiftThreshold, MaxBuffer, MaxLength,  \* of Devectra
  Key, UniqueKey, MultiKey, LeafSlots, InternalSlots, MaxSize,               \* of BTree
  ListKey, MaxLevel,                                                         \* of SkiplistMap
  HashKey, k1, k2, k3, k4, Hash, Tag, GroupWidth, MinCapacity, MaxCapacity, Empty, Deleted, NoEntry

VARIABLES buffer, offset, size, capacity, life, vec, vecStatus, maps, behind, index, given,
          tree, content, policy, list, amounts, keys, treeStatus,
          table, flat, indirect, hashStatus,
          turn  \* which promises are still to be broken

devectraVars == <<buffer, offset, size, capacity, life>>
smallVars    == <<vec, vecStatus>>
bitmapVars   == <<maps, behind>>
multimapVars == <<index, given>>
orderedVars  == <<tree, content, policy, list, amounts, keys, treeStatus>>
hashVars     == <<table, flat, indirect, hashStatus>>

\* All share a home at the end of a table of 8.
TwinHash   == k1 :> 7 @@ k2 :> 7 @@ k3 :> 7 @@ k4 :> 7
TwinTag    == k1 :> "x" @@ k2 :> "x" @@ k3 :> "y" @@ k4 :> "y"
TwinFinger == k1 :> 0 @@ k2 :> 1 @@ k3 :> 0 @@ k4 :> 1

DV == INSTANCE Devectra WITH status <- life, Count <- {}, MaxCapacity <- MaxBuffer, MaxSize <- MaxLength
SM == INSTANCE SmallVectra WITH Raw <- NoObject, Obj <- {1}, Inline <- 2, Given <- {}, status <- vecStatus,
                                MaxCapacity <- 4, MaxTotal <- 3
BM == INSTANCE Bitmap WITH Obj <- {1}, WordBits <- 2, ByteBits <- 2, LaneMod <- 4, PopFold <- 1,
                           VectorWords <- 2, MaxBits <- 4, Query <- {}, Arch <- "scalar"
\* Offsets of two bits.
SI == INSTANCE SortedIndex WITH MaxKey <- 1, MaxPairs <- 4, OffsetMod <- 4
BT == INSTANCE BTree WITH status <- treeStatus
SL == INSTANCE SkiplistMap WITH Key <- ListKey, content <- amounts, status <- treeStatus
In == INSTANCE SwissTable WITH Key <- HashKey, status <- hashStatus, Raw <- NoEntry
DF == INSTANCE DenseFlat WITH Key <- HashKey, status <- hashStatus, High <- Hash, Finger <- TwinFinger, FingerMod <- 2,
                             Raw <- NoEntry
DI == INSTANCE DenseIndirect WITH Key <- HashKey, status <- hashStatus, Raw <- NoEntry

\* At least one of the promises holds.
DevectraAsCommented == DV!PushFits \/ DV!ResizeFits
OrderedAsCommented ==
  \/ BT!EraseReturns \/ BT!RangesErase \/ BT!PredicatesErase
  \/ BT!HintsRight \/ BT!HintsInsert \/ BT!SwapsWhole \/ BT!EndStays
  \/ SL!ExtractsOne \/ SL!MergeLeaves
HashAsCommented == In!CopiesFind \/ In!ClearsBudget \/ DF!RangesErase \/ DI!RangesErase

Init ==
  /\ DV!Init /\ size = 4 /\ SM!Init /\ BM!Init /\ SI!Init
  /\ BT!Init /\ SL!Init /\ policy = "multi" /\ keys = "strings"
  /\ In!Init /\ DF!Init /\ DI!Init
  /\ turn = "devectra"

\* The calls that break them, and those that remain when they are broken.
DevectraCall == DV!Erase(0, 4) /\ UNCHANGED <<smallVars, bitmapVars, multimapVars, orderedVars, hashVars>>
SmallCall ==
  /\ SM!PushBack(1, CHOOSE v \in Value : TRUE) \/ SM!Reserve(1, 3) \/ SM!ShrinkToFit(1)
  /\ UNCHANGED <<devectraVars, bitmapVars, multimapVars, orderedVars, hashVars>>
BitmapCall ==
  /\ BM!Resize(1, 1) \/ BM!PutOne(1, 0, TRUE)
  /\ UNCHANGED <<devectraVars, smallVars, multimapVars, orderedVars, hashVars>>
MultimapCall == SI!Build /\ UNCHANGED <<devectraVars, smallVars, bitmapVars, orderedVars, hashVars>>
OrderedCall ==
  /\ \E k \in ListKey : BT!Insert(k) /\ SL!Insert(k, 0)
  /\ UNCHANGED <<devectraVars, smallVars, bitmapVars, multimapVars, hashVars>>
HashCall ==
  /\ \E k \in HashKey :
       \/ \E v \in Value : In!Insert(k, v) /\ DF!Insert(k, v) /\ DI!Insert(k, v)
       \/ In!Erase(k) /\ DF!Erase(k) /\ DI!Erase(k)
  /\ UNCHANGED <<devectraVars, smallVars, bitmapVars, multimapVars, orderedVars>>

\* The next container, once no promise about this one holds.
Turn(from, to, holds) == /\ turn = from /\ ~holds /\ turn' = to
                         /\ UNCHANGED <<devectraVars, smallVars, bitmapVars, multimapVars, orderedVars, hashVars>>

Next ==
  \/ turn = "devectra" /\ DevectraCall /\ UNCHANGED turn
  \/ Turn("devectra", "small", DevectraAsCommented)
  \/ turn = "small" /\ SM!BuffersEmptied /\ SmallCall /\ UNCHANGED turn
  \/ Turn("small", "bitmap", SM!BuffersEmptied)
  \/ turn = "bitmap" /\ BM!ResizeClears /\ BitmapCall /\ UNCHANGED turn
  \/ Turn("bitmap", "multimap", BM!ResizeClears)
  \/ turn = "multimap" /\ MultimapCall /\ UNCHANGED turn
  \/ Turn("multimap", "ordered", SI!SpansRight)
  \/ turn = "ordered" /\ OrderedCall /\ UNCHANGED turn
  \/ Turn("ordered", "hash", OrderedAsCommented)
  \/ turn = "hash" /\ HashCall /\ UNCHANGED turn
Spec == Init /\ [][Next]_<<devectraVars, smallVars, bitmapVars, multimapVars, orderedVars, hashVars, turn>>

\* A promise of a comment or a test, about one of the containers, holds.
SomeAsCommented == \/ DevectraAsCommented \/ SM!BuffersEmptied \/ BM!ResizeClears \/ SI!SpansRight
                   \/ HashAsCommented \/ OrderedAsCommented
=============================================================================
