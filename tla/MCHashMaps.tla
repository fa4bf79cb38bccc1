----------------------------- MODULE MCHashMaps -----------------------------
(***************************************************************************)
(* Small instances of the three storages of dense_map.  Each behaviour of  *)
(* TablesSpec is that of one of them: entries in the slots (SwissTable),   *)
(* or apart from Robin Hood buckets (DenseFlat) or control bytes           *)
(* (DenseIndirect).  Groups of two bytes, up to eight slots, and keys      *)
(* whose homes collide and wrap round the end; once more DenseIndirect,    *)
(* with groups that are wider than its least table.                        *)
(***************************************************************************)
EXTENDS SwissTable, TLC

CONSTANTS
  k1, k2, k3, k4, k5,
  FewKey,   \* of DenseIndirect
  FewValue  \* of DenseFlat and DenseIndirect

VARIABLES kind, flat, indirect

tableVars == <<kind, table, flat, indirect, status>>

\* k1, k2 and k3 share a home in a table of 2 or 4, k1 and k2 in a table of 8 and a tag too.
SmallHash   == k1 :> 3 @@ k2 :> 3 @@ k3 :> 7 @@ k4 :> 2 @@ k5 :> 6
SmallTag    == k1 :> "x" @@ k2 :> "x" @@ k3 :> "y" @@ k4 :> "y" @@ k5 :> "x"
SmallFinger == k1 :> 0 @@ k2 :> 1 @@ k3 :> 0 @@ k4 :> 1 @@ k5 :> 0

\* No action or property of SwissTable names a value; FewValue has none of its values.
ValuesAlike == Permutations(Value)

DF == INSTANCE DenseFlat WITH Value <- FewValue, High <- Hash, Finger <- SmallFinger, FingerMod <- 2
DI == INSTANCE DenseIndirect WITH Key <- FewKey, Value <- FewValue
\* Groups of four bytes: the least table is smaller than one.
DN == INSTANCE DenseIndirect WITH Key <- FewKey, Value <- FewValue, GroupWidth <- 4, MaxCapacity <- 4

TablesInit == Init /\ DF!Init /\ DI!Init /\ kind \in {"inline", "flat", "indirect", "narrow"}
TablesNext ==
  /\ UNCHANGED kind
  /\ \/ kind = "inline" /\ Next /\ UNCHANGED <<flat, indirect>>
     \/ kind = "flat" /\ DF!Next /\ UNCHANGED <<table, indirect>>
     \/ kind = "indirect" /\ DI!Next /\ UNCHANGED <<table, flat>>
     \/ kind = "narrow" /\ DN!Next /\ UNCHANGED <<table, flat>>
TablesSpec == TablesInit /\ [][TablesNext]_tableVars

\* Where the entries lie apart, the buckets are a Robin Hood table of them, a lookup ends and leads to the entry it
\* asks for, an erase finds its slot, and entries, tombstones and budget make up the load limit, though the last
\* entry moves into every hole (dense_map.hpp:2373, 2431).
EntriesApart == /\ DF!WellPlaced /\ DF!LookupsRight
                /\ IF kind = "narrow" THEN DN!LookupsRight ELSE DI!LookupsRight
                /\ DI!BudgetKept

\* These storages are unordered maps too.
ApartImplementsMap == DF!ImplementsMap /\ DI!ImplementsMap
=============================================================================
