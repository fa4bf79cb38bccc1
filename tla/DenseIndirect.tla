--------------------------- MODULE DenseIndirect ---------------------------
(***************************************************************************)
(* dense_map with indirect storage (container/dense_map.hpp): a Swiss      *)
(* table whose slots hold places in an array of entries without gaps.      *)
(*                                                                         *)
(* The array of entries grows when it must; an allocation that fails there *)
(* leaves the table as it was, and so does one for a rehash of a table     *)
(* without storage.                                                        *)
(***************************************************************************)
EXTENDS ControlBytes, Sequences, SequencesExt

VARIABLES
  indirect,  \* [ctrl, index, values, growth, cap]: ctrl_, value_indices_, values_ and size_, growth_left_, capacity_
  status     \* "whole", or "torn": the control bytes do not tell where the entries are, or "counted": capacity_
             \* belongs to storage that was never allocated

vars == <<indirect, status>>

NoIndirect == [ctrl |-> <<>>, index |-> <<>>, values |-> <<>>, growth |-> 0, cap |-> 0]

Fresh(values, cap) ==
  [ctrl |-> [i \in 0 .. cap + GroupWidth - 1 |-> Empty], index |-> [i \in 0 .. cap - 1 |-> 0],
   values |-> values, growth |-> GrowthFor(cap), cap |-> cap]

\* The entries the slots lead to.
View(t) == [ctrl |-> t.ctrl, cap |-> t.cap,
            slots |-> [i \in DOMAIN t.index |-> IF i \in Full(t) /\ t.index[i] \in DOMAIN t.values
                                                THEN t.values[t.index[i]] ELSE Raw]]

\* find_prehashed_impl: the slot of k.
SlotOf(t, k) == Find(View(t), k)

\* emplace_impl and try_emplace_impl: the slot of k, or the first free one of the probe.
TargetOf(t, k) ==
  LET u == View(t) IN
  IF Stops(u, k) = {} THEN Endless ELSE IF Find(u, k) >= 0 THEN Find(u, k) ELSE FirstFree(u, k)
IsHere(t, k, i) == i \in Full(t) /\ t.index[i] \in DOMAIN t.values /\ t.values[t.index[i]][1] = k

Marked(t, i, k, idx) == [t EXCEPT !.ctrl = WithByte(t, i, Tag[k]), !.index[i] = idx]
PutIndirectPaid(t, i, k, v) ==  \* mutant: a tombstone is paid for again
  [Marked(t, i, k, Len(t.values) + 1) EXCEPT !.values = Append(@, <<k, v>>), !.growth = @ - 1]
PutIndirect(t, i, k, v) ==
  [Marked(t, i, k, Len(t.values) + 1) EXCEPT
     !.values = Append(@, <<k, v>>),
     !.growth = IF t.ctrl[i] = Deleted THEN @ ELSE @ - 1]

\* rehash_impl: the entries stay, their slots are found anew.
RehashedIndirect(t, cap) ==
  LET u == Fresh(t.values, cap) IN
  FoldLeftDomain(LAMBDA s, i : LET k == t.values[i][1] IN
                               [Marked(s, FirstFree(s, k), k, i) EXCEPT !.growth = @ - 1],
                 u, t.values)

GrownIndirect(t) ==
  IF t.cap = 0 THEN Fresh(<<>>, MinCapacity)
  ELSE IF t.growth = 0 THEN RehashedIndirect(t, t.cap * 2)
  ELSE t

\* erase_value_at: the slot with the tag of its key that leads to entry idx; the abort if the probe ends before.
Leading(t, idx) ==
  LET k == t.values[idx][1]
      lanes(g) == {j \in Lane(GroupWidth) : ByteAt(t, k, g, j) = Tag[k] /\ t.index[Slot(t, k, g, j)] = idx}
      stops == {g \in Group(t) : lanes(g) # {} \/ \E j \in Lane(GroupWidth) : ByteAt(t, k, g, j) = Empty}
  IN IF stops = {} THEN Endless
     ELSE IF lanes(Min(stops)) = {} THEN NoSlot ELSE Slot(t, k, Min(stops), Min(lanes(Min(stops))))

\* The slot of the last entry is redirected before the byte is marked deleted, never empty.
Unredirected(t, idx) == t.index  \* mutant
RedirectedTo(t, idx) ==
  LET last == Len(t.values) IN
  IF idx = last THEN t.index ELSE [t.index EXCEPT ![Leading(t, last)] = idx]
ErasedIndirect(t, idx) ==
  LET i == Leading(t, idx) IN
  [t EXCEPT !.index  = RedirectedTo(t, idx),
            !.values = Front([@ EXCEPT ![idx] = t.values[Len(t.values)]]),
            !.ctrl   = WithByte(t, i, Deleted)]

\* erase(first, last): the entry at first, count times.
RECURSIVE ErasedRange(_, _, _)
ErasedRange(t, first, count) == IF count = 0 THEN t ELSE ErasedRange(ErasedIndirect(t, first), first, count - 1)

-----------------------------------------------------------------------------
Init == indirect = NoIndirect /\ status = "whole"

Whole == status = "whole"
Become(t) == Whole /\ indirect' = t /\ UNCHANGED status
MayGrow == Whole /\ (indirect.growth = 0 => indirect.cap * 2 <= MaxCapacity)

Insert(k, v) ==
  /\ MayGrow
  /\ LET t == GrownIndirect(indirect)  i == TargetOf(t, k) IN
       /\ i # Endless
       /\ Become(IF IsHere(t, k, i) THEN t ELSE PutIndirect(t, i, k, v))

Assign(k, v) ==
  /\ MayGrow
  /\ LET t == GrownIndirect(indirect)  i == TargetOf(t, k) IN
       /\ i # Endless
       /\ Become(IF IsHere(t, k, i) THEN [t EXCEPT !.values[t.index[i]] = <<k, v>>] ELSE PutIndirect(t, i, k, v))

\* insert and emplace mark the slot before the entry behind the last one is constructed; try_emplace after.
InsertThrows(k) ==
  /\ MayGrow
  /\ LET t == GrownIndirect(indirect)  i == TargetOf(t, k) IN
       /\ i # Endless /\ ~IsHere(t, k, i)
       /\ indirect' = Marked(t, i, k, Len(t.values) + 1)
  /\ status' = "torn"
TryEmplaceThrows(k) ==
  /\ MayGrow
  /\ LET t == GrownIndirect(indirect)  i == TargetOf(t, k) IN
       i # Endless /\ ~IsHere(t, k, i) /\ Become(t)

Erase(k) == /\ Whole /\ SlotOf(indirect, k) >= 0
            /\ Become(ErasedIndirect(indirect, indirect.index[SlotOf(indirect, k)]))
EraseAt(idx) == Become(ErasedIndirect(indirect, idx))
EraseRange(first, count) == first + count <= Len(indirect.values) + 1 /\ Become(ErasedRange(indirect, first, count))

Clear == Len(indirect.values) > 0 /\ Become(Fresh(<<>>, indirect.cap))

\* Copies and moves between unequal allocators keep bytes, mirror and places, but nothing of an empty map.
Copy == Become(IF indirect.values = <<>> THEN NoIndirect ELSE indirect)
MovedFrom == Become(NoIndirect)

CapacityFor(n) == Normalized(Max({n, Required(Len(indirect.values))}))
RehashTo(n) ==
  LET cap == CapacityFor(n) IN
  /\ cap <= MaxCapacity
  /\ Become(IF cap = indirect.cap THEN indirect ELSE RehashedIndirect(indirect, cap))
Rehash(n)  == RehashTo(n)
Reserve(n) == Required(n) > indirect.cap /\ RehashTo(Required(n))

\* rehash_impl replaces ctrl_ before it allocates the new value_indices_: when that throws, on the way to a growth
\* or as asked, the bytes are those of the new capacity, all empty, and the entries are out of reach.
RehashThrows(cap) ==
  /\ Whole /\ indirect.cap > 0
  /\ indirect' = [indirect EXCEPT !.ctrl = Fresh(<<>>, cap).ctrl]
  /\ status' = "torn"
GrowthThrows == MayGrow /\ indirect.growth = 0 /\ RehashThrows(indirect.cap * 2)
RehashToThrows(n) ==
  CapacityFor(n) <= MaxCapacity /\ CapacityFor(n) # indirect.cap /\ RehashThrows(CapacityFor(n))

\* initialize stores capacity_ before it allocates: when that throws, in the first insertion or in an assignment
\* that has given up the old storage, a table without control bytes has a capacity.
InitializeThrows(cap) ==
  /\ Whole
  /\ indirect' = [NoIndirect EXCEPT !.cap = cap]
  /\ status' = "counted"

Next ==
  \/ \E k \in Key, v \in Value : Insert(k, v) \/ Assign(k, v)
  \/ \E k \in Key : InsertThrows(k) \/ TryEmplaceThrows(k) \/ Erase(k)
  \/ \E idx \in DOMAIN indirect.values :
       EraseAt(idx) \/ \E count \in 1 .. Len(indirect.values) : EraseRange(idx, count)
  \/ \E n \in 0 .. MaxCapacity : Rehash(n) \/ Reserve(n) \/ RehashToThrows(n)
  \/ \E cap \in Capacities : cap <= MaxCapacity /\ InitializeThrows(cap)
  \/ Clear \/ Copy \/ MovedFrom \/ GrowthThrows

Spec == Init /\ [][Next]_vars
-----------------------------------------------------------------------------
(* Properties *)

Place(t, k) == LET at == {i \in DOMAIN t.values : t.values[i][1] = k} IN IF at = {} THEN 0 ELSE Min(at)

\* A lookup ends and leads to the entry of a key that is there, and nowhere for one that is not; an erase finds
\* the slot of every entry, so that it never aborts; an insert finds the same or a free slot.
LookupsRight ==
  Whole /\ indirect.cap > 0 =>
    /\ \A k \in Key :
         LET i == SlotOf(indirect, k)  j == TargetOf(indirect, k) IN
         /\ i # Endless
         /\ Place(indirect, k) = IF i >= 0 THEN indirect.index[i] ELSE 0
         /\ j >= 0 /\ (i >= 0 => j = i) /\ (i < 0 => ~IsFull(indirect.ctrl[j]))
    /\ \A idx \in DOMAIN indirect.values : Leading(indirect, idx) = SlotOf(indirect, indirect.values[idx][1])

\* Tombstones are never refunded: entries, tombstones and budget make up the load limit.
BudgetKept ==
  Whole => Len(indirect.values) + indirect.growth + Cardinality(Tombstones(indirect)) = GrowthFor(indirect.cap)

Content == [k \in {indirect.values[i][1] : i \in DOMAIN indirect.values} |-> indirect.values[Place(indirect, k)][2]]
Map == INSTANCE UnorderedMap WITH content <- Content, usable <- Whole
ImplementsMap == Map!MapSpec

\* erase(first, last) takes these entries and no others: "erase from end to start to avoid index shifting
\* issues" (dense_map.hpp:1411).
RangesErase ==
  \A i \in DOMAIN indirect.values, j \in DOMAIN indirect.values :
    i <= j => Range(ErasedRange(indirect, i, j - i + 1).values)
              = Range(indirect.values) \ {indirect.values[m] : m \in i .. j}
=============================================================================
