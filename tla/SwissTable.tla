---------------------------- MODULE SwissTable ----------------------------
(***************************************************************************)
(* dense_map with inline storage (container/dense_map.hpp): a Swiss table. *)
(* One control byte per slot says empty, deleted (a tombstone) or full     *)
(* with seven bits of the hash.  A probe reads GroupWidth bytes at once    *)
(* from any position, so the first GroupWidth bytes are mirrored behind    *)
(* the last one.  The table is one record, each operation of the class an  *)
(* action that replaces it.                                                *)
(*                                                                         *)
(* An allocation that fails leaves the table as it was, which is a         *)
(* stuttering step; so is a call that throws length_error.                 *)
(***************************************************************************)
EXTENDS ControlBytes

\* With inline storage the least table is one group.
ASSUME InlineAssumption == MinCapacity = GroupWidth

VARIABLES
  table,   \* [ctrl, slots, size, growth, cap]: ctrl_, slots_, size_, growth_left_, capacity_
  status   \* "whole", or what left control bytes that do not tell what the slots hold

vars == <<table, status>>

-----------------------------------------------------------------------------
(* The table and its control bytes *)

\* A table that was never given storage, or has lost it to a move.
NoTable == [ctrl |-> <<>>, slots |-> <<>>, size |-> 0, growth |-> 0, cap |-> 0]

Fresh(cap) == [ctrl   |-> [i \in 0 .. cap + GroupWidth - 1 |-> Empty],
               slots  |-> [i \in 0 .. cap - 1 |-> Raw],
               size   |-> 0,
               growth |-> GrowthFor(cap),
               cap    |-> cap]

SlotForInsertEager(t, k) == FirstFree(t, k)  \* mutant: the key's slot is not looked for
\* find_slot_for_insert: the key's slot, or the first empty or deleted one of the probe.  An empty
\* first byte is taken without looking further.
SlotForInsert(t, k) ==
  IF ByteAt(t, k, 0, 0) = Empty THEN Start(t, k, 0)
  ELSE IF Stops(t, k) = {} THEN Endless
  ELSE LET g == Min(Stops(t, k))
           f == Min({h \in Group(t) : Free(t, k, h) # {}})
       IN IF Hits(t, k, g) # {} THEN Slot(t, k, g, Min(Hits(t, k, g)))
                                ELSE Slot(t, k, f, Min(Free(t, k, f)))

\* Publish <<k, v>> in slot i.  A tombstone was paid for by the entry that left it.
BudgetAlways(t, i) == t.growth - 1  \* mutant
Budget(t, i) == IF t.ctrl[i] = Deleted THEN t.growth ELSE t.growth - 1
Put(t, i, k, v) ==
  [t EXCEPT !.ctrl = WithByte(t, i, Tag[k]), !.slots[i] = <<k, v>>, !.size = @ + 1,
            !.growth = Budget(t, i)]

\* rehash_impl: the entries in slot order, each put in the first free slot of its probe.
RehashedShort(t, cap) ==  \* mutant: the last slot is forgotten
  LET moved[i \in 0 .. t.cap] ==
        IF i = 0 THEN Fresh(cap)
        ELSE IF i - 1 \notin Full(t) \/ i = t.cap THEN moved[i - 1]
        ELSE LET e == t.slots[i - 1] IN Put(moved[i - 1], FirstFree(moved[i - 1], e[1]), e[1], e[2])
  IN moved[t.cap]
Rehashed(t, cap) ==
  LET moved[i \in 0 .. t.cap] ==
        IF i = 0 THEN Fresh(cap)
        ELSE IF i - 1 \notin Full(t) THEN moved[i - 1]
        ELSE LET e == t.slots[i - 1] IN Put(moved[i - 1], FirstFree(moved[i - 1], e[1]), e[1], e[2])
  IN moved[t.cap]

\* What an insertion does first, whether or not the key turns out to be there.
Grown(t) ==
  IF t.cap = 0 THEN Fresh(MinCapacity)
  ELSE IF t.growth = 0 THEN Rehashed(t, t.cap * 2)
  ELSE t

-----------------------------------------------------------------------------
Init == table = NoTable /\ status = "whole"

Become(t) == t.cap <= MaxCapacity /\ table' = t /\ UNCHANGED status
Whole == status = "whole"
MayGrow == table.growth = 0 => table.cap * 2 <= MaxCapacity

\* insert, emplace and try_emplace when nothing throws.
Insert(k, v) ==
  /\ Whole /\ MayGrow
  /\ LET t == Grown(table)  i == SlotForInsert(t, k) IN
       /\ i # Endless
       /\ Become(IF IsFull(t.ctrl[i]) THEN t ELSE Put(t, i, k, v))

\* insert_or_assign, and operator[] followed by an assignment.
Assign(k, v) ==
  /\ Whole /\ MayGrow
  /\ LET t == Grown(table)  i == SlotForInsert(t, k) IN
       /\ i # Endless
       /\ Become(IF IsFull(t.ctrl[i]) THEN [t EXCEPT !.slots[i] = <<t.slots[i][1], v>>]
                                      ELSE Put(t, i, k, v))

\* insert and emplace publish the control byte before they construct the entry; when the
\* construction throws, the byte stays and nothing else is done.
InsertThrows(k) ==
  /\ Whole /\ MayGrow
  /\ LET t == Grown(table)  i == SlotForInsert(t, k) IN
       /\ i # Endless /\ ~IsFull(t.ctrl[i])
       /\ table' = [t EXCEPT !.ctrl = WithByte(t, i, Tag[k])]
  /\ status' = "torn"

\* try_emplace constructs first: only the growth remains.
TryEmplaceThrows(k) ==
  /\ Whole /\ MayGrow
  /\ LET t == Grown(table)  i == SlotForInsert(t, k) IN
       /\ i # Endless /\ ~IsFull(t.ctrl[i])
       /\ Become(t)

\* erase_at: a slot may be marked empty only if no probe passes over it, which is the case when the
\* next slot is empty.
ErasedByteEmpty(t, i) == Empty  \* mutant
ErasedByte(t, i) == IF t.ctrl[(i + 1) % t.cap] = Empty THEN Empty ELSE Deleted

Erased(t, i) ==
  LET b == ErasedByte(t, i) IN
  [t EXCEPT !.ctrl = WithByte(t, i, b), !.slots[i] = Raw, !.size = @ - 1,
            !.growth = IF b = Empty THEN @ + 1 ELSE @]

Erase(k) ==
  /\ Whole
  /\ LET i == Find(table, k) IN i >= 0 /\ Become(Erased(table, i))

\* erase(first, last) with iterators at slots first and last, or at the end.
RangeErasedThrough(t, first, last) ==  \* mutant: the entry at last goes too
  LET left[i \in first .. last + 1] ==
        IF i = first THEN t
        ELSE IF i - 1 \notin Full(left[i - 1]) THEN left[i - 1] ELSE Erased(left[i - 1], i - 1)
  IN left[last + 1]
RangeErased(t, first, last) ==
  LET left[i \in first .. last] ==
        IF i = first THEN t
        ELSE IF i - 1 \notin Full(left[i - 1]) THEN left[i - 1] ELSE Erased(left[i - 1], i - 1)
  IN left[last]
EraseRange(first, last) == Whole /\ first < last /\ Become(RangeErased(table, first, last))

\* clear: full bytes become empty, but neither the tombstones nor the mirror.
Cleared(t) ==
  [ctrl   |-> [i \in DOMAIN t.ctrl |-> IF i \in Full(t) THEN Empty ELSE t.ctrl[i]],
   slots  |-> [i \in DOMAIN t.slots |-> Raw],
   size   |-> 0,
   growth |-> GrowthFor(t.cap),
   cap    |-> t.cap]

Clear ==
  /\ Whole /\ table.size > 0
  /\ table' = Cleared(table)
  /\ status' = IF table' = Fresh(table.cap) THEN "whole" ELSE "cleared"

\* The copy constructors, the copy assignments, and moves between unequal allocators: full bytes are
\* copied into a fresh table, but neither the tombstones nor the mirror.
Copied(t) ==
  [ctrl   |-> [i \in DOMAIN t.ctrl |-> IF i \in Full(t) THEN t.ctrl[i] ELSE Empty],
   slots  |-> t.slots,
   size   |-> t.size,
   growth |-> t.growth,
   cap    |-> t.cap]

CopyOf(t) == IF t.size = 0 THEN NoTable ELSE Copied(t)

\* The table becomes what such a copy of it is.
Copy ==
  /\ Whole
  /\ table' = CopyOf(table)
  /\ status' = IF table' \in {table, NoTable} THEN "whole" ELSE "copied"

\* A table whose storage was moved away.
MovedFrom == Whole /\ Become(NoTable)

RehashTo(n) == LET cap == Normalized(Max({n, Required(table.size)})) IN
               IF cap = table.cap THEN table ELSE Rehashed(table, cap)
Rehash(n)  == Whole /\ Become(RehashTo(n))
Reserve(n) == Whole /\ Required(n) > table.cap /\ Become(RehashTo(Required(n)))

Next ==
  \/ \E k \in Key, v \in Value : Insert(k, v) \/ Assign(k, v)
  \/ \E k \in Key : InsertThrows(k) \/ TryEmplaceThrows(k) \/ Erase(k)
  \/ \E n \in 0 .. MaxCapacity : Rehash(n) \/ Reserve(n)
  \/ \E first \in Full(table), last \in Full(table) \cup {table.cap} : EraseRange(first, last)
  \/ Clear \/ Copy \/ MovedFrom

Spec == Init /\ [][Next]_vars
-----------------------------------------------------------------------------
(* Properties *)

\* Sizes and budget are numbers in range: the budget never runs below zero.
TypeOK ==
  /\ table.cap \in Capacities \cup {0}
  /\ table.size \in 0 .. table.cap
  /\ table.growth \in 0 .. GrowthFor(table.cap)
  /\ DOMAIN table.slots = 0 .. table.cap - 1 \/ table = NoTable
  /\ DOMAIN table.ctrl = 0 .. table.cap + GroupWidth - 1 \/ table = NoTable
  /\ status \in {"whole", "torn", "cleared", "copied"}

\* Where k really is.
Holder(t, k) ==
  LET at == {i \in Full(t) : t.slots[i] # Raw /\ t.slots[i][1] = k} IN
  IF at = {} THEN NoSlot ELSE Min(at)

\* A lookup ends, finds the slot of a key that is there and none for a key that is not, wherever its
\* groups wrap round the end and whatever was erased on its way.
Lookup(t) == \A k \in Key : Find(t, k) = Holder(t, k)
LookupsRight == Whole => Lookup(table)

\* An insert ends, finds the slot of a key that is there and a free slot for a key that is not: no key
\* is stored twice and none is written over another.
InsertsRight ==
  Whole /\ table.cap > 0 =>
    \A k \in Key : LET i == SlotForInsert(table, k) IN
      /\ i >= 0
      /\ IF Holder(table, k) = NoSlot THEN ~IsFull(table.ctrl[i]) ELSE i = Holder(table, k)

\* The budget counts the empty slots that may still be filled: entries, tombstones and budget make
\* up the load limit, so that an empty byte always remains to end a probe.
BudgetKept ==
  Whole => table.size + table.growth + Cardinality(Tombstones(table)) = GrowthFor(table.cap)

\* The table is an unordered map, whatever is rehashed, copied without loss or thrown.
Held(t) == {i \in Full(t) : t.slots[i] # Raw}
Content(t) == [k \in {t.slots[i][1] : i \in Held(t)} |->
                 t.slots[CHOOSE i \in Held(t) : t.slots[i][1] = k][2]]
Map == INSTANCE UnorderedMap WITH content <- Content(table), usable <- Whole
ImplementsMap == Map!MapSpec

\* The entries of a table that are in these slots.
KeysIn(t, slots) == {t.slots[i][1] : i \in Full(t) \cap slots}
Without(t, keys) == [k \in DOMAIN Content(t) \ keys |-> Content(t)[k]]

\* No call loses an entry it was not asked to take: erase takes one key, an erased range those in its slots, and a
\* rehash, a growth on the way to an insertion that fails, or a copy takes none (dense_map.hpp:1411, 2515).
TakesOnlyAsked ==
  [][LET Becomes(c) == Content(table') = c IN
     /\ \A k \in Key : Erase(k) => Becomes(Without(table, {k}))
     /\ \A first \in Full(table), last \in Full(table) \cup {table.cap} :
          EraseRange(first, last) => Becomes(Without(table, KeysIn(table, first .. last - 1)))
     /\ \A n \in 0 .. MaxCapacity : Rehash(n) \/ Reserve(n) => Becomes(Content(table))
     /\ \A k \in Key : TryEmplaceThrows(k) => Becomes(Content(table))
     /\ Copy /\ Whole' => Becomes(Content(table))
     /\ Clear \/ MovedFrom => Becomes(Without(table, Key))]_vars

\* dense_map_test.cc, "copy constructor": a copy holds what the original held.
CopiesFind == Whole => Lookup(CopyOf(table))

\* "deleted slots still count toward the load factor" (dense_map.hpp:2510), also in the budget that clear restores
\* (1274): with its tombstones left out of the count, entries may fill every empty byte, and a probe never ends.
ClearsBudget ==
  Whole /\ table.size > 0 =>
    LET t == Cleared(table) IN t.growth + Cardinality(Tombstones(t)) <= GrowthFor(t.cap)
=============================================================================
