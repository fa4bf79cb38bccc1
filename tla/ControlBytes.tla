--------------------------- MODULE ControlBytes ---------------------------
(***************************************************************************)
(* What the storages of dense_map (container/dense_map.hpp) share: the     *)
(* capacities and the load limit, and for the two that are Swiss tables    *)
(* the control bytes and the probe.  A table is a record with at least     *)
(* ctrl, slots and cap: ctrl_, the entry each slot holds, capacity_.       *)
(***************************************************************************)
EXTENDS Integers, FiniteSets, FiniteSetsExt

CONSTANTS
  Key, Value,
  Hash,         \* [Key -> Nat]: the low bits of the hash
  Tag,          \* [Key -> ...]: h2, its top seven bits
  GroupWidth,   \* kGroupWidth
  MinCapacity,  \* kMinCapacity
  MaxCapacity,  \* bound of the model: calls that need more are left out
  Empty, Deleted,  \* the control bytes kEmpty and kDeleted
  Raw           \* a slot without an object

\* The code's groups are of 8 to 64 bytes, its least tables of 8 slots or a group; in a table of one slot no slot
\* might be used.
ASSUME WidthAssumption == \E e \in 1 .. 6 : GroupWidth = 2 ^ e
ASSUME MinAssumption   == \E e \in 1 .. 6 : MinCapacity = 2 ^ e
ASSUME HashAssumption  == Hash \in [Key -> Nat] /\ DOMAIN Tag = Key
ASSUME BytesDistinct   == /\ Empty # Deleted
                          /\ \A k \in Key : Tag[k] \notin {Empty, Deleted}
                          /\ Raw \notin Key \X Value

\* The capacities below go far enough: a call asks for at most twice the bound.
ASSUME BoundAssumption == MaxCapacity \in Nat /\ 2 * MaxCapacity <= MinCapacity * 2 ^ 8

\* The lanes of a group of w bytes.
Lane(w) == 0 .. w - 1

\* Powers of two from the least capacity on; the least one that holds n slots.
Capacities == {MinCapacity * 2 ^ e : e \in 0 .. 8}
Normalized(n) == Min({c \in Capacities : c >= n})

\* 7/8 of the slots may be used: entries that fit without growing, slots that n entries need.
GrowthFor(cap) == (cap \div 8) * 7 + ((cap % 8) * 7) \div 8
Required(n) == IF n = 0 THEN 0 ELSE Normalized((n \div 7) * 8 + ((n % 7) * 8 + 6) \div 7)

IsFull(b) == b \notin {Empty, Deleted}
Full(t) == {i \in 0 .. t.cap - 1 : IsFull(t.ctrl[i])}
Tombstones(t) == {i \in 0 .. t.cap - 1 : t.ctrl[i] = Deleted}

\* ctrl_[i] = b, with the mirror of the first GroupWidth bytes.
WithByte(t, i, b) ==
  [j \in DOMAIN t.ctrl |-> IF j = i \/ (i < GroupWidth /\ j = t.cap + i) THEN b ELSE t.ctrl[j]]

-----------------------------------------------------------------------------
(* Probing: group g of a probe for k is the window of GroupWidth bytes at Start(t, k, g). *)

\* A table smaller than a group is one group; the bytes behind its mirror stay empty.
Group(t) == IF t.cap < GroupWidth THEN {0} ELSE 0 .. (t.cap \div GroupWidth) - 1
Start(t, k, g) == (Hash[k] + g * GroupWidth) % t.cap
Slot(t, k, g, j) == (Start(t, k, g) + j) % t.cap
ByteAt(t, k, g, j) == t.ctrl[Start(t, k, g) + j]

\* The lanes whose byte matches and whose slot holds k; those an insert may take.
Hits(t, k, g) ==
  {j \in Lane(GroupWidth) : /\ ByteAt(t, k, g, j) = Tag[k]
                /\ t.slots[Slot(t, k, g, j)] # Raw
                /\ t.slots[Slot(t, k, g, j)][1] = k}
Free(t, k, g) == {j \in Lane(GroupWidth) : ByteAt(t, k, g, j) \in {Empty, Deleted}}

\* A probe stops at a group with a hit or an empty byte; after Group(t) it would begin again.
Stops(t, k) == {g \in Group(t) : Hits(t, k, g) # {} \/ \E j \in Lane(GroupWidth) : ByteAt(t, k, g, j) = Empty}

NoSlot  == -1
Endless == -2

\* find_prehashed_impl
Find(t, k) ==
  IF t.cap = 0 THEN NoSlot
  ELSE IF Stops(t, k) = {} THEN Endless
  ELSE LET g == Min(Stops(t, k)) IN
       IF Hits(t, k, g) = {} THEN NoSlot ELSE Slot(t, k, g, Min(Hits(t, k, g)))

\* find_first_empty
FirstFree(t, k) ==
  LET f == Min({h \in Group(t) : Free(t, k, h) # {}}) IN Slot(t, k, f, Min(Free(t, k, f)))
=============================================================================
