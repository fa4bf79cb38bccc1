# A TLA+ model of Containa

Containa is a header-only C++20 library of containers (`src/container/*.hpp`). This directory holds TLA+
modules for all of its containers, TLC configurations that check them on small instances, and TLAPS proofs for
every value of the constants of seven of them: the lock-free list, `dense_map` with inline storage, `flat_map`,
`devectra`, `small_vectra`, `static_vectra` and `ring_buffer` are each proved to implement their abstract
specification.

    tlc -config SkiplistRace.cfg MCConcurrentSkiplist      # any run of PROJECT.json
    tlapm FlatMapProofs.tla                                # any module of section 6

## 1. Inventory

| component | state it keeps | operations | what is hard | what makes it correct |
|---|---|---|---|---|
| `concurrent_skiplist` | a linked list per level, each link a pointer with a mark bit; `_height`, `_size`; the retired list | `insert`, `erase`, `find`, `contains`, `for_each`, `size`, the destructor | every access to a link is a step that any other thread can overtake; marks freeze links; helpers unlink other threads' victims; `erase` and the destructor both dispose of nodes | it is linearizable to a map; one live node per key; a splice loses no live node; each node is freed once; each call returns; the counter agrees with the list |
| `btree_map`, `btree_set` | nodes with elements, children, parent and place; the root, the cached rightmost leaf, the size | insert (hinted, sorted), erase by key and by iterator, bounds, iteration, copy, swap | splits, borrows and merges on several levels; iterators and the cached leaf across them; duplicates that spread over nodes; searches in vector registers | order, occupancy, uniform depth, right parents; the iterators that calls return |
| `skiplist_map`, `skiplist_set` | links by level, the level of the head, the size | the same plus node handles and merge | predecessors on every level; keys that are moved out of a node that is still linked | each level links what reaches it, in order |
| `art_map` | nodes for 4, 16, 48, 256 children with a prefix and an end leaf, the size, four pools | insert, erase, bounds, iteration, clone, bulk load; key encoders | growth and shrinkage, prefix splits and merges, the cascade after an erase, keys that are prefixes of keys | every leaf is where its bytes lead; an ordered map; encoders keep the order |
| `dense_map`, `dense_set` | control bytes and slots; or control bytes, places and entries; or Robin Hood buckets and entries; `growth_left_` | find, insert, erase, ranges, `clear`, copy, move, `rehash`, `reserve` | tombstones against empties, the load budget, probe groups that wrap, swap with the last entry, constructors and allocations that throw | every key found, none stored twice, probes end |
| `flat_map` | a value vector and a bucket array (index, 8-bit distance, fingerprint) | the same | displacement, backward shift, redirection of the moved last value, a growth or rehash that throws | every key found, one bucket per value, an empty bucket always left |
| `devectra` | one buffer, an offset into it, a size, a capacity | push, pop, insert and erase anywhere, resize, reserve at either side, assignments, `shrink_to_fit`, `clear` | whether room is found by shifting or by growing; overlapping moves; empty objects; an allocator that throws | the window stays in the buffer, its slots hold elements and the others none; room is really made; it is a deque |
| `small_vectra`, `static_vectra` | inline slots, a buffer, a size | a vector's | the switch between storages, moves and swaps between objects in different roles and with unequal allocators | each slot is constructed once and destroyed once; it is a vector |
| `ring_buffer` | `N` slots, head, size | push, emplace, pop, `try_pop_front`, `clear`, copy, move, swap | overwrite of the oldest element; a throwing constructor in `emplace_back` | a bounded queue that drops its oldest; every slot of the window holds an object |
| `boolean_vector`, `bitmap` | bytes, or words of bits, and a size | set, count, combine, resize, copy, iterate | bits past the end; lanes that wrap; registers and remainders on each architecture | a sequence of bits; counts and bulk operations agree with it |
| `immutable_ordered_multimap` | distinct keys, offsets, values | build and query | empty keys, bounds outside the keys, the width of an offset | the result of a query is the filter of the input |
| `container_base` | none | construct, destroy and move ranges | overlapping ranges, direction of the move | no element lost or duplicated |

**Interactions.** Containers do not call one another: the vectors move their elements with the range helpers of
`container_base`, the sets are thin wrappers of their maps, and the flat storage of `dense_map` repeats the
algorithm of `flat_map` with another bucket. Containers call their element type's constructors and destructors
and an allocator; both may throw. The one place where threads interact is `concurrent_skiplist`; everything else is
sequential, and hard through long sequences of legal calls, limits and failures. `PROJECT.json` lists these
hazards, each at its line.

## 2. Plan

Every container is modelled. What each module is shown to implement:

| abstract specification | implemented by |
|---|---|
| `ConcurrentMap` | `ConcurrentSkiplist` |
| `OrderedMap` | `BTree`, `SkiplistMap`, `ArtMap` |
| `UnorderedMap` | `SwissTable`, `DenseFlat`, `DenseIndirect`, `FlatMap` |
| `Deque` | `Devectra` |
| `Vector` | `SmallVectra`, `StaticVectra`, `BooleanVector` |
| `Bits` | `Bitmap`, `StaticBitmap` |
| `BoundedQueue` | `RingBuffer` |
| a filter of the input (`SortedIndex`), a scan of the node (`NodeSearch`), the order of the numbers (`ArtKeys`) | the operators themselves |

Proved, in the order of the plan: the concurrent list with its refinement, `ring_buffer`, `devectra`, the slots of
the vectors with `static_vectra` and `small_vectra`, the Swiss table of `dense_map` and `flat_map`. Open, in order: the
proofs of `DenseFlat` and `DenseIndirect`, whose invariants are those of `FlatMap` and `SwissTable` with the parts
exchanged, once their loops are recursive functions as well; `BooleanVector` and the bitmaps, which would make theorems of all of
`SlotsHeld`; iterators of `ring_buffer`.

Modules take their sizes as CONSTANTS, have one action per operation and state invariants as conjunctions of
named parts. The modules that are proved about declare no RECURSIVE operator, and their loops are recursive functions;
the trees, the two storages of `dense_map` whose entries lie apart and the bitmaps have RECURSIVE operators, or were not
attempted, and are model-checked only.

## 3. What is modelled

### 3.1 `concurrent_skiplist` : `ConcurrentMap`, `ConcurrentSkiplist`, `MCConcurrentSkiplist`

| variable | code |
|---|---|
| `next[p][i]` | `p->next[i]`, an atomic `MarkedPtr`: a record of pointer and mark |
| `nkey`, `nheight`, `status` | a node's key and height; whether it is free, made by a running `insert`, or has been linked |
| `maxHeight`, `size` | `_height` and `_size` (the latter modulo `SizeMod`, the width of `size_t`) |
| `retired`, `freed`, `alive` | the retired list; how many times the destructor frees a node; whether it ran |
| `pc`, `key`, `node`, `cur`, `preds`, `succs`, `link` | a thread's place in its call and the locals of `insert`, `find_position`, `erase`, `find_delete_position`, `find` |
| `visited`, `seen`, `outcome`, `calls` | what `for_each` showed; what the key was bound to since the call began, and its result; the bound on calls |

One action is one access to shared memory (a load, store or compare-and-swap) with the local work that follows
it. The prefixes of the actions show the parts: `Insert*` (search with helping, publication at level 0, links
above), `Erase*` (search, marks top-down, claim at level 0, unlinking, retirement), `Find*`, `Each*`, `Destroy`.
`preds` starts as `Uninit`: the array in `erase` is not initialised.

`ConcurrentMap` is what a user may expect: each call takes effect at one moment between its start and its
return. An unsuccessful call reports a state the key was in at some moment of the call; `seen` records those.
`for_each` promises only that each node shown was bound at some moment of the call.

Left out or simplified:
- memory is sequentially consistent: the acquire/release/relaxed orders are not modelled, only interleavings;
- the loop that repeats a compare-and-swap until it succeeds (the marks of `erase` above level 0, the retired
  list's push, the height update) is one atomic step where a failed attempt changes nothing but the retry;
- a spurious failure of `compare_exchange_weak` is a stutter;
- `insert(Key&&, Value&&)` repeats `insert(const Key&, const Value&)` line by line and has the same actions;
- the random height is any height; values are not modelled (a node stands for its value); `Node::create` does not fail;
- the retired list is a sequence; there is no reclamation before the destructor in the code, nor in the model.

The destructor may run only when no call is in progress, which the code leaves to the user.

### 3.2 The sequential ordered maps : `OrderedMap`, `BTree`, `NodeSearch`, `SkiplistMap`, `ArtMap`, `ArtKeys`, `MCOrderedMap`

Each structure is one record, each operation an operator from structures to structures and an action that
applies it. `content` beside it counts how often each key occurs; `OrderedMap` is stated over it. A slot is its
key: the mapped value moves with it.

**`BTree`.** `tree.heap` maps addresses to nodes (`parent`, `pos`, slots, children), with `_root`, `_rightmost_leaf` and
`_size`. Splits, the append path, rotations, borrows and merges of `insert_impl`, `insert_sorted`,
`rebalance_after_erase` and its variant that carries an iterator are translated one to one; `policy` is a map, a map of
`string_like` keys (which is searched otherwise) or a multimap. `status` names the call that left the tree unusable: a
hint that puts a key out of order, a swap that leaves the cached leaf behind, a range erase or `erase_if` or merge that took too much or too little.
`EraseRange` and `EraseIf` are the code's loops over the iterators that `EraseAtTree` returns, which end where one
of them is in a node that is gone; the source of a `merge` is `EraseIf` of what the destination takes. `extract` is
`EraseAt`, inserting a node handle is `Insert`, `insert_or_assign` is `TryEmplace` on keys.
The code's nodes have at least four slots; here leaves have three and inner nodes two, so that three levels need few
keys; `"wide"` trees have leaves of four. With inner nodes of two slots the branch of an inner merge that needs two
free slots beside `p = 1` does not occur. Allocations of the B-tree and of the skip list succeed.

**`NodeSearch`.** The searches of one node for each key type and build (AVX2, SSE2, NEON, none): registers of several
keys, the comparison of unsigned keys as signed ones, the remainder.

**`SkiplistMap`.** `list.next[level][node]`, `height`, `level`, `size`. `keys` says whether a key keeps its value when it is
moved from (numbers) or becomes the empty one (strings): `extract` and `merge` search for a node by a key they have moved.

**`ArtMap`.** `trie.root` is a nested value: a pointer to a node is the node, and a slot is replaced by rebuilding the
nodes above. `trie.taken` counts the nodes the pools have given out. `Put` is `do_insert` with `split_leaf`,
`split_prefix` and growth; `Without` and `Collapsed` are `do_erase` and `collapse_result`, with the shrink whose
allocation may fail (`spare`). `CopyAssignThrows` is an assignment whose clone runs out of memory: it leaves the
empty map, and how the clone gives back what it had made so far (`art_map.hpp:1203-1296`) is not stepped through. Iterators are their leaf and cursors (`Advance`, `Retreat`, `Bound`). `erase` of an
iterator looks for the next key anew, so it cannot be wrong in the way the B-tree's is. Node kinds have room for
2, 3, 4 and 5 children instead of 4, 16, 48 and 256, prefixes one byte instead of eight.
**`ArtKeys`** has the encoders (unsigned, signed, floating-point, strings) over 2-bit bytes.

### 3.3 The hash maps : `UnorderedMap`, `ControlBytes`, `SwissTable`, `DenseFlat`, `DenseIndirect`, `FlatMap`, `MCHashMaps`, `MCFlatMap`

`ControlBytes` has what both Swiss tables share: bytes with their mirror, groups, probes, the load limit. `SwissTable` is
the inline storage, `DenseIndirect` has places in an array of entries and only tombstones, `DenseFlat` and `FlatMap` are
Robin Hood tables. Hash, tag and fingerprint of a key are constants; so are the group width, which is a build's choice in
the code (8, 16, 32 or 64), and the least capacity (`dense_map.hpp:715`): one group with inline storage, which `InlineAssumption`
says, and 8 slots otherwise, which may be less than a group. Such a table is a single group whose last bytes are never
written. Probes walk the groups as the code does, the fast path of an insert included.

**Failures.** `status` says what became of an object that an exception or a lossy call left unusable; it takes no further
step, because what the code does next may read what is not there.

| status | after |
|---|---|
| `"torn"` | the constructor of an entry threw behind its control byte (`InsertThrows`, `TryEmplaceThrows`); a growth or a rehash of the indirect storage had replaced the control bytes and could not allocate the places (`GrowthThrows`, `RehashToThrows`) |
| `"counted"` | a capacity was stored before the allocation that failed: the first one of the indirect and flat storages, or that of an assignment which has given up the old storage (`InitializeThrows`), the growth of `flat_map` (`GrowthFails`), its `rehash` and `reserve` (`RehashFails`) |
| `"cleared"`, `"copied"` | a `clear` that left bytes, a copy that lost some (section 5); a call that leaves or loses none stays `"whole"` |

Other failed allocations leave the table as it was, and are stutters: the inline storage allocates all before it
publishes any, the flat storage of `dense_map` allocates the new buckets before it gives up the old, the array of entries
moves when its successor exists. A rehash of an indirect or flat table without storage may leak one array but changes
nothing that is read. A copy assignment of the inline storage destroys first, and with its first allocation fails into an
empty table, which is `MovedFrom`. Not stepped through: copies and assignments that fail later than that, in the array of
entries or in the copy constructor of an entry.

`FlatMap` keeps the code's loops as recursive functions of their turns: `Displaced` carries a bucket on up to the first
empty one (`Carry` is one turn), `Rehashed` places the entries one by one; `BackShifted` says for each bucket what the shift leaves in it. Bucket
counts are powers of two up to 256 (`Powers`): in such a table no distance exceeds the eight bits the code keeps of it. Larger
tables are out of the model; there a cluster of more than 255 buckets would wrap the distance (`flat_map.hpp:510`).

### 3.4 The vectors : `Vector`, `Slots`, `SmallVectra`, `StaticVectra`, `Deque`, `Devectra`

A slot holds a value, `Raw` memory, a `Husk` (an object that was moved from) or `Clash` (constructed over an object,
or destroyed or read without one), and the operators of `Slots`, which are those of `container_base`, turn any misuse
into `Clash`. The moves of a range run slot by slot in the direction of the code. `Without` is the loop of `std::remove`
behind `std::erase`; `Vector!Remove` says independently of it what must remain, by the positions that are kept. `SmallVectra` keeps inline slots, the buffer, the size and what the last returned buffer still held.
`MoveApart` and `MoveConstructApart` are moves between unequal allocators; `AssignFails` is an assignment whose
allocation throws after the elements are gone, and ends the object. Arguments are values: an `insert` whose argument
is a reference to an element of the same vector, which the code copies after it has moved or freed the
element (`small_vectra.hpp:904`, `921`), is not modelled.

`Devectra`: `buffer` is a function from slots to an element or `Dead`; `offset`, `size` and `capacity` are the fields.
Moves run slot by slot in the direction the code chooses, so an overlapping move in the wrong direction would
destroy elements. `Grow`, `RoomFront` and `RoomBack` return the storage that `grow`, `make_room_front` and
`make_room_back` leave. When the code would construct outside the buffer, the object ends with the name of the call as its
`status` (`Wild`), because nothing after that is defined. The copy assignment that also replaces a propagating, unequal
allocator is left out: it leaves the object as a fresh copy is, which `Init` covers.

The element type's operations do not throw.

### 3.5 Bits, index, ring : `BooleanVector`, `Words`, `Bits`, `Bitmap`, `StaticBitmap`, `SortedIndex`, `BoundedQueue`, `RingBuffer`

`BooleanVector` has bytes; what lies beyond the size is `Stale`, whatever it once was, so a value that shows through is
seen whatever it is. `Words` has what the bitmaps share: the bulk operations and counts by registers and remainder for each
architecture, counts in lanes that wrap, `find_next`. In `Bitmap` bits may stand beyond the size; `behind` records that
they do, and `Bits` then promises nothing. `SortedIndex` builds from any sequence of pairs; offsets are taken modulo `OffsetMod`,
which is above the largest offset in `vectors` and not in `promises`.

`RingBuffer` is a set of buffers, so that copies, moves and swaps between two are steps. `EmplaceTears` is
`emplace_back` on a full buffer whose constructor throws after the oldest slot was destroyed: the buffer is `torn`. The
queue then promises nothing of its content until it is cleared or replaced.

## 4. Runs

| run | instance | shows |
|---|---|---|
| `skiplist_race` | three threads, one call each, from empty: two inserts of one key or of neighbours, an erase, a find | types, sorted levels, unique keys, the counter, and the refinement of the map |
| `skiplist_neighbours` | three threads from a list of two: neighbours are erased while a key comes in at or behind them | no live node is lost by a splice; marks go top-down; retired and freed once; frozen links |
| `skiplist_readers` | three threads from a list of two, with `for_each` and `find` beside the erases | every call returns; every step is a step of the map |
| `ordered_maps` | B-trees of eight keys, multimaps of two, up to ten elements; a node of eight slots in every build; a skip list of three keys and levels; radix trees of seven broad and eight deep keys | shape, lookups, walks, returned iterators, the ordered map |
| `hash_maps` | five colliding keys in `SwissTable` (two values) and `DenseFlat`, four in `DenseIndirect`; groups of two bytes, tables of 2, 4 and 8 slots; `DenseIndirect` also with groups of four bytes over tables of 2 and 4 slots | lookups, inserts and erases find the right slot, probes end, buckets are well placed, the budget, no call takes what it was not asked to take, the unordered map |
| `flat_map` | four colliding keys, two values, 4 and 8 buckets | buckets are well placed, lookups are right, no call takes what it was not asked to take, the unordered map |
| `devectra` | two values, up to 5 elements, capacity up to 16 | window, room, slack, the promise of `reserve_*`, the deque |
| `vectors` | two objects of each class, two inline elements, words of two or three bits; an index of up to five pairs | slots, counts, bulk operations, walks, spans, the vector, the bits |
| `ring_buffer` | two buffers of three slots, two values | live window and the bounded queue |
| `skiplist_preds` (violation) | as `skiplist_race` | `erase` unlinks through an element of `preds` it never wrote |
| `skiplist_index` (violation) | two tall inserts | a node falls off an index level although both calls returned |
| `promises` (violation) | a devectra, then a small_vectra, a bitmap, an immutable multimap of four pairs with offsets of two bits, a multimap B-tree and a skip list of strings under the same inserts, then the storages of `dense_map` under the same calls | one state that refutes every promise listed for it in section 5 |

A run with several classes (`ordered_maps`, `hash_maps`, `vectors`) chooses one in its initial state (`kind`) and leaves
the others as they begin. `MCVectors` extends `Slots`, so that its assumption is evaluated, and states that of `StaticVectra`
for its instance (`ConstantsFit`); `MCHashMaps` extends `SwissTable`, so that the properties of the inline storage are those the
theorems state, and `EntriesApart` and `ApartImplementsMap` are the same for the other two storages. Values of `SwissTable` are symmetric in
`hash_maps`: nothing names one. The run `promises` checks a disjunction: the invariant `SomeAsCommented` is false only in a state
where not one of the promises holds, so its counterexample refutes each of them.

**Bounds.** In the concurrent list, `MaxCalls` limits a thread's calls to one and `Work` says which calls it may make; a run
that starts with nodes (`BuiltInit`) has the state that sequential inserts leave. A splice, a claim or a helping
unlink involves a victim, its neighbour and one more thread, hence three threads and three or four nodes.
`MaxLevel` 1 gives an index above the data; `skiplist_index` needs 2, because the level that is wrong is the one
after the level that was retried. `SizeMod` 8 is above the number of nodes; the counter may pass through
`SizeMod - 1` (an erase counts before the insert does), which the run reaches.
In `skiplist_neighbours` the two free nodes are symmetric: no property or initial state names them.

In `ordered_maps`, eight keys of a map and ten elements of a multimap make B-trees of three levels, where splits and
merges cascade and inner nodes rotate; every order of calls up to that size is explored. The broad keys give one node
five children, a prefix and an end leaf, so that it grows through all four kinds and shrinks back; the deep keys need
chains of prefixes longer than `Cap`. In `hash_maps` the homes of the keys collide in every size and wrap round the end,
and tombstones use up the budget, so that growth and a shrinking `rehash` meet them; the second instance of `DenseIndirect` begins with
a table that is smaller than its group and grows into one that is not. In `flat_map` two keys share the last bucket as
their home and a third has the first: the second of the two displaces it, and both runs of buckets wrap; 4 and 8 buckets
make every growth and shrinkage between two sizes. In `devectra`, `MaxCapacity` 16 is the second
allocation; `Count` has small requests and one (9) above the default capacity. In `vectors` both storages
of a small_vectra and a second growth are reached; a static bitmap of four bits in words of three has bits to spare, and the bulk
operations are checked on arrays of 3 and 13 bits, which make registers and remainders; `OffsetMod` 9 just holds the largest offset. In `ring_buffer`, `N` = 3 lets
the head wrap with the window anywhere.

**Deadlock** is not checked: calls are bounded, a destructor ends an object, and so does undefined behaviour.

**Fairness** (`FairSpec`, `BuiltFairSpec`) is weak fairness of each thread's call in progress: a thread that is in a
call keeps being scheduled. Nothing is assumed of a thread outside a call. The list is lock-free, not wait-free; with
finitely many calls each of them returns, which is what `CallsReturn` checks. The other containers are sequential: their
calls are operators that end by construction, so liveness has no other place.

## 5. What the violations show

- **`PredsKnown`.** `erase` fills `preds[]` up to the `_height` it read (`concurrent_skiplist.hpp:668`), then reads
  `preds[i]` on every level of the victim (468-469). If an insert raises `_height` in between, the victim is taller
  than the array is filled: the element was never written. `lockfree.md:111` says that an approximate height does
  not affect correctness. In every run, reading such an element yields any pointer the stack could hold short of one
  that ends the program: null (the head) or a block that has the level (`PredAt`); the checked properties hold all the same.
- **`IndexComplete`.** After a failed link above level 0, `insert` searches again, which renews `succs[]` on all levels,
  and renews `new_node->next[i]` on the retried level only (324-334). On the next level the swap from the new `succs[i]`
  succeeds while `new_node->next[i]` still names the older successor: the node between them leaves that level.
  Level 0 decides membership, so the map stays right and only the index degrades.

`promises`, about the maps:
- **`EraseReturns`** (B-tree). The iterator that erase returns is not at the next element when a leaf borrows from its right
  sibling or is merged (`btree_map.hpp:4352`). The comment of `erase_key_impl` (4307-4316) admits that an iterator "does
  not survive". `ReturnsRight` states when it is right.
- **`RangesErase`** (B-tree). `erase(first, last)` (4425) compares with the `last` of before the erases, which the elements
  behind it have left by then: within one leaf it erases to the end.
- **`PredicatesErase`.** `erase_if` and the source of a `merge` (4998, 4671) go on from the iterator that erase returned: they
  skip elements, or read a leaf that was freed.
- **`HintsRight`, `HintsInsert`.** A hint at the first slot of a first leaf is believed without a look at an ancestor
  (3730-3739); a multimap refuses a duplicate whose hint is an equal element (3749).
- **`SwapsWhole`.** `swap` leaves `_rightmost_leaf` (4636). **`EndStays`.** `++` of a mutable iterator at the end moves it (2313).
- **`ExtractsOne`, `MergeLeaves`** (skip list). A key that is moved out of a node is then searched for
  (`skiplist_map.hpp:955`, `1034`): with strings, other elements are lost.
- **`CopiesFind`** (inline `dense_map`). Copies write the bytes of the full slots, not their mirror (`dense_map.hpp:863`,
  `912`, `1044`, `1822`), nor the tombstones: a probe that wraps or passes a former tombstone stops too early.
- **`ClearsBudget`.** `clear` (1253-1260, `1274`) grants the whole budget and leaves the tombstones and the mirror.
- **`RangesErase`** (flat and indirect `dense_map`). `erase(first, last)` erases at one place `count` times (1411-1416), where the
  last entry has just been moved: other entries than those of the range go.

`promises`, about the vectors:
- **`PushFits`.** On an empty devectra the shift branches (`devectra.hpp:146`, `213`) move nothing, not even `_offset`.
- **`ResizeFits`.** `resize` asks for a capacity, not for room behind the offset that `grow` chooses.
- **`BuffersEmptied`.** `shrink_to_fit` of a small_vectra returns a buffer whose elements were not destroyed (`small_vectra.hpp:543`).
- **`ResizeClears`.** `resize(0)` of a bitmap leaves its bits, and a later `resize` shows them (`bitmap.hpp:827`).
- **`SpansRight`** (offsets too narrow). `build` of the immutable multimap stores the positions of the values in 32 bits
  without a limit (`immutable_ordered_multimap.hpp:57`, `61`): from 2^32 pairs on they wrap, and spans are not those of their keys. In `vectors`,
  where offsets fit, the same property holds.

Two comments are merely stale: `lockfree.md:62` quotes the condition `succ.marked() || curr.marked()`, which the code
no longer has, and `concurrent_skiplist.hpp:181-184` says marked nodes stay in the list while `insert` unlinks them.

## 6. Proofs

Eight modules hold proofs; each extends the module it is about, or the proofs it builds on.

| module | proves |
|---|---|
| `ConcurrentSkiplistProofs` | `TypeOK`, `LevelSorted`, `MarkOrder`, `RetiredOnce`, `FrozenLinks`, `NoLiveNodeLost`, `UniqueKeys`, `FreedOnce`, `SizeAccounts`, `StepsOfMap`, `ImplementsMap` |
| `SwissTableProofs` | `TypeOK`, `LookupsRight`, `InsertsRight`, `BudgetKept`, `TakesOnlyAsked`, `ImplementsMap` |
| `FlatMapProofs` | `WellPlaced`, `LookupsRight`, `TakesOnlyAsked`, `ImplementsMap` |
| `DevectraProofs` | `TypeOK`, `WindowLive`, `RoomUnlessEmpty`, `ReserveMakesRoom`, `ResizeWithinCapacity`, `SlackAfterRelocation`, `ImplementsDeque` |
| `RingBufferProofs` | `TypeOK`, `WindowLive`, `ImplementsQueue` |
| `SlotsProofs`, `StaticVectraProofs` | `SlotsHeld` and `ImplementsVector` of `StaticVectra` |
| `SmallVectraProofs` | `SlotsHeld` and `ImplementsVector` of `SmallVectra` |

So every property of the runs `skiplist_race`, `skiplist_neighbours`, `flat_map`, `devectra` and
`ring_buffer` is also a theorem, of `skiplist_readers` all but liveness, and of `hash_maps` all that is about the inline storage. `TypeOK` of `ring_buffer`
and of the Swiss table are theorems only: no run repeats them. The theorems start from `Init`; the runs that start from a built list (`BuiltInit`)
start from a state that `Init` reaches.

### 6.1 The lock-free list

Assumptions: `MaxLevel` and `MaxCalls` are naturals, `SizeMod` is above 1, keys are integers, `Null`, `HeadNode` and
`Uninit` are not nodes, `Work` gives calls, and (for cardinalities, and because a memory is finite) `Node` and `Thread` are
finite. Any number of threads, nodes and levels.

**Order and ownership.** That a splice keeps a level sorted depends on what the thread saw earlier, and that a node is retired
once on who owns it. The invariant is

    IndInv == TypeOK /\ (\A t : ThreadOK(t)) /\ Exclusive /\ LevelSorted /\ MarkOrder /\ RetiredOK

where `ThreadOK` says for each place in the code which locals name a node (`LocalOK`), that a node being inserted is private
and unmarked until published, with predecessors before and successors behind its key (`FreshOK`, `InsertOK`), that a search
stands on linked nodes (`SearchOK`), that `erase` marks top-down and owns what it claims until it retires it
(`EraseOK`); and `Exclusive` says that no two threads insert one block or own one erased node. There is one lemma per group
of actions for the acting thread, one lemma that the conditions of the other threads survive any step, and `NextInv`
puts them together.

**Reachability.** `ReachInv` adds that level 0 leads from the head to every live node (`Joined`) and that what an insert is
about to splice away is a path of marked, hence frozen, nodes (`PathOK`). `From(c)`, what a walk from `c` can meet, is defined
as the least closed set, so that no induction over walks is needed. A step does one of four things to level 0: it
leaves it (`Rests`), marks a node (`Claims`), bypasses corpses (`Bypasses`) or puts a node in (`Publishes`); none cuts a walk off from
a live node it led to (`FromStable`). Unique keys follow from this and the sorted level. `FreedOnce` needs in addition that what
left the chain is dead and retired, or about to be retired by its owner (`FreedInv`). `SizeAccounts` is the invariant
`Balanced`, an equation of cardinalities with a multiple of `SizeMod`.

**Refinement.** An insert takes effect when it publishes, an erase when it marks level 0; `StepKind` sorts every other step into
a call, a return or a stutter of the map. What justifies the returns is `MapInv`: pointers of level `i` lead to nodes that have level
`i` (`HeightInv`), so a node that looks live above is live; a reader has still ahead of it every live node of its key,
unless the key was free at some instant of its call (`LookOK`); and `for_each` has passed no live node it did not show
(`WalkOK`).

The proof of the refinement exposed an error of an earlier model: two guards of a `CASE` in `Observe` and in `ConcurrentMap`'s `Bind`
overlapped, and TLC had evaluated the first where the second was meant. The guards now exclude each other.

### 6.2 `devectra`

Assumptions: `Dead` is not a value, capacities, factors and counts are naturals; the slack theorem adds what the code's
constants satisfy (capacity at least 8, factor at least 2, threshold at least 3).
`IndInv == Numbers /\ WindowFits /\ RoomUnlessEmpty`: the window stays in the buffer, and the only calls that lack room
are those on an empty object, so `PushFits` fails in no other way. Each loop that moves a range is
shown to leave, after `j` turns, what a closed form says (`AfterForward`, `AfterBackward`), whichever direction it runs in;
`Lists(b, off, n, cap, s)` says that the live slots of a buffer are the window and list the sequence `s`; each call takes a
buffer that lists the contents to one that lists what `Deque` promises (`SlotsInv`). `WindowLive` and the refinement follow.

### 6.3 The slots of the vectors, `static_vectra` and `small_vectra`

Assumptions: `Raw`, `Husk` and `Clash` are told apart from each other and from values where the code's objects are
(`SlotKinds`); the given lists are of elements, and `N` is a natural (`StaticConstants`), for a small_vectra a positive one
(`SmallConstants`: an array of no elements is not C++).

`Row(n, s)` is a storage of `n` slots that holds the sequence `s` and nothing else, `Gapped(n, s, p, g)` one where the
elements behind `p` stand `g` slots higher. `SlotsProofs` shows, for every length, position and count, what each helper makes of
them: an erase opens a gap that the moved tail closes (`ClosesRow`); an insert opens one, with the tail moved first
to last when it does not overlap its target and last to first otherwise, without a slot ever being constructed twice (`GapOpens`,
`GapOpensAhead`), and the new elements fill it (`FillsGap`). In `StaticVectraProofs`, `SlotsInv` says that each object is
`Image(s)` for the sequence `s` it stands for; the calls take images to images, and each is the vector's call of the same name.

In `SmallVectraProofs` the image depends on the capacity: `Object(cap, s, l)` has `s` inline when `cap` is `Inline`, and else in a
buffer of `cap` slots with every inline slot raw; `l` is what the last buffer it gave back still held, of which
nothing is claimed (see `BuffersEmptied` in section 5). `IsObject(v, s)` says that `v` is such an object, and `IsBare(v, n)`
that it holds nothing, as between `free_heap` and the next allocation. Every call is a lemma from objects to
objects whatever the two capacities are: growth from either storage into a buffer, `shrink_to_fit` back inline or into a
smaller buffer, the moves that steal a buffer or drain the inline elements (`StealsObject`) and the three kinds of swap
(`SwapsObjects`, the mixed one by three moves through an object that holds nothing).

### 6.4 The Swiss table

Assumptions, those of `ControlBytes` and `InlineAssumption`: the group width is a power of two from 2 to 64 and is the
least capacity, hashes are naturals, empty and deleted bytes differ from each other and from every tag, raw memory is no entry, and `MaxCapacity` is at most 128 times the least one, so
that the capacities listed are all a call can ask for. Any number of keys and values, any hash, any tag.

`Inv` says that the fields are typed (`Typed`) and that a whole table has no storage or works:

    Works(t) == Shape(t) /\ Laid(t) /\ Counted(t)
    Laid(t)  == Mirrored(t) /\ Tagged(t) /\ Single(t) /\ Reached(t)

The first bytes are repeated behind the last (`Mirrored`), a full slot holds an entry under the tag of its key (`Tagged`), no key is held
twice (`Single`), and no byte between the home of an entry and its slot is empty (`Reached`, by `Passes`). `Counted` is `BudgetKept` with
the size. The lookups need it all: an empty byte ends each probe, because the budget, which never becomes negative,
leaves one beyond the load limit; no group before that of an entry has an empty byte; and a group that
matches the tag of a key without holding the key is passed over.

What had to be found is why `erase` may mark a slot empty by a look at the next slot alone. The code does not look
at the group. Since groups begin at any position, `Reached` is about single slots, not groups: if the next slot is empty, no
entry behind it has a probe that passes through, so none passes the slot. The same argument carries the fast path of an insert
(`find_slot_for_insert` takes an empty home): a key whose home is empty is nowhere. A rehash is a loop of insertions into a table that
has room and no tombstones; an erased range is a loop of erases.

`TakesOnlyAsked` and the refinement state what each operation makes of the content, as a function from keys to values, and
follow from `Entries` (what the slots hold) call by call. The copies and `clear`, which lose the mirror or the tombstones, end
`"whole"` only when they lost nothing, and are then shown to leave a table that works.

### 6.5 `flat_map`

Assumptions: homes are naturals (`HomeAssumption`), bucket counts are powers of two up to 256
(`SizeAssumption`), and the load limit lets the least table hold one entry and keep a bucket empty (`LoadAssumption`),
which the code's constants satisfy. Any number of keys and values, any hash and fingerprint.

    Inv == Listed(buckets) /\ status \in {"whole", "counted"} /\ (Whole => Sound(buckets))

`Listed`: one entry per key. `Sound`: no buckets at all, or `Works`: the buckets stand for the entries (`Laid`) and the
number of entries is at most one beyond the load limit (`Room`), from which an empty bucket follows for every size. `Stands(bs, c, V, n)` says that
the first `n` entries of `V` have one bucket each, and `Good` what any buckets keep: each bears its distance from home and the fingerprint
of its entry (`Lies`), no entry has two, and no distance is more than one above that of the bucket before it, and none but zero behind
an empty bucket (`Behind`).

- **Lookups.** Along a probe the distance of the key grows by one per step and those of the buckets by at most one: once a bucket is poorer,
  all up to the bucket of the key would have to be. So a probe that gives up has missed nothing (`FindIs`).
- **Displacement.** The state of the loop, buckets and the bucket carried, keeps `Carrying`: what is carried fits behind the bucket before the
  next place, and its entry has no other bucket. One turn keeps it (`CarryStep`), whoever gives way; the last turn puts it into the
  empty bucket.
- **Erase.** The run behind the erased bucket moves back by one, up to an empty bucket or one at home (`MovedIs`); each of them comes one step nearer, and the
  order is kept across both ends of the run, also when it wraps. Then the bucket of the last entry, wherever the shift has left it,
  is found again and told its new place.
- **Rehash.** After `i` turns the buckets stand for the first `i` entries (`PlaceOne`).

With the keys first chosen no bucket ever displaced another in the run, so that a mutant of `Carry` passed it; the homes in
`MCFlatMap` are chosen so that they do.

### 6.6 The loops

The induction theorems of the library take an operator as a parameter, which the installed provers cannot instantiate. A loop
that is a recursive function is proved about nonetheless: a recursive function definition is a `CHOOSE`, so first a function that
satisfies the rule is shown to exist (the closed form), and two functions with the same rule agree (`SameRule`); the least index at which
they would differ leads to a contradiction (`LeastNumber`, from `WFMin`). `ForwardLoop`, `BackwardLoop` and `WithoutKeeps` are
examples. In `SwissTableProofs` and `FlatMapProofs` the property that a turn keeps is stated of each value of the function, and the least turn
that breaks it gives the contradiction.

### 6.7 Ring buffer

Assumptions: `N` is positive, `Dead` is not a value. `IndInv == TypeOK /\ WindowLive`;
arithmetic modulo `N` is proved from the definition of `%` in a few lemmas, and the refinement of `BoundedQueue`
follows action by action.

### 6.8 Only model-checked

- Liveness (`CallsReturn`) is beyond the prover.
- The ordered maps, `DenseFlat` and `DenseIndirect`: their splits and probes are RECURSIVE operators, in the presence of
  which the prover has no arithmetic: `EntriesApart` and `ApartImplementsMap` are model-checked only.
- `BooleanVector`, the bitmaps and `SortedIndex`: not attempted. The properties of the run `vectors` are
  conjunctions over all its classes, so what is proved of `static_vectra` and `small_vectra` is a part of its `SlotsHeld` and
  `ImplementsSequence`.

## 7. Not modelled

- Weak memory: see section 3.1.
- Allocations that fail inside the trees, the skip lists and the concurrent list, but for the two of `art_map` in section 3.2. Neither a doc nor a test says what
  should remain; in a B-tree a failed split loses the right half (`btree_map.hpp:1631`). Constructors of elements that throw
  inside the vectors; arguments of the vectors that are references to their own elements.
- Mapped values that move apart from their keys, references and views, comparators and hashers with state,
  heterogeneous lookup (which differs from lookup by key in its type only).
- `container_base`'s `memcpy` paths for trivial types and `simd_find`; iterators of `ring_buffer`, `small_vectra`,
  `static_vectra` and `devectra`, which are pointers or an index.
- The module interface, build files, benchmarks, tests and vendored code hold no logic of the library.
