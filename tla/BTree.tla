------------------------------- MODULE BTree -------------------------------
(***************************************************************************)
(* btree_map and btree_set (container/btree_map.hpp): a B-tree whose inner *)
(* nodes hold elements too.  A tree is one record over a heap of nodes;    *)
(* every node knows its parent and its place there, the map caches its     *)
(* rightmost leaf.  Each operation of the class is an operator from trees  *)
(* to trees and an action that applies it.                                 *)
(*                                                                         *)
(* A slot is its key: the mapped value moves with it.  Slots and children  *)
(* are counted from 1, child p lies before slot p.  An allocation that     *)
(* fails is left out (a failed split loses the right half).                *)
(***************************************************************************)
EXTENDS Integers, Sequences, SequencesExt, FiniteSets, FiniteSetsExt

CONSTANTS
  Key,            \* integers
  UniqueKey,      \* bounds of the model: the keys inserted into maps without duplicates
  MultiKey,       \* and into maps with duplicates
  LeafSlots,      \* kLeafSlots and
  InternalSlots,  \* kInternalSlots, at least 2
  MaxSize         \* bound of the model: calls that need more elements are left out

VARIABLES
  tree,     \* [heap, root, right, size]: the nodes, _root, _rightmost_leaf, _size
  content,  \* how often each key occurs in the tree, kept beside it
  policy,   \* "unique", "strings" (unique, string_like keys) or "multi"
  status    \* "whole", or the call that left the tree unusable

vars == <<tree, content, policy, status>>

Multi == policy = "multi"
Null == 0

NewTree == [heap |-> <<>>, root |-> Null, right |-> Null, size |-> 0]
NewLeaf(slots) == [leaf |-> TRUE, slots |-> slots, kids |-> <<>>, parent |-> Null, pos |-> 1]
NewInternal(slots, kids) == [NewLeaf(slots) EXCEPT !.leaf = FALSE, !.kids = kids]

Slots(t, n) == t.heap[n].slots
Kids(t, n)  == t.heap[n].kids
Count(t, n) == Len(t.heap[n].slots)
IsLeaf(t, n) == t.heap[n].leaf
Room(t, n) == (IF IsLeaf(t, n) THEN LeafSlots ELSE InternalSlots) - Count(t, n)
Least(t, n) == (IF IsLeaf(t, n) THEN LeafSlots ELSE InternalSlots) \div 2

\* Children lo to hi of n learn their parent and their place.
Adopt(t, n, lo, hi) ==
  [t EXCEPT !.heap = [m \in DOMAIN t.heap |->
     IF \E i \in lo .. hi : Kids(t, n)[i] = m
     THEN [t.heap[m] EXCEPT !.parent = n, !.pos = CHOOSE i \in lo .. hi : Kids(t, n)[i] = m]
     ELSE t.heap[m]]]

-----------------------------------------------------------------------------
(* Searching a node: the linear, the binary and the vector searches agree on these. *)

LowerIn(slots, k) == 1 + Cardinality({i \in DOMAIN slots : slots[i] < k})
UpperIn(slots, k) == 1 + Cardinality({i \in DOMAIN slots : slots[i] <= k})
Matches(slots, p, k) == p <= Len(slots) /\ slots[p] = k

RECURSIVE Leftmost(_, _), Rightmost(_, _)
Leftmost(t, n)  == IF IsLeaf(t, n) THEN n ELSE Leftmost(t, Kids(t, n)[1])
Rightmost(t, n) == IF IsLeaf(t, n) THEN n ELSE Rightmost(t, Last(Kids(t, n)))

\* Iterators are pairs of a node and a slot.
End(t)   == IF t.right = Null THEN <<Null, 1>> ELSE <<t.right, Count(t, t.right) + 1>>
Begin(t) == IF t.root = Null THEN End(t) ELSE <<Leftmost(t, t.root), 1>>

\* find: the element on the way down, or end().
RECURSIVE FindFrom(_, _, _)
FindFrom(t, n, k) ==
  LET p == LowerIn(Slots(t, n), k) IN
  IF Matches(Slots(t, n), p, k) THEN <<n, p>>
  ELSE IF IsLeaf(t, n) THEN End(t) ELSE FindFrom(t, Kids(t, n)[p], k)
Find(t, k) == IF t.root = Null THEN End(t) ELSE FindFrom(t, t.root, k)

\* lower_bound and upper_bound: the last element not before (after) k met on the way down.
RECURSIVE BoundFrom(_, _, _, _, _)
BoundFrom(t, n, k, upper, best) ==
  LET p == IF upper THEN UpperIn(Slots(t, n), k) ELSE LowerIn(Slots(t, n), k)
      here == IF p <= Count(t, n) THEN <<n, p>> ELSE best
  IN IF IsLeaf(t, n) THEN here ELSE BoundFrom(t, Kids(t, n)[p], k, upper, here)
LowerBound(t, k) == IF t.root = Null THEN End(t) ELSE BoundFrom(t, t.root, k, FALSE, End(t))
UpperBound(t, k) == IF t.root = Null THEN End(t) ELSE BoundFrom(t, t.root, k, TRUE, End(t))

-----------------------------------------------------------------------------
(* Iterators *)

\* The nearest ancestor slot after (before) the subtree of n.
RECURSIVE SlotAfter(_, _), SlotBefore(_, _)
SlotAfter(t, n) ==
  LET q == t.heap[n].parent IN
  IF q = Null THEN <<Null, 1>>
  ELSE IF t.heap[n].pos <= Count(t, q) THEN <<q, t.heap[n].pos>> ELSE SlotAfter(t, q)
SlotBefore(t, n) ==
  LET q == t.heap[n].parent IN
  IF q = Null THEN <<Null, 1>>
  ELSE IF t.heap[n].pos > 1 THEN <<q, t.heap[n].pos - 1>> ELSE SlotBefore(t, q)

\* increment; past the last element it stays in its leaf, which is end().
Increment(t, it) ==
  LET n == it[1]  p == it[2] IN
  IF ~IsLeaf(t, n) THEN <<Leftmost(t, Kids(t, n)[p + 1]), 1>>
  ELSE IF p < Count(t, n) \/ SlotAfter(t, n)[1] = Null THEN <<n, p + 1>>
  ELSE SlotAfter(t, n)

\* const_iterator stays at the end when it is there already.
IncrementConst(t, it) == IF it = End(t) THEN it ELSE Increment(t, it)

Decrement(t, it) ==
  LET n == it[1]  p == it[2] IN
  IF ~IsLeaf(t, n) THEN LET l == Rightmost(t, Kids(t, n)[p]) IN <<l, Count(t, l)>>
  ELSE IF p > 1 THEN <<n, p - 1>> ELSE SlotBefore(t, n)

\* distance_slow from <<.., ..>> to e: leaves are counted from left to right, with the separator behind
\* each; leaf i of node q is next.
RECURSIVE CountOn(_, _, _, _, _), ClimbOn(_, _, _, _, _)
CountOn(t, e, count, q, i) ==
  IF i > Count(t, q) + 1 THEN ClimbOn(t, e, count, q, i)
  ELSE LET l == Leftmost(t, Kids(t, q)[i])
           m == t.heap[l].parent
           j == t.heap[l].pos
       IN IF l = e[1] THEN count + e[2] - 1
          ELSE IF e = <<m, j>> THEN count + Count(t, l)
          ELSE CountOn(t, e, count + Count(t, l) + 1, m, j + 1)
ClimbOn(t, e, count, q, i) ==
  LET up == t.heap[q].parent  j == t.heap[q].pos IN
  IF up = Null THEN count
  ELSE IF e = <<up, j>> THEN count - 1
  ELSE IF j <= Count(t, up) THEN CountOn(t, e, count, up, j + 1)
  ELSE ClimbOn(t, e, count, up, j + 1)

\* operator-
Distance(t, e, b) ==
  IF e[1] = b[1] /\ IsLeaf(t, b[1]) THEN e[2] - b[2]
  ELSE LET l == IF IsLeaf(t, b[1]) THEN b[1] ELSE Leftmost(t, Kids(t, b[1])[b[2] + 1])
           start == IF IsLeaf(t, b[1]) THEN 1 - b[2] ELSE 1
       IN CountOn(t, e, start, t.heap[l].parent, t.heap[l].pos)

\* count with duplicates: the run of equal elements, a leaf at a time.
RECURSIVE RunFrom(_, _, _)
RunFrom(t, it, k) ==
  LET n == it[1]  p == it[2] IN
  IF it = End(t) \/ p > Count(t, n) \/ Slots(t, n)[p] # k THEN 0
  ELSE IF ~IsLeaf(t, n) THEN 1 + RunFrom(t, Increment(t, it), k)
  ELSE LET ub == UpperIn(Slots(t, n), k) IN
       ub - p + (IF ub <= Count(t, n) THEN 0 ELSE RunFrom(t, Increment(t, <<n, ub>>), k))
CountFromFound(t, k) == RunFrom(t, Find(t, k), k)  \* mutant: not the first of the equal elements
CountOf(t, k) == RunFrom(t, LowerBound(t, k), k)

-----------------------------------------------------------------------------
(* Insertion.  What inserts returns [tree, at]: the new tree and where the element is. *)

\* insert_into_leaf and insert_into_internal: k in slot p, its right child c behind it.
PutUnadopted(t, n, p, k, c) ==  \* mutant: the children behind p keep their old places
  LET u == [t EXCEPT !.heap[n].slots = InsertAt(@, p, k)] IN
  IF IsLeaf(t, n) THEN u
  ELSE Adopt([u EXCEPT !.heap[n].kids = InsertAt(@, p + 1, c)], n, p + 1, p + 1)
Put(t, n, p, k, c) ==
  LET u == [t EXCEPT !.heap[n].slots = InsertAt(@, p, k)] IN
  IF IsLeaf(t, n) THEN u
  ELSE Adopt([u EXCEPT !.heap[n].kids = InsertAt(@, p + 1, c)], n, p + 1, Count(t, n) + 2)

\* The first element right of separator i of q goes up, the separator down to the left.
RotateLeft(t, q, i) ==
  LET l == Kids(t, q)[i]  r == Kids(t, q)[i + 1]
      u == [t EXCEPT !.heap[l].slots = Append(@, Slots(t, q)[i]),
                     !.heap[q].slots[i] = Head(Slots(t, r)),
                     !.heap[r].slots = Tail(@)]
      v == [u EXCEPT !.heap[l].kids = Append(@, Head(Kids(t, r))), !.heap[r].kids = Tail(@)]
  IN IF IsLeaf(t, l) THEN u
     ELSE Adopt(Adopt(v, l, Count(v, l) + 1, Count(v, l) + 1), r, 1, Count(v, r) + 1)

\* The last element left of separator i of q goes up, the separator down to the right.
RotateRight(t, q, i) ==
  LET l == Kids(t, q)[i]  r == Kids(t, q)[i + 1]
      u == [t EXCEPT !.heap[r].slots = <<Slots(t, q)[i]>> \o @,
                     !.heap[q].slots[i] = Last(Slots(t, l)),
                     !.heap[l].slots = Front(@)]
      v == [u EXCEPT !.heap[r].kids = <<Last(Kids(t, l))>> \o @, !.heap[l].kids = Front(@)]
  IN IF IsLeaf(t, l) THEN u ELSE Adopt(v, r, 1, Count(v, r) + 1)

\* A full node with a parent gives its sibling one element, if the sibling has room, and two slots when the
\* new element would go there itself.  Not so the rightmost leaf for an append, nor leaves of strings.
Appends(t, n, p) == p = Count(t, n) + 1
Leans(t, n) == t.heap[n].parent # Null /\ (policy = "strings" => ~IsLeaf(t, n))
LeansLeft(t, n, p) ==
  LET q == t.heap[n].parent  i == t.heap[n].pos IN
  /\ Leans(t, n) /\ i > 1
  /\ ~(IsLeaf(t, n) /\ Appends(t, n, p) /\ i = Count(t, q) + 1)
  /\ Room(t, Kids(t, q)[i - 1]) >= IF p = 1 THEN 2 ELSE 1
LeansRight(t, n, p) ==
  LET q == t.heap[n].parent  i == t.heap[n].pos IN
  /\ Leans(t, n) /\ i <= Count(t, q)
  /\ Room(t, Kids(t, q)[i + 1]) >= IF Appends(t, n, p) THEN 2 ELSE 1

PutLeft(t, n, p, k, c) ==
  LET q == t.heap[n].parent  i == t.heap[n].pos
      u == RotateLeft(t, q, i - 1)
      at == IF p = 1 THEN <<Kids(t, q)[i - 1], Count(u, Kids(t, q)[i - 1]) + 1>> ELSE <<n, p - 1>>
  IN [tree |-> Put(u, at[1], at[2], k, c), at |-> at]
PutRight(t, n, p, k, c) ==
  LET q == t.heap[n].parent  i == t.heap[n].pos
      u == RotateRight(t, q, i)
      at == IF Appends(t, n, p) THEN <<Kids(t, q)[i + 1], 1>> ELSE <<n, p>>
  IN [tree |-> Put(u, at[1], at[2], k, c), at |-> at]

\* Nodes n and r come under a new root.
Crown(t, n, r, median) ==
  LET root == Len(t.heap) + 1
      u == [t EXCEPT !.heap = Append(@, NewInternal(<<median>>, <<n, r>>)), !.root = root]
  IN Adopt(u, root, 1, 2)

\* The split of a full node: mid of its elements, the new one counted, stay, the next one goes up, the rest
\* goes to a new right node r.
Middle(t, n) == (Count(t, n) + 1) \div 2
Halved(t, n, p, k, c) ==
  LET slots == InsertAt(Slots(t, n), p, k)
      kids(from, to) == IF IsLeaf(t, n) THEN <<>> ELSE SubSeq(InsertAt(Kids(t, n), p + 1, c), from, to)
      mid   == Middle(t, n)
      r     == Len(t.heap) + 1
      right == [t.heap[n] EXCEPT !.slots = SubSeq(slots, mid + 2, Len(slots)),
                                 !.kids = kids(mid + 2, Len(slots) + 1),
                                 !.parent = Null, !.pos = 1]
      u == [t EXCEPT !.heap = Append([@ EXCEPT ![n].slots = SubSeq(slots, 1, mid),
                                               ![n].kids = kids(1, mid + 1)], right),
                     !.right = IF t.right = n THEN r ELSE @]
  IN IF IsLeaf(t, n) THEN u ELSE Adopt(Adopt(u, n, p + 1, mid + 1), r, 1, Count(u, r) + 1)

\* insert_and_split_impl: k and its right child c before slot p of n.
RECURSIVE InsertAndSplit(_, _, _, _, _)
InsertAndSplit(t, n, p, k, c) ==
  IF Room(t, n) > 0 THEN [tree |-> Put(t, n, p, k, c), at |-> <<n, p>>]
  ELSE IF LeansLeft(t, n, p) THEN PutLeft(t, n, p, k, c)
  ELSE IF LeansRight(t, n, p) THEN PutRight(t, n, p, k, c)
  ELSE LET mid == Middle(t, n)
           r   == Len(t.heap) + 1
           u   == Halved(t, n, p, k, c)
           median == InsertAt(Slots(t, n), p, k)[mid + 1]
           up  == IF t.heap[n].parent = Null
                  THEN LET v == Crown(u, n, r, median) IN [tree |-> v, at |-> <<v.root, 1>>]
                  ELSE InsertAndSplit(u, t.heap[n].parent, t.heap[n].pos, median, r)
       IN [tree |-> up.tree,
           at   |-> IF p <= mid THEN <<n, p>> ELSE IF p = mid + 1 THEN up.at ELSE <<r, p - mid - 1>>]

Grown(r) == [tree |-> [r.tree EXCEPT !.size = @ + 1], at |-> r.at]
FirstLeaf(k) == [tree |-> [NewTree EXCEPT !.heap = <<NewLeaf(<<k>>)>>, !.root = 1, !.right = 1, !.size = 1],
                 at |-> <<1, 1>>]

\* A key beyond the last element of the cached rightmost leaf goes there without a search.
PastMaxEqual(t, k) == Count(t, t.right) > 0 /\ Last(Slots(t, t.right)) <= k  \* mutant
PastMax(t, k) == Count(t, t.right) > 0 /\ Last(Slots(t, t.right)) < k
AppendMax(t, k) == Grown(InsertAndSplit(t, t.right, Count(t, t.right) + 1, k, Null))

\* Down to the leaf, or to the element that is there; duplicates go before their equals.
RECURSIVE InsertFrom(_, _, _, _)
InsertFrom(t, n, k, again) ==
  LET p == LowerIn(Slots(t, n), k) IN
  IF ~again /\ Matches(Slots(t, n), p, k) THEN [tree |-> t, at |-> <<n, p>>]
  ELSE IF IsLeaf(t, n) THEN Grown(InsertAndSplit(t, n, p, k, Null))
  ELSE InsertFrom(t, Kids(t, n)[p], k, again)

\* insert_impl
InsertTree(t, k) ==
  IF t.root = Null THEN FirstLeaf(k)
  ELSE IF PastMax(t, k) THEN AppendMax(t, k)
  ELSE InsertFrom(t, t.root, k, Multi)

\* try_emplace_impl and insert_or_assign_impl: no duplicates in any mode.
TryEmplaceTree(t, k) ==
  IF t.root = Null THEN FirstLeaf(k)
  ELSE IF PastMax(t, k) /\ (policy = "strings" => ~IsLeaf(t, t.root)) THEN AppendMax(t, k)
  ELSE InsertFrom(t, t.root, k, FALSE)

\* insert_with_hint_impl: a hint in a leaf is believed when k lies between its element and the one before,
\* of which only the leaf and its parent are asked.
HintFits(t, k, n, p) ==
  /\ p <= Count(t, n) /\ k < Slots(t, n)[p]
  /\ p > 1 => Slots(t, n)[p - 1] < k
  /\ p = 1 /\ t.heap[n].parent # Null /\ t.heap[n].pos > 1
       => Slots(t, t.heap[n].parent)[t.heap[n].pos - 1] < k
InsertHintTree(t, k, hint) ==
  LET n == hint[1]  p == hint[2] IN
  IF t.root = Null THEN FirstLeaf(k)
  ELSE IF PastMax(t, k) THEN AppendMax(t, k)
  ELSE IF n # Null /\ IsLeaf(t, n) /\ HintFits(t, k, n, p) THEN Grown(InsertAndSplit(t, n, p, k, Null))
  ELSE IF n # Null /\ IsLeaf(t, n) /\ Matches(Slots(t, n), p, k) THEN [tree |-> t, at |-> hint]
  ELSE InsertTree(t, k)

\* insert_sorted, one element of its range: a full rightmost leaf gives up its last element as a separator
\* and k starts a new leaf.  A full inner node on the way up keeps half of its slots.
RECURSIVE Propagate(_, _, _, _)
Propagate(t, n, r, median) ==
  LET q == t.heap[n].parent  mid == InternalSlots \div 2 IN
  IF q = Null THEN Crown(t, n, r, median)
  ELSE IF Room(t, q) > 0 THEN Put(t, q, t.heap[n].pos, median, r)
  ELSE LET s == Len(t.heap) + 1
           slots == Append(Slots(t, q), median)
           kids  == Append(Kids(t, q), r)
           u == [t EXCEPT !.heap = Append([@ EXCEPT ![q].slots = SubSeq(slots, 1, mid),
                                                    ![q].kids = SubSeq(kids, 1, mid + 1)],
                                          NewInternal(SubSeq(slots, mid + 2, Len(slots)),
                                                      SubSeq(kids, mid + 2, Len(kids))))]
       IN Propagate(Adopt(u, s, 1, Count(u, s) + 1), q, s, slots[mid + 1])

InsertSortedTree(t, k) ==
  IF t.root = Null THEN FirstLeaf(k).tree
  ELSE IF Room(t, t.right) > 0
       THEN [t EXCEPT !.heap[t.right].slots = Append(@, k), !.size = @ + 1]
  ELSE LET r == Len(t.heap) + 1
           u == [t EXCEPT !.heap = Append([@ EXCEPT ![t.right].slots = Front(@)], NewLeaf(<<k>>)),
                          !.right = r, !.size = @ + 1]
       IN Propagate(u, t.right, r, Last(Slots(t, t.right)))

-----------------------------------------------------------------------------
(* Erasure *)

\* merge_leaves, merge_internal_nodes: separator i of q and all of child i + 1 go to child i.
Merged(t, q, i) ==
  LET l == Kids(t, q)[i]  r == Kids(t, q)[i + 1]
      u == [t EXCEPT !.heap[l].slots = Append(@, Slots(t, q)[i]) \o Slots(t, r),
                     !.heap[l].kids = @ \o Kids(t, r),
                     !.heap[q].slots = RemoveAt(@, i),
                     !.heap[q].kids = RemoveAt(@, i + 1),
                     !.right = IF @ = r THEN l ELSE @]
      v == Adopt(u, q, i + 1, Count(t, q))
  IN IF IsLeaf(t, l) THEN v ELSE Adopt(v, l, Count(t, l) + 2, Count(v, l) + 1)

CanSpare(t, n) == Count(t, n) > Least(t, n)

\* borrow_from_left_leaf, borrow_from_left_internal; the same from the right.
BorrowLeft(t, n)  == RotateRight(t, t.heap[n].parent, t.heap[n].pos - 1)
BorrowRight(t, n) == RotateLeft(t, t.heap[n].parent, t.heap[n].pos)

\* A root without elements hands over to its only child.
Lowered(t, q) ==
  IF q = t.root /\ Count(t, q) = 0
  THEN [t EXCEPT !.root = Kids(t, q)[1], !.heap[Kids(t, q)[1]].parent = Null]
  ELSE t

\* rebalance_after_erase_with_iterator from node n upwards.  next is where the element behind the erased one
\* was in the leaf (first); it follows the moves of that leaf.
Unshifted(next, n) == next  \* mutant
Shifted(next, n) == IF next[1] = n THEN <<n, next[2] + 1>> ELSE next
RECURSIVE Refilled(_, _, _, _), MergedInto(_, _, _, _)
Refilled(t, n, next, first) ==
  LET q == t.heap[n].parent  i == t.heap[n].pos IN
  IF n = t.root \/ Count(t, n) >= Least(t, n) THEN [tree |-> t, next |-> next]
  ELSE IF i > 1 /\ CanSpare(t, Kids(t, q)[i - 1])
       THEN [tree |-> BorrowLeft(t, n),
             next |-> IF first THEN Shifted(next, n) ELSE next]
  ELSE IF i <= Count(t, q) /\ CanSpare(t, Kids(t, q)[i + 1])
       THEN [tree |-> BorrowRight(t, n), next |-> next]
  ELSE LET j == IF i > 1 THEN i - 1 ELSE i
           l == Kids(t, q)[j]  r == Kids(t, q)[j + 1]
       IN MergedInto(Lowered(Merged(t, q, j), q), q, l,
                     IF first /\ next[1] = r THEN <<l, Count(t, l) + 1 + next[2]>> ELSE next)
\* Up from q, unless the merged child l has become the root.
MergedInto(t, q, l, next) == IF t.root = l THEN [tree |-> t, next |-> next] ELSE Refilled(t, q, next, FALSE)

Nowhere == <<Null, 1>>

\* The element in slot p of leaf n leaves.
Taken(t, n, p) == [t EXCEPT !.heap[n].slots = RemoveAt(@, p), !.size = @ - 1]

\* erase_impl: an element of an inner node is replaced by its predecessor.
EraseTree(t, n, p) ==
  LET l == IF IsLeaf(t, n) THEN n ELSE Rightmost(t, Kids(t, n)[p])
      u == IF IsLeaf(t, n) THEN Taken(t, n, p)
           ELSE Taken([t EXCEPT !.heap[n].slots[p] = Last(Slots(t, l))], l, Count(t, l))
  IN IF u.size = 0 THEN NewTree ELSE Refilled(u, l, Nowhere, FALSE).tree

\* erase(iterator): [tree, next], next the iterator it returns.  r is what the refilling of leaf n returned; where
\* that is past the last element of a leaf, or the last of n was erased, the iterator goes on to the next one.
Settling(r, erasedLast) ==
  LET m == r.next[1] IN
  IF ~erasedLast /\ r.next[2] <= Count(r.tree, m) THEN r
  ELSE [r EXCEPT !.next = IF Count(r.tree, m) > 0 THEN Increment(r.tree, <<m, Count(r.tree, m)>>) ELSE End(r.tree)]
EraseAtTree(t, it) ==
  LET n == it[1]  p == it[2]
      u == Taken(t, n, p)
      full == n = t.root \/ Count(t, n) > Least(t, n)
  IN IF it = End(t) THEN [tree |-> t, next |-> it]
     ELSE IF ~IsLeaf(t, n) THEN [tree |-> EraseTree(t, n, p), next |-> Increment(t, it)]
     ELSE IF u.size = 0 THEN [tree |-> NewTree, next |-> Nowhere]
     ELSE Settling(IF full THEN [tree |-> u, next |-> it] ELSE Refilled(u, n, it, TRUE), p > Count(u, n))

\* erase(key): one element, or with duplicates the first of them again and again.
RECURSIVE EraseKeyTree(_, _)
EraseKeyTree(t, k) ==
  IF ~Multi THEN LET it == Find(t, k) IN IF it = End(t) THEN t ELSE EraseTree(t, it[1], it[2])
  ELSE LET it == LowerBound(t, k) IN
       IF it = End(t) \/ Slots(t, it[1])[it[2]] # k THEN t ELSE EraseKeyTree(EraseAtTree(t, it).tree, k)

-----------------------------------------------------------------------------
(* The whole tree *)

RECURSIVE NodesFrom(_, _), ElementsFrom(_, _), DepthsFrom(_, _)
NodesFrom(t, n) == <<n>> \o FlattenSeq([i \in DOMAIN Kids(t, n) |-> NodesFrom(t, Kids(t, n)[i])])
ElementsFrom(t, n) ==
  IF IsLeaf(t, n) THEN [p \in 1 .. Count(t, n) |-> <<n, p>>]
  ELSE FlattenSeq([p \in DOMAIN Kids(t, n) |->
         ElementsFrom(t, Kids(t, n)[p]) \o IF p <= Count(t, n) THEN <<<<n, p>>>> ELSE <<>>])
DepthsFrom(t, n) ==
  IF IsLeaf(t, n) THEN {0} ELSE UNION {{d + 1 : d \in DepthsFrom(t, Kids(t, n)[i])} : i \in DOMAIN Kids(t, n)}

Nodes(t) == IF t.root = Null THEN <<>> ELSE NodesFrom(t, t.root)

\* The elements as iterators, in the order of the tree.
Elements(t) == IF t.root = Null THEN <<>> ELSE ElementsFrom(t, t.root)
At(t, it) == Slots(t, it[1])[it[2]]

\* The nodes renumbered from the root, so that the same tree is the same state.
Renumbered(t) ==
  LET order == Nodes(t)
      new == [n \in {Null} \cup Range(order) |-> IF n = Null THEN Null ELSE CHOOSE i \in DOMAIN order : order[i] = n]
      name(n) == IF n \in DOMAIN new THEN new[n] ELSE Null
  IN [t EXCEPT !.heap = [i \in DOMAIN order |->
                           LET m == t.heap[order[i]] IN
                           [m EXCEPT !.kids = [j \in DOMAIN m.kids |-> new[m.kids[j]]], !.parent = name(@)]],
               !.root = new[@], !.right = name(@)]

\* The copy constructor and assignment: deep_copy_node, in which a node keeps its position and is told its parent,
\* and the rightmost leaf looked up again.
Copied(t) ==
  LET above(n) == {q \in Range(Nodes(t)) : n \in Range(Kids(t, q))} IN
  IF t.root = Null THEN NewTree
  ELSE [t EXCEPT !.heap = [n \in DOMAIN @ |-> [@[n] EXCEPT !.parent = IF above(n) = {} THEN Null
                                                                     ELSE CHOOSE q \in above(n) : TRUE]],
                 !.right = Rightmost(t, t.root)]

\* The loop of erase(first, last), with all keys in S, and that of erase_if, which has no last: over the iterators
\* that erase returns, until one of them is of a node that is gone.  last stays as it was while the elements move.
RECURSIVE EraseFrom(_, _, _, _), EraseOn(_, _, _)
EraseFrom(t, it, last, S) ==
  IF it = last \/ it \notin Range(Elements(t)) THEN [tree |-> t, next |-> it]
  ELSE EraseOn(IF At(t, it) \in S THEN EraseAtTree(t, it) ELSE [tree |-> t, next |-> Increment(t, it)], last, S)
EraseOn(r, last, S) == EraseFrom(r.tree, r.next, last, S)

NoLast == <<Null, 0>>
EraseRangeTree(t, first, last) == EraseFrom(t, first, last, Key)
EraseIfTree(t, S) == EraseFrom(t, Begin(t), NoLast, S)

\* The keys in order; those that should stay.
Keys(t) == LET es == Elements(t) IN [i \in DOMAIN es |-> At(t, es[i])]
Without(t, S) == SelectSeq(Keys(t), LAMBDA k : k \notin S)
LeftOf(t, first, last) ==
  LET es == Elements(t) \o <<End(t)>>
      i == SelectInSeq(es, LAMBDA e : e = first)
      j == SelectInSeq(es, LAMBDA e : e = last)
  IN SubSeq(Keys(t), 1, i - 1) \o SubSeq(Keys(t), j, Len(es) - 1)

Amounts(t) == LET es == Elements(t) IN [k \in Key |-> Cardinality({i \in DOMAIN es : At(t, es[i]) = k})]

-----------------------------------------------------------------------------
Init == tree = NewTree /\ content = Amounts(NewTree) /\ policy \in {"unique", "strings", "multi"} /\ status = "whole"

Whole == status = "whole"
InOrder(t) == LET es == Elements(t) IN
              \A i \in 1 .. Len(es) - 1 :
                IF Multi THEN At(t, es[i]) <= At(t, es[i + 1]) ELSE At(t, es[i]) < At(t, es[i + 1])

Become(t, damage) ==
  /\ Whole /\ t.size <= MaxSize
  /\ tree' = Renumbered(t) /\ content' = Amounts(t) /\ UNCHANGED policy
  /\ status' = damage

Insert(k)     == Become(InsertTree(tree, k).tree, "whole")
TryEmplace(k) == policy # "multi" /\ Become(TryEmplaceTree(tree, k).tree, "whole")

\* insert and emplace_hint with a hint; one that is believed wrongly leaves the elements out of order.
InsertHint(k, hint) ==
  LET t == InsertHintTree(tree, k, hint).tree IN
  Become(t, IF InOrder(t) THEN "whole" ELSE "misplaced")

\* insert_sorted asks for keys in order beyond those that are there.
InsertSorted(k) ==
  /\ \A i \in DOMAIN Elements(tree) : At(tree, Elements(tree)[i]) < k
  /\ Become(InsertSortedTree(tree, k), "whole")

\* By key; by iterator, and so extract.
Erase(k)    == Become(EraseKeyTree(tree, k), "whole")
EraseAt(it) == Become(EraseAtTree(tree, it).tree, "whole")

\* A range, a predicate or a merge goes wrong where an iterator that erase returned does.  The source of a merge
\* loses, as in erase_if, what the destination takes.
EraseRange(first, last) ==
  \E r \in {EraseRangeTree(tree, first, last)} :
    Become(r.tree, IF Keys(r.tree) = LeftOf(tree, first, last) THEN "whole" ELSE "overrun")
EraseIf(S) ==
  \E r \in {EraseIfTree(tree, S)} :
    Become(r.tree, IF r.next = End(r.tree) /\ Keys(r.tree) = Without(tree, S) THEN "whole" ELSE "missed")

\* clear, and what a move leaves of its source.
Clear == Become(NewTree, "whole")
Copy  == Become(Copied(tree), "whole")

\* The map that was empty until swap gave it this tree: the cached leaf stays behind.
Swapped(t) == [t EXCEPT !.right = Null]
SwapIntoEmpty == Become(Swapped(tree), IF tree.root = Null THEN "whole" ELSE "swapped")

Hints == Range(Elements(tree)) \cup {End(tree)}
InRange(first, last) ==
  LET es == Elements(tree) IN
  last = End(tree) \/ SelectInSeq(es, LAMBDA e : e = first) < SelectInSeq(es, LAMBDA e : e = last)
Used == IF Multi THEN MultiKey ELSE UniqueKey
\* All keys, every second one, or all but one.
Picks == {Used} \cup {{k \in Used : k % 2 = b} : b \in {0, 1}} \cup {Used \ {k} : k \in Used}
Next ==
  \/ \E k \in Used : Insert(k) \/ TryEmplace(k) \/ InsertSorted(k) \/ Erase(k)
  \/ \E k \in Used, hint \in Hints : InsertHint(k, hint)
  \/ \E it \in Hints : EraseAt(it)
  \/ \E first, last \in Hints : InRange(first, last) /\ EraseRange(first, last)
  \/ \E S \in Picks : EraseIf(S)
  \/ Clear \/ Copy \/ SwapIntoEmpty

Spec == Init /\ [][Next]_vars
-----------------------------------------------------------------------------
(* Properties *)

\* The tree is a B-tree: all leaves are equally deep; every node is at least half full, but the root and (after
\* insert_sorted) the rightmost leaf, and none too full; every child knows its parent and its place; the cached leaf
\* is the rightmost; the size is right.
Linked(t, n) ==
  \A i \in DOMAIN Kids(t, n) : t.heap[Kids(t, n)[i]].parent = n /\ t.heap[Kids(t, n)[i]].pos = i
Shaped(t) ==
  /\ t.root = Null => t = NewTree
  /\ t.root # Null =>
       /\ Cardinality(DepthsFrom(t, t.root)) = 1 /\ t.heap[t.root].parent = Null
       /\ t.right = Rightmost(t, t.root)
       /\ t.size = Len(Elements(t))
       /\ \A n \in Range(Nodes(t)) :
            /\ Room(t, n) >= 0 /\ Count(t, n) >= IF n \in {t.root, t.right} THEN 1 ELSE Least(t, n)
            /\ Linked(t, n)
            /\ ~IsLeaf(t, n) => Len(Kids(t, n)) = Count(t, n) + 1
WellShaped == Whole => Shaped(tree)

\* Every search finds what a scan of the elements in order finds.
First(t, es, Test(_)) == LET hits == {i \in DOMAIN es : Test(At(t, es[i]))} IN
                         IF hits = {} THEN End(t) ELSE es[Min(hits)]
Lookups(t) ==
  LET es == Elements(t) IN
  \A k \in Key :
    LET equal == {i \in DOMAIN es : At(t, es[i]) = k} IN
    /\ IF equal = {} THEN Find(t, k) = End(t) ELSE Find(t, k) \in {es[i] : i \in equal}
    /\ LowerBound(t, k) = First(t, es, LAMBDA m : m >= k)
    /\ UpperBound(t, k) = First(t, es, LAMBDA m : m > k)
    /\ Multi => CountOf(t, k) = Cardinality(equal)
LookupsRight == Whole => InOrder(tree) /\ Lookups(tree)

\* Iterators walk the elements in order, forwards and backwards, and their differences count them; except the
\* difference of an inner element with itself.
Walks(t) ==
  LET es == Append(Elements(t), End(t)) IN
  /\ Begin(t) = es[1]
  /\ \A i \in 1 .. Len(es) - 1 : IncrementConst(t, es[i]) = es[i + 1] /\ Decrement(t, es[i + 1]) = es[i]
  /\ \A i, j \in DOMAIN es :
       j < i \/ (j = i /\ es[i][1] # Null /\ IsLeaf(t, es[i][1])) => Distance(t, es[i], es[j]) = i - j
WalksRight == Whole => Walks(tree)

\* An insert returns the place of its element, of equal ones the first.
InsertedAt(t, k) == LET r == InsertTree(t, k) IN
                    r.at = First(r.tree, Elements(r.tree), LAMBDA m : m >= k)

\* erase(iterator) returns what followed the erased element.
NextOf(t, it) == LET es == Elements(t)  r == EraseAtTree(t, it)  left == Append(Elements(r.tree), End(r.tree)) IN
                 r.next = left[SelectInSeq(es, LAMBDA e : e = it)]

\* Not always: the iterator is lost when the node next to the erased element gives or is given elements.
Settled(t, it) ==
  LET n == it[1]  p == it[2]  q == t.heap[n].parent  i == t.heap[n].pos IN
  IF IsLeaf(t, n) THEN p < Count(t, n) \/ CanSpare(t, n) \/ (q # Null /\ i > 1 /\ CanSpare(t, Kids(t, q)[i - 1]))
  ELSE CanSpare(t, Rightmost(t, Kids(t, n)[p]))

ReturnsRight ==
  Whole => /\ \A k \in Key : InsertedAt(tree, k)
           /\ \A it \in Range(Elements(tree)) : Settled(tree, it) => NextOf(tree, it)

\* "Erase by iterator - returns iterator to next element" (btree_map.hpp:4352).
EraseReturns == Whole => \A it \in Range(Elements(tree)) : NextOf(tree, it)

\* "Erase range [first, last)" (btree_map.hpp:4424).
RangesErase ==
  Whole => \A first, last \in Hints :
             InRange(first, last) /\ first # End(tree)
               => Keys(EraseRangeTree(tree, first, last).tree) = LeftOf(tree, first, last)

\* "erase all elements satisfying predicate" (btree_map.hpp:4992); the same loop takes the elements out of the
\* source of a merge ("merge elements from another btree_map", 4663).
PredicatesErase ==
  Whole => \A S \in Picks : Keys(EraseIfTree(tree, S).tree) = Without(tree, S)

\* "Hint is correct! Insert directly at hint position" (btree_map.hpp:3739): the elements stay in order.
HintsRight == Whole => \A k \in Used, h \in Hints : InOrder(InsertHintTree(tree, k, h).tree)

\* "End of tree - stay at this leaf with pos = count (end representation)" (btree_map.hpp:2313), also when it is
\* there already, which const_iterator takes care of (2554-2565).
EndStays == Whole /\ tree.root # Null => Increment(tree, End(tree)) = End(tree)

\* "In unique mode, reject duplicates; in multi mode, allow them" (btree_map.hpp:3440), with a hint too.
HintsInsert == Whole /\ Multi => \A k \in Used, h \in Hints : InsertHintTree(tree, k, h).tree.size = tree.size + 1

\* A swap exchanges the maps (btree_map_test.cc:1963, "swap preserves data"), the cached last leaf with them.
SwapsWhole == Whole => Shaped(Swapped(tree))

\* The tree is an ordered map or multimap.
Map == INSTANCE OrderedMap WITH many <- Multi, usable <- Whole
ImplementsMap == Map!MapSpec
=============================================================================
