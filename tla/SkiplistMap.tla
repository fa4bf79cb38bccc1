----------------------------- MODULE SkiplistMap -----------------------------
(***************************************************************************)
(* skiplist_map and skiplist_set (container/skiplist_map.hpp,              *)
(* skiplist_set.hpp): the sequential skip list.  Keys are unique, so a     *)
(* node is named by its key.  Its level is random, hence any.              *)
(*                                                                         *)
(* The mapped value moves with its key.  An allocation that fails is left  *)
(* out: the node is allocated before anything is linked.                   *)
(***************************************************************************)
EXTENDS Integers, Sequences, SequencesExt, FiniteSets, FiniteSetsExt

CONSTANTS
  Key,       \* positive integers
  MaxLevel

VARIABLES
  list,     \* [next, height, level, size]: the links, the nodes' levels, _head.level, _size
  content,  \* how often each key occurs in the list
  keys,     \* "plain": a key moved from keeps its value; "strings": it becomes the empty one
  status    \* "whole" or "lost": elements are no longer linked

vars == <<list, content, keys, status>>

Level == 0 .. MaxLevel
Null == 0  \* no node; as a predecessor it stands for _head
Node == Key \cup {Null}

NewList == [next |-> [n \in Node |-> [i \in Level |-> Null]], height |-> [k \in Key |-> 0],
            level |-> 0, size |-> 0]

RECURSIVE ChainFrom(_, _, _), Walk(_, _, _, _)
ChainFrom(t, n, i) == LET m == t.next[n][i] IN IF m = Null THEN <<>> ELSE <<m>> \o ChainFrom(t, m, i)
Elements(t) == ChainFrom(t, Null, 0)

\* The last node before k on level i, from n on.
Walk(t, n, i, k) == LET m == t.next[n][i] IN IF m # Null /\ m < k THEN Walk(t, m, i, k) ELSE n

\* find_node: the predecessors of k on every level of the list, from the top, and the first node not before k.
Update(t, k) ==
  LET update[i \in 0 .. t.level] == Walk(t, IF i = t.level THEN Null ELSE update[i + 1], i, k) IN update
Candidate(t, k) == t.next[Update(t, k)[0]][0]

Find(t, k)       == IF Candidate(t, k) = k THEN k ELSE Null
LowerBound(t, k) == Candidate(t, k)
UpperBound(t, k) == IF Candidate(t, k) = k THEN t.next[k][0] ELSE Candidate(t, k)

\* Node k of height h goes behind pred[i] on each of its levels.
LinkedLow(t, pred, k, h) ==  \* mutant: the level of the list is not raised
  [t EXCEPT !.next = [n \in Node |-> [i \in Level |->
                        IF i > h THEN t.next[n][i]
                        ELSE IF n = k THEN t.next[pred[i]][i] ELSE IF n = pred[i] THEN k ELSE t.next[n][i]]],
            !.height[k] = h, !.size = @ + 1]
Linked(t, pred, k, h) ==
  [t EXCEPT !.next = [n \in Node |-> [i \in Level |->
                        IF i > h THEN t.next[n][i]
                        ELSE IF n = k THEN t.next[pred[i]][i] ELSE IF n = pred[i] THEN k ELSE t.next[n][i]]],
            !.height[k] = h, !.size = @ + 1, !.level = Max({@, h})]

\* insert: levels above that of the list begin at the head.
Inserted(t, k, h) ==
  IF Find(t, k) = k THEN t
  ELSE LET u == Update(t, k) IN Linked(t, [i \in Level |-> IF i > t.level THEN Null ELSE u[i]], k, h)

\* Node k is unlinked behind the predecessors of key m, which is k unless k has been moved from.
Lowered(t) == [t EXCEPT !.level = Max({0} \cup {i \in 1 .. t.level : t.next[Null][i] # Null})]
Unlinked(t, k, m) ==
  LET u == Update(t, m) IN
  Lowered([t EXCEPT !.next = [n \in Node |-> [i \in Level |->
                                IF n = k THEN Null
                                ELSE IF i <= t.height[k] /\ n = u[i] THEN t.next[k][i] ELSE t.next[n][i]]],
                    !.height[k] = 0, !.size = @ - 1])

Moved(k) == IF keys = "strings" THEN Null ELSE k

\* extract moves key and value into the handle, then looks for the node by its key.
Extracted(t, k) == Unlinked(t, k, Moved(k))

\* merge, seen from its source: what the destination takes is moved out of the node, which is then erased.
Merged(t, kept) == FoldLeft(LAMBDA u, k : IF k \in kept THEN u ELSE Unlinked(u, k, Moved(k)), t, Elements(t))

\* skiplist_set::merge copies the keys.
MergedSet(t, kept) == FoldLeft(LAMBDA u, k : IF k \in kept THEN u ELSE Unlinked(u, k, k), t, Elements(t))

ErasedIf(t, S) == FoldLeft(LAMBDA u, k : IF k \in S THEN Unlinked(u, k, k) ELSE u, t, Elements(t))

\* copy_from: every node behind the last one on each of its levels.
Copied(t) ==
  LET r == FoldLeft(LAMBDA a, k :
             [list |-> Linked(a.list, a.last, k, t.height[k]),
              last |-> [i \in Level |-> IF i <= t.height[k] THEN k ELSE a.last[i]]],
             [list |-> NewList, last |-> [i \in Level |-> Null]], Elements(t))
  IN [r.list EXCEPT !.size = t.size]

-----------------------------------------------------------------------------
Amounts(t) == [k \in Key |-> IF k \in Range(Elements(t)) THEN 1 ELSE 0]

Init == list = NewList /\ content = Amounts(NewList) /\ keys \in {"plain", "strings"} /\ status = "whole"

Whole == status = "whole"
Become(t) ==
  /\ Whole
  /\ list' = t /\ content' = Amounts(t) /\ UNCHANGED keys
  /\ status' = IF Len(Elements(t)) = t.size THEN "whole" ELSE "lost"

Held == Range(Elements(list))

Insert(k, h)         == Become(Inserted(list, k, h))
TryEmplace(k, h)     == Become(Inserted(list, k, h))
InsertOrAssign(k, h) == Become(Inserted(list, k, h))

Erase(k)   == Find(list, k) = k /\ Become(Unlinked(list, k, k))
EraseAt(k) == k \in Held /\ Become(Unlinked(list, k, k))
EraseIf(S) == Become(ErasedIf(list, S))
Extract(k) == Find(list, k) = k /\ Become(Extracted(list, k))
Merge(kept)    == Become(Merged(list, kept))
MergeSet(kept) == Become(MergedSet(list, kept))

Clear == Become(NewList)
Copy  == Become(Copied(list))

\* Move assignment between unequal allocators: every element is inserted anew.
MoveElements(heights) ==
  Become(FoldLeft(LAMBDA u, k : Inserted(u, k, heights[k]), NewList, Elements(list)))

Next ==
  \/ \E k \in Key, h \in Level : Insert(k, h) \/ TryEmplace(k, h) \/ InsertOrAssign(k, h)
  \/ \E k \in Key : Erase(k) \/ EraseAt(k) \/ Extract(k)
  \/ \E S \in SUBSET Held : EraseIf(S) \/ Merge(S) \/ MergeSet(S)
  \/ \E heights \in [Held -> Level] : MoveElements(heights)
  \/ Clear \/ Copy

Spec == Init /\ [][Next]_vars
-----------------------------------------------------------------------------
(* Properties *)

\* Each level links, in order, the nodes that reach it; the list is as high as its highest node.
WellShaped ==
  Whole =>
    /\ \A i \in Level :
         LET chain == ChainFrom(list, Null, i) IN
         /\ \A j \in 1 .. Len(chain) - 1 : chain[j] < chain[j + 1]
         /\ Range(chain) = {k \in Held : list.height[k] >= i}
    /\ list.level = Max({0} \cup {list.height[k] : k \in Held})

\* Every search finds what a scan of the elements finds.
Least(S) == IF S = {} THEN Null ELSE Min(S)
LookupsRight ==
  Whole => \A k \in Key :
    /\ Find(list, k) = IF k \in Held THEN k ELSE Null
    /\ LowerBound(list, k) = Least({m \in Held : m >= k})
    /\ UpperBound(list, k) = Least({m \in Held : m > k})

\* The list is an ordered map.
Map == INSTANCE OrderedMap WITH many <- FALSE, usable <- Whole
ImplementsMap == Map!MapSpec

\* extract takes the element it is given and no other (skiplist_map_test.cc, "extract by iterator").
ExtractsOne == Whole => \A k \in Held : Range(Elements(Extracted(list, k))) = Held \ {k}

\* merge takes what the destination does not have (skiplist_map_test.cc, "merge").
MergeLeaves == Whole => \A kept \in SUBSET Held : Range(Elements(Merged(list, kept))) = kept
=============================================================================
