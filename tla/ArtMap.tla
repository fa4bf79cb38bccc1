------------------------------ MODULE ArtMap ------------------------------
(***************************************************************************)
(* art_map (container/art_map.hpp): the adaptive radix tree.  A key is the *)
(* sequence of its bytes (ArtKeys says how it is made).  A tree is a value *)
(* here: a pointer to a node is the node, and a slot of a node is replaced *)
(* by rebuilding the nodes above it.                                       *)
(*                                                                         *)
(* The mapped value moves with its key.  An allocation that fails inside   *)
(* do_insert is left out: it happens before the tree is touched.           *)
(***************************************************************************)
EXTENDS Integers, Sequences, SequencesExt, FiniteSets, FiniteSetsExt

CONSTANTS
  Key,                   \* sequences over Byte
  MaxByte,               \* 255
  Cap,                   \* kCap, the longest prefix of a node
  Room4, Room16, Room48, \* the most children of a node of each kind
  Few16, Few48, Few256   \* a node of this kind with so few children shrinks

VARIABLES
  trie,     \* [root, size, taken]: _root, _size, and how many nodes of each kind the pools have given out
  content   \* how often each key occurs in the tree, kept beside it

vars == <<trie, content>>

Byte == 0 .. MaxByte
Kind == {"leaf", "n4", "n16", "n48", "n256"}

Null    == [kind |-> "null"]
Leaf(k) == [kind |-> "leaf", key |-> k]

\* bytes: keys of n4 and n16, which are in order; cindex of n48.  child: by position, by slot, or by byte.
Make(kind) ==
  [kind |-> kind, prefix |-> <<>>, end |-> Null, nchild |-> 0,
   bytes |-> IF kind = "n48" THEN [b \in Byte |-> 0] ELSE <<>>,
   child |-> IF kind = "n256" THEN [i \in 1 .. MaxByte + 1 |-> Null] ELSE <<>>]

IsLeaf(n) == n.kind = "leaf"
Sorted(kind) == kind \in {"n4", "n16"}

\* find_child_ref: where the child for byte b is, or 0.
Slot(n, b) ==
  IF Sorted(n.kind) THEN SelectInSeq(n.bytes, LAMBDA x : x = b)
  ELSE IF n.kind = "n48" THEN n.bytes[b]
  ELSE IF n.child[b + 1] = Null THEN 0 ELSE b + 1

Child(n, b) == LET i == Slot(n, b) IN IF i = 0 THEN Null ELSE n.child[i]
Replaced(n, b, c) == [n EXCEPT !.child[Slot(n, b)] = c]

AllBytes == [i \in 1 .. MaxByte + 1 |-> i - 1]

\* The bytes that have a child, in order, and the first after or the last before a byte; -1: none.
Bytes(n) == IF Sorted(n.kind) THEN n.bytes
            ELSE SelectSeq(AllBytes, LAMBDA b : Slot(n, b) # 0)
NextByte(n, b) == LET bs == Bytes(n)  i == SelectInSeq(bs, LAMBDA x : x > b) IN IF i = 0 THEN -1 ELSE bs[i]
PrevByte(n, b) == LET bs == Bytes(n)  i == SelectLastInSeq(bs, LAMBDA x : x < b) IN IF i = 0 THEN -1 ELSE bs[i]
FirstByte(n)   == NextByte(n, -1)
LastByte(n)    == PrevByte(n, MaxByte + 1)

IsFull(n) == \/ n.kind = "n4" /\ n.nchild = Room4
             \/ n.kind = "n16" /\ n.nchild = Room16
             \/ n.kind = "n48" /\ n.nchild = Room48

AddChild(n, b, c) ==
  LET i   == SelectInSeq(n.bytes, LAMBDA x : x >= b)
      pos == IF i = 0 THEN n.nchild + 1 ELSE i
  IN CASE Sorted(n.kind)  -> [n EXCEPT !.bytes = InsertAt(@, pos, b), !.child = InsertAt(@, pos, c), !.nchild = @ + 1]
       [] n.kind = "n48"  -> [n EXCEPT !.bytes[b] = n.nchild + 1, !.child = Append(@, c), !.nchild = @ + 1]
       [] n.kind = "n256" -> [n EXCEPT !.child[b + 1] = c, !.nchild = @ + 1]

\* In a node of kind n48 the last slot moves into the hole.
RemoveChild(n, b) ==
  LET i == Slot(n, b) IN
  CASE Sorted(n.kind)  -> [n EXCEPT !.bytes = RemoveAt(@, i), !.child = RemoveAt(@, i), !.nchild = @ - 1]
    [] n.kind = "n48"  -> [n EXCEPT !.bytes = [x \in Byte |-> IF x = b THEN 0
                                                              ELSE IF n.bytes[x] = n.nchild THEN i ELSE n.bytes[x]],
                                    !.child = Front(ReplaceAt(@, i, Last(@))), !.nchild = @ - 1]
    [] n.kind = "n256" -> [n EXCEPT !.child[b + 1] = Null, !.nchild = @ - 1]

\* grow and shrink_result: the same children, in order, in a node of another kind; n48 grows from n16 slot by slot.
Repacked(n, kind) ==
  LET bs == Bytes(n) IN
  [n EXCEPT !.kind = kind,
            !.bytes = IF Sorted(kind) THEN bs
                      ELSE IF kind = "n48" THEN [b \in Byte |-> SelectInSeq(bs, LAMBDA x : x = b)] ELSE <<>>,
            !.child = IF kind = "n256" THEN [i \in 1 .. MaxByte + 1 |-> Child(n, i - 1)]
                      ELSE [i \in 1 .. Len(bs) |-> Child(n, bs[i])]]
Larger(kind)  == CASE kind = "n4" -> "n16" [] kind = "n16" -> "n48" [] kind = "n48" -> "n256"
Smaller(kind) == CASE kind = "n256" -> "n48" [] kind = "n48" -> "n16" [] kind = "n16" -> "n4"

IsSparse(n) == \/ n.kind = "n16" /\ n.nchild <= Few16
               \/ n.kind = "n48" /\ n.nchild <= Few48
               \/ n.kind = "n256" /\ n.nchild <= Few256

Took(taken, kind, amount) == [taken EXCEPT ![kind] = @ + amount]
Gave(taken, kind)         == [taken EXCEPT ![kind] = @ - 1]

\* How many leading bytes a and b share; view_cmp.
Shared(a, b) ==
  LET m == Min({Len(a), Len(b)}) IN Min({m} \cup {i \in 0 .. m - 1 : a[i + 1] # b[i + 1]})
Before(a, b) ==
  LET m == Shared(a, b) IN IF m = Min({Len(a), Len(b)}) THEN Len(a) < Len(b) ELSE a[m + 1] < b[m + 1]
Rest(k, depth) == SubSeq(k, depth + 1, Len(k))

RECURSIVE Found(_, _, _), ForEach(_)
\* find_leaf
Found(n, k, depth) ==
  IF n = Null THEN Null
  ELSE IF IsLeaf(n) THEN IF n.key = k THEN n ELSE Null
  ELSE LET e == depth + Len(n.prefix) IN
       IF ~IsPrefix(n.prefix, Rest(k, depth)) THEN Null
       ELSE IF e = Len(k) THEN n.end
       ELSE Found(Child(n, k[e + 1]), k, e + 1)

\* for_each
Ends(n) == IF n.end = Null THEN <<>> ELSE <<n.end.key>>
ForEach(n) ==
  IF n = Null THEN <<>> ELSE IF IsLeaf(n) THEN <<n.key>>
  ELSE LET bs == Bytes(n) IN Ends(n) \o FlattenSeq([i \in DOMAIN bs |-> ForEach(Child(n, bs[i]))])

-----------------------------------------------------------------------------
(* An iterator is its leaf and the cursors of its frames: the node of a    *)
(* frame is the root, or the child at the cursor of the frame below.  The  *)
(* cursor -1 stands at end_leaf.                                           *)

RECURSIVE NodeAt(_, _), Leftmost(_, _), Rightmost(_, _), Advance(_, _), Retreat(_, _)
NodeAt(root, cursors) == IF cursors = <<>> THEN root ELSE Child(NodeAt(root, Front(cursors)), Last(cursors))

At(leaf, stack) == [leaf |-> leaf, stack |-> stack]
End == At(Null, <<>>)

Leftmost(n, stack) ==
  IF IsLeaf(n) THEN At(n, stack)
  ELSE IF n.end # Null THEN At(n.end, Append(stack, -1))
  ELSE LET b == FirstByte(n) IN Leftmost(Child(n, b), Append(stack, b))
Rightmost(n, stack) ==
  IF IsLeaf(n) THEN At(n, stack)
  ELSE LET b == LastByte(n) IN
       IF b # -1 THEN Rightmost(Child(n, b), Append(stack, b)) ELSE At(n.end, Append(stack, -1))

Advance(root, stack) ==
  IF stack = <<>> THEN End
  ELSE LET n == NodeAt(root, Front(stack))
           b == NextByte(n, Last(stack))
       IN IF b # -1 THEN Leftmost(Child(n, b), Append(Front(stack), b)) ELSE Advance(root, Front(stack))

Retreat(root, it) ==
  IF it.leaf = Null THEN IF root = Null THEN it ELSE Rightmost(root, it.stack)
  ELSE IF it.stack = <<>> THEN it
  ELSE LET under == Front(it.stack)
           n == NodeAt(root, under)
           b == PrevByte(n, Last(it.stack))
       IN IF Last(it.stack) = -1 THEN Retreat(root, At(it.leaf, under))
          ELSE IF b # -1 THEN Rightmost(Child(n, b), Append(under, b))
          ELSE IF n.end # Null THEN At(n.end, Append(under, -1))
          ELSE Retreat(root, At(it.leaf, under))

Begin(root) == IF root = Null THEN End ELSE Leftmost(root, <<>>)

\* lower_bound_impl
RECURSIVE Bound(_, _, _, _, _)
Bound(root, n, k, depth, stack) ==
  IF IsLeaf(n) THEN IF Before(n.key, k) THEN Advance(root, stack) ELSE At(n, stack)
  ELSE LET rest == Rest(k, depth)
           m == Shared(n.prefix, rest)
           e == depth + Len(n.prefix)
       IN IF m < Len(n.prefix)
          THEN IF m = Len(rest) \/ rest[m + 1] < n.prefix[m + 1] THEN Leftmost(n, stack) ELSE Advance(root, stack)
          ELSE IF e = Len(k)
          THEN IF n.end # Null THEN At(n.end, Append(stack, -1)) ELSE Leftmost(n, stack)
          ELSE LET b  == k[e + 1]
                   nb == NextByte(n, b)
                   c  == Child(n, b)
               IN IF c # Null THEN Bound(root, c, k, e + 1, Append(stack, b))
                  ELSE IF nb # -1 THEN Leftmost(Child(n, nb), Append(stack, nb)) ELSE Advance(root, stack)

LowerBound(root, k) == IF root = Null THEN End ELSE Bound(root, root, k, 0, <<>>)
\* upper_bound and find, from the lower bound.
UpperFrom(root, it, k) == IF it.leaf = Leaf(k) THEN Advance(root, it.stack) ELSE it
FindFrom(it, k)        == IF it.leaf = Leaf(k) THEN it ELSE End

-----------------------------------------------------------------------------
(* do_insert.  Its result is the node that takes the place of n, the       *)
(* frames of the iterator from n on, and what the pools have given out.    *)

Into(node, path, taken) == [node |-> node, path |-> path, taken |-> taken]

\* The key ends at node n, or has a child of its own there.
Placed(n, k, depth, leaf) == IF depth = Len(k) THEN [n EXCEPT !.end = leaf] ELSE AddChild(n, k[depth + 1], leaf)
Cursor(k, depth) == IF depth = Len(k) THEN -1 ELSE k[depth + 1]

\* split_leaf: nodes with one child each up to the byte where the keys part, and a node for both.
RECURSIVE SplitLeaf(_, _, _, _)
SplitLeaf(old, k, depth, taken) ==
  LET s  == depth + Shared(Rest(old.key, depth), Rest(k, depth))
      e  == Min({s, depth + Cap})
      nd == [Make("n4") EXCEPT !.prefix = SubSeq(k, depth + 1, e)]
      on == SplitLeaf(old, k, e + 1, taken)
  IN IF e = s THEN Into(Placed(Placed(nd, old.key, s, old), k, s, Leaf(k)), <<Cursor(k, s)>>, Took(taken, "n4", 1))
     ELSE Into(AddChild(nd, k[e + 1], on.node), <<k[e + 1]>> \o on.path, Took(on.taken, "n4", 1))

\* split_prefix: a node for the bytes that match, above what is left of n.
SplitPrefix(n, common, k, depth, taken) ==
  LET top  == [Make("n4") EXCEPT !.prefix = SubSeq(n.prefix, 1, common)]
      left == [n EXCEPT !.prefix = SubSeq(@, common + 2, Len(@))]
      e    == depth + common
  IN Into(Placed(AddChild(top, n.prefix[common + 1], left), k, e, Leaf(k)), <<Cursor(k, e)>>, Took(taken, "n4", 1))

RECURSIVE Put(_, _, _, _)
Put(n, k, depth, taken) ==
  LET fresh == Took(taken, "leaf", 1) IN
  IF n = Null THEN Into(Leaf(k), <<>>, fresh)
  ELSE IF IsLeaf(n) THEN IF n.key = k THEN Into(n, <<>>, taken) ELSE SplitLeaf(n, k, depth, fresh)
  ELSE
    LET common == Shared(n.prefix, Rest(k, depth))
        e      == depth + Len(n.prefix)
        b      == k[e + 1]
        c      == Child(n, b)
        below  == Put(c, k, e + 1, taken)
        grown  == IF IsFull(n) THEN Repacked(n, Larger(n.kind)) ELSE n
        shells == IF IsFull(n) THEN Took(Gave(fresh, n.kind), grown.kind, 1) ELSE fresh
    IN IF common < Len(n.prefix) THEN SplitPrefix(n, common, k, depth, fresh)
       ELSE IF e = Len(k) THEN
         IF n.end # Null THEN Into(n, <<-1>>, taken) ELSE Into([n EXCEPT !.end = Leaf(k)], <<-1>>, fresh)
       ELSE IF c = Null THEN Into(AddChild(grown, b, Leaf(k)), <<b>>, shells)
       ELSE Into(Replaced(n, b, below.node), <<b>> \o below.path, below.taken)

Inserted(t, k) ==
  LET r == Put(t.root, k, 0, t.taken) IN
  [root |-> r.node, size |-> IF Found(t.root, k, 0) = Null THEN t.size + 1 ELSE t.size, taken |-> r.taken]
\* The iterator that insert returns.
InsertedAt(r, k) == At(Leaf(k), r.path)

-----------------------------------------------------------------------------
(* erase.  `spare` says whether the smaller node of a shrink can be had.   *)

Left(node, taken) == [node |-> node, taken |-> taken]

\* collapse_result: what takes the place of n, which has lost a child or its end_leaf.
Collapsed(n, taken, spare) ==
  LET b == FirstByte(n)
      c == Child(n, b)
  IN IF n.nchild = 0 THEN Left(n.end, Gave(taken, n.kind))
     ELSE IF n.nchild = 1 /\ n.end = Null THEN
       IF IsLeaf(c) THEN Left(c, Gave(taken, n.kind))
       ELSE IF Len(n.prefix) + 1 + Len(c.prefix) <= Cap
            THEN Left([c EXCEPT !.prefix = n.prefix \o <<b>> \o @], Gave(taken, n.kind))
            ELSE Left(n, taken)
     ELSE IF IsSparse(n) /\ spare
          THEN Left(Repacked(n, Smaller(n.kind)), Took(Gave(taken, n.kind), Smaller(n.kind), 1))
          ELSE Left(n, taken)

\* The key is in the tree under n.  A node that goes takes its slot with it, and its parent may go too.
RECURSIVE Without(_, _, _, _, _)
Without(n, k, depth, taken, spare) ==
  IF IsLeaf(n) THEN Left(Null, Gave(taken, "leaf"))
  ELSE
    LET e     == depth + Len(n.prefix)
        b     == k[e + 1]
        below == Without(Child(n, b), k, e + 1, taken, spare)
    IN IF e = Len(k) THEN Collapsed([n EXCEPT !.end = Null], Gave(taken, "leaf"), spare)
       ELSE IF below.node = Null THEN Collapsed(RemoveChild(n, b), below.taken, spare)
       ELSE Left(Replaced(n, b, below.node), below.taken)

Erased(t, k, spare) ==
  IF Found(t.root, k, 0) = Null THEN t
  ELSE LET r == Without(t.root, k, 0, t.taken, spare) IN [root |-> r.node, size |-> t.size - 1, taken |-> r.taken]

-----------------------------------------------------------------------------
(* clone and bulk_build make a tree from nothing.                          *)

RECURSIVE Clone(_), BulkBuild(_, _), Tally(_, _)
Tally(n, kind) ==
  IF n = Null THEN 0 ELSE
  (IF n.kind = kind THEN 1 ELSE 0) +
  (IF IsLeaf(n) THEN 0 ELSE Tally(n.end, kind) + FoldLeft(LAMBDA a, c : a + Tally(c, kind), 0, n.child))
Anew(root, size) == [root |-> root, size |-> size, taken |-> [x \in Kind |-> Tally(root, x)]]

Clone(n) ==
  IF n = Null \/ IsLeaf(n) THEN n
  ELSE [Make(n.kind) EXCEPT !.bytes = n.bytes, !.child = [i \in 1 .. Len(n.child) |-> Clone(n.child[i])],
                            !.nchild = n.nchild, !.prefix = n.prefix, !.end = Clone(n.end)]

KindFor(runs) == IF runs <= Room4 THEN "n4" ELSE IF runs <= Room16 THEN "n16"
                 ELSE IF runs <= Room48 THEN "n48" ELSE "n256"
BulkAppend(n, b, c) ==
  IF Sorted(n.kind) THEN [n EXCEPT !.bytes = Append(@, b), !.child = Append(@, c), !.nchild = @ + 1]
  ELSE AddChild(n, b, c)

\* ks: the keys in order, each once, which share their first bytes up to depth.
BulkBuild(ks, depth) ==
  IF Len(ks) = 1 THEN Leaf(ks[1])
  ELSE LET p      == Min({Shared(ks[1], Last(ks)), depth + Cap})
           ends   == Len(ks[1]) = p
           rest   == IF ends THEN Tail(ks) ELSE ks
           run(b) == SelectSeq(rest, LAMBDA k : k[p + 1] = b)
           bs     == SelectSeq(AllBytes, LAMBDA b : run(b) # <<>>)
           nd     == [Make(KindFor(Len(bs))) EXCEPT !.prefix = SubSeq(ks[1], depth + 1, p),
                                                    !.end = IF ends THEN Leaf(ks[1]) ELSE Null]
       IN FoldLeft(LAMBDA n, b : BulkAppend(n, b, BulkBuild(run(b), p + 1)), nd, bs)

\* bulk_load: of neighbours that are equal the last stays.
Loaded(list) ==
  LET ks == FoldLeft(LAMBDA a, k : IF a # <<>> /\ Last(a) = k THEN a ELSE Append(a, k), <<>>, list) IN
  IF ks = <<>> THEN Anew(Null, 0) ELSE Anew(BulkBuild(ks, 0), Len(ks))

-----------------------------------------------------------------------------
NewTrie == Anew(Null, 0)
Amounts(t) == LET held == Range(ForEach(t.root)) IN [k \in Key |-> IF k \in held THEN 1 ELSE 0]

Init == trie = NewTrie /\ content = Amounts(NewTrie)

Become(t) == trie' = t /\ content' = Amounts(t)

Insert(k)       == Become(Inserted(trie, k))  \* insert, emplace, try_emplace, insert_or_assign, operator[]
Erase(k, spare) == Become(Erased(trie, k, spare))  \* by key, and by iterator: the next key is looked for anew
Clear           == Become(NewTrie)

\* Copy assignment from an equal map; it clears first, and the clone may throw.
CopyAssign       == Become(Anew(Clone(trie.root), trie.size))
CopyAssignThrows == trie.root # Null /\ Become(NewTrie)

\* Move assignment between unequal allocators, from an equal map: clear, then an insert each, which may throw.
MoveElements(n) == n <= trie.size /\ Become(FoldLeft(Inserted, NewTrie, SubSeq(ForEach(trie.root), 1, n)))

\* The range is in order, and may have a key twice.  bulk_load clears first: the map is empty here.
BulkLoad(S, twice) ==
  /\ trie.root = Null
  /\ LET list == [i \in 1 .. Cardinality(S) |-> CHOOSE k \in S : Cardinality({m \in S : Before(m, k)}) = i - 1]
     IN Become(Loaded(FlattenSeq([i \in DOMAIN list |-> IF twice THEN <<list[i], list[i]>> ELSE <<list[i]>>])))

NextWith(keys) ==
  \/ \E k \in keys : Insert(k)
  \/ \E k \in keys, spare \in BOOLEAN : Erase(k, spare)
  \/ \E S \in SUBSET keys, twice \in BOOLEAN : BulkLoad(S, twice)
  \/ \E n \in 0 .. trie.size : MoveElements(n)
  \/ Clear \/ CopyAssign \/ CopyAssignThrows
Next == NextWith(Key)

Spec == Init /\ [][Next]_vars
-----------------------------------------------------------------------------
(* Properties *)

\* Every node with the bytes that lead to it.
RECURSIVE Nodes(_, _)
Nodes(n, path) ==
  IF n = Null THEN <<>> ELSE IF IsLeaf(n) THEN <<[node |-> n, path |-> path]>>
  ELSE LET on == path \o n.prefix  bs == Bytes(n) IN
       <<[node |-> n, path |-> on]>> \o FlattenSeq([i \in DOMAIN bs |-> Nodes(Child(n, bs[i]), Append(on, bs[i]))])

InnerFits(n, path) ==
  /\ n.nchild = Len(Bytes(n)) /\ n.nchild >= 1 /\ Len(n.prefix) <= Cap
  /\ Sorted(n.kind) => \A i \in 1 .. n.nchild - 1 : n.bytes[i] < n.bytes[i + 1]
  /\ n.kind = "n48" => /\ Range(n.bytes) \ {0} = 1 .. n.nchild
                       /\ \A x, y \in Byte : n.bytes[x] = n.bytes[y] /\ x # y => n.bytes[x] = 0
  /\ n.end # Null => n.end.key = path

\* Every leaf is where its bytes lead; a node has a child at least, each in a slot of its own, in
\* order; _size counts the leaves, and the pools have given out the nodes of the tree and no others.
WellShaped ==
  /\ \A x \in Range(Nodes(trie.root, <<>>)) :
       IF IsLeaf(x.node) THEN IsPrefix(x.path, x.node.key) ELSE InnerFits(x.node, x.path)
  /\ trie.size = Len(ForEach(trie.root))
  /\ \A kind \in Kind : trie.taken[kind] = Tally(trie.root, kind)

\* Every search finds what a scan of the elements finds, and its iterator walks on and back from there.
Stands(it, elements, before) ==
  /\ it.leaf = IF before = Len(elements) THEN Null ELSE Leaf(elements[before + 1])
  /\ before > 0 => Retreat(trie.root, it).leaf = Leaf(elements[before])
LookupsRight ==
  LET elements == ForEach(trie.root) IN
  \A k \in Key :
    LET less == Cardinality({i \in DOMAIN elements : Before(elements[i], k)})
        held == content[k] = 1
        it   == LowerBound(trie.root, k)
    IN /\ Found(trie.root, k, 0) = IF held THEN Leaf(k) ELSE Null
       /\ FindFrom(it, k).leaf = IF held THEN Leaf(k) ELSE Null
       /\ \A x \in {<<it, less>>, <<UpperFrom(trie.root, it, k), IF held THEN less + 1 ELSE less>>} :
            Stands(x[1], elements, x[2])

\* The iterator from begin and the one back from end visit the elements in order.
RECURSIVE Forward(_, _), Backward(_, _)
Forward(root, it) == IF it.leaf = Null THEN <<>> ELSE <<it.leaf.key>> \o Forward(root, Advance(root, it.stack))
Backward(root, it) == IF it.stack = <<>> THEN <<it.leaf.key>>
                      ELSE LET back == Retreat(root, it) IN
                           IF back.leaf = it.leaf THEN <<it.leaf.key>> ELSE Append(Backward(root, back), it.leaf.key)
WalksRight ==
  LET elements == ForEach(trie.root) IN
  trie.root # Null =>
    /\ \A i \in 1 .. Len(elements) - 1 : Before(elements[i], elements[i + 1])
    /\ Forward(trie.root, Begin(trie.root)) = elements
    /\ Backward(trie.root, Retreat(trie.root, End)) = elements

\* insert returns the iterator that a search for the key would return.
ReturnsRight ==
  \A k \in Key : LET r == Put(trie.root, k, 0, trie.taken) IN InsertedAt(r, k) = LowerBound(r.node, k)

\* The tree is an ordered map.
Map == INSTANCE OrderedMap WITH many <- FALSE, usable <- TRUE
ImplementsMap == Map!MapSpec
=============================================================================
