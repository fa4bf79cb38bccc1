--------------------------- MODULE MCOrderedMap ---------------------------
(***************************************************************************)
(* Small instances of the three sequential ordered maps.  Each behaviour   *)
(* of Spec is that of a B-tree with small nodes, which grows to three      *)
(* levels, of one with wider leaves, where an erased element of a leaf     *)
(* that is too empty has others behind it, of one of its nodes, wide       *)
(* enough for the vector registers, of a skip list, or of a radix tree,    *)
(* with keys that make its nodes wide or its paths long.                   *)
(***************************************************************************)
EXTENDS Integers, Sequences

CONSTANTS
  Key, UniqueKey, MultiKey, LeafSlots, InternalSlots, MaxSize,  \* of BTree
  WideKey, WideSlots, WideMaxSize,                              \* of BTree with wider leaves
  ListKey, MaxLevel,                                            \* of SkiplistMap
  Width, MaxSlots, Builds,                                      \* of NodeSearch
  MaxByte, Cap, Room4, Room16, Room48, Few16, Few48, Few256     \* of ArtMap

VARIABLES
  kind,                    \* "btree", "wide", "node", "skiplist", "broad" or "deep"
  tree, content, policy,   \* of BTree
  list, amounts, keys,     \* of SkiplistMap
  slots, type,             \* of NodeSearch
  trie, counts,            \* of ArtMap
  status

btreeVars == <<tree, content, policy>>
listVars  == <<list, amounts, keys>>
nodeVars  == <<slots, type>>
trieVars  == <<trie, counts>>
vars      == <<kind, btreeVars, listVars, nodeVars, trieVars, status>>

\* Five children of a node that has a prefix and may hold a key itself; keys that share long beginnings.
BroadKeys == {<<0, 0>>, <<0, 1>>, <<0, 2>>, <<0, 3>>, <<0, 4>>, <<0>>, <<1>>}
DeepKeys  == {<<>>, <<0>>, <<0, 0>>, <<0, 0, 0, 0>>, <<0, 0, 0, 1>>, <<0, 0, 0, 1, 0, 0>>, <<0, 1>>, <<1>>}

BT == INSTANCE BTree
BW == INSTANCE BTree WITH UniqueKey <- WideKey, LeafSlots <- WideSlots, MaxSize <- WideMaxSize
NS == INSTANCE NodeSearch
SL == INSTANCE SkiplistMap WITH Key <- ListKey, content <- amounts
AM == INSTANCE ArtMap WITH Key <- BroadKeys \cup DeepKeys, content <- counts
AK == INSTANCE ArtKeys WITH ByteBits <- 2, NumberBits <- 4, MantissaBits <- 1

\* What is not of this kind stays as it begins.
Init ==
  /\ kind \in {"btree", "wide", "node", "skiplist", "broad", "deep"}
  /\ BT!Init /\ SL!Init /\ NS!Init /\ AM!Init
  /\ kind \notin {"btree", "wide"} => policy = "unique"
  /\ kind # "node" => type = "other"
  /\ kind # "skiplist" => keys = "plain"
Next ==
  /\ UNCHANGED kind
  /\ \/ kind = "btree" /\ BT!Next /\ UNCHANGED <<listVars, nodeVars, trieVars>>
     \/ kind = "wide" /\ BW!Next /\ UNCHANGED <<listVars, nodeVars, trieVars>>
     \/ kind = "node" /\ NS!Extend /\ UNCHANGED <<btreeVars, listVars, trieVars, status>>
     \/ kind = "skiplist" /\ SL!Next /\ UNCHANGED <<btreeVars, nodeVars, trieVars>>
     \/ kind \in {"broad", "deep"} /\ AM!NextWith(IF kind = "broad" THEN BroadKeys ELSE DeepKeys)
        /\ UNCHANGED <<btreeVars, listVars, nodeVars, status>>
Spec == Init /\ [][Next]_vars

\* The B-tree is a B-tree, each level of the list links what reaches it in order, and every leaf of the radix
\* tree is where its bytes lead (btree_map.hpp:310, skiplist_map.hpp:286, art_map.hpp:182).
WellShaped ==
  CASE kind = "btree" -> BT!WellShaped
    [] kind = "wide" -> BW!WellShaped
    [] kind = "skiplist" -> SL!WellShaped
    [] kind \in {"broad", "deep"} -> AM!WellShaped
    [] OTHER -> TRUE

\* Every search finds what a scan of the elements in order finds, in a node of any build too; numbers are
\* searched in their order; iterators walk the tree in order and count it.
ReadsRight ==
  CASE kind \in {"btree", "wide"} -> BT!LookupsRight /\ BT!WalksRight
    [] kind = "node" -> NS!SearchesRight
    [] kind = "skiplist" -> SL!LookupsRight
    [] kind \in {"broad", "deep"} ->
         AM!LookupsRight /\ AM!WalksRight /\ (kind = "broad" /\ trie.size = 0 => AK!EncodersOrdered)

\* Inserts and erases return the right iterators.
ReturnsRight ==
  CASE kind = "btree" -> BT!ReturnsRight
    [] kind = "wide" -> BW!ReturnsRight
    [] kind \in {"broad", "deep"} -> AM!ReturnsRight
    [] OTHER -> TRUE

\* Each is an ordered map.
ImplementsMap == BT!ImplementsMap /\ SL!ImplementsMap /\ AM!ImplementsMap
=============================================================================
