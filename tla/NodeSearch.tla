---------------------------- MODULE NodeSearch ----------------------------
(***************************************************************************)
(* The searches inside one node of a B-tree (container/btree_map.hpp): one *)
(* by one, by halves, and in vector registers, which compare several keys  *)
(* at a time and know signed numbers only.  A key is a word of Width bits, *)
(* read as a signed or an unsigned number; positions count from 0.         *)
(***************************************************************************)
EXTENDS Integers, Sequences, FiniteSetsExt

CONSTANTS
  Width,     \* of a key in bits
  MaxSlots,  \* kMaxSlots
  Builds     \* some of "avx2", "sse2", "neon", "plain"

VARIABLES
  slots,  \* the keys of the node, in order
  type    \* "s32", "u32", "s64", "u64", "float", "double", "string" or "other"

nodeVars == <<slots, type>>

Word    == 0 .. 2 ^ Width - 1
SignBit == 2 ^ (Width - 1)

\* A word as a signed number; a word with its highest bit turned over.
AsSigned(x) == IF x >= SignBit THEN x - 2 * SignBit ELSE x
Turned(x)   == (x + SignBit) % (2 * SignBit)

\* Whether x comes before y; the comparison of the registers for each type.
Unsigned == type \in {"u32", "u64"}
Precedes(x, y) == IF Unsigned THEN x < y ELSE AsSigned(x) < AsSigned(y)
LaneUnturned(x, k) == AsSigned(k) < AsSigned(x)  \* mutant
LaneGreater(x, k)  == IF Unsigned THEN AsSigned(Turned(k)) < AsSigned(Turned(x)) ELSE AsSigned(k) < AsSigned(x)

\* The first register with a greater key and its first such lane; behind the last register, the first
\* greater key.
InRegisters(lanes, s, k) ==
  LET full    == Len(s) \div lanes
      hits(b) == {l \in 0 .. lanes - 1 : LaneGreater(s[b * lanes + l + 1], k)}
      blocks  == {b \in 0 .. full - 1 : hits(b) # {}}
      rest    == {j \in full * lanes + 1 .. Len(s) : Precedes(k, s[j])}
  IN IF blocks # {} THEN Min(blocks) * lanes + Min(hits(Min(blocks)))
     ELSE IF rest # {} THEN Min(rest) - 1 ELSE Len(s)

\* simd_upper_bound_* and neon_upper_bound_*, by the size of the keys.
Sse32(s, k)     == InRegisters(4, s, k)
SseFloats(s, k) == InRegisters(IF type = "float" THEN 4 ELSE 2, s, k)
Avx64(s, k)     == InRegisters(4, s, k)
Neon32(s, k)    == InRegisters(4, s, k)
Neon64(s, k)    == InRegisters(2, s, k)
NeonFloats(s, k) == InRegisters(IF type = "float" THEN 4 ELSE 2, s, k)

\* linear_search_in_slots, linear_search_upper_bound_in_slots.
FirstAt(s, S) == IF S = {} THEN Len(s) ELSE Min(S) - 1
LinearLower(s, k) == FirstAt(s, {j \in DOMAIN s : ~Precedes(s[j], k)})
LinearUpper(s, k) == FirstAt(s, {j \in DOMAIN s : Precedes(k, s[j])})

\* binary_search_in_slots, binary_search_upper_bound_in_slots: the first of lo .. hi that is not below.
RECURSIVE Halve(_, _, _, _, _)
Halve(s, k, upper, lo, hi) ==
  LET mid   == lo + (hi - lo) \div 2
      below == IF upper THEN ~Precedes(k, s[mid + 1]) ELSE Precedes(s[mid + 1], k)
  IN IF lo >= hi THEN lo
     ELSE IF below THEN Halve(s, k, upper, mid + 1, hi) ELSE Halve(s, k, upper, lo, mid)
BinaryLower(s, k) == Halve(s, k, FALSE, 0, Len(s))
BinaryUpper(s, k) == Halve(s, k, TRUE, 0, Len(s))

\* binary_search_three_way: position and whether k was met there.
RECURSIVE Meet(_, _, _, _)
Meet(s, k, lo, hi) ==
  LET mid == lo + (hi - lo) \div 2 IN
  IF lo >= hi THEN <<lo, FALSE>>
  ELSE IF Precedes(s[mid + 1], k) THEN Meet(s, k, mid + 1, hi)
  ELSE IF Precedes(k, s[mid + 1]) THEN Meet(s, k, lo, mid)
  ELSE <<mid, TRUE>>
ThreeWay(s, k) == Meet(s, k, 0, Len(s))

LowerInNode(s, k) == IF type = "string" THEN BinaryLower(s, k) ELSE LinearLower(s, k)

\* upper_bound_in_leaf of a build, for the comparison std::less.
UpperInLeaf(build, s, k) ==
  CASE build = "avx2" /\ type \in {"s64", "u64"}           -> Avx64(s, k)
    [] build \in {"avx2", "sse2"} /\ type \in {"s32", "u32"} -> Sse32(s, k)
    [] build \in {"avx2", "sse2"} /\ type \in {"float", "double"} -> SseFloats(s, k)
    [] build = "neon" /\ type \in {"s32", "u32"}           -> Neon32(s, k)
    [] build = "neon" /\ type \in {"s64", "u64"}           -> Neon64(s, k)
    [] build = "neon" /\ type \in {"float", "double"}      -> NeonFloats(s, k)
    [] type = "string"                                     -> BinaryUpper(s, k)
    [] OTHER                                               -> LinearUpper(s, k)
UpperInInternal(s, k) == IF type = "string" THEN BinaryUpper(s, k) ELSE LinearUpper(s, k)
-----------------------------------------------------------------------------
Types == {"s32", "u32", "s64", "u64", "float", "double", "string", "other"}

Init == slots = <<>> /\ type \in Types

\* A key joins the node, behind the last one: every sorted node is reached.
Extend ==
  /\ Len(slots) < MaxSlots
  /\ \E x \in Word : /\ slots # <<>> => ~Precedes(x, slots[Len(slots)])
                     /\ slots' = Append(slots, x)
  /\ UNCHANGED type

Spec == Init /\ [][Extend]_nodeVars
-----------------------------------------------------------------------------
\* Every search of every build returns what counting the keys returns, with keys of both signs, equal
\* keys and any number left over behind the registers (btree_map.hpp:454-1116).
SearchesRight ==
  \A k \in Word :
    LET lower == Cardinality({j \in DOMAIN slots : Precedes(slots[j], k)})
        upper == Cardinality({j \in DOMAIN slots : ~Precedes(k, slots[j])})
    IN /\ LinearLower(slots, k) = lower /\ BinaryLower(slots, k) = lower /\ LowerInNode(slots, k) = lower
       /\ UpperInInternal(slots, k) = upper /\ BinaryUpper(slots, k) = upper
       /\ \A build \in Builds : UpperInLeaf(build, slots, k) = upper
       /\ LET met == ThreeWay(slots, k) IN
          IF met[2] THEN slots[met[1] + 1] = k ELSE met[1] = lower /\ lower = upper
=============================================================================
