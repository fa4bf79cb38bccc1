---------------------------- MODULE StaticVectra ----------------------------
(***************************************************************************)
(* static_vectra.hpp: a vector of at most Room elements that live inside   *)
(* the object.  A call that would need more throws before it changes       *)
(* anything.  Each object is its slots and its size.                       *)
(***************************************************************************)
EXTENDS Slots

CONSTANTS
  Obj,      \* the objects
  Room,     \* N
  Given,    \* the lists that objects are built from and assigned
  MaxTotal  \* bound on the sizes of two objects together

\* What the code gives: N is a number of elements, and lists are of elements.
StaticConstants == Room \in Nat /\ Given \subseteq Seq(Value)

VARIABLES fixed, status

staticVars == <<fixed, status>>

New == [slots |-> RawSlots(Room), size |-> 0]

Elements(v)  == Listed(v.slots, v.size)
Fits(n)      == n <= Room
Holding(b, n) == [slots |-> b, size |-> n]

\* destroy_range over the elements, before the size is set.
Cleared(v)   == Destroyed(v.slots, 0, v.size)
\* The elements are moved out and destroyed.
Drained(v)   == Holding(Destroyed(MovedFrom(v.slots, 0, v.size), 0, v.size), 0)

Built(s)       == Holding(Filled(RawSlots(Room), 0, s), Len(s))
Assigned(v, s) == Holding(Filled(Cleared(v), 0, s), Len(s))
PushedBack(v, x) == Holding(Constructed(v.slots, v.size, x), v.size + 1)

Resized(v, n, x) ==
  IF n > v.size THEN Holding(Filled(v.slots, v.size, Copies(n - v.size, x)), n)
                ELSE Holding(Destroyed(v.slots, n, v.size), n)

Erased(v, first, last) == Holding(Closed(v.slots, first, last, v.size), v.size - (last - first))

\* insert of one element.
Inserted(v, pos, x) == Holding(Constructed(Opened(v.slots, pos, 1, v.size), pos, x), v.size + 1)

\* insert of n copies: the tail moves first to last when it does not overlap its target, and last to
\* first otherwise.
InsertedMany(v, pos, n, x) ==
  LET b == IF pos + n >= v.size THEN MovedForward(v.slots, pos + n, pos, v.size)
                                ELSE MovedBackward(v.slots, pos + n, pos, v.size)
  IN Holding(Filled(b, pos, Copies(n, x)), v.size + n)

\* std::erase, std::erase_if: the elements that stay are assigned down, then the rest is erased.
Weeded(v, x) ==
  LET kept == Without(Elements(v), x)
      b == [i \in DOMAIN v.slots |-> IF i < Len(kept) THEN kept[i + 1]
                                     ELSE IF i < v.size THEN Husk ELSE v.slots[i]]
  IN Erased(Holding(b, v.size), Len(kept), v.size)

\* swap: the common elements one by one, the others moved over; what v is afterwards.
SwappedWith(v, w) ==
  LET common == IF v.size < w.size THEN v.size ELSE w.size
      b == [i \in DOMAIN v.slots |-> IF i < common THEN w.slots[i] ELSE v.slots[i]]
  IN IF v.size > w.size
       THEN Holding(Destroyed(MovedFrom(b, common, v.size), common, v.size), w.size)
       ELSE Holding(Filled(b, common, SubSeq(Elements(w), common + 1, w.size)), w.size)
-----------------------------------------------------------------------------
Init == fixed = [o \in Obj |-> New] /\ status = "whole"

Whole == status = "whole"
Bounded(f) == \A o, p \in Obj : o # p => f[o].size + f[p].size <= MaxTotal
Become(f) == Whole /\ fixed' = f /\ UNCHANGED status /\ Bounded(f)
Set(o, v) == Become([fixed EXCEPT ![o] = v])
SetBoth(o, p, v, w) == o # p /\ Become([fixed EXCEPT ![o] = v, ![p] = w])

\* push_back and emplace_back: throw_if_full.
PushBack(o, x)   == Fits(fixed[o].size + 1) /\ Set(o, PushedBack(fixed[o], x))
PopBack(o)       == fixed[o].size > 0 /\ Set(o, Erased(fixed[o], fixed[o].size - 1, fixed[o].size))
Clear(o)         == Set(o, Holding(Cleared(fixed[o]), 0))
Resize(o, n, x)  == Fits(n) /\ Set(o, Resized(fixed[o], n, x))
Assign(o, s)     == Fits(Len(s)) /\ Set(o, Assigned(fixed[o], s))
Construct(o, s)  == Fits(Len(s)) /\ Set(o, Built(s))
CopyAssign(o, p) == o # p /\ Set(o, Assigned(fixed[o], Elements(fixed[p])))
MoveAssign(o, p) == SetBoth(o, p, Assigned(fixed[o], Elements(fixed[p])), Drained(fixed[p]))
CopyConstruct(o, p) == o # p /\ Set(o, Built(Elements(fixed[p])))
MoveConstruct(o, p) == SetBoth(o, p, Built(Elements(fixed[p])), Drained(fixed[p]))
Erase(o, i, j)   == i < j /\ j <= fixed[o].size /\ Set(o, Erased(fixed[o], i, j))
Weed(o, x)       == Set(o, Weeded(fixed[o], x))
Swap(o, p)       == SetBoth(o, p, SwappedWith(fixed[o], fixed[p]), SwappedWith(fixed[p], fixed[o]))

Insert(o, i, x) ==
  /\ Fits(fixed[o].size + 1) /\ i <= fixed[o].size
  /\ Set(o, Inserted(fixed[o], i, x))

InsertMany(o, i, n, x) ==
  /\ Fits(fixed[o].size + n) /\ i <= fixed[o].size /\ (n > 0 \/ i = fixed[o].size)
  /\ Set(o, InsertedMany(fixed[o], i, n, x))

\* No copies before an element: each element of the tail is constructed over itself and destroyed.
InsertNone(o, i, x) ==
  /\ Whole /\ i < fixed[o].size
  /\ fixed' = [fixed EXCEPT ![o] = InsertedMany(@, i, 0, x)]
  /\ status' = "torn"

Next ==
  \E o \in Obj :
    \/ \E x \in Value : PushBack(o, x) \/ Weed(o, x)
    \/ PopBack(o) \/ Clear(o)
    \/ \E n \in 0 .. Room + 1, x \in Value :
         \/ Resize(o, n, x) \/ Insert(o, n, x) \/ InsertNone(o, n, x) \/ Assign(o, Copies(n, x))
         \/ \E i \in 0 .. Room : InsertMany(o, i, n, x)
    \/ \E s \in Given : Assign(o, s) \/ Construct(o, s)
    \/ \E i, j \in 0 .. Room : Erase(o, i, j)
    \/ \E p \in Obj : \/ CopyAssign(o, p) \/ MoveAssign(o, p) \/ Swap(o, p)
                      \/ CopyConstruct(o, p) \/ MoveConstruct(o, p)

Spec == Init /\ [][Next]_staticVars
-----------------------------------------------------------------------------
\* The first size slots of an object hold elements and the others none (static_vectra.hpp:556-629):
\* nothing is leaked, constructed over or destroyed twice, whichever way the tail moves.
SlotsHeld == Whole => \A o \in Obj : Holds(fixed[o].slots, fixed[o].size)

\* Each object is a vector.
Promise == INSTANCE Vector WITH
  content <- [o \in Obj |-> IF Whole THEN Elements(fixed[o]) ELSE <<>>],
  usable <- Whole, Turn <- [x \in Value |-> x]
ImplementsVector == Promise!VectorSpec
=============================================================================
