---------------------------- MODULE SmallVectra ----------------------------
(***************************************************************************)
(* small_vectra.hpp: a vector whose first Inline elements live inside the  *)
(* object and which moves to an allocated buffer when it needs more room.  *)
(* Each object keeps its inline slots (inner) next to the buffer (heap,    *)
(* empty while the elements are inline); left is what the last buffer it   *)
(* gave back still held.  The elements' constructors are taken not to      *)
(* throw; the allocator may.                                               *)
(***************************************************************************)
EXTENDS Slots, FiniteSets

CONSTANTS
  Obj,          \* the objects
  Inline,       \* N
  Given,        \* the lists that objects are built from and assigned
  MaxCapacity,  \* bound on the buffers
  MaxTotal      \* bound on the sizes of two objects together

\* What the code gives: the array of inline elements is not empty (small_vectra.hpp:62), lists are of
\* elements, and the bounds are numbers.
SmallConstants ==
  Inline \in Nat \ {0} /\ Given \subseteq Seq(Value) /\ MaxCapacity \in Nat /\ MaxTotal \in Nat

VARIABLES vec, status

smallVars == <<vec, status>>

New == [inner |-> RawSlots(Inline), heap |-> <<>>, size |-> 0, left |-> {}]

OnHeap(v)    == DOMAIN v.heap # {}
Buffer(v)    == IF OnHeap(v) THEN v.heap ELSE v.inner
Capacity(v)  == Cardinality(DOMAIN Buffer(v))
Elements(v)  == Listed(Buffer(v), v.size)
With(v, b)   == IF OnHeap(v) THEN [v EXCEPT !.heap = b] ELSE [v EXCEPT !.inner = b]
Remains(b)   == {b[i] : i \in DOMAIN b} \ {Raw}

\* free_heap.
Freed(v) == IF OnHeap(v) THEN [v EXCEPT !.heap = <<>>, !.left = Remains(v.heap)] ELSE v

\* destroy_range over the elements; the size is set by the caller.
Cleared(v) == With(v, Destroyed(Buffer(v), 0, v.size))

\* What a buffer is after its elements were moved out and destroyed.
Drained(b, n) == Destroyed(MovedFrom(b, 0, n), 0, n)

\* migrate_to_heap, realloc_heap, shrink_heap.
Reallocated(v, cap) ==
  [Freed(With(v, Drained(Buffer(v), v.size))) EXCEPT !.heap = Filled(RawSlots(cap), 0, Elements(v))]

NextCapacity(v) == IF Capacity(v) < Inline THEN 2 * Inline ELSE 2 * Capacity(v)

\* push_back, emplace_back; realloc_and_emplace_back when the buffer is full.
PushedBack(v, x) ==
  LET r == IF v.size = Capacity(v) THEN Reallocated(v, NextCapacity(v)) ELSE v IN
  [With(r, Constructed(Buffer(r), v.size, x)) EXCEPT !.size = @ + 1]

Reserved(v, n) == IF n > Capacity(v) THEN Reallocated(v, n) ELSE v

\* shrink_to_fit: back inline, or into a smaller buffer.
Shrunk(v) ==
  CASE OnHeap(v) /\ v.size <= Inline ->
         [Freed(With(v, MovedFrom(v.heap, 0, v.size))) EXCEPT
            !.inner = Filled(@, 0, Elements(v))]
    [] v.size > Inline /\ v.size < Capacity(v) -> Reallocated(v, v.size)
    [] OTHER -> v

\* The constructors from a count or a list, in an object that holds nothing.
Built(v, s) ==
  LET r == IF Len(s) > Inline THEN [v EXCEPT !.heap = RawSlots(Len(s))] ELSE v IN
  [With(r, Filled(Buffer(r), 0, s)) EXCEPT !.size = Len(s)]

\* The destructor; a new object in the same place.
Renewed(v) ==
  LET r == Freed(Cleared(v)) IN [New EXCEPT !.left = r.left \cup Remains(r.inner)]

\* assign and copy assignment: into the buffer there is when it is large enough.
AssignedInPlace(v, s) == [With(v, Filled(Buffer(v), 0, s)) EXCEPT !.size = Len(s)]  \* mutant
Assigned(v, s) ==
  LET c == Cleared(v)
      r == IF Len(s) > Capacity(v) THEN [Freed(c) EXCEPT !.heap = RawSlots(Len(s))] ELSE c
  IN [With(r, Filled(Buffer(r), 0, s)) EXCEPT !.size = Len(s)]

\* move_from_other, move_assign_from: v, which is inline and empty, takes over what w has.
Stolen(v, w) ==
  IF OnHeap(w)
    THEN <<[v EXCEPT !.heap = w.heap, !.size = w.size], [w EXCEPT !.heap = <<>>, !.size = 0]>>
    ELSE <<[v EXCEPT !.inner = Filled(@, 0, Elements(w)), !.size = w.size],
           [w EXCEPT !.inner = Drained(@, w.size), !.size = 0]>>

\* The same between allocators that differ: the elements move one by one and w keeps its buffer.
MovedApart(v, w) ==
  LET drained == [With(w, Drained(Buffer(w), w.size)) EXCEPT !.size = 0] IN
  <<Assigned(v, Elements(w)), drained>>

\* resize.
Resized(v, n, x) ==
  IF n > v.size
    THEN LET r == Reserved(v, n) IN
         [With(r, Filled(Buffer(r), v.size, Copies(n - v.size, x))) EXCEPT !.size = n]
    ELSE [With(v, Destroyed(Buffer(v), n, v.size)) EXCEPT !.size = n]

Erased(v, first, last) ==
  [With(v, Closed(Buffer(v), first, last, v.size)) EXCEPT !.size = @ - (last - first)]

\* insert of one element.
Inserted(v, pos, x) ==
  LET r == IF v.size = Capacity(v) THEN Reserved(v, NextCapacity(v)) ELSE v IN
  [With(r, Constructed(Opened(Buffer(r), pos, 1, v.size), pos, x)) EXCEPT !.size = @ + 1]

\* std::erase, std::erase_if: the elements that stay are assigned down, then the rest is erased.
Weeded(v, x) ==
  LET kept == Without(Elements(v), x)
      b == [i \in DOMAIN Buffer(v) |-> IF i < Len(kept) THEN kept[i + 1]
                                       ELSE IF i < v.size THEN Husk ELSE Buffer(v)[i]]
  IN Erased(With(v, b), Len(kept), v.size)

\* swap of two inline objects: the common elements one by one, the others moved over.
SwappedInline(v, w) ==
  LET common == IF v.size < w.size THEN v.size ELSE w.size
      Exchange(b, c) == [i \in DOMAIN b |-> IF i < common THEN c[i] ELSE b[i]]
      Extra(u) == SubSeq(Elements(u), common + 1, u.size)
      One(u, t) == [u EXCEPT !.size = t.size,
                    !.inner = IF u.size > t.size
                                THEN Destroyed(MovedFrom(Exchange(@, t.inner), common, u.size), common, u.size)
                                ELSE Filled(Exchange(@, t.inner), common, Extra(t))]
  IN <<One(v, w), One(w, v)>>

\* swap: of the elements, of the buffers, or by three moves.
Swapped(v, w) ==
  CASE ~OnHeap(v) /\ ~OnHeap(w) -> SwappedInline(v, w)
    [] OnHeap(v) /\ OnHeap(w) ->
         <<[v EXCEPT !.heap = w.heap, !.size = w.size], [w EXCEPT !.heap = v.heap, !.size = v.size]>>
    [] OTHER ->
         LET first  == Stolen(New, v)
             second == Stolen(Freed(Cleared(first[2])), w)
             third  == Stolen(Freed(Cleared(second[2])), first[1])
         IN <<second[1], third[1]>>
-----------------------------------------------------------------------------
Init == vec = [o \in Obj |-> New] /\ status = "whole"

Fits(v) == v.size <= MaxTotal /\ Capacity(v) <= MaxCapacity
Become(f) ==
  /\ status = "whole" /\ vec' = f /\ UNCHANGED status
  /\ \A o \in Obj : Fits(f[o])
  /\ \A o, p \in Obj : o # p => f[o].size + f[p].size <= MaxTotal
Set(o, v)         == Become([vec EXCEPT ![o] = v])
SetBoth(o, p, vw) == o # p /\ Become([vec EXCEPT ![o] = vw[1], ![p] = vw[2]])

PushBack(o, x)   == Set(o, PushedBack(vec[o], x))
PopBack(o)       == vec[o].size > 0 /\ Set(o, Erased(vec[o], vec[o].size - 1, vec[o].size))
Clear(o)         == Set(o, [Cleared(vec[o]) EXCEPT !.size = 0])
Reserve(o, n)    == Set(o, Reserved(vec[o], n))
ShrinkToFit(o)   == Set(o, Shrunk(vec[o]))
Resize(o, n, x)  == Set(o, Resized(vec[o], n, x))
Assign(o, s)     == Set(o, Assigned(vec[o], s))
CopyAssign(o, p) == o # p /\ Set(o, Assigned(vec[o], Elements(vec[p])))
MoveAssign(o, p) == SetBoth(o, p, Stolen(Freed(Cleared(vec[o])), vec[p]))
MoveApart(o, p)  == SetBoth(o, p, MovedApart(vec[o], vec[p]))
Insert(o, i, x)  == i <= vec[o].size /\ Set(o, Inserted(vec[o], i, x))
Erase(o, i, j)   == i < j /\ j <= vec[o].size /\ Set(o, Erased(vec[o], i, j))
Weed(o, x)       == Set(o, Weeded(vec[o], x))
Swap(o, p)       == SetBoth(o, p, Swapped(vec[o], vec[p]))

\* The object is destroyed and another built in its place.
Construct(o, s)        == Set(o, Built(Renewed(vec[o]), s))
CopyConstruct(o, p)    == o # p /\ Set(o, Built(Renewed(vec[o]), Elements(vec[p])))
MoveConstruct(o, p)    == SetBoth(o, p, Stolen(Renewed(vec[o]), vec[p]))
MoveConstructApart(o, p) ==
  SetBoth(o, p, <<Built(Renewed(vec[o]), Elements(vec[p])),
                  [With(vec[p], Drained(Buffer(vec[p]), vec[p].size)) EXCEPT !.size = 0]>>)

\* assign and copy assignment destroy the elements and give the buffer back before an allocation that
\* may fail; the size is left as it was.
AssignFails(o, n) ==
  /\ status = "whole" /\ n > Capacity(vec[o]) /\ n <= MaxCapacity
  /\ vec' = [vec EXCEPT ![o] = Freed(Cleared(@))]
  /\ status' = "torn"

Next ==
  \E o \in Obj :
    \/ \E x \in Value : PushBack(o, x) \/ Weed(o, x)
    \/ PopBack(o) \/ Clear(o) \/ ShrinkToFit(o)
    \/ \E n \in 0 .. MaxCapacity : Reserve(o, n) \/ AssignFails(o, n)
    \/ \E n \in 0 .. MaxTotal, x \in Value : Resize(o, n, x) \/ Insert(o, n, x) \/ Assign(o, Copies(n, x))
    \/ \E s \in Given : Assign(o, s) \/ Construct(o, s)
    \/ \E i, j \in 0 .. MaxTotal : Erase(o, i, j)
    \/ \E p \in Obj : \/ CopyAssign(o, p) \/ MoveAssign(o, p) \/ MoveApart(o, p) \/ Swap(o, p)
                      \/ CopyConstruct(o, p) \/ MoveConstruct(o, p) \/ MoveConstructApart(o, p)

Spec == Init /\ [][Next]_smallVars
-----------------------------------------------------------------------------
\* The slots below the size hold elements, every other slot none, and an object whose elements are on
\* the heap has none inline (small_vectra.hpp:92-158, 362, 476, 953): nothing is leaked inside an
\* object, constructed over or destroyed twice.
SlotsHeld ==
  status = "whole" =>
    \A o \in Obj : /\ Holds(Buffer(vec[o]), vec[o].size)
                   /\ OnHeap(vec[o]) => Holds(vec[o].inner, 0) /\ Capacity(vec[o]) > Inline

\* "Source objects are left in moved-from state, caller must destroy them if needed"
\* (container_base.hpp:156): no buffer is given back with an element in it.
BuffersEmptied == \A o \in Obj : vec[o].left = {}

\* Each object is a vector.
Promise == INSTANCE Vector WITH
  content <- [o \in Obj |-> IF status = "whole" THEN Elements(vec[o]) ELSE <<>>],
  usable <- status = "whole", Turn <- [x \in Value |-> x]
ImplementsVector == Promise!VectorSpec
=============================================================================
