------------------------------ MODULE Devectra ------------------------------
(***************************************************************************)
(* devectra.hpp: a vector with spare room at both ends.  One buffer of     *)
(* capacity slots; the elements are the slots offset .. offset + size - 1. *)
(* Slots are constructed and destroyed one by one, as for an element type  *)
(* that is not trivially copyable, so that a slot is Dead or holds a value *)
(* and every relocation shows in the buffer.  T's constructors are taken   *)
(* not to throw; the allocator may.                                        *)
(*                                                                         *)
(* A write outside the buffer is undefined behaviour: the object ends, and *)
(* status names the call that did it.                                      *)
(***************************************************************************)
EXTENDS Integers, Sequences

CONSTANTS
  Value,            \* the element values
  Dead,             \* a slot with no constructed element
  DefaultCapacity,  \* kDefaultCapacity
  GrowthFactor,     \* kGrowthFactor
  ShiftThreshold,   \* kShiftThreshold
  Count,            \* the arguments of reserve, reserve_front, reserve_back
  MaxCapacity,      \* bound on the capacity of the explored buffers
  MaxSize           \* bound on the number of elements

ASSUME DeadNotValue == Dead \notin Value
ASSUME SizingConstants ==
  DefaultCapacity \in Nat /\ GrowthFactor \in Nat /\ ShiftThreshold \in Nat
ASSUME Bounds == MaxCapacity \in Nat /\ MaxSize \in Nat /\ Count \subseteq Nat

VARIABLES
  buffer,    \* [0 .. capacity - 1 -> Value or Dead]
  offset,    \* _offset
  size,      \* _size
  capacity,  \* _capacity
  status     \* "alive", or the call that ended the object

vars == <<buffer, offset, size, capacity, status>>

Larger(a, b)  == IF a >= b THEN a ELSE b
Smaller(a, b) == IF a <= b THEN a ELSE b

Contents == UNION {[1 .. n -> Value] : n \in 0 .. MaxSize}
Length   == 0 .. MaxSize

-----------------------------------------------------------------------------
(* Element-wise moves inside one buffer: construct at the target, then     *)
(* destroy the source, in the order the loops of the code do it.           *)

MoveSlot(b, dst, src) == [b EXCEPT ![dst] = b[src], ![src] = Dead]

\* Slots src .. src + n - 1 go to dst .., the first one first.
MoveForward(b, dst, src, n) ==
  LET moved[j \in 0 .. n] ==
        IF j = 0 THEN b ELSE MoveSlot(moved[j - 1], dst + j - 1, src + j - 1)
  IN moved[n]

\* Mutant: an overlapping move to the right in the wrong order.
MoveRightForward(b, dst, src, n) == MoveForward(b, dst, src, n)

\* The same, the last one first.
MoveBackward(b, dst, src, n) ==
  LET moved[j \in 0 .. n] ==
        IF j = 0 THEN b ELSE MoveSlot(moved[j - 1], dst + n - j, src + n - j)
  IN moved[n]

\* Slots first .. last - 1 hold s; every other slot keeps what b has.
Fill(b, first, s) ==
  [i \in DOMAIN b |-> IF i - first + 1 \in 1 .. Len(s) THEN s[i - first + 1] ELSE b[i]]
Destroy(b, first, last) ==
  [i \in DOMAIN b |-> IF first <= i /\ i < last THEN Dead ELSE b[i]]
Raw(cap) == [i \in 0 .. cap - 1 |-> Dead]

-----------------------------------------------------------------------------
(* Storage the elements can be relocated to: buffer, offset and capacity.  *)

Storage(b, off, cap) == [buffer |-> b, offset |-> off, capacity |-> cap]
Here == Storage(buffer, offset, capacity)

FrontSpare == offset
BackSpareNoOffset == capacity - size  \* mutant
BackSpare  == capacity - offset - size
TotalSpare == FrontSpare + BackSpare

\* A new allocation with the elements moved to offset off.
NewStorage(cap, off) ==
  Storage([i \in 0 .. cap - 1 |-> IF off <= i /\ i < off + size
                                    THEN buffer[offset + i - off] ELSE Dead],
          off, cap)

GrownCapacityDoubled(min) == Larger(capacity * GrowthFactor, DefaultCapacity)  \* mutant
GrownCapacity(min) == Larger(Larger(min, capacity * GrowthFactor), DefaultCapacity)

\* grow: centre the elements in a larger buffer.
Grow(min) == LET cap == GrownCapacity(min) IN NewStorage(cap, (cap - size) \div 2)

ShiftedRight(off) ==
  IF off > offset /\ size > 0
    THEN Storage(MoveBackward(buffer, off, offset, size), off, capacity)
    ELSE Here
ShiftedLeft(off) ==
  IF off < offset /\ size > 0
    THEN Storage(MoveForward(buffer, off, offset, size), off, capacity)
    ELSE Here

\* The other side has enough to give.
AnySpare(spare, count) == spare > 0  \* mutant
SpareEnough(spare, count) == TotalSpare >= count /\ spare >= count * ShiftThreshold

\* The room a shift leaves on the side that needs count slots.
ShiftTargetExact(count) == count  \* mutant
ShiftTarget(count) == Larger((TotalSpare + count) \div 2, count)

\* make_room_front: nothing, a shift to the right, or a larger buffer.
RoomFront(count) ==
  CASE FrontSpare >= count -> Here
    [] FrontSpare < count /\ SpareEnough(BackSpare, count) ->
         ShiftedRight(Smaller(ShiftTarget(count), capacity - size))
    [] OTHER ->
         LET cap == GrownCapacity(count + size + count) IN
         NewStorage(cap, Larger((cap - size) \div 2, count))

\* make_room_back: the mirror image.
RoomBack(count) ==
  CASE BackSpare >= count -> Here
    [] BackSpare < count /\ SpareEnough(FrontSpare, count) ->
         ShiftedLeft(Smaller(capacity - size - ShiftTarget(count), offset))
    [] OTHER ->
         LET cap == GrownCapacity(count + size + count) IN
         NewStorage(cap, Smaller((cap - size) \div 2, cap - size - count))

-----------------------------------------------------------------------------
(* Constructors: an empty object with no buffer, or n elements in a buffer *)
(* of exactly n slots.                                                     *)

Init ==
  \E s \in Contents :
    /\ buffer   = [i \in 0 .. Len(s) - 1 |-> s[i + 1]]
    /\ offset   = 0
    /\ size     = Len(s)
    /\ capacity = Len(s)
    /\ status   = "alive"

Alive == status = "alive"

\* The object now has storage r, and b in its buffer.
Keep(b, off, n, cap) ==
  /\ buffer' = b /\ offset' = off /\ size' = n /\ capacity' = cap
  /\ UNCHANGED status

Allowed(n, cap) == n <= MaxSize /\ cap <= MaxCapacity

\* The call writes outside the buffer.
Wild(call) ==
  /\ status' = call
  /\ UNCHANGED <<buffer, offset, size, capacity>>

-----------------------------------------------------------------------------
(* reserve, reserve_front, reserve_back, shrink_to_fit.  An allocation     *)
(* that fails leaves grow, make_room_* and shrink_to_fit before their      *)
(* first change of state, so the call changes nothing.                     *)

Reserve(min) ==
  /\ Alive /\ min > capacity
  /\ LET r == Grow(min) IN
       Allowed(size, r.capacity) /\ Keep(r.buffer, r.offset, size, r.capacity)

ReserveFront(count) ==
  /\ Alive /\ FrontSpare < count
  /\ LET r == RoomFront(count) IN
       Allowed(size, r.capacity) /\ Keep(r.buffer, r.offset, size, r.capacity)

ReserveBack(count) ==
  /\ Alive /\ BackSpare < count
  /\ LET r == RoomBack(count) IN
       Allowed(size, r.capacity) /\ Keep(r.buffer, r.offset, size, r.capacity)

ShrinkToFit ==
  /\ Alive
  /\ LET r == NewStorage(size, 0) IN Keep(r.buffer, 0, size, size)

-----------------------------------------------------------------------------
(* The two ends.                                                           *)

\* push_front, emplace_front: the slot before the first element.
PushFront(v) ==
  /\ Alive
  /\ LET r == RoomFront(1) IN
       /\ Allowed(size + 1, r.capacity)
       /\ IF r.offset > 0
            THEN Keep(Fill(r.buffer, r.offset - 1, <<v>>), r.offset - 1, size + 1, r.capacity)
            ELSE Wild("push_front")

\* push_back, emplace_back: the slot after the last element.
PushBack(v) ==
  /\ Alive
  /\ LET r == RoomBack(1) IN
       /\ Allowed(size + 1, r.capacity)
       /\ IF r.offset + size < r.capacity
            THEN Keep(Fill(r.buffer, r.offset + size, <<v>>), r.offset, size + 1, r.capacity)
            ELSE Wild("push_back")

PopFront ==
  /\ Alive /\ size > 0
  /\ Keep(Destroy(buffer, offset, offset + 1), offset + 1, size - 1, capacity)

\* Mutant: the last element is forgotten, not destroyed.
PopBackForgets == Alive /\ size > 0 /\ Keep(buffer, offset, size - 1, capacity)

PopBack ==
  /\ Alive /\ size > 0
  /\ Keep(Destroy(buffer, offset + size - 1, offset + size), offset, size - 1, capacity)

-----------------------------------------------------------------------------
(* Whole contents.                                                         *)

Clear ==
  /\ Alive
  /\ Keep(Destroy(buffer, offset, offset + size), capacity \div 2, 0, capacity)

\* The buffer an assignment of n elements constructs into: destroyed, and
\* replaced when it is too small.
Emptied(n) == IF n > capacity THEN Raw(n) ELSE Destroy(buffer, offset, offset + size)

\* assign: the new elements centred in the buffer.
Assign(s) ==
  /\ Alive
  /\ LET cap == Larger(Len(s), capacity)
         off == (cap - Len(s)) \div 2
     IN Allowed(Len(s), cap) /\ Keep(Fill(Emptied(Len(s)), off, s), off, Len(s), cap)

\* Copy assignment, and move assignment between unequal allocators: at the
\* start of the buffer.
CopyAssign(s) ==
  /\ Alive
  /\ LET cap == Larger(Len(s), capacity) IN
       Allowed(Len(s), cap) /\ Keep(Fill(Emptied(Len(s)), 0, s), 0, Len(s), cap)

\* The allocation inside an assignment fails after the old buffer is gone:
\* no buffer, and the size and offset of the elements that were destroyed.
AssignFails(n) ==
  /\ Alive /\ n > capacity
  /\ buffer' = <<>> /\ capacity' = 0 /\ status' = "assign"
  /\ UNCHANGED <<offset, size>>

\* The object is moved from: its buffer belongs to the other object, which
\* is then what this object was.
MovedFrom == Alive /\ Keep(<<>>, 0, 0, 0)

\* resize: value-initialised or given elements at the back, or destroyed there.
Resize(n, v) ==
  /\ Alive
  /\ \/ /\ n < size
        /\ Keep(Destroy(buffer, offset + n, offset + size), offset, n, capacity)
     \/ /\ n > size
        /\ LET r == IF n > capacity THEN Grow(n) ELSE RoomBack(n - size) IN
             /\ Allowed(n, r.capacity)
             /\ IF r.offset + n <= r.capacity
                  THEN Keep(Fill(r.buffer, r.offset + size, [j \in 1 .. n - size |-> v]),
                            r.offset, n, r.capacity)
                  ELSE Wild("resize")

Destruct ==
  /\ Alive
  /\ buffer' = <<>> /\ capacity' = 0 /\ status' = "destroyed"
  /\ UNCHANGED <<offset, size>>

-----------------------------------------------------------------------------
(* The middle.  Positions count from 0.                                    *)

\* erase: destroy [first, last), then move the tail down over the gap.
Erase(first, last) ==
  /\ Alive /\ first < last /\ last <= size
  /\ LET gone == Destroy(buffer, offset + first, offset + last) IN
       Keep(MoveForward(gone, offset + first, offset + last, size - last),
            offset, size - (last - first), capacity)

\* insert, nearer the front: [0, index) moves one slot to the left.
InsertFront(index, v) ==
  /\ Alive /\ index <= size \div 2
  /\ LET r == RoomFront(1) IN
       /\ Allowed(size + 1, r.capacity)
       /\ IF r.offset > 0
            THEN Keep(Fill(MoveForward(r.buffer, r.offset - 1, r.offset, index),
                           r.offset - 1 + index, <<v>>),
                      r.offset - 1, size + 1, r.capacity)
            ELSE Wild("insert")

\* insert, nearer the back: [index, size) moves one slot to the right.
InsertBack(index, v) ==
  /\ Alive /\ index > size \div 2 /\ index <= size
  /\ LET r == RoomBack(1) IN
       /\ Allowed(size + 1, r.capacity)
       /\ IF r.offset + size < r.capacity
            THEN Keep(Fill(MoveBackward(r.buffer, r.offset + index + 1, r.offset + index,
                                        size - index),
                           r.offset + index, <<v>>),
                      r.offset, size + 1, r.capacity)
            ELSE Wild("insert")

Insert(index, v) == InsertFront(index, v) \/ InsertBack(index, v)

Next ==
  \/ \E n \in Count : Reserve(n) \/ ReserveFront(n) \/ ReserveBack(n)
  \/ ShrinkToFit \/ PopFront \/ PopBack \/ Clear \/ MovedFrom \/ Destruct
  \/ \E v \in Value : PushFront(v) \/ PushBack(v)
  \/ \E s \in Contents : Assign(s) \/ CopyAssign(s)
  \/ \E n \in Length : AssignFails(n)
  \/ \E n \in Length, v \in Value : Resize(n, v) \/ Insert(n, v)
  \/ \E first, last \in Length : Erase(first, last)

Spec == Init /\ [][Next]_vars

-----------------------------------------------------------------------------
(* Properties *)

\* The fields have their types.
TypeOK ==
  /\ capacity \in Nat /\ offset \in Nat /\ size \in Nat
  /\ buffer \in [0 .. capacity - 1 -> Value \cup {Dead}]
  /\ status \in {"alive", "destroyed", "push_front", "push_back", "insert", "resize", "assign"}

\* The slots that hold an element are those of the window, and the window lies in
\* the buffer (devectra.hpp:62-66): shifts, growth, overlapping moves and
\* assignments leak no element and destroy none twice.
WindowLive ==
  Alive => {i \in DOMAIN buffer : buffer[i] # Dead} = offset .. offset + size - 1

\* make_room_front and make_room_back find room for a push or an insert, except
\* in an empty object: their shift branch moves nothing when there is nothing to
\* move, and returns (devectra.hpp:146, 213).
RoomUnlessEmpty == status \in {"push_front", "push_back", "insert"} => size = 0

\* "Optimized to avoid shifting on every alternating push_front/push_back"
\* (devectra.hpp:126, 195): a push that had to relocate the elements leaves a free
\* slot at both ends, so that the next push, at either end, relocates nothing.
SlackAtBothEnds == FrontSpare > 0 /\ BackSpare > 0
SlackAfterRelocation ==
  [][\A v \in Value : status' = "alive" =>
       /\ PushFront(v) /\ FrontSpare = 0 => SlackAtBothEnds'
       /\ PushBack(v) /\ BackSpare = 0   => SlackAtBothEnds']_vars

\* A resize that the capacity allows finds its room by shifting or by make_room_back
\* (devectra.hpp:665-668), unless the object is empty: only the resizes that grow
\* the buffer first can leave it.
ResizeWithinCapacity ==
  [][\A n \in Length, v \in Value :
       Resize(n, v) /\ n <= capacity /\ size > 0 => status' = "alive"]_vars

\* reserve_front(n) and reserve_back(n) leave room for n elements (tests:
\* devectra_test.cc:270, 276) unless the object is empty.
ReserveMakesRoom ==
  [][\A n \in Count :
       size > 0 => /\ ReserveFront(n) => FrontSpare' >= n
                   /\ ReserveBack(n)  => BackSpare' >= n]_vars

\* Each call does to the window what it promises to do to a sequence.
Abstract == INSTANCE Deque WITH
  content <- IF Alive THEN [j \in 1 .. size |-> buffer[offset + j - 1]] ELSE <<>>
ImplementsDeque == Abstract!DequeSpec

\* "Make room at front by shifting elements or growing" (devectra.hpp:125), and at back (devectra.hpp:194):
\* from no buffer does a push or an insert write outside it.
PushFits ==
  Alive => RoomFront(1).offset > 0 /\ RoomBack(1).offset + size < RoomBack(1).capacity

\* A resize to any length stays in the buffer (devectra_test.cc:312, "resize grow").
ResizeFits ==
  Alive => \A n \in Length : n > size =>
    LET r == IF n > capacity THEN Grow(n) ELSE RoomBack(n - size) IN r.offset + n <= r.capacity
=============================================================================
