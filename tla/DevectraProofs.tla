--------------------------- MODULE DevectraProofs ---------------------------
(***************************************************************************)
(* For every capacity, size and sizing constant: the window of a devectra  *)
(* stays in its buffer, make_room_front and make_room_back find the room   *)
(* they are asked for unless the object is empty, and so only an empty     *)
(* object can be pushed or inserted out of its buffer.  That argument is   *)
(* about the three numbers capacity, offset and size alone (IndInv).       *)
(*                                                                         *)
(* The second half is about the slots.  The loops that move the elements   *)
(* are recursive functions; AfterForward and AfterBackward say what they   *)
(* leave after j turns, and a least turn that leaves something else cannot *)
(* exist.  Lists(b, off, n, cap, s) then says that the live slots of b are *)
(* the n from off on and list the sequence s; each action takes a buffer   *)
(* that lists the contents to one that lists what the call promises        *)
(* (SlotsInv, DequeStep), so the slots outside the window are always dead  *)
(* and the devectra implements a deque.                                    *)
(***************************************************************************)
EXTENDS Devectra, TLAPS, WellFoundedInduction, SequenceTheorems

\* The numbers are natural numbers.
Numbers == capacity \in Nat /\ offset \in Nat /\ size \in Nat

\* The window [offset, offset + size) of a live object lies in its buffer.
WindowFits == Alive => offset + size <= capacity

\* What ends an object is known, and a push or an insert ends only an empty one.
IndInv == Numbers /\ WindowFits /\ RoomUnlessEmpty

-----------------------------------------------------------------------------
(* Arithmetic of the sizing rules. *)

LEMMA Half == \A n \in Int : n \div 2 \in Int /\ 2 * (n \div 2) <= n /\ n <= 2 * (n \div 2) + 1
  OBVIOUS

\* A grown buffer has at least the capacity that was asked for.
LEMMA GrownCapacityFits ==
  ASSUME Numbers, NEW min \in Nat
  PROVE  GrownCapacity(min) \in Nat /\ GrownCapacity(min) >= min
<1>1. capacity * GrowthFactor \in Nat
  BY SizingConstants DEF Numbers
<1> QED
  BY <1>1, SizingConstants DEF Numbers, GrownCapacity, Larger

\* r is storage the window fits in.
Fits(r) == r.offset \in Nat /\ r.capacity \in Nat /\ r.offset + size <= r.capacity

LEMMA GrowFits ==
  ASSUME Numbers, NEW min \in Nat, min >= size
  PROVE  Fits(Grow(min))
<1> DEFINE cap == GrownCapacity(min)
<1>1. cap \in Nat /\ cap >= size
  BY GrownCapacityFits DEF Numbers
<1>2. (cap - size) \div 2 \in Nat /\ (cap - size) \div 2 + size <= cap
  BY <1>1, Half DEF Numbers
<1> QED
  BY <1>1, <1>2 DEF Fits, Grow, NewStorage, Storage

\* Shifting by the rule of make_room_front or make_room_back.
LEMMA ShiftTargetFits ==
  ASSUME Numbers, WindowFits, Alive, NEW count \in Nat, count <= TotalSpare
  PROVE  /\ TotalSpare \in Nat /\ TotalSpare = capacity - size
         /\ ShiftTarget(count) \in Nat
         /\ count <= ShiftTarget(count) /\ ShiftTarget(count) <= TotalSpare
<1>1. TotalSpare \in Nat /\ TotalSpare = capacity - size
  BY DEF Numbers, WindowFits, TotalSpare, FrontSpare, BackSpare
<1>2. (TotalSpare + count) \div 2 \in Nat /\ (TotalSpare + count) \div 2 <= TotalSpare
  BY <1>1, Half
<1> QED
  BY <1>1, <1>2 DEF ShiftTarget, Larger

\* make_room_front(count) keeps the window in the buffer; unless the object is
\* empty it leaves count slots before the window.
LEMMA RoomFrontFits ==
  ASSUME Numbers, WindowFits, Alive, NEW count \in Nat
  PROVE  Fits(RoomFront(count)) /\ (size > 0 => RoomFront(count).offset >= count)
<1> DEFINE r == RoomFront(count)
<1>1. CASE FrontSpare >= count
  <2>1. r = Here
    BY <1>1 DEF RoomFront, FrontSpare, Numbers
  <2> QED
    BY <1>1, <2>1 DEF Numbers, WindowFits, Fits, FrontSpare, Here, Storage
<1>2. CASE ~(FrontSpare >= count) /\ SpareEnough(BackSpare, count)
  <2> DEFINE off == Smaller(ShiftTarget(count), capacity - size)
  <2>1. count <= TotalSpare
    BY <1>2 DEF SpareEnough, TotalSpare, FrontSpare, BackSpare, Numbers
  <2>2. off \in Nat /\ off + size <= capacity /\ off >= count /\ off > offset
    BY <1>2, <2>1, ShiftTargetFits DEF Smaller, FrontSpare, Numbers
  <2>3. r = ShiftedRight(off)
    BY <1>2 DEF RoomFront, FrontSpare, Numbers
  <2>4. CASE size > 0
    <3>1. r.offset = off /\ r.capacity = capacity
      BY <2>2, <2>3, <2>4 DEF ShiftedRight, Storage
    <3> QED
      BY <2>2, <3>1 DEF Fits, Numbers
  <2>5. CASE ~(size > 0)
    <3>1. r = Here
      BY <2>3, <2>5 DEF ShiftedRight
    <3> QED
      BY <2>5, <3>1 DEF Fits, Here, Storage, Numbers, WindowFits
  <2> QED
    BY <2>4, <2>5
<1>3. CASE ~(FrontSpare >= count) /\ ~SpareEnough(BackSpare, count)
  <2> DEFINE cap == GrownCapacity(count + size + count)
             off == Larger((cap - size) \div 2, count)
  <2>1. cap \in Nat /\ cap >= count + size + count
    BY GrownCapacityFits DEF Numbers
  <2>2. off \in Nat /\ off + size <= cap /\ off >= count
    BY <2>1, Half DEF Larger, Numbers
  <2>3. r = NewStorage(cap, off)
    BY <1>3 DEF RoomFront
  <2> QED
    BY <2>1, <2>2, <2>3 DEF Fits, NewStorage, Storage, Numbers
<1> QED
  BY <1>1, <1>2, <1>3

\* The mirror image for make_room_back(count).
LEMMA RoomBackFits ==
  ASSUME Numbers, WindowFits, Alive, NEW count \in Nat
  PROVE  /\ Fits(RoomBack(count))
         /\ size > 0 => RoomBack(count).offset + size + count <= RoomBack(count).capacity
<1> DEFINE r == RoomBack(count)
<1>1. CASE BackSpare >= count
  <2>1. r = Here
    BY <1>1 DEF RoomBack, BackSpare, Numbers
  <2> QED
    BY <1>1, <2>1 DEF Numbers, WindowFits, Fits, BackSpare, Here, Storage
<1>2. CASE ~(BackSpare >= count) /\ SpareEnough(FrontSpare, count)
  <2> DEFINE off == Smaller(capacity - size - ShiftTarget(count), offset)
  <2>1. count <= TotalSpare
    BY <1>2 DEF SpareEnough, TotalSpare, FrontSpare, BackSpare, Numbers
  <2>2. off \in Nat /\ off + size + count <= capacity /\ off < offset
    BY <1>2, <2>1, ShiftTargetFits DEF Smaller, BackSpare, Numbers
  <2>3. r = ShiftedLeft(off)
    BY <1>2 DEF RoomBack, BackSpare, Numbers
  <2>4. CASE size > 0
    <3>1. r.offset = off /\ r.capacity = capacity
      BY <2>2, <2>3, <2>4 DEF ShiftedLeft, Storage
    <3> QED
      BY <2>2, <3>1 DEF Fits, Numbers
  <2>5. CASE ~(size > 0)
    <3>1. r = Here
      BY <2>3, <2>5 DEF ShiftedLeft
    <3> QED
      BY <2>5, <3>1 DEF Fits, Here, Storage, Numbers, WindowFits
  <2> QED
    BY <2>4, <2>5
<1>3. CASE ~(BackSpare >= count) /\ ~SpareEnough(FrontSpare, count)
  <2> DEFINE cap == GrownCapacity(count + size + count)
             off == Smaller((cap - size) \div 2, cap - size - count)
  <2>1. cap \in Nat /\ cap >= count + size + count
    BY GrownCapacityFits DEF Numbers
  <2>2. off \in Nat /\ off + size + count <= cap
    BY <2>1, Half DEF Smaller, Numbers
  <2>3. r = NewStorage(cap, off)
    BY <1>3 DEF RoomBack
  <2> QED
    BY <2>1, <2>2, <2>3 DEF Fits, NewStorage, Storage, Numbers
<1> QED
  BY <1>1, <1>2, <1>3

-----------------------------------------------------------------------------
(* Every action preserves IndInv. *)

LEMMA InitInv == Init => IndInv
<1> SUFFICES ASSUME Init PROVE IndInv
  OBVIOUS
<1>1. PICK s \in Contents : capacity = Len(s) /\ size = Len(s) /\ offset = 0 /\ status = "alive"
  BY DEF Init
<1>2. PICK n \in 0 .. MaxSize : s \in [1 .. n -> Value]
  BY <1>1 DEF Contents
<1>3. Len(s) \in Nat
  <2>1. n \in Nat
    BY <1>2, Bounds
  <2>2. s \in Seq(Value)
    BY <1>2, <2>1
  <2> QED
    BY <2>2
<1> QED
  BY <1>1, <1>3 DEF IndInv, Numbers, WindowFits, RoomUnlessEmpty, Alive

\* A call that leaves a window of n elements at off, inside cap slots.
LEMMA KeepFits ==
  ASSUME IndInv, Alive, NEW b, NEW off \in Nat, NEW n \in Nat, NEW cap \in Nat,
         off + n <= cap, Keep(b, off, n, cap)
  PROVE  IndInv'
BY DEF IndInv, Keep, Numbers, WindowFits, RoomUnlessEmpty, Alive

\* The length of an element list that is assigned.
LEMMA ContentsLength == \A s \in Contents : Len(s) \in Nat
<1> SUFFICES ASSUME NEW s \in Contents PROVE Len(s) \in Nat
  OBVIOUS
<1>1. PICK n \in 0 .. MaxSize : s \in [1 .. n -> Value]
  BY DEF Contents
<1>2. n \in Nat
  BY Bounds
<1>3. s \in Seq(Value)
  BY <1>1, <1>2
<1> QED
  BY <1>3

LEMMA ReserveInv ==
  ASSUME IndInv, NEW n \in Count, Reserve(n) \/ ReserveFront(n) \/ ReserveBack(n)
  PROVE  IndInv'
<1> n \in Nat
  BY Bounds
<1>1. CASE Reserve(n)
  <2>1. n >= size
    BY <1>1 DEF Reserve, IndInv, Numbers, WindowFits
  <2> QED
    BY <1>1, <2>1, GrowFits, KeepFits DEF Reserve, Fits, IndInv, Numbers
<1>2. CASE ReserveFront(n)
  BY <1>2, RoomFrontFits, KeepFits DEF ReserveFront, Fits, IndInv, Numbers
<1>3. CASE ReserveBack(n)
  BY <1>3, RoomBackFits, KeepFits DEF ReserveBack, Fits, IndInv, Numbers
<1> QED
  BY <1>1, <1>2, <1>3

LEMMA PushInv ==
  ASSUME IndInv, NEW v \in Value, PushFront(v) \/ PushBack(v)
  PROVE  IndInv'
<1>1. CASE PushFront(v)
  <2> DEFINE r == RoomFront(1)
  <2>1. Fits(r) /\ (size > 0 => r.offset >= 1) /\ Alive
    BY <1>1, RoomFrontFits DEF PushFront, IndInv
  <2>2. CASE r.offset > 0
    <3>1. Keep(Fill(r.buffer, r.offset - 1, <<v>>), r.offset - 1, size + 1, r.capacity)
      BY <1>1, <2>2 DEF PushFront
    <3>2. r.offset - 1 \in Nat /\ size + 1 \in Nat /\ r.capacity \in Nat
          /\ (r.offset - 1) + (size + 1) <= r.capacity
      BY <2>1, <2>2 DEF Fits, IndInv, Numbers
    <3> QED
      BY <2>1, <3>1, <3>2, KeepFits
  <2>3. CASE ~(r.offset > 0)
    <3>1. Wild("push_front") /\ size = 0
      BY <1>1, <2>1, <2>3 DEF PushFront, Fits, IndInv, Numbers
    <3> QED
      BY <3>1 DEF IndInv, Wild, Numbers, WindowFits, RoomUnlessEmpty, Alive
  <2> QED
    BY <2>2, <2>3
<1>2. CASE PushBack(v)
  <2> DEFINE r == RoomBack(1)
  <2>1. Fits(r) /\ (size > 0 => r.offset + size + 1 <= r.capacity) /\ Alive
    BY <1>2, RoomBackFits DEF PushBack, IndInv
  <2>2. CASE r.offset + size < r.capacity
    <3>1. Keep(Fill(r.buffer, r.offset + size, <<v>>), r.offset, size + 1, r.capacity)
      BY <1>2, <2>2 DEF PushBack
    <3>2. r.offset \in Nat /\ size + 1 \in Nat /\ r.capacity \in Nat
          /\ r.offset + (size + 1) <= r.capacity
      BY <2>1, <2>2 DEF Fits, IndInv, Numbers
    <3> QED
      BY <2>1, <3>1, <3>2, KeepFits
  <2>3. CASE ~(r.offset + size < r.capacity)
    <3>1. Wild("push_back") /\ size = 0
      BY <1>2, <2>1, <2>3 DEF PushBack, Fits, IndInv, Numbers
    <3> QED
      BY <3>1 DEF IndInv, Wild, Numbers, WindowFits, RoomUnlessEmpty, Alive
  <2> QED
    BY <2>2, <2>3
<1> QED
  BY <1>1, <1>2

LEMMA PopInv == ASSUME IndInv, PopFront \/ PopBack PROVE IndInv'
BY DEF PopFront, PopBack, Keep, IndInv, Numbers, WindowFits, RoomUnlessEmpty, Alive

LEMMA WholeInv ==
  ASSUME IndInv, ShrinkToFit \/ Clear \/ MovedFrom PROVE IndInv'
<1>1. CASE ShrinkToFit
  BY <1>1 DEF ShrinkToFit, Keep, IndInv, Numbers, WindowFits, RoomUnlessEmpty, Alive
<1>2. CASE Clear
  <2>1. capacity \div 2 \in Nat /\ capacity \div 2 <= capacity
    BY Half DEF IndInv, Numbers
  <2> QED
    BY <1>2, <2>1 DEF Clear, Keep, IndInv, Numbers, WindowFits, RoomUnlessEmpty, Alive
<1>3. CASE MovedFrom
  BY <1>3 DEF MovedFrom, Keep, IndInv, Numbers, WindowFits, RoomUnlessEmpty, Alive
<1> QED
  BY <1>1, <1>2, <1>3

LEMMA AssignInv ==
  ASSUME IndInv, NEW s \in Contents, Assign(s) \/ CopyAssign(s) PROVE IndInv'
<1> DEFINE cap == Larger(Len(s), capacity)
           off == (cap - Len(s)) \div 2
<1>1. Len(s) \in Nat /\ cap \in Nat /\ Len(s) <= cap
  BY ContentsLength DEF Larger, IndInv, Numbers
<1>2. off \in Nat /\ off + Len(s) <= cap
  BY <1>1, Half
<1>3. CASE Assign(s)
  <2>1. Alive /\ Keep(Fill(Emptied(Len(s)), off, s), off, Len(s), cap)
    BY <1>3 DEF Assign
  <2> QED
    BY <1>1, <1>2, <2>1, KeepFits
<1>4. CASE CopyAssign(s)
  <2>1. Alive /\ Keep(Fill(Emptied(Len(s)), 0, s), 0, Len(s), cap)
    BY <1>4 DEF CopyAssign
  <2> QED
    BY <1>1, <2>1, KeepFits
<1> QED
  BY <1>3, <1>4

\* The calls that end the object for a reason other than a push or an insert.
LEMMA EndInv ==
  ASSUME IndInv, Destruct \/ \E n \in Length : AssignFails(n) PROVE IndInv'
BY DEF Destruct, AssignFails, IndInv, Numbers, WindowFits, RoomUnlessEmpty, Alive

LEMMA ResizeInv ==
  ASSUME IndInv, NEW n \in Length, NEW v \in Value, Resize(n, v) PROVE IndInv'
<1> n \in Nat
  BY Bounds DEF Length
<1> Alive
  BY DEF Resize
<1>1. CASE n < size
  BY <1>1 DEF Resize, Keep, IndInv, Numbers, WindowFits, RoomUnlessEmpty, Alive
<1>2. CASE n > size
  <2> DEFINE r == IF n > capacity THEN Grow(n) ELSE RoomBack(n - size)
  <2>1. Fits(r)
    <3>1. CASE n > capacity
      BY <1>2, <3>1, GrowFits DEF IndInv, Numbers
    <3>2. CASE ~(n > capacity)
      <4>1. n - size \in Nat
        BY <1>2 DEF IndInv, Numbers
      <4> QED
        BY <3>2, <4>1, RoomBackFits DEF IndInv
    <3> QED
      BY <3>1, <3>2
  <2>2. CASE r.offset + n <= r.capacity
    <3>1. Keep(Fill(r.buffer, r.offset + size, [j \in 1 .. n - size |-> v]),
               r.offset, n, r.capacity)
      BY <1>2, <2>2 DEF Resize, IndInv, Numbers
    <3> QED
      BY <2>1, <2>2, <3>1, KeepFits DEF Fits
  <2>3. CASE ~(r.offset + n <= r.capacity)
    <3>1. Wild("resize")
      BY <1>2, <2>3 DEF Resize, IndInv, Numbers
    <3> QED
      BY <3>1 DEF IndInv, Wild, Numbers, WindowFits, RoomUnlessEmpty, Alive
  <2> QED
    BY <2>2, <2>3
<1> QED
  BY <1>1, <1>2 DEF Resize

LEMMA EraseInv ==
  ASSUME IndInv, NEW first \in Length, NEW last \in Length, Erase(first, last) PROVE IndInv'
<1> first \in Nat /\ last \in Nat
  BY Bounds DEF Length
<1> QED
  BY DEF Erase, Keep, IndInv, Numbers, WindowFits, RoomUnlessEmpty, Alive

LEMMA InsertInv ==
  ASSUME IndInv, NEW index \in Length, NEW v \in Value, Insert(index, v) PROVE IndInv'
<1> index \in Nat
  BY Bounds DEF Length
<1>1. CASE InsertFront(index, v)
  <2> DEFINE r == RoomFront(1)
  <2>1. Fits(r) /\ (size > 0 => r.offset >= 1) /\ Alive
    BY <1>1, RoomFrontFits DEF InsertFront, IndInv
  <2>2. CASE r.offset > 0
    <3>1. Keep(Fill(MoveForward(r.buffer, r.offset - 1, r.offset, index),
                    r.offset - 1 + index, <<v>>),
               r.offset - 1, size + 1, r.capacity)
      BY <1>1, <2>2 DEF InsertFront
    <3>2. r.offset - 1 \in Nat /\ size + 1 \in Nat /\ r.capacity \in Nat
          /\ (r.offset - 1) + (size + 1) <= r.capacity
      BY <2>1, <2>2 DEF Fits, IndInv, Numbers
    <3> QED
      BY <2>1, <3>1, <3>2, KeepFits
  <2>3. CASE ~(r.offset > 0)
    <3>1. Wild("insert") /\ size = 0
      BY <1>1, <2>1, <2>3 DEF InsertFront, Fits, IndInv, Numbers
    <3> QED
      BY <3>1 DEF IndInv, Wild, Numbers, WindowFits, RoomUnlessEmpty, Alive
  <2> QED
    BY <2>2, <2>3
<1>2. CASE InsertBack(index, v)
  <2> DEFINE r == RoomBack(1)
  <2>1. Fits(r) /\ (size > 0 => r.offset + size + 1 <= r.capacity) /\ Alive
    BY <1>2, RoomBackFits DEF InsertBack, IndInv
  <2>2. CASE r.offset + size < r.capacity
    <3>1. Keep(Fill(MoveBackward(r.buffer, r.offset + index + 1, r.offset + index, size - index),
                    r.offset + index, <<v>>),
               r.offset, size + 1, r.capacity)
      BY <1>2, <2>2 DEF InsertBack
    <3>2. r.offset \in Nat /\ size + 1 \in Nat /\ r.capacity \in Nat
          /\ r.offset + (size + 1) <= r.capacity
      BY <2>1, <2>2 DEF Fits, IndInv, Numbers
    <3> QED
      BY <2>1, <3>1, <3>2, KeepFits
  <2>3. CASE ~(r.offset + size < r.capacity)
    <3>1. Wild("insert") /\ size = 0
      BY <1>2, <2>1, <2>3 DEF InsertBack, Fits, IndInv, Numbers
    <3> QED
      BY <3>1 DEF IndInv, Wild, Numbers, WindowFits, RoomUnlessEmpty, Alive
  <2> QED
    BY <2>2, <2>3
<1> QED
  BY <1>1, <1>2 DEF Insert

LEMMA NextInv == IndInv /\ [Next]_vars => IndInv'
<1> SUFFICES ASSUME IndInv, [Next]_vars PROVE IndInv'
  OBVIOUS
<1>1. CASE Next
  BY <1>1, ReserveInv, PushInv, PopInv, WholeInv, AssignInv, EndInv, ResizeInv, EraseInv,
     InsertInv DEF Next
<1>2. CASE UNCHANGED vars
  BY <1>2 DEF vars, IndInv, Numbers, WindowFits, RoomUnlessEmpty, Alive
<1> QED
  BY <1>1, <1>2

-----------------------------------------------------------------------------
(* Theorems *)

THEOREM Invariance == Spec => []IndInv
<1> QED
  BY InitInv, NextInv, PTL DEF Spec

\* Whatever calls shifted, grew, shrank or refilled the buffer, a live devectra's elements
\* lie inside it.
THEOREM WindowStaysInBuffer == Spec => []WindowFits
<1>1. IndInv => WindowFits
  BY DEF IndInv
<1> QED
  BY <1>1, Invariance, PTL

\* A push or an insert leaves the buffer only when the object is empty: for every
\* capacity and threshold, make_room finds room for a non-empty one.
THEOREM OnlyEmptyLacksRoom == Spec => []RoomUnlessEmpty
<1>1. IndInv => RoomUnlessEmpty
  BY DEF IndInv
<1> QED
  BY <1>1, Invariance, PTL

\* reserve_front(n) and reserve_back(n) of a non-empty object leave room for n elements.
THEOREM ReservesHold == Spec => ReserveMakesRoom
<1> DEFINE Room == \A n \in Count :
                     size > 0 => /\ ReserveFront(n) => FrontSpare' >= n
                                 /\ ReserveBack(n)  => BackSpare' >= n
<1>1. ASSUME IndInv PROVE Room
  <2> SUFFICES ASSUME NEW n \in Count, size > 0
               PROVE  /\ ReserveFront(n) => FrontSpare' >= n
                      /\ ReserveBack(n)  => BackSpare' >= n
    OBVIOUS
  <2> n \in Nat
    BY Bounds
  <2>1. ASSUME ReserveFront(n) PROVE FrontSpare' >= n
    BY <1>1, <2>1, RoomFrontFits DEF ReserveFront, Keep, FrontSpare, IndInv
  <2>2. ASSUME ReserveBack(n) PROVE BackSpare' >= n
    BY <1>1, <2>2, RoomBackFits DEF ReserveBack, Keep, BackSpare, Fits, IndInv, Numbers
  <2> QED
    BY <2>1, <2>2
<1>2. IndInv /\ [Next]_vars => [Room]_vars
  BY <1>1
<1> QED
  BY <1>2, Invariance, PTL DEF Spec, ReserveMakesRoom

\* A resize of a non-empty object within its capacity stays in the buffer.
THEOREM ResizesWithinCapacity == Spec => ResizeWithinCapacity
<1> DEFINE Stays == \A n \in Length, v \in Value :
                      Resize(n, v) /\ n <= capacity /\ size > 0 => status' = "alive"
<1>1. ASSUME IndInv PROVE Stays
  <2> SUFFICES ASSUME NEW n \in Length, NEW v \in Value,
                      Resize(n, v), n <= capacity, size > 0
               PROVE  status' = "alive"
    OBVIOUS
  <2> n \in Nat
    BY Bounds DEF Length
  <2>1. CASE n < size
    BY <2>1, <1>1 DEF Resize, Keep, Alive, IndInv, Numbers
  <2>2. CASE n > size
    <3> DEFINE r == RoomBack(n - size)
    <3>1. n - size \in Nat /\ Alive
      BY <1>1, <2>2 DEF IndInv, Numbers, Resize
    <3>2. Fits(r) /\ r.offset + size + (n - size) <= r.capacity
      BY <1>1, <3>1, RoomBackFits DEF IndInv
    <3>3. r.offset + n <= r.capacity
      BY <1>1, <3>2 DEF Fits, IndInv, Numbers
    <3> QED
      BY <1>1, <2>2, <3>1, <3>3 DEF Resize, Keep, Alive, IndInv, Numbers
  <2> QED
    BY <2>1, <2>2 DEF Resize
<1>2. IndInv /\ [Next]_vars => [Stays]_vars
  BY <1>1
<1> QED
  BY <1>2, Invariance, PTL DEF Spec, ResizeWithinCapacity

\* With the constants of the code, or larger ones, a push that relocates leaves a free slot
\* at both ends: pushes that alternate between the ends do not relocate every time.
THEOREM SlackLeft ==
  DefaultCapacity >= 8 /\ GrowthFactor >= 2 /\ ShiftThreshold >= 3
    => (Spec => SlackAfterRelocation)
<1> SUFFICES ASSUME DefaultCapacity >= 8, GrowthFactor >= 2, ShiftThreshold >= 3
             PROVE  Spec => SlackAfterRelocation
  OBVIOUS
<1> DEFINE Slack == \A v \in Value : status' = "alive" =>
                      /\ PushFront(v) /\ FrontSpare = 0 => SlackAtBothEnds'
                      /\ PushBack(v) /\ BackSpare = 0   => SlackAtBothEnds'
<1>1. ASSUME IndInv, Alive PROVE GrownCapacity(1 + size + 1) \in Nat
                                 /\ GrownCapacity(1 + size + 1) - size >= 4
  <2>1. capacity * GrowthFactor \in Nat /\ capacity * GrowthFactor >= 2 * capacity
    BY <1>1, SizingConstants DEF IndInv, Numbers
  <2>2. capacity >= size
    BY <1>1 DEF IndInv, Numbers, WindowFits
  <2> QED
    BY <1>1, <2>1, <2>2, SizingConstants DEF GrownCapacity, Larger, IndInv, Numbers
<1>2. ASSUME IndInv, NEW v \in Value, status' = "alive", PushFront(v), FrontSpare = 0
      PROVE  SlackAtBothEnds'
  <2> DEFINE r == RoomFront(1)
  <2>1. Alive /\ offset = 0 /\ Fits(r)
    BY <1>2, RoomFrontFits DEF PushFront, FrontSpare, IndInv
  <2>2. offset' = r.offset - 1 /\ size' = size + 1 /\ capacity' = r.capacity /\ r.offset > 0
    BY <1>2 DEF PushFront, Keep, Wild
  <2>3. r.offset >= 2 /\ r.capacity - size - r.offset >= 1
    <3>1. CASE SpareEnough(BackSpare, 1)
      <4> DEFINE off == Smaller(ShiftTarget(1), capacity - size)
      <4>1. BackSpare >= 3 /\ BackSpare = capacity - size /\ TotalSpare = capacity - size
        BY <3>1, <2>1, <1>2, SizingConstants
        DEF SpareEnough, BackSpare, TotalSpare, FrontSpare, IndInv, Numbers
      <4>2. off >= 2 /\ off <= capacity - size - 1 /\ off \in Nat
        BY <4>1, <1>2, Half DEF Smaller, ShiftTarget, Larger, IndInv, Numbers
      <4>3. r = ShiftedRight(off)
        BY <3>1, <2>1, <1>2 DEF RoomFront, FrontSpare
      <4>4. r = Storage(MoveBackward(buffer, off, offset, size), off, capacity)
        BY <2>1, <2>2, <4>3 DEF ShiftedRight, Here, Storage
      <4> QED
        BY <4>2, <4>4, <1>2 DEF Storage, IndInv, Numbers
    <3>2. CASE ~SpareEnough(BackSpare, 1)
      <4> DEFINE cap == GrownCapacity(1 + size + 1)
                 off == Larger((cap - size) \div 2, 1)
      <4>1. r = NewStorage(cap, off)
        BY <3>2, <2>1, <1>2 DEF RoomFront, FrontSpare
      <4>2. cap \in Nat /\ cap - size >= 4
        BY <1>1, <1>2, <2>1
      <4>3. off \in Nat /\ off >= 2 /\ off <= cap - size - 1
        BY <4>2, <1>2, Half DEF Larger, IndInv, Numbers
      <4>4. r.offset = off /\ r.capacity = cap
        BY <4>1 DEF NewStorage, Storage
      <4> HIDE DEF cap, off, r
      <4> QED
        BY <4>2, <4>3, <4>4, <1>2 DEF IndInv, Numbers
    <3> QED
      BY <3>1, <3>2
  <2> QED
    BY <2>1, <2>2, <2>3, <1>2
    DEF SlackAtBothEnds, FrontSpare, BackSpare, Fits, IndInv, Numbers
<1>3. ASSUME IndInv, NEW v \in Value, status' = "alive", PushBack(v), BackSpare = 0
      PROVE  SlackAtBothEnds'
  <2> DEFINE r == RoomBack(1)
  <2>1. Alive /\ offset + size = capacity /\ Fits(r)
    BY <1>3, RoomBackFits DEF PushBack, BackSpare, IndInv, Numbers
  <2>2. offset' = r.offset /\ size' = size + 1 /\ capacity' = r.capacity
        /\ r.offset + size < r.capacity
    BY <1>3 DEF PushBack, Keep, Wild
  <2>3. r.offset >= 1 /\ r.capacity - size - r.offset >= 2
    <3>1. CASE SpareEnough(FrontSpare, 1)
      <4> DEFINE off == Smaller(capacity - size - ShiftTarget(1), offset)
      <4>1. offset >= 3 /\ offset = capacity - size /\ TotalSpare = capacity - size
        BY <3>1, <2>1, <1>3, SizingConstants
        DEF SpareEnough, BackSpare, TotalSpare, FrontSpare, IndInv, Numbers
      <4>2. off >= 1 /\ off <= capacity - size - 2 /\ off \in Nat
        BY <4>1, <1>3, Half DEF Smaller, ShiftTarget, Larger, IndInv, Numbers
      <4>3. r = ShiftedLeft(off)
        BY <3>1, <2>1, <1>3 DEF RoomBack
      <4>4. r = Storage(MoveForward(buffer, off, offset, size), off, capacity)
        <5>1. r # Here
          BY <2>1, <2>2, <1>3 DEF Here, Storage, IndInv, Numbers
        <5> QED
          BY <4>3, <5>1 DEF ShiftedLeft
      <4> QED
        BY <4>2, <4>4, <1>3 DEF Storage, IndInv, Numbers
    <3>2. CASE ~SpareEnough(FrontSpare, 1)
      <4> DEFINE cap == GrownCapacity(1 + size + 1)
                 off == Smaller((cap - size) \div 2, cap - size - 1)
      <4>1. r = NewStorage(cap, off)
        BY <3>2, <2>1, <1>3 DEF RoomBack
      <4>2. cap \in Nat /\ cap - size >= 4
        BY <1>1, <1>3, <2>1
      <4>3. off \in Nat /\ off >= 1 /\ off <= cap - size - 2
        BY <4>2, <1>3, Half DEF Smaller, IndInv, Numbers
      <4>4. r.offset = off /\ r.capacity = cap
        BY <4>1 DEF NewStorage, Storage
      <4> HIDE DEF cap, off, r
      <4> QED
        BY <4>2, <4>3, <4>4, <1>3 DEF IndInv, Numbers
    <3> QED
      BY <3>1, <3>2
  <2> QED
    BY <2>1, <2>2, <2>3, <1>3
    DEF SlackAtBothEnds, FrontSpare, BackSpare, Fits, IndInv, Numbers
<1>4. ASSUME IndInv PROVE Slack
  BY <1>2, <1>3, <1>4
<1>5. IndInv /\ [Next]_vars => [Slack]_vars
  BY <1>4
<1> QED
  BY <1>5, Invariance, PTL DEF Spec, SlackAfterRelocation

-----------------------------------------------------------------------------
(* What the loops that move the elements leave in the slots. *)

LEMMA LeastNumber == ASSUME NEW S \in SUBSET Nat, S # {} PROVE \E x \in S : \A y \in S : x <= y
<1> DEFINE R == OpToRel(<, Nat)
<1>1. PICK x \in S : \A y \in S : ~(<<y, x>> \in R)
  BY NatLessThanWellFounded, WFMin
<1>2. \A y \in S : ~(y < x)
  BY <1>1 DEF OpToRel
<1> QED
  BY <1>2

\* Two functions on 0 .. n with the same first value and the same rule for the next are equal at n.
LEMMA SameRule ==
  ASSUME NEW n \in Nat, NEW f, NEW g, f[0] = g[0],
         \A j \in 1 .. n : f[j - 1] = g[j - 1] => f[j] = g[j]
  PROVE  f[n] = g[n]
<1> DEFINE S == {j \in 0 .. n : f[j] # g[j]}
<1> SUFFICES ASSUME S # {} PROVE FALSE
  OBVIOUS
<1>1. PICK x \in S : \A y \in S : x <= y
  <2>1. S \in SUBSET Nat
    OBVIOUS
  <2> HIDE DEF S
  <2> QED
    BY <2>1, LeastNumber
<1>2. x \in 0 .. n /\ f[x] # g[x]
  BY <1>1
<1>3. x \in 1 .. n /\ x - 1 \in 0 .. n
  BY <1>2
<1>4. x - 1 \notin S
  BY <1>1, <1>3
<1> QED
  BY <1>2, <1>3, <1>4

\* A slot is Dead or holds a value.
Slot        == Value \cup {Dead}
Slots(cap)  == [0 .. cap - 1 -> Slot]

LEMMA MoveSlotSlots ==
  ASSUME NEW cap \in Nat, NEW b \in Slots(cap), NEW d \in 0 .. cap - 1, NEW s \in 0 .. cap - 1, d # s
  PROVE  /\ MoveSlot(b, d, s) \in Slots(cap)
         /\ \A i \in 0 .. cap - 1 :
              MoveSlot(b, d, s)[i] = IF i = s THEN Dead ELSE IF i = d THEN b[s] ELSE b[i]
BY DEF MoveSlot, Slots, Slot

LEMMA SameSlots ==
  ASSUME NEW cap \in Nat, NEW b \in Slots(cap), NEW c \in Slots(cap), \A i \in 0 .. cap - 1 : b[i] = c[i]
  PROVE  b = c
BY DEF Slots

\* j slots were moved, the first one first; the last one first.
AfterForward(b, dst, src, j) ==
  [i \in DOMAIN b |-> IF dst <= i /\ i < dst + j THEN b[i + (src - dst)]
                      ELSE IF src <= i /\ i < src + j THEN Dead ELSE b[i]]
AfterBackward(b, dst, src, n, j) ==
  [i \in DOMAIN b |-> IF dst + n - j <= i /\ i < dst + n THEN b[i - (dst - src)]
                      ELSE IF src + n - j <= i /\ i < src + n THEN Dead ELSE b[i]]

\* A move to the left, first slot first, overwrites nothing that is still to be moved.
LEMMA MoveForwardSlots ==
  ASSUME NEW cap \in Nat, NEW b \in Slots(cap),
         NEW dst \in Nat, NEW src \in Nat, NEW n \in Nat, dst < src, src + n <= cap
  PROVE  /\ MoveForward(b, dst, src, n) = AfterForward(b, dst, src, n)
         /\ AfterForward(b, dst, src, n) \in Slots(cap)
<1> DEFINE A(j) == AfterForward(b, dst, src, j)
           C == [j \in 0 .. n |-> A(j)]
           Rule(g) == g = [j \in 0 .. n |-> IF j = 0 THEN b
                                            ELSE MoveSlot(g[j - 1], dst + j - 1, src + j - 1)]
           moved == CHOOSE g : Rule(g)
<1>1. ASSUME NEW j \in 0 .. n
      PROVE  /\ A(j) \in Slots(cap)
             /\ \A i \in 0 .. cap - 1 :
                  A(j)[i] = IF dst <= i /\ i < dst + j THEN b[i + (src - dst)]
                            ELSE IF src <= i /\ i < src + j THEN Dead ELSE b[i]
  BY DEF AfterForward, Slots, Slot
<1>2. A(0) = b
  <2> HIDE DEF A
  <2> QED
    BY <1>1, SameSlots
<1>3. ASSUME NEW j \in 1 .. n PROVE A(j) = MoveSlot(A(j - 1), dst + j - 1, src + j - 1)
  <2> DEFINE d == dst + j - 1  s == src + j - 1
  <2>1. d \in 0 .. cap - 1 /\ s \in 0 .. cap - 1 /\ d < s /\ j - 1 \in 0 .. n /\ j \in 0 .. n
    OBVIOUS
  <2> HIDE DEF A
  <2>2. A(j - 1) \in Slots(cap) /\ A(j) \in Slots(cap)
    BY <1>1, <2>1
  <2>3. A(j - 1)[s] = b[s]
    BY <1>1, <2>1
  <2>4. MoveSlot(A(j - 1), d, s) \in Slots(cap)
        /\ \A i \in 0 .. cap - 1 :
             MoveSlot(A(j - 1), d, s)[i] = IF i = s THEN Dead ELSE IF i = d THEN b[s] ELSE A(j - 1)[i]
    BY <2>1, <2>2, <2>3, MoveSlotSlots
  <2>5. ASSUME NEW i \in 0 .. cap - 1 PROVE A(j)[i] = MoveSlot(A(j - 1), d, s)[i]
    <3>1. A(j)[i] = IF dst <= i /\ i < dst + j THEN b[i + (src - dst)]
                    ELSE IF src <= i /\ i < src + j THEN Dead ELSE b[i]
      BY <1>1, <2>1
    <3>2. A(j - 1)[i] = IF dst <= i /\ i < dst + (j - 1) THEN b[i + (src - dst)]
                        ELSE IF src <= i /\ i < src + (j - 1) THEN Dead ELSE b[i]
      BY <1>1, <2>1
    <3>3. i = d => i + (src - dst) = s
      OBVIOUS
    <3> QED
      BY <2>4, <3>1, <3>2, <3>3
  <2> QED
    BY <2>2, <2>4, <2>5, SameSlots
<1> HIDE DEF A
<1>4. Rule(C)
  <2>1. \A j \in 1 .. n : j - 1 \in 0 .. n /\ C[j - 1] = A(j - 1)
    OBVIOUS
  <2>2. \A j \in 0 .. n : A(j) = IF j = 0 THEN b ELSE MoveSlot(C[j - 1], dst + j - 1, src + j - 1)
    <3> HIDE DEF C
    <3> QED
      BY <1>2, <1>3, <2>1
  <2> QED
    BY <2>2
<1> HIDE DEF C
<1>5. Rule(moved)
  <2> HIDE DEF Rule
  <2> QED
    BY <1>4
<1> HIDE DEF moved
<1>6. moved[n] = C[n]
  <2>1. moved[0] = C[0]
    BY <1>4, <1>5
  <2>2. \A j \in 1 .. n : moved[j - 1] = C[j - 1] => moved[j] = C[j]
    BY <1>4, <1>5
  <2> QED
    BY <2>1, <2>2, SameRule
<1>7. MoveForward(b, dst, src, n) = moved[n]
  BY DEF MoveForward, moved
<1> QED
  BY <1>1, <1>6, <1>7 DEF C, A
\* A move to the right, last slot first, overwrites nothing that is still to be moved.
LEMMA MoveBackwardSlots ==
  ASSUME NEW cap \in Nat, NEW b \in Slots(cap),
         NEW dst \in Nat, NEW src \in Nat, NEW n \in Nat, src < dst, dst + n <= cap
  PROVE  /\ MoveBackward(b, dst, src, n) = AfterBackward(b, dst, src, n, n)
         /\ AfterBackward(b, dst, src, n, n) \in Slots(cap)
<1> DEFINE A(j) == AfterBackward(b, dst, src, n, j)
           C == [j \in 0 .. n |-> A(j)]
           Rule(g) == g = [j \in 0 .. n |-> IF j = 0 THEN b
                                            ELSE MoveSlot(g[j - 1], dst + n - j, src + n - j)]
           moved == CHOOSE g : Rule(g)
<1>1. ASSUME NEW j \in 0 .. n
      PROVE  /\ A(j) \in Slots(cap)
             /\ \A i \in 0 .. cap - 1 :
                  A(j)[i] = IF dst + n - j <= i /\ i < dst + n THEN b[i - (dst - src)]
                            ELSE IF src + n - j <= i /\ i < src + n THEN Dead ELSE b[i]
  BY DEF AfterBackward, Slots, Slot
<1>2. A(0) = b
  <2> HIDE DEF A
  <2> QED
    BY <1>1, SameSlots
<1>3. ASSUME NEW j \in 1 .. n PROVE A(j) = MoveSlot(A(j - 1), dst + n - j, src + n - j)
  <2> DEFINE d == dst + n - j  s == src + n - j
  <2>1. d \in 0 .. cap - 1 /\ s \in 0 .. cap - 1 /\ s < d /\ j - 1 \in 0 .. n /\ j \in 0 .. n
    OBVIOUS
  <2> HIDE DEF A
  <2>2. A(j - 1) \in Slots(cap) /\ A(j) \in Slots(cap)
    BY <1>1, <2>1
  <2>3. A(j - 1)[s] = b[s]
    BY <1>1, <2>1
  <2>4. MoveSlot(A(j - 1), d, s) \in Slots(cap)
        /\ \A i \in 0 .. cap - 1 :
             MoveSlot(A(j - 1), d, s)[i] = IF i = s THEN Dead ELSE IF i = d THEN b[s] ELSE A(j - 1)[i]
    BY <2>1, <2>2, <2>3, MoveSlotSlots
  <2>5. ASSUME NEW i \in 0 .. cap - 1 PROVE A(j)[i] = MoveSlot(A(j - 1), d, s)[i]
    <3>1. A(j)[i] = IF dst + n - j <= i /\ i < dst + n THEN b[i - (dst - src)]
                    ELSE IF src + n - j <= i /\ i < src + n THEN Dead ELSE b[i]
      BY <1>1, <2>1
    <3>2. A(j - 1)[i] = IF dst + n - (j - 1) <= i /\ i < dst + n THEN b[i - (dst - src)]
                        ELSE IF src + n - (j - 1) <= i /\ i < src + n THEN Dead ELSE b[i]
      BY <1>1, <2>1
    <3>3. i = d => i - (dst - src) = s
      OBVIOUS
    <3> QED
      BY <2>4, <3>1, <3>2, <3>3
  <2> QED
    BY <2>2, <2>4, <2>5, SameSlots
<1> HIDE DEF A
<1>4. Rule(C)
  <2>1. \A j \in 1 .. n : j - 1 \in 0 .. n /\ C[j - 1] = A(j - 1)
    OBVIOUS
  <2>2. \A j \in 0 .. n : A(j) = IF j = 0 THEN b ELSE MoveSlot(C[j - 1], dst + n - j, src + n - j)
    <3> HIDE DEF C
    <3> QED
      BY <1>2, <1>3, <2>1
  <2> QED
    BY <2>2
<1> HIDE DEF C
<1>5. Rule(moved)
  <2> HIDE DEF Rule
  <2> QED
    BY <1>4
<1> HIDE DEF moved
<1>6. moved[n] = C[n]
  <2>1. moved[0] = C[0]
    BY <1>4, <1>5
  <2>2. \A j \in 1 .. n : moved[j - 1] = C[j - 1] => moved[j] = C[j]
    BY <1>4, <1>5
  <2> QED
    BY <2>1, <2>2, SameRule
<1>7. MoveBackward(b, dst, src, n) = moved[n]
  BY DEF MoveBackward, moved
<1> QED
  BY <1>1, <1>6, <1>7 DEF C, A
-----------------------------------------------------------------------------
(* Windows: n elements from slot off on, and no other, in cap slots. *)

Held(b, off, n, cap) ==
  /\ b \in Slots(cap) /\ off \in Nat /\ n \in Nat /\ cap \in Nat /\ off + n <= cap
  /\ \A i \in 0 .. cap - 1 : b[i] # Dead <=> off <= i /\ i < off + n
Listed(b, off, n) == [j \in 1 .. n |-> b[off + j - 1]]

HeldNow == Held(buffer, offset, size, capacity)
Content == IF Alive THEN Listed(buffer, offset, size) ELSE <<>>

\* What the window holds is a sequence of values.
LEMMA ListedSeq ==
  ASSUME NEW b, NEW off, NEW n, NEW cap, Held(b, off, n, cap)
  PROVE  /\ Listed(b, off, n) \in Seq(Value) /\ Len(Listed(b, off, n)) = n
         /\ \A j \in 1 .. n : Listed(b, off, n)[j] = b[off + j - 1]
<1>1. n \in Nat /\ \A j \in 1 .. n : off + j - 1 \in 0 .. cap - 1 /\ b[off + j - 1] \in Value
  BY DEF Held, Slots, Slot
<1>2. Listed(b, off, n) \in [1 .. n -> Value]
  BY <1>1 DEF Listed
<1> QED
  BY <1>1, <1>2 DEF Listed

\* Storage r holds the elements of the object.
Carries(r) == Held(r.buffer, r.offset, size, r.capacity) /\ Listed(r.buffer, r.offset, size) = Listed(buffer, offset, size)

LEMMA HereCarries == ASSUME HeldNow PROVE Carries(Here)
BY DEF HeldNow, Carries, Here, Storage

LEMMA NewStorageCarries ==
  ASSUME HeldNow, NEW cap \in Nat, NEW off \in Nat, off + size <= cap
  PROVE  Carries(NewStorage(cap, off)) /\ NewStorage(cap, off).offset = off /\ NewStorage(cap, off).capacity = cap
<1> DEFINE r == NewStorage(cap, off)
<1>1. r.offset = off /\ r.capacity = cap
      /\ r.buffer = [i \in 0 .. cap - 1 |-> IF off <= i /\ i < off + size
                                              THEN buffer[offset + i - off] ELSE Dead]
  BY DEF NewStorage, Storage
<1> HIDE DEF r
<1>2. \A i \in 0 .. cap - 1 :
        r.buffer[i] = IF off <= i /\ i < off + size THEN buffer[offset + i - off] ELSE Dead
  BY <1>1
<1>3. ASSUME NEW i \in 0 .. cap - 1, off <= i, i < off + size
      PROVE  buffer[offset + i - off] \in Value
  <2>1. offset + i - off \in 0 .. capacity - 1 /\ offset <= offset + i - off /\ offset + i - off < offset + size
    BY <1>3 DEF HeldNow, Held
  <2> QED
    BY <2>1 DEF HeldNow, Held, Slots, Slot
<1>4. r.buffer \in Slots(cap)
  BY <1>1, <1>3 DEF Slots, Slot
<1>5. Held(r.buffer, off, size, cap)
  BY <1>2, <1>3, <1>4, DeadNotValue DEF Held, HeldNow
<1>6. ASSUME NEW j \in 1 .. size PROVE r.buffer[off + j - 1] = buffer[offset + j - 1]
  <2>1. size \in Nat /\ offset \in Nat
    BY DEF HeldNow, Held
  <2>2. off + j - 1 \in 0 .. cap - 1 /\ off <= off + j - 1 /\ off + j - 1 < off + size
        /\ offset + (off + j - 1) - off = offset + j - 1
    BY <2>1
  <2> QED
    BY <1>2, <2>2
<1>7. Listed(r.buffer, off, size) = Listed(buffer, offset, size)
  BY <1>6 DEF Listed
<1> QED
  BY <1>1, <1>5, <1>7 DEF Carries, r

\* A shift moves the window and loses none of it, though it overlaps where it was.
LEMMA ShiftedCarries ==
  ASSUME HeldNow, NEW off \in Nat, off + size <= capacity
  PROVE  Carries(ShiftedRight(off)) /\ Carries(ShiftedLeft(off))
<1>1. buffer \in Slots(capacity) /\ offset \in Nat /\ size \in Nat /\ capacity \in Nat /\ offset + size <= capacity
      /\ \A i \in 0 .. capacity - 1 : buffer[i] # Dead <=> offset <= i /\ i < offset + size
  BY DEF HeldNow, Held
<1>2. ASSUME NEW b \in Slots(capacity),
             \A i \in 0 .. capacity - 1 : b[i] # Dead <=> off <= i /\ i < off + size,
             \A i \in off .. off + size - 1 : b[i] = buffer[i - off + offset]
      PROVE  Carries(Storage(b, off, capacity))
  <2>1. Held(b, off, size, capacity)
    BY <1>1, <1>2 DEF Held
  <2>2. Listed(b, off, size) = Listed(buffer, offset, size)
    <3>1. ASSUME NEW j \in 1 .. size PROVE b[off + j - 1] = buffer[offset + j - 1]
      <4>1. off + j - 1 \in off .. off + size - 1 /\ (off + j - 1) - off + offset = offset + j - 1
        BY <1>1
      <4> QED
        BY <1>2, <4>1
    <3> QED
      BY <3>1 DEF Listed
  <2> QED
    BY <2>1, <2>2 DEF Carries, Storage
<1>3. CASE off > offset /\ size > 0
  <2> DEFINE b == AfterBackward(buffer, off, offset, size, size)
  <2>1. MoveBackward(buffer, off, offset, size) = b /\ b \in Slots(capacity)
    BY <1>1, <1>3, MoveBackwardSlots
  <2>2. \A i \in 0 .. capacity - 1 :
          b[i] = IF off <= i /\ i < off + size THEN buffer[i - off + offset]
                 ELSE IF offset <= i /\ i < offset + size THEN Dead ELSE buffer[i]
    BY <1>1, <1>3 DEF AfterBackward, Slots
  <2> HIDE DEF b
  <2>3. \A i \in 0 .. capacity - 1 : b[i] # Dead <=> off <= i /\ i < off + size
    <3> TAKE i \in 0 .. capacity - 1
    <3>1. CASE off <= i /\ i < off + size
      <4>1. i - off + offset \in 0 .. capacity - 1 /\ offset <= i - off + offset /\ i - off + offset < offset + size
        BY <1>1, <3>1
      <4> QED
        BY <1>1, <2>2, <3>1, <4>1
    <3>2. CASE ~(off <= i /\ i < off + size)
      BY <1>1, <2>2, <3>2
    <3> QED
      BY <3>1, <3>2
  <2>4. \A i \in off .. off + size - 1 : b[i] = buffer[i - off + offset]
    BY <1>1, <2>2
  <2>5. Carries(Storage(b, off, capacity))
    BY <1>2, <2>1, <2>3, <2>4
  <2>6. ShiftedRight(off) = Storage(b, off, capacity) /\ ShiftedLeft(off) = Here
    BY <1>1, <1>3, <2>1 DEF ShiftedRight, ShiftedLeft
  <2> QED
    BY <2>5, <2>6, HereCarries
<1>4. CASE off < offset /\ size > 0
  <2> DEFINE b == AfterForward(buffer, off, offset, size)
  <2>1. MoveForward(buffer, off, offset, size) = b /\ b \in Slots(capacity)
    BY <1>1, <1>4, MoveForwardSlots
  <2>2. \A i \in 0 .. capacity - 1 :
          b[i] = IF off <= i /\ i < off + size THEN buffer[i - off + offset]
                 ELSE IF offset <= i /\ i < offset + size THEN Dead ELSE buffer[i]
    BY <1>1, <1>4 DEF AfterForward, Slots
  <2> HIDE DEF b
  <2>3. \A i \in 0 .. capacity - 1 : b[i] # Dead <=> off <= i /\ i < off + size
    <3> TAKE i \in 0 .. capacity - 1
    <3>1. CASE off <= i /\ i < off + size
      <4>1. i - off + offset \in 0 .. capacity - 1 /\ offset <= i - off + offset /\ i - off + offset < offset + size
        BY <1>1, <3>1
      <4> QED
        BY <1>1, <2>2, <3>1, <4>1
    <3>2. CASE ~(off <= i /\ i < off + size)
      BY <1>1, <2>2, <3>2
    <3> QED
      BY <3>1, <3>2
  <2>4. \A i \in off .. off + size - 1 : b[i] = buffer[i - off + offset]
    BY <1>1, <2>2
  <2>5. Carries(Storage(b, off, capacity))
    BY <1>2, <2>1, <2>3, <2>4
  <2>6. ShiftedLeft(off) = Storage(b, off, capacity) /\ ShiftedRight(off) = Here
    BY <1>1, <1>4, <2>1 DEF ShiftedRight, ShiftedLeft
  <2> QED
    BY <2>5, <2>6, HereCarries
<1>5. CASE off = offset \/ ~(size > 0)
  <2>1. ShiftedRight(off) = Here /\ ShiftedLeft(off) = Here
    BY <1>1, <1>5 DEF ShiftedRight, ShiftedLeft
  <2> QED
    BY <2>1, HereCarries
<1> QED
  BY <1>1, <1>3, <1>4, <1>5

LEMMA GrowCarries == ASSUME IndInv, HeldNow, NEW min \in Nat, min >= size PROVE Carries(Grow(min))
<1> DEFINE cap == GrownCapacity(min)
<1>1. cap \in Nat /\ cap >= size
  BY GrownCapacityFits DEF IndInv, Numbers
<1>2. (cap - size) \div 2 \in Nat /\ (cap - size) \div 2 + size <= cap
  BY <1>1, Half DEF IndInv, Numbers
<1> QED
  BY <1>1, <1>2, NewStorageCarries DEF Grow

\* make_room_front and make_room_back relocate the elements or leave them, and lose none.
LEMMA RoomCarries ==
  ASSUME IndInv, Alive, HeldNow, NEW count \in Nat
  PROVE  Carries(RoomFront(count)) /\ Carries(RoomBack(count))
<1>1. Numbers /\ WindowFits /\ offset + size <= capacity
  BY DEF IndInv, WindowFits
<1>2. TotalSpare = capacity - size /\ TotalSpare \in Nat
      /\ FrontSpare + BackSpare = TotalSpare /\ FrontSpare \in Nat /\ BackSpare \in Nat
  BY <1>1 DEF Numbers, TotalSpare, FrontSpare, BackSpare
<1>3. ASSUME count <= TotalSpare
      PROVE  ShiftTarget(count) \in Nat /\ ShiftTarget(count) <= capacity - size
  BY <1>1, <1>2, <1>3, ShiftTargetFits
<1> DEFINE cap == GrownCapacity(count + size + count)
<1>4. cap \in Nat /\ cap >= count + size + count
  BY <1>1, GrownCapacityFits DEF Numbers
<1> HIDE DEF cap
<1>5. Carries(RoomFront(count))
  <2>1. CASE FrontSpare >= count
    BY <1>2, <2>1, HereCarries DEF RoomFront
  <2>2. CASE ~(FrontSpare >= count) /\ SpareEnough(BackSpare, count)
    <3> DEFINE off == Smaller(ShiftTarget(count), capacity - size)
    <3>1. off \in Nat /\ off + size <= capacity
      BY <1>1, <1>2, <1>3, <2>2 DEF SpareEnough, Smaller, Numbers
    <3>2. RoomFront(count) = ShiftedRight(off)
      BY <1>2, <2>2 DEF RoomFront
    <3> QED
      BY <3>1, <3>2, ShiftedCarries
  <2>3. CASE ~(FrontSpare >= count) /\ ~SpareEnough(BackSpare, count)
    <3> DEFINE off == Larger((cap - size) \div 2, count)
    <3>1. off \in Nat /\ off + size <= cap
      BY <1>1, <1>4, Half DEF Larger, Numbers
    <3>2. RoomFront(count) = NewStorage(cap, off)
      BY <2>3 DEF RoomFront, cap
    <3> QED
      BY <1>4, <3>1, <3>2, NewStorageCarries
  <2> QED
    BY <2>1, <2>2, <2>3
<1>6. Carries(RoomBack(count))
  <2>1. CASE BackSpare >= count
    BY <1>2, <2>1, HereCarries DEF RoomBack
  <2>2. CASE ~(BackSpare >= count) /\ SpareEnough(FrontSpare, count)
    <3> DEFINE off == Smaller(capacity - size - ShiftTarget(count), offset)
    <3>1. off \in Nat /\ off + size <= capacity
      BY <1>1, <1>2, <1>3, <2>2 DEF SpareEnough, Smaller, Numbers
    <3>2. RoomBack(count) = ShiftedLeft(off)
      BY <1>2, <2>2 DEF RoomBack
    <3> QED
      BY <3>1, <3>2, ShiftedCarries
  <2>3. CASE ~(BackSpare >= count) /\ ~SpareEnough(FrontSpare, count)
    <3> DEFINE off == Smaller((cap - size) \div 2, cap - size - count)
    <3>1. off \in Nat /\ off + size <= cap
      BY <1>1, <1>4, Half DEF Smaller, Numbers
    <3>2. RoomBack(count) = NewStorage(cap, off)
      BY <2>3 DEF RoomBack, cap
    <3> QED
      BY <1>4, <3>1, <3>2, NewStorageCarries
  <2> QED
    BY <2>1, <2>2, <2>3
<1> QED
  BY <1>5, <1>6

-----------------------------------------------------------------------------
(* Elements constructed and destroyed. *)

LEMMA FillSlots ==
  ASSUME NEW cap \in Nat, NEW b \in Slots(cap), NEW first \in Nat, NEW s \in Seq(Value)
  PROVE  /\ Fill(b, first, s) \in Slots(cap)
         /\ \A i \in 0 .. cap - 1 :
              Fill(b, first, s)[i] = IF first <= i /\ i < first + Len(s) THEN s[i - first + 1] ELSE b[i]
<1>1. Len(s) \in Nat /\ \A j \in 1 .. Len(s) : s[j] \in Value
  OBVIOUS
<1>2. ASSUME NEW i \in 0 .. cap - 1 PROVE i - first + 1 \in 1 .. Len(s) <=> first <= i /\ i < first + Len(s)
  BY <1>1
<1>3. \A i \in 0 .. cap - 1 :
        Fill(b, first, s)[i] = IF first <= i /\ i < first + Len(s) THEN s[i - first + 1] ELSE b[i]
  BY <1>2 DEF Fill, Slots
<1>4. Fill(b, first, s) \in Slots(cap)
  BY <1>1 DEF Fill, Slots, Slot
<1> QED
  BY <1>3, <1>4

LEMMA DestroySlots ==
  ASSUME NEW cap \in Nat, NEW b \in Slots(cap), NEW first \in Int, NEW last \in Int
  PROVE  /\ Destroy(b, first, last) \in Slots(cap)
         /\ \A i \in 0 .. cap - 1 :
              Destroy(b, first, last)[i] = IF first <= i /\ i < last THEN Dead ELSE b[i]
BY DEF Destroy, Slots, Slot

\* The first elements of a sequence, and the others.
LEMMA FirstOnes ==
  ASSUME NEW s \in Seq(Value), NEW n \in 0 .. Len(s)
  PROVE  /\ SubSeq(s, 1, n) \in Seq(Value) /\ Len(SubSeq(s, 1, n)) = n
         /\ \A j \in 1 .. n : SubSeq(s, 1, n)[j] = s[j]
<1>1. \A i \in 1 .. n : s[i] \in Value
  BY ElementOfSeq
<1>2. SubSeq(s, 1, n) \in Seq(Value) /\ Len(SubSeq(s, 1, n)) = (IF 1 <= n THEN n - 1 + 1 ELSE 0)
      /\ \A i \in 1 .. n - 1 + 1 : SubSeq(s, 1, n)[i] = s[1 + i - 1]
  BY <1>1, SubSeqProperties
<1> QED
  BY <1>2

LEMMA LastOnes ==
  ASSUME NEW s \in Seq(Value), NEW n \in 0 .. Len(s)
  PROVE  /\ SubSeq(s, n + 1, Len(s)) \in Seq(Value) /\ Len(SubSeq(s, n + 1, Len(s))) = Len(s) - n
         /\ \A j \in 1 .. Len(s) - n : SubSeq(s, n + 1, Len(s))[j] = s[n + j]
<1> DEFINE m == Len(s)  f == n + 1  t == SubSeq(s, f, m)
<1>1. m \in Nat /\ f \in Int /\ f = n + 1 /\ n \in Int /\ \A i \in f .. m : s[i] \in Value
  BY ElementOfSeq
<1> HIDE DEF m, f
<1>2. t \in Seq(Value) /\ Len(t) = (IF f <= m THEN m - f + 1 ELSE 0) /\ \A i \in 1 .. m - f + 1 : t[i] = s[f + i - 1]
  BY <1>1, SubSeqProperties
<1> HIDE DEF t
<1>3. n <= m
  BY DEF m
<1>4. Len(t) = m - n
  BY <1>1, <1>2, <1>3
<1>5. ASSUME NEW j \in 1 .. m - n PROVE t[j] = s[n + j]
  <2>1. j \in 1 .. m - f + 1 /\ f + j - 1 = n + j
    BY <1>1
  <2> QED
    BY <1>2, <2>1
<1> QED
  BY <1>2, <1>4, <1>5 DEF m, f, t

\* What holds of a window, spelled out.
LEMMA HeldFacts ==
  ASSUME NEW b, NEW off, NEW n, NEW cap, Held(b, off, n, cap)
  PROVE  /\ b \in Slots(cap) /\ off \in Nat /\ n \in Nat /\ cap \in Nat /\ off + n <= cap
         /\ \A i \in 0 .. cap - 1 : b[i] # Dead <=> off <= i /\ i < off + n
         /\ \A i \in 0 .. cap - 1 : b[i] \in Value \cup {Dead}
BY DEF Held, Slots, Slot

\* The window holds the elements of s.
Lists(b, off, n, cap, s) ==
  Held(b, off, n, cap) /\ s \in Seq(Value) /\ Len(s) = n /\ \A j \in 1 .. n : b[off + j - 1] = s[j]

LEMMA ListsOwn ==
  ASSUME NEW b, NEW off, NEW n, NEW cap, Held(b, off, n, cap)
  PROVE  Lists(b, off, n, cap, Listed(b, off, n))
BY ListedSeq DEF Lists

LEMMA ListsUnique ==
  ASSUME NEW b, NEW off, NEW n, NEW cap, NEW s, Lists(b, off, n, cap, s)
  PROVE  Listed(b, off, n) = s
<1>1. Listed(b, off, n) \in Seq(Value) /\ Len(Listed(b, off, n)) = n
      /\ \A j \in 1 .. n : Listed(b, off, n)[j] = s[j]
  BY ListedSeq DEF Lists
<1> QED
  BY <1>1, SeqEqual DEF Lists

\* v constructed before the window extends it at the front.
LEMMA FillFront ==
  ASSUME NEW b, NEW off, NEW n, NEW cap, NEW s, Lists(b, off, n, cap, s), NEW v \in Value, off > 0
  PROVE  Lists(Fill(b, off - 1, <<v>>), off - 1, n + 1, cap, <<v>> \o s)
<1> DEFINE c == Fill(b, off - 1, <<v>>)  u == <<v>> \o s
<1>1. b \in Slots(cap) /\ off \in Nat /\ n \in Nat /\ cap \in Nat /\ off + n <= cap /\ off - 1 \in Nat
      /\ \A i \in 0 .. cap - 1 : b[i] # Dead <=> off <= i /\ i < off + n
  BY DEF Lists, Held
<1>2. <<v>> \in Seq(Value) /\ Len(<<v>>) = 1 /\ <<v>>[1] = v
  OBVIOUS
<1>3. c \in Slots(cap) /\ \A i \in 0 .. cap - 1 : c[i] = IF i = off - 1 THEN v ELSE b[i]
  <2>1. c \in Slots(cap) /\ \A i \in 0 .. cap - 1 :
          c[i] = IF off - 1 <= i /\ i < off - 1 + Len(<<v>>) THEN <<v>>[i - (off - 1) + 1] ELSE b[i]
    BY <1>1, <1>2, FillSlots
  <2> HIDE DEF c
  <2>2. \A i \in 0 .. cap - 1 : c[i] = IF i = off - 1 THEN v ELSE b[i]
    BY <1>1, <1>2, <2>1
  <2> QED
    BY <2>1, <2>2
<1> HIDE DEF c
<1>4. Held(c, off - 1, n + 1, cap)
  BY <1>1, <1>3, DeadNotValue DEF Held
<1>5. s \in Seq(Value) /\ Len(s) = n /\ \A j \in 1 .. n : b[off + j - 1] = s[j]
  BY DEF Lists
<1>6. u \in Seq(Value) /\ Len(u) = n + 1 /\ \A j \in 1 .. n + 1 : u[j] = IF j = 1 THEN v ELSE s[j - 1]
  BY <1>1, <1>2, <1>5, ConcatProperties
<1> HIDE DEF u
<1>7. ASSUME NEW j \in 1 .. n + 1 PROVE c[off - 1 + j - 1] = u[j]
  <2>1. off - 1 + j - 1 \in 0 .. cap - 1
    BY <1>1
  <2>2. CASE j = 1
    BY <1>1, <1>3, <1>6, <2>1, <2>2
  <2>3. CASE j # 1
    <3>1. j - 1 \in 1 .. n /\ off + (j - 1) - 1 = off - 1 + j - 1 /\ off - 1 + j - 1 # off - 1
      BY <1>1, <2>3
    <3> QED
      BY <1>3, <1>5, <1>6, <2>1, <2>3, <3>1
  <2> QED
    BY <2>2, <2>3
<1> QED
  BY <1>4, <1>6, <1>7 DEF Lists, c, u

\* Elements that are constructed behind the window extend it at the back.
LEMMA FillBack ==
  ASSUME NEW b, NEW off, NEW n, NEW cap, NEW t, Lists(b, off, n, cap, t),
         NEW s \in Seq(Value), off + n + Len(s) <= cap
  PROVE  Lists(Fill(b, off + n, s), off, n + Len(s), cap, t \o s)
<1> DEFINE c == Fill(b, off + n, s)
<1>h. Held(b, off, n, cap)
  BY DEF Lists
<1>s. t \in Seq(Value) /\ Len(t) = n /\ \A j \in 1 .. n : b[off + j - 1] = t[j]
  BY DEF Lists
<1>1. Len(s) \in Nat /\ \A j \in 1 .. Len(s) : s[j] \in Value
  OBVIOUS
<1>2. c \in Slots(cap) /\ \A i \in 0 .. cap - 1 :
        c[i] = IF off + n <= i /\ i < off + n + Len(s) THEN s[i - (off + n) + 1] ELSE b[i]
  BY <1>h, HeldFacts, FillSlots
<1> HIDE DEF c
<1>3. ASSUME NEW i \in 0 .. cap - 1, off + n <= i, i < off + n + Len(s)
      PROVE  c[i] \in Value
  <2>1. i - (off + n) + 1 \in 1 .. Len(s)
    BY <1>1, <1>3, <1>h, HeldFacts
  <2> QED
    BY <1>1, <1>2, <1>3, <2>1
<1>4. Held(c, off, n + Len(s), cap)
  <2>1. \A i \in 0 .. cap - 1 : c[i] # Dead <=> off <= i /\ i < off + (n + Len(s))
    BY <1>1, <1>2, <1>3, <1>h, HeldFacts, DeadNotValue
  <2> QED
    BY <1>1, <1>2, <2>1, <1>h, HeldFacts DEF Held
<1>5. ASSUME NEW j \in 1 .. n + Len(s)
      PROVE  c[off + j - 1] = IF j <= n THEN b[off + j - 1] ELSE s[j - n]
  <2>1. off + j - 1 \in 0 .. cap - 1 /\ (off + n <= off + j - 1 <=> ~(j <= n)) /\ off + j - 1 < off + n + Len(s)
        /\ (off + j - 1) - (off + n) + 1 = j - n
    BY <1>1, <1>h, HeldFacts, SMTT(30)
  <2> QED
    BY <1>2, <2>1
<1> DEFINE u == t \o s
<1>6. u \in Seq(Value) /\ Len(u) = n + Len(s)
      /\ \A j \in 1 .. n + Len(s) : u[j] = IF j <= n THEN t[j] ELSE s[j - n]
  BY <1>s, <1>1, ConcatProperties
<1> HIDE DEF u
<1>7. ASSUME NEW j \in 1 .. n + Len(s) PROVE c[off + j - 1] = u[j]
  <2>1. n \in Nat
    BY <1>h, HeldFacts
  <2>2. CASE j <= n
    <3>1. j \in 1 .. n
      BY <2>1, <2>2
    <3> QED
      BY <1>s, <1>5, <1>6, <2>2, <3>1
  <2>3. CASE ~(j <= n)
    BY <1>5, <1>6, <2>3
  <2> QED
    BY <2>2, <2>3
<1> QED
  BY <1>4, <1>6, <1>7 DEF Lists, c, u

\* Elements that are destroyed at an end of the window shorten it.
LEMMA DestroyFront ==
  ASSUME NEW b, NEW off, NEW n, NEW cap, NEW s, Lists(b, off, n, cap, s),
         NEW low \in Nat, NEW k \in Nat, NEW gone \in Nat, low = off + gone, n = gone + k
  PROVE  Lists(Destroy(b, off, low), low, k, cap, SubSeq(s, gone + 1, Len(s)))
<1> DEFINE c == Destroy(b, off, low)  t == SubSeq(s, gone + 1, Len(s))
<1>h. Held(b, off, n, cap)
  BY DEF Lists
<1>s. s \in Seq(Value) /\ Len(s) = n /\ \A j \in 1 .. n : b[off + j - 1] = s[j]
  BY DEF Lists
<1>2. c \in Slots(cap) /\ \A i \in 0 .. cap - 1 : c[i] = IF off <= i /\ i < low THEN Dead ELSE b[i]
  <2>1. off \in Int /\ low \in Int
    BY <1>h, HeldFacts
  <2> QED
    BY <1>h, <2>1, HeldFacts, DestroySlots
<1> HIDE DEF c
<1>3. Held(c, low, k, cap)
  BY <1>h, <1>2, HeldFacts DEF Held
<1>4. t \in Seq(Value) /\ Len(t) = k /\ \A j \in 1 .. k : t[j] = s[gone + j]
  <2>1. gone \in 0 .. Len(s) /\ Len(s) - gone = k
    BY <1>s
  <2> QED
    BY <1>s, <2>1, LastOnes
<1> HIDE DEF t
<1>5. ASSUME NEW j \in 1 .. k PROVE c[low + j - 1] = t[j]
  <2>1. gone + j \in 1 .. n /\ off + (gone + j) - 1 = low + j - 1 /\ low + j - 1 \in 0 .. cap - 1 /\ ~(low + j - 1 < low)
    BY <1>h, HeldFacts
  <2> QED
    BY <1>s, <1>2, <1>4, <2>1
<1> QED
  BY <1>3, <1>4, <1>5 DEF Lists, c, t

LEMMA DestroyBack ==
  ASSUME NEW b, NEW off, NEW n, NEW cap, NEW s, Lists(b, off, n, cap, s),
         NEW k \in 0 .. n, NEW low, low = off + k, NEW high, high = off + n
  PROVE  Lists(Destroy(b, low, high), off, k, cap, SubSeq(s, 1, k))
<1> DEFINE c == Destroy(b, low, high)  t == SubSeq(s, 1, k)
<1>h. Held(b, off, n, cap)
  BY DEF Lists
<1>s. s \in Seq(Value) /\ Len(s) = n /\ \A j \in 1 .. n : b[off + j - 1] = s[j]
  BY DEF Lists
<1>2. c \in Slots(cap) /\ \A i \in 0 .. cap - 1 : c[i] = IF low <= i /\ i < high THEN Dead ELSE b[i]
  <2>1. low \in Int /\ high \in Int
    BY <1>h, HeldFacts
  <2> QED
    BY <1>h, <2>1, HeldFacts, DestroySlots
<1> HIDE DEF c
<1>3. Held(c, off, k, cap)
  BY <1>h, <1>2, HeldFacts DEF Held
<1>4. t \in Seq(Value) /\ Len(t) = k /\ \A j \in 1 .. k : t[j] = s[j]
  BY <1>s, FirstOnes
<1> HIDE DEF t
<1>5. ASSUME NEW j \in 1 .. k PROVE c[off + j - 1] = t[j]
  <2>1. j \in 1 .. n /\ off + j - 1 \in 0 .. cap - 1 /\ off + j - 1 < low
    BY <1>h, HeldFacts
  <2>2. ~(low <= off + j - 1)
    BY <1>h, <2>1, HeldFacts
  <2> QED
    BY <1>s, <1>2, <1>4, <2>1, <2>2
<1> QED
  BY <1>3, <1>4, <1>5 DEF Lists, c, t

LEMMA DestroyAll ==
  ASSUME NEW b, NEW off, NEW n, NEW cap, Held(b, off, n, cap), NEW low \in 0 .. cap
  PROVE  Lists(Destroy(b, off, off + n), low, 0, cap, <<>>)
<1> DEFINE c == Destroy(b, off, off + n)
<1>1. off + n \in Int /\ off \in Int
  BY HeldFacts
<1>2. c \in Slots(cap) /\ \A i \in 0 .. cap - 1 : c[i] = IF off <= i /\ i < off + n THEN Dead ELSE b[i]
  BY <1>1, HeldFacts, DestroySlots
<1> HIDE DEF c
<1>3. Held(c, low, 0, cap)
  BY <1>2, HeldFacts DEF Held
<1> QED
  BY <1>3, EmptySeq DEF Lists, c

\* erase: the gap first .. last - 1 is destroyed and the tail moved over it.
LEMMA EraseMiddle ==
  ASSUME NEW b, NEW off, NEW n, NEW cap, NEW s, Lists(b, off, n, cap, s),
         NEW first \in Nat, NEW last \in Nat, first < last, last <= n
  PROVE  Lists(MoveForward(Destroy(b, off + first, off + last), off + first, off + last, n - last),
               off, n - (last - first), cap, SubSeq(s, 1, first) \o SubSeq(s, last + 1, Len(s)))
<1> DEFINE gone == Destroy(b, off + first, off + last)
           c == MoveForward(gone, off + first, off + last, n - last)
<1>h. Held(b, off, n, cap)
  BY DEF Lists
<1>s. s \in Seq(Value) /\ Len(s) = n /\ \A j \in 1 .. n : b[off + j - 1] = s[j]
  BY DEF Lists
<1>1. off + first \in Nat /\ off + last \in Nat /\ off + first < off + last /\ n - last \in Nat
      /\ (off + last) + (n - last) = off + n /\ off + n <= cap
      /\ (off + first) + (n - last) = off + (n - (last - first))
  BY <1>h, HeldFacts
<1>2. gone \in Slots(cap) /\ \A i \in 0 .. cap - 1 :
        gone[i] = IF off + first <= i /\ i < off + last THEN Dead ELSE b[i]
  BY <1>1, <1>h, HeldFacts, DestroySlots
<1> HIDE DEF gone
<1>3. c = AfterForward(gone, off + first, off + last, n - last) /\ c \in Slots(cap)
  BY <1>1, <1>2, <1>h, HeldFacts, MoveForwardSlots
<1>4. ASSUME NEW i \in 0 .. cap - 1
      PROVE  c[i] = IF off + first <= i /\ i < off + (n - (last - first)) THEN gone[i + (last - first)]
                    ELSE IF off + last <= i /\ i < off + n THEN Dead ELSE gone[i]
  <2>1. DOMAIN gone = 0 .. cap - 1
    BY <1>2 DEF Slots
  <2>2. (off + last) - (off + first) = last - first
    BY <1>1, <1>h, HeldFacts
  <2> HIDE DEF c
  <2> QED
    BY <1>1, <1>3, <2>1, <2>2 DEF AfterForward
<1> HIDE DEF c
<1>5. ASSUME NEW i \in 0 .. cap - 1, off + first <= i, i < off + (n - (last - first))
      PROVE  c[i] = b[i + (last - first)] /\ b[i + (last - first)] # Dead
  <2>1. i + (last - first) \in 0 .. cap - 1 /\ off + last <= i + (last - first) /\ i + (last - first) < off + n
    BY <1>5, <1>h, HeldFacts
  <2> QED
    BY <1>1, <1>2, <1>4, <1>5, <2>1, <1>h, HeldFacts
<1>6. ASSUME NEW i \in 0 .. cap - 1, i < off + first PROVE c[i] = b[i]
  BY <1>1, <1>2, <1>4, <1>6
<1>7. ASSUME NEW i \in 0 .. cap - 1, off + (n - (last - first)) <= i PROVE c[i] = Dead
  <2>1. ~(i < off + (n - (last - first))) /\ off + first <= i
    BY <1>1, <1>7, <1>h, HeldFacts
  <2>2. c[i] = IF off + last <= i /\ i < off + n THEN Dead ELSE gone[i]
    BY <1>4, <2>1
  <2>3. ~(i < off + n) => b[i] = Dead
    BY <1>h, HeldFacts
  <2> QED
    BY <1>1, <1>2, <2>1, <2>2, <2>3, <1>h, HeldFacts
<1>8. Held(c, off, n - (last - first), cap)
  <2>1. \A i \in 0 .. cap - 1 : c[i] # Dead <=> off <= i /\ i < off + (n - (last - first))
    BY <1>1, <1>5, <1>6, <1>7, <1>h, HeldFacts
  <2>2. n - (last - first) \in Nat /\ off + (n - (last - first)) <= cap
    BY <1>h, HeldFacts
  <2> QED
    BY <1>3, <2>1, <2>2, <1>h, HeldFacts DEF Held
<1>9. ASSUME NEW j \in 1 .. n - (last - first)
      PROVE  c[off + j - 1] = IF j <= first THEN b[off + j - 1] ELSE b[off + (last - first) + j - 1]
  <2>1. off + j - 1 \in 0 .. cap - 1 /\ off + j - 1 < off + (n - (last - first))
        /\ (off + j - 1 < off + first <=> j <= first)
        /\ (off + j - 1) + (last - first) = off + (last - first) + j - 1
    BY <1>h, HeldFacts
  <2> QED
    BY <1>1, <1>5, <1>6, <2>1
<1> DEFINE u == SubSeq(s, 1, first) \o SubSeq(s, last + 1, Len(s))
<1>10. u \in Seq(Value) /\ Len(u) = n - (last - first)
       /\ \A j \in 1 .. n - (last - first) : u[j] = IF j <= first THEN s[j] ELSE s[(last - first) + j]
  <2> DEFINE p == SubSeq(s, 1, first)  q == SubSeq(s, last + 1, Len(s))
  <2>1. n \in Nat /\ first \in 0 .. Len(s) /\ last \in 0 .. Len(s)
    BY <1>h, <1>s, HeldFacts
  <2>2. p \in Seq(Value) /\ Len(p) = first /\ \A j \in 1 .. first : p[j] = s[j]
    BY <1>s, <2>1, FirstOnes
  <2>3. q \in Seq(Value) /\ Len(q) = n - last /\ \A j \in 1 .. n - last : q[j] = s[last + j]
    BY <1>s, <2>1, LastOnes
  <2> HIDE DEF p, q
  <2>4. p \o q \in Seq(Value) /\ Len(p \o q) = first + (n - last)
        /\ \A j \in 1 .. first + (n - last) : (p \o q)[j] = IF j <= first THEN p[j] ELSE q[j - first]
    <3>1. /\ p \o q \in Seq(Value) /\ Len(p \o q) = Len(p) + Len(q)
          /\ \A j \in 1 .. Len(p) + Len(q) : (p \o q)[j] = IF j <= Len(p) THEN p[j] ELSE q[j - Len(p)]
      BY <2>2, <2>3, ConcatProperties
    <3> QED
      BY <2>2, <2>3, <3>1
  <2>5. ASSUME NEW j \in 1 .. n - (last - first)
        PROVE  (p \o q)[j] = IF j <= first THEN s[j] ELSE s[(last - first) + j]
    <3>1. j \in 1 .. first + (n - last)
      BY <2>1
    <3>2. CASE j <= first
      BY <2>2, <2>4, <3>1, <3>2
    <3>3. CASE ~(j <= first)
      <4>1. j - first \in 1 .. n - last /\ last + (j - first) = (last - first) + j
        BY <2>1, <3>1, <3>3
      <4> QED
        BY <2>3, <2>4, <3>1, <3>3, <4>1
    <3> QED
      BY <3>2, <3>3
  <2>6. first + (n - last) = n - (last - first)
    BY <2>1
  <2> QED
    BY <2>4, <2>5, <2>6 DEF p, q
<1> HIDE DEF u
<1>11. ASSUME NEW j \in 1 .. n - (last - first) PROVE c[off + j - 1] = u[j]
  <2>1. n \in Nat /\ off \in Nat /\ j \in 1 .. n /\ (last - first) + j \in 1 .. n
        /\ off + ((last - first) + j) - 1 = off + (last - first) + j - 1
    BY <1>h, HeldFacts
  <2>2. CASE j <= first
    BY <1>s, <1>9, <1>10, <2>1, <2>2
  <2>3. CASE ~(j <= first)
    BY <1>s, <1>9, <1>10, <2>1, <2>3
  <2> QED
    BY <2>2, <2>3
<1> QED
  BY <1>8, <1>10, <1>11 DEF Lists, c, gone, u

\* A sequence with v inserted before its element number index, counted from 0.
LEMMA InsertedSeq ==
  ASSUME NEW s \in Seq(Value), NEW index \in 0 .. Len(s), NEW v \in Value
  PROVE  LET u == SubSeq(s, 1, index) \o <<v>> \o SubSeq(s, index + 1, Len(s)) IN
         /\ u \in Seq(Value) /\ Len(u) = Len(s) + 1
         /\ \A j \in 1 .. Len(s) + 1 : u[j] = IF j <= index THEN s[j] ELSE IF j = index + 1 THEN v ELSE s[j - 1]
<1> DEFINE p == SubSeq(s, 1, index)  q == SubSeq(s, index + 1, Len(s))  n == Len(s)  r == p \o <<v>>  u == r \o q
<1>1. n \in Nat /\ index \in 0 .. n
  OBVIOUS
<1>2. p \in Seq(Value) /\ Len(p) = index /\ \A j \in 1 .. index : p[j] = s[j]
  BY FirstOnes
<1>3. q \in Seq(Value) /\ Len(q) = n - index /\ \A j \in 1 .. n - index : q[j] = s[index + j]
  BY LastOnes
<1>4. <<v>> \in Seq(Value) /\ Len(<<v>>) = 1 /\ <<v>>[1] = v
  OBVIOUS
<1> HIDE DEF p, q
<1>5. /\ r \in Seq(Value) /\ Len(r) = Len(p) + Len(<<v>>)
      /\ \A j \in 1 .. Len(p) + Len(<<v>>) : r[j] = IF j <= Len(p) THEN p[j] ELSE <<v>>[j - Len(p)]
  BY <1>2, <1>4, ConcatProperties
<1> HIDE DEF r, n
<1>6. /\ u \in Seq(Value) /\ Len(u) = Len(r) + Len(q)
      /\ \A j \in 1 .. Len(r) + Len(q) : u[j] = IF j <= Len(r) THEN r[j] ELSE q[j - Len(r)]
  <2>1. q \in Seq(Value) /\ r \in Seq(Value)
    BY <1>3, <1>5
  <2> QED
    BY <2>1, ConcatProperties
<1> HIDE DEF u
<1>7. Len(r) = index + 1 /\ Len(u) = n + 1
  BY <1>1, <1>2, <1>3, <1>4, <1>5, <1>6
<1>8. ASSUME NEW j \in 1 .. n + 1
      PROVE  u[j] = IF j <= index THEN s[j] ELSE IF j = index + 1 THEN v ELSE s[j - 1]
  <2>1. j \in 1 .. Len(r) + Len(q)
    BY <1>1, <1>3, <1>7
  <2>2. u[j] = IF j <= index + 1 THEN r[j] ELSE q[j - (index + 1)]
    BY <1>6, <1>7, <2>1
  <2>3. CASE j <= index
    <3>1. j \in 1 .. index /\ j \in 1 .. Len(p) + Len(<<v>>)
      BY <1>1, <1>2, <1>4, <2>3
    <3> QED
      BY <1>1, <1>2, <1>5, <2>2, <2>3, <3>1
  <2>4. CASE j = index + 1
    <3>1. j \in 1 .. Len(p) + Len(<<v>>) /\ ~(j <= Len(p)) /\ j - Len(p) = 1
      BY <1>1, <1>2, <1>4, <2>4
    <3>2. r[j] = <<v>>[j - Len(p)]
      BY <1>5, <3>1
    <3>3. r[j] = v
      BY <1>4, <3>1, <3>2
    <3> QED
      BY <1>1, <2>2, <2>4, <3>3
  <2>5. CASE j > index + 1
    <3>1. j - (index + 1) \in 1 .. n - index /\ index + (j - (index + 1)) = j - 1
      BY <1>1, <2>5
    <3> QED
      BY <1>1, <1>3, <2>2, <2>5, <3>1
  <2> QED
    BY <1>1, <2>3, <2>4, <2>5
<1> QED
  BY <1>6, <1>7, <1>8 DEF p, q, n, r, u

\* insert near the front: the first index elements move one slot to the left, and v takes the gap.
LEMMA InsertLeft ==
  ASSUME NEW b, NEW off, NEW n, NEW cap, NEW s, Lists(b, off, n, cap, s), off > 0,
         NEW index \in Nat, index <= n, NEW v \in Value
  PROVE  Lists(Fill(MoveForward(b, off - 1, off, index), off - 1 + index, <<v>>),
               off - 1, n + 1, cap, SubSeq(s, 1, index) \o <<v>> \o SubSeq(s, index + 1, Len(s)))
<1> DEFINE m == MoveForward(b, off - 1, off, index)
           gap == off - 1 + index
           c == Fill(m, gap, <<v>>)
<1>h. Held(b, off, n, cap)
  BY DEF Lists
<1>s. s \in Seq(Value) /\ Len(s) = n /\ \A j \in 1 .. n : b[off + j - 1] = s[j]
  BY DEF Lists
<1>1. off - 1 \in Nat /\ off - 1 < off /\ off + index <= cap /\ gap \in Nat /\ gap < cap
  BY <1>h, HeldFacts
<1>2. m = AfterForward(b, off - 1, off, index) /\ m \in Slots(cap)
  BY <1>1, <1>h, HeldFacts, MoveForwardSlots
<1>3. ASSUME NEW i \in 0 .. cap - 1
      PROVE  m[i] = IF off - 1 <= i /\ i < gap THEN b[i + 1]
                    ELSE IF off <= i /\ i < off + index THEN Dead ELSE b[i]
  <2>1. DOMAIN b = 0 .. cap - 1
    BY <1>h, HeldFacts DEF Slots
  <2>2. off - (off - 1) = 1
    BY <1>h, HeldFacts
  <2> HIDE DEF m
  <2> QED
    BY <1>1, <1>2, <2>1, <2>2 DEF AfterForward
<1> HIDE DEF m
<1>4. <<v>> \in Seq(Value) /\ Len(<<v>>) = 1 /\ <<v>>[1] = v
  OBVIOUS
<1>5. c \in Slots(cap) /\ \A i \in 0 .. cap - 1 :
        c[i] = IF gap <= i /\ i < gap + Len(<<v>>) THEN <<v>>[i - gap + 1] ELSE m[i]
  <2>1. cap \in Nat /\ gap \in Nat /\ m \in Slots(cap) /\ <<v>> \in Seq(Value)
    BY <1>1, <1>2, <1>4, <1>h, HeldFacts
  <2> HIDE DEF gap
  <2> QED
    BY <2>1, FillSlots
<1> HIDE DEF c
<1>6. ASSUME NEW i \in 0 .. cap - 1
      PROVE  c[i] = IF i = gap THEN v ELSE IF off - 1 <= i /\ i < gap THEN b[i + 1] ELSE b[i]
  <2>1. CASE i = gap
    BY <1>1, <1>4, <1>5, <2>1
  <2>2. CASE i # gap
    <3>1. c[i] = m[i]
      BY <1>1, <1>4, <1>5, <2>2
    <3>2. (off - 1 <= i /\ i < gap) \/ ~(off <= i /\ i < off + index)
      BY <1>1, <2>2, <1>h, HeldFacts
    <3> QED
      BY <1>3, <2>2, <3>1, <3>2
  <2> QED
    BY <2>1, <2>2
<1>7. ASSUME NEW i \in 0 .. cap - 1, off - 1 <= i, i < gap
      PROVE  i + 1 \in 0 .. cap - 1 /\ b[i + 1] # Dead
  BY <1>1, <1>7, <1>h, HeldFacts
<1> HIDE DEF gap
<1>8. gap = off - 1 + index
  BY DEF gap
<1>9. Held(c, off - 1, n + 1, cap)
  <2>1. \A i \in 0 .. cap - 1 : c[i] # Dead <=> off - 1 <= i /\ i < off - 1 + (n + 1)
    <3> TAKE i \in 0 .. cap - 1
    <3>1. CASE i = gap
      BY <1>1, <1>6, <1>8, <3>1, <1>h, HeldFacts, DeadNotValue
    <3>2. CASE off - 1 <= i /\ i < gap
      BY <1>1, <1>6, <1>7, <1>8, <3>2, <1>h, HeldFacts
    <3>3. CASE ~(off - 1 <= i /\ i <= gap)
      <4>1. c[i] = b[i] /\ i # gap
        BY <1>1, <1>6, <1>8, <3>3, <1>h, HeldFacts
      <4> QED
        BY <1>1, <1>8, <3>3, <4>1, <1>h, HeldFacts
    <3> QED
      BY <1>1, <3>1, <3>2, <3>3
  <2> QED
    BY <1>1, <1>5, <2>1, <1>h, HeldFacts DEF Held
<1>10. ASSUME NEW j \in 1 .. n + 1
       PROVE  c[off - 1 + j - 1] = IF j <= index THEN b[off + j - 1]
                                   ELSE IF j = index + 1 THEN v ELSE b[off + (j - 1) - 1]
  <2>1. off - 1 + j - 1 \in 0 .. cap - 1 /\ off - 1 <= off - 1 + j - 1
        /\ (off - 1 + j - 1 < gap <=> j <= index) /\ (off - 1 + j - 1 = gap <=> j = index + 1)
        /\ off - 1 + j - 1 + 1 = off + j - 1 /\ off + (j - 1) - 1 = off - 1 + j - 1
    BY <1>8, <1>h, HeldFacts
  <2>2. c[off - 1 + j - 1] = IF off - 1 + j - 1 = gap THEN v
                             ELSE IF off - 1 <= off - 1 + j - 1 /\ off - 1 + j - 1 < gap
                                    THEN b[off - 1 + j - 1 + 1] ELSE b[off - 1 + j - 1]
    BY <1>6, <2>1
  <2> QED
    BY <2>1, <2>2
<1> DEFINE u == SubSeq(s, 1, index) \o <<v>> \o SubSeq(s, index + 1, Len(s))
<1>11. u \in Seq(Value) /\ Len(u) = n + 1
       /\ \A j \in 1 .. n + 1 : u[j] = IF j <= index THEN s[j] ELSE IF j = index + 1 THEN v ELSE s[j - 1]
  <2>1. index \in 0 .. Len(s)
    BY <1>s, <1>h, HeldFacts
  <2> QED
    BY <1>s, <2>1, InsertedSeq
<1> HIDE DEF u
<1>12. ASSUME NEW j \in 1 .. n + 1 PROVE c[off - 1 + j - 1] = u[j]
  <2>1. n \in Nat /\ (j <= index => j \in 1 .. n) /\ (j > index + 1 => j - 1 \in 1 .. n)
        /\ (j <= index \/ j = index + 1 \/ j > index + 1)
    BY <1>h, HeldFacts
  <2>2. CASE j <= index
    BY <1>s, <1>10, <1>11, <2>1, <2>2
  <2>3. CASE j = index + 1
    BY <1>10, <1>11, <2>3
  <2>4. CASE j > index + 1
    BY <1>s, <1>10, <1>11, <2>1, <2>4
  <2> QED
    BY <2>1, <2>2, <2>3, <2>4
<1> QED
  BY <1>9, <1>11, <1>12 DEF Lists, c, m, gap, u

\* insert near the back: the elements from index on move one slot to the right, and v takes the gap.
LEMMA InsertRight ==
  ASSUME NEW b, NEW off, NEW n, NEW cap, NEW s, Lists(b, off, n, cap, s), off + n < cap,
         NEW index \in Nat, index <= n, NEW v \in Value
  PROVE  Lists(Fill(MoveBackward(b, off + index + 1, off + index, n - index), off + index, <<v>>),
               off, n + 1, cap, SubSeq(s, 1, index) \o <<v>> \o SubSeq(s, index + 1, Len(s)))
<1> DEFINE gap == off + index
           m == MoveBackward(b, gap + 1, gap, n - index)
           c == Fill(m, gap, <<v>>)
<1>h. Held(b, off, n, cap)
  BY DEF Lists
<1>s. s \in Seq(Value) /\ Len(s) = n /\ \A j \in 1 .. n : b[off + j - 1] = s[j]
  BY DEF Lists
<1>1. gap \in Nat /\ gap + 1 \in Nat /\ gap < gap + 1 /\ n - index \in Nat /\ gap + (n - index) = off + n
      /\ gap + 1 + (n - index) = off + n + 1 /\ off + n + 1 <= cap /\ gap < cap /\ off <= gap /\ gap <= off + n
  BY <1>h, HeldFacts
<1>2. m = AfterBackward(b, gap + 1, gap, n - index, n - index) /\ m \in Slots(cap)
  BY <1>1, <1>h, HeldFacts, MoveBackwardSlots
<1>3. ASSUME NEW i \in 0 .. cap - 1
      PROVE  m[i] = IF gap + 1 <= i /\ i < off + n + 1 THEN b[i - 1]
                    ELSE IF gap <= i /\ i < off + n THEN Dead ELSE b[i]
  <2>1. DOMAIN b = 0 .. cap - 1
    BY <1>h, HeldFacts DEF Slots
  <2>2. (gap + 1) - gap = 1 /\ off + n + 1 - (n - index) = gap + 1 /\ off + n - (n - index) = gap
    BY <1>h, HeldFacts
  <2> HIDE DEF m, gap
  <2> QED
    BY <1>1, <1>2, <2>1, <2>2 DEF AfterBackward
<1> HIDE DEF m
<1>4. <<v>> \in Seq(Value) /\ Len(<<v>>) = 1 /\ <<v>>[1] = v
  OBVIOUS
<1>5. c \in Slots(cap) /\ \A i \in 0 .. cap - 1 :
        c[i] = IF gap <= i /\ i < gap + Len(<<v>>) THEN <<v>>[i - gap + 1] ELSE m[i]
  <2>1. cap \in Nat /\ gap \in Nat /\ m \in Slots(cap) /\ <<v>> \in Seq(Value)
    BY <1>1, <1>2, <1>4, <1>h, HeldFacts
  <2> HIDE DEF gap
  <2> QED
    BY <2>1, FillSlots
<1> HIDE DEF c
<1>6. ASSUME NEW i \in 0 .. cap - 1
      PROVE  c[i] = IF i = gap THEN v ELSE IF gap < i /\ i <= off + n THEN b[i - 1] ELSE b[i]
  <2>1. CASE i = gap
    BY <1>1, <1>4, <1>5, <2>1
  <2>2. CASE i # gap
    <3>1. c[i] = m[i]
      BY <1>1, <1>4, <1>5, <2>2
    <3>2. (gap + 1 <= i /\ i < off + n + 1 <=> gap < i /\ i <= off + n)
          /\ ((gap < i /\ i <= off + n) \/ ~(gap <= i /\ i < off + n))
      BY <1>1, <2>2, <1>h, HeldFacts
    <3> QED
      BY <1>3, <2>2, <3>1, <3>2
  <2> QED
    BY <2>1, <2>2
<1>7. ASSUME NEW i \in 0 .. cap - 1, gap < i, i <= off + n
      PROVE  i - 1 \in 0 .. cap - 1 /\ b[i - 1] # Dead
  BY <1>1, <1>7, <1>h, HeldFacts
<1> HIDE DEF gap
<1>8. gap = off + index
  BY DEF gap
<1>9. Held(c, off, n + 1, cap)
  <2>1. \A i \in 0 .. cap - 1 : c[i] # Dead <=> off <= i /\ i < off + (n + 1)
    <3> TAKE i \in 0 .. cap - 1
    <3>1. CASE i = gap
      BY <1>1, <1>6, <1>8, <3>1, <1>h, HeldFacts, DeadNotValue
    <3>2. CASE gap < i /\ i <= off + n
      BY <1>1, <1>6, <1>7, <1>8, <3>2, <1>h, HeldFacts
    <3>3. CASE ~(gap <= i /\ i <= off + n)
      <4>1. c[i] = b[i] /\ i # gap
        BY <1>1, <1>6, <1>8, <3>3, <1>h, HeldFacts
      <4> QED
        BY <1>1, <1>8, <3>3, <4>1, <1>h, HeldFacts
    <3> QED
      BY <1>1, <3>1, <3>2, <3>3
  <2>2. n + 1 \in Nat /\ off + (n + 1) <= cap
    BY <1>1, <1>h, HeldFacts
  <2> QED
    BY <1>5, <2>1, <2>2, <1>h, HeldFacts DEF Held
<1>10. ASSUME NEW j \in 1 .. n + 1
       PROVE  c[off + j - 1] = IF j <= index THEN b[off + j - 1]
                               ELSE IF j = index + 1 THEN v ELSE b[off + (j - 1) - 1]
  <2> DEFINE i == off + j - 1
  <2>1. i \in 0 .. cap - 1 /\ i <= off + n /\ index \in Int /\ j \in Int
        /\ (gap < i <=> j > index + 1) /\ (i = gap <=> j = index + 1) /\ i - 1 = off + (j - 1) - 1
    BY <1>1, <1>8, <1>h, HeldFacts
  <2> HIDE DEF i
  <2>2. c[i] = IF i = gap THEN v ELSE IF gap < i /\ i <= off + n THEN b[i - 1] ELSE b[i]
    BY <1>6, <2>1
  <2>3. c[i] = IF j <= index THEN b[i] ELSE IF j = index + 1 THEN v ELSE b[i - 1]
    BY <2>1, <2>2
  <2> QED
    BY <2>1, <2>3 DEF i
<1> DEFINE u == SubSeq(s, 1, index) \o <<v>> \o SubSeq(s, index + 1, Len(s))
<1>11. u \in Seq(Value) /\ Len(u) = n + 1
       /\ \A j \in 1 .. n + 1 : u[j] = IF j <= index THEN s[j] ELSE IF j = index + 1 THEN v ELSE s[j - 1]
  <2>1. index \in 0 .. Len(s)
    BY <1>s, <1>h, HeldFacts
  <2> QED
    BY <1>s, <2>1, InsertedSeq
<1> HIDE DEF u
<1>12. ASSUME NEW j \in 1 .. n + 1 PROVE c[off + j - 1] = u[j]
  <2>1. n \in Nat /\ (j <= index => j \in 1 .. n) /\ (j > index + 1 => j - 1 \in 1 .. n)
        /\ (j <= index \/ j = index + 1 \/ j > index + 1)
    BY <1>h, HeldFacts
  <2>2. CASE j <= index
    BY <1>s, <1>10, <1>11, <2>1, <2>2
  <2>3. CASE j = index + 1
    BY <1>10, <1>11, <2>3
  <2>4. CASE j > index + 1
    BY <1>s, <1>10, <1>11, <2>1, <2>4
  <2> QED
    BY <2>1, <2>2, <2>3, <2>4
<1> QED
  BY <1>9, <1>11, <1>12 DEF Lists, c, m, gap, u
-----------------------------------------------------------------------------
(* Every action keeps the slots in order and is a step of the deque. *)

SlotsInv  == TypeOK /\ (Alive => HeldNow)
DequeStep == [Abstract!Next]_Abstract!dequeVars

LEMMA EmptySlots == Lists(<<>>, 0, 0, 0, <<>>) /\ <<>> \in Slots(0)
<1>1. <<>> \in Slots(0)
  BY DEF Slots
<1> QED
  BY <1>1, EmptySeq DEF Lists, Held

LEMMA ContentLists ==
  ASSUME Alive, HeldNow PROVE Lists(buffer, offset, size, capacity, Content)
BY ListsOwn DEF HeldNow, Content

\* A call that leaves s in the window.
LEMMA KeepLists ==
  ASSUME Alive, TypeOK, NEW b, NEW off, NEW n, NEW cap, NEW s, Keep(b, off, n, cap), Lists(b, off, n, cap, s)
  PROVE  SlotsInv' /\ Content' = s /\ status' = status /\ Alive'
<1>1. buffer' = b /\ offset' = off /\ size' = n /\ capacity' = cap /\ status' = status /\ Alive'
  BY DEF Keep, Alive
<1>2. Held(b, off, n, cap) /\ HeldNow'
  BY <1>1 DEF HeldNow, Lists
<1>3. TypeOK'
  BY <1>1, <1>2, HeldFacts DEF TypeOK, Slots, Slot
<1>4. Content' = s
  BY <1>1, ListsUnique DEF Content
<1> QED
  BY <1>1, <1>2, <1>3, <1>4 DEF SlotsInv

LEMMA CarriesLists ==
  ASSUME Alive, HeldNow, NEW r, Carries(r) PROVE Lists(r.buffer, r.offset, size, r.capacity, Content)
<1> DEFINE b == r.buffer  off == r.offset  cap == r.capacity
<1>1. Held(b, off, size, cap) /\ Listed(b, off, size) = Content
  BY DEF Carries, Content
<1> HIDE DEF b, off, cap
<1> QED
  BY <1>1, ListsOwn DEF b, off, cap

\* The elements were relocated, or left where they are: no step of the deque.
LEMMA CarriedStep ==
  ASSUME IndInv, SlotsInv, Alive, NEW r, Carries(r), Keep(r.buffer, r.offset, size, r.capacity)
  PROVE  SlotsInv' /\ DequeStep
<1> DEFINE b == r.buffer  off == r.offset  cap == r.capacity
<1>1. Keep(b, off, size, cap) /\ Lists(b, off, size, cap, Content) /\ TypeOK
  BY CarriesLists DEF SlotsInv
<1> HIDE DEF b, off, cap
<1>2. SlotsInv' /\ Content' = Content /\ status' = status
  BY <1>1, KeepLists
<1>3. UNCHANGED Abstract!dequeVars
  BY <1>2 DEF Abstract!dequeVars, Content, Listed
<1> QED
  BY <1>2, <1>3 DEF DequeStep

\* A write outside the buffer is the end of the object; a push or an insert ends only an empty one.
LEMMA WildStep ==
  ASSUME IndInv, SlotsInv, Alive, NEW call \in {"push_front", "push_back", "insert", "resize"}, Wild(call),
         call # "resize" => size = 0
  PROVE  SlotsInv' /\ DequeStep
<1>1. SlotsInv'
  BY DEF Wild, SlotsInv, TypeOK, Alive
<1>2. Content' = <<>>
  BY DEF Wild, Content, Alive
<1>3. size = 0 => Content = <<>>
  BY EmptySeq, ContentLists DEF SlotsInv, Lists
<1>4. Abstract!Lose(call)
  BY <1>2, <1>3 DEF Wild, Abstract!Lose, Content, Listed, Alive
<1> QED
  BY <1>1, <1>4 DEF DequeStep, Abstract!Next

LEMMA ReserveStep ==
  ASSUME IndInv, SlotsInv, NEW n \in Count, Reserve(n) \/ ReserveFront(n) \/ ReserveBack(n)
  PROVE  SlotsInv' /\ DequeStep
<1> n \in Nat
  BY Bounds
<1>1. CASE Reserve(n)
  <2>1. n >= size /\ Alive /\ HeldNow
    BY <1>1 DEF Reserve, IndInv, Numbers, WindowFits, SlotsInv
  <2> QED
    BY <1>1, <2>1, GrowCarries, CarriedStep DEF Reserve
<1>2. CASE ReserveFront(n)
  BY <1>2, RoomCarries, CarriedStep DEF ReserveFront, SlotsInv
<1>3. CASE ReserveBack(n)
  BY <1>3, RoomCarries, CarriedStep DEF ReserveBack, SlotsInv
<1> QED
  BY <1>1, <1>2, <1>3

LEMMA ShrinkStep == ASSUME IndInv, SlotsInv, ShrinkToFit PROVE SlotsInv' /\ DequeStep
<1> DEFINE r == NewStorage(size, 0)
<1>1. Alive /\ HeldNow /\ size \in Nat
  BY DEF ShrinkToFit, SlotsInv, TypeOK
<1>2. Carries(r) /\ r.offset = 0 /\ r.capacity = size
  BY <1>1, NewStorageCarries
<1>3. Keep(r.buffer, r.offset, size, r.capacity)
  BY <1>2 DEF ShrinkToFit
<1> QED
  BY <1>1, <1>2, <1>3, CarriedStep

LEMMA PushFrontStep == ASSUME IndInv, SlotsInv, NEW v \in Value, PushFront(v) PROVE SlotsInv' /\ DequeStep
<1> DEFINE r == RoomFront(1)
<1>1. Alive /\ HeldNow /\ TypeOK /\ Carries(r) /\ Fits(r) /\ (size > 0 => r.offset >= 1)
  BY RoomCarries, RoomFrontFits DEF PushFront, SlotsInv, IndInv
<1>2. CASE r.offset > 0
  <2> DEFINE b == r.buffer  off == r.offset  cap == r.capacity  s == Content  c == Fill(b, off - 1, <<v>>)
  <2>1. Keep(c, off - 1, size + 1, cap)
    BY <1>2 DEF PushFront
  <2>2. Lists(b, off, size, cap, s) /\ off > 0
    BY <1>1, <1>2, CarriesLists
  <2> HIDE DEF b, off, cap, s
  <2>3. Lists(c, off - 1, size + 1, cap, <<v>> \o s)
    BY <2>2, FillFront
  <2> HIDE DEF c
  <2>4. SlotsInv' /\ Content' = <<v>> \o s /\ status' = status
    BY <1>1, <2>1, <2>3, KeepLists
  <2>5. Abstract!PushFront(v)
    BY <1>1, <2>4 DEF Abstract!PushFront, Abstract!Becomes, Alive, s, Content, Listed
  <2> QED
    BY <2>4, <2>5 DEF DequeStep, Abstract!Next
<1>3. CASE ~(r.offset > 0)
  <2>1. Wild("push_front") /\ size = 0
    BY <1>1, <1>3 DEF PushFront, Fits, IndInv, Numbers
  <2> QED
    BY <1>1, <2>1, WildStep
<1> QED
  BY <1>2, <1>3

\* Elements constructed behind the window of relocated elements.
LEMMA FilledBack ==
  ASSUME IndInv, SlotsInv, Alive, NEW r, Carries(r), NEW t \in Seq(Value), NEW n \in Nat, n = size + Len(t),
         r.offset + n <= r.capacity, Keep(Fill(r.buffer, r.offset + size, t), r.offset, n, r.capacity)
  PROVE  SlotsInv' /\ Content' = Content \o t /\ status' = status
<1> DEFINE b == r.buffer  off == r.offset  cap == r.capacity  s == Content  c == Fill(b, off + size, t)
<1>1. Keep(c, off, n, cap) /\ Lists(b, off, size, cap, s) /\ TypeOK /\ Len(t) \in Nat /\ off + n <= cap
  BY CarriesLists DEF SlotsInv
<1> HIDE DEF b, off, cap, s
<1>2. off \in Nat /\ size \in Nat /\ off + size + Len(t) <= cap
  BY <1>1, HeldFacts DEF Lists
<1>3. Lists(c, off, size + Len(t), cap, s \o t)
  BY <1>1, <1>2, FillBack
<1>4. Lists(c, off, n, cap, s \o t)
  BY <1>3
<1> HIDE DEF c
<1> QED
  BY <1>1, <1>4, KeepLists DEF s

LEMMA PushBackStep == ASSUME IndInv, SlotsInv, NEW v \in Value, PushBack(v) PROVE SlotsInv' /\ DequeStep
<1> DEFINE r == RoomBack(1)
<1>1. Alive /\ HeldNow /\ Carries(r) /\ Fits(r) /\ (size > 0 => r.offset + size + 1 <= r.capacity) /\ size \in Nat
  BY RoomCarries, RoomBackFits DEF PushBack, SlotsInv, IndInv, Numbers
<1>2. CASE r.offset + size < r.capacity
  <2>1. Keep(Fill(r.buffer, r.offset + size, <<v>>), r.offset, size + 1, r.capacity)
    BY <1>2 DEF PushBack
  <2>2. <<v>> \in Seq(Value) /\ size + 1 \in Nat /\ size + 1 = size + Len(<<v>>) /\ r.offset + (size + 1) <= r.capacity
    BY <1>1, <1>2 DEF Fits
  <2>3. SlotsInv' /\ Content' = Content \o <<v>> /\ status' = status
    BY <1>1, <2>1, <2>2, FilledBack
  <2>4. Content \o <<v>> = Append(Content, v)
    BY <1>1, ContentLists, AppendIsConcat DEF Lists
  <2>5. Abstract!PushBack(v)
    BY <1>1, <2>3, <2>4 DEF Abstract!PushBack, Abstract!Becomes, Alive, Content, Listed
  <2> QED
    BY <2>3, <2>5 DEF DequeStep, Abstract!Next
<1>3. CASE ~(r.offset + size < r.capacity)
  <2>1. Wild("push_back") /\ size = 0
    BY <1>1, <1>3 DEF PushBack, Fits, IndInv, Numbers
  <2> QED
    BY <1>1, <2>1, WildStep
<1> QED
  BY <1>2, <1>3

LEMMA PopStep == ASSUME IndInv, SlotsInv, PopFront \/ PopBack PROVE SlotsInv' /\ DequeStep
<1>1. Alive /\ size > 0 /\ size \in Nat /\ offset \in Nat /\ TypeOK /\ Lists(buffer, offset, size, capacity, Content)
  BY ContentLists DEF PopFront, PopBack, SlotsInv, TypeOK
<1>2. Content \in Seq(Value) /\ Len(Content) = size /\ Content # <<>>
  BY <1>1, EmptySeq DEF Lists
<1>3. CASE PopFront
  <2> DEFINE low == offset + 1  n == size - 1  c == Destroy(buffer, offset, low)  s == SubSeq(Content, 1 + 1, Len(Content))
  <2>1. Keep(c, low, n, capacity)
    BY <1>3 DEF PopFront
  <2>2. low \in Nat /\ n \in Nat /\ low = offset + 1 /\ size = 1 + n
    BY <1>1
  <2> HIDE DEF low, n
  <2>3. Lists(c, low, n, capacity, s)
    BY <1>1, <2>2, DestroyFront
  <2> HIDE DEF c
  <2>4. s = Tail(Content)
    BY <1>2, TailIsSubSeq
  <2> HIDE DEF s
  <2>5. SlotsInv' /\ Content' = s /\ status' = status
    BY <1>1, <2>1, <2>3, KeepLists
  <2>6. Abstract!PopFront
    BY <1>1, <1>2, <2>4, <2>5 DEF Abstract!PopFront, Abstract!Becomes, Alive, Content, Listed
  <2> QED
    BY <2>5, <2>6 DEF DequeStep, Abstract!Next
<1>4. CASE PopBack
  <2> DEFINE n == size - 1  low == offset + size - 1  high == offset + size
             c == Destroy(buffer, low, high)  s == SubSeq(Content, 1, n)
  <2>1. Keep(c, offset, n, capacity)
    BY <1>4 DEF PopBack
  <2>2. n \in 0 .. size /\ low = offset + n /\ high = offset + size
    BY <1>1
  <2>3. s = SubSeq(Content, 1, Len(Content) - 1)
    BY <1>2
  <2> HIDE DEF low, high, n
  <2>4. Lists(c, offset, n, capacity, s)
    BY <1>1, <2>2, DestroyBack
  <2> HIDE DEF c, s
  <2>5. SlotsInv' /\ Content' = s /\ status' = status
    BY <1>1, <2>1, <2>4, KeepLists
  <2>6. Abstract!PopBack
    BY <1>1, <1>2, <2>3, <2>5 DEF Abstract!PopBack, Abstract!Becomes, Alive, Content, Listed
  <2> QED
    BY <2>5, <2>6 DEF DequeStep, Abstract!Next
<1> QED
  BY <1>3, <1>4

LEMMA ContentsSeq == ASSUME NEW s \in Contents PROVE s \in Seq(Value)
<1>1. PICK n \in 0 .. MaxSize : s \in [1 .. n -> Value]
  BY DEF Contents
<1> QED
  BY <1>1, Bounds

LEMMA EmptyContents == <<>> \in Contents
<1>1. 0 \in 0 .. MaxSize /\ <<>> \in [1 .. 0 -> Value]
  BY Bounds
<1> QED
  BY <1>1 DEF Contents

\* A call that replaces the elements by s.
LEMMA AssignedStep ==
  ASSUME Alive, TypeOK, NEW b, NEW off, NEW n, NEW cap, Keep(b, off, n, cap),
         NEW s \in Contents, Lists(b, off, n, cap, s)
  PROVE  SlotsInv' /\ DequeStep
<1>1. SlotsInv' /\ Content' = s /\ status' = status
  BY KeepLists
<1>2. Abstract!Assign(s) /\ s \in Abstract!Contents
  BY <1>1 DEF Abstract!Assign, Abstract!Becomes, Alive, Content, Listed, Contents, Abstract!Contents
<1> QED
  BY <1>1, <1>2 DEF DequeStep, Abstract!Next

LEMMA ClearStep == ASSUME IndInv, SlotsInv, Clear \/ MovedFrom PROVE SlotsInv' /\ DequeStep
<1>1. Alive /\ TypeOK /\ Held(buffer, offset, size, capacity) /\ capacity \in Nat
  BY DEF Clear, MovedFrom, SlotsInv, HeldNow, TypeOK
<1>2. CASE Clear
  <2>1. capacity \div 2 \in 0 .. capacity
    BY <1>1, Half
  <2>2. Lists(Destroy(buffer, offset, offset + size), capacity \div 2, 0, capacity, <<>>)
    BY <1>1, <2>1, DestroyAll
  <2>3. Keep(Destroy(buffer, offset, offset + size), capacity \div 2, 0, capacity)
    BY <1>2 DEF Clear
  <2> QED
    BY <1>1, <2>2, <2>3, EmptyContents, AssignedStep
<1>3. CASE MovedFrom
  <2>1. Keep(<<>>, 0, 0, 0)
    BY <1>3 DEF MovedFrom
  <2> QED
    BY <1>1, <2>1, EmptySlots, EmptyContents, AssignedStep
<1> QED
  BY <1>2, <1>3

\* The buffer an assignment constructs into holds nothing.
LEMMA EmptiedLists ==
  ASSUME HeldNow, NEW n \in Nat, NEW off \in 0 .. Larger(n, capacity)
  PROVE  Lists(Emptied(n), off, 0, Larger(n, capacity), <<>>)
<1>1. capacity \in Nat /\ Held(buffer, offset, size, capacity)
  BY DEF HeldNow, Held
<1>2. CASE n > capacity
  <2>1. Emptied(n) = Raw(n) /\ Larger(n, capacity) = n
    BY <1>1, <1>2 DEF Emptied, Larger
  <2>2. Raw(n) \in Slots(n) /\ \A i \in 0 .. n - 1 : Raw(n)[i] = Dead
    BY DEF Raw, Slots, Slot
  <2>3. Held(Raw(n), off, 0, n)
    BY <2>1, <2>2 DEF Held
  <2> QED
    BY <2>1, <2>3, EmptySeq DEF Lists
<1>3. CASE ~(n > capacity)
  <2>1. Emptied(n) = Destroy(buffer, offset, offset + size) /\ Larger(n, capacity) = capacity
    BY <1>1, <1>3 DEF Emptied, Larger
  <2> QED
    BY <1>1, <2>1, DestroyAll
<1> QED
  BY <1>2, <1>3

LEMMA AssignStep ==
  ASSUME IndInv, SlotsInv, NEW s \in Contents, Assign(s) \/ CopyAssign(s) PROVE SlotsInv' /\ DequeStep
<1> DEFINE n == Len(s)  cap == Larger(n, capacity)  mid == (cap - n) \div 2  e == Emptied(n)
<1>1. Alive /\ TypeOK /\ HeldNow /\ capacity \in Nat /\ s \in Seq(Value) /\ n \in Nat
  BY ContentsSeq, ContentsLength DEF Assign, CopyAssign, SlotsInv, TypeOK
<1>2. cap \in Nat /\ n <= cap
  BY <1>1 DEF Larger
<1>3. mid \in Nat /\ mid + n <= cap
  BY <1>1, <1>2, Half
<1>4. PICK off \in {mid, 0} : Keep(Fill(e, off, s), off, n, cap)
  BY DEF Assign, CopyAssign
<1>5. off \in 0 .. cap /\ off + n <= cap /\ off \in Nat
  BY <1>1, <1>2, <1>3, <1>4
<1>6. Lists(e, off, 0, cap, <<>>)
  BY <1>1, <1>5, EmptiedLists
<1> HIDE DEF e, cap
<1>7. Lists(Fill(e, off + 0, s), off, 0 + Len(s), cap, <<>> \o s)
  <2>1. off + 0 + Len(s) <= cap
    BY <1>5
  <2> QED
    BY <1>1, <1>6, <2>1, FillBack
<1>8. off + 0 = off /\ 0 + Len(s) = n /\ <<>> \o s = s
  BY <1>1, <1>5, ConcatEmptySeq
<1>9. Lists(Fill(e, off, s), off, n, cap, s)
  BY <1>7, <1>8
<1> HIDE DEF n
<1> QED
  BY <1>1, <1>4, <1>9, AssignedStep

LEMMA EndStep ==
  ASSUME IndInv, SlotsInv, Destruct \/ \E n \in Length : AssignFails(n) PROVE SlotsInv' /\ DequeStep
<1>1. PICK call \in {"destroyed", "assign"} :
        Alive /\ buffer' = <<>> /\ capacity' = 0 /\ status' = call /\ UNCHANGED <<offset, size>>
  BY DEF Destruct, AssignFails
<1>2. ~Alive' /\ Content' = <<>>
  BY <1>1 DEF Alive, Content
<1>3. SlotsInv'
  BY <1>1, <1>2, EmptySlots DEF SlotsInv, TypeOK, Slots, Slot
<1>4. Abstract!Lose(call)
  BY <1>1, <1>2 DEF Abstract!Lose, Alive, Content, Listed
<1> QED
  BY <1>3, <1>4 DEF DequeStep, Abstract!Next

\* The sequence a resize to a larger length leaves.
LEMMA ExtendedSeq ==
  ASSUME NEW s \in Seq(Value), NEW n \in Nat, n > Len(s), NEW v \in Value
  PROVE  LET t == [j \in 1 .. n - Len(s) |-> v] IN
         /\ t \in Seq(Value) /\ Len(t) = n - Len(s)
         /\ s \o t = [j \in 1 .. n |-> IF j <= Len(s) THEN s[j] ELSE v]
<1> DEFINE m == n - Len(s)  t == [j \in 1 .. m |-> v]
           u == [j \in 1 .. n |-> IF j <= Len(s) THEN s[j] ELSE v]
<1>1. m \in Nat /\ Len(s) \in Nat /\ Len(s) + m = n
  OBVIOUS
<1> HIDE DEF m
<1>2. t \in Seq(Value) /\ Len(t) = m /\ \A j \in 1 .. m : t[j] = v
  BY <1>1
<1>3. u \in Seq(Value) /\ Len(u) = n /\ \A j \in 1 .. n : u[j] = IF j <= Len(s) THEN s[j] ELSE v
  <2>1. \A j \in 1 .. n : j <= Len(s) => s[j] \in Value
    BY <1>1, ElementOfSeq
  <2> QED
    BY <2>1
<1> HIDE DEF t, u
<1>4. s \o t \in Seq(Value) /\ Len(s \o t) = Len(s) + Len(t)
      /\ \A j \in 1 .. Len(s) + Len(t) : (s \o t)[j] = IF j <= Len(s) THEN s[j] ELSE t[j - Len(s)]
  BY <1>2, ConcatProperties
<1>5. ASSUME NEW j \in 1 .. n PROVE (s \o t)[j] = u[j]
  <2>1. j \in 1 .. Len(s) + Len(t) /\ (~(j <= Len(s)) => j - Len(s) \in 1 .. m)
    BY <1>1, <1>2
  <2> QED
    BY <1>2, <1>3, <1>4, <2>1
<1>6. s \o t = u
  BY <1>1, <1>2, <1>3, <1>4, <1>5, SeqEqual
<1> QED
  BY <1>2, <1>6 DEF m, t, u

\* And to a smaller one.
LEMMA ShortenedSeq ==
  ASSUME NEW s \in Seq(Value), NEW n \in 0 .. Len(s), NEW v
  PROVE  SubSeq(s, 1, n) = [j \in 1 .. n |-> IF j <= Len(s) THEN s[j] ELSE v]
<1> DEFINE t == SubSeq(s, 1, n)  u == [j \in 1 .. n |-> IF j <= Len(s) THEN s[j] ELSE v]
<1>1. t \in Seq(Value) /\ Len(t) = n /\ \A j \in 1 .. n : t[j] = s[j]
  BY FirstOnes
<1>2. u \in Seq(Value) /\ Len(u) = n /\ \A j \in 1 .. n : u[j] = s[j]
  <2>1. \A j \in 1 .. n : j <= Len(s) /\ s[j] \in Value
    BY ElementOfSeq
  <2> QED
    BY <2>1
<1> HIDE DEF t, u
<1>3. t = u
  BY <1>1, <1>2, SeqEqual
<1> QED
  BY <1>3 DEF t, u

LEMMA ResizeStep ==
  ASSUME IndInv, SlotsInv, NEW n \in Length, NEW v \in Value, Resize(n, v) PROVE SlotsInv' /\ DequeStep
<1>1. Alive /\ HeldNow /\ TypeOK /\ n \in Nat /\ size \in Nat /\ capacity \in Nat /\ n # size
      /\ Lists(buffer, offset, size, capacity, Content)
  BY Bounds, ContentLists DEF Resize, SlotsInv, Length, TypeOK
<1>2. Content \in Seq(Value) /\ Len(Content) = size
  BY <1>1 DEF Lists
<1>3. ASSUME SlotsInv', Content' = [j \in 1 .. n |-> IF j <= Len(Content) THEN Content[j] ELSE v], status' = status
      PROVE  SlotsInv' /\ DequeStep
  <2>1. Abstract!Resize(n, v) /\ n \in 0 .. MaxSize
    BY <1>1, <1>3 DEF Abstract!Resize, Abstract!Becomes, Alive, Content, Listed, Length
  <2> QED
    BY <1>3, <2>1 DEF DequeStep, Abstract!Next
<1>4. CASE n < size
  <2> DEFINE low == offset + n  high == offset + size  c == Destroy(buffer, low, high)  s == SubSeq(Content, 1, n)
  <2>1. Keep(c, offset, n, capacity)
    BY <1>1, <1>4 DEF Resize
  <2>2. n \in 0 .. size /\ low = offset + n /\ high = offset + size
    BY <1>1, <1>4
  <2>3. s = [j \in 1 .. n |-> IF j <= Len(Content) THEN Content[j] ELSE v]
    BY <1>2, <2>2, ShortenedSeq
  <2> HIDE DEF low, high
  <2>4. Lists(c, offset, n, capacity, s)
    BY <1>1, <2>2, DestroyBack
  <2> HIDE DEF c, s
  <2>5. SlotsInv' /\ Content' = s /\ status' = status
    BY <1>1, <2>1, <2>4, KeepLists
  <2> QED
    BY <1>3, <2>3, <2>5
<1>5. CASE n > size
  <2> DEFINE r == IF n > capacity THEN Grow(n) ELSE RoomBack(n - size)
             t == [j \in 1 .. n - size |-> v]
  <2>1. Carries(r)
    <3>1. n >= size /\ n - size \in Nat
      BY <1>1, <1>5
    <3> QED
      BY <1>1, <3>1, GrowCarries, RoomCarries
  <2>2. CASE r.offset + n <= r.capacity
    <3>1. Keep(Fill(r.buffer, r.offset + size, t), r.offset, n, r.capacity)
      BY <1>1, <1>5, <2>2 DEF Resize
    <3>2. t \in Seq(Value) /\ Len(t) = n - size
          /\ Content \o t = [j \in 1 .. n |-> IF j <= Len(Content) THEN Content[j] ELSE v]
      BY <1>1, <1>2, <1>5, ExtendedSeq, ZenonT(30)
    <3> HIDE DEF r, t
    <3>3. n = size + Len(t)
      BY <1>1, <3>2
    <3>4. SlotsInv' /\ Content' = Content \o t /\ status' = status
      BY <1>1, <2>1, <2>2, <3>1, <3>2, <3>3, FilledBack
    <3> QED
      BY <1>3, <3>2, <3>4
  <2>3. CASE ~(r.offset + n <= r.capacity)
    <3>1. Wild("resize")
      BY <1>1, <1>5, <2>3 DEF Resize
    <3> QED
      BY <1>1, <3>1, WildStep
  <2> QED
    BY <2>2, <2>3
<1> QED
  BY <1>1, <1>4, <1>5

LEMMA EraseStep ==
  ASSUME IndInv, SlotsInv, NEW first \in Length, NEW last \in Length, Erase(first, last)
  PROVE  SlotsInv' /\ DequeStep
<1>1. Alive /\ TypeOK /\ first \in Nat /\ last \in Nat /\ first < last /\ last <= size
      /\ Lists(buffer, offset, size, capacity, Content)
  BY Bounds, ContentLists DEF Erase, SlotsInv, Length
<1> DEFINE c == MoveForward(Destroy(buffer, offset + first, offset + last), offset + first, offset + last, size - last)
           s == SubSeq(Content, 1, first) \o SubSeq(Content, last + 1, Len(Content))
           n == size - (last - first)
<1>2. Keep(c, offset, n, capacity)
  BY DEF Erase
<1>3. Lists(c, offset, n, capacity, s)
  BY <1>1, EraseMiddle
<1> HIDE DEF c, n, s
<1>4. SlotsInv' /\ Content' = s /\ status' = status
  BY <1>1, <1>2, <1>3, KeepLists
<1>5. Len(Content) = size
  BY <1>1 DEF Lists
<1>6. Abstract!Erase(first, last)
  <2>1. first <= last /\ last <= Len(Content)
    BY <1>1, <1>5
  <2>2. /\ status = "alive"
        /\ Content' = SubSeq(Content, 1, first) \o SubSeq(Content, last + 1, Len(Content))
        /\ UNCHANGED status
    BY <1>1, <1>4 DEF Alive, s
  <2> QED
    BY <2>1, <2>2 DEF Abstract!Erase, Abstract!Becomes, Content, Listed
<1>7. first \in 0 .. MaxSize /\ last \in 0 .. MaxSize
  BY DEF Length
<1> QED
  BY <1>4, <1>6, <1>7 DEF DequeStep, Abstract!Next

LEMMA InsertStep ==
  ASSUME IndInv, SlotsInv, NEW index \in Length, NEW v \in Value, Insert(index, v)
  PROVE  SlotsInv' /\ DequeStep
<1>1. Alive /\ HeldNow /\ TypeOK /\ index \in Nat /\ index <= size /\ size \in Nat
  BY Bounds, Half DEF Insert, InsertFront, InsertBack, SlotsInv, Length, TypeOK
<1> DEFINE s == Content  u == SubSeq(s, 1, index) \o <<v>> \o SubSeq(s, index + 1, Len(s))
<1>2. ASSUME SlotsInv', Content' = u, status' = status PROVE SlotsInv' /\ DequeStep
  <2>1. Len(Content) = size
    BY <1>1, ContentLists DEF Lists
  <2>2. Abstract!Insert(index, v) /\ index \in 0 .. MaxSize
    BY <1>1, <1>2, <2>1 DEF Abstract!Insert, Abstract!Becomes, Alive, Content, Listed, Length
  <2> QED
    BY <1>2, <2>2 DEF DequeStep, Abstract!Next
<1>3. CASE InsertFront(index, v)
  <2> DEFINE r == RoomFront(1)  b == r.buffer  off == r.offset  cap == r.capacity
             c == Fill(MoveForward(b, off - 1, off, index), off - 1 + index, <<v>>)
  <2>1. Carries(r) /\ Fits(r) /\ (size > 0 => off >= 1)
    BY <1>1, RoomCarries, RoomFrontFits DEF IndInv
  <2>2. CASE off > 0
    <3>1. Keep(c, off - 1, size + 1, cap)
      BY <1>3, <2>2 DEF InsertFront
    <3>2. Lists(b, off, size, cap, s)
      BY <1>1, <2>1, CarriesLists
    <3> HIDE DEF r, b, off, cap, s
    <3>3. Lists(c, off - 1, size + 1, cap, u)
      BY <1>1, <2>2, <3>2, InsertLeft
    <3> HIDE DEF c, u
    <3>4. SlotsInv' /\ Content' = u /\ status' = status
      BY <1>1, <3>1, <3>3, KeepLists
    <3> QED
      BY <1>2, <3>4
  <2>3. CASE ~(off > 0)
    <3>1. Wild("insert") /\ size = 0
      BY <1>3, <2>1, <2>3 DEF InsertFront, Fits, IndInv, Numbers
    <3> QED
      BY <1>1, <3>1, WildStep
  <2> QED
    BY <2>2, <2>3
<1>4. CASE InsertBack(index, v)
  <2> DEFINE r == RoomBack(1)  b == r.buffer  off == r.offset  cap == r.capacity
             c == Fill(MoveBackward(b, off + index + 1, off + index, size - index), off + index, <<v>>)
  <2>1. Carries(r) /\ Fits(r) /\ (size > 0 => off + size + 1 <= cap)
    BY <1>1, RoomCarries, RoomBackFits DEF IndInv
  <2>2. CASE off + size < cap
    <3>1. Keep(c, off, size + 1, cap)
      BY <1>4, <2>2 DEF InsertBack
    <3>2. Lists(b, off, size, cap, s)
      BY <1>1, <2>1, CarriesLists
    <3> HIDE DEF r, b, off, cap, s
    <3>3. Lists(c, off, size + 1, cap, u)
      BY <1>1, <2>2, <3>2, InsertRight
    <3> HIDE DEF c, u
    <3>4. SlotsInv' /\ Content' = u /\ status' = status
      BY <1>1, <3>1, <3>3, KeepLists
    <3> QED
      BY <1>2, <3>4
  <2>3. CASE ~(off + size < cap)
    <3>1. Wild("insert") /\ size = 0
      BY <1>4, <2>1, <2>3 DEF InsertBack, Fits, IndInv, Numbers
    <3> QED
      BY <1>1, <3>1, WildStep
  <2> QED
    BY <2>2, <2>3
<1> QED
  BY <1>3, <1>4 DEF Insert

LEMMA NextStep == ASSUME IndInv, SlotsInv, [Next]_vars PROVE SlotsInv' /\ DequeStep
<1>1. CASE Next
  BY <1>1, ReserveStep, ShrinkStep, PushFrontStep, PushBackStep, PopStep, ClearStep, AssignStep, EndStep,
     ResizeStep, EraseStep, InsertStep DEF Next
<1>2. CASE UNCHANGED vars
  <2>1. SlotsInv'
    BY <1>2 DEF vars, SlotsInv, TypeOK, Alive, HeldNow
  <2>2. UNCHANGED Abstract!dequeVars
    BY <1>2 DEF vars, Abstract!dequeVars, Alive
  <2> QED
    BY <2>1, <2>2 DEF DequeStep
<1> QED
  BY <1>1, <1>2

LEMMA InitSlots == ASSUME Init PROVE SlotsInv /\ Abstract!Init
<1>1. PICK s \in Contents : /\ buffer = [i \in 0 .. Len(s) - 1 |-> s[i + 1]] /\ offset = 0
                            /\ size = Len(s) /\ capacity = Len(s) /\ status = "alive"
  BY DEF Init
<1>2. s \in Seq(Value) /\ Len(s) \in Nat /\ \A j \in 1 .. Len(s) : s[j] \in Value
  BY ContentsSeq, ElementOfSeq
<1>3. \A i \in 0 .. Len(s) - 1 : buffer[i] = s[i + 1] /\ i + 1 \in 1 .. Len(s)
  BY <1>1, <1>2
<1>4. buffer \in Slots(Len(s))
  BY <1>1, <1>2, <1>3 DEF Slots, Slot
<1>5. Held(buffer, offset, size, capacity)
  BY <1>1, <1>2, <1>3, <1>4, DeadNotValue DEF Held
<1>6. ASSUME NEW j \in 1 .. Len(s) PROVE buffer[offset + j - 1] = s[j]
  <2>1. j - 1 \in 0 .. Len(s) - 1 /\ 0 + j - 1 = j - 1 /\ j - 1 + 1 = j
    BY <1>2
  <2> QED
    BY <1>1, <1>3, <2>1
<1>7. Lists(buffer, offset, size, capacity, s)
  BY <1>1, <1>2, <1>5, <1>6 DEF Lists
<1>8. Content = s /\ Alive
  BY <1>1, <1>7, ListsUnique DEF Content, Alive
<1>9. TypeOK
  BY <1>1, <1>2, <1>4 DEF TypeOK, Slots, Slot
<1>10. Abstract!Init
  BY <1>1, <1>8 DEF Abstract!Init, Abstract!Contents, Contents, Content, Listed
<1> QED
  BY <1>5, <1>8, <1>9, <1>10 DEF SlotsInv, HeldNow

-----------------------------------------------------------------------------
\* In a live devectra the slots of the window hold elements and the others none, whatever moved them.
THEOREM SlotsInvariance == Spec => [](IndInv /\ SlotsInv)
<1>1. Init => IndInv /\ SlotsInv
  BY InitInv, InitSlots
<1>2. IndInv /\ SlotsInv /\ [Next]_vars => (IndInv /\ SlotsInv)'
  BY NextInv, NextStep
<1> QED
  BY <1>1, <1>2, PTL DEF Spec

\* The fields keep their types; the buffer always has capacity slots.
THEOREM TypeCorrect == Spec => []TypeOK
<1>1. SlotsInv => TypeOK
  BY DEF SlotsInv
<1> QED
  BY <1>1, SlotsInvariance, PTL

\* Shifts, growth, overlapping moves and assignments leak no element of the buffer, destroy none twice
\* and construct over none: the constructed slots are exactly the window.
THEOREM WindowAlwaysLive == Spec => []WindowLive
<1>1. ASSUME SlotsInv PROVE WindowLive
  <2> SUFFICES ASSUME Alive PROVE {i \in DOMAIN buffer : buffer[i] # Dead} = offset .. offset + size - 1
    BY DEF WindowLive
  <2>1. Held(buffer, offset, size, capacity)
    BY <1>1 DEF SlotsInv, HeldNow
  <2>2. DOMAIN buffer = 0 .. capacity - 1
    BY <2>1, HeldFacts DEF Slots
  <2>3. \A i : i \in 0 .. capacity - 1 /\ buffer[i] # Dead <=> i \in offset .. offset + size - 1
    BY <2>1, HeldFacts
  <2> QED
    BY <2>2, <2>3
<1> QED
  BY <1>1, SlotsInvariance, PTL

\* Every call of a devectra, for every capacity, size and sizing constant, does to its elements what the
\* call of a deque does to a sequence.
THEOREM DevectraImplementsDeque == Spec => ImplementsDeque
<1>1. Init => Abstract!Init
  BY InitSlots
<1>2. IndInv /\ SlotsInv /\ [Next]_vars => [Abstract!Next]_Abstract!dequeVars
  BY NextStep DEF DequeStep
<1> QED
  BY <1>1, <1>2, SlotsInvariance, PTL DEF Spec, ImplementsDeque, Abstract!DequeSpec
=============================================================================
