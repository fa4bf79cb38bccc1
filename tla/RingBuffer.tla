----------------------------- MODULE RingBuffer -----------------------------
(***************************************************************************)
(* ring_buffer.hpp: N slots used circularly.  The elements are the size    *)
(* slots from head on, wrapping at the end; the oldest is at head.  A slot *)
(* is Dead, or holds an element that was constructed and not destroyed.    *)
(* Several buffers, for the operations that take another one.              *)
(*                                                                         *)
(* emplace_back on a full buffer destroys the oldest element before it     *)
(* constructs the new one: if the arguments refer to that element, or if   *)
(* the constructor throws, the buffer is left with a destroyed element     *)
(* inside its window (torn), and the model stops using it.                 *)
(***************************************************************************)
EXTENDS Integers

CONSTANTS
  Ring,   \* the buffers
  Value,  \* the element values
  Dead,   \* a slot with no element
  None,   \* std::nullopt
  N       \* capacity of each buffer

ASSUME CapacityPositive == N \in Nat \ {0}  \* static_assert(N > 0)
ASSUME DeadNotValue == Dead \notin Value

VARIABLES
  buffer,  \* [Ring -> [0 .. N - 1 -> Value or Dead]]: _storage
  head,    \* [Ring -> index of the oldest element]: _head
  size,    \* [Ring -> number of elements]: _size
  torn,    \* [Ring -> BOOLEAN]: an emplace_back destroyed and did not construct
  popped   \* what the last try_pop_front returned

vars == <<buffer, head, size, torn, popped>>

\* The index type does not overflow: head + size < 2 * N is far below 2^64.
Wrap(i) == i % N

Slot(r, i) == Wrap(head[r] + i)
TailIndex(r) == Slot(r, size[r])
Element(r, i) == buffer[r][Slot(r, i)]
Window(r)  == {Slot(r, i) : i \in 0 .. size[r] - 1}
Empty      == [i \in 0 .. N - 1 |-> Dead]

\* A cleared buffer into which the elements of r have been pushed one by one:
\* they start at slot 0, wherever they start in r.
Packed(r) == [i \in 0 .. N - 1 |-> IF i < size[r] THEN Element(r, i) ELSE Dead]

Init ==
  /\ buffer = [r \in Ring |-> Empty]
  /\ head = [r \in Ring |-> 0]
  /\ size = [r \in Ring |-> 0]
  /\ torn = [r \in Ring |-> FALSE]
  /\ popped = None

\* The new state of r alone.
Become(r, b, h, n) ==
  /\ buffer' = [buffer EXCEPT ![r] = b]
  /\ head' = [head EXCEPT ![r] = h]
  /\ size' = [size EXCEPT ![r] = n]

-----------------------------------------------------------------------------
(* Pushing.  push_back and emplace_back are AppendNew or OverwriteOldest;   *)
(* try_push_back is AppendNew, and changes nothing when the buffer is full. *)

\* Room for one more: construct at the tail.
AppendNew(r, v) ==
  /\ ~torn[r] /\ size[r] # N
  /\ Become(r, [buffer[r] EXCEPT ![TailIndex(r)] = v], head[r], size[r] + 1)
  /\ UNCHANGED <<torn, popped>>

\* mutant: the oldest element is overwritten and stays the oldest
OverwriteInPlace(r, v) ==
  /\ ~torn[r] /\ size[r] = N
  /\ Become(r, [buffer[r] EXCEPT ![head[r]] = v], head[r], size[r])
  /\ UNCHANGED <<torn, popped>>

\* Full: assign over the oldest element, or destroy it and construct in its place.
OverwriteOldest(r, v) ==
  /\ ~torn[r] /\ size[r] = N
  /\ Become(r, [buffer[r] EXCEPT ![head[r]] = v], Wrap(head[r] + 1), size[r])
  /\ UNCHANGED <<torn, popped>>

\* emplace_back on a full buffer from its own oldest element, or whose constructor
\* throws: the slot at head is destroyed, head and size are as before.
EmplaceTears(r) ==
  /\ ~torn[r] /\ size[r] = N
  /\ buffer' = [buffer EXCEPT ![r][head[r]] = Dead]
  /\ torn' = [torn EXCEPT ![r] = TRUE]
  /\ UNCHANGED <<head, size, popped>>

-----------------------------------------------------------------------------
(* Popping *)

DropFront(r) ==
  Become(r, [buffer[r] EXCEPT ![head[r]] = Dead], Wrap(head[r] + 1), size[r] - 1)

\* Mutant: the destructor of the oldest element is not called.
PopFrontKeeps(r) ==
  /\ ~torn[r] /\ size[r] > 0
  /\ Become(r, buffer[r], Wrap(head[r] + 1), size[r] - 1)
  /\ UNCHANGED <<torn, popped>>

PopFront(r) ==
  /\ ~torn[r] /\ size[r] > 0
  /\ DropFront(r)
  /\ UNCHANGED <<torn, popped>>

PopBack(r) ==
  /\ ~torn[r] /\ size[r] > 0
  /\ Become(r, [buffer[r] EXCEPT ![Slot(r, size[r] - 1)] = Dead], head[r], size[r] - 1)
  /\ UNCHANGED <<torn, popped>>

TryPopFront(r) ==
  /\ ~torn[r]
  /\ \/ size[r] = 0 /\ popped' = None /\ UNCHANGED <<buffer, head, size>>
     \/ size[r] > 0 /\ popped' = buffer[r][head[r]] /\ DropFront(r)
  /\ UNCHANGED torn

-----------------------------------------------------------------------------
(* Whole buffers.  clear is also the destructor; the copy and move          *)
(* constructors are the assignments to a buffer that was just cleared.      *)

Clear(r) ==
  /\ ~torn[r]
  /\ Become(r, [i \in 0 .. N - 1 |-> IF i \in Window(r) THEN Dead ELSE buffer[r][i]], 0, 0)
  /\ UNCHANGED <<torn, popped>>

\* Copy assignment: clear, then push_back each element of s.
CopyAssign(r, s) ==
  /\ r # s /\ ~torn[r] /\ ~torn[s]
  /\ Become(r, Packed(s), 0, size[s])
  /\ UNCHANGED <<torn, popped>>

\* Move assignment: the same, and s is cleared.
MoveAssign(r, s) ==
  /\ r # s /\ ~torn[r] /\ ~torn[s]
  /\ buffer' = [buffer EXCEPT ![r] = Packed(s), ![s] = Empty]
  /\ head' = [head EXCEPT ![r] = 0, ![s] = 0]
  /\ size' = [size EXCEPT ![r] = size[s], ![s] = 0]
  /\ UNCHANGED <<torn, popped>>

\* swap: three moves through a temporary; with itself, two.
Swap(r, s) ==
  /\ ~torn[r] /\ ~torn[s]
  /\ buffer' = [buffer EXCEPT ![r] = Packed(s), ![s] = Packed(r)]
  /\ head' = [head EXCEPT ![r] = 0, ![s] = 0]
  /\ size' = [size EXCEPT ![r] = size[s], ![s] = size[r]]
  /\ UNCHANGED <<torn, popped>>

Next ==
  \E r \in Ring :
    \/ \E v \in Value : AppendNew(r, v) \/ OverwriteOldest(r, v)
    \/ EmplaceTears(r) \/ PopFront(r) \/ PopBack(r) \/ TryPopFront(r) \/ Clear(r)
    \/ \E s \in Ring : CopyAssign(r, s) \/ MoveAssign(r, s) \/ Swap(r, s)

Spec == Init /\ [][Next]_vars

-----------------------------------------------------------------------------
(* Properties *)

TypeOK ==
  /\ buffer \in [Ring -> [0 .. N - 1 -> Value \cup {Dead}]]
  /\ head \in [Ring -> 0 .. N - 1]
  /\ size \in [Ring -> 0 .. N]
  /\ torn \in [Ring -> BOOLEAN]
  /\ popped \in Value \cup {None}

\* The slots that hold an element are the circular window of size slots from head:
\* wrapping, overwriting and packing destroy nothing twice and leak nothing.
WindowLive ==
  \A r \in Ring : ~torn[r] => {i \in 0 .. N - 1 : buffer[r][i] # Dead} = Window(r)

\* "FIFO semantics ... When full, push_back overwrites the oldest element"
\* (ring_buffer.hpp:53-54): read from head on, the window is a queue of the last
\* elements pushed, through copies, moves and swaps that renumber the slots.
Content == [r \in Ring |-> IF torn[r] THEN <<>> ELSE [j \in 1 .. size[r] |-> Element(r, j - 1)]]
Usable  == [r \in Ring |-> ~torn[r]]
Abstract == INSTANCE BoundedQueue WITH Queue <- Ring, content <- Content, usable <- Usable
ImplementsQueue == Abstract!QueueSpec
=============================================================================
