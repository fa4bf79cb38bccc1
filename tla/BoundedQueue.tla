---------------------------- MODULE BoundedQueue ----------------------------
(***************************************************************************)
(* What ring_buffer promises: a queue of at most N elements; an element    *)
(* pushed on a full queue takes the place of the oldest one.  Several      *)
(* queues, because their elements can be copied, moved and swapped.        *)
(***************************************************************************)
EXTENDS Naturals, Sequences

CONSTANTS
  Queue,  \* the queues
  Value,  \* the element values
  None,   \* what try_pop_front returns when there is no element
  N       \* the capacity of each queue

VARIABLES
  content,  \* [Queue -> sequence of values], the oldest first
  usable,   \* [Queue -> BOOLEAN]
  popped    \* the result of the last try_pop_front

queueVars == <<content, usable, popped>>

Init ==
  /\ content = [q \in Queue |-> <<>>]
  /\ usable = [q \in Queue |-> TRUE]
  /\ popped = None

Become(q, s) ==
  /\ usable[q]
  /\ content' = [content EXCEPT ![q] = s]
  /\ UNCHANGED <<usable, popped>>

Full(q) == Len(content[q]) = N

\* push_back, emplace_back: the newest element, in the oldest one's place if need be.
\* try_push_back is the same on a queue that is not full, and nothing on a full one.
Push(q, v) == Become(q, Append(IF Full(q) THEN Tail(content[q]) ELSE content[q], v))

PopFront(q) == content[q] # <<>> /\ Become(q, Tail(content[q]))
PopBack(q)  == content[q] # <<>> /\ Become(q, SubSeq(content[q], 1, Len(content[q]) - 1))

\* try_pop_front: the oldest element is returned, exactly once.
TryPopFront(q) ==
  /\ usable[q]
  /\ popped' = IF content[q] = <<>> THEN None ELSE Head(content[q])
  /\ content' = [content EXCEPT ![q] = IF @ = <<>> THEN @ ELSE Tail(@)]
  /\ UNCHANGED usable

Clear(q) == Become(q, <<>>)

Copy(q, p) == usable[p] /\ Become(q, content[p])

Move(q, p) ==
  /\ q # p /\ usable[q] /\ usable[p]
  /\ content' = [content EXCEPT ![q] = content[p], ![p] = <<>>]
  /\ UNCHANGED <<usable, popped>>

Swap(q, p) ==
  /\ usable[q] /\ usable[p]
  /\ content' = [content EXCEPT ![q] = content[p], ![p] = content[q]]
  /\ UNCHANGED <<usable, popped>>

\* A queue is lost only while it is full.
Lose(q) ==
  /\ usable[q] /\ Full(q)
  /\ content' = [content EXCEPT ![q] = <<>>]
  /\ usable' = [usable EXCEPT ![q] = FALSE]
  /\ UNCHANGED popped

Next ==
  \E q \in Queue :
    \/ \E v \in Value : Push(q, v)
    \/ PopFront(q) \/ PopBack(q) \/ TryPopFront(q) \/ Clear(q) \/ Lose(q)
    \/ \E p \in Queue : Copy(q, p) \/ Move(q, p) \/ Swap(q, p)

QueueSpec == Init /\ [][Next]_queueVars
=============================================================================
