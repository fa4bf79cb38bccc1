------------------------------- MODULE Deque -------------------------------
(***************************************************************************)
(* What devectra promises: a sequence that grows and shrinks at both ends, *)
(* with random access, whatever buffer it lives in.  status says whether   *)
(* the object is usable or which call ended it: the destructor, or one of  *)
(* the calls the code does not always make room for (see Lose).            *)
(***************************************************************************)
EXTENDS Naturals, Sequences

CONSTANTS
  Value,   \* the element values
  MaxSize  \* bound: longer sequences are not explored

VARIABLES content, status

dequeVars == <<content, status>>

Contents == UNION {[1 .. n -> Value] : n \in 0 .. MaxSize}

Init == content \in Contents /\ status = "alive"

Becomes(s) == status = "alive" /\ content' = s /\ UNCHANGED status

PushFront(v) == Becomes(<<v>> \o content)
PushBack(v)  == Becomes(Append(content, v))
PopFront     == content # <<>> /\ Becomes(Tail(content))
PopBack      == content # <<>> /\ Becomes(SubSeq(content, 1, Len(content) - 1))

\* assign, clear, and copy and move assignment replace the elements.
Assign(s) == Becomes(s)

Resize(n, v) == Becomes([j \in 1 .. n |-> IF j <= Len(content) THEN content[j] ELSE v])

\* Elements first .. last - 1, counted from 0 as iterators do, are removed.
Erase(first, last) ==
  /\ first <= last /\ last <= Len(content)
  /\ Becomes(SubSeq(content, 1, first) \o SubSeq(content, last + 1, Len(content)))

Insert(index, v) ==
  /\ index <= Len(content)
  /\ Becomes(SubSeq(content, 1, index) \o <<v>> \o SubSeq(content, index + 1, Len(content)))

\* A push or an insert can only be the end of an empty deque.
Lose(call) ==
  /\ status = "alive" /\ status' = call /\ content' = <<>>
  /\ call \in {"push_front", "push_back", "insert"} => content = <<>>

Next ==
  \/ \E v \in Value : PushFront(v) \/ PushBack(v)
  \/ PopFront \/ PopBack
  \/ \E s \in Contents : Assign(s)
  \/ \E n \in 0 .. MaxSize, v \in Value : Resize(n, v)
  \/ \E first, last \in 0 .. MaxSize : Erase(first, last)
  \/ \E index \in 0 .. MaxSize, v \in Value : Insert(index, v)
  \/ \E call \in {"push_front", "push_back", "insert", "resize", "assign", "destroyed"} : Lose(call)

DequeSpec == Init /\ [][Next]_dequeVars
=============================================================================
