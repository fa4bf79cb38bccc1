------------------------------- MODULE Vector -------------------------------
(***************************************************************************)
(* What small_vectra, static_vectra and boolean_vector promise: each       *)
(* object is a sequence, and each call does to it what its name says.      *)
(* Positions count from 0.                                                 *)
(***************************************************************************)
EXTENDS Integers, Sequences

CONSTANTS Obj, Value, Given, Turn

VARIABLES
  content,  \* [Obj -> Seq(Value)]
  usable    \* no call has left an object torn

Becomes(o, s) == content' = [content EXCEPT ![o] = s]
Copies(n, x)  == [j \in 1 .. n |-> x]

\* Elements first .. last - 1 give way to t.
Splice(o, first, last, t) ==
  /\ first <= last /\ last <= Len(content[o])
  /\ Becomes(o, SubSeq(content[o], 1, first) \o t
                  \o SubSeq(content[o], last + 1, Len(content[o])))

Resize(o, n, x) ==
  Becomes(o, [j \in 1 .. n |-> IF j <= Len(content[o]) THEN content[o][j] ELSE x])

\* The elements other than x stay, in their order: f is where each of them was.
Remove(o, x) ==
  LET s == content[o]  t == content'[o] IN
  /\ Becomes(o, t)
  /\ \E f \in [DOMAIN t -> DOMAIN s] :
       /\ \A j, k \in DOMAIN t : j < k => f[j] < f[k]
       /\ {f[k] : k \in DOMAIN t} = {j \in DOMAIN s : s[j] # x}
       /\ \A k \in DOMAIN t : t[k] = s[f[k]]

Flip(o)      == Becomes(o, [j \in DOMAIN content[o] |-> Turn[content[o][j]]])

Assign(o, s) == Becomes(o, s)
Copy(o, p)   == Becomes(o, content[p])
Move(o, p)   == o # p /\ content' = [content EXCEPT ![o] = content[p], ![p] = <<>>]
Swap(o, p)   == content' = [content EXCEPT ![o] = content[p], ![p] = content[o]]

\* The arguments are bound by how the length of the object changes.
Call(o) ==
  LET old == Len(content[o])  new == Len(content'[o]) IN
  \/ new > old /\ \E i \in 0 .. old, x \in Value : Splice(o, i, i, Copies(new - old, x))
  \/ new < old /\ \E i \in 0 .. new : Splice(o, i, i + old - new, <<>>)
  \/ \E x \in Value : Assign(o, Copies(new, x)) \/ Resize(o, new, x)
  \/ \E s \in Given : Assign(o, s) \/ \E i \in 0 .. old : Splice(o, i, i, s)
  \/ \E x \in Value : Remove(o, x)
  \/ Flip(o)
  \/ \E p \in Obj : Copy(o, p) \/ Move(o, p) \/ Swap(o, p)

Init == content \in [Obj -> {<<>>} \cup Given] /\ usable = TRUE
Next ==
  \/ usable /\ UNCHANGED usable /\ \E o \in Obj : Call(o)
  \/ usable /\ ~usable'
VectorSpec == Init /\ [][Next]_<<content, usable>>
=============================================================================
