-------------------------------- MODULE Bits --------------------------------
(***************************************************************************)
(* What bitmap and static_bitmap promise: each object is a sequence of     *)
(* bits, counted from 0 by the calls.                                      *)
(***************************************************************************)
EXTENDS Integers, Sequences

CONSTANTS
  Obj,   \* the objects
  Query  \* the lists of positions asked for

VARIABLES
  content,  \* [Obj -> Seq(BOOLEAN)]
  usable    \* FALSE once a call has left bits behind that are not the object's

bitVars == <<content, usable>>

Becomes(o, s) == content' = [content EXCEPT ![o] = s]
Size(o)       == Len(content[o])
Bit(o, j)     == j <= Size(o) /\ content[o][j]

\* resize: new bits are zero.
Resize(o, n)  == Becomes(o, [j \in 1 .. n |-> Bit(o, j)])
Zeros(o, n)   == Becomes(o, [j \in 1 .. n |-> FALSE])
Fill(o, x)    == Becomes(o, [j \in 1 .. Size(o) |-> x])
Put(o, j, x)  == Becomes(o, [content[o] EXCEPT ![j] = x])
Copy(o, p)    == Becomes(o, content[p])
Move(o, p)    == o # p /\ content' = [content EXCEPT ![o] = content[p], ![p] = <<>>]

\* A shorter other counts as zero beyond its end.
And(o, p)    == Becomes(o, [j \in 1 .. Size(o) |-> Bit(o, j) /\ Bit(p, j)])
Or(o, p)     == Becomes(o, [j \in 1 .. Size(o) |-> Bit(o, j) \/ Bit(p, j)])
Xor(o, p)    == Becomes(o, [j \in 1 .. Size(o) |-> Bit(o, j) # Bit(p, j)])
AndNot(o, p) == Becomes(o, [j \in 1 .. Size(o) |-> Bit(o, j) /\ ~Bit(p, j)])

\* in: the object takes the answers for a list of positions of another.
Answer(o, p, ids, n) ==
  Becomes(o, [j \in 1 .. n |-> j <= Len(ids) /\ Bit(p, ids[j] + 1)])

Call(o) ==
  \/ Resize(o, Len(content'[o])) \/ Zeros(o, Len(content'[o]))
  \/ \E x \in BOOLEAN : Fill(o, x) \/ \E j \in 1 .. Size(o) : Put(o, j, x)
  \/ \E p \in Obj : \/ Copy(o, p) \/ Move(o, p) \/ And(o, p) \/ Or(o, p) \/ Xor(o, p)
                    \/ AndNot(o, p)
                    \/ \E ids \in Query : Answer(o, p, ids, Len(ids)) \/ Answer(o, p, ids, Size(o))

Init == content \in [Obj -> Seq(BOOLEAN)] /\ usable = TRUE

\* Nothing is said once bits were left behind.
Next == (usable /\ usable' /\ \E o \in Obj : Call(o)) \/ ~usable'

BitsSpec == Init /\ [][Next]_bitVars
=============================================================================
