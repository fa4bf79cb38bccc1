--------------------------- MODULE BooleanVector ---------------------------
(***************************************************************************)
(* boolean_vector.hpp: a vector of bools, one byte each, the first Inline  *)
(* of them inside the object.  Bytes are copied, moved and set in bulk and *)
(* no byte is ever destroyed: what lies beyond the size is Stale, as in a   *)
(* new buffer, whatever it once was.  count adds the bytes in lanes that   *)
(* wrap at LaneMod and folds them every FoldEvery steps.                   *)
(***************************************************************************)
EXTENDS Integers, Sequences, SequencesExt

CONSTANTS
  Obj,          \* the objects
  Inline,       \* kSBOCapacity
  Stale,        \* a byte that is no element's
  Given,        \* the lists that objects are built from, assigned and given
  Step,         \* kStep, the bytes of a vector register
  LaneMod,      \* 2^8, what a lane counts to
  FoldEvery,    \* kFoldEvery
  MaxCapacity,  \* bound on the buffers
  MaxTotal      \* bound on the sizes of two objects together

VARIABLE flags  \* per object [inner, heap, size]; heap is empty while the bytes are inline

NewBytes(n) == [i \in 0 .. n - 1 |-> Stale]
New         == [inner |-> NewBytes(Inline), heap |-> <<>>, size |-> 0]

OnHeap(v)   == DOMAIN v.heap # {}
Data(v)     == IF OnHeap(v) THEN v.heap ELSE v.inner
Capacity(v) == Cardinality(DOMAIN Data(v))
Elements(v) == [j \in 1 .. v.size |-> Data(v)[j - 1]]
With(v, b, n) == IF OnHeap(v) THEN [v EXCEPT !.heap = b, !.size = n]
                              ELSE [v EXCEPT !.inner = b, !.size = n]

\* memset, memmove within b, memcpy to the front of b.
Filled(b, first, n, x) == [i \in DOMAIN b |-> IF first <= i /\ i < first + n THEN x ELSE b[i]]
Shifted(b, dst, src, n) == [i \in DOMAIN b |-> IF dst <= i /\ i < dst + n THEN b[src + i - dst] ELSE b[i]]
CopiedTo(b, c, n) == [i \in DOMAIN b |-> IF i < n THEN c[i] ELSE b[i]]

\* The capacity the growth factor of one and a half reaches for n bytes.
GrowCapacity(c) == IF c < Inline THEN Inline ELSE c + c \div 2
GrownFor(c, n)  == LET grown[d \in Nat] == IF d < n THEN grown[GrowCapacity(d)] ELSE d IN grown[c]

Reserved(v, n) ==
  IF n > Capacity(v) THEN [v EXCEPT !.heap = CopiedTo(NewBytes(n), Data(v), v.size)] ELSE v
GrownToFit(v, n) == IF n > Capacity(v) THEN Reserved(v, GrownFor(Capacity(v), n)) ELSE v

\* shrink_to_fit: back inline, or into a buffer of exactly the size.
Shrunk(v) ==
  CASE OnHeap(v) /\ v.size <= Inline ->
         [v EXCEPT !.inner = CopiedTo(@, v.heap, v.size), !.heap = <<>>]
    [] v.size > Inline /\ v.size < Capacity(v) ->
         [v EXCEPT !.heap = CopiedTo(NewBytes(v.size), @, v.size)]
    [] OTHER -> v

PushedBack(v, x) == LET r == GrownToFit(v, v.size + 1) IN
                    With(r, Filled(Data(r), v.size, 1, x), v.size + 1)
PushedAll(v, s)  == FoldLeft(PushedBack, v, s)

\* resize: the stale bytes it brings in are set.
ResizedStale(v, n, x) == LET r == GrownToFit(v, n) IN With(r, Data(r), n)  \* mutant
Resized(v, n, x) == LET r == GrownToFit(v, n) IN
  With(r, IF n > v.size THEN Filled(Data(r), v.size, n - v.size, x) ELSE Data(r), n)

\* insert of n copies: the tail moves up, in a buffer large enough.
InsertedMany(v, pos, n, x) ==
  LET r == GrownToFit(v, v.size + n)
      b == Shifted(Data(r), pos + n, pos, v.size - pos)
  IN With(r, Filled(b, pos, n, x), v.size + n)

\* insert of a list, one element at a time.
InsertedAll(v, pos, s) ==
  LET after[j \in 0 .. Len(s)] ==
        IF j = 0 THEN v ELSE InsertedMany(after[j - 1], pos + j - 1, 1, s[j])
  IN after[Len(s)]

Erased(v, first, last) ==
  With(v, Shifted(Data(v), first, last, v.size - last), v.size - (last - first))

\* Construction from a count, which leaves room to grow, and from a list.
BuiltFilled(n, x) ==
  LET r == IF n > Inline THEN [New EXCEPT !.heap = NewBytes(GrowCapacity(n))] ELSE New IN
  With(r, Filled(Data(r), 0, n, x), n)
BuiltFrom(s) == PushedAll(Reserved(New, Len(s)), s)

\* assign: cleared, then resized or refilled.
Cleared(v) == [v EXCEPT !.size = 0]
AssignedFrom(v, s) == PushedAll(Reserved(Cleared(v), Len(s)), s)

\* Copies: into the buffer there is when it is large enough, or one as large as the source's.
Copied(v, w) ==
  LET r == IF w.size > Capacity(v) THEN [v EXCEPT !.heap = NewBytes(Capacity(w))] ELSE v IN
  With(r, CopiedTo(Data(r), Data(w), w.size), w.size)

\* Moves: v gives up its buffer and takes over that of w, or a copy of its inline bytes.
Moved(v, w) ==
  IF OnHeap(w)
    THEN <<[v EXCEPT !.heap = w.heap, !.size = w.size], [w EXCEPT !.heap = <<>>, !.size = 0]>>
    ELSE <<[v EXCEPT !.heap = <<>>, !.inner = CopiedTo(@, w.inner, w.size), !.size = w.size],
           [w EXCEPT !.size = 0]>>

\* swap: of the inline bytes, of the buffers, or by three moves.
Swapped(v, w) ==
  CASE ~OnHeap(v) /\ ~OnHeap(w) ->
         <<[v EXCEPT !.inner = CopiedTo(@, w.inner, w.size), !.size = w.size],
           [w EXCEPT !.inner = CopiedTo(@, v.inner, v.size), !.size = v.size]>>
    [] OnHeap(v) /\ OnHeap(w) ->
         <<[v EXCEPT !.heap = w.heap, !.size = w.size], [w EXCEPT !.heap = v.heap, !.size = v.size]>>
    [] OTHER ->
         LET first  == Moved(New, v)
             second == Moved(first[2], w)
             third  == Moved(second[2], first[1])
         IN <<second[1], third[1]>>

Flipped(v) == With(v, [i \in DOMAIN Data(v) |-> IF i < v.size THEN ~Data(v)[i] ELSE Data(v)[i]], v.size)

-----------------------------------------------------------------------------
(* count, any, all: Step bytes at a time, then the rest one by one.        *)

Wide(s) == 0 .. (Len(s) \div Step) - 1          \* the full registers
Rest(s) == (Len(s) \div Step) * Step + 1 .. Len(s)
Lane(s, k, l) == s[k * Step + l]

\* What lane l holds when the block of registers that began with the b-th fold is folded.
LaneSumLate(s, b, l) ==  \* mutant
  Cardinality({k \in Wide(s) : k \div (FoldEvery + 1) = b /\ Lane(s, k, l)}) % LaneMod
LaneSum(s, b, l) ==
  Cardinality({k \in Wide(s) : k \div FoldEvery = b /\ Lane(s, k, l)}) % LaneMod

CountSet(s) ==
  MapThenSumSet(LAMBDA bl : LaneSum(s, bl[1], bl[2]), Wide(s) \X (1 .. Step))
    + Cardinality({j \in Rest(s) : s[j]})
AnySet(s) == (\E k \in Wide(s) : \E l \in 1 .. Step : Lane(s, k, l)) \/ \E j \in Rest(s) : s[j]
AllSet(s) == (\A k \in Wide(s) : \A l \in 1 .. Step : Lane(s, k, l)) /\ \A j \in Rest(s) : s[j]

-----------------------------------------------------------------------------
Init == flags = [o \in Obj |-> New]

\* What lies beyond the size, or inline while the bytes are on the heap.
Forgotten(v) == With(IF OnHeap(v) THEN [v EXCEPT !.inner = NewBytes(Inline)] ELSE v,
                     [i \in DOMAIN Data(v) |-> IF i < v.size THEN Data(v)[i] ELSE Stale], v.size)

Become(f) ==
  /\ \A o \in Obj : f[o].size <= MaxTotal /\ Capacity(f[o]) <= MaxCapacity
  /\ \A o, p \in Obj : o # p => f[o].size + f[p].size <= MaxTotal
  /\ flags' = [o \in Obj |-> Forgotten(f[o])]
Set(o, v)         == Become([flags EXCEPT ![o] = v])
SetBoth(o, p, vw) == o # p /\ Become([flags EXCEPT ![o] = vw[1], ![p] = vw[2]])

PushBack(o, x)   == Set(o, PushedBack(flags[o], x))
PopBack(o)       == flags[o].size > 0 /\ Set(o, [flags[o] EXCEPT !.size = @ - 1])
Clear(o)         == Set(o, Cleared(flags[o]))
Reserve(o, n)    == Set(o, Reserved(flags[o], n))
ShrinkToFit(o)   == Set(o, Shrunk(flags[o]))
Resize(o, n, x)  == Set(o, Resized(flags[o], n, x))
AssignCount(o, n, x) == Set(o, Resized(Cleared(flags[o]), n, x))
AssignList(o, s) == Set(o, AssignedFrom(flags[o], s))
Insert(o, i, n, x)  == i <= flags[o].size /\ n > 0 /\ Set(o, InsertedMany(flags[o], i, n, x))
InsertList(o, i, s) == i <= flags[o].size /\ Set(o, InsertedAll(flags[o], i, s))
Erase(o, i, j)   == i < j /\ j <= flags[o].size /\ Set(o, Erased(flags[o], i, j))
Flip(o)          == Set(o, Flipped(flags[o]))
CopyAssign(o, p) == o # p /\ Set(o, Copied(flags[o], flags[p]))
MoveAssign(o, p) == SetBoth(o, p, Moved(flags[o], flags[p]))
Swap(o, p)       == SetBoth(o, p, Swapped(flags[o], flags[p]))

\* The object is destroyed and another built in its place.
Construct(o, n, x)  == Set(o, BuiltFilled(n, x))
ConstructFrom(o, s) == Set(o, BuiltFrom(s))
CopyConstruct(o, p) == o # p /\ Set(o, Copied(New, flags[p]))
MoveConstruct(o, p) == SetBoth(o, p, Moved(New, flags[p]))

Next ==
  \E o \in Obj :
    \/ PopBack(o) \/ Clear(o) \/ ShrinkToFit(o) \/ Flip(o)
    \/ \E x \in BOOLEAN : PushBack(o, x)
    \/ \E n \in 0 .. MaxCapacity : Reserve(o, n)
    \/ \E n \in 0 .. MaxTotal, x \in BOOLEAN :
         \/ Resize(o, n, x) \/ AssignCount(o, n, x) \/ Construct(o, n, x)
         \/ \E i \in 0 .. MaxTotal : Insert(o, i, n, x)
    \/ \E i, j \in 0 .. MaxTotal : Erase(o, i, j)
    \/ \E s \in Given : \/ AssignList(o, s) \/ ConstructFrom(o, s)
                        \/ \E i \in 0 .. MaxTotal : InsertList(o, i, s)
    \/ \E p \in Obj : \/ CopyAssign(o, p) \/ MoveAssign(o, p) \/ Swap(o, p)
                      \/ CopyConstruct(o, p) \/ MoveConstruct(o, p)

Spec == Init /\ [][Next]_flags
-----------------------------------------------------------------------------
\* No stale byte is ever among the elements (boolean_vector.hpp:116, 364, 490).
CellsSet == \A o \in Obj : \A j \in 1 .. flags[o].size : Elements(flags[o])[j] \in BOOLEAN

\* "a lane holds at most 255 after 255 iterations and the *256th* wraps it silently to zero"
\* (boolean_vector.hpp:565): count, any and all see what a scan of the elements sees.
CountsRight ==
  \A o \in Obj : LET s == Elements(flags[o]) IN
    /\ CountSet(s) = Cardinality({j \in DOMAIN s : s[j]})
    /\ AnySet(s) = (TRUE \in {s[j] : j \in DOMAIN s})
    /\ AllSet(s) = (FALSE \notin {s[j] : j \in DOMAIN s})

\* Each object is a vector.
Promise == INSTANCE Vector WITH
  content <- [o \in Obj |-> Elements(flags[o])], usable <- TRUE, Value <- BOOLEAN,
  Turn <- [x \in BOOLEAN |-> ~x]
ImplementsVector == Promise!VectorSpec
=============================================================================
