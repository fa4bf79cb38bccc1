------------------------------- MODULE Bitmap -------------------------------
(***************************************************************************)
(* bitmap.hpp, bitmap: a resizable array of bits.  Each object is its      *)
(* words, as many as it has capacity, and its size in bits.  Bits that     *)
(* stand beyond the size are left there by some calls and come back with   *)
(* later ones; once one of them stands, behind is TRUE.                    *)
(***************************************************************************)
EXTENDS Words

CONSTANTS
  Obj,     \* the objects
  Arch,    \* the architecture of the build
  Query,   \* the id lists of the bulk lookups
  MaxBits  \* bound on the sizes

VARIABLES maps, behind

bitmapVars == <<maps, behind>>

New           == [words |-> <<>>, size |-> 0]
Capacity(v)   == Cardinality(DOMAIN v.words)
WordCount(v)  == WordsFor(v.size)

\* Room for n bits; what is new is zero.
Reserved(v, n) ==
  IF WordsFor(n) <= Capacity(v) THEN v
  ELSE [v EXCEPT !.words = [w \in 0 .. WordsFor(n) - 1 |-> IF w < Capacity(v) THEN v.words[w] ELSE {}]]

\* resize: a smaller size clears the bits beyond it, unless it is 0.
Resized(v, n) ==
  LET r    == Reserved(v, n)
      last == (n - 1) \div WordBits
      Kept(w, x) == IF w = last /\ n % WordBits # 0 THEN x \cap (0 .. (n % WordBits) - 1)
                    ELSE IF w > last /\ w < WordCount(v) THEN {} ELSE x
  IN IF n < v.size /\ n > 0
       THEN [words |-> [w \in DOMAIN r.words |-> Kept(w, r.words[w])], size |-> n]
       ELSE [r EXCEPT !.size = n]

Built(n) == [words |-> Zeroed(WordsFor(n)), size |-> n]
Blank(v) == [v EXCEPT !.words = Zeroed(Capacity(v))]

\* Copy assignment: over the words there are, when there are enough.
Copied(v, u) ==
  [size |-> u.size,
   words |-> IF Capacity(v) < Capacity(u) THEN u.words
             ELSE [w \in DOMAIN v.words |-> IF w < Capacity(u) THEN u.words[w] ELSE v.words[w]]]

\* and_, or_, xor_, andnot_, over the words both have; and_ clears the others.
Shared(v, u) == IF WordCount(v) < WordCount(u) THEN WordCount(v) ELSE WordCount(u)
CombinedShared(op, v, u) == [v EXCEPT !.words = Bulk(Arch, op, @, u.words, Shared(v, u))]  \* mutant
Combined(op, v, u) ==
  LET d == Bulk(Arch, op, v.words, u.words, Shared(v, u)) IN
  [v EXCEPT !.words = [w \in DOMAIN d |-> IF op = "and" /\ Shared(v, u) <= w /\ w < WordCount(v)
                                            THEN {} ELSE d[w]]]

\* in: the ids that are set, in order, or a flag for each.
Member(v, id) == id < v.size /\ BitAt(v.words, id)
InList(v, ids) == SelectSeq(ids, LAMBDA id : Member(v, id))
InFlags(v, ids, result) ==
  LET r == Blank(Resized(result, Len(ids))) IN
  FoldLeft(LAMBDA b, j : IF Member(v, ids[j]) THEN [b EXCEPT !.words = PutBit(@, j - 1, TRUE)] ELSE b,
           r, [j \in DOMAIN ids |-> j])
-----------------------------------------------------------------------------
Init == maps = [o \in Obj |-> New] /\ behind = FALSE

Beyond(v) == {p \in v.size .. Capacity(v) * WordBits - 1 : BitAt(v.words, p)}

Become(f) ==
  /\ maps' = f
  /\ behind' = (behind \/ \E o \in Obj : Beyond(f[o]) # {})
Set(o, v) == Become([maps EXCEPT ![o] = v])

Construct(o, n)  == n <= MaxBits /\ Set(o, Built(n))
Resize(o, n)     == n <= MaxBits /\ Set(o, Resized(maps[o], n))
Reserve(o, n)    == n <= MaxBits /\ Set(o, Reserved(maps[o], n))
Clear(o)         == Set(o, Blank(maps[o]))
PutOne(o, p, x)  == p < maps[o].size /\ Set(o, [maps[o] EXCEPT !.words = PutBit(@, p, x)])
FlipOne(o, p)    == p < maps[o].size /\ PutOne(o, p, ~BitAt(maps[o].words, p))
Combine(op, o, p) == Set(o, Combined(op, maps[o], maps[p]))
CopyAssign(o, p) == o # p /\ Set(o, Copied(maps[o], maps[p]))
CopyConstruct(o, p) == o # p /\ Set(o, maps[p])
Move(o, p)       == o # p /\ Become([maps EXCEPT ![o] = maps[p], ![p] = New])
In(o, p, ids)    == o # p /\ Set(o, InFlags(maps[p], ids, maps[o]))

Next ==
  \E o \in Obj :
    \/ Clear(o)
    \/ \E n \in 0 .. MaxBits : Construct(o, n) \/ Resize(o, n) \/ Reserve(o, n)
    \/ \E n \in 0 .. MaxBits - 1 : FlipOne(o, n) \/ \E x \in BOOLEAN : PutOne(o, n, x)
    \/ \E p \in Obj : \/ CopyAssign(o, p) \/ CopyConstruct(o, p) \/ Move(o, p)
                      \/ \E op \in {"and", "or", "xor", "andnot"} : Combine(op, o, p)
                      \/ \E ids \in Query : In(o, p, ids)

Spec == Init /\ [][Next]_bitmapVars
-----------------------------------------------------------------------------
\* The iterator visits the set bits below the size, in order, whatever stands beyond it
\* (bitmap.hpp:972, 983), and in answers for the ids in the order they were given.
WalksRight ==
  \A o \in Obj :
    /\ WalkRight(maps[o].words, maps[o].size)
    /\ \A ids \in Query : InList(maps[o], ids) =
         SelectSeq(ids, LAMBDA id : id \in {p \in 0 .. maps[o].size - 1 : BitAt(maps[o].words, p)})

\* Each object is a sequence of bits, until a call leaves bits beyond the size.
Promise == INSTANCE Bits WITH
  content <- [o \in Obj |-> [j \in 1 .. maps[o].size |-> BitAt(maps[o].words, j - 1)]],
  usable <- ~behind
ImplementsBits == Promise!BitsSpec

\* "Clear bits beyond new_size if shrinking" (bitmap.hpp:826).
ResizeClears ==
  \A o \in Obj : \A n \in 0 .. maps[o].size - 1 : Beyond(Resized(maps[o], n)) \subseteq Beyond(maps[o])
=============================================================================
