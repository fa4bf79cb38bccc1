------------------------- MODULE StaticVectraProofs -------------------------
(***************************************************************************)
(* For every N, every set of objects and of elements: the slots of a       *)
(* static_vectra below its size hold elements and the others none, and     *)
(* each object is a vector.  Image(s) is the object that holds the         *)
(* sequence s; the calls take images to images (the lemmas about           *)
(* PushedBack, Erased, ... below), so an object always is the image of     *)
(* the sequence that the abstract vector holds (SlotsInv).                 *)
(***************************************************************************)
EXTENDS StaticVectra, SlotsProofs

Image(s) == Holding(Row(Room, s), Len(s))

\* The sequences an object has room for.
Short == {s \in Seq(Value) : Len(s) <= Room}

\* The objects hold the sequences c.
Shows(c) == c \in [Obj -> Short] /\ fixed = [o \in Obj |-> Image(c[o])]

SlotsInv == status \in {"whole", "torn"} /\ (Whole => \E c : Shows(c))

Content == [o \in Obj |-> IF Whole THEN Elements(fixed[o]) ELSE <<>>]

LEMMA ImageFields == ASSUME NEW s PROVE Image(s).slots = Row(Room, s) /\ Image(s).size = Len(s)
BY DEF Image, Holding

LEMMA ShortFacts ==
  ASSUME NEW s \in Short
  PROVE  s \in Seq(Value) /\ Len(s) \in Nat /\ Len(s) <= Room
BY SeqFacts DEF Short

LEMMA ElementsOfImage ==
  ASSUME StaticConstants, NEW s \in Short
  PROVE  Elements(Image(s)) = s
BY ShortFacts, ImageFields, ListedRow DEF Elements, StaticConstants

-----------------------------------------------------------------------------
(* What the calls do to an object. *)

LEMMA ClearsImage ==
  ASSUME StaticConstants, NEW s \in Short
  PROVE  Cleared(Image(s)) = RawSlots(Room)
BY ShortFacts, ImageFields, DestroysAll DEF Cleared, StaticConstants

LEMMA EmptyImage ==
  ASSUME StaticConstants
  PROVE  <<>> \in Short /\ Image(<<>>) = Holding(RawSlots(Room), 0) /\ New = Image(<<>>)
<1>1. <<>> \in Seq(Value) /\ Len(<<>>) = 0
  BY EmptySeq
<1> QED
  BY <1>1, RawIsRow DEF StaticConstants, Short, Image, Holding, New

LEMMA AssignsImage ==
  ASSUME StaticConstants, NEW s \in Short, NEW t \in Short
  PROVE  Assigned(Image(s), t) = Image(t) /\ Built(t) = Image(t)
<1>1. Filled(RawSlots(Room), 0, t) = Row(Room, t)
  BY ShortFacts, FillsRaw DEF StaticConstants
<1> QED
  BY <1>1, ClearsImage DEF Assigned, Built, Image

LEMMA DrainsImage ==
  ASSUME StaticConstants, NEW s \in Short
  PROVE  Drained(Image(s)) = Image(<<>>)
<1>1. s \in Seq(Value) /\ Len(s) <= Room /\ 0 \in 0 .. Len(s) /\ Room \in Nat
  BY ShortFacts DEF StaticConstants
<1>2. Destroyed(MovedFrom(Row(Room, s), 0, Len(s)), 0, Len(s)) = RawSlots(Room)
  BY <1>1, MovedFromDestroyed, DestroysAll
<1> QED
  BY <1>2, ImageFields, EmptyImage DEF Drained

LEMMA PushesImage ==
  ASSUME StaticConstants, NEW s \in Short, NEW x \in Value, Len(s) + 1 <= Room
  PROVE  PushedBack(Image(s), x) = Image(Append(s, x)) /\ Append(s, x) \in Short
<1>1. s \in Seq(Value) /\ Room \in Nat
  BY ShortFacts DEF StaticConstants
<1>2. Append(s, x) \in Seq(Value) /\ Len(Append(s, x)) = Len(s) + 1
  BY <1>1
<1>3. Constructed(Row(Room, s), Len(s), x) = Row(Room, Append(s, x))
  BY <1>1, ConstructsEnd
<1>4. PushedBack(Image(s), x) = Holding(Row(Room, Append(s, x)), Len(Append(s, x)))
  BY <1>2, <1>3, ImageFields DEF PushedBack
<1> QED
  BY <1>2, <1>4 DEF Image, Short

LEMMA ErasesImage ==
  ASSUME StaticConstants, NEW s \in Short, NEW p \in 0 .. Len(s), NEW q \in p .. Len(s)
  PROVE  Erased(Image(s), p, q) = Image(Spliced(s, p, q, <<>>)) /\ Spliced(s, p, q, <<>>) \in Short
<1> DEFINE u == Spliced(s, p, q, <<>>)
<1>1. s \in Seq(Value) /\ Room \in Nat /\ Len(s) <= Room /\ Len(s) \in Nat /\ p \in Nat /\ q \in Nat /\ p <= q
      /\ <<>> \in Seq(Value) /\ Len(<<>>) = 0
  BY ShortFacts, EmptySeq DEF StaticConstants
<1>2. IsSpliced(u, s, p, q, <<>>)
  BY <1>1, SplicedSeq
<1>3. Closed(Row(Room, s), p, q, Len(s)) = Row(Room, u)
  BY <1>1, ClosesRow
<1> HIDE DEF u
<1>4. u \in Short /\ Len(u) = Len(s) - (q - p)
  BY <1>1, <1>2 DEF IsSpliced, Short
<1>5. Erased(Image(s), p, q) = Image(u)
  BY <1>3, <1>4, ImageFields DEF Erased, Image
<1> QED
  BY <1>4, <1>5 DEF u

LEMMA SplicedInShort ==
  ASSUME StaticConstants, NEW s \in Short, NEW p \in 0 .. Len(s), NEW t \in Seq(Value), Len(s) + Len(t) <= Room
  PROVE  Spliced(s, p, p, t) \in Short /\ Len(Spliced(s, p, p, t)) = Len(s) + Len(t)
<1> DEFINE u == Spliced(s, p, p, t)
<1>1. s \in Seq(Value) /\ Len(s) \in Nat /\ Len(t) \in Nat /\ p \in p .. Len(s) /\ p \in Nat
  BY ShortFacts, SeqFacts
<1>2. IsSpliced(u, s, p, p, t)
  BY <1>1, SplicedSeq
<1> HIDE DEF u
<1>3. u \in Seq(Value) /\ Len(u) = Len(s) + Len(t)
  BY <1>1, <1>2 DEF IsSpliced
<1> QED
  BY <1>3 DEF u, Short

LEMMA InsertsImage ==
  ASSUME StaticConstants, NEW s \in Short, NEW p \in 0 .. Len(s), NEW x \in Value, Len(s) + 1 <= Room
  PROVE  Inserted(Image(s), p, x) = Image(Spliced(s, p, p, <<x>>)) /\ Spliced(s, p, p, <<x>>) \in Short
<1> DEFINE t == <<x>>
<1>1. t \in Seq(Value) /\ Len(t) = 1 /\ s \in Seq(Value) /\ Room \in Nat
  BY ShortFacts DEF StaticConstants
<1>2. Constructed(Opened(Row(Room, s), p, 1, Len(s)), p, x) = Row(Room, Spliced(s, p, p, t))
  BY <1>1, InsertsInRow
<1> HIDE DEF t
<1>3. Spliced(s, p, p, t) \in Short /\ Len(Spliced(s, p, p, t)) = Len(s) + 1
  BY <1>1, SplicedInShort
<1> QED
  BY <1>2, <1>3, ImageFields DEF Inserted, Image, t

LEMMA InsertsManyImage ==
  ASSUME StaticConstants, NEW s \in Short, NEW p \in 0 .. Len(s), NEW n \in Nat, NEW x \in Value,
         Len(s) + n <= Room, n > 0 \/ p = Len(s)
  PROVE  /\ InsertedMany(Image(s), p, n, x) = Image(Spliced(s, p, p, Copies(n, x)))
         /\ Spliced(s, p, p, Copies(n, x)) \in Short
<1> DEFINE t == Copies(n, x)
<1>1. t \in Seq(Value) /\ Len(t) = n /\ s \in Seq(Value) /\ Len(s) \in Nat /\ Room \in Nat /\ p \in Nat
  <2>1. t \in Seq(Value) /\ Len(t) = n
    BY CopiesSeq
  <2>2. s \in Seq(Value) /\ Len(s) \in Nat
    BY ShortFacts
  <2> HIDE DEF t
  <2> QED
    BY <2>1, <2>2 DEF StaticConstants
<1> HIDE DEF t
<1>2. Filled(Gapped(Room, s, p, n), p, t) = Row(Room, Spliced(s, p, p, t))
  BY <1>1, FillsGap
<1>3. Spliced(s, p, p, t) \in Short /\ Len(Spliced(s, p, p, t)) = Len(s) + n
  BY <1>1, SplicedInShort
<1> DEFINE b == IF p + n >= Len(s) THEN MovedForward(Row(Room, s), p + n, p, Len(s))
                                   ELSE MovedBackward(Row(Room, s), p + n, p, Len(s))
<1>4. b = Gapped(Room, s, p, n)
  <2>1. CASE n > 0 /\ p + n >= Len(s)
    BY <1>1, <2>1, GapOpensAhead
  <2>2. CASE n > 0 /\ ~(p + n >= Len(s))
    BY <1>1, <2>2, GapOpens
  <2>3. CASE n = 0
    <3>1. p = Len(s) /\ p + n = p
      BY <1>1, <2>3
    <3>2. MovedForward(Row(Room, s), p, p, p) = Row(Room, s)
      BY <1>1, NothingMoves
    <3> QED
      BY <1>1, <2>3, <3>1, <3>2, GapAtEnd
  <2> QED
    BY <1>1, <2>1, <2>2, <2>3
<1>5. InsertedMany(Image(s), p, n, x) = Holding(Filled(b, p, t), Len(s) + n)
  <2> DEFINE v == Image(s)
  <2>1. v.slots = Row(Room, s) /\ v.size = Len(s)
    BY ImageFields
  <2> HIDE DEF v
  <2>2. InsertedMany(v, p, n, x) = Holding(Filled(b, p, t), Len(s) + n)
    BY <2>1 DEF InsertedMany, t
  <2> QED
    BY <2>2 DEF v
<1> HIDE DEF b
<1> QED
  BY <1>2, <1>3, <1>4, <1>5 DEF Image, t

LEMMA ResizesImage ==
  ASSUME StaticConstants, NEW s \in Short, NEW n \in Nat, NEW x \in Value, n <= Room
  PROVE  /\ Resized(Image(s), n, x) = Image(Extended(s, n, x))
         /\ Extended(s, n, x) \in Short /\ Len(Extended(s, n, x)) = n
<1> DEFINE t == Extended(s, n, x)  m == Len(s)  v == Image(s)
<1>1. s \in Seq(Value) /\ m \in Nat /\ m <= Room /\ Room \in Nat
  BY ShortFacts DEF StaticConstants
<1>2. t \in Seq(Value) /\ Len(t) = n
  BY <1>1, ExtendedSeq
<1>3. v.slots = Row(Room, s) /\ v.size = m
  BY ImageFields
<1> HIDE DEF t, v
<1>4. CASE n > m
  <2>1. Resized(v, n, x) = Holding(Filled(Row(Room, s), m, Copies(n - m, x)), n)
    BY <1>3, <1>4 DEF Resized
  <2>2. Filled(Row(Room, s), m, Copies(n - m, x)) = Row(Room, t)
    BY <1>1, <1>4, ExtendsRow DEF t
  <2> QED
    BY <1>2, <2>1, <2>2 DEF t, v, Short, Image
<1>5. CASE ~(n > m)
  <2>1. n \in 0 .. Len(s)
    BY <1>1, <1>5
  <2>2. Destroyed(Row(Room, s), n, m) = Row(Room, t)
    BY <1>1, <2>1, ShortensRow DEF t
  <2>3. Resized(v, n, x) = Holding(Destroyed(Row(Room, s), n, m), n)
    BY <1>3, <1>5 DEF Resized
  <2> QED
    BY <1>2, <2>2, <2>3 DEF t, v, Short, Image
<1> QED
  BY <1>4, <1>5

LEMMA WeedsImage ==
  ASSUME StaticConstants, NEW s \in Short, NEW x \in Value
  PROVE  /\ Weeded(Image(s), x) = Image(Without(s, x)) /\ Without(s, x) \in Short
         /\ \E f : Keeps(Without(s, x), s, Len(s), x, f)
<1> DEFINE t == Without(s, x)  v == Image(s)
<1>1. s \in Seq(Value) /\ Len(s) \in Nat /\ Len(s) <= Room /\ Room \in Nat
  BY ShortFacts DEF StaticConstants
<1>2. PICK f : Keeps(t, s, Len(s), x, f)
  BY <1>1, WithoutKeeps
<1>3. t \in Seq(Value) /\ Len(t) <= Len(s) /\ Len(t) \in Nat
  BY <1>2, SeqFacts DEF Keeps
<1>4. v.slots = Row(Room, s) /\ v.size = Len(s) /\ Elements(v) = s
  BY ImageFields, ElementsOfImage
<1> HIDE DEF v
<1> DEFINE b == [i \in DOMAIN Row(Room, s) |-> IF i < Len(t) THEN t[i + 1]
                                               ELSE IF i < Len(s) THEN Husk ELSE Row(Room, s)[i]]
<1>5. Weeded(v, x) = Erased(Holding(b, Len(s)), Len(t), Len(s))
  BY <1>4 DEF Weeded
<1> HIDE DEF t
<1>6. Closed(b, Len(t), Len(s), Len(s)) = Row(Room, t)
  BY <1>1, <1>3, WeedsRow
<1> HIDE DEF b
<1>7. Erased(Holding(b, Len(s)), Len(t), Len(s)) = Holding(Row(Room, t), Len(s) - (Len(s) - Len(t)))
  BY <1>6 DEF Erased, Holding
<1>8. Len(s) - (Len(s) - Len(t)) = Len(t)
  BY <1>1, <1>3
<1>9. Weeded(v, x) = Image(t)
  BY <1>5, <1>7, <1>8 DEF Image
<1> QED
  BY <1>1, <1>2, <1>3, <1>9 DEF t, v, Short

LEMMA SwapsImage ==
  ASSUME StaticConstants, NEW s \in Short, NEW t \in Short
  PROVE  SwappedWith(Image(s), Image(t)) = Image(t)
<1> DEFINE m == Len(s)  k == Len(t)  v == Image(s)  w == Image(t)
           common == IF m < k THEN m ELSE k
           b == Exchanged(Row(Room, s), Row(Room, t), common)
<1>1. /\ s \in Seq(Value) /\ m \in Nat /\ m <= Room /\ Room \in Nat
      /\ t \in Seq(Value) /\ k \in Nat /\ k <= Room
  BY ShortFacts DEF StaticConstants
<1>2. v.slots = Row(Room, s) /\ v.size = m /\ w.slots = Row(Room, t) /\ w.size = k /\ Elements(w) = t
  BY ImageFields, ElementsOfImage
<1> HIDE DEF v, w
<1>3. SwappedWith(v, w) =
        IF m > k THEN Holding(Destroyed(MovedFrom(b, common, m), common, m), k)
                 ELSE Holding(Filled(b, common, SubSeq(t, common + 1, k)), k)
  BY <1>2 DEF SwappedWith, Exchanged
<1>4. CASE m > k
  <2>1. common = k
    BY <1>1, <1>4
  <2>2. Destroyed(MovedFrom(Exchanged(Row(Room, s), Row(Room, t), k), k, m), k, m) = Row(Room, t)
    BY <1>1, <1>4, SwapsLonger
  <2> QED
    BY <1>3, <1>4, <2>1, <2>2 DEF Image, v, w
<1>5. CASE ~(m > k)
  <2>1. common = m
    BY <1>1, <1>5
  <2>2. Filled(Exchanged(Row(Room, s), Row(Room, t), m), m, SubSeq(t, m + 1, k)) = Row(Room, t)
    BY <1>1, <1>5, SwapsShorter
  <2> QED
    BY <1>3, <1>5, <2>1, <2>2 DEF Image, v, w
<1> QED
  BY <1>4, <1>5

-----------------------------------------------------------------------------
(* The steps. *)

LEMMA ContentShown ==
  ASSUME StaticConstants, Whole, NEW c, Shows(c)
  PROVE  Content = c /\ \A o \in Obj : fixed[o] = Image(c[o]) /\ c[o] \in Short
<1>1. c \in [Obj -> Short] /\ fixed = [o \in Obj |-> Image(c[o])]
  BY DEF Shows
<1>2. \A o \in Obj : fixed[o] = Image(c[o]) /\ c[o] \in Short
  BY <1>1
<1>3. \A o \in Obj : Elements(fixed[o]) = c[o]
  BY <1>2, ElementsOfImage
<1>4. Content = [o \in Obj |-> c[o]]
  BY <1>3 DEF Content
<1>5. c = [o \in Obj |-> c[o]]
  BY <1>1
<1> QED
  BY <1>2, <1>4, <1>5

\* The objects, which held c, hold d.
Turns(c, d) == SlotsInv' /\ Whole /\ UNCHANGED Whole /\ Content = c /\ Content' = d

LEMMA BecomesShown ==
  ASSUME StaticConstants, Whole, NEW c, Shows(c), NEW d \in [Obj -> Short], Become([o \in Obj |-> Image(d[o])])
  PROVE  Turns(c, d)
<1>1. fixed' = [o \in Obj |-> Image(d[o])] /\ status' = status /\ Whole'
  BY DEF Become, Whole
<1>2. Shows(d)'
  BY <1>1 DEF Shows
<1>3. SlotsInv'
  BY <1>1, <1>2 DEF SlotsInv, Whole
<1>4. Content = c
  BY ContentShown
<1>5. Content' = d
  <2>1. \A o \in Obj : fixed'[o] = Image(d[o]) /\ d[o] \in Short
    BY <1>1
  <2>2. \A o \in Obj : Elements(fixed'[o]) = d[o]
    BY <2>1, ElementsOfImage
  <2>3. Content' = [o \in Obj |-> d[o]]
    BY <1>1, <2>2 DEF Content
  <2>4. d = [o \in Obj |-> d[o]]
    OBVIOUS
  <2> QED
    BY <2>3, <2>4
<1> QED
  BY <1>1, <1>3, <1>4, <1>5 DEF Turns, Whole

LEMMA SetShown ==
  ASSUME StaticConstants, Whole, NEW c, Shows(c), NEW o \in Obj, NEW t \in Short, Set(o, Image(t))
  PROVE  Turns(c, [c EXCEPT ![o] = t])
<1> DEFINE d == [c EXCEPT ![o] = t]
<1>1. c \in [Obj -> Short] /\ fixed = [q \in Obj |-> Image(c[q])]
  BY DEF Shows
<1>2. d \in [Obj -> Short]
  BY <1>1
<1>3. [fixed EXCEPT ![o] = Image(t)] = [q \in Obj |-> Image(d[q])]
  BY <1>1
<1> HIDE DEF d
<1>4. Become([q \in Obj |-> Image(d[q])])
  BY <1>3 DEF Set
<1>5. Turns(c, d)
  BY <1>2, <1>4, BecomesShown
<1> QED
  BY <1>5 DEF d

LEMMA SetBothShown ==
  ASSUME StaticConstants, Whole, NEW c, Shows(c), NEW o \in Obj, NEW p \in Obj,
         NEW s \in Short, NEW t \in Short, SetBoth(o, p, Image(s), Image(t))
  PROVE  o # p /\ Turns(c, [c EXCEPT ![o] = s, ![p] = t])
<1> DEFINE d == [c EXCEPT ![o] = s, ![p] = t]
<1>1. c \in [Obj -> Short] /\ fixed = [q \in Obj |-> Image(c[q])] /\ o # p
  BY DEF Shows, SetBoth
<1>2. d \in [Obj -> Short]
  BY <1>1
<1>3. [fixed EXCEPT ![o] = Image(s), ![p] = Image(t)] = [q \in Obj |-> Image(d[q])]
  BY <1>1
<1> HIDE DEF d
<1>4. Become([q \in Obj |-> Image(d[q])])
  BY <1>3 DEF SetBoth
<1>5. Turns(c, d)
  BY <1>2, <1>4, BecomesShown
<1> QED
  BY <1>1, <1>5 DEF d

-----------------------------------------------------------------------------
(* The steps of a vector. *)

VectorStep == [Promise!Next]_<<Content, Whole>>

LEMMA CallStep ==
  ASSUME NEW c, NEW d, Turns(c, d), NEW o \in Obj, Promise!Call(o)
  PROVE  VectorStep
BY DEF Turns, VectorStep, Promise!Next
\* The object o turns to u.
Put(c, o, u) == [c EXCEPT ![o] = u]

LEMMA SpliceCall ==
  ASSUME NEW c, NEW d, Turns(c, d), NEW o, NEW p, NEW q, NEW t, p <= q, q <= Len(c[o]),
         d = Put(c, o, Spliced(c[o], p, q, t))
  PROVE  Promise!Splice(o, p, q, t)
BY DEF Turns, Content, Put, Spliced, Promise!Splice, Promise!Becomes

LEMMA AssignCall ==
  ASSUME NEW c, NEW d, Turns(c, d), NEW o, NEW t, d = Put(c, o, t)
  PROVE  Promise!Assign(o, t)
BY DEF Turns, Content, Put, Promise!Assign, Promise!Becomes

LEMMA CopyCall ==
  ASSUME NEW c, NEW d, Turns(c, d), NEW o, NEW p, d = Put(c, o, c[p])
  PROVE  Promise!Copy(o, p)
BY DEF Turns, Content, Put, Promise!Copy, Promise!Becomes

LEMMA MoveCall ==
  ASSUME NEW c, NEW d, Turns(c, d), NEW o, NEW p, o # p, d = [c EXCEPT ![o] = c[p], ![p] = <<>>]
  PROVE  Promise!Move(o, p)
BY DEF Turns, Content, Promise!Move

LEMMA SwapCall ==
  ASSUME NEW c, NEW d, Turns(c, d), NEW o, NEW p, d = [c EXCEPT ![o] = c[p], ![p] = c[o]]
  PROVE  Promise!Swap(o, p)
BY DEF Turns, Content, Promise!Swap

LEMMA ResizeCall ==
  ASSUME NEW c, NEW d, Turns(c, d), NEW o, NEW n, NEW x, d = Put(c, o, Extended(c[o], n, x))
  PROVE  Promise!Resize(o, n, x)
BY DEF Turns, Content, Put, Extended, Promise!Resize, Promise!Becomes

LEMMA RemoveCall ==
  ASSUME NEW c, NEW d, Turns(c, d), NEW o, NEW x, NEW t, NEW f, c \in [Obj -> Short], o \in Obj,
         d = Put(c, o, t), Keeps(t, c[o], Len(c[o]), x, f)
  PROVE  Promise!Remove(o, x)
<1>1. c[o] \in Seq(Value) /\ d[o] = t /\ t \in Seq(Value)
  BY ShortFacts DEF Put, Keeps
<1>2. DOMAIN t = 1 .. Len(t) /\ DOMAIN c[o] = 1 .. Len(c[o])
  BY <1>1
<1>3. /\ f \in [DOMAIN t -> DOMAIN c[o]]
      /\ \A j, k \in DOMAIN t : j < k => f[j] < f[k]
      /\ {f[k] : k \in DOMAIN t} = {j \in DOMAIN c[o] : c[o][j] # x}
      /\ \A k \in DOMAIN t : t[k] = c[o][f[k]]
  <2>1. f \in [DOMAIN t -> DOMAIN c[o]]
    BY <1>2 DEF Keeps
  <2>2. \A j, k \in DOMAIN t : j < k => f[j] < f[k]
    BY <1>2 DEF Keeps
  <2>3. \A k \in DOMAIN t : t[k] = c[o][f[k]] /\ c[o][f[k]] # x
    BY <1>2 DEF Keeps
  <2>4. \A i \in DOMAIN c[o] : c[o][i] # x => \E k \in DOMAIN t : f[k] = i
    BY <1>2 DEF Keeps
  <2> QED
    BY <2>1, <2>2, <2>3, <2>4
<1>4. d = [c EXCEPT ![o] = d[o]]
  BY <1>1 DEF Put
<1> QED
  BY <1>1, <1>3, <1>4 DEF Turns, Content, Promise!Remove, Promise!Becomes
LEMMA GrowCall ==
  ASSUME NEW c, NEW d, Turns(c, d), NEW o, NEW p \in 0 .. Len(c[o]), NEW x \in Value, Len(d[o]) > Len(c[o]),
         Promise!Splice(o, p, p, Promise!Copies(Len(d[o]) - Len(c[o]), x))
  PROVE  Promise!Call(o)
BY DEF Turns, Content, Promise!Call

LEMMA ShrinkCall ==
  ASSUME NEW c, NEW d, Turns(c, d), NEW o, NEW p \in 0 .. Len(d[o]), Len(d[o]) < Len(c[o]),
         Promise!Splice(o, p, p + Len(c[o]) - Len(d[o]), <<>>)
  PROVE  Promise!Call(o)
BY DEF Turns, Content, Promise!Call

LEMMA FillCall ==
  ASSUME NEW c, NEW d, Turns(c, d), NEW o, NEW x \in Value,
         Promise!Assign(o, Promise!Copies(Len(d[o]), x)) \/ Promise!Resize(o, Len(d[o]), x)
  PROVE  Promise!Call(o)
BY DEF Turns, Content, Promise!Call

LEMMA OtherCall ==
  ASSUME NEW o, \/ \E s \in Given : Promise!Assign(o, s)
                \/ \E x \in Value : Promise!Remove(o, x)
                \/ \E p \in Obj : Promise!Copy(o, p) \/ Promise!Move(o, p) \/ Promise!Swap(o, p)
  PROVE  Promise!Call(o)
BY DEF Promise!Call

-----------------------------------------------------------------------------
(* The steps of a static_vectra are steps of a vector: what the objects    *)
(* held, c, and what they hold, d.                                         *)

LEMMA SpliceLength ==
  ASSUME NEW c \in [Obj -> Short], NEW o \in Obj, NEW p \in 0 .. Len(c[o]), NEW q \in p .. Len(c[o]),
         NEW t \in Seq(Value), NEW d, d = Put(c, o, Spliced(c[o], p, q, t))
  PROVE  Len(d[o]) = Len(c[o]) - (q - p) + Len(t) /\ Len(c[o]) \in Nat
<1>1. d[o] = Spliced(c[o], p, q, t) /\ c[o] \in Short
  BY DEF Put
<1>2. IsSpliced(d[o], c[o], p, q, t) /\ Len(c[o]) \in Nat
  BY <1>1, ShortFacts, SplicedSeq
<1> QED
  BY <1>2 DEF IsSpliced

LEMMA SameStep ==
  ASSUME NEW c, NEW d, Turns(c, d), NEW o \in Obj, d = Put(c, o, c[o])
  PROVE  VectorStep
BY CopyCall, OtherCall, CallStep

LEMMA GrowStep ==
  ASSUME NEW c \in [Obj -> Short], NEW d, Turns(c, d), NEW o \in Obj, NEW p \in 0 .. Len(c[o]),
         NEW n \in Nat, NEW x \in Value, d = Put(c, o, Spliced(c[o], p, p, Copies(n, x)))
  PROVE  VectorStep
<1> DEFINE t == Copies(n, x)
<1>1. t \in Seq(Value) /\ Len(t) = n
  BY CopiesSeq
<1>2. c[o] \in Seq(Value) /\ Len(c[o]) \in Nat /\ p \in p .. Len(c[o]) /\ p \in Nat /\ p <= Len(c[o])
  BY ShortFacts
<1>3. t = Promise!Copies(n, x)
  BY DEF Copies, Promise!Copies
<1> HIDE DEF t
<1>4. Len(d[o]) = Len(c[o]) + n
  <2>1. d = Put(c, o, Spliced(c[o], p, p, t))
    BY DEF t
  <2>2. Len(d[o]) = Len(c[o]) - (p - p) + Len(t)
    BY <1>1, <1>2, <2>1, SpliceLength
  <2> QED
    BY <1>1, <1>2, <2>2
<1>5. Promise!Splice(o, p, p, t)
  BY <1>2, SpliceCall DEF t
<1>6. CASE n > 0
  <2>1. n = Len(d[o]) - Len(c[o]) /\ Len(d[o]) > Len(c[o])
    BY <1>2, <1>4, <1>6
  <2>2. Promise!Splice(o, p, p, Promise!Copies(Len(d[o]) - Len(c[o]), x))
    BY <1>3, <1>5, <2>1
  <2> QED
    BY <2>1, <2>2, GrowCall, CallStep
<1>7. CASE n = 0
  <2>1. t = <<>>
    BY <1>1, <1>7, EmptySeq
  <2>2. Spliced(c[o], p, p, t) = c[o]
    BY <1>2, <2>1, SplicedNone
  <2> QED
    BY <2>2, SameStep DEF t
<1> QED
  BY <1>6, <1>7

LEMMA ShrinkStep ==
  ASSUME NEW c \in [Obj -> Short], NEW d, Turns(c, d), NEW o \in Obj, NEW p \in 0 .. Len(c[o]),
         NEW q \in p .. Len(c[o]), p < q, d = Put(c, o, Spliced(c[o], p, q, <<>>))
  PROVE  VectorStep
<1>1. c[o] \in Seq(Value) /\ Len(c[o]) \in Nat /\ p \in Nat /\ q \in Nat /\ q <= Len(c[o])
  BY ShortFacts
<1>2. <<>> \in Seq(Value) /\ Len(<<>>) = 0
  BY EmptySeq
<1>3. Len(d[o]) = Len(c[o]) - (q - p)
  <2>1. Len(d[o]) = Len(c[o]) - (q - p) + Len(<<>>)
    BY <1>1, <1>2, SpliceLength
  <2> QED
    BY <1>1, <1>2, <2>1
<1>4. Len(d[o]) < Len(c[o]) /\ p \in 0 .. Len(d[o]) /\ q = p + Len(c[o]) - Len(d[o])
  BY <1>1, <1>3
<1>5. Promise!Splice(o, p, q, <<>>)
  BY <1>1, SpliceCall
<1> QED
  BY <1>4, <1>5, ShrinkCall, CallStep
-----------------------------------------------------------------------------
(* Each call keeps the slots right and does what the vector promises.      *)

StepRight == SlotsInv' /\ VectorStep

LEMMA ShownNow ==
  ASSUME StaticConstants, SlotsInv, Whole
  PROVE  \E c : Shows(c) /\ c \in [Obj -> Short]
                /\ \A o \in Obj : fixed[o] = Image(c[o]) /\ c[o] \in Short /\ c[o] \in Seq(Value) /\ Len(c[o]) \in Nat
<1>1. PICK c : Shows(c)
  BY DEF SlotsInv
<1>2. c \in [Obj -> Short] /\ \A o \in Obj : fixed[o] = Image(c[o])
  BY <1>1 DEF Shows
<1>3. \A o \in Obj : c[o] \in Short /\ c[o] \in Seq(Value) /\ Len(c[o]) \in Nat
  BY <1>2, ShortFacts
<1> QED
  BY <1>1, <1>2, <1>3

LEMMA TurnsInv == ASSUME NEW c, NEW d, Turns(c, d) PROVE SlotsInv'
BY DEF Turns

LEMMA SetPuts ==
  ASSUME StaticConstants, Whole, NEW c, Shows(c), NEW o \in Obj, NEW t \in Short, Set(o, Image(t))
  PROVE  Turns(c, Put(c, o, t)) /\ SlotsInv'
BY SetShown, TurnsInv DEF Put

LEMMA SetIsWhole == ASSUME NEW o, NEW v, Set(o, v) PROVE Whole
BY DEF Set, Become

LEMMA SetBothIsWhole == ASSUME NEW o, NEW p, NEW v, NEW w, SetBoth(o, p, v, w) PROVE Whole
BY DEF SetBoth, Become

LEMMA PushBackRight ==
  ASSUME StaticConstants, SlotsInv, NEW o \in Obj, NEW x \in Value, PushBack(o, x)
  PROVE  StepRight
<1>1. Whole /\ Fits(fixed[o].size + 1) /\ Set(o, PushedBack(fixed[o], x))
  BY SetIsWhole DEF PushBack
<1>2. PICK c : Shows(c) /\ c \in [Obj -> Short]
               /\ \A q \in Obj : fixed[q] = Image(c[q]) /\ c[q] \in Short /\ c[q] \in Seq(Value) /\ Len(c[q]) \in Nat
  BY <1>1, ShownNow
<1> DEFINE s == c[o]  t == Append(s, x)
<1>3. s \in Short /\ s \in Seq(Value) /\ Len(s) \in Nat /\ Len(s) + 1 <= Room /\ fixed[o] = Image(s)
  BY <1>1, <1>2, ImageFields DEF Fits
<1>4. PushedBack(Image(s), x) = Image(t) /\ t \in Short
  BY <1>3, PushesImage
<1>5. t = Spliced(s, Len(s), Len(s), Copies(1, x))
  <2>1. Copies(1, x) \in Seq(Value) /\ Len(Copies(1, x)) = 1 /\ \A j \in 1 .. 1 : Copies(1, x)[j] = x
    BY CopiesSeq
  <2> DEFINE r == Copies(1, x)
  <2> HIDE DEF r
  <2>2. r = <<x>>
    BY <2>1 DEF r
  <2>3. t = s \o <<x>>
    BY <1>3, AppendIsConcat
  <2> QED
    BY <1>3, <2>1, <2>2, <2>3, SplicedAtEnd DEF r
<1> HIDE DEF t
<1>6. Turns(c, Put(c, o, t)) /\ SlotsInv'
  BY <1>1, <1>2, <1>3, <1>4, SetPuts
<1>7. Len(s) \in 0 .. Len(s) /\ Put(c, o, t) = Put(c, o, Spliced(c[o], Len(s), Len(s), Copies(1, x)))
  BY <1>3, <1>5
<1>8. VectorStep
  BY <1>2, <1>6, <1>7, GrowStep
<1> QED
  BY <1>6, <1>8 DEF StepRight

LEMMA WeedRight ==
  ASSUME StaticConstants, SlotsInv, NEW o \in Obj, NEW x \in Value, Weed(o, x)
  PROVE  StepRight
<1>1. Whole /\ Set(o, Weeded(fixed[o], x))
  BY SetIsWhole DEF Weed
<1>2. PICK c : Shows(c) /\ c \in [Obj -> Short]
               /\ \A q \in Obj : fixed[q] = Image(c[q]) /\ c[q] \in Short /\ c[q] \in Seq(Value) /\ Len(c[q]) \in Nat
  BY <1>1, ShownNow
<1> DEFINE t == Without(c[o], x)
<1>3. Weeded(fixed[o], x) = Image(t) /\ t \in Short
  BY <1>2, WeedsImage
<1>4. PICK f : Keeps(t, c[o], Len(c[o]), x, f)
  BY <1>2, WeedsImage
<1> HIDE DEF t
<1>5. Turns(c, Put(c, o, t)) /\ SlotsInv'
  BY <1>1, <1>2, <1>3, SetPuts
<1>6. Promise!Remove(o, x)
  BY <1>2, <1>4, <1>5, RemoveCall
<1> QED
  BY <1>5, <1>6, OtherCall, CallStep DEF StepRight

LEMMA PopBackRight ==
  ASSUME StaticConstants, SlotsInv, NEW o \in Obj, PopBack(o)
  PROVE  StepRight
<1>1. Whole /\ fixed[o].size > 0 /\ Set(o, Erased(fixed[o], fixed[o].size - 1, fixed[o].size))
  BY SetIsWhole DEF PopBack
<1>2. PICK c : Shows(c) /\ c \in [Obj -> Short]
               /\ \A q \in Obj : fixed[q] = Image(c[q]) /\ c[q] \in Short /\ c[q] \in Seq(Value) /\ Len(c[q]) \in Nat
  BY <1>1, ShownNow
<1> DEFINE n == Len(c[o])  t == Spliced(c[o], n - 1, n, <<>>)
<1>3. n \in Nat /\ n > 0 /\ Set(o, Erased(Image(c[o]), n - 1, n))
  BY <1>1, <1>2, ImageFields
<1>4. n - 1 \in 0 .. Len(c[o]) /\ n \in n - 1 .. Len(c[o]) /\ n - 1 < n
  BY <1>3
<1>5. Erased(Image(c[o]), n - 1, n) = Image(t) /\ t \in Short
  BY <1>2, <1>4, ErasesImage
<1> HIDE DEF t
<1>6. Turns(c, Put(c, o, t)) /\ SlotsInv'
  BY <1>1, <1>2, <1>3, <1>5, SetPuts
<1>7. VectorStep
  BY <1>2, <1>4, <1>6, ShrinkStep DEF t
<1> QED
  BY <1>6, <1>7 DEF StepRight

LEMMA EraseRight ==
  ASSUME StaticConstants, SlotsInv, NEW o \in Obj, NEW i \in 0 .. Room, NEW j \in 0 .. Room, Erase(o, i, j)
  PROVE  StepRight
<1>1. Whole /\ i < j /\ j <= fixed[o].size /\ Set(o, Erased(fixed[o], i, j))
  BY SetIsWhole DEF Erase
<1>2. PICK c : Shows(c) /\ c \in [Obj -> Short]
               /\ \A q \in Obj : fixed[q] = Image(c[q]) /\ c[q] \in Short /\ c[q] \in Seq(Value) /\ Len(c[q]) \in Nat
  BY <1>1, ShownNow
<1> DEFINE t == Spliced(c[o], i, j, <<>>)
<1>3. Len(c[o]) \in Nat /\ j <= Len(c[o]) /\ Set(o, Erased(Image(c[o]), i, j)) /\ i \in Nat /\ j \in Nat
  BY <1>1, <1>2, ImageFields DEF StaticConstants
<1>4. i \in 0 .. Len(c[o]) /\ j \in i .. Len(c[o])
  BY <1>1, <1>3
<1>5. Erased(Image(c[o]), i, j) = Image(t) /\ t \in Short
  BY <1>2, <1>4, ErasesImage
<1> HIDE DEF t
<1>6. Turns(c, Put(c, o, t)) /\ SlotsInv'
  BY <1>1, <1>2, <1>3, <1>5, SetPuts
<1>7. VectorStep
  BY <1>1, <1>2, <1>4, <1>6, ShrinkStep DEF t
<1> QED
  BY <1>6, <1>7 DEF StepRight

LEMMA ClearRight ==
  ASSUME StaticConstants, SlotsInv, NEW o \in Obj, Clear(o)
  PROVE  StepRight
<1>1. Whole /\ Set(o, Holding(Cleared(fixed[o]), 0))
  BY SetIsWhole DEF Clear
<1>2. PICK c : Shows(c) /\ c \in [Obj -> Short]
               /\ \A q \in Obj : fixed[q] = Image(c[q]) /\ c[q] \in Short /\ c[q] \in Seq(Value) /\ Len(c[q]) \in Nat
  BY <1>1, ShownNow
<1>3. Set(o, Image(<<>>)) /\ <<>> \in Short
  BY <1>1, <1>2, ClearsImage, EmptyImage
<1>4. Turns(c, Put(c, o, <<>>)) /\ SlotsInv'
  BY <1>1, <1>2, <1>3, SetPuts
<1>5. CASE Len(c[o]) = 0
  <2>1. c[o] = <<>>
    BY <1>2, <1>5, EmptySeq
  <2> QED
    BY <1>4, <2>1, SameStep DEF StepRight
<1>6. CASE Len(c[o]) # 0
  <2> DEFINE n == Len(c[o])
  <2>1. 0 \in 0 .. n /\ n \in 0 .. n /\ 0 < n /\ c[o] \in Seq(Value)
    BY <1>2, <1>6
  <2>2. Spliced(c[o], 0, n, <<>>) = <<>>
    <3>1. Spliced(c[o], 0, n, <<>>) = SubSeq(c[o], 1, 0)
      BY <2>1, SplicedToEnd
    <3>2. SubSeq(c[o], 1, 0) \in Seq(Value) /\ Len(SubSeq(c[o], 1, 0)) = 0
      BY <2>1, FirstOnes
    <3> QED
      BY <3>1, <3>2, EmptySeq
  <2>3. VectorStep
    BY <1>2, <1>4, <2>1, <2>2, ShrinkStep
  <2> QED
    BY <1>4, <2>3 DEF StepRight
<1> QED
  BY <1>5, <1>6
LEMMA ResizeRight ==
  ASSUME StaticConstants, SlotsInv, NEW o \in Obj, NEW n \in Nat, NEW x \in Value, Resize(o, n, x)
  PROVE  StepRight
<1>1. Whole /\ n <= Room /\ Set(o, Resized(fixed[o], n, x))
  BY SetIsWhole DEF Resize, Fits
<1>2. PICK c : Shows(c) /\ c \in [Obj -> Short]
               /\ \A q \in Obj : fixed[q] = Image(c[q]) /\ c[q] \in Short /\ c[q] \in Seq(Value) /\ Len(c[q]) \in Nat
  BY <1>1, ShownNow
<1> DEFINE t == Extended(c[o], n, x)
<1>3. Resized(fixed[o], n, x) = Image(t) /\ t \in Short /\ Len(t) = n
  BY <1>1, <1>2, ResizesImage
<1> DEFINE d == Put(c, o, t)
<1> HIDE DEF t
<1>4. Turns(c, d) /\ SlotsInv' /\ Len(d[o]) = n
  <2>1. Turns(c, d) /\ SlotsInv'
    BY <1>1, <1>2, <1>3, SetPuts
  <2> QED
    BY <1>2, <1>3, <2>1 DEF Put
<1> HIDE DEF d
<1>5. Promise!Resize(o, n, x)
  BY <1>4, ResizeCall DEF d, t
<1> QED
  BY <1>4, <1>5, FillCall, CallStep DEF StepRight

\* An object is assigned, or built from, n copies or a given list.
LEMMA AssignsRight ==
  ASSUME StaticConstants, SlotsInv, NEW o \in Obj, NEW t \in Seq(Value), Fits(Len(t)),
         Set(o, Assigned(fixed[o], t)) \/ Set(o, Built(t)),
         t \in Given \/ \E n \in Nat, x \in Value : t = Copies(n, x)
  PROVE  StepRight
<1>1. Whole /\ t \in Short
  BY SetIsWhole DEF Fits, Short
<1>2. PICK c : Shows(c) /\ c \in [Obj -> Short]
               /\ \A q \in Obj : fixed[q] = Image(c[q]) /\ c[q] \in Short /\ c[q] \in Seq(Value) /\ Len(c[q]) \in Nat
  BY <1>1, ShownNow
<1>3. Assigned(fixed[o], t) = Image(t) /\ Built(t) = Image(t)
  BY <1>1, <1>2, AssignsImage
<1> DEFINE d == Put(c, o, t)
<1>4. Turns(c, d) /\ SlotsInv'
  BY <1>1, <1>2, <1>3, SetPuts
<1>5. d[o] = t
  BY <1>2 DEF Put
<1> HIDE DEF d
<1>6. Promise!Assign(o, t)
  BY <1>4, AssignCall DEF d
<1>7. CASE t \in Given
  BY <1>4, <1>6, <1>7, OtherCall, CallStep DEF StepRight
<1>8. ASSUME NEW n \in Nat, NEW x \in Value, t = Copies(n, x) PROVE StepRight
  <2>1. Len(d[o]) = n
    BY <1>5, <1>8, CopiesSeq
  <2>2. t = Promise!Copies(Len(d[o]), x)
    BY <1>8, <2>1 DEF Copies, Promise!Copies
  <2>3. Promise!Assign(o, Promise!Copies(Len(d[o]), x))
    BY <1>6, <2>2
  <2> QED
    BY <1>4, <2>3, FillCall, CallStep DEF StepRight
<1> QED
  BY <1>7, <1>8

LEMMA InsertRight ==
  ASSUME StaticConstants, SlotsInv, NEW o \in Obj, NEW i \in Nat, NEW x \in Value, Insert(o, i, x)
  PROVE  StepRight
<1>1. Whole /\ fixed[o].size + 1 <= Room /\ i <= fixed[o].size /\ Set(o, Inserted(fixed[o], i, x))
  BY SetIsWhole DEF Insert, Fits
<1>2. PICK c : Shows(c) /\ c \in [Obj -> Short]
               /\ \A q \in Obj : fixed[q] = Image(c[q]) /\ c[q] \in Short /\ c[q] \in Seq(Value) /\ Len(c[q]) \in Nat
  BY <1>1, ShownNow
<1>3. Len(c[o]) + 1 <= Room /\ i \in 0 .. Len(c[o]) /\ Set(o, Inserted(Image(c[o]), i, x))
  BY <1>1, <1>2, ImageFields
<1> DEFINE t == Spliced(c[o], i, i, <<x>>)
<1>4. Inserted(Image(c[o]), i, x) = Image(t) /\ t \in Short
  BY <1>2, <1>3, InsertsImage
<1>5. t = Spliced(c[o], i, i, Copies(1, x))
  <2>1. Copies(1, x) \in Seq(Value) /\ Len(Copies(1, x)) = 1 /\ \A j \in 1 .. 1 : Copies(1, x)[j] = x
    BY CopiesSeq
  <2> DEFINE r == Copies(1, x)
  <2> HIDE DEF r
  <2>2. r = <<x>>
    BY <2>1 DEF r
  <2> QED
    BY <2>2 DEF r
<1> HIDE DEF t
<1>6. Turns(c, Put(c, o, t)) /\ SlotsInv'
  BY <1>1, <1>2, <1>3, <1>4, SetPuts
<1>7. Put(c, o, t) = Put(c, o, Spliced(c[o], i, i, Copies(1, x)))
  BY <1>5
<1>8. VectorStep
  BY <1>2, <1>3, <1>6, <1>7, GrowStep
<1> QED
  BY <1>6, <1>8 DEF StepRight

LEMMA InsertManyRight ==
  ASSUME StaticConstants, SlotsInv, NEW o \in Obj, NEW i \in Nat, NEW n \in Nat, NEW x \in Value, InsertMany(o, i, n, x)
  PROVE  StepRight
<1>1. Whole /\ fixed[o].size + n <= Room /\ i <= fixed[o].size /\ (n > 0 \/ i = fixed[o].size)
      /\ Set(o, InsertedMany(fixed[o], i, n, x))
  BY SetIsWhole DEF InsertMany, Fits
<1>2. PICK c : Shows(c) /\ c \in [Obj -> Short]
               /\ \A q \in Obj : fixed[q] = Image(c[q]) /\ c[q] \in Short /\ c[q] \in Seq(Value) /\ Len(c[q]) \in Nat
  BY <1>1, ShownNow
<1>3. Len(c[o]) + n <= Room /\ i \in 0 .. Len(c[o]) /\ (n > 0 \/ i = Len(c[o]))
      /\ Set(o, InsertedMany(Image(c[o]), i, n, x))
  <2>1. fixed[o] = Image(c[o]) /\ fixed[o].size = Len(c[o]) /\ Len(c[o]) \in Nat
    BY <1>2, ImageFields
  <2>2. Set(o, InsertedMany(Image(c[o]), i, n, x))
    BY <1>1, <2>1
  <2> QED
    BY <1>1, <2>1, <2>2
<1> DEFINE t == Spliced(c[o], i, i, Copies(n, x))
<1>4. InsertedMany(Image(c[o]), i, n, x) = Image(t) /\ t \in Short
  BY <1>2, <1>3, InsertsManyImage
<1> HIDE DEF t
<1>5. Turns(c, Put(c, o, t)) /\ SlotsInv'
  BY <1>1, <1>2, <1>3, <1>4, SetPuts
<1>6. VectorStep
  BY <1>2, <1>3, <1>5, GrowStep DEF t
<1> QED
  BY <1>5, <1>6 DEF StepRight

\* The call that leaves an object torn: nothing is promised afterwards.
LEMMA InsertNoneRight ==
  ASSUME NEW o, NEW i, NEW x, InsertNone(o, i, x)
  PROVE  StepRight
<1>1. Whole /\ status' = "torn"
  BY DEF InsertNone
<1>2. ~Whole' /\ SlotsInv'
  BY <1>1 DEF Whole, SlotsInv
<1>3. Promise!Next
  BY <1>1, <1>2 DEF Promise!Next
<1> QED
  BY <1>2, <1>3 DEF StepRight, VectorStep

\* One object takes what another holds.
LEMMA CopiesRight ==
  ASSUME StaticConstants, SlotsInv, NEW o \in Obj, NEW p \in Obj, CopyAssign(o, p) \/ CopyConstruct(o, p)
  PROVE  StepRight
<1>1. Whole /\ (Set(o, Assigned(fixed[o], Elements(fixed[p]))) \/ Set(o, Built(Elements(fixed[p]))))
  BY SetIsWhole DEF CopyAssign, CopyConstruct
<1>2. PICK c : Shows(c) /\ c \in [Obj -> Short]
               /\ \A q \in Obj : fixed[q] = Image(c[q]) /\ c[q] \in Short /\ c[q] \in Seq(Value) /\ Len(c[q]) \in Nat
  BY <1>1, ShownNow
<1>3. /\ Assigned(fixed[o], Elements(fixed[p])) = Image(c[p])
      /\ Built(Elements(fixed[p])) = Image(c[p])
  BY <1>2, ElementsOfImage, AssignsImage
<1>4. Turns(c, Put(c, o, c[p])) /\ SlotsInv'
  BY <1>1, <1>2, <1>3, SetPuts
<1>5. Promise!Copy(o, p)
  BY <1>4, CopyCall
<1> QED
  BY <1>4, <1>5, OtherCall, CallStep DEF StepRight

LEMMA MovesRight ==
  ASSUME StaticConstants, SlotsInv, NEW o \in Obj, NEW p \in Obj, MoveAssign(o, p) \/ MoveConstruct(o, p)
  PROVE  StepRight
<1>1. /\ Whole
      /\ \/ SetBoth(o, p, Assigned(fixed[o], Elements(fixed[p])), Drained(fixed[p]))
         \/ SetBoth(o, p, Built(Elements(fixed[p])), Drained(fixed[p]))
  BY SetBothIsWhole DEF MoveAssign, MoveConstruct
<1>2. PICK c : Shows(c) /\ c \in [Obj -> Short]
               /\ \A q \in Obj : fixed[q] = Image(c[q]) /\ c[q] \in Short /\ c[q] \in Seq(Value) /\ Len(c[q]) \in Nat
  BY <1>1, ShownNow
<1>3. /\ Assigned(fixed[o], Elements(fixed[p])) = Image(c[p])
      /\ Built(Elements(fixed[p])) = Image(c[p])
      /\ Drained(fixed[p]) = Image(<<>>) /\ <<>> \in Short
  BY <1>2, ElementsOfImage, AssignsImage, DrainsImage, EmptyImage
<1> DEFINE d == [c EXCEPT ![o] = c[p], ![p] = <<>>]
<1>4. SetBoth(o, p, Image(c[p]), Image(<<>>))
  BY <1>1, <1>3
<1>5. o # p /\ Turns(c, d) /\ SlotsInv'
  BY <1>1, <1>2, <1>3, <1>4, SetBothShown, TurnsInv
<1>6. Promise!Move(o, p)
  BY <1>5, MoveCall
<1> QED
  BY <1>5, <1>6, OtherCall, CallStep DEF StepRight

LEMMA SwapRight ==
  ASSUME StaticConstants, SlotsInv, NEW o \in Obj, NEW p \in Obj, Swap(o, p)
  PROVE  StepRight
<1>1. Whole /\ SetBoth(o, p, SwappedWith(fixed[o], fixed[p]), SwappedWith(fixed[p], fixed[o]))
  BY SetBothIsWhole DEF Swap
<1>2. PICK c : Shows(c) /\ c \in [Obj -> Short]
               /\ \A q \in Obj : fixed[q] = Image(c[q]) /\ c[q] \in Short /\ c[q] \in Seq(Value) /\ Len(c[q]) \in Nat
  BY <1>1, ShownNow
<1>3. SwappedWith(fixed[o], fixed[p]) = Image(c[p]) /\ SwappedWith(fixed[p], fixed[o]) = Image(c[o])
  BY <1>2, SwapsImage
<1> DEFINE d == [c EXCEPT ![o] = c[p], ![p] = c[o]]
<1>4. SetBoth(o, p, Image(c[p]), Image(c[o]))
  BY <1>1, <1>3
<1>5. Turns(c, d) /\ SlotsInv'
  BY <1>1, <1>2, <1>4, SetBothShown, TurnsInv
<1>6. Promise!Swap(o, p)
  BY <1>5, SwapCall
<1> QED
  BY <1>5, <1>6, OtherCall, CallStep DEF StepRight

LEMMA NextRight == ASSUME StaticConstants, SlotsInv, Next PROVE StepRight
<1>1. PICK o \in Obj :
        \/ \E x \in Value : PushBack(o, x) \/ Weed(o, x)
        \/ PopBack(o) \/ Clear(o)
        \/ \E n \in 0 .. Room + 1, x \in Value :
             \/ Resize(o, n, x) \/ Insert(o, n, x) \/ InsertNone(o, n, x) \/ Assign(o, Copies(n, x))
             \/ \E i \in 0 .. Room : InsertMany(o, i, n, x)
        \/ \E s \in Given : Assign(o, s) \/ Construct(o, s)
        \/ \E i, j \in 0 .. Room : Erase(o, i, j)
        \/ \E p \in Obj : \/ CopyAssign(o, p) \/ MoveAssign(o, p) \/ Swap(o, p)
                          \/ CopyConstruct(o, p) \/ MoveConstruct(o, p)
  BY DEF Next
<1>2. ASSUME NEW x \in Value, PushBack(o, x) \/ Weed(o, x) PROVE StepRight
  BY <1>2, PushBackRight, WeedRight
<1>3. CASE PopBack(o) \/ Clear(o)
  BY <1>3, PopBackRight, ClearRight
<1>4. ASSUME NEW n \in 0 .. Room + 1, NEW x \in Value,
             Resize(o, n, x) \/ Insert(o, n, x) \/ InsertNone(o, n, x) \/ Assign(o, Copies(n, x))
      PROVE  StepRight
  <2>1. n \in Nat
    BY DEF StaticConstants
  <2>2. CASE Assign(o, Copies(n, x))
    <3>1. Copies(n, x) \in Seq(Value)
      BY <2>1, CopiesSeq
    <3>2. Fits(Len(Copies(n, x))) /\ Set(o, Assigned(fixed[o], Copies(n, x)))
      BY <2>2 DEF Assign
    <3> QED
      BY <2>1, <3>1, <3>2, AssignsRight
  <2> QED
    BY <1>4, <2>1, <2>2, ResizeRight, InsertRight, InsertNoneRight
<1>5. ASSUME NEW n \in 0 .. Room + 1, NEW x \in Value, NEW i \in 0 .. Room, InsertMany(o, i, n, x) PROVE StepRight
  <2>1. n \in Nat /\ i \in Nat
    BY DEF StaticConstants
  <2> QED
    BY <1>5, <2>1, InsertManyRight
<1>6. ASSUME NEW s \in Given, Assign(o, s) \/ Construct(o, s) PROVE StepRight
  <2>1. s \in Seq(Value)
    BY DEF StaticConstants
  <2>2. Fits(Len(s)) /\ (Set(o, Assigned(fixed[o], s)) \/ Set(o, Built(s)))
    BY <1>6 DEF Assign, Construct
  <2> QED
    BY <2>1, <2>2, AssignsRight
<1>7. ASSUME NEW i \in 0 .. Room, NEW j \in 0 .. Room, Erase(o, i, j) PROVE StepRight
  BY <1>7, EraseRight
<1>8. ASSUME NEW p \in Obj, CopyAssign(o, p) \/ MoveAssign(o, p) \/ Swap(o, p)
                            \/ CopyConstruct(o, p) \/ MoveConstruct(o, p)
      PROVE  StepRight
  BY <1>8, CopiesRight, MovesRight, SwapRight
<1> QED
  BY <1>1, <1>2, <1>3, <1>4, <1>5, <1>6, <1>7, <1>8

LEMMA StutterRight == ASSUME SlotsInv, UNCHANGED staticVars PROVE StepRight
<1>1. fixed' = fixed /\ status' = status
  BY DEF staticVars
<1>2. SlotsInv'
  BY <1>1 DEF SlotsInv, Shows, Whole
<1>3. Content' = Content /\ Whole' = Whole
  BY <1>1 DEF Content, Whole
<1> QED
  BY <1>2, <1>3 DEF StepRight, VectorStep, Content

LEMMA InitRight ==
  ASSUME StaticConstants, Init
  PROVE  SlotsInv /\ Promise!Init
<1> DEFINE c == [o \in Obj |-> <<>>]
<1>1. c \in [Obj -> Short] /\ fixed = [o \in Obj |-> Image(c[o])] /\ Whole
  BY EmptyImage DEF Init, Whole
<1>2. Shows(c)
  BY <1>1 DEF Shows
<1> HIDE DEF c
<1>3. SlotsInv
  BY <1>2 DEF SlotsInv, Init
<1>4. Content = c
  BY <1>1, <1>2, ContentShown
<1>5. Content \in [Obj -> {<<>>} \cup Given] /\ Whole = TRUE
  BY <1>1, <1>4 DEF c
<1> QED
  BY <1>3, <1>5 DEF Promise!Init, Content

-----------------------------------------------------------------------------
\* Whatever is called, each object is the image of the sequence it stands for
\* (static_vectra.hpp: every operation constructs, moves and destroys exactly what it must), until
\* insert of no copies tears one.
THEOREM SlotsInvariance == ASSUME StaticConstants PROVE Spec => []SlotsInv
<1>1. Init => SlotsInv
  BY InitRight
<1>2. SlotsInv /\ [Next]_staticVars => SlotsInv'
  BY NextRight, StutterRight DEF StepRight
<1> QED
  BY <1>1, <1>2, PTL DEF Spec

\* The first size slots of an object hold elements and the others none: no call leaks an element,
\* constructs over one or destroys one twice (static_vectra.hpp:556-629, the moves of the tail).
THEOREM SlotsAlwaysHeld == ASSUME StaticConstants PROVE Spec => []SlotsHeld
<1>1. SlotsInv => SlotsHeld
  <2> SUFFICES ASSUME SlotsInv, Whole, NEW o \in Obj PROVE Holds(fixed[o].slots, fixed[o].size)
    BY DEF SlotsHeld
  <2>1. PICK s : s \in Short /\ fixed[o] = Image(s) /\ s \in Seq(Value) /\ Len(s) \in Nat
    BY ShownNow
  <2>2. fixed[o].slots = Row(Room, s) /\ fixed[o].size = Len(s)
    BY <2>1, ImageFields
  <2>3. Room \in Nat /\ \A i \in 1 .. Len(s) : s[i] \in Value
    BY <2>1, SeqFacts DEF StaticConstants
  <2>4. DOMAIN Row(Room, s) = 0 .. Room - 1
        /\ \A i \in 0 .. Room - 1 : Row(Room, s)[i] = IF i < Len(s) THEN s[i + 1] ELSE Raw
    BY <2>1, <2>3, RowSlots
  <2> QED
    BY <2>1, <2>2, <2>3, <2>4 DEF Holds
<1> QED
  BY <1>1, SlotsInvariance, PTL

\* A static_vectra is a vector: each call does to the sequences what Vector.tla says it does, for
\* every N (static_vectra.hpp), and after the call that tears an object nothing more is promised.
THEOREM StaticVectraIsVector == ASSUME StaticConstants PROVE Spec => ImplementsVector
<1>1. Init => Promise!Init
  BY InitRight
<1>2. SlotsInv /\ [Next]_staticVars => VectorStep
  BY NextRight, StutterRight DEF StepRight
<1>3. VectorStep <=> [Promise!Next]_<<[o \in Obj |-> IF Whole THEN Elements(fixed[o]) ELSE <<>>], Whole>>
  BY DEF VectorStep, Content
<1> QED
  BY <1>1, <1>2, <1>3, SlotsInvariance, PTL DEF Spec, ImplementsVector, Promise!VectorSpec
=============================================================================
