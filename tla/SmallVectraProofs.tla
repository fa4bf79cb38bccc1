------------------------- MODULE SmallVectraProofs -------------------------
(***************************************************************************)
(* For every number of inline elements, every set of objects and of        *)
(* elements: the slots of a small_vectra below its size hold elements and  *)
(* the others none, inline or on the heap, and each object is a vector.    *)
(* Body(cap, b, n, l) is an object whose storage of cap slots is b: inline *)
(* when cap is Inline, and else on the heap with no element inline.        *)
(* IsObject(v, s): the storage of v holds the sequence s and nothing else. *)
(* The calls take objects to objects, whichever storage they are in and    *)
(* whichever they move to (the lemmas about Reallocated, Shrunk, Stolen,   *)
(* Swapped, ...).                                                          *)
(***************************************************************************)
EXTENDS SmallVectra, SlotsProofs, FiniteSetTheorems

Caps == {n \in Nat : n >= Inline}

Body(cap, b, n, l) ==
  IF cap = Inline THEN [inner |-> b, heap |-> <<>>, size |-> n, left |-> l]
                  ELSE [inner |-> RawSlots(Inline), heap |-> b, size |-> n, left |-> l]

Object(cap, s, l) == Body(cap, Row(cap, s), Len(s), l)

IsObject(v, s) ==
  s \in Seq(Value) /\ \E cap \in Caps : \E l : Len(s) <= cap /\ v = Object(cap, s, l)

\* The object holds nothing, as after free_heap and as a new one does; its size is yet to be set.
IsBare(v, n) == \E l : v = Body(Inline, RawSlots(Inline), n, l)

LEMMA CapsFacts ==
  ASSUME SmallConstants
  PROVE  Inline \in Caps /\ Inline \in Nat /\ Inline > 0 /\ \A cap \in Caps : cap \in Nat /\ cap >= Inline /\ cap > 0
BY DEF SmallConstants, Caps

LEMMA BodyFields ==
  ASSUME SmallConstants, NEW cap \in Caps, NEW b, DOMAIN b = 0 .. cap - 1, NEW n, NEW l
  PROVE  /\ Body(cap, b, n, l).size = n
         /\ OnHeap(Body(cap, b, n, l)) <=> cap # Inline
         /\ Buffer(Body(cap, b, n, l)) = b
         /\ Capacity(Body(cap, b, n, l)) = cap
         /\ cap # Inline => Body(cap, b, n, l).heap = b /\ Body(cap, b, n, l).inner = RawSlots(Inline)
         /\ cap = Inline => Body(cap, b, n, l).inner = b /\ Body(cap, b, n, l).heap = <<>>
<1> DEFINE v == Body(cap, b, n, l)
<1>1. cap \in Nat /\ cap > 0
  BY CapsFacts
<1>2. v.size = n
  BY DEF Body
<1>3. cap # Inline => v.heap = b /\ v.inner = RawSlots(Inline)
  BY DEF Body
<1>4. cap = Inline => v.inner = b /\ v.heap = <<>>
  BY DEF Body
<1>5. 0 \in DOMAIN b
  BY <1>1
<1>6. DOMAIN <<>> = {}
  OBVIOUS
<1> HIDE DEF v
<1>7. OnHeap(v) <=> cap # Inline
  BY <1>3, <1>4, <1>5, <1>6 DEF OnHeap
<1>8. Buffer(v) = b
  BY <1>3, <1>4, <1>7 DEF Buffer
<1>9. Capacity(v) = cap
  <2>1. Cardinality(0 .. cap - 1) = (IF 0 > cap - 1 THEN 0 ELSE cap - 1 - 0 + 1)
    BY <1>1, FS_Interval
  <2>2. Cardinality(0 .. cap - 1) = cap
    BY <1>1, <2>1
  <2> QED
    BY <1>8, <2>2 DEF Capacity
<1> QED
  BY <1>2, <1>3, <1>4, <1>7, <1>8, <1>9 DEF v

LEMMA BodyWith ==
  ASSUME SmallConstants, NEW cap \in Caps, NEW b, DOMAIN b = 0 .. cap - 1, NEW n, NEW l, NEW d, NEW k
  PROVE  /\ With(Body(cap, b, n, l), d) = Body(cap, d, n, l)
         /\ [Body(cap, b, n, l) EXCEPT !.size = k] = Body(cap, b, k, l)
<1>1. OnHeap(Body(cap, b, n, l)) <=> cap # Inline
  BY BodyFields
<1>2. CASE cap = Inline
  BY <1>1, <1>2 DEF Body, With
<1>3. CASE cap # Inline
  BY <1>1, <1>3 DEF Body, With
<1> QED
  BY <1>2, <1>3

LEMMA BodySized ==
  ASSUME NEW cap, NEW b, NEW n, NEW l, NEW k
  PROVE  [Body(cap, b, n, l) EXCEPT !.size = k] = Body(cap, b, k, l)
<1>1. CASE cap = Inline
  BY <1>1 DEF Body
<1>2. CASE cap # Inline
  BY <1>2 DEF Body
<1> QED
  BY <1>1, <1>2

\* free_heap, of an object whose storage is raw.
LEMMA BodyFreed ==
  ASSUME SmallConstants, NEW cap \in Caps, NEW n, NEW l
  PROVE  IsBare(Freed(Body(cap, RawSlots(cap), n, l)), n)
<1>1. DOMAIN RawSlots(cap) = 0 .. cap - 1
  BY DEF RawSlots
<1>2. OnHeap(Body(cap, RawSlots(cap), n, l)) <=> cap # Inline
  BY <1>1, BodyFields
<1>3. CASE cap = Inline
  BY <1>2, <1>3 DEF Freed, IsBare
<1>4. CASE cap # Inline
  <2> DEFINE b == RawSlots(cap)  r == Remains(b)  v == Body(cap, b, n, l)
  <2>1. v = [inner |-> RawSlots(Inline), heap |-> b, size |-> n, left |-> l]
    BY <1>4 DEF Body
  <2>2. v.heap = b /\ OnHeap(v)
    BY <1>2, <1>4, <2>1
  <2> HIDE DEF v
  <2>3. Freed(v) = [v EXCEPT !.heap = <<>>, !.left = r]
    BY <2>2 DEF Freed
  <2> HIDE DEF r, b
  <2> DEFINE w == [v EXCEPT !.heap = <<>>]
  <2>4. [v EXCEPT !.heap = <<>>, !.left = r] = [inner |-> RawSlots(Inline), heap |-> <<>>, size |-> n, left |-> r]
    <3>1. w = [inner |-> RawSlots(Inline), heap |-> <<>>, size |-> n, left |-> l]
      BY <2>1
    <3>2. [v EXCEPT !.heap = <<>>, !.left = r] = [w EXCEPT !.left = r]
      OBVIOUS
    <3> HIDE DEF w
    <3> QED
      BY <3>1, <3>2
  <2>5. Freed(v) = Body(Inline, RawSlots(Inline), n, r)
    BY <2>3, <2>4 DEF Body
  <2> QED
    BY <2>5 DEF IsBare, v, b
<1> QED
  BY <1>3, <1>4

\* allocate_heap, of an object that holds nothing.
LEMMA BareGets ==
  ASSUME SmallConstants, NEW cap \in Caps, cap # Inline, NEW b, NEW n, NEW l
  PROVE  [Body(Inline, RawSlots(Inline), n, l) EXCEPT !.heap = b] = Body(cap, b, n, l)
BY DEF Body

-----------------------------------------------------------------------------
(* What the calls do to an object: reserve, assign and the constructors. *)

LEMMA ObjectFields ==
  ASSUME SmallConstants, NEW cap \in Caps, NEW s \in Seq(Value), Len(s) <= cap, NEW l
  PROVE  /\ Object(cap, s, l).size = Len(s)
         /\ OnHeap(Object(cap, s, l)) <=> cap # Inline
         /\ Buffer(Object(cap, s, l)) = Row(cap, s)
         /\ Capacity(Object(cap, s, l)) = cap
         /\ Elements(Object(cap, s, l)) = s
         /\ \A d : With(Object(cap, s, l), d) = Body(cap, d, Len(s), l)
<1>1. cap \in Nat
  BY CapsFacts
<1>2. DOMAIN Row(cap, s) = 0 .. cap - 1
  BY <1>1, RowSlots
<1>3. Listed(Row(cap, s), Len(s)) = s
  BY <1>1, ListedRow
<1>4. /\ Object(cap, s, l).size = Len(s) /\ (OnHeap(Object(cap, s, l)) <=> cap # Inline)
      /\ Buffer(Object(cap, s, l)) = Row(cap, s) /\ Capacity(Object(cap, s, l)) = cap
  BY <1>2, BodyFields DEF Object
<1>5. Elements(Object(cap, s, l)) = s
  BY <1>3, <1>4 DEF Elements
<1>6. ASSUME NEW d PROVE With(Object(cap, s, l), d) = Body(cap, d, Len(s), l)
  BY <1>2, BodyWith DEF Object
<1> QED
  BY <1>4, <1>5, <1>6

LEMMA ObjectNow ==
  ASSUME NEW cap \in Caps, NEW s \in Seq(Value), Len(s) <= cap, NEW l
  PROVE  IsObject(Object(cap, s, l), s)
BY DEF IsObject

LEMMA EmptyObject ==
  ASSUME SmallConstants, NEW cap \in Caps, NEW l
  PROVE  /\ <<>> \in Seq(Value) /\ Len(<<>>) = 0
         /\ Body(cap, RawSlots(cap), 0, l) = Object(cap, <<>>, l) /\ IsObject(Object(cap, <<>>, l), <<>>)
<1>1. <<>> \in Seq(Value) /\ Len(<<>>) = 0 /\ cap \in Nat
  BY CapsFacts, EmptySeq
<1>2. Body(cap, RawSlots(cap), 0, l) = Object(cap, <<>>, l)
  BY <1>1, RawIsRow DEF Object
<1>3. Len(<<>>) <= cap
  BY <1>1
<1> QED
  BY <1>1, <1>2, <1>3, ObjectNow

LEMMA ClearsObject ==
  ASSUME SmallConstants, NEW cap \in Caps, NEW s \in Seq(Value), Len(s) <= cap, NEW l
  PROVE  /\ Cleared(Object(cap, s, l)) = Body(cap, RawSlots(cap), Len(s), l)
         /\ [Cleared(Object(cap, s, l)) EXCEPT !.size = 0] = Object(cap, <<>>, l)
         /\ IsBare(Freed(Cleared(Object(cap, s, l))), Len(s))
<1>1. cap \in Nat
  BY CapsFacts
<1>2. Destroyed(Row(cap, s), 0, Len(s)) = RawSlots(cap)
  BY <1>1, DestroysAll
<1>3. Cleared(Object(cap, s, l)) = Body(cap, RawSlots(cap), Len(s), l)
  BY <1>2, ObjectFields DEF Cleared
<1>4. [Body(cap, RawSlots(cap), Len(s), l) EXCEPT !.size = 0] = Body(cap, RawSlots(cap), 0, l)
  BY BodySized
<1> QED
  BY <1>3, <1>4, EmptyObject, BodyFreed

LEMMA DrainsObject ==
  ASSUME SmallConstants, NEW cap \in Caps, NEW s \in Seq(Value), Len(s) <= cap
  PROVE  Drained(Row(cap, s), Len(s)) = RawSlots(cap)
<1>1. cap \in Nat /\ 0 \in 0 .. Len(s)
  BY CapsFacts, SeqFacts
<1> QED
  BY <1>1, MovedFromDestroyed, DestroysAll DEF Drained

\* An object that holds nothing allocates, and constructs s.
LEMMA BareBuilds ==
  ASSUME SmallConstants, NEW cap \in Caps, cap # Inline, NEW s \in Seq(Value), Len(s) <= cap, NEW n, NEW v, IsBare(v, n)
  PROVE  \E k : [v EXCEPT !.heap = Filled(RawSlots(cap), 0, s)] = Body(cap, Row(cap, s), n, k)
<1>1. cap \in Nat
  BY CapsFacts
<1>2. Filled(RawSlots(cap), 0, s) = Row(cap, s)
  BY <1>1, FillsRaw
<1>3. PICK k : v = Body(Inline, RawSlots(Inline), n, k)
  BY DEF IsBare
<1>4. [v EXCEPT !.heap = Row(cap, s)] = Body(cap, Row(cap, s), n, k)
  BY <1>3, BareGets
<1> QED
  BY <1>2, <1>4

LEMMA Reallocates ==
  ASSUME SmallConstants, NEW cap \in Caps, NEW s \in Seq(Value), Len(s) <= cap, NEW l,
         NEW c \in Caps, c # Inline, Len(s) <= c
  PROVE  \E k : Reallocated(Object(cap, s, l), c) = Object(c, s, k)
<1> DEFINE v == Object(cap, s, l)  r == Freed(With(v, Drained(Buffer(v), v.size)))
<1>1. Buffer(v) = Row(cap, s) /\ v.size = Len(s) /\ Elements(v) = s
      /\ With(v, RawSlots(cap)) = Body(cap, RawSlots(cap), Len(s), l)
  BY ObjectFields
<1>2. r = Freed(Body(cap, RawSlots(cap), Len(s), l))
  BY <1>1, DrainsObject
<1>3. IsBare(r, Len(s))
  BY <1>2, BodyFreed
<1>4. Reallocated(v, c) = [r EXCEPT !.heap = Filled(RawSlots(c), 0, s)]
  BY <1>1 DEF Reallocated
<1> HIDE DEF r, v
<1>5. PICK k : [r EXCEPT !.heap = Filled(RawSlots(c), 0, s)] = Body(c, Row(c, s), Len(s), k)
  BY <1>3, BareBuilds
<1> QED
  BY <1>4, <1>5 DEF Object, v

LEMMA Reserves ==
  ASSUME SmallConstants, NEW cap \in Caps, NEW s \in Seq(Value), Len(s) <= cap, NEW l, NEW n \in Nat
  PROVE  \E c \in Caps : \E k : Len(s) <= c /\ n <= c /\ Reserved(Object(cap, s, l), n) = Object(c, s, k)
<1>1. cap \in Nat /\ cap >= Inline /\ Inline \in Nat /\ Len(s) \in Nat
  BY CapsFacts, SeqFacts
<1>2. Capacity(Object(cap, s, l)) = cap
  BY ObjectFields
<1>3. CASE n > cap
  <2>1. n \in Caps /\ n # Inline /\ Len(s) <= n /\ n <= n
    BY <1>1, <1>3 DEF Caps
  <2>2. PICK k : Reallocated(Object(cap, s, l), n) = Object(n, s, k)
    BY <2>1, Reallocates
  <2> QED
    BY <1>2, <1>3, <2>1, <2>2 DEF Reserved
<1>4. CASE ~(n > cap)
  <2>1. n <= cap
    BY <1>1, <1>4
  <2> QED
    BY <1>2, <1>4, <2>1 DEF Reserved
<1> QED
  BY <1>3, <1>4

\* push_back and insert of one make room by doubling.
LEMMA Doubles ==
  ASSUME SmallConstants, NEW cap \in Caps, NEW s \in Seq(Value), Len(s) <= cap, NEW l
  PROVE  /\ NextCapacity(Object(cap, s, l)) = 2 * cap
         /\ 2 * cap \in Caps /\ 2 * cap # Inline /\ 2 * cap > cap /\ Len(s) + 1 <= 2 * cap
<1>1. cap \in Nat /\ cap >= Inline /\ Inline \in Nat /\ Inline > 0 /\ Len(s) \in Nat /\ cap > 0
  BY CapsFacts, SeqFacts
<1>2. 2 * cap \in Nat /\ 2 * cap >= Inline /\ 2 * cap # Inline /\ 2 * cap > cap /\ Len(s) + 1 <= 2 * cap
  BY <1>1
<1>3. Capacity(Object(cap, s, l)) = cap
  BY ObjectFields
<1>4. NextCapacity(Object(cap, s, l)) = 2 * cap
  BY <1>1, <1>3 DEF NextCapacity
<1> QED
  BY <1>2, <1>4 DEF Caps

\* An object that holds nothing is built from t.
LEMMA BuildsObject ==
  ASSUME SmallConstants, NEW n, NEW v, IsBare(v, n), NEW t \in Seq(Value)
  PROVE  IsObject(Built(v, t), t)
<1>1. PICK l : v = Body(Inline, RawSlots(Inline), n, l)
  BY DEF IsBare
<1> DEFINE r == IF Len(t) > Inline THEN [v EXCEPT !.heap = RawSlots(Len(t))] ELSE v
           cap == IF Len(t) > Inline THEN Len(t) ELSE Inline
<1>2. Inline \in Caps /\ Inline \in Nat /\ Len(t) \in Nat
  BY CapsFacts, SeqFacts
<1>3. cap \in Caps /\ cap \in Nat /\ Len(t) <= cap
  BY <1>2 DEF Caps
<1>4. r = Body(cap, RawSlots(cap), n, l)
  <2>1. CASE Len(t) > Inline
    <3>1. cap = Len(t) /\ cap # Inline
      BY <1>2, <2>1
    <3> QED
      BY <1>1, <1>3, <2>1, <3>1, BareGets
  <2>2. CASE ~(Len(t) > Inline)
    BY <1>1, <2>2
  <2> QED
    BY <2>1, <2>2
<1>5. DOMAIN RawSlots(cap) = 0 .. cap - 1
  BY DEF RawSlots
<1> HIDE DEF cap
<1>6. Buffer(r) = RawSlots(cap) /\ \A d : With(r, d) = Body(cap, d, n, l)
  <2>1. Buffer(Body(cap, RawSlots(cap), n, l)) = RawSlots(cap)
    BY <1>3, <1>5, BodyFields
  <2>2. ASSUME NEW d PROVE With(Body(cap, RawSlots(cap), n, l), d) = Body(cap, d, n, l)
    BY <1>3, <1>5, BodyWith
  <2> HIDE DEF r
  <2> QED
    BY <1>4, <2>1, <2>2
<1>7. Built(v, t) = [With(r, Filled(Buffer(r), 0, t)) EXCEPT !.size = Len(t)]
  BY DEF Built
<1> HIDE DEF r
<1>8. Filled(RawSlots(cap), 0, t) = Row(cap, t)
  BY <1>3, FillsRaw
<1>9. Built(v, t) = Object(cap, t, l)
  BY <1>6, <1>7, <1>8, BodySized DEF Object
<1> QED
  BY <1>3, <1>9, ObjectNow

LEMMA RenewsObject ==
  ASSUME SmallConstants, NEW cap \in Caps, NEW s \in Seq(Value), Len(s) <= cap, NEW l
  PROVE  IsBare(Renewed(Object(cap, s, l)), 0)
<1> DEFINE r == Freed(Cleared(Object(cap, s, l)))  k == r.left \cup Remains(r.inner)
<1>1. Renewed(Object(cap, s, l)) = [New EXCEPT !.left = k]
  BY DEF Renewed
<1> HIDE DEF k
<1>2. [New EXCEPT !.left = k] = Body(Inline, RawSlots(Inline), 0, k)
  BY DEF New, Body
<1> QED
  BY <1>1, <1>2 DEF IsBare

LEMMA AssignsObject ==
  ASSUME SmallConstants, NEW cap \in Caps, NEW s \in Seq(Value), Len(s) <= cap, NEW l, NEW t \in Seq(Value)
  PROVE  IsObject(Assigned(Object(cap, s, l), t), t)
<1> DEFINE v == Object(cap, s, l)  c == Cleared(v)
           r == IF Len(t) > Capacity(v) THEN [Freed(c) EXCEPT !.heap = RawSlots(Len(t))] ELSE c
<1>1. cap \in Nat /\ cap >= Inline /\ Inline \in Nat /\ Len(t) \in Nat
  BY CapsFacts, SeqFacts
<1>2. Capacity(v) = cap /\ c = Body(cap, RawSlots(cap), Len(s), l) /\ IsBare(Freed(c), Len(s))
  BY ObjectFields, ClearsObject
<1>3. \E d, k : d \in Caps /\ Len(t) <= d /\ r = Body(d, RawSlots(d), Len(s), k)
  <2>1. CASE Len(t) > cap
    <3>1. Len(t) \in Caps /\ Len(t) # Inline /\ Len(t) <= Len(t)
      BY <1>1, <2>1 DEF Caps
    <3>2. PICK k : Freed(c) = Body(Inline, RawSlots(Inline), Len(s), k)
      BY <1>2 DEF IsBare
    <3>3. [Freed(c) EXCEPT !.heap = RawSlots(Len(t))] = Body(Len(t), RawSlots(Len(t)), Len(s), k)
      BY <3>1, <3>2, BareGets
    <3>4. r = Body(Len(t), RawSlots(Len(t)), Len(s), k)
      BY <1>2, <2>1, <3>3
    <3> HIDE DEF r
    <3> QED
      BY <3>1, <3>4
  <2>2. CASE ~(Len(t) > cap)
    <3>1. Len(t) <= cap /\ r = Body(cap, RawSlots(cap), Len(s), l)
      BY <1>1, <1>2, <2>2
    <3> HIDE DEF r
    <3> QED
      BY <3>1
  <2> QED
    BY <2>1, <2>2
<1>4. Assigned(v, t) = [With(r, Filled(Buffer(r), 0, t)) EXCEPT !.size = Len(t)]
  BY DEF Assigned
<1> HIDE DEF r, v
<1>5. PICK d, k : d \in Caps /\ Len(t) <= d /\ r = Body(d, RawSlots(d), Len(s), k)
  BY <1>3
<1>6. DOMAIN RawSlots(d) = 0 .. d - 1 /\ d \in Nat
  BY <1>5, CapsFacts DEF RawSlots
<1>7. Buffer(r) = RawSlots(d)
  BY <1>5, <1>6, BodyFields
<1>8. Filled(RawSlots(d), 0, t) = Row(d, t)
  BY <1>5, <1>6, FillsRaw
<1>9. With(r, Row(d, t)) = Body(d, Row(d, t), Len(s), k)
  BY <1>5, <1>6, BodyWith
<1>10. Assigned(v, t) = Object(d, t, k)
  BY <1>4, <1>7, <1>8, <1>9, BodySized DEF Object
<1> QED
  BY <1>5, <1>10, ObjectNow DEF v

LEMMA BodySize == ASSUME NEW cap, NEW b, NEW n, NEW l PROVE Body(cap, b, n, l).size = n
BY DEF Body

LEMMA ObjectParts ==
  ASSUME SmallConstants, NEW v, NEW s, IsObject(v, s)
  PROVE  /\ s \in Seq(Value) /\ Len(s) \in Nat /\ v.size = Len(s) /\ Elements(v) = s
         /\ \E cap, l : cap \in Caps /\ cap \in Nat /\ cap >= Inline /\ Len(s) <= cap /\ v = Object(cap, s, l)
<1>1. PICK cap, l : cap \in Caps /\ s \in Seq(Value) /\ Len(s) <= cap /\ v = Object(cap, s, l)
  BY DEF IsObject
<1>2. Len(s) \in Nat /\ cap \in Nat /\ cap >= Inline
  BY <1>1, CapsFacts, SeqFacts
<1> QED
  BY <1>1, <1>2, ObjectFields

\* There is room for one more element, or the buffer is doubled.
LEMMA MakesRoom ==
  ASSUME SmallConstants, NEW cap \in Caps, NEW s \in Seq(Value), Len(s) <= cap, NEW l
  PROVE  /\ \E c, k :
              /\ c \in Caps
              /\ Len(s) + 1 <= c
              /\ Object(c, s, k) = IF Object(cap, s, l).size = Capacity(Object(cap, s, l))
                                     THEN Reallocated(Object(cap, s, l), NextCapacity(Object(cap, s, l)))
                                     ELSE Object(cap, s, l)
         /\ Reserved(Object(cap, s, l), NextCapacity(Object(cap, s, l)))
              = Reallocated(Object(cap, s, l), NextCapacity(Object(cap, s, l)))
<1> DEFINE v == Object(cap, s, l)
<1>1. cap \in Nat /\ Len(s) \in Nat
  BY CapsFacts, SeqFacts
<1>2. v.size = Len(s) /\ Capacity(v) = cap
  BY ObjectFields
<1>3. NextCapacity(v) = 2 * cap /\ 2 * cap \in Caps /\ 2 * cap # Inline /\ 2 * cap > cap /\ Len(s) + 1 <= 2 * cap
  BY Doubles
<1>4. Len(s) <= 2 * cap
  BY <1>1, <1>3
<1>5. PICK k : Reallocated(v, 2 * cap) = Object(2 * cap, s, k)
  <2> DEFINE c == 2 * cap
  <2>1. c \in Caps /\ c # Inline /\ Len(s) <= c
    BY <1>3, <1>4
  <2> HIDE DEF c
  <2>2. \E k : Reallocated(v, c) = Object(c, s, k)
    BY <2>1, Reallocates
  <2> QED
    BY <2>2 DEF c
<1> HIDE DEF v
<1>6. Reserved(v, NextCapacity(v)) = Reallocated(v, NextCapacity(v))
  BY <1>2, <1>3 DEF Reserved
<1>7. \E c, m : /\ c \in Caps
                /\ Len(s) + 1 <= c
                /\ Object(c, s, m) = IF v.size = Capacity(v) THEN Reallocated(v, NextCapacity(v)) ELSE v
  <2>1. CASE Len(s) = cap
    BY <1>2, <1>3, <1>5, <2>1
  <2>2. CASE Len(s) # cap
    <3>1. Len(s) + 1 <= cap
      BY <1>1, <2>2
    <3> QED
      BY <1>2, <2>2, <3>1 DEF v
  <2> QED
    BY <2>1, <2>2
<1> QED
  BY <1>6, <1>7 DEF v

LEMMA PushesObject ==
  ASSUME SmallConstants, NEW v, NEW s, IsObject(v, s), NEW x \in Value
  PROVE  IsObject(PushedBack(v, x), Append(s, x))
<1>1. s \in Seq(Value) /\ Len(s) \in Nat /\ v.size = Len(s)
  BY ObjectParts
<1>2. PICK cap, l : cap \in Caps /\ Len(s) <= cap /\ v = Object(cap, s, l)
  BY ObjectParts
<1> DEFINE r == IF v.size = Capacity(v) THEN Reallocated(v, NextCapacity(v)) ELSE v
<1>3. PICK c, k : c \in Caps /\ Len(s) + 1 <= c /\ r = Object(c, s, k)
  BY <1>1, <1>2, MakesRoom
<1>4. PushedBack(v, x) = [With(r, Constructed(Buffer(r), Len(s), x)) EXCEPT !.size = @ + 1]
  BY <1>1 DEF PushedBack
<1> HIDE DEF r
<1>5. c \in Nat /\ Len(s) <= c
  BY <1>1, <1>3, CapsFacts
<1>6. Append(s, x) \in Seq(Value) /\ Len(Append(s, x)) = Len(s) + 1
  BY <1>1
<1>7. Buffer(r) = Row(c, s) /\ \A d : With(r, d) = Body(c, d, Len(s), k)
  BY <1>1, <1>3, <1>5, ObjectFields
<1>8. Constructed(Row(c, s), Len(s), x) = Row(c, Append(s, x))
  BY <1>1, <1>3, <1>5, ConstructsEnd
<1>9. PushedBack(v, x) = Object(c, Append(s, x), k)
  <2> DEFINE b == Row(c, Append(s, x))
  <2>1. PushedBack(v, x) = [Body(c, b, Len(s), k) EXCEPT !.size = @ + 1]
    BY <1>4, <1>7, <1>8
  <2> HIDE DEF b
  <2> DEFINE w == Body(c, b, Len(s), k)
  <2>2. w.size = Len(s)
    BY BodySize
  <2> HIDE DEF w
  <2>3. PushedBack(v, x) = [w EXCEPT !.size = Len(s) + 1]
    BY <2>1, <2>2 DEF w
  <2>4. [w EXCEPT !.size = Len(s) + 1] = Body(c, b, Len(s) + 1, k)
    BY BodySized DEF w
  <2> QED
    BY <1>6, <2>3, <2>4 DEF Object, b
<1> QED
  BY <1>3, <1>6, <1>9, ObjectNow

LEMMA InsertsObject ==
  ASSUME SmallConstants, NEW v, NEW s, IsObject(v, s), NEW p \in 0 .. Len(s), NEW x \in Value
  PROVE  IsObject(Inserted(v, p, x), Spliced(s, p, p, <<x>>))
<1> DEFINE t == <<x>>  u == Spliced(s, p, p, t)
<1>1. s \in Seq(Value) /\ Len(s) \in Nat /\ v.size = Len(s)
  BY ObjectParts
<1>2. PICK cap, l : cap \in Caps /\ Len(s) <= cap /\ v = Object(cap, s, l)
  BY ObjectParts
<1> DEFINE r == IF v.size = Capacity(v) THEN Reserved(v, NextCapacity(v)) ELSE v
<1>3. PICK c, k : c \in Caps /\ Len(s) + 1 <= c /\ r = Object(c, s, k)
  BY <1>1, <1>2, MakesRoom
<1>4. Inserted(v, p, x) = [With(r, Constructed(Opened(Buffer(r), p, 1, Len(s)), p, x)) EXCEPT !.size = @ + 1]
  BY <1>1 DEF Inserted
<1> HIDE DEF r
<1>5. c \in Nat /\ Len(s) <= c
  BY <1>1, <1>3, CapsFacts
<1>6. t \in Seq(Value) /\ Len(t) = 1
  OBVIOUS
<1>7. Buffer(r) = Row(c, s) /\ \A d : With(r, d) = Body(c, d, Len(s), k)
  BY <1>1, <1>3, <1>5, ObjectFields
<1>8. Constructed(Opened(Row(c, s), p, 1, Len(s)), p, x) = Row(c, u)
  BY <1>1, <1>3, <1>5, InsertsInRow
<1> HIDE DEF t
<1>9. u \in Seq(Value) /\ Len(u) = Len(s) + 1
  <2>1. p \in p .. Len(s) /\ p \in Nat
    BY <1>1
  <2>2. IsSpliced(u, s, p, p, t)
    BY <1>1, <1>6, <2>1, SplicedSeq
  <2> HIDE DEF u
  <2> QED
    BY <1>1, <1>6, <2>1, <2>2 DEF IsSpliced
<1> HIDE DEF u
<1>10. Inserted(v, p, x) = Object(c, u, k)
  <2> DEFINE b == Row(c, u)
  <2>1. Inserted(v, p, x) = [Body(c, b, Len(s), k) EXCEPT !.size = @ + 1]
    BY <1>4, <1>7, <1>8
  <2> HIDE DEF b
  <2> DEFINE w == Body(c, b, Len(s), k)
  <2>2. w.size = Len(s)
    BY BodySize
  <2> HIDE DEF w
  <2>3. Inserted(v, p, x) = [w EXCEPT !.size = Len(s) + 1]
    BY <2>1, <2>2 DEF w
  <2>4. [w EXCEPT !.size = Len(s) + 1] = Body(c, b, Len(s) + 1, k)
    BY BodySized DEF w
  <2> QED
    BY <1>9, <2>3, <2>4 DEF Object, b
<1>11. Len(u) <= c
  BY <1>3, <1>9
<1> QED
  BY <1>3, <1>9, <1>10, <1>11, ObjectNow DEF u, t

LEMMA ErasesObject ==
  ASSUME SmallConstants, NEW v, NEW s, IsObject(v, s), NEW p \in 0 .. Len(s), NEW q \in p .. Len(s)
  PROVE  IsObject(Erased(v, p, q), Spliced(s, p, q, <<>>))
<1> DEFINE u == Spliced(s, p, q, <<>>)
<1>1. s \in Seq(Value) /\ Len(s) \in Nat /\ v.size = Len(s) /\ p \in Nat /\ q \in Nat /\ p <= q
      /\ <<>> \in Seq(Value) /\ Len(<<>>) = 0
  BY ObjectParts, EmptySeq
<1>2. PICK cap, l : cap \in Caps /\ cap \in Nat /\ Len(s) <= cap /\ v = Object(cap, s, l)
  BY ObjectParts
<1>3. Buffer(v) = Row(cap, s) /\ \A d : With(v, d) = Body(cap, d, Len(s), l)
  BY <1>1, <1>2, ObjectFields
<1>4. Closed(Row(cap, s), p, q, Len(s)) = Row(cap, u)
  BY <1>1, <1>2, ClosesRow
<1>5. u \in Seq(Value) /\ Len(u) = Len(s) - (q - p)
  <2>1. IsSpliced(u, s, p, q, <<>>)
    BY <1>1, SplicedSeq
  <2> HIDE DEF u
  <2> QED
    BY <1>1, <2>1 DEF IsSpliced
<1> HIDE DEF u
<1>6. Erased(v, p, q) = [Body(cap, Row(cap, u), Len(s), l) EXCEPT !.size = @ - (q - p)]
  BY <1>1, <1>3, <1>4 DEF Erased
<1>7. Erased(v, p, q) = Object(cap, u, l)
  <2> DEFINE b == Row(cap, u)
  <2>1. Erased(v, p, q) = [Body(cap, b, Len(s), l) EXCEPT !.size = @ - (q - p)]
    BY <1>6
  <2> HIDE DEF b
  <2> DEFINE w == Body(cap, b, Len(s), l)
  <2>2. w.size = Len(s)
    BY BodySize
  <2> HIDE DEF w
  <2>3. Erased(v, p, q) = [w EXCEPT !.size = Len(s) - (q - p)]
    BY <2>1, <2>2 DEF w
  <2>4. [w EXCEPT !.size = Len(s) - (q - p)] = Body(cap, b, Len(s) - (q - p), l)
    BY BodySized DEF w
  <2> QED
    BY <1>5, <2>3, <2>4 DEF Object, b
<1>8. Len(u) <= cap
  BY <1>1, <1>2, <1>5
<1> QED
  BY <1>2, <1>5, <1>7, <1>8, ObjectNow DEF u

LEMMA ReservesObject ==
  ASSUME SmallConstants, NEW v, NEW s, IsObject(v, s), NEW n \in Nat
  PROVE  IsObject(Reserved(v, n), s)
<1>1. s \in Seq(Value)
  BY ObjectParts
<1>2. PICK cap, l : cap \in Caps /\ Len(s) <= cap /\ v = Object(cap, s, l)
  BY ObjectParts
<1>3. PICK c, k : c \in Caps /\ Len(s) <= c /\ Reserved(v, n) = Object(c, s, k)
  BY <1>1, <1>2, Reserves
<1> QED
  BY <1>1, <1>3, ObjectNow

LEMMA ShrinksObject ==
  ASSUME SmallConstants, NEW v, NEW s, IsObject(v, s)
  PROVE  IsObject(Shrunk(v), s)
<1>1. s \in Seq(Value) /\ Len(s) \in Nat /\ v.size = Len(s) /\ Elements(v) = s /\ Inline \in Nat /\ Inline \in Caps
  BY ObjectParts, CapsFacts
<1>2. PICK cap, l : cap \in Caps /\ cap \in Nat /\ cap >= Inline /\ Len(s) <= cap /\ v = Object(cap, s, l)
  BY ObjectParts
<1>3. Capacity(v) = cap /\ (OnHeap(v) <=> cap # Inline)
  BY <1>1, <1>2, ObjectFields
<1>4. CASE cap # Inline /\ Len(s) <= Inline
  <2> DEFINE b == MovedFrom(v.heap, 0, Len(s))  w == With(v, b)  r == Freed(w)
  <2>1. Shrunk(v) = [r EXCEPT !.inner = Filled(@, 0, s)]
    BY <1>1, <1>3, <1>4 DEF Shrunk
  <2>2. v = [inner |-> RawSlots(Inline), heap |-> Row(cap, s), size |-> Len(s), left |-> l]
    BY <1>2, <1>4 DEF Object, Body
  <2>3. w = [inner |-> RawSlots(Inline), heap |-> b, size |-> Len(s), left |-> l]
    <3> HIDE DEF b
    <3>1. w = [v EXCEPT !.heap = b]
      BY <1>3, <1>4 DEF With
    <3> QED
      BY <2>2, <3>1
  <2>4. DOMAIN b = 0 .. cap - 1 /\ 0 \in DOMAIN b
    <3>1. v.heap = Row(cap, s)
      BY <2>2
    <3>2. DOMAIN b = DOMAIN Row(cap, s)
      BY <3>1 DEF MovedFrom
    <3>3. DOMAIN Row(cap, s) = 0 .. cap - 1 /\ cap > 0
      BY <1>1, <1>2, RowSlots, CapsFacts
    <3> QED
      BY <1>2, <3>2, <3>3
  <2> DEFINE k == Remains(w.heap)
  <2> HIDE DEF b
  <2>5. OnHeap(w)
    BY <2>3, <2>4 DEF OnHeap
  <2>6. r = [w EXCEPT !.heap = <<>>, !.left = k]
    BY <2>5 DEF Freed
  <2> HIDE DEF w, k
  <2>7. r = [inner |-> RawSlots(Inline), heap |-> <<>>, size |-> Len(s), left |-> k]
    <3> DEFINE z == [w EXCEPT !.heap = <<>>]
    <3>1. z = [inner |-> RawSlots(Inline), heap |-> <<>>, size |-> Len(s), left |-> l]
      BY <2>3
    <3>2. r = [z EXCEPT !.left = k]
      BY <2>6
    <3> HIDE DEF z
    <3> QED
      BY <3>1, <3>2
  <2> HIDE DEF r
  <2>8. [r EXCEPT !.inner = Filled(@, 0, s)] = [inner |-> Filled(RawSlots(Inline), 0, s), heap |-> <<>>, size |-> Len(s), left |-> k]
    <3> DEFINE f == Filled(RawSlots(Inline), 0, s)
    <3>1. r.inner = RawSlots(Inline)
      BY <2>7
    <3>2. [r EXCEPT !.inner = Filled(@, 0, s)] = [r EXCEPT !.inner = f]
      BY <3>1
    <3> HIDE DEF f
    <3> QED
      BY <2>7, <3>2 DEF f
  <2>9. Filled(RawSlots(Inline), 0, s) = Row(Inline, s)
    BY <1>1, <1>4, FillsRaw
  <2>10. Shrunk(v) = Object(Inline, s, k)
    BY <2>1, <2>8, <2>9 DEF Object, Body
  <2> QED
    BY <1>1, <1>4, <2>10, ObjectNow
<1>5. CASE ~(cap # Inline /\ Len(s) <= Inline) /\ Len(s) > Inline /\ Len(s) < cap
  <2>1. Shrunk(v) = Reallocated(v, Len(s))
    BY <1>1, <1>3, <1>5 DEF Shrunk
  <2>2. Len(s) \in Caps /\ Len(s) # Inline /\ Len(s) <= Len(s)
    BY <1>1, <1>5 DEF Caps
  <2>3. PICK k : Reallocated(v, Len(s)) = Object(Len(s), s, k)
    BY <1>1, <1>2, <2>2, Reallocates
  <2> QED
    BY <1>1, <2>1, <2>2, <2>3, ObjectNow
<1>6. CASE ~(cap # Inline /\ Len(s) <= Inline) /\ ~(Len(s) > Inline /\ Len(s) < cap)
  BY <1>1, <1>3, <1>6 DEF Shrunk
<1> QED
  BY <1>4, <1>5, <1>6

LEMMA ResizesObject ==
  ASSUME SmallConstants, NEW v, NEW s, IsObject(v, s), NEW n \in Nat, NEW x \in Value
  PROVE  IsObject(Resized(v, n, x), Extended(s, n, x))
<1> DEFINE t == Extended(s, n, x)  m == Len(s)
<1>1. s \in Seq(Value)
  BY ObjectParts
<1>6. m \in Nat /\ v.size = m
  BY ObjectParts
<1>2. PICK cap, l : cap \in Caps /\ cap \in Nat /\ m <= cap /\ v = Object(cap, s, l)
  BY ObjectParts
<1>3. t \in Seq(Value) /\ Len(t) = n
  BY <1>1, ExtendedSeq
<1> HIDE DEF t
<1>4. CASE n > m
  <2> DEFINE r == Reserved(v, n)
  <2>1. PICK c, k : c \in Caps /\ m <= c /\ n <= c /\ r = Object(c, s, k)
    <3>1. Len(s) <= cap /\ cap \in Caps
      BY <1>2
    <3>2. \E c \in Caps : \E k : Len(s) <= c /\ n <= c /\ Reserved(Object(cap, s, l), n) = Object(c, s, k)
      BY <1>1, <3>1, Reserves
    <3> QED
      BY <1>2, <3>2
  <2>2. Resized(v, n, x) = [With(r, Filled(Buffer(r), m, Copies(n - m, x))) EXCEPT !.size = n]
    BY <1>4, <1>6 DEF Resized
  <2> HIDE DEF r
  <2>3. c \in Nat
    BY <2>1, CapsFacts
  <2>4. Buffer(r) = Row(c, s) /\ \A d : With(r, d) = Body(c, d, m, k)
    BY <1>1, <2>1, ObjectFields
  <2>5. Filled(Row(c, s), m, Copies(n - m, x)) = Row(c, t)
    BY <1>1, <1>4, <2>1, <2>3, ExtendsRow DEF t
  <2>6. Resized(v, n, x) = Object(c, t, k)
    BY <1>3, <2>2, <2>4, <2>5, BodySized DEF Object
  <2> QED
    BY <1>3, <2>1, <2>6, ObjectNow DEF t
<1>5. CASE ~(n > m)
  <2>1. n \in 0 .. m /\ n <= cap
    BY <1>2, <1>5, <1>6
  <2>2. Resized(v, n, x) = [With(v, Destroyed(Buffer(v), n, m)) EXCEPT !.size = n]
    BY <1>5, <1>6 DEF Resized
  <2>3. Buffer(v) = Row(cap, s) /\ \A d : With(v, d) = Body(cap, d, m, l)
    BY <1>1, <1>2, ObjectFields
  <2>4. Destroyed(Row(cap, s), n, m) = Row(cap, t)
    BY <1>1, <1>2, <2>1, ShortensRow DEF t
  <2>5. Resized(v, n, x) = Object(cap, t, l)
    BY <1>3, <2>2, <2>3, <2>4, BodySized DEF Object
  <2> QED
    BY <1>2, <1>3, <2>1, <2>5, ObjectNow DEF t
<1> QED
  BY <1>4, <1>5

LEMMA WeedsObject ==
  ASSUME SmallConstants, NEW v, NEW s, IsObject(v, s), NEW x \in Value
  PROVE  IsObject(Weeded(v, x), Without(s, x)) /\ \E f : Keeps(Without(s, x), s, Len(s), x, f)
<1> DEFINE t == Without(s, x)  m == Len(s)
<1>1. s \in Seq(Value) /\ m \in Nat /\ v.size = m /\ Elements(v) = s
  BY ObjectParts
<1>2. PICK cap, l : cap \in Caps /\ cap \in Nat /\ m <= cap /\ v = Object(cap, s, l)
  BY ObjectParts
<1>3. PICK f : Keeps(t, s, m, x, f)
  BY <1>1, WithoutKeeps
<1>4. t \in Seq(Value) /\ Len(t) <= m /\ Len(t) \in Nat
  BY <1>3, SeqFacts DEF Keeps
<1>5. Buffer(v) = Row(cap, s) /\ \A d : With(v, d) = Body(cap, d, m, l)
  BY <1>1, <1>2, ObjectFields
<1> DEFINE b == [i \in DOMAIN Row(cap, s) |-> IF i < Len(t) THEN t[i + 1]
                                              ELSE IF i < m THEN Husk ELSE Row(cap, s)[i]]
           w == Body(cap, b, m, l)
<1>6. Weeded(v, x) = Erased(With(v, b), Len(t), m)
  BY <1>1, <1>5 DEF Weeded
<1> HIDE DEF t
<1>7. Closed(b, Len(t), m, m) = Row(cap, t)
  BY <1>1, <1>2, <1>4, WeedsRow
<1>8. DOMAIN b = 0 .. cap - 1
  BY <1>1, <1>2, RowSlots
<1> HIDE DEF b
<1>9. Buffer(w) = b /\ w.size = m /\ \A d : With(w, d) = Body(cap, d, m, l)
  <2>1. Buffer(w) = b /\ w.size = m
    BY <1>2, <1>8, BodyFields
  <2>2. ASSUME NEW d PROVE With(w, d) = Body(cap, d, m, l)
    BY <1>2, <1>8, BodyWith
  <2> QED
    BY <2>1, <2>2
<1>10. With(v, b) = w
  BY <1>5
<1> HIDE DEF w
<1> DEFINE z == Body(cap, Row(cap, t), m, l)
<1>11. Erased(w, Len(t), m) = [z EXCEPT !.size = @ - (m - Len(t))]
  BY <1>7, <1>9 DEF Erased
<1>12. z.size = m
  BY BodySize
<1> HIDE DEF z
<1>13. Erased(w, Len(t), m) = [z EXCEPT !.size = Len(t)]
  <2>1. m - (m - Len(t)) = Len(t)
    BY <1>1, <1>4
  <2> QED
    BY <1>11, <1>12, <2>1
<1>14. [z EXCEPT !.size = Len(t)] = Object(cap, t, l)
  BY BodySized DEF z, Object
<1>15. Weeded(v, x) = Object(cap, t, l) /\ Len(t) <= cap
  BY <1>1, <1>2, <1>4, <1>6, <1>10, <1>13, <1>14
<1>16. IsObject(Weeded(v, x), t)
  BY <1>2, <1>4, <1>15, ObjectNow
<1> QED
  BY <1>3, <1>16 DEF t

\* clear, and what stays of an object whose elements were moved out one by one.
LEMMA EmptiesObject ==
  ASSUME SmallConstants, NEW v, NEW s, IsObject(v, s)
  PROVE  /\ IsObject([Cleared(v) EXCEPT !.size = 0], <<>>)
         /\ IsObject([With(v, Drained(Buffer(v), v.size)) EXCEPT !.size = 0], <<>>)
         /\ \E n : IsBare(Freed(Cleared(v)), n)
         /\ IsBare(Renewed(v), 0)
<1>1. s \in Seq(Value) /\ v.size = Len(s)
  BY ObjectParts
<1>2. PICK cap, l : cap \in Caps /\ Len(s) <= cap /\ v = Object(cap, s, l)
  BY ObjectParts
<1>3. [Cleared(v) EXCEPT !.size = 0] = Object(cap, <<>>, l) /\ IsBare(Freed(Cleared(v)), Len(s))
  BY <1>1, <1>2, ClearsObject
<1>4. Buffer(v) = Row(cap, s) /\ With(v, RawSlots(cap)) = Body(cap, RawSlots(cap), Len(s), l)
  BY <1>1, <1>2, ObjectFields
<1>5. With(v, Drained(Buffer(v), v.size)) = Body(cap, RawSlots(cap), Len(s), l)
  BY <1>1, <1>2, <1>4, DrainsObject
<1>6. [Body(cap, RawSlots(cap), Len(s), l) EXCEPT !.size = 0] = Object(cap, <<>>, l)
  BY <1>2, BodySized, EmptyObject
<1>7. IsBare(Renewed(v), 0)
  BY <1>1, <1>2, RenewsObject
<1> QED
  BY <1>2, <1>3, <1>5, <1>6, <1>7, EmptyObject

LEMMA StealsObject ==
  ASSUME SmallConstants, NEW v, NEW n, IsBare(v, n), NEW w, NEW s, IsObject(w, s)
  PROVE  IsObject(Stolen(v, w)[1], s) /\ IsObject(Stolen(v, w)[2], <<>>)
<1>1. s \in Seq(Value) /\ Len(s) \in Nat /\ w.size = Len(s) /\ Elements(w) = s /\ Inline \in Nat /\ Inline \in Caps
  BY ObjectParts, CapsFacts
<1>2. PICK cap, l : cap \in Caps /\ Len(s) <= cap /\ w = Object(cap, s, l)
  BY ObjectParts
<1>3. OnHeap(w) <=> cap # Inline
  BY <1>1, <1>2, ObjectFields
<1>4. PICK k : v = [inner |-> RawSlots(Inline), heap |-> <<>>, size |-> n, left |-> k]
  BY DEF IsBare, Body
<1>5. CASE cap # Inline
  <2> DEFINE b == Row(cap, s)  m == Len(s)
  <2>1. w = [inner |-> RawSlots(Inline), heap |-> b, size |-> m, left |-> l]
    BY <1>2, <1>5 DEF Object, Body
  <2>2. w.heap = b
    BY <2>1
  <2>3. Stolen(v, w) = <<[v EXCEPT !.heap = b, !.size = m], [w EXCEPT !.heap = <<>>, !.size = 0]>>
    BY <1>1, <1>3, <1>5, <2>2 DEF Stolen
  <2> HIDE DEF b, m
  <2>4. [v EXCEPT !.heap = b, !.size = m] = [inner |-> RawSlots(Inline), heap |-> b, size |-> m, left |-> k]
    <3> DEFINE z == [v EXCEPT !.heap = b]
    <3>1. z = [inner |-> RawSlots(Inline), heap |-> b, size |-> n, left |-> k]
      BY <1>4
    <3>2. [v EXCEPT !.heap = b, !.size = m] = [z EXCEPT !.size = m]
      OBVIOUS
    <3> HIDE DEF z
    <3> QED
      BY <3>1, <3>2
  <2>5. [w EXCEPT !.heap = <<>>, !.size = 0] = [inner |-> RawSlots(Inline), heap |-> <<>>, size |-> 0, left |-> l]
    <3> DEFINE z == [w EXCEPT !.heap = <<>>]
    <3>1. z = [inner |-> RawSlots(Inline), heap |-> <<>>, size |-> m, left |-> l]
      BY <2>1
    <3>2. [w EXCEPT !.heap = <<>>, !.size = 0] = [z EXCEPT !.size = 0]
      OBVIOUS
    <3> HIDE DEF z
    <3> QED
      BY <3>1, <3>2
  <2>6. Stolen(v, w)[1] = Object(cap, s, k)
    BY <1>5, <2>3, <2>4 DEF Object, Body, b, m
  <2>7. Stolen(v, w)[2] = Body(Inline, RawSlots(Inline), 0, l)
    BY <2>3, <2>5 DEF Body
  <2> QED
    BY <1>1, <1>2, <2>6, <2>7, ObjectNow, EmptyObject
<1>6. CASE cap = Inline
  <2> DEFINE b == Row(Inline, s)  m == Len(s)
  <2>1. w = [inner |-> b, heap |-> <<>>, size |-> m, left |-> l]
    BY <1>2, <1>6 DEF Object, Body
  <2>2. Filled(RawSlots(Inline), 0, s) = b /\ Drained(b, m) = RawSlots(Inline)
    BY <1>1, <1>2, <1>6, FillsRaw, DrainsObject
  <2>3. v.inner = RawSlots(Inline) /\ w.inner = b
    BY <1>4, <2>1
  <2>4. Stolen(v, w) = <<[v EXCEPT !.inner = b, !.size = m], [w EXCEPT !.inner = RawSlots(Inline), !.size = 0]>>
    BY <1>1, <1>3, <1>6, <2>2, <2>3 DEF Stolen
  <2> HIDE DEF b, m
  <2>5. [v EXCEPT !.inner = b, !.size = m] = [inner |-> b, heap |-> <<>>, size |-> m, left |-> k]
    <3> DEFINE z == [v EXCEPT !.inner = b]
    <3>1. z = [inner |-> b, heap |-> <<>>, size |-> n, left |-> k]
      BY <1>4
    <3>2. [v EXCEPT !.inner = b, !.size = m] = [z EXCEPT !.size = m]
      OBVIOUS
    <3> HIDE DEF z
    <3> QED
      BY <3>1, <3>2
  <2>6. [w EXCEPT !.inner = RawSlots(Inline), !.size = 0] = [inner |-> RawSlots(Inline), heap |-> <<>>, size |-> 0, left |-> l]
    <3> DEFINE z == [w EXCEPT !.inner = RawSlots(Inline)]
    <3>1. z = [inner |-> RawSlots(Inline), heap |-> <<>>, size |-> m, left |-> l]
      BY <2>1
    <3>2. [w EXCEPT !.inner = RawSlots(Inline), !.size = 0] = [z EXCEPT !.size = 0]
      OBVIOUS
    <3> HIDE DEF z
    <3> QED
      BY <3>1, <3>2
  <2>7. Stolen(v, w)[1] = Object(Inline, s, k)
    BY <2>4, <2>5 DEF Object, Body, b, m
  <2>8. Stolen(v, w)[2] = Body(Inline, RawSlots(Inline), 0, l)
    BY <2>4, <2>6 DEF Body
  <2>9. Len(s) <= Inline
    BY <1>2, <1>6
  <2> QED
    BY <1>1, <2>7, <2>8, <2>9, ObjectNow, EmptyObject
<1> QED
  BY <1>5, <1>6

LEMMA MovesApartObject ==
  ASSUME SmallConstants, NEW v, NEW s, IsObject(v, s), NEW w, NEW t, IsObject(w, t)
  PROVE  IsObject(MovedApart(v, w)[1], t) /\ IsObject(MovedApart(v, w)[2], <<>>)
<1>1. s \in Seq(Value) /\ t \in Seq(Value) /\ Elements(w) = t
  BY ObjectParts
<1>2. PICK cap, l : cap \in Caps /\ Len(s) <= cap /\ v = Object(cap, s, l)
  BY ObjectParts
<1>3. IsObject(Assigned(v, t), t)
  BY <1>1, <1>2, AssignsObject
<1> DEFINE d == [With(w, Drained(Buffer(w), w.size)) EXCEPT !.size = 0]
<1>4. IsObject(d, <<>>)
  BY EmptiesObject
<1>5. MovedApart(v, w) = <<Assigned(v, t), d>>
  BY <1>1 DEF MovedApart
<1> HIDE DEF d
<1> QED
  BY <1>3, <1>4, <1>5

\* What one of two inline objects is after their swap.
SwapOne(u, t, common) ==
  [u EXCEPT !.size = t.size,
            !.inner = IF u.size > t.size
                        THEN Destroyed(MovedFrom(Exchanged(@, t.inner, common), common, u.size), common, u.size)
                        ELSE Filled(Exchanged(@, t.inner, common), common, SubSeq(Elements(t), common + 1, t.size))]

LEMMA SwapsOne ==
  ASSUME SmallConstants, NEW s \in Seq(Value), Len(s) <= Inline, NEW t \in Seq(Value), Len(t) <= Inline, NEW l, NEW k,
         NEW common, common = IF Len(s) < Len(t) THEN Len(s) ELSE Len(t)
  PROVE  SwapOne(Object(Inline, s, l), Object(Inline, t, k), common) = Object(Inline, t, l)
<1> DEFINE v == Object(Inline, s, l)  w == Object(Inline, t, k)  m == Len(s)  n == Len(t)
           e == Exchanged(Row(Inline, s), Row(Inline, t), common)
           z == IF m > n THEN Destroyed(MovedFrom(e, common, m), common, m)
                         ELSE Filled(e, common, SubSeq(t, common + 1, n))
<1>1. m \in Nat /\ n \in Nat /\ Inline \in Nat /\ Inline \in Caps
  BY SeqFacts, CapsFacts
<1>2. v = [inner |-> Row(Inline, s), heap |-> <<>>, size |-> m, left |-> l]
      /\ w = [inner |-> Row(Inline, t), heap |-> <<>>, size |-> n, left |-> k]
  BY DEF Object, Body
<1>3. Elements(w) = t
  BY <1>1, ObjectFields
<1>4. z = Row(Inline, t)
  <2>1. CASE m > n
    <3>1. common = n
      BY <1>1, <2>1
    <3>2. Destroyed(MovedFrom(Exchanged(Row(Inline, s), Row(Inline, t), n), n, m), n, m) = Row(Inline, t)
      BY <1>1, <2>1, SwapsLonger
    <3> QED
      BY <2>1, <3>1, <3>2
  <2>2. CASE ~(m > n)
    <3>1. common = m
      BY <1>1, <2>2
    <3>2. m <= n
      BY <1>1, <2>2
    <3>3. Filled(Exchanged(Row(Inline, s), Row(Inline, t), m), m, SubSeq(t, m + 1, n)) = Row(Inline, t)
      BY <1>1, <3>2, SwapsShorter
    <3> QED
      BY <2>2, <3>1, <3>3
  <2> QED
    BY <2>1, <2>2
<1>5. v.inner = Row(Inline, s) /\ v.size = m /\ w.inner = Row(Inline, t) /\ w.size = n
  BY <1>2
<1> HIDE DEF v, w
<1>6. SwapOne(v, w, common) = [v EXCEPT !.size = n, !.inner = z]
  BY <1>3, <1>5 DEF SwapOne
<1> HIDE DEF z
<1> DEFINE y == [v EXCEPT !.size = n]
<1>7. y = [inner |-> Row(Inline, s), heap |-> <<>>, size |-> n, left |-> l]
  BY <1>2
<1>8. [v EXCEPT !.size = n, !.inner = z] = [y EXCEPT !.inner = z]
  OBVIOUS
<1> HIDE DEF y
<1>9. [y EXCEPT !.inner = z] = [inner |-> z, heap |-> <<>>, size |-> n, left |-> l]
  BY <1>7
<1>10. Object(Inline, t, l) = [inner |-> Row(Inline, t), heap |-> <<>>, size |-> n, left |-> l]
  BY DEF Object, Body
<1> QED
  BY <1>4, <1>6, <1>8, <1>9, <1>10 DEF v, w

\* The buffer and the size of w move to v.
Takes(v, w) == [v EXCEPT !.heap = w.heap, !.size = w.size]

LEMMA TakesHeap ==
  ASSUME SmallConstants, NEW s, NEW t, NEW l, NEW k, NEW cap \in Caps, NEW wide \in Caps, cap # Inline, wide # Inline
  PROVE  Takes(Object(cap, s, l), Object(wide, t, k)) = Object(wide, t, l)
<1> DEFINE v == Object(cap, s, l)  w == Object(wide, t, k)  a == RawSlots(Inline)  b == Row(cap, s)  c == Row(wide, t)
           m == Len(s)  n == Len(t)
<1>1. /\ v = [inner |-> a, heap |-> b, size |-> m, left |-> l]
      /\ w = [inner |-> a, heap |-> c, size |-> n, left |-> k]
      /\ Object(wide, t, l) = [inner |-> a, heap |-> c, size |-> n, left |-> l]
  BY DEF Object, Body
<1> HIDE DEF v, w, a, b, c, m, n
<1>2. w.heap = c /\ w.size = n
  BY <1>1
<1> DEFINE z == [v EXCEPT !.heap = c]
<1>3. z = [inner |-> a, heap |-> c, size |-> m, left |-> l]
  BY <1>1
<1>4. [v EXCEPT !.heap = w.heap, !.size = w.size] = [z EXCEPT !.size = n]
  BY <1>2
<1> HIDE DEF z
<1>5. Takes(v, w) = Object(wide, t, l)
  BY <1>1, <1>3, <1>4 DEF Takes
<1> QED
  BY <1>5 DEF v, w

LEMMA SwapsObjects ==
  ASSUME SmallConstants, NEW v, NEW s, IsObject(v, s), NEW w, NEW t, IsObject(w, t)
  PROVE  IsObject(Swapped(v, w)[1], t) /\ IsObject(Swapped(v, w)[2], s)
<1>1. s \in Seq(Value) /\ Len(s) \in Nat /\ v.size = Len(s) /\ t \in Seq(Value) /\ Len(t) \in Nat /\ w.size = Len(t)
      /\ Inline \in Nat /\ Inline \in Caps
  BY ObjectParts, CapsFacts
<1>2. PICK cap, l : cap \in Caps /\ Len(s) <= cap /\ v = Object(cap, s, l)
  BY ObjectParts
<1>3. PICK wide, k : wide \in Caps /\ Len(t) <= wide /\ w = Object(wide, t, k)
  BY ObjectParts
<1>4. (OnHeap(v) <=> cap # Inline) /\ (OnHeap(w) <=> wide # Inline)
  BY <1>1, <1>2, <1>3, ObjectFields
<1>5. CASE cap = Inline /\ wide = Inline
  <2> DEFINE common == IF Len(s) < Len(t) THEN Len(s) ELSE Len(t)
             common2 == IF Len(t) < Len(s) THEN Len(t) ELSE Len(s)
  <2>1. Swapped(v, w) = SwappedInline(v, w)
    BY <1>4, <1>5 DEF Swapped
  <2>2. SwappedInline(v, w) = <<SwapOne(v, w, common), SwapOne(w, v, common)>>
    BY <1>1 DEF SwappedInline, SwapOne, Exchanged
  <2>3. common = common2
    BY <1>1
  <2>4. Len(s) <= Inline /\ Len(t) <= Inline
    BY <1>2, <1>3, <1>5
  <2> HIDE DEF common, common2
  <2>5. SwapOne(v, w, common) = Object(Inline, t, l)
    <3>1. SwapOne(Object(Inline, s, l), Object(Inline, t, k), common) = Object(Inline, t, l)
      BY <1>1, <2>4, SwapsOne DEF common
    <3> QED
      BY <1>2, <1>3, <1>5, <3>1
  <2>6. SwapOne(w, v, common2) = Object(Inline, s, k)
    <3>1. SwapOne(Object(Inline, t, k), Object(Inline, s, l), common2) = Object(Inline, s, k)
      BY <1>1, <2>4, SwapsOne DEF common2
    <3> QED
      BY <1>2, <1>3, <1>5, <3>1
  <2>7. Swapped(v, w)[1] = Object(Inline, t, l) /\ Swapped(v, w)[2] = Object(Inline, s, k)
    BY <2>1, <2>2, <2>3, <2>5, <2>6
  <2> QED
    BY <1>1, <2>4, <2>7, ObjectNow
<1>6. CASE cap # Inline /\ wide # Inline
  <2>1. Swapped(v, w) = <<Takes(v, w), Takes(w, v)>>
    BY <1>4, <1>6 DEF Swapped, Takes
  <2>2. Takes(v, w) = Object(wide, t, l) /\ Takes(w, v) = Object(cap, s, k)
    BY <1>2, <1>3, <1>6, TakesHeap
  <2>3. Swapped(v, w)[1] = Object(wide, t, l) /\ Swapped(v, w)[2] = Object(cap, s, k)
    BY <2>1, <2>2
  <2> QED
    BY <1>1, <1>2, <1>3, <2>3, ObjectNow
<1>7. CASE (cap = Inline) # (wide = Inline)
  <2> DEFINE first  == Stolen(New, v)
             second == Stolen(Freed(Cleared(first[2])), w)
             third  == Stolen(Freed(Cleared(second[2])), first[1])
  <2>1. Swapped(v, w) = <<second[1], third[1]>>
    BY <1>4, <1>7 DEF Swapped
  <2>2. IsBare(New, 0)
    BY DEF IsBare, New, Body
  <2>3. IsObject(first[1], s) /\ IsObject(first[2], <<>>)
    BY <2>2, StealsObject
  <2> HIDE DEF first
  <2>4. PICK n : IsBare(Freed(Cleared(first[2])), n)
    BY <2>3, EmptiesObject
  <2>5. IsObject(second[1], t) /\ IsObject(second[2], <<>>)
    BY <2>4, StealsObject
  <2> HIDE DEF second
  <2>6. PICK m : IsBare(Freed(Cleared(second[2])), m)
    BY <2>5, EmptiesObject
  <2>7. IsObject(third[1], s)
    BY <2>3, <2>6, StealsObject
  <2> HIDE DEF third
  <2> QED
    BY <2>1, <2>5, <2>7
<1> QED
  BY <1>5, <1>6, <1>7

-----------------------------------------------------------------------------
(* The steps. *)

Whole == status = "whole"

\* The objects hold the sequences c.
Shows(c) ==
  c \in [Obj -> Seq(Value)] /\ vec = [o \in Obj |-> vec[o]] /\ \A o \in Obj : IsObject(vec[o], c[o])

SlotsInv == status \in {"whole", "torn"} /\ (Whole => \E c : Shows(c))

Content == [o \in Obj |-> IF Whole THEN Elements(vec[o]) ELSE <<>>]

LEMMA ContentShown ==
  ASSUME SmallConstants, Whole, NEW c, Shows(c)
  PROVE  Content = c
<1>1. c \in [Obj -> Seq(Value)] /\ \A o \in Obj : IsObject(vec[o], c[o])
  BY DEF Shows
<1>2. \A o \in Obj : Elements(vec[o]) = c[o]
  BY <1>1, ObjectParts
<1>3. Content = [o \in Obj |-> c[o]]
  BY <1>2 DEF Content
<1>4. c = [o \in Obj |-> c[o]]
  BY <1>1
<1> QED
  BY <1>3, <1>4

\* The objects, which held c, hold d.
Turns(c, d) == SlotsInv' /\ Whole /\ UNCHANGED Whole /\ Content = c /\ Content' = d

\* The object o turns to u.
Put(c, o, u) == [c EXCEPT ![o] = u]

LEMMA BecomesShown ==
  ASSUME SmallConstants, Whole, NEW c, Shows(c), NEW d \in [Obj -> Seq(Value)],
         NEW f, f = [o \in Obj |-> f[o]], \A o \in Obj : IsObject(f[o], d[o]), Become(f)
  PROVE  Turns(c, d)
<1>1. vec' = f /\ status' = status /\ Whole'
  BY DEF Become, Whole
<1>2. vec' = [o \in Obj |-> vec'[o]] /\ \A o \in Obj : IsObject(vec'[o], d[o])
  BY <1>1
<1>3. Shows(d)'
  BY <1>2 DEF Shows
<1>4. SlotsInv'
  BY <1>1, <1>3 DEF SlotsInv, Whole
<1>5. Content = c
  BY ContentShown
<1>6. Content' = d
  <2>1. \A o \in Obj : Elements(vec'[o]) = d[o]
    BY <1>2, ObjectParts
  <2>2. Content' = [o \in Obj |-> d[o]]
    BY <1>1, <2>1 DEF Content
  <2>3. d = [o \in Obj |-> d[o]]
    OBVIOUS
  <2> QED
    BY <2>2, <2>3
<1> QED
  BY <1>1, <1>4, <1>5, <1>6 DEF Turns, Whole

LEMMA SetPuts ==
  ASSUME SmallConstants, Whole, NEW c, Shows(c), NEW o \in Obj, NEW v, NEW t, IsObject(v, t), Set(o, v)
  PROVE  Turns(c, Put(c, o, t)) /\ SlotsInv'
<1> DEFINE d == Put(c, o, t)  f == [vec EXCEPT ![o] = v]
<1>1. c \in [Obj -> Seq(Value)] /\ vec = [q \in Obj |-> vec[q]] /\ \A q \in Obj : IsObject(vec[q], c[q])
  BY DEF Shows
<1>2. d \in [Obj -> Seq(Value)] /\ \A q \in Obj : d[q] = IF q = o THEN t ELSE c[q]
  BY <1>1, ObjectParts DEF Put
<1>3. f = [q \in Obj |-> f[q]] /\ \A q \in Obj : f[q] = IF q = o THEN v ELSE vec[q]
  BY <1>1
<1>4. Become(f)
  BY DEF Set
<1> HIDE DEF d, f
<1>5. \A q \in Obj : IsObject(f[q], d[q])
  BY <1>1, <1>2, <1>3
<1>6. Turns(c, d)
  BY <1>2, <1>3, <1>4, <1>5, BecomesShown
<1> QED
  BY <1>6 DEF d, Turns

LEMMA SetBothPuts ==
  ASSUME SmallConstants, Whole, NEW c, Shows(c), NEW o \in Obj, NEW p \in Obj, NEW vw,
         NEW s, NEW t, IsObject(vw[1], s), IsObject(vw[2], t), SetBoth(o, p, vw)
  PROVE  o # p /\ Turns(c, [c EXCEPT ![o] = s, ![p] = t]) /\ SlotsInv'
<1> DEFINE d == [c EXCEPT ![o] = s, ![p] = t]  f == [vec EXCEPT ![o] = vw[1], ![p] = vw[2]]
<1>1. c \in [Obj -> Seq(Value)] /\ vec = [q \in Obj |-> vec[q]] /\ \A q \in Obj : IsObject(vec[q], c[q])
  BY DEF Shows
<1>2. d \in [Obj -> Seq(Value)] /\ \A q \in Obj : d[q] = IF q = p THEN t ELSE IF q = o THEN s ELSE c[q]
  <2>1. s \in Seq(Value) /\ t \in Seq(Value)
    BY ObjectParts
  <2> QED
    BY <1>1, <2>1
<1>3. f = [q \in Obj |-> f[q]] /\ \A q \in Obj : f[q] = IF q = p THEN vw[2] ELSE IF q = o THEN vw[1] ELSE vec[q]
  BY <1>1
<1>4. o # p /\ Become(f)
  BY DEF SetBoth
<1> HIDE DEF d, f
<1>5. \A q \in Obj : IsObject(f[q], d[q])
  BY <1>1, <1>2, <1>3
<1>6. Turns(c, d)
  BY <1>2, <1>3, <1>4, <1>5, BecomesShown
<1> QED
  BY <1>4, <1>6 DEF d, Turns

-----------------------------------------------------------------------------
(* The steps of a vector. *)

VectorStep == [Promise!Next]_<<Content, Whole>>

LEMMA CallStep ==
  ASSUME NEW c, NEW d, Turns(c, d), NEW o \in Obj, Promise!Call(o)
  PROVE  VectorStep
BY DEF Turns, VectorStep, Whole, Promise!Next

LEMMA SpliceCall ==
  ASSUME NEW c, NEW d, Turns(c, d), NEW o, NEW p, NEW q, NEW t, p <= q, q <= Len(c[o]),
         d = Put(c, o, Spliced(c[o], p, q, t))
  PROVE  Promise!Splice(o, p, q, t)
BY DEF Turns, Content, Whole, Put, Spliced, Promise!Splice, Promise!Becomes

LEMMA AssignCall ==
  ASSUME NEW c, NEW d, Turns(c, d), NEW o, NEW t, d = Put(c, o, t)
  PROVE  Promise!Assign(o, t)
BY DEF Turns, Content, Whole, Put, Promise!Assign, Promise!Becomes

LEMMA CopyCall ==
  ASSUME NEW c, NEW d, Turns(c, d), NEW o, NEW p, d = Put(c, o, c[p])
  PROVE  Promise!Copy(o, p)
BY DEF Turns, Content, Whole, Put, Promise!Copy, Promise!Becomes

LEMMA MoveCall ==
  ASSUME NEW c, NEW d, Turns(c, d), NEW o, NEW p, o # p, d = [c EXCEPT ![o] = c[p], ![p] = <<>>]
  PROVE  Promise!Move(o, p)
BY DEF Turns, Content, Whole, Promise!Move

LEMMA SwapCall ==
  ASSUME NEW c, NEW d, Turns(c, d), NEW o, NEW p, d = [c EXCEPT ![o] = c[p], ![p] = c[o]]
  PROVE  Promise!Swap(o, p)
BY DEF Turns, Content, Whole, Promise!Swap

LEMMA ResizeCall ==
  ASSUME NEW c, NEW d, Turns(c, d), NEW o, NEW n, NEW x, d = Put(c, o, Extended(c[o], n, x))
  PROVE  Promise!Resize(o, n, x)
BY ZenonT(30) DEF Turns, Content, Whole, Put, Extended, Promise!Resize, Promise!Becomes

\* What the vector's Remove says of what the objects held and hold.
Removes(c, d, o, x) ==
  /\ d = [c EXCEPT ![o] = d[o]]
  /\ \E f \in [DOMAIN d[o] -> DOMAIN c[o]] :
       /\ \A j, k \in DOMAIN d[o] : j < k => f[j] < f[k]
       /\ {f[k] : k \in DOMAIN d[o]} = {j \in DOMAIN c[o] : c[o][j] # x}
       /\ \A k \in DOMAIN d[o] : d[o][k] = c[o][f[k]]

LEMMA RemoveCall ==
  ASSUME NEW c, NEW d, Turns(c, d), NEW o, NEW x, NEW t, NEW f, c \in [Obj -> Seq(Value)], o \in Obj,
         d = Put(c, o, t), Keeps(t, c[o], Len(c[o]), x, f)
  PROVE  Promise!Remove(o, x)
<1> DEFINE s == c[o]  u == d[o]
<1>1. s \in Seq(Value) /\ u = t /\ t \in Seq(Value)
  BY DEF Put, Keeps
<1>2. d = [c EXCEPT ![o] = u]
  BY <1>1 DEF Put
<1> HIDE DEF s, u
<1>3. DOMAIN u = 1 .. Len(u) /\ DOMAIN s = 1 .. Len(s) /\ Keeps(u, s, Len(s), x, f)
  BY <1>1 DEF s
<1>4. f \in [DOMAIN u -> DOMAIN s] /\ \A j, k \in DOMAIN u : j < k => f[j] < f[k]
  BY <1>3 DEF Keeps
<1>5. \A k \in DOMAIN u : u[k] = s[f[k]] /\ s[f[k]] # x
  BY <1>3 DEF Keeps
<1>6. \A i \in DOMAIN s : s[i] # x => \E k \in DOMAIN u : f[k] = i
  BY <1>3 DEF Keeps
<1>7. {f[k] : k \in DOMAIN u} = {j \in DOMAIN s : s[j] # x}
  BY <1>4, <1>5, <1>6
<1>8. Removes(c, d, o, x)
  BY <1>2, <1>4, <1>5, <1>7 DEF Removes, s, u
<1>9. Removes(Content, Content', o, x)
  BY <1>8 DEF Turns
<1> QED
  BY <1>9 DEF Content, Whole, Removes, Promise!Remove, Promise!Becomes

LEMMA GrowCall ==
  ASSUME NEW c, NEW d, Turns(c, d), NEW o, NEW p \in 0 .. Len(c[o]), NEW x \in Value, Len(d[o]) > Len(c[o]),
         Promise!Splice(o, p, p, Promise!Copies(Len(d[o]) - Len(c[o]), x))
  PROVE  Promise!Call(o)
BY DEF Turns, Content, Whole, Promise!Call

LEMMA ShrinkCall ==
  ASSUME NEW c, NEW d, Turns(c, d), NEW o, NEW p \in 0 .. Len(d[o]), Len(d[o]) < Len(c[o]),
         Promise!Splice(o, p, p + Len(c[o]) - Len(d[o]), <<>>)
  PROVE  Promise!Call(o)
BY DEF Turns, Content, Whole, Promise!Call

LEMMA FillCall ==
  ASSUME NEW c, NEW d, Turns(c, d), NEW o, NEW x \in Value,
         Promise!Assign(o, Promise!Copies(Len(d[o]), x)) \/ Promise!Resize(o, Len(d[o]), x)
  PROVE  Promise!Call(o)
BY DEF Turns, Content, Whole, Promise!Call

LEMMA OtherCall ==
  ASSUME NEW o, \/ \E s \in Given : Promise!Assign(o, s)
                \/ \E x \in Value : Promise!Remove(o, x)
                \/ \E p \in Obj : Promise!Copy(o, p) \/ Promise!Move(o, p) \/ Promise!Swap(o, p)
  PROVE  Promise!Call(o)
BY DEF Promise!Call

-----------------------------------------------------------------------------
(* The steps of a small_vectra are steps of a vector: what the objects    *)
(* held, c, and what they hold, d.                                         *)

LEMMA SpliceLength ==
  ASSUME NEW c \in [Obj -> Seq(Value)], NEW o \in Obj, NEW p \in 0 .. Len(c[o]), NEW q \in p .. Len(c[o]),
         NEW t \in Seq(Value), NEW d, d = Put(c, o, Spliced(c[o], p, q, t))
  PROVE  Len(d[o]) = Len(c[o]) - (q - p) + Len(t) /\ Len(c[o]) \in Nat
<1>1. d[o] = Spliced(c[o], p, q, t) /\ c[o] \in Seq(Value)
  BY DEF Put
<1>2. IsSpliced(d[o], c[o], p, q, t) /\ Len(c[o]) \in Nat
  BY <1>1, SeqFacts, SplicedSeq
<1> QED
  BY <1>2 DEF IsSpliced

LEMMA SameStep ==
  ASSUME NEW c, NEW d, Turns(c, d), NEW o \in Obj, d = Put(c, o, c[o])
  PROVE  VectorStep
BY CopyCall, OtherCall, CallStep

LEMMA GrowStep ==
  ASSUME NEW c \in [Obj -> Seq(Value)], NEW d, Turns(c, d), NEW o \in Obj, NEW p \in 0 .. Len(c[o]),
         NEW n \in Nat, NEW x \in Value, d = Put(c, o, Spliced(c[o], p, p, Copies(n, x)))
  PROVE  VectorStep
<1> DEFINE t == Copies(n, x)
<1>1. t \in Seq(Value) /\ Len(t) = n
  BY CopiesSeq
<1>2. c[o] \in Seq(Value) /\ Len(c[o]) \in Nat /\ p \in p .. Len(c[o]) /\ p \in Nat /\ p <= Len(c[o])
  BY SeqFacts
<1>3. t = Promise!Copies(n, x)
  BY DEF Copies, Promise!Copies
<1> HIDE DEF t
<1>4. Len(d[o]) = Len(c[o]) + n
  <2>1. d = Put(c, o, Spliced(c[o], p, p, t))
    BY DEF t
  <2>2. Len(d[o]) = Len(c[o]) - (p - p) + Len(t)
    BY <1>1, <1>2, <2>1, SpliceLength, ZenonT(30)
  <2> QED
    BY <1>1, <1>2, <2>2
<1>5. Promise!Splice(o, p, p, t)
  BY <1>2, SpliceCall DEF t
<1>6. CASE n > 0
  <2>1. n = Len(d[o]) - Len(c[o]) /\ Len(d[o]) > Len(c[o])
    BY <1>2, <1>4, <1>6
  <2>2. Promise!Splice(o, p, p, Promise!Copies(Len(d[o]) - Len(c[o]), x))
    BY <1>3, <1>5, <2>1
  <2> QED
    BY <2>1, <2>2, GrowCall, CallStep
<1>7. CASE n = 0
  <2>1. t = <<>>
    BY <1>1, <1>7, EmptySeq
  <2>2. Spliced(c[o], p, p, t) = c[o]
    BY <1>2, <2>1, SplicedNone
  <2> QED
    BY <2>2, SameStep DEF t
<1> QED
  BY <1>6, <1>7

LEMMA ShrinkStep ==
  ASSUME NEW c \in [Obj -> Seq(Value)], NEW d, Turns(c, d), NEW o \in Obj, NEW p \in 0 .. Len(c[o]),
         NEW q \in p .. Len(c[o]), p < q, d = Put(c, o, Spliced(c[o], p, q, <<>>))
  PROVE  VectorStep
<1>1. c[o] \in Seq(Value) /\ Len(c[o]) \in Nat /\ p \in Nat /\ q \in Nat /\ q <= Len(c[o])
  BY SeqFacts
<1>2. <<>> \in Seq(Value) /\ Len(<<>>) = 0
  BY EmptySeq
<1>3. Len(d[o]) = Len(c[o]) - (q - p)
  <2>1. Len(d[o]) = Len(c[o]) - (q - p) + Len(<<>>)
    BY <1>1, <1>2, SpliceLength, ZenonT(30)
  <2> QED
    BY <1>1, <1>2, <2>1
<1>4. Len(d[o]) < Len(c[o]) /\ p \in 0 .. Len(d[o]) /\ q = p + Len(c[o]) - Len(d[o])
  BY <1>1, <1>3
<1>5. Promise!Splice(o, p, q, <<>>)
  BY <1>1, SpliceCall
<1> QED
  BY <1>4, <1>5, ShrinkCall, CallStep
-----------------------------------------------------------------------------
(* Each call keeps the slots right and does what the vector promises.      *)

StepRight == SlotsInv' /\ VectorStep

\* The objects hold the sequences c, field by field.
Holding(c) ==
  /\ Shows(c) /\ c \in [Obj -> Seq(Value)]
  /\ \A q \in Obj : /\ IsObject(vec[q], c[q]) /\ c[q] \in Seq(Value) /\ Len(c[q]) \in Nat
                    /\ vec[q].size = Len(c[q]) /\ Elements(vec[q]) = c[q]

LEMMA ShownNow ==
  ASSUME SmallConstants, SlotsInv, Whole
  PROVE  \E c : Holding(c)
<1>1. PICK c : Shows(c)
  BY DEF SlotsInv
<1>2. c \in [Obj -> Seq(Value)] /\ \A o \in Obj : IsObject(vec[o], c[o])
  BY <1>1 DEF Shows
<1>3. ASSUME NEW q \in Obj
      PROVE  /\ c[q] \in Seq(Value) /\ Len(c[q]) \in Nat
             /\ vec[q].size = Len(c[q]) /\ Elements(vec[q]) = c[q]
  BY <1>2, ObjectParts
<1> QED
  BY <1>1, <1>2, <1>3 DEF Holding

LEMMA HeldNow ==
  ASSUME NEW c, Holding(c), NEW q \in Obj
  PROVE  /\ Shows(c) /\ c \in [Obj -> Seq(Value)]
         /\ IsObject(vec[q], c[q]) /\ c[q] \in Seq(Value) /\ Len(c[q]) \in Nat
         /\ vec[q].size = Len(c[q]) /\ Elements(vec[q]) = c[q]
BY DEF Holding

LEMMA SetIsWhole == ASSUME NEW o, NEW v, Set(o, v) PROVE Whole
BY DEF Set, Become, Whole

LEMMA SetBothIsWhole == ASSUME NEW o, NEW p, NEW vw, SetBoth(o, p, vw) PROVE Whole
BY DEF SetBoth, Become, Whole

LEMMA AssignsTo ==
  ASSUME SmallConstants, NEW v, NEW s, IsObject(v, s), NEW t \in Seq(Value)
  PROVE  IsObject(Assigned(v, t), t) /\ IsObject(Built(Renewed(v), t), t)
<1>1. s \in Seq(Value)
  BY ObjectParts
<1>2. PICK cap, l : cap \in Caps /\ Len(s) <= cap /\ v = Object(cap, s, l)
  BY ObjectParts
<1>3. IsBare(Renewed(v), 0)
  BY EmptiesObject
<1> QED
  BY <1>1, <1>2, <1>3, AssignsObject, BuildsObject

LEMMA OneCopy ==
  ASSUME NEW x \in Value
  PROVE  Copies(1, x) = <<x>>
<1>1. Copies(1, x) \in Seq(Value) /\ Len(Copies(1, x)) = 1 /\ \A j \in 1 .. 1 : Copies(1, x)[j] = x
  BY CopiesSeq
<1> DEFINE r == Copies(1, x)
<1> HIDE DEF r
<1>2. r = <<x>>
  BY <1>1 DEF r
<1> QED
  BY <1>2 DEF r

LEMMA PushBackRight ==
  ASSUME SmallConstants, SlotsInv, NEW o \in Obj, NEW x \in Value, PushBack(o, x)
  PROVE  StepRight
<1>1. Whole /\ Set(o, PushedBack(vec[o], x))
  BY SetIsWhole DEF PushBack
<1>2. PICK c : Holding(c)
  BY <1>1, ShownNow
<1> DEFINE s == c[o]  t == Append(s, x)
<1>3. s \in Seq(Value) /\ Len(s) \in Nat /\ Shows(c) /\ c \in [Obj -> Seq(Value)] /\ IsObject(vec[o], s)
  BY <1>2, HeldNow
<1>4. IsObject(PushedBack(vec[o], x), t)
  BY <1>3, PushesObject
<1>5. t = Spliced(s, Len(s), Len(s), Copies(1, x))
  <2>1. t = s \o <<x>> /\ <<x>> \in Seq(Value)
    BY <1>3, AppendIsConcat
  <2> DEFINE r == <<x>>
  <2> HIDE DEF r
  <2>2. Spliced(s, Len(s), Len(s), r) = s \o r
    BY <1>3, <2>1, SplicedAtEnd DEF r
  <2> QED
    BY <2>1, <2>2, OneCopy DEF r
<1> HIDE DEF t
<1>6. Turns(c, Put(c, o, t)) /\ SlotsInv'
  BY <1>1, <1>3, <1>4, SetPuts
<1>7. Len(s) \in 0 .. Len(s) /\ Put(c, o, t) = Put(c, o, Spliced(c[o], Len(s), Len(s), Copies(1, x)))
  BY <1>3, <1>5
<1>8. VectorStep
  BY <1>3, <1>6, <1>7, GrowStep
<1> QED
  BY <1>6, <1>8 DEF StepRight

LEMMA WeedRight ==
  ASSUME SmallConstants, SlotsInv, NEW o \in Obj, NEW x \in Value, Weed(o, x)
  PROVE  StepRight
<1>1. Whole /\ Set(o, Weeded(vec[o], x))
  BY SetIsWhole DEF Weed
<1>2. PICK c : Holding(c)
  BY <1>1, ShownNow
<1>3. Shows(c) /\ c \in [Obj -> Seq(Value)] /\ IsObject(vec[o], c[o])
  BY <1>2, HeldNow
<1> DEFINE t == Without(c[o], x)
<1>4. IsObject(Weeded(vec[o], x), t)
  BY <1>3, WeedsObject
<1>5. PICK f : Keeps(t, c[o], Len(c[o]), x, f)
  BY <1>3, WeedsObject
<1> HIDE DEF t
<1>6. Turns(c, Put(c, o, t)) /\ SlotsInv'
  BY <1>1, <1>3, <1>4, SetPuts
<1>7. Promise!Remove(o, x)
  BY <1>3, <1>5, <1>6, RemoveCall
<1> QED
  BY <1>6, <1>7, OtherCall, CallStep DEF StepRight

LEMMA EraseRight ==
  ASSUME SmallConstants, SlotsInv, NEW o \in Obj, NEW i \in Nat, NEW j \in Nat, i < j, j <= vec[o].size,
         Set(o, Erased(vec[o], i, j))
  PROVE  StepRight
<1>1. Whole
  BY SetIsWhole
<1>2. PICK c : Holding(c)
  BY <1>1, ShownNow
<1>3. /\ Shows(c) /\ c \in [Obj -> Seq(Value)] /\ IsObject(vec[o], c[o])
      /\ Len(c[o]) \in Nat /\ vec[o].size = Len(c[o])
  BY <1>2, HeldNow
<1>4. i \in 0 .. Len(c[o]) /\ j \in i .. Len(c[o])
  BY <1>3
<1> DEFINE t == Spliced(c[o], i, j, <<>>)
<1>5. IsObject(Erased(vec[o], i, j), t)
  BY <1>3, <1>4, ErasesObject
<1> HIDE DEF t
<1>6. Turns(c, Put(c, o, t)) /\ SlotsInv'
  BY <1>1, <1>3, <1>5, SetPuts
<1>7. VectorStep
  BY <1>3, <1>4, <1>6, ShrinkStep DEF t
<1> QED
  BY <1>6, <1>7 DEF StepRight

LEMMA PopBackRight ==
  ASSUME SmallConstants, SlotsInv, NEW o \in Obj, PopBack(o)
  PROVE  StepRight
<1>1. Whole /\ vec[o].size > 0 /\ Set(o, Erased(vec[o], vec[o].size - 1, vec[o].size))
  BY SetIsWhole DEF PopBack
<1>2. PICK c : Holding(c)
  BY <1>1, ShownNow
<1> DEFINE n == vec[o].size
<1>3. n \in Nat
  BY <1>2, HeldNow
<1>4. n - 1 \in Nat /\ n - 1 < n /\ n <= n
  BY <1>1, <1>3
<1>5. Set(o, Erased(vec[o], n - 1, n))
  BY <1>1
<1> DEFINE m == n - 1
<1> HIDE DEF n, m
<1>6. m \in Nat /\ m < n /\ n <= vec[o].size /\ Set(o, Erased(vec[o], m, n))
  BY <1>3, <1>4, <1>5 DEF m, n
<1> QED
  BY <1>3, <1>6, EraseRight

LEMMA ClearRight ==
  ASSUME SmallConstants, SlotsInv, NEW o \in Obj, Clear(o)
  PROVE  StepRight
<1>1. Whole /\ Set(o, [Cleared(vec[o]) EXCEPT !.size = 0])
  BY SetIsWhole DEF Clear
<1>2. PICK c : Holding(c)
  BY <1>1, ShownNow
<1>3. /\ Shows(c) /\ c \in [Obj -> Seq(Value)] /\ IsObject(vec[o], c[o])
      /\ c[o] \in Seq(Value) /\ Len(c[o]) \in Nat
  BY <1>2, HeldNow
<1> DEFINE v == [Cleared(vec[o]) EXCEPT !.size = 0]
<1>4. IsObject(v, <<>>)
  BY <1>3, EmptiesObject
<1> HIDE DEF v
<1>5. Turns(c, Put(c, o, <<>>)) /\ SlotsInv'
  BY <1>1, <1>3, <1>4, SetPuts DEF v
<1>6. CASE Len(c[o]) = 0
  <2>1. c[o] = <<>>
    BY <1>3, <1>6, EmptySeq
  <2> QED
    BY <1>5, <2>1, SameStep DEF StepRight
<1>7. CASE Len(c[o]) # 0
  <2> DEFINE n == Len(c[o])
  <2>1. 0 \in 0 .. n /\ n \in 0 .. n /\ 0 < n /\ c[o] \in Seq(Value)
    BY <1>3, <1>7
  <2>2. Spliced(c[o], 0, n, <<>>) = <<>>
    <3>1. Spliced(c[o], 0, n, <<>>) = SubSeq(c[o], 1, 0)
      BY <2>1, SplicedToEnd
    <3>2. SubSeq(c[o], 1, 0) \in Seq(Value) /\ Len(SubSeq(c[o], 1, 0)) = 0
      BY <2>1, FirstOnes
    <3> QED
      BY <3>1, <3>2, EmptySeq
  <2>3. VectorStep
    BY <1>3, <1>5, <2>1, <2>2, ShrinkStep
  <2> QED
    BY <1>5, <2>3 DEF StepRight
<1> QED
  BY <1>6, <1>7

\* reserve and shrink_to_fit: the storage changes and the elements do not.
LEMMA MovesStorageRight ==
  ASSUME SmallConstants, SlotsInv, NEW o \in Obj, ShrinkToFit(o) \/ \E n \in Nat : Reserve(o, n)
  PROVE  StepRight
<1>1. Whole
  BY SetIsWhole DEF ShrinkToFit, Reserve
<1>2. PICK c : Holding(c)
  BY <1>1, ShownNow
<1>3. Shows(c) /\ c \in [Obj -> Seq(Value)] /\ IsObject(vec[o], c[o])
  BY <1>2, HeldNow
<1>4. \E v : IsObject(v, c[o]) /\ Set(o, v)
  BY <1>3, ShrinksObject, ReservesObject DEF ShrinkToFit, Reserve
<1>5. Turns(c, Put(c, o, c[o])) /\ SlotsInv'
  BY <1>1, <1>3, <1>4, SetPuts
<1> QED
  BY <1>5, SameStep DEF StepRight

LEMMA ResizeRight ==
  ASSUME SmallConstants, SlotsInv, NEW o \in Obj, NEW n \in Nat, NEW x \in Value, Resize(o, n, x)
  PROVE  StepRight
<1>1. Whole /\ Set(o, Resized(vec[o], n, x))
  BY SetIsWhole DEF Resize
<1>2. PICK c : Holding(c)
  BY <1>1, ShownNow
<1>3. Shows(c) /\ c \in [Obj -> Seq(Value)] /\ IsObject(vec[o], c[o]) /\ c[o] \in Seq(Value)
  BY <1>2, HeldNow
<1> DEFINE t == Extended(c[o], n, x)
<1>4. Len(t) = n
  BY <1>3, ExtendedSeq
<1>5. IsObject(Resized(vec[o], n, x), t)
  BY <1>3, ResizesObject
<1> DEFINE d == Put(c, o, t)
<1> HIDE DEF t
<1>6. Turns(c, d) /\ SlotsInv' /\ Len(d[o]) = n
  <2>1. Turns(c, d) /\ SlotsInv'
    BY <1>1, <1>3, <1>5, SetPuts
  <2> QED
    BY <1>3, <1>4, <2>1 DEF Put
<1> HIDE DEF d
<1>7. Promise!Resize(o, n, x)
  BY <1>6, ResizeCall DEF d, t
<1> QED
  BY <1>6, <1>7, FillCall, CallStep DEF StepRight

\* An object is assigned, or built from, n copies or a given list.
LEMMA AssignsRight ==
  ASSUME SmallConstants, SlotsInv, NEW o \in Obj, NEW t \in Seq(Value), Assign(o, t) \/ Construct(o, t),
         t \in Given \/ \E n \in Nat, x \in Value : t = Copies(n, x)
  PROVE  StepRight
<1>1. Whole /\ (Set(o, Assigned(vec[o], t)) \/ Set(o, Built(Renewed(vec[o]), t)))
  BY SetIsWhole DEF Assign, Construct
<1>2. PICK c : Holding(c)
  BY <1>1, ShownNow
<1>3. Shows(c) /\ c \in [Obj -> Seq(Value)] /\ IsObject(vec[o], c[o])
  BY <1>2, HeldNow
<1>4. IsObject(Assigned(vec[o], t), t) /\ IsObject(Built(Renewed(vec[o]), t), t)
  BY <1>3, AssignsTo
<1> DEFINE d == Put(c, o, t)
<1>5. Turns(c, d) /\ SlotsInv'
  BY <1>1, <1>3, <1>4, SetPuts
<1>6. d[o] = t
  BY <1>3 DEF Put
<1> HIDE DEF d
<1>7. Promise!Assign(o, t)
  BY <1>5, AssignCall DEF d
<1>8. CASE t \in Given
  BY <1>5, <1>7, <1>8, OtherCall, CallStep DEF StepRight
<1>9. ASSUME NEW n \in Nat, NEW x \in Value, t = Copies(n, x) PROVE StepRight
  <2>1. Len(d[o]) = n
    BY <1>6, <1>9, CopiesSeq
  <2>2. t = Promise!Copies(Len(d[o]), x)
    BY <1>9, <2>1 DEF Copies, Promise!Copies
  <2>3. Promise!Assign(o, Promise!Copies(Len(d[o]), x))
    BY <1>7, <2>2
  <2> QED
    BY <1>5, <2>3, FillCall, CallStep DEF StepRight
<1> QED
  BY <1>8, <1>9

LEMMA InsertRight ==
  ASSUME SmallConstants, SlotsInv, NEW o \in Obj, NEW i \in Nat, NEW x \in Value, Insert(o, i, x)
  PROVE  StepRight
<1>1. Whole /\ i <= vec[o].size /\ Set(o, Inserted(vec[o], i, x))
  BY SetIsWhole DEF Insert
<1>2. PICK c : Holding(c)
  BY <1>1, ShownNow
<1>3. /\ Shows(c) /\ c \in [Obj -> Seq(Value)] /\ IsObject(vec[o], c[o])
      /\ Len(c[o]) \in Nat /\ vec[o].size = Len(c[o])
  BY <1>2, HeldNow
<1>4. i \in 0 .. Len(c[o])
  BY <1>1, <1>3
<1> DEFINE t == Spliced(c[o], i, i, <<x>>)
<1>5. IsObject(Inserted(vec[o], i, x), t)
  BY <1>3, <1>4, InsertsObject
<1>6. t = Spliced(c[o], i, i, Copies(1, x))
  BY OneCopy
<1> HIDE DEF t
<1>7. Turns(c, Put(c, o, t)) /\ SlotsInv'
  BY <1>1, <1>3, <1>5, SetPuts
<1>8. Put(c, o, t) = Put(c, o, Spliced(c[o], i, i, Copies(1, x)))
  BY <1>6
<1>9. VectorStep
  BY <1>3, <1>4, <1>7, <1>8, GrowStep
<1> QED
  BY <1>7, <1>9 DEF StepRight

\* The call that leaves an object torn: nothing is promised afterwards.
LEMMA AssignFailsRight ==
  ASSUME NEW o, NEW n, AssignFails(o, n)
  PROVE  StepRight
<1>1. Whole /\ status' = "torn"
  BY DEF AssignFails, Whole
<1>2. ~Whole' /\ SlotsInv'
  BY <1>1 DEF Whole, SlotsInv
<1>3. Promise!Next
  BY <1>1, <1>2 DEF Promise!Next, Whole
<1> QED
  BY <1>2, <1>3 DEF StepRight, VectorStep

\* One object takes what another holds.
LEMMA CopiesRight ==
  ASSUME SmallConstants, SlotsInv, NEW o \in Obj, NEW p \in Obj, CopyAssign(o, p) \/ CopyConstruct(o, p)
  PROVE  StepRight
<1>1. Whole /\ (Set(o, Assigned(vec[o], Elements(vec[p]))) \/ Set(o, Built(Renewed(vec[o]), Elements(vec[p]))))
  BY SetIsWhole DEF CopyAssign, CopyConstruct
<1>2. PICK c : Holding(c)
  BY <1>1, ShownNow
<1>3. /\ Shows(c) /\ c \in [Obj -> Seq(Value)] /\ IsObject(vec[o], c[o])
      /\ c[p] \in Seq(Value) /\ Elements(vec[p]) = c[p]
  BY <1>2, HeldNow
<1>4. IsObject(Assigned(vec[o], c[p]), c[p]) /\ IsObject(Built(Renewed(vec[o]), c[p]), c[p])
  BY <1>3, AssignsTo
<1>5. Turns(c, Put(c, o, c[p])) /\ SlotsInv'
  BY <1>1, <1>3, <1>4, SetPuts
<1>6. Promise!Copy(o, p)
  BY <1>5, CopyCall
<1> QED
  BY <1>5, <1>6, OtherCall, CallStep DEF StepRight

LEMMA MovesRight ==
  ASSUME SmallConstants, SlotsInv, NEW o \in Obj, NEW p \in Obj,
         MoveAssign(o, p) \/ MoveApart(o, p) \/ MoveConstruct(o, p) \/ MoveConstructApart(o, p)
  PROVE  StepRight
<1> DEFINE drained == [With(vec[p], Drained(Buffer(vec[p]), vec[p].size)) EXCEPT !.size = 0]
           apart == <<Built(Renewed(vec[o]), Elements(vec[p])), drained>>
<1>1. /\ Whole
      /\ \/ SetBoth(o, p, Stolen(Freed(Cleared(vec[o])), vec[p]))
         \/ SetBoth(o, p, MovedApart(vec[o], vec[p]))
         \/ SetBoth(o, p, Stolen(Renewed(vec[o]), vec[p]))
         \/ SetBoth(o, p, apart)
  BY SetBothIsWhole DEF MoveAssign, MoveApart, MoveConstruct, MoveConstructApart
<1>2. PICK c : Holding(c)
  BY <1>1, ShownNow
<1>3. /\ Shows(c) /\ c \in [Obj -> Seq(Value)] /\ IsObject(vec[o], c[o])
      /\ IsObject(vec[p], c[p]) /\ c[p] \in Seq(Value) /\ Elements(vec[p]) = c[p]
  BY <1>2, HeldNow
<1> DEFINE Moved(vw) == IsObject(vw[1], c[p]) /\ IsObject(vw[2], <<>>)
<1>4. Moved(Stolen(Freed(Cleared(vec[o])), vec[p]))
  <2>1. PICK n : IsBare(Freed(Cleared(vec[o])), n)
    BY <1>3, EmptiesObject
  <2> QED
    BY <1>3, <2>1, StealsObject
<1>5. Moved(MovedApart(vec[o], vec[p]))
  BY <1>3, MovesApartObject
<1>6. Moved(Stolen(Renewed(vec[o]), vec[p]))
  <2>1. IsBare(Renewed(vec[o]), 0)
    BY <1>3, EmptiesObject
  <2> QED
    BY <1>3, <2>1, StealsObject
<1>7. Moved(apart)
  <2>1. IsObject(Built(Renewed(vec[o]), c[p]), c[p])
    BY <1>3, AssignsTo
  <2>2. IsObject(drained, <<>>)
    BY <1>3, EmptiesObject
  <2> HIDE DEF drained
  <2> QED
    BY <1>3, <2>1, <2>2
<1>8. PICK vw : Moved(vw) /\ SetBoth(o, p, vw)
  <2> HIDE DEF Moved, apart
  <2> QED
    BY <1>1, <1>4, <1>5, <1>6, <1>7
<1> DEFINE d == [c EXCEPT ![o] = c[p], ![p] = <<>>]
<1>9. o # p /\ Turns(c, d) /\ SlotsInv'
  BY <1>1, <1>3, <1>8, SetBothPuts
<1>10. Promise!Move(o, p)
  BY <1>9, MoveCall
<1> QED
  BY <1>9, <1>10, OtherCall, CallStep DEF StepRight

LEMMA SwapRight ==
  ASSUME SmallConstants, SlotsInv, NEW o \in Obj, NEW p \in Obj, Swap(o, p)
  PROVE  StepRight
<1>1. Whole /\ SetBoth(o, p, Swapped(vec[o], vec[p]))
  BY SetBothIsWhole DEF Swap
<1>2. PICK c : Holding(c)
  BY <1>1, ShownNow
<1>3. Shows(c) /\ c \in [Obj -> Seq(Value)] /\ IsObject(vec[o], c[o]) /\ IsObject(vec[p], c[p])
  BY <1>2, HeldNow
<1>4. IsObject(Swapped(vec[o], vec[p])[1], c[p]) /\ IsObject(Swapped(vec[o], vec[p])[2], c[o])
  BY <1>3, SwapsObjects
<1> DEFINE d == [c EXCEPT ![o] = c[p], ![p] = c[o]]
<1>5. Turns(c, d) /\ SlotsInv'
  BY <1>1, <1>3, <1>4, SetBothPuts
<1>6. Promise!Swap(o, p)
  BY <1>5, SwapCall
<1> QED
  BY <1>5, <1>6, OtherCall, CallStep DEF StepRight

LEMMA NextRight == ASSUME SmallConstants, SlotsInv, Next PROVE StepRight
<1>1. PICK o \in Obj :
        \/ \E x \in Value : PushBack(o, x) \/ Weed(o, x)
        \/ PopBack(o) \/ Clear(o) \/ ShrinkToFit(o)
        \/ \E n \in 0 .. MaxCapacity : Reserve(o, n) \/ AssignFails(o, n)
        \/ \E n \in 0 .. MaxTotal, x \in Value : Resize(o, n, x) \/ Insert(o, n, x) \/ Assign(o, Copies(n, x))
        \/ \E s \in Given : Assign(o, s) \/ Construct(o, s)
        \/ \E i, j \in 0 .. MaxTotal : Erase(o, i, j)
        \/ \E p \in Obj : \/ CopyAssign(o, p) \/ MoveAssign(o, p) \/ MoveApart(o, p) \/ Swap(o, p)
                          \/ CopyConstruct(o, p) \/ MoveConstruct(o, p) \/ MoveConstructApart(o, p)
  BY DEF Next
<1>2. ASSUME NEW x \in Value, PushBack(o, x) \/ Weed(o, x) PROVE StepRight
  BY <1>2, PushBackRight, WeedRight
<1>3. CASE PopBack(o) \/ Clear(o) \/ ShrinkToFit(o)
  BY <1>3, PopBackRight, ClearRight, MovesStorageRight
<1>4. ASSUME NEW n \in 0 .. MaxCapacity, Reserve(o, n) \/ AssignFails(o, n) PROVE StepRight
  <2>1. n \in Nat
    BY DEF SmallConstants
  <2>2. CASE Reserve(o, n)
    BY <2>1, <2>2, MovesStorageRight
  <2>3. CASE AssignFails(o, n)
    BY <2>3, AssignFailsRight
  <2> QED
    BY <1>4, <2>2, <2>3
<1>5. ASSUME NEW n \in 0 .. MaxTotal, NEW x \in Value,
             Resize(o, n, x) \/ Insert(o, n, x) \/ Assign(o, Copies(n, x))
      PROVE  StepRight
  <2>1. n \in Nat
    BY DEF SmallConstants
  <2>2. CASE Assign(o, Copies(n, x))
    <3>1. Copies(n, x) \in Seq(Value)
      BY <2>1, CopiesSeq
    <3> QED
      BY <2>1, <2>2, <3>1, AssignsRight
  <2> QED
    BY <1>5, <2>1, <2>2, ResizeRight, InsertRight
<1>6. ASSUME NEW s \in Given, Assign(o, s) \/ Construct(o, s) PROVE StepRight
  <2>1. s \in Seq(Value)
    BY DEF SmallConstants
  <2> QED
    BY <1>6, <2>1, AssignsRight
<1>7. ASSUME NEW i \in 0 .. MaxTotal, NEW j \in 0 .. MaxTotal, Erase(o, i, j) PROVE StepRight
  <2>1. i \in Nat /\ j \in Nat
    BY DEF SmallConstants
  <2>2. i < j /\ j <= vec[o].size /\ Set(o, Erased(vec[o], i, j))
    BY <1>7 DEF Erase
  <2> QED
    BY <2>1, <2>2, EraseRight
<1>8. ASSUME NEW p \in Obj,
             \/ CopyAssign(o, p) \/ MoveAssign(o, p) \/ MoveApart(o, p) \/ Swap(o, p)
             \/ CopyConstruct(o, p) \/ MoveConstruct(o, p) \/ MoveConstructApart(o, p)
      PROVE  StepRight
  BY <1>8, CopiesRight, MovesRight, SwapRight
<1> QED
  BY <1>1, <1>2, <1>3, <1>4, <1>5, <1>6, <1>7, <1>8

LEMMA StutterRight == ASSUME SlotsInv, UNCHANGED smallVars PROVE StepRight
<1>1. vec' = vec /\ status' = status
  BY DEF smallVars
<1>2. SlotsInv'
  BY <1>1 DEF SlotsInv, Shows, Whole
<1>3. Content' = Content /\ Whole' = Whole
  BY <1>1 DEF Content, Whole
<1> QED
  BY <1>2, <1>3 DEF StepRight, VectorStep, Content, Whole

LEMMA InitRight ==
  ASSUME SmallConstants, Init
  PROVE  SlotsInv /\ Promise!Init
<1> DEFINE c == [o \in Obj |-> <<>>]
<1>1. vec = [o \in Obj |-> New] /\ Whole
  BY DEF Init, Whole
<1>2. IsObject(New, <<>>) /\ <<>> \in Seq(Value)
  <2>1. New = Body(Inline, RawSlots(Inline), 0, {})
    BY DEF New, Body
  <2> QED
    BY <2>1, CapsFacts, EmptyObject
<1>3. c \in [Obj -> Seq(Value)] /\ \A o \in Obj : c[o] = <<>>
  BY <1>2
<1>4. vec = [o \in Obj |-> vec[o]] /\ \A o \in Obj : vec[o] = New
  BY <1>1
<1> HIDE DEF c
<1>5. Shows(c)
  BY <1>2, <1>3, <1>4 DEF Shows
<1>6. SlotsInv
  BY <1>5 DEF SlotsInv, Init
<1>7. Content = c
  BY <1>1, <1>5, ContentShown
<1>8. Content \in [Obj -> {<<>>} \cup Given] /\ Whole = TRUE
  BY <1>1, <1>7 DEF c, Whole
<1> QED
  BY <1>6, <1>8 DEF Promise!Init, Content, Whole

-----------------------------------------------------------------------------
\* Whatever is called, each object holds one sequence, inline or on the heap, and nothing else
\* (small_vectra.hpp: every operation constructs, moves and destroys exactly what it must, and the
\* elements move whole between the storages), until a failed assignment tears one.
THEOREM SlotsInvariance == ASSUME SmallConstants PROVE Spec => []SlotsInv
<1>1. Init => SlotsInv
  BY InitRight
<1>2. SlotsInv /\ [Next]_smallVars => SlotsInv'
  BY NextRight, StutterRight DEF StepRight
<1> QED
  BY <1>1, <1>2, PTL DEF Spec

\* The slots below the size hold elements, every other slot none, and an object whose elements are on
\* the heap has none inline and more room there than inline (small_vectra.hpp:92-158, 362, 476, 953).
THEOREM SlotsAlwaysHeld == ASSUME SmallConstants PROVE Spec => []SlotsHeld
<1>1. SlotsInv => SlotsHeld
  <2> SUFFICES ASSUME SlotsInv, Whole, NEW o \in Obj
               PROVE  /\ Holds(Buffer(vec[o]), vec[o].size)
                      /\ OnHeap(vec[o]) => Holds(vec[o].inner, 0) /\ Capacity(vec[o]) > Inline
    BY DEF SlotsHeld, Whole
  <2>1. PICK s : IsObject(vec[o], s)
    BY ShownNow, HeldNow
  <2>2. s \in Seq(Value)
    BY <2>1, ObjectParts
  <2>3. PICK cap, l : cap \in Caps /\ cap \in Nat /\ cap >= Inline /\ Len(s) <= cap /\ vec[o] = Object(cap, s, l)
    BY <2>1, ObjectParts
  <2>4. /\ vec[o].size = Len(s) /\ Buffer(vec[o]) = Row(cap, s) /\ Capacity(vec[o]) = cap
        /\ (OnHeap(vec[o]) <=> cap # Inline)
    BY <2>2, <2>3, ObjectFields
  <2>5. Holds(Row(cap, s), Len(s))
    <3>1. Len(s) \in Nat /\ \A i \in 1 .. Len(s) : s[i] \in Value
      BY <2>2, SeqFacts
    <3>2. DOMAIN Row(cap, s) = 0 .. cap - 1
          /\ \A i \in 0 .. cap - 1 : Row(cap, s)[i] = IF i < Len(s) THEN s[i + 1] ELSE Raw
      BY <2>2, <2>3, RowSlots
    <3> QED
      BY <2>3, <3>1, <3>2 DEF Holds
  <2>6. Holds(RawSlots(Inline), 0)
    BY CapsFacts DEF Holds, RawSlots
  <2>7. cap # Inline => vec[o].inner = RawSlots(Inline) /\ cap > Inline
    BY <2>3, CapsFacts DEF Object, Body
  <2> QED
    BY <2>4, <2>5, <2>6, <2>7
<1> QED
  BY <1>1, SlotsInvariance, PTL

\* A small_vectra is a vector: each call does to the sequences what Vector.tla says it does, for every
\* N and wherever the elements are (small_vectra.hpp), and after the call that tears an object nothing
\* more is promised.
THEOREM SmallVectraIsVector == ASSUME SmallConstants PROVE Spec => ImplementsVector
<1>1. Init => Promise!Init
  BY InitRight
<1>2. SlotsInv /\ [Next]_smallVars => VectorStep
  BY NextRight, StutterRight DEF StepRight
<1>3. VectorStep <=> [Promise!Next]_<<[o \in Obj |-> IF status = "whole" THEN Elements(vec[o]) ELSE <<>>], status = "whole">>
  BY DEF VectorStep, Content, Whole
<1> QED
  BY <1>1, <1>2, <1>3, SlotsInvariance, PTL DEF Spec, ImplementsVector, Promise!VectorSpec
=============================================================================
