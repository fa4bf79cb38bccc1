-------------------------- MODULE RingBufferProofs --------------------------
(***************************************************************************)
(* For every capacity N, every number of buffers and every set of values:  *)
(* ring_buffer keeps exactly its window constructed, and implements the    *)
(* bounded queue.  The proof looks at one buffer at a time, as storage b,  *)
(* head h and size n: Live says which slots hold an element, Read is the   *)
(* sequence they hold, and there is a lemma for each way an operation      *)
(* changes the three.                                                      *)
(***************************************************************************)
EXTENDS RingBuffer, SequenceTheorems, TLAPS

Index == 0 .. N - 1
Slots == [Index -> Value \cup {Dead}]

\* How far slot i is behind the head, going round.
Behind(h, i) == IF i >= h THEN i - h ELSE i + N - h

\* The n slots from h on hold an element, and no others.
Live(b, h, n) == \A i \in Index : b[i] # Dead <=> Behind(h, i) < n

\* The elements in the order of the queue.
Read(b, h, n) == [j \in 1 .. n |-> b[Wrap(h + (j - 1))]]

IndInv == TypeOK /\ WindowLive

-----------------------------------------------------------------------------
(* Going round. *)

LEMMA WrapOnce ==
  ASSUME NEW i \in Nat, i < N + N
  PROVE  Wrap(i) = (IF i < N THEN i ELSE i - N)
<1>1. N \in Nat \ {0}
  BY CapacityPositive
<1>2. \A n \in Nat \ {0}, a \in Nat : a < n => a % n = a
  OBVIOUS
<1>3. \A n \in Nat \ {0}, a \in Nat : n <= a /\ a < n + n => a % n = a - n
  OBVIOUS
<1>4. CASE i < N
  <2>1. i % N = i
    BY <1>1, <1>2, <1>4, Zenon
  <2> QED
    BY <1>4, <2>1 DEF Wrap
<1>5. CASE ~(i < N)
  <2>1. N <= i
    BY <1>1, <1>5
  <2>2. i % N = i - N
    BY <1>1, <1>3, <2>1, Zenon
  <2> QED
    BY <1>5, <2>2 DEF Wrap
<1> QED
  BY <1>4, <1>5

\* The slot of the k-th element is an index, k behind the head.
LEMMA WrapSlot ==
  ASSUME NEW h \in Index, NEW k \in 0 .. N - 1
  PROVE  Wrap(h + k) \in Index /\ Behind(h, Wrap(h + k)) = k
<1>1. N \in Nat /\ h + k \in Nat /\ h + k < N + N
  BY CapacityPositive DEF Index
<1>2. Wrap(h + k) = (IF h + k < N THEN h + k ELSE h + k - N)
  BY <1>1, WrapOnce DEF Index
<1> QED
  BY <1>1, <1>2 DEF Behind, Index

\* Every slot is where its distance from the head says.
LEMMA SlotBehind ==
  ASSUME NEW h \in Index, NEW i \in Index
  PROVE  Behind(h, i) \in Index /\ Wrap(h + Behind(h, i)) = i
<1>1. N \in Nat /\ Behind(h, i) \in Index
  BY CapacityPositive DEF Behind, Index
<1>2. h + Behind(h, i) \in Nat /\ h + Behind(h, i) < N + N
  BY <1>1 DEF Index
<1>3. h + Behind(h, i) = i \/ h + Behind(h, i) = i + N
  BY <1>1 DEF Behind, Index
<1>4. Wrap(h + Behind(h, i)) = (IF h + Behind(h, i) < N THEN h + Behind(h, i)
                                                         ELSE h + Behind(h, i) - N)
  BY <1>1, <1>2, WrapOnce DEF Index
<1> QED
  BY <1>1, <1>3, <1>4 DEF Index

\* One step round: every other slot is one nearer to the head.
LEMMA StepRound ==
  ASSUME NEW h \in Index, NEW i \in Index
  PROVE  /\ Wrap(h + 1) \in Index
         /\ i # h => Behind(Wrap(h + 1), i) = Behind(h, i) - 1
         /\ Behind(Wrap(h + 1), h) = N - 1
         /\ Behind(h, i) = 0 <=> i = h
<1>1. N \in Nat \ {0} /\ h + 1 \in Nat /\ h + 1 < N + N
  BY CapacityPositive DEF Index
<1>2. Wrap(h + 1) = (IF h + 1 < N THEN h + 1 ELSE h + 1 - N)
  BY <1>1, WrapOnce DEF Index
<1> QED
  BY <1>1, <1>2 DEF Behind, Index

\* The window of RingBuffer, slot by slot.
LEMMA WindowBehind ==
  ASSUME NEW h \in Index, NEW n \in 0 .. N, NEW i \in Index
  PROVE  i \in {Wrap(h + k) : k \in 0 .. n - 1} <=> Behind(h, i) < n
<1>1. ASSUME NEW k \in 0 .. n - 1, i = Wrap(h + k) PROVE Behind(h, i) < n
  <2>1. k \in 0 .. N - 1
    BY CapacityPositive
  <2> QED
    BY <1>1, <2>1, WrapSlot, CapacityPositive
<1>2. ASSUME Behind(h, i) < n PROVE i \in {Wrap(h + k) : k \in 0 .. n - 1}
  <2>1. Behind(h, i) \in 0 .. n - 1
    BY <1>2, SlotBehind, CapacityPositive DEF Index
  <2> QED
    BY <2>1, SlotBehind
<1> QED
  BY <1>1, <1>2

LEMMA WindowIsLive ==
  ASSUME NEW b \in Slots, NEW h \in Index, NEW n \in 0 .. N
  PROVE  {i \in 0 .. N - 1 : b[i] # Dead} = {Wrap(h + k) : k \in 0 .. n - 1}
           <=> Live(b, h, n)
<1> DEFINE W == {Wrap(h + k) : k \in 0 .. n - 1}
<1>1. W \subseteq Index
  <2> SUFFICES ASSUME NEW k \in 0 .. n - 1 PROVE Wrap(h + k) \in Index
    OBVIOUS
  <2>1. k \in 0 .. N - 1
    BY CapacityPositive
  <2> QED
    BY <2>1, WrapSlot
<1>2. \A i \in Index : i \in W <=> Behind(h, i) < n
  BY WindowBehind
<1> HIDE DEF W
<1>3. {i \in Index : b[i] # Dead} = W <=> Live(b, h, n)
  BY <1>1, <1>2 DEF Live
<1> QED
  BY <1>3 DEF Index, W

-----------------------------------------------------------------------------
(* What each change of one buffer does to its live slots. *)

LEMMA AppendLive ==
  ASSUME NEW b \in Slots, NEW h \in Index, NEW n \in 0 .. N - 1, NEW v \in Value, Live(b, h, n)
  PROVE  /\ [b EXCEPT ![Wrap(h + n)] = v] \in Slots
         /\ Live([b EXCEPT ![Wrap(h + n)] = v], h, n + 1)
<1> DEFINE t == Wrap(h + n)
<1>1. t \in Index /\ Behind(h, t) = n /\ N \in Nat
  BY WrapSlot, CapacityPositive
<1>2. [b EXCEPT ![t] = v] \in Slots
  BY <1>1 DEF Slots
<1>3. ASSUME NEW i \in Index PROVE [b EXCEPT ![t] = v][i] # Dead <=> Behind(h, i) < n + 1
  <2>1. CASE i = t
    BY <1>1, <2>1, DeadNotValue DEF Slots
  <2>2. CASE i # t
    <3>1. Behind(h, i) # n /\ Behind(h, i) \in Nat
      BY <2>2, <1>1, SlotBehind DEF Index
    <3>2. [b EXCEPT ![t] = v][i] = b[i]
      BY <2>2 DEF Slots
    <3>3. b[i] # Dead <=> Behind(h, i) < n
      BY DEF Live
    <3> QED
      BY <1>1, <3>1, <3>2, <3>3
  <2> QED
    BY <2>1, <2>2
<1> QED
  BY <1>2, <1>3 DEF Live

LEMMA OverwriteLive ==
  ASSUME NEW b \in Slots, NEW h \in Index, NEW v \in Value, Live(b, h, N)
  PROVE  /\ [b EXCEPT ![h] = v] \in Slots
         /\ Live([b EXCEPT ![h] = v], Wrap(h + 1), N)
<1>1. N \in Nat /\ Wrap(h + 1) \in Index
  BY StepRound, CapacityPositive
<1>2. ASSUME NEW i \in Index PROVE [b EXCEPT ![h] = v][i] # Dead <=> Behind(Wrap(h + 1), i) < N
  <2>1. Behind(Wrap(h + 1), i) < N /\ Behind(h, i) < N
    <3>1. Behind(Wrap(h + 1), i) \in Index
      BY <1>1, SlotBehind
    <3>2. Behind(h, i) \in Index
      BY SlotBehind
    <3> QED
      BY <1>1, <3>1, <3>2 DEF Index
  <2> QED
    BY <2>1, DeadNotValue DEF Live, Slots
<1> QED
  BY <1>2 DEF Live, Slots

LEMMA DropFrontLive ==
  ASSUME NEW b \in Slots, NEW h \in Index, NEW n \in 1 .. N, Live(b, h, n)
  PROVE  /\ [b EXCEPT ![h] = Dead] \in Slots
         /\ Live([b EXCEPT ![h] = Dead], Wrap(h + 1), n - 1)
<1>1. N \in Nat
  BY CapacityPositive
<1>2. ASSUME NEW i \in Index
      PROVE  [b EXCEPT ![h] = Dead][i] # Dead <=> Behind(Wrap(h + 1), i) < n - 1
  <2>1. CASE i = h
    BY <1>1, <2>1, StepRound DEF Slots
  <2>2. CASE i # h
    <3>1. Behind(Wrap(h + 1), i) = Behind(h, i) - 1 /\ Behind(h, i) \in Nat
      BY <2>2, StepRound, SlotBehind DEF Index
    <3>2. b[i] # Dead <=> Behind(h, i) < n
      BY DEF Live
    <3>3. [b EXCEPT ![h] = Dead][i] = b[i]
      BY <2>2 DEF Slots
    <3> QED
      BY <1>1, <3>1, <3>2, <3>3
  <2> QED
    BY <2>1, <2>2
<1> QED
  BY <1>2 DEF Live, Slots

LEMMA PopBackLive ==
  ASSUME NEW b \in Slots, NEW h \in Index, NEW n \in 1 .. N, Live(b, h, n)
  PROVE  /\ [b EXCEPT ![Wrap(h + (n - 1))] = Dead] \in Slots
         /\ Live([b EXCEPT ![Wrap(h + (n - 1))] = Dead], h, n - 1)
<1> DEFINE t == Wrap(h + (n - 1))
<1>1. N \in Nat /\ n - 1 \in 0 .. N - 1
  BY CapacityPositive
<1>2. t \in Index /\ Behind(h, t) = n - 1
  BY <1>1, WrapSlot
<1>3. ASSUME NEW i \in Index PROVE [b EXCEPT ![t] = Dead][i] # Dead <=> Behind(h, i) < n - 1
  <2>1. CASE i = t
    BY <1>1, <1>2, <2>1 DEF Slots
  <2>2. CASE i # t
    <3>1. Behind(h, i) # n - 1 /\ Behind(h, i) \in Nat
      BY <2>2, <1>2, SlotBehind DEF Index
    <3>2. [b EXCEPT ![t] = Dead][i] = b[i]
      BY <2>2 DEF Slots
    <3>3. b[i] # Dead <=> Behind(h, i) < n
      BY DEF Live
    <3> QED
      BY <1>1, <3>1, <3>2, <3>3
  <2> QED
    BY <2>1, <2>2
<1> QED
  BY <1>3 DEF Live, Slots

LEMMA EmptyLive == Empty \in Slots /\ 0 \in Index /\ 0 \in 0 .. N /\ Live(Empty, 0, 0)
<1>1. N \in Nat \ {0}
  BY CapacityPositive
<1>2. ASSUME NEW i \in Index PROVE ~(Behind(0, i) < 0)
  BY <1>1 DEF Behind, Index
<1> QED
  BY <1>1, <1>2 DEF Empty, Slots, Live, Index

\* The elements of b from h on, packed from slot 0 on.
LEMMA PackedLive ==
  ASSUME NEW b \in Slots, NEW h \in Index, NEW n \in 0 .. N, Live(b, h, n),
         NEW p, p = [i \in 0 .. N - 1 |-> IF i < n THEN b[Wrap(h + i)] ELSE Dead]
  PROVE  p \in Slots /\ Live(p, 0, n)
<1>1. N \in Nat \ {0} /\ 0 \in Index
  BY CapacityPositive DEF Index
<1>2. ASSUME NEW i \in Index
      PROVE  /\ p[i] \in Value \cup {Dead}
             /\ p[i] # Dead <=> i < n
             /\ Behind(0, i) = i
  <2>1. Wrap(h + i) \in Index /\ Behind(h, Wrap(h + i)) = i
    BY WrapSlot DEF Index
  <2>2. b[Wrap(h + i)] # Dead <=> i < n
    BY <2>1 DEF Live
  <2>3. p[i] = IF i < n THEN b[Wrap(h + i)] ELSE Dead
    BY DEF Index
  <2>4. Behind(0, i) = i
    BY <1>1 DEF Behind, Index
  <2> QED
    BY <2>1, <2>2, <2>3, <2>4 DEF Slots
<1>3. p = [i \in Index |-> p[i]]
  BY DEF Index
<1>4. p \in Slots
  BY <1>2, <1>3, Zenon DEF Slots
<1>5. Live(p, 0, n)
  BY <1>2 DEF Live
<1> QED
  BY <1>4, <1>5

-----------------------------------------------------------------------------
(* IndInv is preserved. *)

\* One buffer of a state that satisfies IndInv.
LEMMA OneRing ==
  ASSUME IndInv, NEW r \in Ring
  PROVE  /\ buffer[r] \in Slots /\ head[r] \in Index /\ size[r] \in 0 .. N
         /\ ~torn[r] => Live(buffer[r], head[r], size[r])
<1>1. buffer[r] \in Slots /\ head[r] \in Index /\ size[r] \in 0 .. N
  BY DEF IndInv, TypeOK, Slots, Index
<1>2. ASSUME ~torn[r] PROVE Live(buffer[r], head[r], size[r])
  <2>1. {i \in 0 .. N - 1 : buffer[r][i] # Dead}
          = {Wrap(head[r] + k) : k \in 0 .. size[r] - 1}
    BY <1>2 DEF IndInv, WindowLive, Window, Slot
  <2> QED
    BY <1>1, <2>1, WindowIsLive
<1> QED
  BY <1>1, <1>2

\* A step that leaves every buffer typed and live preserves IndInv.
LEMMA LiveInv ==
  ASSUME TypeOK', \A s \in Ring : ~torn'[s] => Live(buffer'[s], head'[s], size'[s])
  PROVE  IndInv'
<1>1. ASSUME NEW s \in Ring, ~torn'[s]
      PROVE  {i \in 0 .. N - 1 : buffer'[s][i] # Dead} = Window(s)'
  <2>1. buffer'[s] \in Slots /\ head'[s] \in Index /\ size'[s] \in 0 .. N
    BY DEF TypeOK, Slots, Index
  <2>2. {i \in 0 .. N - 1 : buffer'[s][i] # Dead}
          = {Wrap(head'[s] + k) : k \in 0 .. size'[s] - 1}
    BY <1>1, <2>1, WindowIsLive
  <2> QED
    BY <2>2 DEF Window, Slot
<1> QED
  BY <1>1 DEF IndInv, WindowLive

\* An operation that changes one buffer.
LEMMA BecomeInv ==
  ASSUME IndInv, NEW r \in Ring, NEW b \in Slots, NEW h \in Index, NEW n \in 0 .. N,
         Live(b, h, n), Become(r, b, h, n), torn' = torn, popped' \in Value \cup {None}
  PROVE  IndInv'
<1>1. TypeOK'
  BY DEF IndInv, TypeOK, Become, Slots, Index
<1>2. ASSUME NEW s \in Ring, ~torn'[s] PROVE Live(buffer'[s], head'[s], size'[s])
  <2>1. CASE s = r
    BY <2>1 DEF IndInv, TypeOK, Become
  <2>2. CASE s # r
    <3>1. buffer'[s] = buffer[s] /\ head'[s] = head[s] /\ size'[s] = size[s] /\ ~torn[s]
      BY <2>2, <1>2 DEF IndInv, TypeOK, Become
    <3> QED
      BY <3>1, OneRing
  <2> QED
    BY <2>1, <2>2
<1> QED
  BY <1>1, <1>2, LiveInv

\* Move assignment and swap: two buffers, both packed.
LEMMA PairInv ==
  ASSUME IndInv, NEW r \in Ring, NEW s \in Ring,
         NEW b \in Slots, NEW n \in 0 .. N, Live(b, 0, n),
         NEW c \in Slots, NEW m \in 0 .. N, Live(c, 0, m),
         buffer' = [buffer EXCEPT ![r] = b, ![s] = c],
         head' = [head EXCEPT ![r] = 0, ![s] = 0],
         size' = [size EXCEPT ![r] = n, ![s] = m],
         UNCHANGED <<torn, popped>>
  PROVE  IndInv'
<1>1. TypeOK'
  BY EmptyLive DEF IndInv, TypeOK, Slots, Index
<1>2. ASSUME NEW q \in Ring, ~torn'[q] PROVE Live(buffer'[q], head'[q], size'[q])
  <2>1. CASE q = s
    BY <2>1 DEF IndInv, TypeOK
  <2>2. CASE q = r /\ q # s
    BY <2>2 DEF IndInv, TypeOK
  <2>3. CASE q # r /\ q # s
    <3>1. buffer'[q] = buffer[q] /\ head'[q] = head[q] /\ size'[q] = size[q] /\ ~torn[q]
      BY <2>3, <1>2 DEF IndInv, TypeOK
    <3> QED
      BY <3>1, OneRing
  <2> QED
    BY <2>1, <2>2, <2>3
<1> QED
  BY <1>1, <1>2, LiveInv

LEMMA PushInv ==
  ASSUME IndInv, NEW r \in Ring, NEW v \in Value, AppendNew(r, v) \/ OverwriteOldest(r, v)
  PROVE  IndInv'
<1>1. N \in Nat /\ popped \in Value \cup {None}
  BY CapacityPositive DEF IndInv, TypeOK
<1>2. CASE AppendNew(r, v)
  <2>1. size[r] \in 0 .. N - 1 /\ size[r] + 1 \in 0 .. N
    BY <1>1, <1>2, OneRing DEF AppendNew
  <2>2. Live(buffer[r], head[r], size[r])
    BY <1>2, OneRing DEF AppendNew
  <2> QED
    BY <1>1, <1>2, <2>1, <2>2, OneRing, AppendLive, BecomeInv DEF AppendNew, TailIndex, Slot
<1>3. CASE OverwriteOldest(r, v)
  <2>1. Live(buffer[r], head[r], N) /\ N \in 0 .. N /\ Wrap(head[r] + 1) \in Index
    BY <1>1, <1>3, OneRing, StepRound DEF OverwriteOldest
  <2> QED
    BY <1>1, <1>3, <2>1, OneRing, OverwriteLive, BecomeInv DEF OverwriteOldest
<1> QED
  BY <1>2, <1>3

LEMMA TearsInv ==
  ASSUME IndInv, NEW r \in Ring, EmplaceTears(r)
  PROVE  IndInv'
<1>1. TypeOK'
  BY DEF IndInv, TypeOK, EmplaceTears
<1>2. ASSUME NEW s \in Ring, ~torn'[s] PROVE Live(buffer'[s], head'[s], size'[s])
  <2>1. s # r /\ ~torn[s]
    BY <1>2 DEF IndInv, TypeOK, EmplaceTears
  <2>2. buffer'[s] = buffer[s] /\ head'[s] = head[s] /\ size'[s] = size[s]
    BY <2>1 DEF IndInv, TypeOK, EmplaceTears
  <2> QED
    BY <2>1, <2>2, OneRing
<1> QED
  BY <1>1, <1>2, LiveInv

\* The oldest element of a buffer that has one is an element.
LEMMA OldestIsElement ==
  ASSUME IndInv, NEW r \in Ring, ~torn[r], size[r] > 0
  PROVE  buffer[r][head[r]] \in Value
<1>1. Behind(head[r], head[r]) = 0
  BY OneRing, StepRound
<1> QED
  BY <1>1, OneRing DEF Live, Slots

LEMMA DropFrontInv ==
  ASSUME IndInv, NEW r \in Ring, ~torn[r], size[r] > 0, DropFront(r), torn' = torn,
         popped' \in Value \cup {None}
  PROVE  IndInv'
<1>1. size[r] \in 1 .. N /\ size[r] - 1 \in 0 .. N
  BY OneRing, CapacityPositive
<1>2. Wrap(head[r] + 1) \in Index
  BY OneRing, StepRound
<1> QED
  BY <1>1, <1>2, OneRing, DropFrontLive, BecomeInv DEF DropFront

LEMMA PopInv ==
  ASSUME IndInv, NEW r \in Ring, PopFront(r) \/ PopBack(r) \/ TryPopFront(r)
  PROVE  IndInv'
<1>1. popped \in Value \cup {None}
  BY DEF IndInv, TypeOK
<1>2. CASE PopFront(r)
  BY <1>1, <1>2, DropFrontInv DEF PopFront
<1>3. CASE PopBack(r)
  <2>1. size[r] \in 1 .. N /\ size[r] - 1 \in 0 .. N /\ Live(buffer[r], head[r], size[r])
    BY <1>3, OneRing, CapacityPositive DEF PopBack
  <2> QED
    BY <1>1, <1>3, <2>1, OneRing, PopBackLive, BecomeInv DEF PopBack, Slot
<1>4. CASE TryPopFront(r)
  <2>1. CASE size[r] > 0
    <3>1. DropFront(r) /\ popped' = buffer[r][head[r]] /\ torn' = torn /\ ~torn[r]
      BY <1>4, <2>1, OneRing DEF TryPopFront
    <3> QED
      BY <2>1, <3>1, OldestIsElement, DropFrontInv
  <2>2. CASE ~(size[r] > 0)
    <3>1. UNCHANGED <<buffer, head, size, torn>> /\ popped' = None
      BY <1>4, <2>2 DEF TryPopFront
    <3>2. \A s \in Ring : ~torn'[s] => Live(buffer'[s], head'[s], size'[s])
      BY <3>1, OneRing
    <3>3. TypeOK'
      BY <3>1 DEF IndInv, TypeOK
    <3> QED
      BY <3>2, <3>3, LiveInv
  <2> QED
    BY <2>1, <2>2
<1> QED
  BY <1>2, <1>3, <1>4

\* clear destroys every element.
LEMMA ClearedIsEmpty ==
  ASSUME IndInv, NEW r \in Ring, ~torn[r]
  PROVE  [i \in 0 .. N - 1 |-> IF i \in Window(r) THEN Dead ELSE buffer[r][i]] = Empty
BY DEF IndInv, WindowLive, Empty

LEMMA PackedIsLive ==
  ASSUME IndInv, NEW r \in Ring, ~torn[r]
  PROVE  Packed(r) \in Slots /\ Live(Packed(r), 0, size[r]) /\ size[r] \in 0 .. N
<1>1. Packed(r) = [i \in 0 .. N - 1 |-> IF i < size[r] THEN buffer[r][Wrap(head[r] + i)] ELSE Dead]
  BY DEF Packed, Element, Slot
<1> QED
  BY <1>1, OneRing, PackedLive

LEMMA WholeInv ==
  ASSUME IndInv, NEW r \in Ring, NEW s \in Ring,
         Clear(r) \/ CopyAssign(r, s) \/ MoveAssign(r, s) \/ Swap(r, s)
  PROVE  IndInv'
<1>1. popped \in Value \cup {None} /\ 0 \in Index
  BY EmptyLive DEF IndInv, TypeOK
<1>2. CASE Clear(r)
  BY <1>1, <1>2, ClearedIsEmpty, EmptyLive, BecomeInv DEF Clear
<1>3. CASE CopyAssign(r, s)
  BY <1>1, <1>3, PackedIsLive, BecomeInv DEF CopyAssign
<1>4. CASE MoveAssign(r, s)
  BY <1>4, PackedIsLive, EmptyLive, PairInv DEF MoveAssign
<1>5. CASE Swap(r, s)
  BY <1>5, PackedIsLive, PairInv DEF Swap
<1> QED
  BY <1>2, <1>3, <1>4, <1>5

LEMMA InitInv == Init => IndInv
<1> SUFFICES ASSUME Init PROVE IndInv
  OBVIOUS
<1>1. TypeOK
  BY EmptyLive DEF Init, TypeOK, Slots, Index
<1>2. ASSUME NEW r \in Ring PROVE {i \in 0 .. N - 1 : buffer[r][i] # Dead} = Window(r)
  <2>1. {i \in 0 .. N - 1 : buffer[r][i] # Dead} = {}
    BY DEF Init, Empty
  <2>2. 0 .. size[r] - 1 = {}
    BY DEF Init
  <2> QED
    BY <2>1, <2>2 DEF Window
<1> QED
  BY <1>1, <1>2 DEF IndInv, WindowLive

LEMMA NextInv == IndInv /\ [Next]_vars => IndInv'
<1> SUFFICES ASSUME IndInv, [Next]_vars PROVE IndInv'
  OBVIOUS
<1>1. CASE Next
  BY <1>1, PushInv, TearsInv, PopInv, WholeInv DEF Next
<1>2. CASE UNCHANGED vars
  <2>1. TypeOK'
    BY <1>2 DEF vars, IndInv, TypeOK
  <2>2. \A s \in Ring : ~torn'[s] => Live(buffer'[s], head'[s], size'[s])
    BY <1>2, OneRing DEF vars
  <2> QED
    BY <2>1, <2>2, LiveInv
<1> QED
  BY <1>1, <1>2

\* The inductive invariant holds of every behaviour.
THEOREM Invariance == Spec => []IndInv
<1> QED
  BY InitInv, NextInv, PTL DEF Spec

-----------------------------------------------------------------------------
(* The sequence in a buffer, and what each change does to it. *)

LEMMA ReadIsSeq ==
  ASSUME NEW b \in Slots, NEW h \in Index, NEW n \in 0 .. N, Live(b, h, n)
  PROVE  Read(b, h, n) \in Seq(Value) /\ Len(Read(b, h, n)) = n
<1>1. N \in Nat
  BY CapacityPositive
<1>2. ASSUME NEW j \in 1 .. n PROVE b[Wrap(h + (j - 1))] \in Value
  <2>1. j - 1 \in 0 .. N - 1
    BY <1>1
  <2>2. Wrap(h + (j - 1)) \in Index /\ Behind(h, Wrap(h + (j - 1))) = j - 1
    BY <2>1, WrapSlot
  <2> QED
    BY <1>1, <2>2 DEF Live, Slots
<1>3. Read(b, h, n) \in [1 .. n -> Value]
  BY <1>2 DEF Read
<1> QED
  BY <1>1, <1>3

LEMMA ReadNone == \A b, h : Read(b, h, 0) = <<>>
BY DEF Read

\* One step round, k slots on: k + 1 slots on from where we were, or back there.
LEMMA WrapStep ==
  ASSUME NEW h \in Index, NEW k \in 0 .. N - 1
  PROVE  Wrap(Wrap(h + 1) + k) = IF k = N - 1 THEN h ELSE Wrap(h + (k + 1))
<1>1. N \in Nat \ {0} /\ h + 1 \in Nat /\ h + 1 < N + N
  BY CapacityPositive DEF Index
<1>2. Wrap(h + 1) = (IF h + 1 < N THEN h + 1 ELSE h + 1 - N)
  BY <1>1, WrapOnce DEF Index
<1>3. Wrap(h + 1) + k \in Nat /\ Wrap(h + 1) + k < N + N
  BY <1>1, <1>2 DEF Index
<1>4. Wrap(Wrap(h + 1) + k) = (IF Wrap(h + 1) + k < N THEN Wrap(h + 1) + k
                                                     ELSE Wrap(h + 1) + k - N)
  BY <1>1, <1>2, <1>3, WrapOnce DEF Index
<1>5. CASE k = N - 1
  BY <1>1, <1>2, <1>4, <1>5 DEF Index
<1>6. CASE k # N - 1
  <2>1. h + (k + 1) \in Nat /\ h + (k + 1) < N + N
    BY <1>1, <1>6 DEF Index
  <2>2. Wrap(h + (k + 1)) = (IF h + (k + 1) < N THEN h + (k + 1) ELSE h + (k + 1) - N)
    BY <1>1, <2>1, WrapOnce DEF Index
  <2> QED
    BY <1>1, <1>2, <1>4, <1>6, <2>2 DEF Index
<1> QED
  BY <1>5, <1>6

LEMMA ReadAppend ==
  ASSUME NEW b \in Slots, NEW h \in Index, NEW n \in 0 .. N - 1, NEW v \in Value, Live(b, h, n)
  PROVE  Read([b EXCEPT ![Wrap(h + n)] = v], h, n + 1) = Append(Read(b, h, n), v)
<1> DEFINE t == Wrap(h + n)
           c == [b EXCEPT ![t] = v]
           s == Read(b, h, n)
<1>1. N \in Nat /\ t \in Index /\ Behind(h, t) = n
  BY WrapSlot, CapacityPositive
<1>2. s \in Seq(Value) /\ Len(s) = n
  BY <1>1, ReadIsSeq
<1>3. ASSUME NEW j \in 1 .. n PROVE c[Wrap(h + (j - 1))] = s[j]
  <2>1. j - 1 \in 0 .. N - 1
    BY <1>1
  <2>2. Wrap(h + (j - 1)) \in Index /\ Behind(h, Wrap(h + (j - 1))) = j - 1
    BY <2>1, WrapSlot
  <2>3. Wrap(h + (j - 1)) # t
    BY <1>1, <2>1, <2>2
  <2> QED
    BY <2>2, <2>3 DEF Slots, Read
<1>4. c[Wrap(h + ((n + 1) - 1))] = v
  BY <1>1 DEF Slots
<1> HIDE DEF s, c
<1>5. /\ Append(s, v) \in Seq(Value) /\ Len(Append(s, v)) = n + 1
      /\ \A j \in 1 .. n : Append(s, v)[j] = s[j]
      /\ Append(s, v)[n + 1] = v
  BY <1>2, AppendProperties
<1>6. ASSUME NEW j \in 1 .. n + 1 PROVE c[Wrap(h + (j - 1))] = Append(s, v)[j]
  <2>1. CASE j = n + 1
    BY <1>4, <1>5, <2>1
  <2>2. CASE j # n + 1
    <3>1. j \in 1 .. n
      BY <1>1, <2>2
    <3> QED
      BY <1>3, <1>5, <3>1
  <2> QED
    BY <2>1, <2>2
<1>7. Read(c, h, n + 1) = Append(s, v)
  <2>1. Append(s, v) = [j \in 1 .. n + 1 |-> Append(s, v)[j]]
    BY <1>5, LenProperties
  <2> QED
    BY <1>6, <2>1 DEF Read
<1> QED
  BY <1>7 DEF s, c

\* The elements behind the oldest one, from the next slot on.
LEMMA ReadDrop ==
  ASSUME NEW b \in Slots, NEW h \in Index, NEW n \in 1 .. N, Live(b, h, n), NEW d
  PROVE  Read([b EXCEPT ![h] = d], Wrap(h + 1), n - 1) = Tail(Read(b, h, n))
<1> DEFINE c == [b EXCEPT ![h] = d]
           s == Read(b, h, n)
<1>1. N \in Nat /\ n - 1 \in Nat
  BY CapacityPositive
<1>2. s \in Seq(Value) /\ Len(s) = n
  BY <1>1, ReadIsSeq
<1>3. ASSUME NEW j \in 1 .. n - 1 PROVE c[Wrap(Wrap(h + 1) + (j - 1))] = s[j + 1]
  <2>1. j - 1 \in 0 .. N - 1 /\ j \in 0 .. N - 1 /\ j - 1 # N - 1 /\ (j - 1) + 1 = j
        /\ j + 1 \in 1 .. n /\ (j + 1) - 1 = j
    BY <1>1
  <2>2. Wrap(Wrap(h + 1) + (j - 1)) = Wrap(h + j)
    BY <2>1, WrapStep
  <2>3. Wrap(h + j) \in Index /\ Behind(h, Wrap(h + j)) = j
    BY <2>1, WrapSlot
  <2>4. Wrap(h + j) # h
    BY <2>1, <2>3, StepRound
  <2> QED
    BY <2>1, <2>2, <2>3, <2>4 DEF Slots, Read
<1> HIDE DEF s, c
<1>4. /\ Tail(s) \in Seq(Value) /\ Len(Tail(s)) = n - 1
      /\ \A j \in 1 .. n - 1 : Tail(s)[j] = s[j + 1]
  BY <1>1, <1>2, HeadTailProperties
<1>5. Read(c, Wrap(h + 1), n - 1) = Tail(s)
  <2>1. Tail(s) = [j \in 1 .. n - 1 |-> Tail(s)[j]]
    BY <1>4, LenProperties
  <2> QED
    BY <1>3, <1>4, <2>1 DEF Read
<1> QED
  BY <1>5 DEF s, c

LEMMA ReadOverwrite ==
  ASSUME NEW b \in Slots, NEW h \in Index, NEW v \in Value, Live(b, h, N)
  PROVE  Read([b EXCEPT ![h] = v], Wrap(h + 1), N) = Append(Tail(Read(b, h, N)), v)
<1> DEFINE c == [b EXCEPT ![h] = v]
           g == Wrap(h + 1)
           s == Read(b, h, N)
           q == Read(c, g, N - 1)
<1>1. N \in Nat /\ N \in 1 .. N /\ N - 1 \in 0 .. N - 1 /\ N \in 0 .. N
  BY CapacityPositive
<1>2. q = Tail(s)
  BY <1>1, ReadDrop
<1>3. s \in Seq(Value) /\ Len(s) = N
  BY <1>1, ReadIsSeq
<1>4. q \in Seq(Value) /\ Len(q) = N - 1
  <2> HIDE DEF q, s
  <2> QED
    BY <1>1, <1>2, <1>3
<1>5. c[Wrap(g + (N - 1))] = v
  <2>1. Wrap(g + (N - 1)) = h
    BY <1>1, WrapStep
  <2> QED
    BY <2>1 DEF Slots
<1>6. \A j \in 1 .. N - 1 : q[j] = c[Wrap(g + (j - 1))]
  BY DEF Read
<1> HIDE DEF q, s, c, g
<1>7. /\ Append(q, v) \in Seq(Value) /\ Len(Append(q, v)) = N
      /\ \A j \in 1 .. N - 1 : Append(q, v)[j] = q[j]
      /\ Append(q, v)[N] = v
  BY <1>1, <1>4, AppendProperties
<1>8. ASSUME NEW j \in 1 .. N PROVE c[Wrap(g + (j - 1))] = Append(q, v)[j]
  <2>1. CASE j = N
    BY <1>5, <1>7, <2>1
  <2>2. CASE j # N
    <3>1. j \in 1 .. N - 1
      BY <1>1, <2>2
    <3> QED
      BY <1>6, <1>7, <3>1
  <2> QED
    BY <2>1, <2>2
<1>9. Read(c, g, N) = Append(q, v)
  <2>1. Append(q, v) = [j \in 1 .. N |-> Append(q, v)[j]]
    BY <1>7, LenProperties
  <2> QED
    BY <1>8, <2>1 DEF Read
<1> QED
  BY <1>2, <1>9 DEF s, c, g

LEMMA ReadPopBack ==
  ASSUME NEW b \in Slots, NEW h \in Index, NEW n \in 1 .. N, Live(b, h, n)
  PROVE  Read([b EXCEPT ![Wrap(h + (n - 1))] = Dead], h, n - 1)
           = SubSeq(Read(b, h, n), 1, Len(Read(b, h, n)) - 1)
<1> DEFINE t == Wrap(h + (n - 1))
           c == [b EXCEPT ![t] = Dead]
           s == Read(b, h, n)
<1>1. N \in Nat /\ n - 1 \in 0 .. N - 1
  BY CapacityPositive
<1>2. s \in Seq(Value) /\ Len(s) = n
  BY <1>1, ReadIsSeq
<1>3. t \in Index /\ Behind(h, t) = n - 1
  BY <1>1, WrapSlot
<1>4. ASSUME NEW j \in 1 .. n - 1 PROVE c[Wrap(h + (j - 1))] = s[j]
  <2>1. j - 1 \in 0 .. N - 1 /\ j - 1 # n - 1 /\ j \in 1 .. n
    BY <1>1
  <2>2. Wrap(h + (j - 1)) \in Index /\ Behind(h, Wrap(h + (j - 1))) = j - 1
    BY <2>1, WrapSlot
  <2>3. Wrap(h + (j - 1)) # t
    BY <1>3, <2>1, <2>2
  <2> QED
    BY <2>1, <2>2, <2>3 DEF Slots, Read
<1> HIDE DEF s, c
<1>5. SubSeq(s, 1, n - 1) = [j \in 1 .. n - 1 |-> s[j]]
  BY <1>1, <1>2
<1>6. Read(c, h, n - 1) = SubSeq(s, 1, Len(s) - 1)
  BY <1>2, <1>4, <1>5 DEF Read
<1> QED
  BY <1>6 DEF s, c

LEMMA ReadPacked ==
  ASSUME IndInv, NEW r \in Ring, ~torn[r]
  PROVE  Read(Packed(r), 0, size[r]) = Read(buffer[r], head[r], size[r])
<1>1. N \in Nat \ {0} /\ size[r] \in 0 .. N
  BY OneRing, CapacityPositive
<1>2. ASSUME NEW j \in 1 .. size[r]
      PROVE  Packed(r)[Wrap(0 + (j - 1))] = buffer[r][Wrap(head[r] + (j - 1))]
  <2>1. 0 + (j - 1) \in Nat /\ 0 + (j - 1) < N + N /\ 0 + (j - 1) < N
    BY <1>1
  <2>2. Wrap(0 + (j - 1)) = j - 1
    BY <1>1, <2>1, WrapOnce
  <2> QED
    BY <1>1, <2>2 DEF Packed, Element, Slot
<1> QED
  BY <1>2 DEF Read

-----------------------------------------------------------------------------
(* Every step is a step of the bounded queue. *)

LEMMA ContentIs ==
  /\ Content = [r \in Ring |-> IF torn[r] THEN <<>> ELSE Read(buffer[r], head[r], size[r])]
  /\ Content' = [r \in Ring |-> IF torn'[r] THEN <<>> ELSE Read(buffer'[r], head'[r], size'[r])]
BY DEF Content, Element, Slot, Read

LEMMA ContentOf ==
  ASSUME IndInv, NEW r \in Ring, ~torn[r]
  PROVE  /\ Content[r] = Read(buffer[r], head[r], size[r])
         /\ Content[r] \in Seq(Value) /\ Len(Content[r]) = size[r]
         /\ Usable[r]
<1>1. Content[r] = Read(buffer[r], head[r], size[r])
  BY ContentIs
<1>2. buffer[r] \in Slots /\ head[r] \in Index /\ size[r] \in 0 .. N
      /\ Live(buffer[r], head[r], size[r])
  BY OneRing
<1>3. Read(buffer[r], head[r], size[r]) \in Seq(Value)
      /\ Len(Read(buffer[r], head[r], size[r])) = size[r]
  BY <1>2, ReadIsSeq
<1>4. Usable[r]
  BY DEF Usable
<1> QED
  BY <1>1, <1>3, <1>4

LEMMA ContentBecomes ==
  ASSUME IndInv, NEW r \in Ring, ~torn[r], NEW b, NEW h, NEW n,
         Become(r, b, h, n), torn' = torn
  PROVE  /\ Content' = [Content EXCEPT ![r] = Read(b, h, n)]
         /\ Usable' = Usable
<1>1. /\ buffer' = [buffer EXCEPT ![r] = b] /\ head' = [head EXCEPT ![r] = h]
      /\ size' = [size EXCEPT ![r] = n]
      /\ DOMAIN buffer = Ring /\ DOMAIN head = Ring /\ DOMAIN size = Ring
  BY DEF Become, IndInv, TypeOK
<1>2. ASSUME NEW q \in Ring
      PROVE  (IF torn'[q] THEN <<>> ELSE Read(buffer'[q], head'[q], size'[q]))
               = IF q = r THEN Read(b, h, n)
                 ELSE IF torn[q] THEN <<>> ELSE Read(buffer[q], head[q], size[q])
  <2>1. CASE q = r
    BY <1>1, <2>1
  <2>2. CASE q # r
    BY <1>1, <2>2
  <2> QED
    BY <2>1, <2>2
<1> QED
  BY <1>2, ContentIs DEF Usable

LEMMA ContentOfPair ==
  ASSUME IndInv, NEW r \in Ring, NEW s \in Ring, ~torn[r], ~torn[s],
         NEW b, NEW n, NEW c, NEW m,
         buffer' = [buffer EXCEPT ![r] = b, ![s] = c],
         head' = [head EXCEPT ![r] = 0, ![s] = 0],
         size' = [size EXCEPT ![r] = n, ![s] = m],
         torn' = torn
  PROVE  /\ Content' = [Content EXCEPT ![r] = Read(b, 0, n), ![s] = Read(c, 0, m)]
         /\ Usable' = Usable
<1>1. DOMAIN buffer = Ring /\ DOMAIN head = Ring /\ DOMAIN size = Ring
  BY DEF IndInv, TypeOK
<1>2. ASSUME NEW q \in Ring
      PROVE  (IF torn'[q] THEN <<>> ELSE Read(buffer'[q], head'[q], size'[q]))
               = IF q = s THEN Read(c, 0, m) ELSE IF q = r THEN Read(b, 0, n)
                 ELSE IF torn[q] THEN <<>> ELSE Read(buffer[q], head[q], size[q])
  <2>1. CASE q = s
    BY <1>1, <2>1
  <2>2. CASE q = r /\ q # s
    BY <1>1, <2>2
  <2>3. CASE q # r /\ q # s
    BY <1>1, <2>3
  <2> QED
    BY <2>1, <2>2, <2>3
<1> QED
  BY <1>2, ContentIs DEF Usable

LEMMA InitRefines == IndInv /\ Init => Abstract!Init
<1> SUFFICES ASSUME IndInv, Init PROVE Abstract!Init
  OBVIOUS
<1>1. \A r \in Ring : torn[r] = FALSE /\ size[r] = 0 /\ head[r] = 0
  BY DEF Init
<1>2. Content = [r \in Ring |-> <<>>]
  BY <1>1, ContentIs, ReadNone
<1>3. Usable = [r \in Ring |-> TRUE]
  BY <1>1 DEF Usable
<1> QED
  BY <1>2, <1>3 DEF Init, Abstract!Init

LEMMA AppendRefines ==
  ASSUME IndInv, NEW r \in Ring, NEW v \in Value, AppendNew(r, v)
  PROVE  Abstract!Push(r, v)
<1>1. ~torn[r] /\ size[r] \in 0 .. N - 1 /\ size[r] # N
  BY OneRing, CapacityPositive DEF AppendNew
<1>2. Content' = [Content EXCEPT ![r] =
                    Read([buffer[r] EXCEPT ![TailIndex(r)] = v], head[r], size[r] + 1)]
      /\ Usable' = Usable /\ popped' = popped
  BY <1>1, ContentBecomes DEF AppendNew
<1>3. Read([buffer[r] EXCEPT ![TailIndex(r)] = v], head[r], size[r] + 1) = Append(Content[r], v)
  BY <1>1, OneRing, ReadAppend, ContentOf DEF TailIndex, Slot
<1> QED
  BY <1>1, <1>2, <1>3, ContentOf DEF Abstract!Push, Abstract!Become, Abstract!Full

LEMMA OverwriteRefines ==
  ASSUME IndInv, NEW r \in Ring, NEW v \in Value, OverwriteOldest(r, v)
  PROVE  Abstract!Push(r, v)
<1>1. ~torn[r] /\ size[r] = N
  BY DEF OverwriteOldest
<1>2. Content' = [Content EXCEPT ![r] =
                    Read([buffer[r] EXCEPT ![head[r]] = v], Wrap(head[r] + 1), N)]
      /\ Usable' = Usable /\ popped' = popped
  BY <1>1, ContentBecomes DEF OverwriteOldest
<1>3. Read([buffer[r] EXCEPT ![head[r]] = v], Wrap(head[r] + 1), N) = Append(Tail(Content[r]), v)
  BY <1>1, OneRing, ReadOverwrite, ContentOf
<1> QED
  BY <1>1, <1>2, <1>3, ContentOf DEF Abstract!Push, Abstract!Become, Abstract!Full

LEMMA TearsRefines ==
  ASSUME IndInv, NEW r \in Ring, EmplaceTears(r)
  PROVE  Abstract!Lose(r)
<1>1. ~torn[r] /\ size[r] = N /\ popped' = popped /\ size' = size /\ head' = head
      /\ torn' = [torn EXCEPT ![r] = TRUE]
      /\ \A q \in Ring : q # r => buffer'[q] = buffer[q]
  BY DEF EmplaceTears, IndInv, TypeOK
<1>2. DOMAIN torn = Ring
  BY DEF IndInv, TypeOK
<1>3. Usable' = [Usable EXCEPT ![r] = FALSE]
  BY <1>1, <1>2 DEF Usable
<1>4. Content' = [Content EXCEPT ![r] = <<>>]
  <2>1. ASSUME NEW q \in Ring
        PROVE  (IF torn'[q] THEN <<>> ELSE Read(buffer'[q], head'[q], size'[q]))
                 = IF q = r THEN <<>>
                   ELSE IF torn[q] THEN <<>> ELSE Read(buffer[q], head[q], size[q])
    BY <1>1, <1>2
  <2> QED
    BY <2>1, ContentIs
<1> QED
  BY <1>1, <1>3, <1>4, ContentOf DEF Abstract!Lose, Abstract!Full

\* What dropping the oldest element does to the contents.
LEMMA DropFrontRefines ==
  ASSUME IndInv, NEW r \in Ring, ~torn[r], size[r] > 0, DropFront(r), torn' = torn
  PROVE  /\ Content' = [Content EXCEPT ![r] = Tail(Content[r])]
         /\ Usable' = Usable
         /\ Content[r] # <<>>
         /\ Head(Content[r]) = buffer[r][head[r]]
<1>1. size[r] \in 1 .. N /\ N \in Nat \ {0}
  BY OneRing, CapacityPositive
<1>2. Read([buffer[r] EXCEPT ![head[r]] = Dead], Wrap(head[r] + 1), size[r] - 1)
        = Tail(Content[r])
  <2>1. buffer[r] \in Slots /\ head[r] \in Index /\ Live(buffer[r], head[r], size[r])
    BY OneRing
  <2>2. Read([buffer[r] EXCEPT ![head[r]] = Dead], Wrap(head[r] + 1), size[r] - 1)
          = Tail(Read(buffer[r], head[r], size[r]))
    BY <1>1, <2>1, ReadDrop
  <2> QED
    BY <2>2, ContentOf
<1>3. Content[r] # <<>>
  BY <1>1, ContentOf
<1>4. Head(Content[r]) = buffer[r][head[r]]
  <2>1. Wrap(head[r] + (1 - 1)) = head[r]
    BY <1>1, OneRing, WrapOnce DEF Index
  <2>2. Content[r][1] = buffer[r][head[r]]
    <3>1. 1 \in 1 .. size[r]
      BY <1>1
    <3>2. Read(buffer[r], head[r], size[r])[1] = buffer[r][Wrap(head[r] + (1 - 1))]
      BY <3>1 DEF Read
    <3> QED
      BY <2>1, <3>2, ContentOf
  <2> QED
    BY <1>3, <2>2, ContentOf
<1>5. Content' = [Content EXCEPT ![r] =
                    Read([buffer[r] EXCEPT ![head[r]] = Dead], Wrap(head[r] + 1), size[r] - 1)]
      /\ Usable' = Usable
  BY ContentBecomes DEF DropFront
<1> QED
  BY <1>2, <1>3, <1>4, <1>5

LEMMA PopRefines ==
  ASSUME IndInv, NEW r \in Ring
  PROVE  /\ PopFront(r) => Abstract!PopFront(r)
         /\ PopBack(r) => Abstract!PopBack(r)
         /\ TryPopFront(r) => Abstract!TryPopFront(r)
<1>1. ASSUME PopFront(r) PROVE Abstract!PopFront(r)
  BY <1>1, DropFrontRefines, ContentOf DEF PopFront, Abstract!PopFront, Abstract!Become
<1>2. ASSUME PopBack(r) PROVE Abstract!PopBack(r)
  <2>1. ~torn[r] /\ size[r] \in 1 .. N /\ torn' = torn /\ popped' = popped
    BY <1>2, OneRing, CapacityPositive DEF PopBack
  <2>2. Content' = [Content EXCEPT ![r] =
                      Read([buffer[r] EXCEPT ![Slot(r, size[r] - 1)] = Dead], head[r], size[r] - 1)]
        /\ Usable' = Usable
    BY <1>2, <2>1, ContentBecomes DEF PopBack
  <2>3. Read([buffer[r] EXCEPT ![Slot(r, size[r] - 1)] = Dead], head[r], size[r] - 1)
          = SubSeq(Content[r], 1, Len(Content[r]) - 1)
    BY <2>1, OneRing, ReadPopBack, ContentOf DEF Slot
  <2>4. Content[r] # <<>>
    BY <2>1, ContentOf
  <2> QED
    BY <2>1, <2>2, <2>3, <2>4, ContentOf DEF Abstract!PopBack, Abstract!Become
<1>3. ASSUME TryPopFront(r) PROVE Abstract!TryPopFront(r)
  <2>1. ~torn[r] /\ torn' = torn
    BY <1>3 DEF TryPopFront
  <2>2. CASE size[r] > 0
    <3>1. DropFront(r) /\ popped' = buffer[r][head[r]]
      BY <1>3, <2>2 DEF TryPopFront
    <3> QED
      BY <2>1, <2>2, <3>1, DropFrontRefines, ContentOf DEF Abstract!TryPopFront
  <2>3. CASE ~(size[r] > 0)
    <3>1. size[r] = 0 /\ UNCHANGED <<buffer, head, size>> /\ popped' = None
      BY <1>3, <2>3, OneRing DEF TryPopFront
    <3>2. Content[r] = <<>>
      BY <2>1, <3>1, ContentOf, ReadNone
    <3>3. Content' = Content /\ Usable' = Usable
      BY <2>1, <3>1, ContentIs DEF Usable
    <3>4. Content = [Content EXCEPT ![r] = Content[r]]
      BY ContentIs
    <3> QED
      BY <2>1, <3>1, <3>2, <3>3, <3>4, ContentOf DEF Abstract!TryPopFront
  <2> QED
    BY <2>2, <2>3
<1> QED
  BY <1>1, <1>2, <1>3

LEMMA WholeRefines ==
  ASSUME IndInv, NEW r \in Ring, NEW s \in Ring
  PROVE  /\ Clear(r) => Abstract!Clear(r)
         /\ CopyAssign(r, s) => Abstract!Copy(r, s)
         /\ MoveAssign(r, s) => Abstract!Move(r, s)
         /\ Swap(r, s) => Abstract!Swap(r, s)
<1>1. ASSUME Clear(r) PROVE Abstract!Clear(r)
  <2>1. ~torn[r] /\ torn' = torn /\ popped' = popped /\ Become(r, Empty, 0, 0)
    BY <1>1, ClearedIsEmpty DEF Clear
  <2>2. Content' = [Content EXCEPT ![r] = <<>>] /\ Usable' = Usable
    BY <2>1, ContentBecomes, ReadNone
  <2> QED
    BY <2>1, <2>2, ContentOf DEF Abstract!Clear, Abstract!Become
<1>2. ASSUME CopyAssign(r, s) PROVE Abstract!Copy(r, s)
  <2>1. ~torn[r] /\ ~torn[s] /\ torn' = torn /\ popped' = popped
    BY <1>2 DEF CopyAssign
  <2>2. Content' = [Content EXCEPT ![r] = Read(Packed(s), 0, size[s])] /\ Usable' = Usable
    BY <1>2, <2>1, ContentBecomes DEF CopyAssign
  <2> QED
    BY <2>1, <2>2, ReadPacked, ContentOf DEF Abstract!Copy, Abstract!Become
<1>3. ASSUME MoveAssign(r, s) PROVE Abstract!Move(r, s)
  <2>1. ~torn[r] /\ ~torn[s] /\ torn' = torn /\ popped' = popped /\ r # s
    BY <1>3 DEF MoveAssign
  <2>2. Content' = [Content EXCEPT ![r] = Read(Packed(s), 0, size[s]), ![s] = Read(Empty, 0, 0)]
        /\ Usable' = Usable
    BY <1>3, <2>1, ContentOfPair DEF MoveAssign
  <2> QED
    BY <2>1, <2>2, ReadPacked, ReadNone, ContentOf DEF Abstract!Move
<1>4. ASSUME Swap(r, s) PROVE Abstract!Swap(r, s)
  <2>1. ~torn[r] /\ ~torn[s] /\ torn' = torn /\ popped' = popped
    BY <1>4 DEF Swap
  <2>2. Content' = [Content EXCEPT ![r] = Read(Packed(s), 0, size[s]),
                                   ![s] = Read(Packed(r), 0, size[r])]
        /\ Usable' = Usable
    BY <1>4, <2>1, ContentOfPair DEF Swap
  <2> QED
    BY <2>1, <2>2, ReadPacked, ContentOf DEF Abstract!Swap
<1> QED
  BY <1>1, <1>2, <1>3, <1>4

LEMMA NextRefines == IndInv /\ [Next]_vars => [Abstract!Next]_<<Content, Usable, popped>>
<1> SUFFICES ASSUME IndInv, [Next]_vars PROVE [Abstract!Next]_<<Content, Usable, popped>>
  OBVIOUS
<1>1. CASE Next
  <2>1. PICK r \in Ring :
          \/ \E v \in Value : AppendNew(r, v) \/ OverwriteOldest(r, v)
          \/ EmplaceTears(r) \/ PopFront(r) \/ PopBack(r) \/ TryPopFront(r) \/ Clear(r)
          \/ \E s \in Ring : CopyAssign(r, s) \/ MoveAssign(r, s) \/ Swap(r, s)
    BY <1>1 DEF Next
  <2>2. \/ \E v \in Value : Abstract!Push(r, v)
        \/ Abstract!Lose(r) \/ Abstract!PopFront(r) \/ Abstract!PopBack(r)
        \/ Abstract!TryPopFront(r) \/ Abstract!Clear(r)
        \/ \E s \in Ring : Abstract!Copy(r, s) \/ Abstract!Move(r, s) \/ Abstract!Swap(r, s)
    BY <2>1, AppendRefines, OverwriteRefines, TearsRefines, PopRefines, WholeRefines
  <2> QED
    BY <2>2 DEF Abstract!Next
<1>2. CASE UNCHANGED vars
  BY <1>2, ContentIs DEF vars, Usable
<1> QED
  BY <1>1, <1>2

-----------------------------------------------------------------------------
(* Theorems *)

\* The fields and slots of every buffer keep their types: head stays an index, and size
\* never exceeds N, however pushes, pops, overwrites and moves are interleaved.
THEOREM TypeCorrect == Spec => []TypeOK
<1>1. IndInv => TypeOK
  BY DEF IndInv
<1> QED
  BY <1>1, Invariance, PTL

\* Exactly the slots of the circular window are constructed: nothing is leaked and nothing
\* is destroyed twice.
THEOREM WindowAlwaysLive == Spec => []WindowLive
<1>1. IndInv => WindowLive
  BY DEF IndInv
<1> QED
  BY <1>1, Invariance, PTL

\* ring_buffer implements the bounded queue: what is pushed comes out in order, a push on a
\* full buffer costs the oldest element only, and copies, moves and swaps keep the order.
THEOREM Refinement == Spec => ImplementsQueue
<1>1. IndInv /\ Init => Abstract!Init
  BY InitRefines
<1>2. IndInv /\ [Next]_vars => [Abstract!Next]_<<Content, Usable, popped>>
  BY NextRefines
<1> QED
  BY <1>1, <1>2, InitInv, Invariance, PTL
  DEF Spec, ImplementsQueue, Abstract!QueueSpec, Abstract!queueVars
=============================================================================
