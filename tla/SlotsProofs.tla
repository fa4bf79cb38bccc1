---------------------------- MODULE SlotsProofs ----------------------------
(***************************************************************************)
(* What the helpers of container_base.hpp leave in the slots they work on, *)
(* for storage of any length.  Row(n, s) is storage of n slots whose first *)
(* ones hold the sequence s, and Gapped(n, s, p, g) the same with g raw    *)
(* slots before element p: an overlapping move is a gap that travels, one  *)
(* slot with every turn of its loop.                                       *)
(***************************************************************************)
EXTENDS Slots, TLAPS, WellFoundedInduction, SequenceTheorems

Row(n, s) == [i \in 0 .. n - 1 |-> IF i < Len(s) THEN s[i + 1] ELSE Raw]

Gapped(n, s, p, g) ==
  [i \in 0 .. n - 1 |-> IF i < p THEN s[i + 1]
                        ELSE IF i < p + g THEN Raw
                        ELSE IF i < Len(s) + g THEN s[i - g + 1] ELSE Raw]

LEMMA SeqFacts ==
  ASSUME NEW s \in Seq(Value)
  PROVE  Len(s) \in Nat /\ \A j \in 1 .. Len(s) : s[j] \in Value /\ s[j] # Raw /\ s[j] # Clash
BY SlotKinds

LEMMA GapAtEnd ==
  ASSUME NEW n \in Nat, NEW s \in Seq(Value), NEW g \in Nat
  PROVE  Gapped(n, s, Len(s), g) = Row(n, s)
BY DEF Gapped, Row

LEMMA NoGap ==
  ASSUME NEW n \in Nat, NEW s \in Seq(Value), NEW p \in 0 .. Len(s)
  PROVE  Gapped(n, s, p, 0) = Row(n, s)
BY DEF Gapped, Row

LEMMA RawIsRow == ASSUME NEW n \in Nat PROVE RawSlots(n) = Row(n, <<>>)
BY DEF RawSlots, Row

-----------------------------------------------------------------------------
(* One turn of the loops. *)

\* The element in slot s is in slot d.
AfterTurn(n, b, d, s) == [i \in 0 .. n - 1 |-> IF i = d THEN b[s] ELSE IF i = s THEN Raw ELSE b[i]]

LEMMA RelocatedSlots ==
  ASSUME NEW n \in Nat, NEW b \in [0 .. n - 1 -> Value \cup {Raw}],
         NEW d \in 0 .. n - 1, NEW s \in 0 .. n - 1, d # s, b[d] = Raw, b[s] \in Value
  PROVE  Relocated(b, d, s) = AfterTurn(n, b, d, s)
BY SlotKinds DEF AfterTurn, Relocated, DestroyedAt, Constructed

LEMMA GapUp ==
  ASSUME NEW n \in Nat, NEW s \in Seq(Value), NEW p \in Nat, NEW g \in Nat, g > 0,
         p < Len(s), Len(s) + g <= n
  PROVE  /\ Relocated(Gapped(n, s, p, g), p, p + g) = Gapped(n, s, p + 1, g)
         /\ Relocated(Gapped(n, s, p + 1, g), p + g, p) = Gapped(n, s, p, g)
<1> DEFINE b == Gapped(n, s, p, g)  c == Gapped(n, s, p + 1, g)  e == p + g
<1>1. /\ b \in [0 .. n - 1 -> Value \cup {Raw}] /\ c \in [0 .. n - 1 -> Value \cup {Raw}]
      /\ p \in 0 .. n - 1 /\ e \in 0 .. n - 1 /\ p # e
  BY SeqFacts DEF Gapped
<1>2. p + 1 \in 1 .. Len(s) /\ s[p + 1] \in Value
  BY SeqFacts
<1>3. b[p] = Raw /\ b[e] = s[p + 1] /\ c[e] = Raw /\ c[p] = s[p + 1]
  BY DEF Gapped
<1>4. \A i \in 0 .. n - 1 : i # p /\ i # e => b[i] = c[i]
  BY DEF Gapped
<1> HIDE DEF b, c, e
<1>5. Relocated(b, p, e) = AfterTurn(n, b, p, e)
  BY <1>1, <1>2, <1>3, RelocatedSlots
<1>6. Relocated(c, e, p) = AfterTurn(n, c, e, p)
  <2>1. c[e] = Raw /\ c[p] \in Value /\ e # p
    BY <1>1, <1>2, <1>3
  <2> QED
    BY <1>1, <2>1, RelocatedSlots
<1>7. Relocated(b, p, e) = c
  BY <1>1, <1>3, <1>4, <1>5 DEF AfterTurn
<1>8. Relocated(c, e, p) = b
  BY <1>1, <1>3, <1>4, <1>6 DEF AfterTurn
<1> QED
  BY <1>7, <1>8 DEF b, c, e

-----------------------------------------------------------------------------
(* The loops. *)

LEMMA LeastNumber == ASSUME NEW S \in SUBSET Nat, S # {} PROVE \E x \in S : \A y \in S : x <= y
<1> DEFINE R == OpToRel(<, Nat)
<1>1. PICK x \in S : \A y \in S : ~(<<y, x>> \in R)
  BY NatLessThanWellFounded, WFMin
<1>2. \A y \in S : ~(y < x)
  BY <1>1 DEF OpToRel
<1> QED
  BY <1>2

\* Two functions on 0 .. n with the same first value and the same rule for the next are equal at n.
LEMMA SameRule ==
  ASSUME NEW n \in Nat, NEW f, NEW g, f[0] = g[0],
         \A j \in 1 .. n : f[j - 1] = g[j - 1] => f[j] = g[j]
  PROVE  f[n] = g[n]
<1> DEFINE S == {j \in 0 .. n : f[j] # g[j]}
<1> SUFFICES ASSUME S # {} PROVE FALSE
  OBVIOUS
<1>1. PICK x \in S : \A y \in S : x <= y
  <2>1. S \in SUBSET Nat
    OBVIOUS
  <2> HIDE DEF S
  <2> QED
    BY <2>1, LeastNumber
<1>2. x \in 0 .. n /\ f[x] # g[x]
  BY <1>1
<1>3. x \in 1 .. n /\ x - 1 \in 0 .. n
  BY <1>2
<1>4. x - 1 \notin S
  BY <1>1, <1>3
<1> QED
  BY <1>2, <1>3, <1>4

\* C[j] is what j turns of the loop leave: of the one that moves the first element first, of the other.
ForwardTurns(C, b, dst, first, last) ==
  C[0] = b /\ \A j \in 1 .. last - first : C[j] = Relocated(C[j - 1], dst + j - 1, first + j - 1)
BackwardTurns(C, b, dst, first, last) ==
  C[0] = b /\ \A j \in 1 .. last - first : C[j] = Relocated(C[j - 1], dst + last - first - j, last - j)

LEMMA ForwardLoop ==
  ASSUME NEW b, NEW dst \in Nat, NEW first \in Nat, NEW last \in Nat, first <= last,
         NEW C, ForwardTurns(C, b, dst, first, last)
  PROVE  MovedForward(b, dst, first, last) = C[last - first]
<1> DEFINE n == last - first
           Rule(g) == g = [j \in 0 .. n |-> IF j = 0 THEN b
                                            ELSE Relocated(g[j - 1], dst + j - 1, first + j - 1)]
           moved == CHOOSE g : Rule(g)
           D == [j \in 0 .. n |-> C[j]]
<1>1. Rule(D)
  <2>1. \A j \in 0 .. n : D[j] = IF j = 0 THEN b ELSE Relocated(D[j - 1], dst + j - 1, first + j - 1)
    BY DEF ForwardTurns
  <2> QED
    BY <2>1
<1>2. Rule(moved)
  <2> HIDE DEF Rule
  <2> QED
    BY <1>1
<1>3. MovedForward(b, dst, first, last) = moved[n]
  BY DEF MovedForward
<1>4. n \in Nat
  OBVIOUS
<1>5. D[n] = C[n]
  OBVIOUS
<1> HIDE DEF moved, D, n
<1>6. moved[0] = D[0] /\ \A j \in 1 .. n : moved[j - 1] = D[j - 1] => moved[j] = D[j]
  BY <1>1, <1>2, <1>4
<1>7. moved[n] = D[n]
  BY <1>4, <1>6, SameRule
<1> QED
  BY <1>3, <1>5, <1>7 DEF n

LEMMA BackwardLoop ==
  ASSUME NEW b, NEW dst \in Nat, NEW first \in Nat, NEW last \in Nat, first <= last,
         NEW C, BackwardTurns(C, b, dst, first, last)
  PROVE  MovedBackward(b, dst, first, last) = C[last - first]
<1> DEFINE n == last - first
           Rule(g) == g = [j \in 0 .. n |-> IF j = 0 THEN b
                                            ELSE Relocated(g[j - 1], dst + last - first - j, last - j)]
           moved == CHOOSE g : Rule(g)
           D == [j \in 0 .. n |-> C[j]]
<1>1. Rule(D)
  <2>1. \A j \in 0 .. n : D[j] = IF j = 0 THEN b
                                 ELSE Relocated(D[j - 1], dst + last - first - j, last - j)
    BY DEF BackwardTurns
  <2> QED
    BY <2>1
<1>2. Rule(moved)
  <2> HIDE DEF Rule
  <2> QED
    BY <1>1
<1>3. MovedBackward(b, dst, first, last) = moved[n]
  BY DEF MovedBackward
<1>4. n \in Nat
  OBVIOUS
<1>5. D[n] = C[n]
  OBVIOUS
<1> HIDE DEF moved, D, n
<1>6. moved[0] = D[0] /\ \A j \in 1 .. n : moved[j - 1] = D[j - 1] => moved[j] = D[j]
  BY <1>1, <1>2, <1>4
<1>7. moved[n] = D[n]
  BY <1>4, <1>6, SameRule
<1> QED
  BY <1>3, <1>5, <1>7 DEF n

\* The tail moves down over a gap before it: the gap ends behind the last element.
LEMMA GapCloses ==
  ASSUME NEW n \in Nat, NEW s \in Seq(Value), NEW p \in 0 .. Len(s), NEW g \in Nat, g > 0,
         Len(s) + g <= n
  PROVE  MovedForward(Gapped(n, s, p, g), p, p + g, Len(s) + g) = Row(n, s)
<1> DEFINE b == Gapped(n, s, p, g)  first == p + g  last == Len(s) + g  m == Len(s) - p
           C == [j \in 0 .. m |-> Gapped(n, s, p + j, g)]
<1>1. last - first = m /\ m \in Nat /\ first \in Nat /\ last \in Nat /\ first <= last /\ p \in Nat
  BY SeqFacts
<1>2. C[0] = b /\ C[m] = Row(n, s)
  BY <1>1, GapAtEnd
<1>3. ASSUME NEW j \in 1 .. m PROVE C[j] = Relocated(C[j - 1], p + j - 1, first + j - 1)
  <2> DEFINE q == p + j - 1
  <2>1. q \in Nat /\ q < Len(s) /\ p + j = q + 1 /\ p + (j - 1) = q /\ first + j - 1 = q + g
        /\ j - 1 \in 0 .. m /\ j \in 0 .. m
    BY <1>1
  <2>2. C[j] = Gapped(n, s, q + 1, g) /\ C[j - 1] = Gapped(n, s, q, g)
    BY <2>1
  <2> HIDE DEF C, q, first
  <2>3. Relocated(Gapped(n, s, q, g), q, q + g) = Gapped(n, s, q + 1, g)
    BY <2>1, GapUp
  <2> QED
    BY <2>1, <2>2, <2>3 DEF q
<1> HIDE DEF b, first, last, m, C
<1>4. ForwardTurns(C, b, p, first, last)
  BY <1>1, <1>2, <1>3 DEF ForwardTurns
<1>5. MovedForward(b, p, first, last) = C[last - first]
  BY <1>1, <1>4, ForwardLoop
<1> QED
  BY <1>1, <1>2, <1>5 DEF b, first, last

\* The tail moves up by g, last element first: a gap opens at p.
LEMMA GapOpens ==
  ASSUME NEW n \in Nat, NEW s \in Seq(Value), NEW p \in 0 .. Len(s), NEW g \in Nat, g > 0,
         Len(s) + g <= n
  PROVE  MovedBackward(Row(n, s), p + g, p, Len(s)) = Gapped(n, s, p, g)
<1> DEFINE b == Row(n, s)  dst == p + g  last == Len(s)  m == last - p
           C == [j \in 0 .. m |-> Gapped(n, s, last - j, g)]
<1>1. m \in Nat /\ dst \in Nat /\ last \in Nat /\ p <= last /\ p \in Nat /\ last - 0 = last /\ last - m = p
  BY SeqFacts
<1>2. C[0] = b /\ C[m] = Gapped(n, s, p, g)
  BY <1>1, GapAtEnd
<1>3. ASSUME NEW j \in 1 .. m PROVE C[j] = Relocated(C[j - 1], dst + last - p - j, last - j)
  <2> DEFINE q == last - j
  <2>1. q \in Nat /\ q < Len(s) /\ last - (j - 1) = q + 1 /\ dst + last - p - j = q + g
        /\ j - 1 \in 0 .. m /\ j \in 0 .. m
    BY <1>1
  <2>2. C[j] = Gapped(n, s, q, g) /\ C[j - 1] = Gapped(n, s, q + 1, g)
    BY <2>1
  <2> HIDE DEF C, q, dst
  <2>3. Relocated(Gapped(n, s, q + 1, g), q + g, q) = Gapped(n, s, q, g)
    BY <2>1, GapUp
  <2> QED
    BY <2>1, <2>2, <2>3 DEF q
<1> HIDE DEF b, dst, last, C
<1>4. BackwardTurns(C, b, dst, p, last)
  BY <1>1, <1>2, <1>3 DEF BackwardTurns
<1>5. MovedBackward(b, dst, p, last) = C[last - p]
  BY <1>1, <1>4, BackwardLoop
<1> QED
  BY <1>1, <1>2, <1>5 DEF b, dst, last

\* j elements of the tail have jumped over a target that the tail does not reach.
Halfway(n, s, p, g, j) ==
  [i \in 0 .. n - 1 |-> IF i < p THEN s[i + 1]
                        ELSE IF i < p + j THEN Raw
                        ELSE IF i < Len(s) THEN s[i + 1]
                        ELSE IF i < p + g THEN Raw
                        ELSE IF i < p + g + j THEN s[i - g + 1] ELSE Raw]

LEMMA HalfwayOn ==
  ASSUME NEW n \in Nat, NEW s \in Seq(Value), NEW p \in 0 .. Len(s), NEW g \in Nat, g > 0,
         Len(s) + g <= n, Len(s) <= p + g, NEW j \in Nat, p + j < Len(s)
  PROVE  Halfway(n, s, p, g, j + 1) = Relocated(Halfway(n, s, p, g, j), p + g + j, p + j)
<1> DEFINE b == Halfway(n, s, p, g, j)  c == Halfway(n, s, p, g, j + 1)  d == p + g + j  e == p + j
<1>1. /\ b \in [0 .. n - 1 -> Value \cup {Raw}] /\ c \in [0 .. n - 1 -> Value \cup {Raw}]
      /\ d \in 0 .. n - 1 /\ e \in 0 .. n - 1 /\ d # e
  BY SeqFacts DEF Halfway
<1>2. e + 1 \in 1 .. Len(s) /\ s[e + 1] \in Value
  BY SeqFacts
<1>3. b[d] = Raw /\ b[e] = s[e + 1] /\ c[d] = s[e + 1] /\ c[e] = Raw
  BY SeqFacts DEF Halfway
<1>4. ASSUME NEW i \in 0 .. n - 1, i # d, i # e PROVE b[i] = c[i]
  <2>1. Len(s) \in Nat /\ p \in Nat /\ i \in Nat
    BY SeqFacts
  <2>2. (i < p + j + 1 <=> i < p + j) /\ (i < p + g + (j + 1) <=> i < p + g + j)
    BY <1>4, <2>1
  <2> QED
    BY <2>2 DEF Halfway
<1> HIDE DEF b, c, d, e
<1>5. Relocated(b, d, e) = AfterTurn(n, b, d, e)
  <2>1. b[d] = Raw /\ b[e] \in Value
    BY <1>2, <1>3
  <2> QED
    BY <1>1, <2>1, RelocatedSlots
<1>6. Relocated(b, d, e) = c
  BY <1>1, <1>3, <1>4, <1>5 DEF AfterTurn
<1> QED
  BY <1>6 DEF b, c, d, e

\* The tail moves up first element first, over more slots than it has elements.
LEMMA GapOpensAhead ==
  ASSUME NEW n \in Nat, NEW s \in Seq(Value), NEW p \in 0 .. Len(s), NEW g \in Nat, g > 0,
         Len(s) + g <= n, Len(s) <= p + g
  PROVE  MovedForward(Row(n, s), p + g, p, Len(s)) = Gapped(n, s, p, g)
<1> DEFINE b == Row(n, s)  dst == p + g  last == Len(s)  m == last - p
           C == [j \in 0 .. m |-> Halfway(n, s, p, g, j)]
<1>1. m \in Nat /\ dst \in Nat /\ last \in Nat /\ p <= last /\ p \in Nat
  BY SeqFacts
<1>2. C[0] = b /\ C[m] = Gapped(n, s, p, g)
  <2>1. Halfway(n, s, p, g, 0) = Row(n, s) /\ Halfway(n, s, p, g, Len(s) - p) = Gapped(n, s, p, g)
    BY SeqFacts DEF Halfway, Row, Gapped
  <2> QED
    BY <1>1, <2>1
<1>3. ASSUME NEW j \in 1 .. m PROVE C[j] = Relocated(C[j - 1], dst + j - 1, p + j - 1)
  <2> DEFINE k == j - 1
  <2>1. k \in Nat /\ p + k < Len(s) /\ k + 1 = j /\ dst + j - 1 = p + g + k /\ p + j - 1 = p + k
        /\ k \in 0 .. m /\ j \in 0 .. m
    BY <1>1
  <2>2. C[j] = Halfway(n, s, p, g, k + 1) /\ C[k] = Halfway(n, s, p, g, k)
    BY <2>1
  <2> HIDE DEF C, k, dst
  <2>3. Halfway(n, s, p, g, k + 1) = Relocated(Halfway(n, s, p, g, k), p + g + k, p + k)
    BY <2>1, HalfwayOn
  <2> QED
    BY <2>1, <2>2, <2>3 DEF k
<1> HIDE DEF b, dst, last, m, C
<1>4. last - p = m
  BY DEF m
<1>5. ForwardTurns(C, b, dst, p, last)
  BY <1>2, <1>3, <1>4 DEF ForwardTurns
<1>6. MovedForward(b, dst, p, last) = C[last - p]
  BY <1>1, <1>5, ForwardLoop
<1> QED
  BY <1>2, <1>4, <1>6 DEF b, dst, last

-----------------------------------------------------------------------------
(* Sequences. *)

LEMMA FirstOnes ==
  ASSUME NEW s \in Seq(Value), NEW n \in 0 .. Len(s)
  PROVE  /\ SubSeq(s, 1, n) \in Seq(Value) /\ Len(SubSeq(s, 1, n)) = n
         /\ \A j \in 1 .. n : SubSeq(s, 1, n)[j] = s[j]
<1>1. \A i \in 1 .. n : s[i] \in Value
  BY ElementOfSeq
<1>2. SubSeq(s, 1, n) \in Seq(Value) /\ Len(SubSeq(s, 1, n)) = (IF 1 <= n THEN n - 1 + 1 ELSE 0)
      /\ \A i \in 1 .. n - 1 + 1 : SubSeq(s, 1, n)[i] = s[1 + i - 1]
  BY <1>1, SubSeqProperties
<1> QED
  BY <1>2

LEMMA LastOnes ==
  ASSUME NEW s \in Seq(Value), NEW n \in 0 .. Len(s)
  PROVE  /\ SubSeq(s, n + 1, Len(s)) \in Seq(Value) /\ Len(SubSeq(s, n + 1, Len(s))) = Len(s) - n
         /\ \A j \in 1 .. Len(s) - n : SubSeq(s, n + 1, Len(s))[j] = s[n + j]
<1> DEFINE m == Len(s)  f == n + 1  t == SubSeq(s, f, m)
<1>1. m \in Nat /\ f \in Int /\ f = n + 1 /\ n \in Int /\ \A i \in f .. m : s[i] \in Value
  BY ElementOfSeq
<1> HIDE DEF m, f
<1>2. t \in Seq(Value) /\ Len(t) = (IF f <= m THEN m - f + 1 ELSE 0) /\ \A i \in 1 .. m - f + 1 : t[i] = s[f + i - 1]
  BY <1>1, SubSeqProperties
<1> HIDE DEF t
<1>3. n <= m
  BY DEF m
<1>4. Len(t) = m - n
  BY <1>1, <1>2, <1>3
<1>5. ASSUME NEW j \in 1 .. m - n PROVE t[j] = s[n + j]
  <2>1. j \in 1 .. m - f + 1 /\ f + j - 1 = n + j
    BY <1>1
  <2> QED
    BY <1>2, <2>1
<1> QED
  BY <1>2, <1>4, <1>5 DEF m, f, t

\* Elements p .. q - 1 of s, counted from 0, give way to t.
Spliced(s, p, q, t) == SubSeq(s, 1, p) \o t \o SubSeq(s, q + 1, Len(s))

IsSpliced(u, s, p, q, t) ==
  /\ u \in Seq(Value) /\ Len(u) = Len(s) - (q - p) + Len(t)
  /\ \A j \in 1 .. Len(s) - (q - p) + Len(t) :
       u[j] = IF j <= p THEN s[j] ELSE IF j <= p + Len(t) THEN t[j - p] ELSE s[j - p - Len(t) + q]

LEMMA SplicedSeq ==
  ASSUME NEW s \in Seq(Value), NEW t \in Seq(Value), NEW p \in 0 .. Len(s), NEW q \in p .. Len(s)
  PROVE  IsSpliced(Spliced(s, p, q, t), s, p, q, t)
<1> DEFINE a == SubSeq(s, 1, p)  c == SubSeq(s, q + 1, Len(s))  m == Len(s)  k == Len(t)
<1>1. q \in 0 .. Len(s) /\ m \in Nat /\ k \in Nat /\ p \in Nat /\ q \in Nat /\ p <= q /\ q <= m
  BY SeqFacts
<1>2. a \in Seq(Value) /\ Len(a) = p /\ \A j \in 1 .. p : a[j] = s[j]
  BY FirstOnes
<1>3. c \in Seq(Value) /\ Len(c) = m - q /\ \A j \in 1 .. m - q : c[j] = s[q + j]
  BY <1>1, LastOnes
<1> HIDE DEF a, c, m
<1> DEFINE u == a \o t  pk == p + k
<1>4. u \in Seq(Value) /\ Len(u) = pk /\ \A j \in 1 .. pk : u[j] = IF j <= p THEN a[j] ELSE t[j - p]
  BY <1>1, <1>2, ConcatProperties
<1> HIDE DEF u, k
<1> DEFINE w == u \o c
<1>4a. pk \in Nat /\ pk = p + k
  BY <1>1
<1> HIDE DEF pk
<1>5. /\ w \in Seq(Value) /\ Len(w) = pk + (m - q)
      /\ \A j \in 1 .. pk + (m - q) : w[j] = IF j <= pk THEN u[j] ELSE c[j - pk]
  <2>1. /\ u \o c \in Seq(Value) /\ Len(u \o c) = Len(u) + Len(c)
        /\ \A j \in 1 .. Len(u) + Len(c) : (u \o c)[j] = IF j <= Len(u) THEN u[j] ELSE c[j - Len(u)]
    BY <1>3, <1>4, ConcatProperties
  <2> QED
    BY <1>3, <1>4, <2>1
<1> HIDE DEF w
<1>6. ASSUME NEW j \in 1 .. m - (q - p) + k
      PROVE  w[j] = IF j <= p THEN s[j] ELSE IF j <= p + k THEN t[j - p] ELSE s[j - p - k + q]
  <2>1. j \in 1 .. pk + (m - q)
    BY <1>1, <1>4a
  <2>2. CASE j <= p
    <3>1. w[j] = u[j] /\ u[j] = a[j] /\ a[j] = s[j]
      BY <1>1, <1>2, <1>4, <1>4a, <1>5, <2>1, <2>2
    <3> QED
      BY <2>2, <3>1
  <2>3. CASE j > p /\ j <= p + k
    <3>1. w[j] = u[j] /\ u[j] = t[j - p]
      BY <1>1, <1>4, <1>4a, <1>5, <2>1, <2>3
    <3> QED
      BY <1>1, <2>1, <2>3, <3>1
  <2>4. CASE j > p + k
    <3>1. j - pk \in 1 .. m - q /\ q + (j - pk) = j - p - k + q
      BY <1>1, <1>4a, <2>1, <2>4
    <3>2. w[j] = c[j - pk] /\ c[j - pk] = s[q + (j - pk)]
      BY <1>1, <1>3, <1>4a, <1>5, <2>1, <2>4, <3>1
    <3> QED
      BY <1>1, <2>1, <2>4, <3>1, <3>2, SMTT(30)
  <2> QED
    BY <1>1, <2>1, <2>2, <2>3, <2>4
<1>7. Len(w) = m - (q - p) + k /\ w \in Seq(Value)
  BY <1>1, <1>4a, <1>5
<1>8. Spliced(s, p, q, t) = w
  BY DEF Spliced, w, u, a, c, m
<1> QED
  BY <1>6, <1>7, <1>8 DEF m, k, IsSpliced

LEMMA SameSeq ==
  ASSUME NEW s \in Seq(Value), NEW t \in Seq(Value), Len(s) = Len(t), \A j \in 1 .. Len(s) : s[j] = t[j]
  PROVE  s = t
BY SeqEqual

LEMMA SplicedNone ==
  ASSUME NEW s \in Seq(Value), NEW p \in 0 .. Len(s)
  PROVE  Spliced(s, p, p, <<>>) = s
<1> DEFINE u == Spliced(s, p, p, <<>>)
<1>1. <<>> \in Seq(Value) /\ Len(<<>>) = 0 /\ p \in p .. Len(s) /\ Len(s) \in Nat
  BY EmptySeq, SeqFacts
<1>2. IsSpliced(u, s, p, p, <<>>)
  BY <1>1, SplicedSeq
<1> HIDE DEF u
<1>3. Len(u) = Len(s) /\ u \in Seq(Value)
  BY <1>1, <1>2 DEF IsSpliced
<1>4. \A j \in 1 .. Len(s) : u[j] = s[j]
  BY <1>1, <1>2 DEF IsSpliced
<1>5. u = s
  BY <1>3, <1>4, SameSeq
<1> QED
  BY <1>5 DEF u

-----------------------------------------------------------------------------
(* Elements constructed and destroyed in a row. *)

LEMMA RowSlots ==
  ASSUME NEW n \in Nat, NEW s \in Seq(Value)
  PROVE  /\ DOMAIN Row(n, s) = 0 .. n - 1
         /\ \A i \in 0 .. n - 1 : Row(n, s)[i] = IF i < Len(s) THEN s[i + 1] ELSE Raw
BY DEF Row

\* Slots are a row when they are so one by one.
LEMMA IsRow ==
  ASSUME NEW n \in Nat, NEW s \in Seq(Value), NEW b, b = [i \in 0 .. n - 1 |-> b[i]],
         \A i \in 0 .. n - 1 : b[i] = IF i < Len(s) THEN s[i + 1] ELSE Raw
  PROVE  b = Row(n, s)
BY DEF Row

\* The gap is filled.
LEMMA FillsGap ==
  ASSUME NEW n \in Nat, NEW s \in Seq(Value), NEW p \in 0 .. Len(s), NEW t \in Seq(Value),
         Len(s) + Len(t) <= n
  PROVE  Filled(Gapped(n, s, p, Len(t)), p, t) = Row(n, Spliced(s, p, p, t))
<1> DEFINE g == Len(t)  m == Len(s)  b == Gapped(n, s, p, g)  u == Spliced(s, p, p, t)
           f == Filled(b, p, t)
<1>1. g \in Nat /\ m \in Nat /\ p \in Nat /\ p <= m /\ p \in p .. Len(s)
      /\ DOMAIN t = 1 .. g
  BY SeqFacts
<1>2. u \in Seq(Value) /\ Len(u) = m + g
      /\ \A j \in 1 .. m + g : u[j] = IF j <= p THEN s[j] ELSE IF j <= p + g THEN t[j - p] ELSE s[j - g]
  <2>1. IsSpliced(u, s, p, p, t)
    BY <1>1, SplicedSeq
  <2> HIDE DEF u
  <2>2. Len(s) - (p - p) + Len(t) = m + g
    BY <1>1
  <2>3. ASSUME NEW j \in 1 .. m + g
        PROVE  u[j] = IF j <= p THEN s[j] ELSE IF j <= p + g THEN t[j - p] ELSE s[j - g]
    <3>1. j - p - Len(t) + p = j - g /\ j \in 1 .. Len(s) - (p - p) + Len(t)
      BY <1>1
    <3> QED
      BY <2>1, <3>1 DEF IsSpliced
  <2> QED
    BY <2>1, <2>2, <2>3 DEF IsSpliced
<1> HIDE DEF u, g, m
<1>3. \A i \in 0 .. n - 1 : b[i] = IF i < p THEN s[i + 1] ELSE IF i < p + g THEN Raw
                                   ELSE IF i < m + g THEN s[i - g + 1] ELSE Raw
  BY DEF Gapped, m
<1>4. DOMAIN b = 0 .. n - 1
  BY DEF Gapped
<1> HIDE DEF b
<1>5. \A i \in 0 .. n - 1 : i - p + 1 \in DOMAIN t <=> p <= i /\ i < p + g
  BY <1>1
<1>6. ASSUME NEW i \in 0 .. n - 1 PROVE f[i] = IF i < Len(u) THEN u[i + 1] ELSE Raw
  <2>1. CASE i < p
    <3>1. f[i] = b[i] /\ u[i + 1] = s[i + 1]
      BY <1>1, <1>2, <1>4, <1>5, <2>1 DEF Filled
    <3> QED
      BY <1>1, <1>2, <1>3, <2>1, <3>1
  <2>2. CASE p <= i /\ i < p + g
    <3>1. b[i] = Raw
      BY <1>1, <1>3, <2>2
    <3>2. f[i] = t[i - p + 1]
      BY <1>4, <1>5, <2>2, <3>1 DEF Filled
    <3>3. u[i + 1] = t[i + 1 - p] /\ i - p + 1 = i + 1 - p
      BY <1>1, <1>2, <2>2
    <3> QED
      BY <1>1, <1>2, <2>2, <3>2, <3>3
  <2>3. CASE p + g <= i /\ i < m + g
    <3>1. f[i] = b[i]
      BY <1>1, <1>4, <1>5, <2>3 DEF Filled
    <3>2. u[i + 1] = s[i + 1 - g] /\ i - g + 1 = i + 1 - g
      BY <1>1, <1>2, <2>3
    <3> QED
      BY <1>1, <1>2, <1>3, <2>3, <3>1, <3>2
  <2>4. CASE m + g <= i
    <3>1. f[i] = b[i]
      BY <1>1, <1>2, <1>4, <1>5, <2>4 DEF Filled
    <3> QED
      BY <1>1, <1>2, <1>3, <2>4, <3>1
  <2> QED
    BY <1>1, <2>1, <2>2, <2>3, <2>4
<1>7. f = [i \in 0 .. n - 1 |-> f[i]]
  BY <1>4 DEF Filled
<1> HIDE DEF f
<1>8. f = Row(n, u)
  BY <1>2, <1>6, <1>7, IsRow
<1> QED
  BY <1>8 DEF f, b, u, g

LEMMA SplicedAtEnd ==
  ASSUME NEW s \in Seq(Value), NEW t \in Seq(Value)
  PROVE  Spliced(s, Len(s), Len(s), t) = s \o t
<1> DEFINE m == Len(s)  u == Spliced(s, m, m, t)  w == s \o t
<1>1. m \in 0 .. Len(s) /\ m \in m .. Len(s) /\ m \in Nat /\ Len(t) \in Nat
  BY SeqFacts
<1>2. IsSpliced(u, s, m, m, t)
  BY <1>1, SplicedSeq
<1>3. w \in Seq(Value) /\ Len(w) = m + Len(t)
      /\ \A j \in 1 .. Len(s) + Len(t) : w[j] = IF j <= m THEN s[j] ELSE t[j - m]
  BY ConcatProperties
<1> HIDE DEF u, w
<1>4. Len(u) = m + Len(t) /\ u \in Seq(Value)
  BY <1>1, <1>2 DEF IsSpliced
<1>5. \A j \in 1 .. m + Len(t) : u[j] = w[j]
  <2> TAKE j \in 1 .. m + Len(t)
  <2>1. j \in 1 .. Len(s) - (m - m) + Len(t) /\ j \in 1 .. Len(s) + Len(t) /\ (j <= m + Len(t))
    BY <1>1
  <2>2. u[j] = IF j <= m THEN s[j] ELSE t[j - m]
    BY <1>2, <2>1 DEF IsSpliced
  <2> QED
    BY <1>3, <2>1, <2>2
<1>6. u = w
  BY <1>3, <1>4, <1>5, SameSeq
<1> QED
  BY <1>6 DEF u, w

LEMMA FillsEnd ==
  ASSUME NEW n \in Nat, NEW s \in Seq(Value), NEW t \in Seq(Value), Len(s) + Len(t) <= n
  PROVE  Filled(Row(n, s), Len(s), t) = Row(n, s \o t)
<1> DEFINE p == Len(s)  g == Len(t)
<1>1. p \in 0 .. Len(s) /\ g \in Nat
  BY SeqFacts
<1>2. Filled(Gapped(n, s, p, Len(t)), p, t) = Row(n, Spliced(s, p, p, t))
  BY <1>1, FillsGap
<1>3. Gapped(n, s, p, Len(t)) = Row(n, s)
  BY <1>1, GapAtEnd
<1> QED
  BY <1>2, <1>3, SplicedAtEnd

\* An empty row is filled.
LEMMA FillsRaw ==
  ASSUME NEW n \in Nat, NEW t \in Seq(Value), Len(t) <= n
  PROVE  Filled(RawSlots(n), 0, t) = Row(n, t)
<1> DEFINE s == <<>>
<1>1. s \in Seq(Value) /\ Len(s) = 0 /\ Len(t) \in Nat
  BY EmptySeq, SeqFacts
<1>1a. s \o t = t
  BY ConcatEmptySeq
<1> HIDE DEF s
<1>1b. Len(s) + Len(t) <= n
  BY <1>1
<1>2. Filled(Row(n, s), Len(s), t) = Row(n, s \o t)
  BY <1>1, <1>1b, FillsEnd
<1> QED
  BY <1>1, <1>1a, <1>2, RawIsRow DEF s

LEMMA ConstructedFilled ==
  ASSUME NEW n \in Nat, NEW b \in [0 .. n - 1 -> Value \cup {Raw}], NEW i \in 0 .. n - 1, NEW x \in Value
  PROVE  Constructed(b, i, x) = Filled(b, i, <<x>>)
<1> DEFINE t == <<x>>  c == Constructed(b, i, x)  f == Filled(b, i, t)
<1>1. DOMAIN t = 1 .. 1 /\ t[1] = x
  OBVIOUS
<1> HIDE DEF t
<1>2. c = [k \in 0 .. n - 1 |-> c[k]] /\ f = [k \in 0 .. n - 1 |-> f[k]]
  BY DEF Constructed, Filled
<1>3. ASSUME NEW k \in 0 .. n - 1 PROVE c[k] = f[k]
  <2>1. k - i + 1 \in DOMAIN t <=> k = i
    BY <1>1
  <2>2. k = i => t[k - i + 1] = x
    BY <1>1
  <2> QED
    BY <2>1, <2>2 DEF Constructed, Filled
<1> HIDE DEF c, f
<1>4. c = f
  BY <1>2, <1>3
<1> QED
  BY <1>4 DEF c, f, t

LEMMA GappedSlots ==
  ASSUME NEW n \in Nat, NEW s \in Seq(Value), NEW p \in 0 .. Len(s), NEW g \in Nat, Len(s) + g <= n
  PROVE  Gapped(n, s, p, g) \in [0 .. n - 1 -> Value \cup {Raw}]
<1>1. Len(s) \in Nat /\ \A j \in 1 .. Len(s) : s[j] \in Value
  BY SeqFacts
<1> QED
  BY <1>1 DEF Gapped

LEMMA ConstructsGap ==
  ASSUME NEW n \in Nat, NEW s \in Seq(Value), NEW p \in 0 .. Len(s), NEW x \in Value, Len(s) + 1 <= n
  PROVE  Constructed(Gapped(n, s, p, 1), p, x) = Row(n, Spliced(s, p, p, <<x>>))
<1> DEFINE t == <<x>>
<1>1. t \in Seq(Value) /\ Len(t) = 1 /\ Len(s) \in Nat
  BY SeqFacts
<1>2. p \in 0 .. n - 1
  BY <1>1
<1>3. Constructed(Gapped(n, s, p, 1), p, x) = Filled(Gapped(n, s, p, 1), p, t)
  BY <1>2, ConstructedFilled, GappedSlots
<1> HIDE DEF t
<1>4. Filled(Gapped(n, s, p, Len(t)), p, t) = Row(n, Spliced(s, p, p, t))
  BY <1>1, FillsGap
<1> QED
  BY <1>1, <1>3, <1>4 DEF t

LEMMA ConstructsEnd ==
  ASSUME NEW n \in Nat, NEW s \in Seq(Value), NEW x \in Value, Len(s) + 1 <= n
  PROVE  Constructed(Row(n, s), Len(s), x) = Row(n, Append(s, x))
<1> DEFINE p == Len(s)
<1>1. p \in 0 .. Len(s) /\ <<x>> \in Seq(Value)
  BY SeqFacts
<1>2. Constructed(Gapped(n, s, p, 1), p, x) = Row(n, Spliced(s, p, p, <<x>>))
  BY <1>1, ConstructsGap
<1>3. Gapped(n, s, p, 1) = Row(n, s)
  BY GapAtEnd
<1>4. Spliced(s, p, p, <<x>>) = Append(s, x)
  BY <1>1, SplicedAtEnd, AppendIsConcat
<1> QED
  BY <1>2, <1>3, <1>4

\* The elements from p to q are destroyed, and leave a gap.
LEMMA DestroysGap ==
  ASSUME NEW n \in Nat, NEW s \in Seq(Value), Len(s) <= n, NEW p \in 0 .. Len(s), NEW q \in p .. Len(s)
  PROVE  Destroyed(Row(n, s), p, q) = Gapped(n, Spliced(s, p, q, <<>>), p, q - p)
<1> DEFINE u == Spliced(s, p, q, <<>>)  g == q - p  m == Len(s)  b == Row(n, s)  d == Destroyed(b, p, q)
           e == Gapped(n, u, p, g)
<1>1. m \in Nat /\ p \in Nat /\ q \in Nat /\ p <= q /\ q <= m /\ g \in Nat
      /\ <<>> \in Seq(Value) /\ Len(<<>>) = 0 /\ \A j \in 1 .. m : s[j] \in Value
  BY SeqFacts, EmptySeq
<1>2. IsSpliced(u, s, p, q, <<>>)
  BY <1>1, SplicedSeq
<1> HIDE DEF u
<1>3. Len(u) = m - g
  BY <1>1, <1>2 DEF IsSpliced
<1>4. \A j \in 1 .. m - g : u[j] = IF j <= p THEN s[j] ELSE s[j + g]
  <2> TAKE j \in 1 .. m - g
  <2>1. j \in 1 .. Len(s) - (q - p) + Len(<<>>) /\ j - p - Len(<<>>) + q = j + g /\ p + Len(<<>>) = p
    BY <1>1
  <2> QED
    BY <1>1, <1>2, <2>1 DEF IsSpliced
<1>5. DOMAIN b = 0 .. n - 1 /\ \A i \in 0 .. n - 1 : b[i] = IF i < m THEN s[i + 1] ELSE Raw
  BY RowSlots
<1> HIDE DEF b
<1>6. \A i \in 0 .. n - 1 : d[i] = IF p <= i /\ i < q THEN Raw ELSE b[i]
  <2> TAKE i \in 0 .. n - 1
  <2>1. CASE p <= i /\ i < q
    <3>1. b[i] \in Value
      BY <1>1, <1>5, <2>1
    <3> QED
      BY <1>5, <2>1, <3>1, SlotKinds DEF Destroyed, DestroyedAt
  <2>2. CASE ~(p <= i /\ i < q)
    BY <1>5, <2>2 DEF Destroyed
  <2> QED
    BY <2>1, <2>2
<1>7. d = [i \in 0 .. n - 1 |-> d[i]]
  BY <1>5 DEF Destroyed
<1> HIDE DEF d, g, m
<1>8. \A i \in 0 .. n - 1 :
        e[i] = IF i < p THEN u[i + 1] ELSE IF i < p + g THEN Raw ELSE IF i < (m - g) + g THEN u[i - g + 1] ELSE Raw
  BY <1>3 DEF Gapped
<1>9. e = [i \in 0 .. n - 1 |-> e[i]]
  BY DEF Gapped
<1> HIDE DEF e
<1>10. ASSUME NEW i \in 0 .. n - 1 PROVE d[i] = e[i]
  <2>0. q = p + g
    BY <1>1 DEF g
  <2>1. CASE i < p
    <3>1. u[i + 1] = s[i + 1]
      BY <1>1, <1>4, <2>0, <2>1
    <3> QED
      BY <1>1, <1>5, <1>6, <1>8, <2>1, <3>1
  <2>2. CASE p <= i /\ i < q
    BY <1>1, <1>6, <1>8, <2>0, <2>2
  <2>3. CASE q <= i /\ i < m
    <3>1. u[i - g + 1] = s[(i - g + 1) + g] /\ (i - g + 1) + g = i + 1
      BY <1>1, <1>4, <2>0, <2>3
    <3> QED
      BY <1>1, <1>5, <1>6, <1>8, <2>0, <2>3, <3>1
  <2>4. CASE m <= i
    BY <1>1, <1>5, <1>6, <1>8, <2>0, <2>4
  <2> QED
    BY <1>1, <2>1, <2>2, <2>3, <2>4
<1>11. d = e
  BY <1>7, <1>9, <1>10
<1> QED
  BY <1>11 DEF d, e, b, u, g

LEMMA SplicedToEnd ==
  ASSUME NEW s \in Seq(Value), NEW p \in 0 .. Len(s)
  PROVE  Spliced(s, p, Len(s), <<>>) = SubSeq(s, 1, p)
<1> DEFINE m == Len(s)  u == Spliced(s, p, m, <<>>)  w == SubSeq(s, 1, p)
<1>1. m \in p .. Len(s) /\ m \in Nat /\ <<>> \in Seq(Value) /\ Len(<<>>) = 0 /\ p \in Nat /\ p <= m
  BY SeqFacts, EmptySeq
<1>2. IsSpliced(u, s, p, m, <<>>)
  BY <1>1, SplicedSeq
<1>3. w \in Seq(Value) /\ Len(w) = p /\ \A j \in 1 .. p : w[j] = s[j]
  BY FirstOnes
<1> HIDE DEF u, w
<1>4. Len(u) = p /\ u \in Seq(Value)
  BY <1>1, <1>2 DEF IsSpliced
<1>5. \A j \in 1 .. p : u[j] = w[j]
  BY <1>1, <1>2, <1>3 DEF IsSpliced
<1>6. u = w
  BY <1>3, <1>4, <1>5, SameSeq
<1> QED
  BY <1>6 DEF u, w

\* The elements from p on are destroyed.
LEMMA DestroysTail ==
  ASSUME NEW n \in Nat, NEW s \in Seq(Value), Len(s) <= n, NEW p \in 0 .. Len(s)
  PROVE  Destroyed(Row(n, s), p, Len(s)) = Row(n, SubSeq(s, 1, p))
<1> DEFINE m == Len(s)  u == SubSeq(s, 1, p)
<1>1. m \in p .. Len(s) /\ m - p \in Nat /\ u \in Seq(Value) /\ Len(u) = p
  BY SeqFacts, FirstOnes
<1>2. Destroyed(Row(n, s), p, m) = Gapped(n, Spliced(s, p, m, <<>>), p, m - p)
  BY <1>1, DestroysGap
<1>3. Spliced(s, p, m, <<>>) = u
  BY SplicedToEnd
<1> HIDE DEF u, m
<1>4. Gapped(n, u, Len(u), m - p) = Row(n, u)
  BY <1>1, GapAtEnd
<1> QED
  BY <1>1, <1>2, <1>3, <1>4 DEF u, m

LEMMA DestroysAll ==
  ASSUME NEW n \in Nat, NEW s \in Seq(Value), Len(s) <= n
  PROVE  Destroyed(Row(n, s), 0, Len(s)) = RawSlots(n)
<1>1. 0 \in 0 .. Len(s)
  BY SeqFacts
<1>2. SubSeq(s, 1, 0) = <<>>
  <2>1. SubSeq(s, 1, 0) \in Seq(Value) /\ Len(SubSeq(s, 1, 0)) = 0
    BY <1>1, FirstOnes
  <2> QED
    BY <2>1, EmptySeq
<1> QED
  BY <1>1, <1>2, DestroysTail, RawIsRow

\* Elements that were moved from are destroyed like the others.
LEMMA MovedFromDestroyed ==
  ASSUME NEW n \in Nat, NEW s \in Seq(Value), Len(s) <= n, NEW p \in 0 .. Len(s)
  PROVE  Destroyed(MovedFrom(Row(n, s), p, Len(s)), p, Len(s)) = Destroyed(Row(n, s), p, Len(s))
<1> DEFINE m == Len(s)  b == Row(n, s)  c == MovedFrom(b, p, m)  d == Destroyed(c, p, m)  e == Destroyed(b, p, m)
<1>1. DOMAIN b = 0 .. n - 1 /\ m \in Nat /\ p \in Nat
  BY RowSlots, SeqFacts
<1>2. ASSUME NEW i \in 0 .. n - 1, p <= i, i < m PROVE b[i] \in Value
  <2>1. i + 1 \in 1 .. Len(s)
    BY <1>1, <1>2
  <2> QED
    BY <1>2, <2>1, RowSlots, SeqFacts
<1> HIDE DEF b, m
<1>3. \A i \in 0 .. n - 1 : c[i] = IF p <= i /\ i < m THEN Husk ELSE b[i]
  BY <1>1, <1>2, SlotKinds DEF MovedFrom
<1>4. DOMAIN c = 0 .. n - 1
  BY <1>1 DEF MovedFrom
<1> HIDE DEF c
<1>5. ASSUME NEW i \in 0 .. n - 1 PROVE d[i] = e[i]
  <2>1. CASE p <= i /\ i < m
    <3>1. c[i] = Husk /\ b[i] \in Value
      BY <1>2, <1>3, <2>1
    <3> QED
      BY <1>1, <1>4, <2>1, <3>1, SlotKinds DEF Destroyed, DestroyedAt
  <2>2. CASE ~(p <= i /\ i < m)
    <3>1. c[i] = b[i]
      BY <1>3, <2>2
    <3> QED
      BY <1>1, <1>4, <2>2, <3>1 DEF Destroyed
  <2> QED
    BY <2>1, <2>2
<1>6. d = [i \in 0 .. n - 1 |-> d[i]] /\ e = [i \in 0 .. n - 1 |-> e[i]]
  BY <1>1, <1>4 DEF Destroyed
<1> HIDE DEF d, e
<1>7. d = e
  BY <1>5, <1>6
<1> QED
  BY <1>7 DEF d, e, c, b, m

-----------------------------------------------------------------------------
(* What the calls make of a row. *)

LEMMA ListedRow ==
  ASSUME NEW n \in Nat, NEW s \in Seq(Value), Len(s) <= n
  PROVE  Listed(Row(n, s), Len(s)) = s
<1> DEFINE m == Len(s)  t == Listed(Row(n, s), m)
<1>1. \A j \in 1 .. m : Row(n, s)[j - 1] = s[j]
  <2> TAKE j \in 1 .. m
  <2>1. j - 1 \in 0 .. n - 1 /\ j - 1 < Len(s) /\ (j - 1) + 1 = j
    BY SeqFacts
  <2> QED
    BY <2>1, RowSlots
<1>2. \A j \in 1 .. m : t[j] = s[j] /\ s[j] \in Value
  BY <1>1, SeqFacts DEF Listed
<1>3. t = [j \in 1 .. m |-> t[j]] /\ m \in Nat
  BY SeqFacts DEF Listed
<1> HIDE DEF t
<1>4. t \in Seq(Value) /\ Len(t) = m
  <2>1. t \in [1 .. m -> Value]
    BY <1>2, <1>3
  <2> QED
    BY <1>3, <2>1
<1>5. t = s
  BY <1>2, <1>4, SameSeq
<1> QED
  BY <1>5 DEF t

\* erase.
LEMMA ClosesRow ==
  ASSUME NEW n \in Nat, NEW s \in Seq(Value), Len(s) <= n, NEW p \in 0 .. Len(s), NEW q \in p .. Len(s)
  PROVE  Closed(Row(n, s), p, q, Len(s)) = Row(n, Spliced(s, p, q, <<>>))
<1> DEFINE u == Spliced(s, p, q, <<>>)  g == q - p
<1>1. CASE p = q
  BY <1>1, SplicedNone DEF Closed
<1>2. CASE p # q
  <2>1. g \in Nat /\ g > 0 /\ <<>> \in Seq(Value) /\ Len(<<>>) = 0 /\ Len(s) \in Nat /\ p \in Nat /\ q \in Nat
        /\ p + g = q
    BY <1>2, SeqFacts, EmptySeq
  <2>2. IsSpliced(u, s, p, q, <<>>)
    BY <2>1, SplicedSeq
  <2> DEFINE m == Len(u)
  <2>3. u \in Seq(Value) /\ Len(u) + g = Len(s) /\ p \in 0 .. Len(u) /\ Len(u) + g <= n
    BY <2>1, <2>2 DEF IsSpliced
  <2>4. Destroyed(Row(n, s), p, q) = Gapped(n, u, p, g)
    BY DestroysGap
  <2> HIDE DEF u, g
  <2>5. MovedForward(Gapped(n, u, p, g), p, p + g, Len(u) + g) = Row(n, u)
    BY <2>1, <2>3, GapCloses
  <2>6. MovedForward(Gapped(n, u, p, g), p, q, Len(s)) = Row(n, u)
    BY <2>1, <2>3, <2>5
  <2> QED
    BY <1>2, <2>4, <2>6 DEF Closed, u
<1> QED
  BY <1>1, <1>2

\* insert, before the element is constructed.
LEMMA OpensRow ==
  ASSUME NEW n \in Nat, NEW s \in Seq(Value), NEW p \in 0 .. Len(s), NEW g \in Nat, g > 0, Len(s) + g <= n
  PROVE  Opened(Row(n, s), p, g, Len(s)) = Gapped(n, s, p, g)
<1>1. Len(s) \in Nat /\ p \in Nat /\ p <= Len(s)
  BY SeqFacts
<1>2. CASE p >= Len(s)
  <2>1. p = Len(s)
    BY <1>1, <1>2
  <2> QED
    BY <2>1, GapAtEnd DEF Opened
<1>3. CASE ~(p >= Len(s)) /\ p + 1 < Len(s)
  BY <1>3, GapOpens DEF Opened
<1>4. CASE ~(p >= Len(s)) /\ ~(p + 1 < Len(s))
  <2>1. Len(s) <= p + g
    BY <1>1, <1>4
  <2> QED
    BY <1>4, <2>1, GapOpensAhead DEF Opened
<1> QED
  BY <1>2, <1>3, <1>4

\* insert of one element.
LEMMA InsertsInRow ==
  ASSUME NEW n \in Nat, NEW s \in Seq(Value), NEW p \in 0 .. Len(s), NEW x \in Value, Len(s) + 1 <= n
  PROVE  Constructed(Opened(Row(n, s), p, 1, Len(s)), p, x) = Row(n, Spliced(s, p, p, <<x>>))
BY OpensRow, ConstructsGap

LEMMA CopiesSeq ==
  ASSUME NEW n \in Nat, NEW x \in Value
  PROVE  Copies(n, x) \in Seq(Value) /\ Len(Copies(n, x)) = n /\ \A j \in 1 .. n : Copies(n, x)[j] = x
<1>1. Copies(n, x) \in [1 .. n -> Value]
  BY DEF Copies
<1> QED
  BY <1>1 DEF Copies

LEMMA NothingMoves ==
  ASSUME NEW b, NEW dst \in Nat, NEW first \in Nat
  PROVE  MovedForward(b, dst, first, first) = b
<1> DEFINE C == [j \in 0 .. 0 |-> b]
<1>1. C[0] = b /\ first - first = 0 /\ first <= first /\ C[first - first] = b
  OBVIOUS
<1> HIDE DEF C
<1>2. ForwardTurns(C, b, dst, first, first)
  BY <1>1 DEF ForwardTurns
<1>3. MovedForward(b, dst, first, first) = C[first - first]
  BY <1>1, <1>2, ForwardLoop
<1> QED
  BY <1>1, <1>3

\* std::erase: the elements that stay are in front, husks behind them.
LEMMA WeedsRow ==
  ASSUME NEW n \in Nat, NEW s \in Seq(Value), Len(s) <= n, NEW t \in Seq(Value), Len(t) <= Len(s),
         NEW b, b = [i \in DOMAIN Row(n, s) |-> IF i < Len(t) THEN t[i + 1]
                                                ELSE IF i < Len(s) THEN Husk ELSE Row(n, s)[i]]
  PROVE  Closed(b, Len(t), Len(s), Len(s)) = Row(n, t)
<1> DEFINE k == Len(t)  m == Len(s)  r == Row(n, s)  d == Destroyed(b, k, m)
<1>1. k \in Nat /\ m \in Nat /\ k <= m /\ DOMAIN r = 0 .. n - 1
      /\ \A i \in 0 .. n - 1 : i >= m => r[i] = Raw
  BY SeqFacts, RowSlots
<1> HIDE DEF r
<1>2. DOMAIN b = 0 .. n - 1 /\ b = [i \in 0 .. n - 1 |-> b[i]]
      /\ \A i \in 0 .. n - 1 : b[i] = IF i < k THEN t[i + 1] ELSE IF i < m THEN Husk ELSE Raw
  BY <1>1 DEF r
<1>3. CASE k = m
  <2>1. \A i \in 0 .. n - 1 : b[i] = IF i < Len(t) THEN t[i + 1] ELSE Raw
    BY <1>2, <1>3
  <2>2. b = Row(n, t)
    BY <1>2, <2>1, IsRow
  <2> QED
    BY <1>3, <2>2 DEF Closed
<1>4. CASE k # m
  <2>1. d = [i \in 0 .. n - 1 |-> d[i]]
    BY <1>2 DEF Destroyed
  <2>2. ASSUME NEW i \in 0 .. n - 1 PROVE d[i] = IF i < Len(t) THEN t[i + 1] ELSE Raw
    BY <1>1, <1>2, SlotKinds DEF Destroyed, DestroyedAt
  <2> HIDE DEF d
  <2>3. d = Row(n, t)
    BY <2>1, <2>2, IsRow
  <2>4. MovedForward(d, k, m, m) = d
    BY <1>1, NothingMoves
  <2> QED
    BY <1>4, <2>3, <2>4 DEF Closed, d
<1> QED
  BY <1>3, <1>4

\* f says where in s each element of t was: those that are not x, in their order.
Keeps(t, s, n, x, f) ==
  /\ t \in Seq(Value) /\ Len(t) <= n /\ f \in [1 .. Len(t) -> 1 .. n]
  /\ \A j, k \in 1 .. Len(t) : j < k => f[j] < f[k]
  /\ \A k \in 1 .. Len(t) : t[k] = s[f[k]] /\ s[f[k]] # x
  /\ \A i \in 1 .. n : s[i] # x => \E k \in 1 .. Len(t) : f[k] = i

LEMMA KeepsNext ==
  ASSUME NEW s \in Seq(Value), NEW x \in Value, NEW n \in Nat, n < Len(s), NEW t, NEW f, Keeps(t, s, n, x, f)
  PROVE  IF s[n + 1] = x THEN Keeps(t, s, n + 1, x, f)
         ELSE \E g : Keeps(Append(t, s[n + 1]), s, n + 1, x, g)
<1> DEFINE m == Len(t)
<1>1. /\ t \in Seq(Value) /\ m <= n /\ f \in [1 .. m -> 1 .. n] /\ m \in Nat
      /\ \A j, k \in 1 .. m : j < k => f[j] < f[k]
      /\ \A k \in 1 .. m : t[k] = s[f[k]] /\ s[f[k]] # x
      /\ \A i \in 1 .. n : s[i] # x => \E k \in 1 .. m : f[k] = i
  BY SeqFacts DEF Keeps
<1>2. s[n + 1] \in Value
  BY SeqFacts
<1> HIDE DEF m
<1>3. CASE s[n + 1] = x
  <2>1. f \in [1 .. m -> 1 .. n + 1] /\ m <= n + 1
    BY <1>1
  <2>2. ASSUME NEW i \in 1 .. n + 1, s[i] # x PROVE \E k \in 1 .. m : f[k] = i
    <3>1. i \in 1 .. n
      BY <1>3, <2>2
    <3> QED
      BY <1>1, <2>2, <3>1
  <2>3. Keeps(t, s, n + 1, x, f)
    BY <1>1, <2>1, <2>2 DEF Keeps, m
  <2> QED
    BY <1>3, <2>3
<1>4. CASE s[n + 1] # x
  <2> DEFINE u == Append(t, s[n + 1])  g == [k \in 1 .. m + 1 |-> IF k = m + 1 THEN n + 1 ELSE f[k]]
  <2>1. u \in Seq(Value) /\ Len(u) = m + 1 /\ u[m + 1] = s[n + 1] /\ \A k \in 1 .. m : u[k] = t[k]
    BY <1>1, <1>2 DEF m
  <2>2. g \in [1 .. m + 1 -> 1 .. n + 1] /\ g[m + 1] = n + 1 /\ \A k \in 1 .. m : g[k] = f[k] /\ f[k] \in 1 .. n
    BY <1>1
  <2> HIDE DEF u, g
  <2>3. \A j, k \in 1 .. m + 1 : j < k => g[j] < g[k]
    <3> TAKE j, k \in 1 .. m + 1
    <3> HAVE j < k
    <3>1. j \in 1 .. m
      BY <1>1
    <3>2. CASE k = m + 1
      BY <2>2, <3>1, <3>2
    <3>3. CASE k \in 1 .. m
      BY <1>1, <2>2, <3>1, <3>3
    <3> QED
      BY <1>1, <3>2, <3>3
  <2>4. \A k \in 1 .. m + 1 : u[k] = s[g[k]] /\ s[g[k]] # x
    <3> TAKE k \in 1 .. m + 1
    <3>1. CASE k = m + 1
      BY <1>4, <2>1, <2>2, <3>1
    <3>2. CASE k \in 1 .. m
      BY <1>1, <2>1, <2>2, <3>2
    <3> QED
      BY <1>1, <3>1, <3>2
  <2>5. ASSUME NEW i \in 1 .. n + 1, s[i] # x PROVE \E k \in 1 .. m + 1 : g[k] = i
    <3>1. CASE i = n + 1
      BY <1>1, <2>2, <3>1
    <3>2. CASE i \in 1 .. n
      <4>1. PICK k \in 1 .. m : f[k] = i
        BY <1>1, <2>5, <3>2
      <4> QED
        BY <1>1, <2>2, <4>1
    <3> QED
      BY <3>1, <3>2
  <2>6. m + 1 <= n + 1
    BY <1>1
  <2>7. Keeps(u, s, n + 1, x, g)
    BY <2>1, <2>2, <2>3, <2>4, <2>5, <2>6 DEF Keeps
  <2> QED
    BY <1>4, <2>7 DEF u
<1> QED
  BY <1>3, <1>4

\* g[j] is what the loop of std::remove has collected after j turns; there is such a g.
Collects(g, s, x, n) ==
  g = [j \in 0 .. n |-> IF j = 0 THEN <<>> ELSE IF s[j] = x THEN g[j - 1] ELSE Append(g[j - 1], s[j])]

Collected(g, s, x, n) ==
  \A j \in 0 .. n : g[j] = IF j = 0 THEN <<>> ELSE IF s[j] = x THEN g[j - 1] ELSE Append(g[j - 1], s[j])

LEMMA CollectsRule ==
  ASSUME NEW s, NEW x, NEW n \in Nat, NEW g, Collects(g, s, x, n)
  PROVE  Collected(g, s, x, n)
<1> DEFINE r == [j \in 0 .. n |-> IF j = 0 THEN <<>>
                                  ELSE IF s[j] = x THEN g[j - 1] ELSE Append(g[j - 1], s[j])]
<1>1. g = r
  BY DEF Collects
<1>2. \A j \in 0 .. n : r[j] = IF j = 0 THEN <<>> ELSE IF s[j] = x THEN g[j - 1] ELSE Append(g[j - 1], s[j])
  OBVIOUS
<1> HIDE DEF r
<1> QED
  BY <1>1, <1>2 DEF Collected

LEMMA CollectsOn ==
  ASSUME NEW s, NEW x, NEW n \in Nat, NEW g, Collects(g, s, x, n)
  PROVE  \E h : Collects(h, s, x, n + 1)
<1> DEFINE last == IF s[n + 1] = x THEN g[n] ELSE Append(g[n], s[n + 1])
           h == [j \in 0 .. n + 1 |-> IF j = n + 1 THEN last ELSE g[j]]
<1>1. h = [j \in 0 .. n + 1 |-> h[j]] /\ h[n + 1] = last /\ \A j \in 0 .. n : h[j] = g[j]
  OBVIOUS
<1>2. Collected(g, s, x, n)
  BY CollectsRule
<1> HIDE DEF h
<1>3. ASSUME NEW j \in 0 .. n + 1
      PROVE  h[j] = IF j = 0 THEN <<>> ELSE IF s[j] = x THEN h[j - 1] ELSE Append(h[j - 1], s[j])
  <2>1. CASE j = n + 1
    <3>1. j - 1 = n /\ j # 0 /\ h[j - 1] = g[n]
      BY <1>1, <2>1
    <3> QED
      BY <1>1, <2>1, <3>1
  <2>2. CASE j \in 1 .. n
    <3>0. j - 1 \in 0 .. n /\ j \in 0 .. n /\ j # 0
      BY <2>2
    <3>1. j - 1 \in 0 .. n /\ j \in 0 .. n /\ h[j - 1] = g[j - 1] /\ h[j] = g[j] /\ j # 0
      BY <1>1, <3>0
    <3> QED
      BY <1>2, <3>1 DEF Collected
  <2>3. CASE j = 0
    <3>1. 0 \in 0 .. n /\ h[0] = g[0]
      BY <1>1, SMTT(30)
    <3> QED
      BY <1>2, <2>3, <3>1 DEF Collected
  <2> QED
    BY <2>1, <2>2, <2>3
<1>4. Collects(h, s, x, n + 1)
  BY <1>1, <1>3 DEF Collects
<1> QED
  BY <1>4

LEMMA CollectsAll == ASSUME NEW s, NEW x, NEW n \in Nat PROVE \E g : Collects(g, s, x, n)
<1> DEFINE S == {m \in Nat : ~\E g : Collects(g, s, x, m)}
<1> SUFFICES ASSUME S # {} PROVE FALSE
  OBVIOUS
<1>1. PICK m \in S : \A y \in S : m <= y
  <2>1. S \in SUBSET Nat
    OBVIOUS
  <2> HIDE DEF S
  <2> QED
    BY <2>1, LeastNumber
<1>2. m \in Nat /\ ~\E g : Collects(g, s, x, m)
  BY <1>1
<1>3. CASE m = 0
  <2> DEFINE g == [j \in 0 .. 0 |-> <<>>]
  <2>1. g = [j \in 0 .. 0 |-> IF j = 0 THEN <<>> ELSE IF s[j] = x THEN g[j - 1] ELSE Append(g[j - 1], s[j])]
    OBVIOUS
  <2>2. Collects(g, s, x, 0)
    BY <2>1 DEF Collects
  <2> QED
    BY <1>2, <1>3, <2>2
<1>4. CASE m > 0
  <2> DEFINE k == m - 1
  <2>1. k \in Nat /\ k + 1 = m /\ ~(m <= k)
    BY <1>2, <1>4
  <2>2. k \notin S
    BY <1>1, <2>1
  <2>3. PICK g : Collects(g, s, x, k)
    BY <2>1, <2>2
  <2> HIDE DEF k
  <2>4. \E h : Collects(h, s, x, k + 1)
    BY <2>1, <2>3, CollectsOn
  <2> QED
    BY <1>2, <2>1, <2>4
<1> QED
  BY <1>2, <1>3, <1>4

\* std::remove keeps what it should, in order.
LEMMA WithoutKeeps ==
  ASSUME NEW s \in Seq(Value), NEW x \in Value
  PROVE  \E f : Keeps(Without(s, x), s, Len(s), x, f)
<1> DEFINE n == Len(s)
           kept == CHOOSE g : Collects(g, s, x, n)
           S == {j \in 0 .. n : ~\E f : Keeps(kept[j], s, j, x, f)}
<1>1. n \in Nat
  BY SeqFacts
<1>2. Collects(kept, s, x, n)
  BY <1>1, CollectsAll
<1>3. Without(s, x) = kept[n]
  BY DEF Without, Collects
<1> HIDE DEF kept, n
<1>4. kept[0] = <<>> /\ \A j \in 1 .. n : kept[j] = IF s[j] = x THEN kept[j - 1] ELSE Append(kept[j - 1], s[j])
  <2>1. Collected(kept, s, x, n)
    BY <1>1, <1>2, CollectsRule
  <2>2. 0 \in 0 .. n /\ \A j \in 1 .. n : j \in 0 .. n /\ j # 0
    BY <1>1
  <2> QED
    BY <2>1, <2>2 DEF Collected
<1>5. ASSUME S # {} PROVE FALSE
  <2>1. PICK j \in S : \A y \in S : j <= y
    <3>1. S \in SUBSET Nat
      BY <1>1
    <3> HIDE DEF S
    <3> QED
      BY <1>5, <3>1, LeastNumber
  <2>2. j \in 0 .. n /\ ~\E f : Keeps(kept[j], s, j, x, f)
    BY <2>1
  <2>3. CASE j = 0
    <3>1. <<>> \in Seq(Value) /\ Len(<<>>) = 0
      BY EmptySeq
    <3> DEFINE t == <<>>  f == [k \in 1 .. 0 |-> 0]
    <3>2. t \in Seq(Value) /\ Len(t) = 0
      BY <3>1
    <3> HIDE DEF t
    <3>3. Keeps(t, s, 0, x, f)
      BY <3>2 DEF Keeps
    <3> QED
      BY <1>4, <2>2, <2>3, <3>3 DEF t
  <2>4. CASE j \in 1 .. n
    <3> DEFINE k == j - 1
    <3>1. k \in Nat /\ k \in 0 .. n /\ k + 1 = j /\ ~(j <= k) /\ k < Len(s)
      BY <1>1, <2>4 DEF n
    <3>2. PICK f : Keeps(kept[k], s, k, x, f)
      <4>1. k \notin S
        BY <2>1, <3>1
      <4> QED
        BY <3>1, <4>1
    <3>3. kept[j] = IF s[j] = x THEN kept[k] ELSE Append(kept[k], s[j])
      BY <1>4, <2>4
    <3> HIDE DEF k
    <3>4. IF s[k + 1] = x THEN Keeps(kept[k], s, k + 1, x, f)
          ELSE \E g : Keeps(Append(kept[k], s[k + 1]), s, k + 1, x, g)
      BY <3>1, <3>2, KeepsNext
    <3> QED
      BY <2>2, <3>1, <3>3, <3>4
  <2> QED
    BY <1>1, <2>2, <2>3, <2>4
<1>6. n \in 0 .. n
  BY <1>1
<1> QED
  BY <1>3, <1>5, <1>6 DEF n
-----------------------------------------------------------------------------
(* resize and swap. *)

\* The first n elements of s, and copies of x when there are fewer.
Extended(s, n, x) == [j \in 1 .. n |-> IF j <= Len(s) THEN s[j] ELSE x]

LEMMA ExtendedSeq ==
  ASSUME NEW s \in Seq(Value), NEW n \in Nat, NEW x \in Value
  PROVE  /\ Extended(s, n, x) \in Seq(Value) /\ Len(Extended(s, n, x)) = n
         /\ \A j \in 1 .. n : Extended(s, n, x)[j] = IF j <= Len(s) THEN s[j] ELSE x
<1> DEFINE t == Extended(s, n, x)
<1>1. \A j \in 1 .. n : (IF j <= Len(s) THEN s[j] ELSE x) \in Value
  BY SeqFacts
<1>2. t \in [1 .. n -> Value] /\ \A j \in 1 .. n : t[j] = IF j <= Len(s) THEN s[j] ELSE x
  BY <1>1 DEF Extended
<1> HIDE DEF t
<1> QED
  BY <1>2 DEF t

LEMMA ExtendsRow ==
  ASSUME NEW w \in Nat, NEW s \in Seq(Value), Len(s) <= w, NEW n \in Nat, n <= w, NEW x \in Value, n > Len(s)
  PROVE  Filled(Row(w, s), Len(s), Copies(n - Len(s), x)) = Row(w, Extended(s, n, x))
<1> DEFINE m == Len(s)  k == n - m  r == Copies(k, x)  t == Extended(s, n, x)
<1>1. m \in Nat /\ k \in Nat /\ m + k = n
  BY SeqFacts
<1>2. t \in Seq(Value) /\ Len(t) = n /\ \A j \in 1 .. n : t[j] = IF j <= m THEN s[j] ELSE x
  BY ExtendedSeq
<1> HIDE DEF t, k
<1>3. r \in Seq(Value) /\ Len(r) = k /\ \A j \in 1 .. k : r[j] = x
  BY <1>1, CopiesSeq
<1> HIDE DEF r
<1>4. Filled(Row(w, s), Len(s), r) = Row(w, s \o r)
  BY <1>1, <1>3, FillsEnd
<1>5. s \o r = t
  <2>1. /\ s \o r \in Seq(Value) /\ Len(s \o r) = Len(s) + Len(r)
        /\ \A j \in 1 .. Len(s) + Len(r) : (s \o r)[j] = IF j <= Len(s) THEN s[j] ELSE r[j - Len(s)]
    BY <1>3, ConcatProperties
  <2> DEFINE z == s \o r
  <2> HIDE DEF z
  <2>2. Len(z) = n /\ z \in Seq(Value)
    BY <1>1, <1>3, <2>1 DEF z
  <2>3. \A j \in 1 .. n : z[j] = t[j]
    <3> TAKE j \in 1 .. n
    <3>1. j \in 1 .. Len(s) + Len(r)
      BY <1>1, <1>3
    <3>2. z[j] = IF j <= m THEN s[j] ELSE r[j - m]
      BY <2>1, <3>1 DEF z
    <3>3. j > m => r[j - m] = x
      BY <1>1, <1>3
    <3> QED
      BY <1>1, <1>2, <3>2, <3>3
  <2>4. z = t
    BY <1>2, <2>2, <2>3, SameSeq
  <2> QED
    BY <2>4 DEF z
<1> QED
  BY <1>4, <1>5 DEF r, t, k

LEMMA ShortensRow ==
  ASSUME NEW w \in Nat, NEW s \in Seq(Value), Len(s) <= w, NEW n \in 0 .. Len(s), NEW x \in Value
  PROVE  Destroyed(Row(w, s), n, Len(s)) = Row(w, Extended(s, n, x))
<1> DEFINE t == Extended(s, n, x)  z == SubSeq(s, 1, n)
<1>1. Len(s) \in Nat /\ n \in Nat /\ n <= Len(s)
  BY SeqFacts
<1>2. t \in Seq(Value) /\ Len(t) = n /\ \A j \in 1 .. n : t[j] = IF j <= Len(s) THEN s[j] ELSE x
  BY <1>1, ExtendedSeq
<1>3. z \in Seq(Value) /\ Len(z) = n /\ \A j \in 1 .. n : z[j] = s[j]
  BY FirstOnes
<1>4. Destroyed(Row(w, s), n, Len(s)) = Row(w, z)
  BY DestroysTail
<1> HIDE DEF t, z
<1>5. \A j \in 1 .. n : z[j] = t[j]
  BY <1>1, <1>2, <1>3
<1>6. z = t
  BY <1>2, <1>3, <1>5, SameSeq
<1> QED
  BY <1>4, <1>6 DEF t, z

\* The storage b, of s, with the first elements of the storage c.
Exchanged(b, c, common) == [i \in DOMAIN b |-> IF i < common THEN c[i] ELSE b[i]]

LEMMA ExchangedSlots ==
  ASSUME NEW n \in Nat, NEW s \in Seq(Value), Len(s) <= n, NEW t \in Seq(Value), Len(t) <= n,
         NEW m \in Nat, m <= Len(s), m <= Len(t), NEW r \in Seq(Value), Len(r) <= n,
         \A i \in 0 .. n - 1 : (IF i < m THEN t[i + 1] ELSE IF i < Len(s) THEN s[i + 1] ELSE Raw)
                               = (IF i < Len(r) THEN r[i + 1] ELSE Raw)
  PROVE  Exchanged(Row(n, s), Row(n, t), m) = Row(n, r)
<1> DEFINE b == Exchanged(Row(n, s), Row(n, t), m)
<1>1. Len(s) \in Nat /\ Len(t) \in Nat
  BY SeqFacts
<1>2. DOMAIN Row(n, s) = 0 .. n - 1 /\ DOMAIN Row(n, t) = 0 .. n - 1
      /\ (\A i \in 0 .. n - 1 : Row(n, s)[i] = IF i < Len(s) THEN s[i + 1] ELSE Raw)
      /\ (\A i \in 0 .. n - 1 : Row(n, t)[i] = IF i < Len(t) THEN t[i + 1] ELSE Raw)
  BY RowSlots
<1>3. ASSUME NEW i \in 0 .. n - 1 PROVE b[i] = IF i < Len(r) THEN r[i + 1] ELSE Raw
  <2>1. b[i] = IF i < m THEN Row(n, t)[i] ELSE Row(n, s)[i]
    BY <1>2 DEF Exchanged
  <2>2. Row(n, t)[i] = (IF i < Len(t) THEN t[i + 1] ELSE Raw) /\ Row(n, s)[i] = (IF i < Len(s) THEN s[i + 1] ELSE Raw)
    BY <1>2
  <2>3. b[i] = IF i < m THEN t[i + 1] ELSE IF i < Len(s) THEN s[i + 1] ELSE Raw
    BY <1>1, <2>1, <2>2
  <2> QED
    BY <2>3
<1>4. b = [i \in 0 .. n - 1 |-> b[i]]
  BY <1>2 DEF Exchanged
<1> HIDE DEF b
<1>5. b = Row(n, r)
  BY <1>3, <1>4, IsRow
<1> QED
  BY <1>5 DEF b

\* swap, of the one that has more elements: the others are moved out and destroyed.
LEMMA SwapsLonger ==
  ASSUME NEW n \in Nat, NEW s \in Seq(Value), Len(s) <= n, NEW t \in Seq(Value), Len(t) < Len(s)
  PROVE  Destroyed(MovedFrom(Exchanged(Row(n, s), Row(n, t), Len(t)), Len(t), Len(s)), Len(t), Len(s)) = Row(n, t)
<1> DEFINE m == Len(s)  k == Len(t)  e == SubSeq(s, k + 1, Len(s))  r == t \o e
<1>1. m \in Nat /\ k \in Nat /\ k <= n /\ k \in 0 .. Len(s)
  BY SeqFacts
<1>2. e \in Seq(Value) /\ Len(e) = m - k /\ \A j \in 1 .. m - k : e[j] = s[k + j]
  BY <1>1, LastOnes
<1> HIDE DEF e
<1>3. r \in Seq(Value) /\ Len(r) = m /\ \A j \in 1 .. m : r[j] = IF j <= k THEN t[j] ELSE s[j]
  <2>1. /\ t \o e \in Seq(Value) /\ Len(t \o e) = Len(t) + Len(e)
        /\ \A j \in 1 .. Len(t) + Len(e) : (t \o e)[j] = IF j <= Len(t) THEN t[j] ELSE e[j - Len(t)]
    BY <1>2, ConcatProperties
  <2>2. r = t \o e
    OBVIOUS
  <2> HIDE DEF r
  <2>3. Len(r) = m
    BY <1>1, <1>2, <2>1, <2>2
  <2>4. ASSUME NEW j \in 1 .. m PROVE r[j] = IF j <= k THEN t[j] ELSE s[j]
    <3>1. j \in 1 .. Len(t) + Len(e)
      BY <1>1, <1>2
    <3>2. r[j] = IF j <= k THEN t[j] ELSE e[j - k]
      BY <2>1, <2>2, <3>1
    <3>3. j > k => j - k \in 1 .. m - k /\ k + (j - k) = j
      BY <1>1
    <3> QED
      BY <1>1, <1>2, <3>2, <3>3
  <2> QED
    BY <2>1, <2>2, <2>3, <2>4
<1> HIDE DEF r
<1>4. ASSUME NEW i \in 0 .. n - 1
      PROVE  (IF i < k THEN t[i + 1] ELSE IF i < Len(s) THEN s[i + 1] ELSE Raw)
             = (IF i < Len(r) THEN r[i + 1] ELSE Raw)
  <2>1. CASE i < m
    <3>1. i + 1 \in 1 .. m /\ (i < k <=> i + 1 <= k) /\ i \in Nat
      BY <1>1, <2>1
    <3>2. r[i + 1] = IF i + 1 <= k THEN t[i + 1] ELSE s[i + 1]
      BY <1>3, <3>1
    <3> QED
      BY <1>3, <2>1, <3>1, <3>2
  <2>2. CASE ~(i < m)
    BY <1>1, <1>3, <2>2
  <2> QED
    BY <2>1, <2>2
<1>5. Exchanged(Row(n, s), Row(n, t), k) = Row(n, r)
  <2>1. k <= Len(s) /\ k <= Len(t) /\ Len(t) <= n /\ Len(r) <= n
    BY <1>1, <1>3
  <2> HIDE DEF k
  <2> QED
    BY <1>1, <1>3, <1>4, <2>1, ExchangedSlots, SMTT(30)
<1>6. SubSeq(r, 1, k) = t
  <2> DEFINE z == SubSeq(r, 1, k)
  <2>1. z \in Seq(Value) /\ Len(z) = k /\ \A j \in 1 .. k : z[j] = r[j]
    BY <1>1, <1>3, FirstOnes
  <2> HIDE DEF z
  <2>2. ASSUME NEW j \in 1 .. k PROVE z[j] = t[j]
    <3>1. j \in 1 .. m /\ j <= k
      BY <1>1
    <3> QED
      BY <1>3, <2>1, <3>1
  <2>3. z = t
    BY <1>1, <2>1, <2>2, SameSeq
  <2> QED
    BY <2>3 DEF z
<1>7. k \in 0 .. Len(r) /\ Len(r) <= n
  BY <1>1, <1>3
<1>8. Destroyed(MovedFrom(Row(n, r), k, Len(r)), k, Len(r)) = Row(n, t)
  BY <1>1, <1>3, <1>6, <1>7, MovedFromDestroyed, DestroysTail
<1> QED
  BY <1>3, <1>5, <1>8

\* swap, of the other: it takes what the longer one has more.
LEMMA SwapsShorter ==
  ASSUME NEW n \in Nat, NEW s \in Seq(Value), NEW t \in Seq(Value), Len(t) <= n, Len(s) <= Len(t)
  PROVE  Filled(Exchanged(Row(n, s), Row(n, t), Len(s)), Len(s), SubSeq(t, Len(s) + 1, Len(t))) = Row(n, t)
<1> DEFINE m == Len(s)  k == Len(t)  r == SubSeq(t, 1, m)  e == SubSeq(t, m + 1, Len(t))
<1>1. m \in Nat /\ k \in Nat /\ m <= n /\ m \in 0 .. Len(t)
  BY SeqFacts
<1>2. r \in Seq(Value) /\ Len(r) = m /\ \A j \in 1 .. m : r[j] = t[j]
  BY <1>1, FirstOnes
<1>3. e \in Seq(Value) /\ Len(e) = k - m /\ \A j \in 1 .. k - m : e[j] = t[m + j]
  BY <1>1, LastOnes
<1> HIDE DEF r, e
<1>4. ASSUME NEW i \in 0 .. n - 1
      PROVE  (IF i < m THEN t[i + 1] ELSE IF i < Len(s) THEN s[i + 1] ELSE Raw)
             = (IF i < Len(r) THEN r[i + 1] ELSE Raw)
  <2>1. i < m => i + 1 \in 1 .. m
    BY <1>1
  <2> QED
    BY <1>2, <2>1
<1>5. Exchanged(Row(n, s), Row(n, t), m) = Row(n, r)
  <2>1. m <= Len(s) /\ m <= Len(t) /\ Len(s) <= n /\ Len(r) <= n
    BY <1>1, <1>2
  <2> HIDE DEF m
  <2> QED
    BY <1>1, <1>2, <1>4, <2>1, ExchangedSlots
<1>6. r \o e = t
  <2> DEFINE z == r \o e
  <2>1. /\ z \in Seq(Value) /\ Len(z) = Len(r) + Len(e)
        /\ \A j \in 1 .. Len(r) + Len(e) : z[j] = IF j <= Len(r) THEN r[j] ELSE e[j - Len(r)]
    BY <1>2, <1>3, ConcatProperties
  <2> HIDE DEF z
  <2>2. Len(z) = k
    BY <1>1, <1>2, <1>3, <2>1
  <2>3. \A j \in 1 .. k : z[j] = t[j]
    <3> TAKE j \in 1 .. k
    <3>1. j \in 1 .. Len(r) + Len(e)
      BY <1>1, <1>2, <1>3
    <3>2. z[j] = IF j <= m THEN r[j] ELSE e[j - m]
      BY <1>2, <2>1, <3>1
    <3>3. j > m => j - m \in 1 .. k - m /\ m + (j - m) = j
      BY <1>1
    <3> QED
      BY <1>1, <1>2, <1>3, <3>2, <3>3
  <2>4. z = t
    BY <1>1, <2>1, <2>2, <2>3, SameSeq
  <2> QED
    BY <2>4 DEF z
<1>7. Len(r) + Len(e) <= n
  BY <1>1, <1>2, <1>3
<1>8. Filled(Row(n, r), Len(r), e) = Row(n, t)
  BY <1>1, <1>2, <1>3, <1>6, <1>7, FillsEnd
<1> QED
  BY <1>2, <1>5, <1>8 DEF e
=============================================================================
