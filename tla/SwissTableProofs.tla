------------------------- MODULE SwissTableProofs -------------------------
(***************************************************************************)
(* What the inline storage of dense_map promises, for every set of keys,   *)
(* every hash, every tag and each group width a build may choose.          *)
(*                                                                         *)
(* First the parts that have nothing to do with entries: numbers, the      *)
(* capacities, the positions of a probe and the groups it reads.  Then     *)
(* what the control bytes tell (Laid, Counted), that a probe that looks    *)
(* for a key passes no group with an empty byte before it (Passes), and    *)
(* that each operation keeps this (Works).                                 *)
(***************************************************************************)
EXTENDS SwissTable, WellFoundedInduction, FiniteSetTheorems, TLAPS

-----------------------------------------------------------------------------
(* Numbers. *)

LEMMA MinIs ==
  ASSUME NEW S \in SUBSET Int, NEW x \in S, \A y \in S : x <= y
  PROVE  Min(S) = x
<1>1. \A z \in S : (\A y \in S : z <= y) => z = x
  <2> SUFFICES ASSUME NEW z \in S, \A y \in S : z <= y PROVE z = x
    OBVIOUS
  <2>1. z <= x /\ x <= z /\ x \in Int /\ z \in Int
    OBVIOUS
  <2> QED
    BY <2>1
<1>2. \E z \in S : \A y \in S : z <= y
  OBVIOUS
<1>3. Min(S) \in S /\ \A y \in S : Min(S) <= y
  BY <1>2, Zenon DEF Min
<1> QED
  BY <1>1, <1>3

LEMMA LeastNumber == ASSUME NEW S \in SUBSET Nat, S # {} PROVE \E x \in S : \A y \in S : x <= y
<1> DEFINE R == OpToRel(<, Nat)
<1>1. PICK x \in S : \A y \in S : ~(<<y, x>> \in R)
  BY NatLessThanWellFounded, WFMin
<1>2. \A y \in S : ~(y < x)
  BY <1>1 DEF OpToRel
<1> QED
  BY <1>2

LEMMA MinOf ==
  ASSUME NEW S \in SUBSET Nat, S # {}
  PROVE  Min(S) \in S /\ \A y \in S : Min(S) <= y
<1>1. PICK x \in S : \A y \in S : x <= y
  BY LeastNumber
<1> QED
  BY <1>1, MinIs

LEMMA Widths == GroupWidth \in {2, 4, 8, 16, 32, 64}
<1>1. PICK e \in 1 .. 6 : GroupWidth = 2 ^ e
  BY WidthAssumption
<1>2. 2 ^ 1 = 2 /\ 2 ^ 2 = 4 /\ 2 ^ 3 = 8 /\ 2 ^ 4 = 16 /\ 2 ^ 5 = 32 /\ 2 ^ 6 = 64
  OBVIOUS
<1>3. e = 1 \/ e = 2 \/ e = 3 \/ e = 4 \/ e = 5 \/ e = 6
  OBVIOUS
<1> QED
  BY <1>1, <1>2, <1>3

\* 2 ^ e for the exponents of Capacities.
Power == {1, 2, 4, 8, 16, 32, 64, 128, 256}

LEMMA CapacitiesAre == Capacities = {GroupWidth * m : m \in Power}
<1> DEFINE S == {2 ^ e : e \in 0 .. 8}
<1>1. /\ 2 ^ 0 = 1 /\ 2 ^ 1 = 2 /\ 2 ^ 2 = 4 /\ 2 ^ 3 = 8 /\ 2 ^ 4 = 16
      /\ 2 ^ 5 = 32 /\ 2 ^ 6 = 64 /\ 2 ^ 7 = 128 /\ 2 ^ 8 = 256
  OBVIOUS
<1>2. 0 .. 8 = {0, 1, 2, 3, 4, 5, 6, 7, 8}
  OBVIOUS
<1>3. S = {2 ^ e : e \in {0, 1, 2, 3, 4, 5, 6, 7, 8}}
  BY <1>2, Zenon
<1>4. S = {2 ^ 0, 2 ^ 1, 2 ^ 2, 2 ^ 3, 2 ^ 4, 2 ^ 5, 2 ^ 6, 2 ^ 7, 2 ^ 8}
  BY <1>3, Zenon
<1>5. S = Power
  BY <1>1, <1>4, Zenon DEF Power
<1>6. Capacities = {GroupWidth * m : m \in S}
  BY InlineAssumption, Zenon DEF Capacities
<1> QED
  BY <1>5, <1>6, Zenon

LEMMA CapacityIs ==
  ASSUME NEW c \in Capacities
  PROVE  /\ c \in Nat /\ c >= GroupWidth /\ c >= 2
         /\ \E m \in Power : c = GroupWidth * m
<1>1. PICK m \in Power : c = GroupWidth * m
  BY CapacitiesAre
<1>2. m \in Nat /\ m >= 1
  BY DEF Power
<1> QED
  BY <1>1, <1>2, Widths

\* What BoundAssumption says of a storage whose least table is one group.
LEMMA Bounded == MaxCapacity \in Nat /\ 2 * MaxCapacity <= GroupWidth * 2 ^ 8
BY BoundAssumption, InlineAssumption

\* No table of this storage is smaller than a group.
LEMMA GroupIs ==
  ASSUME NEW t, t.cap \in Capacities
  PROVE  Group(t) = 0 .. (t.cap \div GroupWidth) - 1
<1>1. t.cap \in Nat /\ GroupWidth \in Nat /\ t.cap >= GroupWidth
  BY CapacityIs, Widths
<1> QED
  BY <1>1 DEF Group

LEMMA CapacityDoubles ==
  ASSUME NEW c \in Capacities, 2 * c <= 2 * MaxCapacity
  PROVE  2 * c \in Capacities
<1>1. PICK m \in Power : c = GroupWidth * m
  BY CapacitiesAre
<1>2. 2 * (GroupWidth * m) <= GroupWidth * 256
  <2>1. 2 ^ 8 = 256
    OBVIOUS
  <2>2. GroupWidth \in Nat
    BY Widths
  <2>3. m \in Nat
    BY DEF Power
  <2> QED
    BY <1>1, <2>1, <2>2, <2>3, Bounded
<1>3. m = 256 \/ 2 * m \in Power
  BY DEF Power
<1>4. CASE 2 * m \in Power
  <2>1. 2 * (GroupWidth * m) = GroupWidth * (2 * m)
    <3>1. m \in Nat
      BY DEF Power
    <3> QED
      BY <3>1, Widths
  <2> QED
    BY <1>1, <1>4, <2>1, CapacitiesAre
<1>5. CASE m = 256
  BY <1>2, <1>5, Widths
<1> QED
  BY <1>3, <1>4, <1>5

\* Groups of a table tile it: what lies d steps from home is lane d % GroupWidth of group d \div GroupWidth.
LEMMA Tiles ==
  ASSUME NEW c \in Capacities, NEW d \in 0 .. c - 1
  PROVE  /\ d \div GroupWidth \in 0 .. (c \div GroupWidth) - 1 /\ d % GroupWidth \in Lane(GroupWidth)
         /\ (d \div GroupWidth) * GroupWidth + (d % GroupWidth) = d
<1>1. PICK m \in Power : c = GroupWidth * m
  BY CapacitiesAre
<1>2. m \in Nat
  BY DEF Power
<1>3. GroupWidth = 2 \/ GroupWidth = 4 \/ GroupWidth = 8 \/ GroupWidth = 16 \/ GroupWidth = 32 \/ GroupWidth = 64
  BY Widths
<1> QED
  BY <1>1, <1>2, <1>3 DEF Lane

LEMMA InTile ==
  ASSUME NEW c \in Capacities, NEW g \in 0 .. (c \div GroupWidth) - 1, NEW j \in Lane(GroupWidth)
  PROVE  g * GroupWidth \in Nat /\ g * GroupWidth + j \in 0 .. c - 1
<1>1. PICK m \in Power : c = GroupWidth * m
  BY CapacitiesAre
<1>2. m \in Nat
  BY DEF Power
<1>3. GroupWidth = 2 \/ GroupWidth = 4 \/ GroupWidth = 8 \/ GroupWidth = 16 \/ GroupWidth = 32 \/ GroupWidth = 64
  BY Widths
<1>4. c \div GroupWidth = m
  BY <1>1, <1>2, <1>3
<1>5. g \in Nat /\ g <= m - 1
  BY <1>2, <1>4
<1>6. \A w \in {2, 4, 8, 16, 32, 64} : g * w \in Nat /\ g * w + w <= w * m
  BY <1>2, <1>5
<1>7. g * GroupWidth \in Nat /\ g * GroupWidth + GroupWidth <= c
  BY <1>1, <1>6, Widths
<1>8. j \in Nat /\ j <= GroupWidth - 1 /\ GroupWidth \in Nat /\ c \in Nat
  BY CapacityIs, Widths DEF Lane
<1> QED
  BY <1>7, <1>8

LEMMA TilesApart ==
  ASSUME NEW g \in Nat, NEW h \in Nat, NEW j \in Lane(GroupWidth), NEW l \in Lane(GroupWidth)
  PROVE  /\ g * GroupWidth + j = h * GroupWidth + l => g = h /\ j = l
         /\ h < g => h * GroupWidth + l < g * GroupWidth + j
<1>1. GroupWidth = 2 \/ GroupWidth = 4 \/ GroupWidth = 8 \/ GroupWidth = 16 \/ GroupWidth = 32 \/ GroupWidth = 64
  BY Widths
<1> QED
  BY <1>1 DEF Lane

\* The load limit.
LEMMA Limit ==
  ASSUME NEW c \in Capacities
  PROVE  GrowthFor(c) \in Nat /\ GrowthFor(c) < c /\ GrowthFor(c) > 0
<1>1. c \in Nat /\ c >= 2
  BY CapacityIs
<1> QED
  BY <1>1 DEF GrowthFor

LEMMA LimitDoubles ==
  ASSUME NEW c \in Capacities
  PROVE  GrowthFor(c) < GrowthFor(c * 2)
<1>1. c \in Nat /\ c >= 2
  BY CapacityIs
<1> QED
  BY <1>1 DEF GrowthFor

LEMMA Divides ==
  ASSUME NEW a \in Nat, NEW c \in Nat \ {0}
  PROVE  a % c \in 0 .. c-1 /\ a \div c \in Nat /\ a = (a \div c) * c + (a % c)
OBVIOUS

LEMMA Remainder ==
  ASSUME NEW q \in Nat, NEW c \in Nat \ {0}, NEW r \in 0 .. c-1
  PROVE  (q * c + r) % c = r
OBVIOUS

\* Going round a table of c slots from a place beyond its end.
LEMMA GoesRound ==
  ASSUME NEW a \in Nat, NEW c \in Nat \ {0}, NEW d \in 0..c-1
  PROVE  a % c \in 0 .. c-1 /\ (a + d) % c = (IF (a % c) + d < c THEN (a % c) + d ELSE (a % c) + d - c)
<1> DEFINE q == a \div c  r == a % c
<1>1. r \in 0 .. c - 1 /\ q \in Nat /\ a = q * c + r
  BY Divides
<1> HIDE DEF q, r
<1>2. CASE r + d < c
  <2>1. r + d \in 0 .. c - 1
    BY <1>1, <1>2
  <2>2. a + d = q * c + (r + d)
    BY <1>1
  <2>3. (a + d) % c = r + d
    BY <1>1, <2>1, <2>2, Remainder
  <2> QED
    BY <1>1, <1>2, <2>3 DEF r
<1>3. CASE ~(r + d < c)
  <2>1. r + d - c \in 0 .. c - 1 /\ q + 1 \in Nat
    BY <1>1, <1>3
  <2>2. (q + 1) * c = q * c + c
    BY <1>1
  <2>3. a + d = (q + 1) * c + (r + d - c)
    BY <1>1, <2>2
  <2>4. ((q + 1) * c + (r + d - c)) % c = r + d - c
    BY <2>1, Remainder
  <2>5. (a + d) % c = r + d - c
    BY <2>3, <2>4
  <2> QED
    BY <1>1, <1>3, <2>5 DEF r
<1> QED
  BY <1>2, <1>3

-----------------------------------------------------------------------------
(* A probe, slot by slot: what lies d steps behind the home of k. *)

Along(t, k, d) == (Hash[k] + d) % t.cap

\* The bytes behind the last are those of the first group.
Mirrored(t) == t.cap \in Capacities /\ \A j \in Lane(GroupWidth) : t.ctrl[t.cap + j] = t.ctrl[j]

LEMMA AlongIs ==
  ASSUME NEW t, t.cap \in Capacities, NEW k \in Key, NEW d \in 0 .. t.cap - 1
  PROVE  LET h == Hash[k] % t.cap IN
         /\ h \in 0 .. t.cap - 1
         /\ Along(t, k, d) = (IF h + d < t.cap THEN h + d ELSE h + d - t.cap)
         /\ Along(t, k, d) \in 0 .. t.cap - 1
<1>1. t.cap \in Nat \ {0} /\ Hash[k] \in Nat
  BY CapacityIs, HashAssumption
<1> DEFINE a == Hash[k]  c == t.cap
<1>2. a % c \in 0 .. c - 1 /\ (a + d) % c = (IF (a % c) + d < c THEN (a % c) + d ELSE (a % c) + d - c)
  BY <1>1, GoesRound
<1> QED
  BY <1>1, <1>2 DEF Along

LEMMA AlongOnce ==
  ASSUME NEW t, t.cap \in Capacities, NEW k \in Key, NEW d \in 0 .. t.cap - 1, NEW e \in 0 .. t.cap - 1,
         Along(t, k, d) = Along(t, k, e)
  PROVE  d = e
<1>1. t.cap \in Nat
  BY CapacityIs
<1> DEFINE h == Hash[k] % t.cap
<1>2. /\ h \in 0 .. t.cap - 1
      /\ Along(t, k, d) = (IF h + d < t.cap THEN h + d ELSE h + d - t.cap)
      /\ Along(t, k, e) = (IF h + e < t.cap THEN h + e ELSE h + e - t.cap)
  BY AlongIs
<1>3. (IF h + d < t.cap THEN h + d ELSE h + d - t.cap) = (IF h + e < t.cap THEN h + e ELSE h + e - t.cap)
  BY <1>2
<1> DEFINE c == t.cap
<1>4. c \in Nat /\ h \in 0 .. c - 1 /\ d \in 0 .. c - 1 /\ e \in 0 .. c - 1
  BY <1>1, <1>2
<1> HIDE DEF h, c
<1>5. (IF h + d < c THEN h + d ELSE h + d - c) = (IF h + e < c THEN h + e ELSE h + e - c)
  BY <1>3 DEF c
<1> QED
  BY <1>4, <1>5

LEMMA AlongEvery ==
  ASSUME NEW t, t.cap \in Capacities, NEW k \in Key, NEW i \in 0 .. t.cap - 1
  PROVE  \E d \in 0 .. t.cap - 1 : Along(t, k, d) = i
<1>1. t.cap \in Nat \ {0}
  BY CapacityIs
<1> DEFINE h == Hash[k] % t.cap
           d == IF i >= h THEN i - h ELSE i + t.cap - h
<1>2. h \in 0 .. t.cap - 1
  BY <1>1, AlongIs
<1>3. d \in 0 .. t.cap - 1
  BY <1>1, <1>2
<1>4. Along(t, k, d) = (IF h + d < t.cap THEN h + d ELSE h + d - t.cap)
  BY <1>3, AlongIs
<1>5. Along(t, k, d) = i
  <2> HIDE DEF h
  <2> QED
    BY <1>1, <1>2, <1>3, <1>4
<1> QED
  BY <1>3, <1>5

LEMMA AlongNext ==
  ASSUME NEW t, t.cap \in Capacities, NEW k \in Key, NEW d \in 0 .. t.cap - 1, d + 1 \in 0 .. t.cap - 1
  PROVE  Along(t, k, d + 1) = (Along(t, k, d) + 1) % t.cap
<1>1. t.cap \in Nat \ {0} /\ 1 \in 0 .. t.cap - 1
  BY CapacityIs
<1> DEFINE h == Hash[k] % t.cap  a == Along(t, k, d)
<1>2. /\ h \in 0 .. t.cap - 1
      /\ a = (IF h + d < t.cap THEN h + d ELSE h + d - t.cap)
      /\ Along(t, k, d + 1) = (IF h + (d + 1) < t.cap THEN h + (d + 1) ELSE h + (d + 1) - t.cap)
      /\ a \in 0 .. t.cap - 1
  BY AlongIs
<1>3. a % t.cap = a
  BY <1>1, <1>2, \A c \in Nat \ {0}, x \in Nat : x < c => x % c = x
<1> HIDE DEF h, a
<1>4. (a + 1) % t.cap = (IF (a % t.cap) + 1 < t.cap THEN (a % t.cap) + 1 ELSE (a % t.cap) + 1 - t.cap)
  <2>1. a \in Nat
    BY <1>1, <1>2
  <2> QED
    BY <1>1, <2>1, GoesRound, Zenon
<1>5. (a + 1) % t.cap = (IF a + 1 < t.cap THEN a + 1 ELSE a + 1 - t.cap)
  BY <1>3, <1>4
<1>6. Along(t, k, d + 1) = (a + 1) % t.cap
  BY <1>1, <1>2, <1>5
<1> QED
  BY <1>6 DEF a

\* The windows of a probe, one after the other, see the slots of the table one after the other.
LEMMA Windows ==
  ASSUME NEW t, Mirrored(t), NEW k \in Key, NEW g \in Group(t), NEW j \in Lane(GroupWidth)
  PROVE  /\ g * GroupWidth + j \in 0 .. t.cap - 1
         /\ Slot(t, k, g, j) = Along(t, k, g * GroupWidth + j)
         /\ ByteAt(t, k, g, j) = t.ctrl[Along(t, k, g * GroupWidth + j)]
<1> DEFINE c == t.cap  h == Hash[k] % c  x == g * GroupWidth  st == Start(t, k, g)
<1>1. /\ c \in Nat \ {0} /\ c \in Capacities /\ GroupWidth \in Nat /\ GroupWidth <= c /\ 0 \in Lane(GroupWidth)
      /\ j \in Nat /\ j <= GroupWidth - 1
  BY CapacityIs, Widths DEF Mirrored, Lane
<1>2. x \in Nat /\ x + 0 \in 0 .. c - 1 /\ x + j \in 0 .. c - 1
  BY <1>1, GroupIs, InTile
<1>3. x \in 0 .. c - 1 /\ j \in 0 .. c - 1
  BY <1>1, <1>2
<1>4. st = Along(t, k, x)
  BY DEF Start, Along
<1>5. /\ h \in 0 .. c - 1 /\ st \in 0 .. c - 1
      /\ st = (IF h + x < c THEN h + x ELSE h + x - c)
      /\ Along(t, k, x + j) = (IF h + (x + j) < c THEN h + (x + j) ELSE h + (x + j) - c)
  BY <1>1, <1>2, <1>3, <1>4, AlongIs
<1>6. st % c = st
  BY <1>1, <1>5, \A m \in Nat \ {0}, y \in Nat : y < m => y % m = y
<1> HIDE DEF h, st, x, c
<1>7. (st + j) % c = (IF (st % c) + j < c THEN (st % c) + j ELSE (st % c) + j - c)
  <2>1. st \in Nat
    BY <1>1, <1>5
  <2> QED
    BY <1>1, <1>3, <2>1, GoesRound, Zenon
<1>8. (st + j) % c = (IF st + j < c THEN st + j ELSE st + j - c)
  BY <1>6, <1>7
<1>9. Along(t, k, x + j) = (st + j) % c
  BY <1>1, <1>2, <1>3, <1>5, <1>8
<1>10. Slot(t, k, g, j) = Along(t, k, x + j)
  BY <1>9 DEF Slot, st, c
<1>11. t.ctrl[st + j] = t.ctrl[Along(t, k, x + j)]
  <2>1. CASE st + j < c
    BY <1>8, <1>9, <2>1
  <2>2. CASE ~(st + j < c)
    <3>1. Along(t, k, x + j) = st + j - c /\ st + j - c \in 0 .. GroupWidth - 1
      BY <1>1, <1>3, <1>5, <1>8, <1>9, <2>2
    <3>2. t.ctrl[c + (st + j - c)] = t.ctrl[st + j - c]
      BY <3>1 DEF Mirrored, Lane, c
    <3>3. c + (st + j - c) = st + j
      BY <1>1, <1>5
    <3> QED
      BY <3>1, <3>2, <3>3
  <2> QED
    BY <2>1, <2>2
<1>12. ByteAt(t, k, g, j) = t.ctrl[st + j]
  BY Zenon DEF ByteAt, st
<1> QED
  BY <1>2, <1>10, <1>11, <1>12, Zenon DEF x, c

-----------------------------------------------------------------------------
(* Tables in which a probe works. *)

\* A full byte is the tag of the entry in its slot, and other slots hold nothing.
Tagged(t) ==
  \A i \in 0 .. t.cap - 1 :
    IF IsFull(t.ctrl[i]) THEN t.slots[i] \in Key \X Value /\ t.ctrl[i] = Tag[t.slots[i][1]]
                         ELSE t.slots[i] = Raw

HoldsAt(t, k, i) == i \in Full(t) /\ t.slots[i][1] = k

\* No key is in two slots.
Single(t) == \A i \in Full(t), j \in Full(t) : t.slots[i][1] = t.slots[j][1] => i = j

\* No empty byte lies between the home of a key and its slot, so that no probe for it ends before.
Passes(t, k, d) == \A e \in 0 .. d - 1 : t.ctrl[Along(t, k, e)] # Empty
Reached(t) ==
  \A i \in Full(t) : \E d \in 0 .. t.cap - 1 :
    Along(t, t.slots[i][1], d) = i /\ Passes(t, t.slots[i][1], d)

Laid(t) == Mirrored(t) /\ Tagged(t) /\ Single(t) /\ Reached(t)

LEMMA FullHolds ==
  ASSUME NEW t, Tagged(t), NEW i \in Full(t)
  PROVE  /\ i \in 0 .. t.cap - 1 /\ t.slots[i] \in Key \X Value /\ t.slots[i] # Raw
         /\ t.slots[i][1] \in Key /\ t.ctrl[i] = Tag[t.slots[i][1]]
<1>1. i \in 0 .. t.cap - 1 /\ IsFull(t.ctrl[i])
  BY DEF Full
<1>2. t.slots[i] \in Key \X Value /\ t.ctrl[i] = Tag[t.slots[i][1]]
  BY <1>1 DEF Tagged
<1>3. t.slots[i] # Raw
  BY <1>2, BytesDistinct
<1>4. t.slots[i][1] \in Key
  BY <1>2
<1> QED
  BY <1>1, <1>2, <1>3, <1>4

\* A lane is hit exactly when its slot holds the key: a tag is never that of another byte.
LEMMA HitsAre ==
  ASSUME NEW t, Mirrored(t), Tagged(t), NEW k \in Key, NEW g \in Group(t), NEW j \in Lane(GroupWidth)
  PROVE  j \in Hits(t, k, g) <=> HoldsAt(t, k, Along(t, k, g * GroupWidth + j))
<1> DEFINE i == Along(t, k, g * GroupWidth + j)
<1>1. /\ g * GroupWidth + j \in 0 .. t.cap - 1
      /\ Slot(t, k, g, j) = i /\ ByteAt(t, k, g, j) = t.ctrl[i]
  BY Windows
<1>2. i \in 0 .. t.cap - 1
  BY <1>1, AlongIs DEF Mirrored
<1>3. IsFull(Tag[k])
  BY BytesDistinct DEF IsFull
<1> HIDE DEF i
<1>4. ASSUME j \in Hits(t, k, g) PROVE HoldsAt(t, k, i)
  <2>1. t.ctrl[i] = Tag[k] /\ t.slots[i][1] = k
    BY <1>1, <1>4 DEF Hits
  <2> QED
    BY <1>2, <1>3, <2>1 DEF HoldsAt, Full
<1>5. ASSUME HoldsAt(t, k, i) PROVE j \in Hits(t, k, g)
  <2>1. i \in Full(t) /\ t.slots[i][1] = k
    BY <1>5 DEF HoldsAt
  <2>2. t.slots[i] # Raw /\ t.ctrl[i] = Tag[k]
    BY <2>1, FullHolds
  <2> QED
    BY <1>1, <2>1, <2>2 DEF Hits
<1> QED
  BY <1>4, <1>5 DEF i

LEMMA LanesAre == Lane(GroupWidth) \in SUBSET Nat
BY DEF Lane

LEMMA GroupsAre == ASSUME NEW t PROVE Group(t) \in SUBSET Nat
BY DEF Group

\* Every slot is seen by some lane of some group.
LEMMA SeenBy ==
  ASSUME NEW t, Mirrored(t), NEW k \in Key, NEW d \in 0 .. t.cap - 1
  PROVE  \E g \in Group(t), j \in Lane(GroupWidth) :
           /\ g * GroupWidth + j = d
           /\ Slot(t, k, g, j) = Along(t, k, d) /\ ByteAt(t, k, g, j) = t.ctrl[Along(t, k, d)]
<1> DEFINE g == d \div GroupWidth  j == d % GroupWidth
<1>1. g \in Group(t) /\ j \in Lane(GroupWidth) /\ g * GroupWidth + j = d
  BY GroupIs, Tiles DEF Mirrored
<1> HIDE DEF g, j
<1>2. /\ Slot(t, k, g, j) = Along(t, k, g * GroupWidth + j)
      /\ ByteAt(t, k, g, j) = t.ctrl[Along(t, k, g * GroupWidth + j)]
  BY <1>1, Windows
<1> QED
  BY <1>1, <1>2

\* The probe for a key that is there stops at its slot.
LEMMA ProbeFinds ==
  ASSUME NEW t, Laid(t), NEW k \in Key, NEW i, HoldsAt(t, k, i)
  PROVE  /\ Stops(t, k) # {} /\ Hits(t, k, Min(Stops(t, k))) # {}
         /\ Slot(t, k, Min(Stops(t, k)), Min(Hits(t, k, Min(Stops(t, k))))) = i
         /\ \A d \in 0 .. t.cap - 1 : Along(t, k, d) = i => Passes(t, k, d)
<1>1. Mirrored(t) /\ Tagged(t) /\ Single(t) /\ Reached(t) /\ t.cap \in Capacities
  BY DEF Laid, Mirrored
<1>2. i \in Full(t) /\ t.slots[i][1] = k
  BY DEF HoldsAt
<1>3. PICK d \in 0 .. t.cap - 1 : Along(t, k, d) = i /\ Passes(t, k, d)
  BY <1>1, <1>2 DEF Reached
<1>4. PICK g \in Group(t), j \in Lane(GroupWidth) :
        /\ g * GroupWidth + j = d
        /\ Slot(t, k, g, j) = Along(t, k, d) /\ ByteAt(t, k, g, j) = t.ctrl[Along(t, k, d)]
  BY <1>1, <1>3, SeenBy
<1>5. \A e \in 0 .. t.cap - 1 : HoldsAt(t, k, Along(t, k, e)) => e = d
  <2> SUFFICES ASSUME NEW e \in 0 .. t.cap - 1, HoldsAt(t, k, Along(t, k, e)) PROVE e = d
    OBVIOUS
  <2>1. Along(t, k, e) = i
    BY <1>1, <1>2 DEF HoldsAt, Single
  <2> QED
    BY <1>1, <1>3, <2>1, AlongOnce
<1>6. \A h \in Group(t), l \in Lane(GroupWidth) : l \in Hits(t, k, h) => h = g /\ l = j
  <2> SUFFICES ASSUME NEW h \in Group(t), NEW l \in Lane(GroupWidth), l \in Hits(t, k, h) PROVE h = g /\ l = j
    OBVIOUS
  <2>1. HoldsAt(t, k, Along(t, k, h * GroupWidth + l))
    BY <1>1, HitsAre
  <2>2. h * GroupWidth + l \in 0 .. t.cap - 1
    BY <1>1, Windows
  <2>3. h * GroupWidth + l = g * GroupWidth + j
    BY <1>4, <1>5, <2>1, <2>2
  <2>4. h \in Nat /\ g \in Nat
    BY GroupsAre
  <2> QED
    BY <2>3, <2>4, TilesApart
<1>7. j \in Hits(t, k, g)
  BY <1>1, <1>3, <1>4, HitsAre
<1>8. Hits(t, k, g) = {j}
  BY <1>6, <1>7 DEF Hits
<1>9. g \in Stops(t, k)
  BY <1>7 DEF Stops
<1>10. \A h \in Stops(t, k) : g <= h
  <2> SUFFICES ASSUME NEW h \in Stops(t, k), ~(g <= h) PROVE FALSE
    OBVIOUS
  <2>1. h \in Group(t) /\ h \in Nat /\ g \in Nat /\ h < g
    BY GroupsAre DEF Stops
  <2>2. Hits(t, k, h) = {}
    BY <1>6, <2>1 DEF Hits
  <2>3. PICK l \in Lane(GroupWidth) : ByteAt(t, k, h, l) = Empty
    BY <2>2 DEF Stops
  <2>4. /\ h * GroupWidth + l \in 0 .. t.cap - 1
        /\ t.ctrl[Along(t, k, h * GroupWidth + l)] = Empty
    BY <1>1, <2>1, <2>3, Windows
  <2>5. h * GroupWidth + l < g * GroupWidth + j
    BY <2>1, TilesApart
  <2> DEFINE e == h * GroupWidth + l
  <2> HIDE DEF e
  <2>6. e \in 0 .. d - 1
    BY <1>3, <1>4, <2>4, <2>5 DEF e
  <2> QED
    BY <1>3, <2>4, <2>6 DEF Passes, e
<1>11. Stops(t, k) \in SUBSET Int
  BY GroupsAre DEF Stops
<1>12. Min(Stops(t, k)) = g
  BY <1>9, <1>10, <1>11, MinIs
<1>13. Min({j}) = j
  BY LanesAre, MinIs
<1>14. \A e \in 0 .. t.cap - 1 : Along(t, k, e) = i => Passes(t, k, e)
  BY <1>1, <1>3, AlongOnce
<1> QED
  BY <1>3, <1>4, <1>8, <1>9, <1>12, <1>13, <1>14

\* The probe for a key that is not there ends at an empty byte.
LEMMA ProbeMisses ==
  ASSUME NEW t, Mirrored(t), Tagged(t), NEW k \in Key, \A i : ~HoldsAt(t, k, i),
         NEW i \in 0 .. t.cap - 1, t.ctrl[i] = Empty
  PROVE  Stops(t, k) # {} /\ \A g \in Group(t) : Hits(t, k, g) = {}
<1>1. t.cap \in Capacities
  BY DEF Mirrored
<1>2. PICK d \in 0 .. t.cap - 1 : Along(t, k, d) = i
  BY <1>1, AlongEvery
<1>3. PICK g \in Group(t), j \in Lane(GroupWidth) : ByteAt(t, k, g, j) = t.ctrl[Along(t, k, d)]
  BY SeenBy
<1>4. g \in Stops(t, k)
  BY <1>2, <1>3 DEF Stops
<1>5. \A h \in Group(t) : Hits(t, k, h) = {}
  <2> SUFFICES ASSUME NEW h \in Group(t), NEW l \in Hits(t, k, h) PROVE FALSE
    OBVIOUS
  <2>1. l \in Lane(GroupWidth)
    BY DEF Hits
  <2> QED
    BY <2>1, HitsAre
<1> QED
  BY <1>4, <1>5

\* find_first_empty takes the first slot of the probe that is not full.
LEMMA FirstFreeIs ==
  ASSUME NEW t, Mirrored(t), NEW k \in Key, NEW i \in 0 .. t.cap - 1, ~IsFull(t.ctrl[i])
  PROVE  \E d \in 0 .. t.cap - 1 :
           /\ FirstFree(t, k) = Along(t, k, d) /\ ~IsFull(t.ctrl[Along(t, k, d)])
           /\ \A e \in 0 .. d - 1 : IsFull(t.ctrl[Along(t, k, e)])
<1>1. t.cap \in Capacities
  BY DEF Mirrored
<1> DEFINE S == {h \in Group(t) : Free(t, k, h) # {}}
           f == Min(S)
           l == Min(Free(t, k, f))
           d == f * GroupWidth + l
<1>2. S # {}
  <2>1. PICK x \in 0 .. t.cap - 1 : Along(t, k, x) = i
    BY <1>1, AlongEvery
  <2>2. PICK g \in Group(t), j \in Lane(GroupWidth) : ByteAt(t, k, g, j) = t.ctrl[Along(t, k, x)]
    BY SeenBy
  <2>3. j \in Free(t, k, g)
    BY <2>1, <2>2 DEF Free, IsFull
  <2> QED
    BY <2>3
<1>3. f \in S /\ \A h \in S : f <= h
  <2>1. S \in SUBSET Nat
    BY GroupsAre
  <2> HIDE DEF S
  <2> QED
    BY <1>2, <2>1, MinOf
<1>4. f \in Group(t) /\ Free(t, k, f) # {} /\ \A h \in Group(t) : h < f => Free(t, k, h) = {}
  <2>1. ASSUME NEW h \in Group(t), h < f, Free(t, k, h) # {} PROVE FALSE
    <3>1. h \in Nat /\ f \in Nat /\ f <= h
      BY <1>3, <2>1, GroupsAre
    <3> QED
      BY <2>1, <3>1
  <2> QED
    BY <1>3, <2>1
<1> HIDE DEF f
<1>5. l \in Free(t, k, f) /\ \A j \in Free(t, k, f) : l <= j
  <2>1. Free(t, k, f) \in SUBSET Nat
    BY LanesAre DEF Free
  <2> QED
    BY <1>4, <2>1, MinOf
<1>6. l \in Lane(GroupWidth) /\ l \in Nat /\ f \in Nat
  BY <1>4, <1>5, LanesAre, GroupsAre DEF Free
<1> HIDE DEF l
<1>7. d \in 0 .. t.cap - 1 /\ Slot(t, k, f, l) = Along(t, k, d) /\ ByteAt(t, k, f, l) = t.ctrl[Along(t, k, d)]
  BY <1>4, <1>6, Windows
<1>8. ~IsFull(t.ctrl[Along(t, k, d)])
  BY <1>5, <1>7 DEF Free, IsFull
<1>9. FirstFree(t, k) = Along(t, k, d)
  BY <1>7 DEF FirstFree, f, l
<1>10. ASSUME NEW e \in 0 .. d - 1 PROVE IsFull(t.ctrl[Along(t, k, e)])
  <2>1. e \in 0 .. t.cap - 1 /\ e < d
    BY <1>7, <1>1, CapacityIs
  <2>2. PICK h \in Group(t), j \in Lane(GroupWidth) :
          h * GroupWidth + j = e /\ ByteAt(t, k, h, j) = t.ctrl[Along(t, k, e)]
    BY <2>1, SeenBy
  <2>3. h \in Nat /\ j \in Nat
    BY LanesAre, GroupsAre
  <2>4. h < f \/ (h = f /\ j < l)
    <3>1. ~(f < h)
      BY <1>6, <2>1, <2>2, <2>3, TilesApart, <1>1, CapacityIs, <1>7
    <3>2. h = f => j < l
      <4> HIDE DEF d
      <4> SUFFICES ASSUME h = f, ~(j < l) PROVE FALSE
        OBVIOUS
      <4>1. e = f * GroupWidth + j
        BY <2>2
      <4>2. f * GroupWidth \in Nat
        BY <1>6, Widths
      <4>3. d = f * GroupWidth + l
        BY DEF d
      <4> DEFINE x == f * GroupWidth
      <4> HIDE DEF x
      <4>4. e = x + j /\ d = x + l /\ x \in Nat
        BY <4>1, <4>2, <4>3 DEF x
      <4> QED
        BY <1>6, <2>1, <2>3, <4>4
    <3> QED
      BY <1>6, <2>3, <3>1, <3>2
  <2>5. j \notin Free(t, k, h)
    <3>1. CASE h < f
      BY <1>4, <3>1
    <3>2. CASE h = f /\ j < l
      <4>1. ~(l <= j)
        BY <1>6, <2>3, <3>2
      <4> QED
        BY <1>5, <3>2, <4>1
    <3> QED
      BY <2>4, <3>1, <3>2
  <2> QED
    BY <2>2, <2>5 DEF Free, IsFull
<1> QED
  BY <1>7, <1>8, <1>9, <1>10

-----------------------------------------------------------------------------
\* The record, with arrays of the right length.
Shape(t) ==
  /\ t = [ctrl |-> t.ctrl, slots |-> t.slots, size |-> t.size, growth |-> t.growth, cap |-> t.cap]
  /\ DOMAIN t.ctrl = 0 .. t.cap + GroupWidth - 1
  /\ t.slots \in [0 .. t.cap - 1 -> (Key \X Value) \cup {Raw}]

\* Entries, tombstones and budget make up the load limit.
Counted(t) ==
  /\ t.size = Cardinality(Full(t)) /\ t.growth \in Nat
  /\ t.size + t.growth + Cardinality(Tombstones(t)) = GrowthFor(t.cap)

Works(t) == Shape(t) /\ Laid(t) /\ Counted(t)
Sound(t) == t = NoTable \/ Works(t)

\* What the table holds.
Entries(t) == {t.slots[i] : i \in Full(t)}
Absent(t, k) == \A i : ~HoldsAt(t, k, i)

-----------------------------------------------------------------------------
(* One byte and one slot. *)

LEMMA WithByteIs ==
  ASSUME NEW t, Mirrored(t), DOMAIN t.ctrl = 0 .. t.cap + GroupWidth - 1, NEW i \in 0 .. t.cap - 1, NEW b
  PROVE  LET c == WithByte(t, i, b) IN
         /\ DOMAIN c = 0 .. t.cap + GroupWidth - 1
         /\ c[i] = b
         /\ \A j \in 0 .. t.cap - 1 : j # i => c[j] = t.ctrl[j]
         /\ \A j \in Lane(GroupWidth) : c[t.cap + j] = c[j]
<1> DEFINE c == WithByte(t, i, b)
<1>1. t.cap \in Nat /\ GroupWidth \in Nat /\ GroupWidth <= t.cap
  BY CapacityIs, Widths DEF Mirrored
<1>2. /\ DOMAIN c = 0 .. t.cap + GroupWidth - 1
      /\ \A j \in 0 .. t.cap + GroupWidth - 1 :
           c[j] = (IF j = i \/ (i < GroupWidth /\ j = t.cap + i) THEN b ELSE t.ctrl[j])
  BY DEF WithByte
<1> HIDE DEF c
<1>3. i \in 0 .. t.cap + GroupWidth - 1 /\ c[i] = b
  BY <1>1, <1>2
<1>4. \A j \in 0 .. t.cap - 1 : j # i => c[j] = t.ctrl[j]
  BY <1>1, <1>2
<1>5. ASSUME NEW j \in Lane(GroupWidth) PROVE c[t.cap + j] = c[j]
  <2>1. /\ j \in 0 .. t.cap + GroupWidth - 1 /\ t.cap + j \in 0 .. t.cap + GroupWidth - 1
        /\ j \in Nat /\ j < GroupWidth
    BY <1>1 DEF Lane
  <2>2. c[t.cap + j] = (IF t.cap + j = i \/ (i < GroupWidth /\ t.cap + j = t.cap + i) THEN b ELSE t.ctrl[t.cap + j])
    BY <1>2, <2>1
  <2>3. c[j] = (IF j = i \/ (i < GroupWidth /\ j = t.cap + i) THEN b ELSE t.ctrl[j])
    BY <1>2, <2>1
  <2>4. t.ctrl[t.cap + j] = t.ctrl[j]
    BY DEF Mirrored
  <2>5. t.cap + j # i /\ (t.cap + j = t.cap + i <=> j = i) /\ (j = i => i < GroupWidth) /\ j # t.cap + i
    BY <1>1, <2>1
  <2> QED
    BY <2>2, <2>3, <2>4, <2>5
<1> QED
  BY <1>2, <1>3, <1>4, <1>5 DEF c

LEMMA SlotsFinite ==
  ASSUME NEW t, t.cap \in Nat
  PROVE  /\ IsFiniteSet(Full(t)) /\ IsFiniteSet(Tombstones(t)) /\ Full(t) \cap Tombstones(t) = {}
         /\ Cardinality(Full(t)) \in Nat /\ Cardinality(Tombstones(t)) \in Nat
<1>1. IsFiniteSet(0 .. t.cap - 1)
  BY FS_Interval
<1>2. Full(t) \subseteq 0 .. t.cap - 1 /\ Tombstones(t) \subseteq 0 .. t.cap - 1
  BY DEF Full, Tombstones
<1>3. Full(t) \cap Tombstones(t) = {}
  BY DEF Full, Tombstones, IsFull
<1>4. IsFiniteSet(Full(t)) /\ IsFiniteSet(Tombstones(t))
  BY <1>1, <1>2, FS_Subset
<1> QED
  BY <1>3, <1>4, FS_CardinalityType

\* An empty byte always remains to end a probe.
LEMMA EmptyRemains ==
  ASSUME NEW t, Works(t)
  PROVE  \E i \in 0 .. t.cap - 1 : t.ctrl[i] = Empty
<1>1. t.cap \in Capacities /\ t.cap \in Nat
  BY CapacityIs DEF Works, Laid, Mirrored
<1> DEFINE I == 0 .. t.cap - 1  U == Full(t) \cup Tombstones(t)
<1>2. Cardinality(U) = Cardinality(Full(t)) + Cardinality(Tombstones(t))
  BY <1>1, SlotsFinite, FS_Union, FS_EmptySet
<1>3. Cardinality(U) < t.cap
  <2>1. GrowthFor(t.cap) \in Nat /\ GrowthFor(t.cap) < t.cap
    BY <1>1, Limit
  <2>2. Cardinality(Full(t)) + t.growth + Cardinality(Tombstones(t)) = GrowthFor(t.cap) /\ t.growth \in Nat
    BY DEF Works, Counted
  <2> QED
    BY <1>1, <1>2, <2>1, <2>2, SlotsFinite
<1>4. Cardinality(I) = t.cap
  BY <1>1, FS_Interval
<1>5. PICK i \in I : i \notin U
  <2>1. CASE I \subseteq U
    <3>1. IsFiniteSet(U)
      BY <1>1, SlotsFinite, FS_Union
    <3>2. Cardinality(I) <= Cardinality(U)
      BY <2>1, <3>1, FS_Subset
    <3> QED
      BY <1>1, <1>3, <1>4, <3>1, <3>2, FS_CardinalityType
  <2> QED
    BY <2>1
<1>6. t.ctrl[i] = Empty
  BY <1>5 DEF Full, Tombstones, IsFull
<1> QED
  BY <1>6

LEMMA PutIs ==
  ASSUME NEW t, Shape(t), NEW i, NEW k, NEW v
  PROVE  Put(t, i, k, v) = [ctrl |-> WithByte(t, i, Tag[k]), slots |-> [t.slots EXCEPT ![i] = <<k, v>>],
                            size |-> t.size + 1, growth |-> Budget(t, i), cap |-> t.cap]
<1> DEFINE a == t.ctrl  s == t.slots  n == t.size  g == t.growth  c == t.cap
           w == WithByte(t, i, Tag[k])  b == Budget(t, i)
<1>1. t = [ctrl |-> a, slots |-> s, size |-> n, growth |-> g, cap |-> c]
  BY DEF Shape
<1>2. Put(t, i, k, v) = [t EXCEPT !.ctrl = w, !.slots[i] = <<k, v>>, !.size = @ + 1, !.growth = b]
  BY DEF Put
<1> HIDE DEF w, b, a, s, n, g, c
<1>3. Put(t, i, k, v) = [ctrl |-> w, slots |-> [s EXCEPT ![i] = <<k, v>>], size |-> n + 1, growth |-> b, cap |-> c]
  BY <1>1, <1>2
<1> QED
  BY <1>3 DEF w, b, a, s, n, g, c

LEMMA ErasedFields ==
  ASSUME NEW t, Shape(t), NEW i
  PROVE  LET p == Erased(t, i)  b == ErasedByte(t, i) IN
         /\ p = [ctrl |-> p.ctrl, slots |-> p.slots, size |-> p.size, growth |-> p.growth, cap |-> p.cap]
         /\ p.ctrl = WithByte(t, i, b) /\ p.slots = [t.slots EXCEPT ![i] = Raw]
         /\ p.size = t.size - 1 /\ p.growth = (IF b = Empty THEN t.growth + 1 ELSE t.growth) /\ p.cap = t.cap
<1> DEFINE a == t.ctrl  s == t.slots  n == t.size  g == t.growth  c == t.cap
           b == ErasedByte(t, i)  w == WithByte(t, i, b)
<1>1. t = [ctrl |-> a, slots |-> s, size |-> n, growth |-> g, cap |-> c]
  BY DEF Shape
<1>2. Erased(t, i) = [t EXCEPT !.ctrl = w, !.slots[i] = Raw, !.size = @ - 1,
                               !.growth = IF b = Empty THEN @ + 1 ELSE @]
  BY DEF Erased
<1> HIDE DEF w, b, a, s, n, g, c
<1>3. Erased(t, i) = [ctrl |-> w, slots |-> [s EXCEPT ![i] = Raw], size |-> n - 1,
                      growth |-> IF b = Empty THEN g + 1 ELSE g, cap |-> c]
  BY <1>1, <1>2
<1> QED
  BY <1>3 DEF w, b, a, s, n, g, c

-----------------------------------------------------------------------------
(* An entry is put in, taken out, assigned. *)

LEMMA AlongSame == ASSUME NEW t, NEW p, p.cap = t.cap PROVE \A k, d : Along(p, k, d) = Along(t, k, d)
BY DEF Along

\* Put in a free slot that the probe for its key comes to before any empty byte.
LEMMA PutLaid ==
  ASSUME NEW t, Shape(t), Laid(t), NEW k \in Key, NEW v \in Value, Absent(t, k),
         NEW d \in 0 .. t.cap - 1, ~IsFull(t.ctrl[Along(t, k, d)]), Passes(t, k, d)
  PROVE  LET i == Along(t, k, d)  p == Put(t, i, k, v) IN
         /\ i \in 0 .. t.cap - 1 /\ i \notin Full(t)
         /\ Shape(p) /\ Laid(p)
         /\ Full(p) = Full(t) \cup {i} /\ Tombstones(p) = Tombstones(t) \ {i}
         /\ Entries(p) = Entries(t) \cup {<<k, v>>}
<1> DEFINE i == Along(t, k, d)  p == Put(t, i, k, v)
<1>1. t.cap \in Capacities /\ t.cap \in Nat /\ Mirrored(t) /\ Tagged(t) /\ Single(t) /\ Reached(t)
  BY CapacityIs DEF Laid, Mirrored
<1>2. i \in 0 .. t.cap - 1
  BY <1>1, AlongIs
<1>3. i \notin Full(t)
  BY DEF Full
<1>4. Tag[k] # Empty /\ Tag[k] # Deleted /\ IsFull(Tag[k])
  BY BytesDistinct DEF IsFull
<1>5. /\ p = [ctrl |-> p.ctrl, slots |-> p.slots, size |-> p.size, growth |-> p.growth, cap |-> p.cap]
      /\ p.ctrl = WithByte(t, i, Tag[k]) /\ p.slots = [t.slots EXCEPT ![i] = <<k, v>>] /\ p.cap = t.cap
  <2>1. p = [ctrl |-> WithByte(t, i, Tag[k]), slots |-> [t.slots EXCEPT ![i] = <<k, v>>],
             size |-> t.size + 1, growth |-> Budget(t, i), cap |-> t.cap]
    BY PutIs
  <2> HIDE DEF i, p
  <2> QED
    BY <2>1
<1> HIDE DEF i, p
<1>6. /\ DOMAIN p.ctrl = 0 .. t.cap + GroupWidth - 1 /\ p.ctrl[i] = Tag[k]
      /\ \A j \in 0 .. t.cap - 1 : j # i => p.ctrl[j] = t.ctrl[j]
      /\ \A j \in Lane(GroupWidth) : p.ctrl[t.cap + j] = p.ctrl[j]
  BY <1>1, <1>2, <1>5, WithByteIs DEF Shape
<1>7. /\ p.slots \in [0 .. t.cap - 1 -> (Key \X Value) \cup {Raw}] /\ p.slots[i] = <<k, v>>
      /\ \A j \in 0 .. t.cap - 1 : j # i => p.slots[j] = t.slots[j]
      /\ <<k, v>> \in Key \X Value /\ <<k, v>>[1] = k
  <2> DEFINE E == (Key \X Value) \cup {Raw}  e == <<k, v>>
  <2>1. t.slots \in [0 .. t.cap - 1 -> E] /\ e \in E
    BY DEF Shape
  <2> HIDE DEF E, e
  <2>2. /\ [t.slots EXCEPT ![i] = e] \in [0 .. t.cap - 1 -> E] /\ [t.slots EXCEPT ![i] = e][i] = e
        /\ \A j \in 0 .. t.cap - 1 : j # i => [t.slots EXCEPT ![i] = e][j] = t.slots[j]
    BY <1>2, <2>1
  <2>3. e \in Key \X Value /\ e[1] = k
    BY DEF e
  <2> QED
    BY <1>5, <2>2, <2>3 DEF E, e
<1>8. Shape(p)
  BY <1>5, <1>6, <1>7 DEF Shape
<1>9. Full(p) = Full(t) \cup {i}
  BY <1>2, <1>4, <1>5, <1>6 DEF Full
<1>10. Tombstones(p) = Tombstones(t) \ {i}
  BY <1>2, <1>4, <1>5, <1>6 DEF Tombstones
<1>11. \A j \in Full(t) : j # i /\ p.slots[j] = t.slots[j] /\ p.ctrl[j] = t.ctrl[j]
  BY <1>3, <1>6, <1>7 DEF Full
<1>12. Entries(p) = Entries(t) \cup {<<k, v>>}
  BY <1>7, <1>9, <1>11 DEF Entries
<1>13. Mirrored(p)
  BY <1>1, <1>5, <1>6 DEF Mirrored
<1>14. Tagged(p)
  <2> SUFFICES ASSUME NEW j \in 0 .. t.cap - 1
               PROVE  IF IsFull(p.ctrl[j])
                        THEN p.slots[j] \in Key \X Value /\ p.ctrl[j] = Tag[p.slots[j][1]]
                        ELSE p.slots[j] = Raw
    BY <1>5 DEF Tagged
  <2>1. CASE j = i
    <3>1. p.slots[j] \in Key \X Value /\ p.slots[j][1] = k /\ p.ctrl[j] = Tag[k]
      BY <1>6, <1>7, <2>1
    <3> QED
      BY <1>4, <3>1
  <2>2. CASE j # i
    BY <1>1, <1>6, <1>7, <2>2 DEF Tagged
  <2> QED
    BY <2>1, <2>2
<1>15. \A j \in Full(t) : t.slots[j][1] # k
  BY DEF Absent, HoldsAt
<1>16. Single(p)
  <2> SUFFICES ASSUME NEW x \in Full(p), NEW y \in Full(p), p.slots[x][1] = p.slots[y][1] PROVE x = y
    BY DEF Single
  <2>1. CASE x \in Full(t) /\ y \in Full(t)
    BY <1>1, <1>11, <2>1 DEF Single
  <2>2. CASE x = i /\ y \in Full(t)
    BY <1>7, <1>11, <1>15, <2>2
  <2>3. CASE x \in Full(t) /\ y = i
    BY <1>7, <1>11, <1>15, <2>3
  <2> QED
    BY <1>9, <2>1, <2>2, <2>3
<1>17. \A m \in Key, e \in 0 .. t.cap - 1 : Passes(t, m, e) => Passes(p, m, e)
  <2> SUFFICES ASSUME NEW m \in Key, NEW e \in 0 .. t.cap - 1, Passes(t, m, e), NEW x \in 0 .. e - 1
               PROVE  p.ctrl[Along(p, m, x)] # Empty
    BY DEF Passes
  <2>1. x \in 0 .. t.cap - 1
    BY <1>1
  <2>2. Along(p, m, x) = Along(t, m, x) /\ Along(t, m, x) \in 0 .. t.cap - 1
    BY <1>1, <1>5, <2>1, AlongSame, AlongIs
  <2>3. t.ctrl[Along(t, m, x)] # Empty
    BY DEF Passes
  <2> QED
    BY <1>4, <1>6, <2>2, <2>3
<1>18. Reached(p)
  <2> SUFFICES ASSUME NEW x \in Full(p)
               PROVE  \E e \in 0 .. t.cap - 1 : Along(p, p.slots[x][1], e) = x /\ Passes(p, p.slots[x][1], e)
    BY <1>5 DEF Reached
  <2>1. CASE x = i
    <3>1. Along(p, k, d) = i
      BY <1>5, AlongSame DEF i
    <3>2. p.slots[x][1] = k
      BY <1>7, <2>1
    <3> QED
      BY <1>17, <2>1, <3>1, <3>2
  <2>2. CASE x \in Full(t)
    <3>1. PICK e \in 0 .. t.cap - 1 : Along(t, t.slots[x][1], e) = x /\ Passes(t, t.slots[x][1], e)
      BY <1>1, <2>2 DEF Reached
    <3>2. t.slots[x][1] \in Key
      BY <1>1, <2>2, FullHolds
    <3> QED
      BY <1>5, <1>11, <1>17, <2>2, <3>1, <3>2, AlongSame
  <2> QED
    BY <1>9, <2>1, <2>2
<1> QED
  BY <1>2, <1>3, <1>8, <1>9, <1>10, <1>12, <1>13, <1>14, <1>16, <1>18 DEF Laid, i, p

\* The budget pays for a slot that was empty; a tombstone was paid for.
LEMMA PutCounted ==
  ASSUME NEW t, Works(t), NEW k \in Key, NEW v \in Value, Absent(t, k), t.growth > 0,
         NEW d \in 0 .. t.cap - 1, ~IsFull(t.ctrl[Along(t, k, d)]), Passes(t, k, d)
  PROVE  LET i == Along(t, k, d)  p == Put(t, i, k, v) IN
         /\ Works(p) /\ p.cap = t.cap /\ p.size = t.size + 1
         /\ Full(p) = Full(t) \cup {i} /\ Tombstones(p) = Tombstones(t) \ {i}
         /\ Entries(p) = Entries(t) \cup {<<k, v>>}
<1> DEFINE i == Along(t, k, d)  p == Put(t, i, k, v)
<1>1. Shape(t) /\ Laid(t) /\ Counted(t)
  BY DEF Works
<1>2. /\ i \in 0 .. t.cap - 1 /\ i \notin Full(t)
      /\ Shape(p) /\ Laid(p)
      /\ Full(p) = Full(t) \cup {i} /\ Tombstones(p) = Tombstones(t) \ {i}
      /\ Entries(p) = Entries(t) \cup {<<k, v>>}
  BY <1>1, PutLaid
<1>3. p.size = t.size + 1 /\ p.growth = Budget(t, i) /\ p.cap = t.cap
  <2>1. p = [ctrl |-> WithByte(t, i, Tag[k]), slots |-> [t.slots EXCEPT ![i] = <<k, v>>],
             size |-> t.size + 1, growth |-> Budget(t, i), cap |-> t.cap]
    BY <1>1, PutIs
  <2> HIDE DEF i, p
  <2> QED
    BY <2>1
<1>4. t.cap \in Nat
  BY <1>1, CapacityIs DEF Laid, Mirrored
<1> HIDE DEF i, p
<1>5. Cardinality(Full(p)) = Cardinality(Full(t)) + 1
  BY <1>2, <1>4, SlotsFinite, FS_AddElement
<1>6. CASE t.ctrl[i] = Deleted
  <2>1. i \in Tombstones(t)
    BY <1>2, <1>6 DEF Tombstones
  <2>2. Cardinality(Tombstones(p)) = Cardinality(Tombstones(t)) - 1
    BY <1>2, <1>4, <2>1, SlotsFinite, FS_RemoveElement
  <2>3. p.growth = t.growth
    BY <1>3, <1>6 DEF Budget
  <2>4. Counted(p)
    BY <1>1, <1>3, <1>4, <1>5, <2>2, <2>3, SlotsFinite DEF Counted
  <2> QED
    BY <1>2, <1>3, <2>4 DEF Works, i, p
<1>7. CASE t.ctrl[i] # Deleted
  <2>1. Tombstones(p) = Tombstones(t)
    BY <1>2, <1>7 DEF Tombstones
  <2>2. p.growth = t.growth - 1
    BY <1>3, <1>7 DEF Budget
  <2>3. Counted(p)
    BY <1>1, <1>3, <1>4, <1>5, <2>1, <2>2, SlotsFinite DEF Counted
  <2> QED
    BY <1>2, <1>3, <2>3 DEF Works, i, p
<1> QED
  BY <1>6, <1>7

\* A byte is marked empty only before an empty one: no probe that passed over it went further.
LEMMA ErasedWorks ==
  ASSUME NEW t, Works(t), NEW i \in Full(t)
  PROVE  LET p == Erased(t, i) IN
         Works(p) /\ Entries(p) = Entries(t) \ {t.slots[i]} /\ p.cap = t.cap /\ Full(p) = Full(t) \ {i}
         /\ \A j \in Full(p) : p.slots[j] = t.slots[j]
<1> DEFINE p == Erased(t, i)  b == ErasedByte(t, i)
<1>1. Shape(t) /\ Laid(t) /\ Counted(t) /\ t.cap \in Capacities /\ t.cap \in Nat
      /\ Mirrored(t) /\ Tagged(t) /\ Single(t) /\ Reached(t)
  BY CapacityIs DEF Works, Laid, Mirrored
<1>2. i \in 0 .. t.cap - 1 /\ IsFull(t.ctrl[i])
  BY DEF Full
<1>3. b \in {Empty, Deleted} /\ ~IsFull(b) /\ (b = Empty => t.ctrl[(i + 1) % t.cap] = Empty)
  BY BytesDistinct DEF ErasedByte, IsFull
<1>4. /\ p = [ctrl |-> p.ctrl, slots |-> p.slots, size |-> p.size, growth |-> p.growth, cap |-> p.cap]
      /\ p.ctrl = WithByte(t, i, b) /\ p.slots = [t.slots EXCEPT ![i] = Raw]
      /\ p.size = t.size - 1 /\ p.growth = (IF b = Empty THEN t.growth + 1 ELSE t.growth) /\ p.cap = t.cap
  BY <1>1, ErasedFields
<1> HIDE DEF p, b
<1>5. /\ DOMAIN p.ctrl = 0 .. t.cap + GroupWidth - 1 /\ p.ctrl[i] = b
      /\ \A j \in 0 .. t.cap - 1 : j # i => p.ctrl[j] = t.ctrl[j]
      /\ \A j \in Lane(GroupWidth) : p.ctrl[t.cap + j] = p.ctrl[j]
  BY <1>1, <1>2, <1>4, WithByteIs DEF Shape
<1>6. /\ p.slots \in [0 .. t.cap - 1 -> (Key \X Value) \cup {Raw}] /\ p.slots[i] = Raw
      /\ \A j \in 0 .. t.cap - 1 : j # i => p.slots[j] = t.slots[j]
  BY <1>1, <1>2, <1>4 DEF Shape
<1>7. Shape(p)
  BY <1>4, <1>5, <1>6 DEF Shape
<1>8. Full(p) = Full(t) \ {i}
  BY <1>2, <1>3, <1>4, <1>5 DEF Full
<1>9. \A j \in Full(p) : j \in Full(t) /\ j # i /\ p.slots[j] = t.slots[j] /\ p.ctrl[j] = t.ctrl[j]
  BY <1>5, <1>6, <1>8 DEF Full
<1>10. Entries(p) = Entries(t) \ {t.slots[i]}
  <2>1. \A j \in Full(t) : t.slots[j] = t.slots[i] => j = i
    BY <1>1 DEF Single
  <2> QED
    BY <1>8, <1>9, <2>1 DEF Entries
<1>11. Mirrored(p)
  BY <1>1, <1>4, <1>5 DEF Mirrored
<1>12. Tagged(p)
  <2> SUFFICES ASSUME NEW j \in 0 .. t.cap - 1
               PROVE  IF IsFull(p.ctrl[j])
                        THEN p.slots[j] \in Key \X Value /\ p.ctrl[j] = Tag[p.slots[j][1]]
                        ELSE p.slots[j] = Raw
    BY <1>4 DEF Tagged
  <2>1. CASE j = i
    BY <1>3, <1>5, <1>6, <2>1
  <2>2. CASE j # i
    BY <1>1, <1>5, <1>6, <2>2 DEF Tagged
  <2> QED
    BY <2>1, <2>2
<1>13. Single(p)
  BY <1>1, <1>9 DEF Single
<1>14. ASSUME NEW x \in Full(t), x # i, NEW e \in 0 .. t.cap - 1,
              Along(t, t.slots[x][1], e) = x, Passes(t, t.slots[x][1], e)
       PROVE  Passes(p, t.slots[x][1], e)
  <2> DEFINE k == t.slots[x][1]
  <2>1. k \in Key
    BY <1>1, FullHolds
  <2> HIDE DEF k
  <2>2. ASSUME NEW y \in 0 .. e - 1 PROVE p.ctrl[Along(p, k, y)] # Empty
    <3>1. y \in 0 .. t.cap - 1 /\ y + 1 \in 0 .. t.cap - 1 /\ (y + 1 = e \/ y + 1 \in 0 .. e - 1)
      BY <1>1
    <3>2. Along(p, k, y) = Along(t, k, y) /\ Along(t, k, y) \in 0 .. t.cap - 1
      BY <1>1, <1>4, <2>1, <3>1, AlongSame, AlongIs
    <3>3. t.ctrl[Along(t, k, y)] # Empty
      BY <1>14 DEF Passes, k
    <3>4. CASE Along(t, k, y) # i
      BY <1>5, <3>2, <3>3, <3>4
    <3>5. CASE Along(t, k, y) = i
      <4>1. Along(t, k, y + 1) = (i + 1) % t.cap
        BY <1>1, <2>1, <3>1, <3>5, AlongNext
      <4>2. t.ctrl[Along(t, k, y + 1)] # Empty
        <5>1. CASE y + 1 = e
          <6>1. Along(t, k, e) = x
            BY <1>14 DEF k
          <6>2. t.ctrl[x] # Empty
            BY <1>14 DEF Full, IsFull
          <6> QED
            BY <5>1, <6>1, <6>2
        <5>2. CASE y + 1 \in 0 .. e - 1
          BY <1>14, <5>2 DEF Passes, k
        <5> QED
          BY <3>1, <5>1, <5>2
      <4>3. b # Empty
        BY <1>3, <4>1, <4>2
      <4> QED
        BY <1>5, <3>2, <3>5, <4>3
    <3> QED
      BY <3>4, <3>5
  <2> QED
    BY <2>2 DEF Passes, k
<1>15. Reached(p)
  <2> SUFFICES ASSUME NEW x \in Full(p)
               PROVE  \E e \in 0 .. t.cap - 1 : Along(p, p.slots[x][1], e) = x /\ Passes(p, p.slots[x][1], e)
    BY <1>4 DEF Reached
  <2>1. x \in Full(t) /\ x # i /\ p.slots[x] = t.slots[x]
    BY <1>9
  <2>2. PICK e \in 0 .. t.cap - 1 : Along(t, t.slots[x][1], e) = x /\ Passes(t, t.slots[x][1], e)
    BY <1>1, <2>1 DEF Reached
  <2> QED
    BY <1>4, <1>14, <2>1, <2>2, AlongSame
<1>16. Counted(p)
  <2>1. Cardinality(Full(p)) = Cardinality(Full(t)) - 1
    BY <1>1, <1>8, SlotsFinite, FS_RemoveElement
  <2>2. CASE b = Empty
    <3>1. Tombstones(p) = Tombstones(t)
      BY <1>2, <1>4, <1>5, <2>2, BytesDistinct DEF Tombstones, IsFull
    <3> QED
      BY <1>1, <1>4, <2>1, <2>2, <3>1, SlotsFinite DEF Counted
  <2>3. CASE b # Empty
    <3>1. Tombstones(p) = Tombstones(t) \cup {i} /\ i \notin Tombstones(t)
      BY <1>2, <1>3, <1>4, <1>5, <2>3, BytesDistinct DEF Tombstones, IsFull
    <3>2. Cardinality(Tombstones(p)) = Cardinality(Tombstones(t)) + 1
      BY <1>1, <3>1, SlotsFinite, FS_AddElement
    <3> QED
      BY <1>1, <1>4, <2>1, <2>3, <3>2, SlotsFinite DEF Counted
  <2> QED
    BY <2>2, <2>3
<1> QED
  BY <1>4, <1>7, <1>8, <1>9, <1>10, <1>11, <1>12, <1>13, <1>15, <1>16 DEF Works, Laid, p

-----------------------------------------------------------------------------
(* Where an insertion goes; a fresh table; an assigned value. *)

LEMMA FirstByte ==
  ASSUME NEW t, Mirrored(t), NEW k \in Key
  PROVE  /\ 0 \in 0 .. t.cap - 1 /\ Start(t, k, 0) = Along(t, k, 0)
         /\ ByteAt(t, k, 0, 0) = t.ctrl[Along(t, k, 0)]
<1>1. t.cap \in Nat /\ t.cap >= 2 /\ GroupWidth \in Nat /\ GroupWidth >= 1
  BY CapacityIs, Widths DEF Mirrored
<1>2. 0 \in 0 .. t.cap - 1
  BY <1>1
<1>3. 0 \in Group(t) /\ 0 \in Lane(GroupWidth)
  <2>1. 0 \div GroupWidth = 0 /\ 0 % GroupWidth = 0
    BY Widths
  <2> QED
    BY <1>2, <2>1, GroupIs, Tiles DEF Mirrored
<1>4. 0 * GroupWidth + 0 = 0 /\ 0 * GroupWidth = 0
  BY <1>1
<1>5. ByteAt(t, k, 0, 0) = t.ctrl[Along(t, k, 0)]
  <2>1. ByteAt(t, k, 0, 0) = t.ctrl[Along(t, k, 0 * GroupWidth + 0)]
    BY <1>3, Windows
  <2> QED
    BY <1>4, <2>1
<1>6. Start(t, k, 0) = Along(t, k, 0)
  BY <1>4 DEF Start, Along
<1> QED
  BY <1>2, <1>5, <1>6

\* The slot of a key that is there is found, past every tombstone on its way.
LEMMA InsertFinds ==
  ASSUME NEW t, Laid(t), NEW k \in Key, NEW i, HoldsAt(t, k, i)
  PROVE  SlotForInsert(t, k) = i
<1>1. t.cap \in Capacities /\ t.cap \in Nat /\ Mirrored(t) /\ Tagged(t)
  BY CapacityIs DEF Laid, Mirrored
<1>2. i \in 0 .. t.cap - 1 /\ IsFull(t.ctrl[i])
  BY DEF HoldsAt, Full
<1>3. PICK d \in 0 .. t.cap - 1 : Along(t, k, d) = i
  BY <1>1, <1>2, AlongEvery
<1>4. Passes(t, k, d)
  BY <1>3, ProbeFinds
<1>5. ByteAt(t, k, 0, 0) # Empty
  <2>1. CASE d = 0
    BY <1>1, <1>2, <1>3, <2>1, FirstByte DEF IsFull
  <2>2. CASE d # 0
    <3>1. 0 \in 0 .. d - 1
      BY <1>1, <1>3, <2>2
    <3> QED
      BY <1>1, <1>4, <3>1, FirstByte DEF Passes
  <2> QED
    BY <2>1, <2>2
<1> QED
  BY <1>5, ProbeFinds DEF SlotForInsert

\* A key that is not there gets a free slot that a probe for it comes to.
LEMMA InsertFree ==
  ASSUME NEW t, Works(t), NEW k \in Key, Absent(t, k)
  PROVE  \E d \in 0 .. t.cap - 1 :
           /\ SlotForInsert(t, k) = Along(t, k, d) /\ ~IsFull(t.ctrl[Along(t, k, d)])
           /\ Passes(t, k, d)
<1>1. t.cap \in Capacities /\ t.cap \in Nat /\ Mirrored(t) /\ Tagged(t)
  BY CapacityIs DEF Works, Laid, Mirrored
<1>2. PICK i \in 0 .. t.cap - 1 : t.ctrl[i] = Empty
  BY EmptyRemains
<1>3. CASE ByteAt(t, k, 0, 0) = Empty
  <2>1. SlotForInsert(t, k) = Along(t, k, 0) /\ t.ctrl[Along(t, k, 0)] = Empty /\ 0 \in 0 .. t.cap - 1
    BY <1>1, <1>3, FirstByte DEF SlotForInsert
  <2>2. Passes(t, k, 0)
    BY DEF Passes
  <2> QED
    BY <2>1, <2>2 DEF IsFull
<1>4. CASE ByteAt(t, k, 0, 0) # Empty
  <2>1. Stops(t, k) # {} /\ \A g \in Group(t) : Hits(t, k, g) = {}
    BY <1>1, <1>2, ProbeMisses DEF Absent
  <2>2. Min(Stops(t, k)) \in Group(t)
    <3>1. Stops(t, k) \subseteq Group(t)
      BY DEF Stops
    <3>2. Stops(t, k) \in SUBSET Nat
      BY <3>1, GroupsAre
    <3> QED
      BY <2>1, <3>1, <3>2, MinOf
  <2>3. SlotForInsert(t, k) = FirstFree(t, k)
    BY <1>4, <2>1, <2>2 DEF SlotForInsert, FirstFree
  <2>4. PICK d \in 0 .. t.cap - 1 :
          /\ FirstFree(t, k) = Along(t, k, d) /\ ~IsFull(t.ctrl[Along(t, k, d)])
          /\ \A e \in 0 .. d - 1 : IsFull(t.ctrl[Along(t, k, e)])
    BY <1>1, <1>2, FirstFreeIs DEF IsFull
  <2>5. Passes(t, k, d)
    BY <2>4 DEF Passes, IsFull
  <2> QED
    BY <2>3, <2>4, <2>5
<1> QED
  BY <1>3, <1>4

LEMMA FreshWorks ==
  ASSUME NEW c \in Capacities
  PROVE  LET f == Fresh(c) IN
         /\ Works(f) /\ f.cap = c /\ f.size = 0
         /\ Full(f) = {} /\ Tombstones(f) = {} /\ Entries(f) = {}
<1> DEFINE f == Fresh(c)
<1>1. c \in Nat /\ c >= 2 /\ GroupWidth \in Nat /\ GroupWidth <= c /\ GrowthFor(c) \in Nat
  BY CapacityIs, Widths, Limit
<1>2. /\ f = [ctrl |-> f.ctrl, slots |-> f.slots, size |-> f.size, growth |-> f.growth, cap |-> f.cap]
      /\ f.ctrl = [i \in 0 .. c + GroupWidth - 1 |-> Empty] /\ f.slots = [i \in 0 .. c - 1 |-> Raw]
      /\ f.size = 0 /\ f.growth = GrowthFor(c) /\ f.cap = c
  BY DEF Fresh
<1> HIDE DEF f
<1>3. \A i \in 0 .. c - 1 : f.ctrl[i] = Empty /\ ~IsFull(f.ctrl[i]) /\ f.slots[i] = Raw
  BY <1>1, <1>2 DEF IsFull
<1>4. Full(f) = {} /\ Tombstones(f) = {}
  BY <1>2, <1>3, BytesDistinct DEF Full, Tombstones
<1>5. Shape(f)
  BY <1>1, <1>2 DEF Shape
<1>6. Mirrored(f)
  <2> SUFFICES ASSUME NEW j \in Lane(GroupWidth) PROVE f.ctrl[c + j] = f.ctrl[j]
    BY <1>2 DEF Mirrored
  <2>1. j \in 0 .. c + GroupWidth - 1 /\ c + j \in 0 .. c + GroupWidth - 1
    BY <1>1 DEF Lane
  <2> QED
    BY <1>2, <2>1
<1>7. Tagged(f) /\ Single(f) /\ Reached(f)
  BY <1>2, <1>3, <1>4 DEF Tagged, Single, Reached
<1>8. Counted(f)
  <2>1. Cardinality({}) = 0
    BY FS_EmptySet
  <2> QED
    BY <1>1, <1>2, <1>4, <2>1 DEF Counted
<1> QED
  BY <1>2, <1>4, <1>5, <1>6, <1>7, <1>8 DEF Works, Laid, Entries, f

LEMMA AssignedWorks ==
  ASSUME NEW t, Works(t), NEW i \in Full(t), NEW v \in Value
  PROVE  LET p == [t EXCEPT !.slots[i] = <<t.slots[i][1], v>>] IN
         /\ Works(p) /\ p.cap = t.cap
         /\ Entries(p) = (Entries(t) \ {t.slots[i]}) \cup {<<t.slots[i][1], v>>}
<1> DEFINE p == [t EXCEPT !.slots[i] = <<t.slots[i][1], v>>]  k == t.slots[i][1]
<1>1. Shape(t) /\ Laid(t) /\ Counted(t) /\ t.cap \in Capacities /\ t.cap \in Nat
      /\ Mirrored(t) /\ Tagged(t) /\ Single(t) /\ Reached(t)
  BY CapacityIs DEF Works, Laid, Mirrored
<1>2. i \in 0 .. t.cap - 1 /\ IsFull(t.ctrl[i]) /\ k \in Key /\ t.ctrl[i] = Tag[k]
  BY <1>1, FullHolds DEF Full
<1>3. /\ p = [ctrl |-> p.ctrl, slots |-> p.slots, size |-> p.size, growth |-> p.growth, cap |-> p.cap]
      /\ p.ctrl = t.ctrl /\ p.slots = [t.slots EXCEPT ![i] = <<k, v>>]
      /\ p.size = t.size /\ p.growth = t.growth /\ p.cap = t.cap
  <2> DEFINE a == t.ctrl  s == t.slots  n == t.size  g == t.growth  c == t.cap  e == <<k, v>>
  <2>1. t = [ctrl |-> a, slots |-> s, size |-> n, growth |-> g, cap |-> c]
    BY <1>1 DEF Shape
  <2>2. p = [t EXCEPT !.slots[i] = e]
    BY DEF p
  <2> HIDE DEF a, s, n, g, c, e, p
  <2>3. p = [ctrl |-> a, slots |-> [s EXCEPT ![i] = e], size |-> n, growth |-> g, cap |-> c]
    BY <2>1, <2>2
  <2>4. /\ p = [ctrl |-> p.ctrl, slots |-> p.slots, size |-> p.size, growth |-> p.growth, cap |-> p.cap]
        /\ p.ctrl = a /\ p.slots = [s EXCEPT ![i] = e] /\ p.size = n /\ p.growth = g /\ p.cap = c
    BY <2>3
  <2> QED
    BY <2>4 DEF a, s, n, g, c, e
<1> HIDE DEF p, k
<1>4. /\ p.slots \in [0 .. t.cap - 1 -> (Key \X Value) \cup {Raw}] /\ p.slots[i] = <<k, v>>
      /\ \A j \in 0 .. t.cap - 1 : j # i => p.slots[j] = t.slots[j]
      /\ <<k, v>> \in Key \X Value /\ <<k, v>>[1] = k
  <2> DEFINE E == (Key \X Value) \cup {Raw}  e == <<k, v>>
  <2>1. t.slots \in [0 .. t.cap - 1 -> E] /\ e \in E
    BY <1>1, <1>2 DEF Shape
  <2>2. e \in Key \X Value /\ e[1] = k
    BY <1>2
  <2> HIDE DEF E, e
  <2>3. /\ [t.slots EXCEPT ![i] = e] \in [0 .. t.cap - 1 -> E] /\ [t.slots EXCEPT ![i] = e][i] = e
        /\ \A j \in 0 .. t.cap - 1 : j # i => [t.slots EXCEPT ![i] = e][j] = t.slots[j]
    BY <1>2, <2>1
  <2> QED
    BY <1>3, <2>2, <2>3 DEF E, e
<1>5. Full(p) = Full(t) /\ Tombstones(p) = Tombstones(t)
  BY <1>3 DEF Full, Tombstones
<1>6. \A j \in 0 .. t.cap - 1 : j # i => p.slots[j] = t.slots[j] 
  BY <1>4
<1>7. p.slots[i][1] = k /\ t.slots[i][1] = k
  BY <1>4 DEF k
<1>8. \A j \in Full(t) : j \in 0 .. t.cap - 1 /\ p.slots[j][1] = t.slots[j][1]
  BY <1>6, <1>7 DEF Full
<1>9. Shape(p)
  BY <1>1, <1>3, <1>4 DEF Shape
<1>10. Mirrored(p)
  BY <1>1, <1>3 DEF Mirrored
<1>11. Tagged(p)
  <2> SUFFICES ASSUME NEW j \in 0 .. t.cap - 1
               PROVE  IF IsFull(p.ctrl[j])
                        THEN p.slots[j] \in Key \X Value /\ p.ctrl[j] = Tag[p.slots[j][1]]
                        ELSE p.slots[j] = Raw
    BY <1>3 DEF Tagged
  <2>1. CASE j = i
    <3>1. p.slots[j] \in Key \X Value /\ p.slots[j][1] = k /\ p.ctrl[j] = Tag[k] /\ IsFull(p.ctrl[j])
      BY <1>2, <1>3, <1>4, <2>1
    <3> QED
      BY <3>1
  <2>2. CASE j # i
    BY <1>1, <1>3, <1>6, <2>2 DEF Tagged
  <2> QED
    BY <2>1, <2>2
<1>12. Single(p)
  BY <1>1, <1>5, <1>8 DEF Single
<1>13. \A m, e : Passes(p, m, e) <=> Passes(t, m, e)
  BY <1>3, AlongSame DEF Passes
<1>14. Reached(p)
  BY <1>1, <1>3, <1>5, <1>8, <1>13, AlongSame DEF Reached
<1>15. Counted(p)
  BY <1>1, <1>3, <1>5 DEF Counted
<1>16. Entries(p) = (Entries(t) \ {t.slots[i]}) \cup {<<k, v>>}
  <2>1. \A j \in Full(t) : t.slots[j] = t.slots[i] => j = i
    BY <1>1 DEF Single
  <2>2. \A j \in Full(t) : j # i => p.slots[j] = t.slots[j]
    BY <1>6 DEF Full
  <2> QED
    BY <1>4, <1>5, <2>1, <2>2 DEF Entries
<1> QED
  BY <1>3, <1>9, <1>10, <1>11, <1>12, <1>14, <1>15, <1>16 DEF Works, Laid, p, k

-----------------------------------------------------------------------------
(* Rehashing: the entries one after the other into a fresh table. *)

\* One turn of the loop of rehash_impl.
Move(t, m, i) ==
  IF i - 1 \notin Full(t) THEN m
  ELSE LET e == t.slots[i - 1] IN Put(m, FirstFree(m, e[1]), e[1], e[2])

Moves(t, c, n, m) == m = [i \in 0 .. n |-> IF i = 0 THEN Fresh(c) ELSE Move(t, m[i - 1], i)]

LEMMA MovesExist ==
  ASSUME NEW t, NEW c, NEW n \in Nat
  PROVE  \E m : Moves(t, c, n, m)
<1> DEFINE B == {x \in Nat : ~ \E m : Moves(t, c, x, m)}
<1>1. SUFFICES ASSUME B # {} PROVE FALSE
  BY <1>1
<1>2. PICK x \in B : \A y \in B : x <= y
  BY <1>1, LeastNumber
<1>3. CASE x = 0
  <2> DEFINE m == [i \in 0 .. 0 |-> Fresh(c)]
  <2>1. m = [i \in 0 .. 0 |-> IF i = 0 THEN Fresh(c) ELSE Move(t, m[i - 1], i)]
    OBVIOUS
  <2> QED
    BY <1>2, <1>3, <2>1 DEF Moves
<1>4. CASE x # 0
  <2>1. x - 1 \in Nat /\ x \in Nat /\ x - 1 \notin B
    BY <1>2, <1>4
  <2>2. PICK f : f = [i \in 0 .. x - 1 |-> IF i = 0 THEN Fresh(c) ELSE Move(t, f[i - 1], i)]
    BY <2>1 DEF Moves
  <2> DEFINE m == [i \in 0 .. x |-> IF i = x THEN Move(t, f[x - 1], x) ELSE f[i]]
  <2>3. ASSUME NEW i \in 0 .. x PROVE m[i] = IF i = 0 THEN Fresh(c) ELSE Move(t, m[i - 1], i)
    <3>1. CASE i = x
      <4>1. m[i - 1] = f[x - 1] /\ m[i] = Move(t, f[x - 1], x)
        BY <2>1, <3>1
      <4> QED
        BY <1>4, <3>1, <4>1
    <3>2. CASE i # x
      <4>1. i \in 0 .. x - 1 /\ m[i] = f[i]
        BY <2>1, <3>2
      <4>2. i # 0 => i - 1 \in 0 .. x /\ i - 1 # x
        BY <2>1, <4>1
      <4>3. i # 0 => m[i - 1] = f[i - 1]
        BY <4>2
      <4>4. f[i] = IF i = 0 THEN Fresh(c) ELSE Move(t, f[i - 1], i)
        BY <2>2, <4>1
      <4> HIDE DEF m
      <4> QED
        BY <4>1, <4>3, <4>4
    <3> QED
      BY <3>1, <3>2
  <2>4. m = [i \in 0 .. x |-> m[i]]
    OBVIOUS
  <2> HIDE DEF m
  <2>5. m = [i \in 0 .. x |-> IF i = 0 THEN Fresh(c) ELSE Move(t, m[i - 1], i)]
    BY <2>3, <2>4
  <2> QED
    BY <1>2, <2>5 DEF Moves
<1> QED
  BY <1>3, <1>4

LEMMA RehashedIs ==
  ASSUME NEW t, NEW c, t.cap \in Nat
  PROVE  \E m : /\ m[0] = Fresh(c) /\ Rehashed(t, c) = m[t.cap]
                /\ \A i \in 1 .. t.cap : m[i] = Move(t, m[i - 1], i)
<1> DEFINE m == CHOOSE m : Moves(t, c, t.cap, m)
<1>1. Moves(t, c, t.cap, m)
  BY MovesExist
<1>2. Rehashed(t, c) = m[t.cap]
  BY DEF Rehashed, Moves, Move
<1> HIDE DEF m
<1>3. m[0] = Fresh(c)
  BY <1>1 DEF Moves
<1>4. \A i \in 1 .. t.cap : m[i] = Move(t, m[i - 1], i)
  BY <1>1 DEF Moves
<1> QED
  BY <1>2, <1>3, <1>4

LEMMA SoundIs ==
  ASSUME NEW t, Sound(t)
  PROVE  /\ t.cap \in Nat /\ t.growth \in Nat /\ t.size \in Nat
         /\ Tagged(t) /\ Single(t) /\ t.size = Cardinality(Full(t)) /\ IsFiniteSet(Full(t))
         /\ (t.cap = 0 => t = NoTable) /\ (t # NoTable => Works(t) /\ t.cap \in Capacities /\ t.cap > 0)
         /\ t.size <= GrowthFor(t.cap)
<1>1. CASE t = NoTable
  <2>1. t.cap = 0 /\ t.growth = 0 /\ t.size = 0
    BY <1>1 DEF NoTable
  <2>2. 0 .. 0 - 1 = {}
    OBVIOUS
  <2>3. Full(t) = {}
    BY <2>1, <2>2 DEF Full
  <2>4. GrowthFor(0) = 0
    BY DEF GrowthFor
  <2> QED
    BY <1>1, <2>1, <2>2, <2>3, <2>4, FS_EmptySet DEF Tagged, Single
<1>2. CASE Works(t)
  <2>1. t.cap \in Capacities /\ t.cap \in Nat /\ t.cap > 0
    BY <1>2, CapacityIs DEF Works, Laid, Mirrored
  <2>2. GrowthFor(t.cap) \in Nat
    BY <2>1, Limit
  <2> QED
    BY <1>2, <2>1, <2>2, SlotsFinite DEF Works, Laid, Counted
<1> QED
  BY <1>1, <1>2 DEF Sound

\* The full slots before slot n.
Before(t, n) == {j \in Full(t) : j < n}

LEMMA RehashWorks ==
  ASSUME NEW t, Sound(t), NEW c \in Capacities, t.size <= GrowthFor(c)
  PROVE  LET r == Rehashed(t, c) IN
         /\ Works(r) /\ r.cap = c /\ r.size = t.size /\ Tombstones(r) = {} /\ Entries(r) = Entries(t)
<1>1. /\ t.cap \in Nat /\ t.size \in Nat /\ Tagged(t) /\ Single(t)
      /\ t.size = Cardinality(Full(t)) /\ IsFiniteSet(Full(t))
  BY SoundIs
<1>2. PICK m : /\ m[0] = Fresh(c) /\ Rehashed(t, c) = m[t.cap]
               /\ \A i \in 1 .. t.cap : m[i] = Move(t, m[i - 1], i)
  BY <1>1, RehashedIs
<1> DEFINE Moved(i) == /\ Works(m[i]) /\ m[i].cap = c /\ m[i].size = Cardinality(Before(t, i))
                       /\ Tombstones(m[i]) = {} /\ Entries(m[i]) = {t.slots[j] : j \in Before(t, i)}
<1>3. Moved(0)
  <2>1. Before(t, 0) = {}
    BY <1>1 DEF Before, Full
  <2> QED
    BY <1>2, <2>1, FreshWorks, FS_EmptySet
<1>4. ASSUME NEW i \in 1 .. t.cap, Moved(i - 1) PROVE Moved(i)
  <2> DEFINE x == m[i - 1]
  <2>1. m[i] = Move(t, x, i) /\ i \in Nat /\ i - 1 \in 0 .. t.cap - 1
    BY <1>1, <1>2
  <2>2. CASE i - 1 \notin Full(t)
    <3>1. Before(t, i) = Before(t, i - 1)
      BY <1>1, <2>1, <2>2 DEF Before, Full
    <3>2. m[i] = x
      BY <2>1, <2>2 DEF Move
    <3> QED
      BY <1>4, <3>1, <3>2
  <2>3. CASE i - 1 \in Full(t)
    <3> DEFINE e == t.slots[i - 1]  k == e[1]  v == e[2]
    <3>1. k \in Key /\ v \in Value /\ e = <<k, v>>
      <4>1. e \in Key \X Value
        BY <1>1, <2>3, FullHolds
      <4> HIDE DEF e
      <4> QED
        BY <4>1
    <3>2. m[i] = Put(x, FirstFree(x, k), k, v)
      BY <2>1, <2>3 DEF Move
    <3>3. /\ Before(t, i) = Before(t, i - 1) \cup {i - 1} /\ i - 1 \notin Before(t, i - 1)
          /\ Before(t, i) \subseteq Full(t) /\ Before(t, i - 1) \subseteq Full(t)
      BY <1>1, <2>1, <2>3 DEF Before, Full
    <3>4. /\ Cardinality(Before(t, i)) = Cardinality(Before(t, i - 1)) + 1
          /\ Cardinality(Before(t, i)) <= t.size /\ Cardinality(Before(t, i - 1)) \in Nat
      <4>1. IsFiniteSet(Before(t, i - 1)) /\ IsFiniteSet(Before(t, i))
        BY <1>1, <3>3, FS_Subset
      <4> QED
        BY <1>1, <3>3, <4>1, FS_AddElement, FS_Subset, FS_CardinalityType
    <3> HIDE DEF e, k, v, x
    <3>5. /\ Works(x) /\ x.cap = c /\ x.size = Cardinality(Before(t, i - 1))
          /\ Tombstones(x) = {} /\ Entries(x) = {t.slots[j] : j \in Before(t, i - 1)}
      BY <1>4 DEF x
    <3>6. Absent(x, k)
      <4> SUFFICES ASSUME NEW y \in Full(x), x.slots[y][1] = k PROVE FALSE
        BY DEF Absent, HoldsAt
      <4>1. PICK j \in Before(t, i - 1) : x.slots[y] = t.slots[j]
        BY <3>5 DEF Entries
      <4>2. t.slots[j][1] = t.slots[i - 1][1]
        BY <4>1 DEF k, e
      <4>3. j = i - 1
        BY <1>1, <2>3, <3>3, <4>2 DEF Single
      <4> QED
        BY <3>3, <4>3
    <3>7. x.growth > 0
      <4>1. /\ x.growth \in Nat
            /\ x.size + x.growth + Cardinality(Tombstones(x)) = GrowthFor(c)
        BY <3>5 DEF Works, Counted
      <4>2. Cardinality({}) = 0
        BY FS_EmptySet
      <4>3. GrowthFor(c) \in Nat
        BY Limit
      <4> QED
        BY <1>1, <3>4, <3>5, <4>1, <4>2, <4>3
    <3>8. PICK d \in 0 .. c - 1 :
            /\ FirstFree(x, k) = Along(x, k, d) /\ ~IsFull(x.ctrl[Along(x, k, d)]) /\ Passes(x, k, d)
      <4>1. PICK y \in 0 .. c - 1 : x.ctrl[y] = Empty
        BY <3>5, EmptyRemains
      <4>2. Mirrored(x) /\ ~IsFull(x.ctrl[y])
        BY <3>5, <4>1 DEF Works, Laid, IsFull
      <4>3. PICK d \in 0 .. c - 1 :
              /\ FirstFree(x, k) = Along(x, k, d) /\ ~IsFull(x.ctrl[Along(x, k, d)])
              /\ \A z \in 0 .. d - 1 : IsFull(x.ctrl[Along(x, k, z)])
        BY <3>1, <3>5, <4>1, <4>2, FirstFreeIs
      <4>4. Passes(x, k, d)
        BY <4>3 DEF Passes, IsFull
      <4> QED
        BY <4>3, <4>4
    <3>9. /\ Works(m[i]) /\ m[i].cap = c /\ m[i].size = x.size + 1
          /\ Tombstones(m[i]) = Tombstones(x) \ {Along(x, k, d)}
          /\ Entries(m[i]) = Entries(x) \cup {e}
      BY <3>1, <3>2, <3>5, <3>6, <3>7, <3>8, PutCounted
    <3>10. Entries(m[i]) = {t.slots[j] : j \in Before(t, i)}
      BY <3>3, <3>5, <3>9 DEF e
    <3> QED
      BY <3>4, <3>5, <3>9, <3>10
  <2> QED
    BY <2>2, <2>3
<1>5. \A i \in 0 .. t.cap : Moved(i)
  <2> HIDE DEF Moved
  <2> DEFINE B == {i \in 0 .. t.cap : ~Moved(i)}
  <2>1. SUFFICES ASSUME B # {} PROVE FALSE
    BY <2>1
  <2>2. PICK i \in B : \A j \in B : i <= j
    <3>1. B \in SUBSET Nat
      BY <1>1
    <3> QED
      BY <2>1, <3>1, LeastNumber
  <2>3. i # 0
    BY <1>3, <2>2
  <2>4. i \in 1 .. t.cap /\ i - 1 \in 0 .. t.cap /\ i - 1 \notin B
    BY <1>1, <2>2, <2>3
  <2>5. Moved(i - 1)
    BY <2>4
  <2> QED
    BY <1>4, <2>2, <2>4, <2>5
<1>6. Before(t, t.cap) = Full(t)
  BY <1>1 DEF Before, Full
<1>7. Moved(t.cap)
  BY <1>1, <1>5
<1> DEFINE r == m[t.cap]
<1>8. Works(r) /\ r.cap = c /\ Tombstones(r) = {}
  BY <1>7
<1>9. r.size = t.size
  BY <1>1, <1>6, <1>7
<1>10. Entries(r) = Entries(t)
  BY <1>6, <1>7 DEF Entries
<1>11. Rehashed(t, c) = r
  BY <1>2
<1> HIDE DEF r, Moved
<1> QED
  BY <1>8, <1>9, <1>10, <1>11

-----------------------------------------------------------------------------
(* An erased range: the full slots of it one after the other. *)

\* One turn of the loop of erase(first, last).
Drop(m, i) == IF i - 1 \notin Full(m) THEN m ELSE Erased(m, i - 1)

Drops(t, b, n, m) == m = [i \in b .. n |-> IF i = b THEN t ELSE Drop(m[i - 1], i)]

LEMMA DropsExist ==
  ASSUME NEW t, NEW b \in Nat, NEW n \in Nat
  PROVE  \E m : Drops(t, b, b + n, m)
<1> DEFINE B == {x \in Nat : ~ \E m : Drops(t, b, b + x, m)}
<1>1. SUFFICES ASSUME B # {} PROVE FALSE
  BY <1>1
<1>2. PICK x \in B : \A y \in B : x <= y
  BY <1>1, LeastNumber
<1>3. CASE x = 0
  <2> DEFINE m == [i \in b .. b |-> t]
  <2>1. m = [i \in b .. b |-> IF i = b THEN t ELSE Drop(m[i - 1], i)]
    OBVIOUS
  <2>2. b + x = b
    BY <1>3
  <2> QED
    BY <1>2, <2>1, <2>2 DEF Drops
<1>4. CASE x # 0
  <2>1. x - 1 \in Nat /\ x \in Nat /\ x - 1 \notin B
    BY <1>2, <1>4
  <2> DEFINE n1 == b + x
  <2>2. n1 \in Nat /\ n1 - 1 = b + (x - 1) /\ n1 # b /\ n1 - 1 \in b .. n1 - 1
    BY <2>1, <1>4
  <2>3. PICK f : f = [i \in b .. n1 - 1 |-> IF i = b THEN t ELSE Drop(f[i - 1], i)]
    BY <2>1, <2>2 DEF Drops
  <2> HIDE DEF n1
  <2> DEFINE m == [i \in b .. n1 |-> IF i = n1 THEN Drop(f[n1 - 1], n1) ELSE f[i]]
  <2>4. ASSUME NEW i \in b .. n1 PROVE m[i] = IF i = b THEN t ELSE Drop(m[i - 1], i)
    <3>1. CASE i = n1
      <4>1. m[i - 1] = f[n1 - 1] /\ m[i] = Drop(f[n1 - 1], n1)
        BY <2>2, <3>1
      <4> QED
        BY <2>2, <3>1, <4>1
    <3>2. CASE i # n1
      <4>1. i \in b .. n1 - 1 /\ m[i] = f[i]
        BY <2>2, <3>2
      <4>2. i # b => i - 1 \in b .. n1 /\ i - 1 # n1
        BY <2>2, <4>1
      <4>3. i # b => m[i - 1] = f[i - 1]
        BY <4>2
      <4>4. f[i] = IF i = b THEN t ELSE Drop(f[i - 1], i)
        BY <2>3, <4>1
      <4> HIDE DEF m
      <4> QED
        BY <4>1, <4>3, <4>4
    <3> QED
      BY <3>1, <3>2
  <2>5. m = [i \in b .. n1 |-> m[i]]
    OBVIOUS
  <2> HIDE DEF m
  <2>6. m = [i \in b .. n1 |-> IF i = b THEN t ELSE Drop(m[i - 1], i)]
    BY <2>4, <2>5
  <2> QED
    BY <1>2, <2>6 DEF Drops, n1
<1> QED
  BY <1>3, <1>4

LEMMA RangeErasedIs ==
  ASSUME NEW t, NEW first \in Nat, NEW last \in Nat, first < last
  PROVE  \E m : /\ m[first] = t /\ RangeErased(t, first, last) = m[last]
                /\ \A i \in first + 1 .. last : m[i] = Drop(m[i - 1], i)
<1> DEFINE m == CHOOSE m : Drops(t, first, last, m)
<1>1. Drops(t, first, last, m)
  <2>1. last - first \in Nat /\ first + (last - first) = last
    OBVIOUS
  <2>2. \E f : Drops(t, first, last, f)
    BY <2>1, DropsExist
  <2> QED
    BY <2>2
<1>2. RangeErased(t, first, last) = m[last]
  BY DEF RangeErased, Drops, Drop
<1> HIDE DEF m
<1>3. m[first] = t
  BY <1>1 DEF Drops
<1>4. \A i \in first + 1 .. last : m[i] = Drop(m[i - 1], i)
  BY <1>1 DEF Drops
<1> QED
  BY <1>2, <1>3, <1>4

LEMMA RangeWorks ==
  ASSUME NEW t, Works(t), NEW first \in Nat, NEW last \in Nat, first < last
  PROVE  LET r == RangeErased(t, first, last) IN
         /\ Works(r) /\ r.cap = t.cap /\ Full(r) = Full(t) \ (first .. last - 1)
         /\ \A j \in Full(r) : r.slots[j] = t.slots[j]
<1>1. PICK m : /\ m[first] = t /\ RangeErased(t, first, last) = m[last]
               /\ \A i \in first + 1 .. last : m[i] = Drop(m[i - 1], i)
  BY RangeErasedIs
<1> DEFINE Left(i) == /\ Works(m[i]) /\ m[i].cap = t.cap /\ Full(m[i]) = Full(t) \ (first .. i - 1)
                      /\ \A j \in Full(m[i]) : m[i].slots[j] = t.slots[j]
<1>2. Left(first)
  <2>1. first .. first - 1 = {}
    OBVIOUS
  <2> QED
    BY <1>1, <2>1
<1>3. ASSUME NEW i \in first + 1 .. last, Left(i - 1) PROVE Left(i)
  <2> DEFINE x == m[i - 1]
  <2>1. m[i] = Drop(x, i) /\ first .. i - 1 = (first .. (i - 1) - 1) \cup {i - 1}
    BY <1>1
  <2> HIDE DEF x
  <2>2. /\ Works(x) /\ x.cap = t.cap /\ Full(x) = Full(t) \ (first .. (i - 1) - 1)
        /\ \A j \in Full(x) : x.slots[j] = t.slots[j]
    BY <1>3 DEF x
  <2>3. CASE i - 1 \notin Full(x)
    <3>1. Full(x) = Full(t) \ (first .. i - 1)
      BY <2>1, <2>2, <2>3
    <3> QED
      BY <2>1, <2>2, <2>3, <3>1 DEF Drop
  <2>4. CASE i - 1 \in Full(x)
    <3>1. m[i] = Erased(x, i - 1)
      BY <2>1, <2>4 DEF Drop
    <3>2. /\ Works(m[i]) /\ m[i].cap = x.cap /\ Full(m[i]) = Full(x) \ {i - 1}
          /\ \A j \in Full(m[i]) : m[i].slots[j] = x.slots[j]
      BY <2>2, <2>4, <3>1, ErasedWorks
    <3> QED
      BY <2>1, <2>2, <3>2
  <2> QED
    BY <2>3, <2>4
<1>4. \A i \in first .. last : Left(i)
  <2> HIDE DEF Left
  <2> DEFINE B == {i \in first .. last : ~Left(i)}
  <2>1. SUFFICES ASSUME B # {} PROVE FALSE
    BY <2>1
  <2>2. PICK i \in B : \A j \in B : i <= j
    <3>1. B \in SUBSET Nat
      OBVIOUS
    <3> QED
      BY <2>1, <3>1, LeastNumber
  <2>3. i # first
    BY <1>2, <2>2
  <2>4. i \in first + 1 .. last /\ i - 1 \in first .. last /\ i - 1 \notin B
    BY <2>2, <2>3
  <2>5. Left(i - 1)
    BY <2>4
  <2> QED
    BY <1>3, <2>2, <2>4, <2>5
<1>5. Left(last)
  <2>1. last \in first .. last
    OBVIOUS
  <2> HIDE DEF Left
  <2> QED
    BY <1>4, <2>1
<1> QED
  BY <1>1, <1>5

-----------------------------------------------------------------------------
(* Growing and rehashing to a wanted capacity. *)

LEMMA NoTableIs == NoTable.cap = 0 /\ NoTable.size = 0 /\ NoTable.growth = 0 /\ Full(NoTable) = {} /\ Entries(NoTable) = {}
<1>1. NoTable.cap = 0 /\ NoTable.size = 0 /\ NoTable.growth = 0
  BY DEF NoTable
<1>2. Full(NoTable) = {}
  <2>1. 0 .. 0 - 1 = {}
    OBVIOUS
  <2> QED
    BY <1>1, <2>1 DEF Full
<1> QED
  BY <1>1, <1>2 DEF Entries

\* What an insertion does first leaves a slot to pay for.
LEMMA GrownWorks ==
  ASSUME NEW t, Sound(t), t.growth = 0 => t.cap * 2 <= MaxCapacity
  PROVE  LET g == Grown(t) IN Works(g) /\ g.growth > 0 /\ Entries(g) = Entries(t)
<1> DEFINE g == Grown(t)
<1>1. /\ t.cap \in Nat /\ t.growth \in Nat /\ t.size \in Nat
      /\ (t.cap = 0 => t = NoTable) /\ (t # NoTable => Works(t) /\ t.cap \in Capacities /\ t.cap > 0)
      /\ t.size <= GrowthFor(t.cap)
  BY SoundIs
<1>2. CASE t.cap = 0
  <2>1. GroupWidth \in Capacities
    <3>1. GroupWidth = GroupWidth * 1 /\ 1 \in Power
      BY Widths DEF Power
    <3> QED
      BY <3>1, CapacitiesAre
  <2>2. g = Fresh(GroupWidth) /\ Entries(t) = {}
    BY <1>1, <1>2, NoTableIs, InlineAssumption DEF Grown
  <2>3. /\ Works(g) /\ g.cap = GroupWidth /\ g.size = 0 /\ Tombstones(g) = {} /\ Entries(g) = {}
    BY <2>1, <2>2, FreshWorks
  <2>4. g.growth = GrowthFor(GroupWidth) /\ GrowthFor(GroupWidth) > 0
    BY <2>1, <2>2, Limit DEF Fresh
  <2> QED
    BY <2>2, <2>3, <2>4
<1>3. CASE t.cap # 0 /\ t.growth = 0
  <2>1. t # NoTable /\ t.cap \in Capacities
    BY <1>1, <1>3, NoTableIs
  <2>2. t.cap * 2 \in Capacities
    <3>1. 2 * t.cap <= 2 * MaxCapacity /\ t.cap * 2 = 2 * t.cap
      BY <1>1, <1>3, Bounded
    <3> QED
      BY <2>1, <3>1, CapacityDoubles
  <2>3. /\ GrowthFor(t.cap) \in Nat /\ GrowthFor(t.cap * 2) \in Nat
        /\ t.size <= GrowthFor(t.cap * 2) /\ t.size < GrowthFor(t.cap * 2)
    BY <1>1, <2>1, <2>2, Limit, LimitDoubles
  <2>4. g = Rehashed(t, t.cap * 2)
    BY <1>3 DEF Grown
  <2> HIDE DEF g
  <2>5. /\ Works(g) /\ g.cap = t.cap * 2 /\ g.size = t.size /\ Tombstones(g) = {} /\ Entries(g) = Entries(t)
    BY <2>2, <2>3, <2>4, RehashWorks
  <2>6. g.growth \in Nat /\ g.size + g.growth + 0 = GrowthFor(t.cap * 2)
    BY <2>5, FS_EmptySet DEF Works, Counted
  <2> QED
    BY <1>1, <2>3, <2>5, <2>6 DEF g
<1>4. CASE t.cap # 0 /\ t.growth # 0
  <2>1. t # NoTable /\ g = t
    BY <1>4, NoTableIs DEF Grown
  <2> QED
    BY <1>1, <1>4, <2>1
<1> QED
  BY <1>2, <1>3, <1>4

LEMMA NormalizedIs ==
  ASSUME NEW n \in Nat, NEW c \in Capacities, c >= n
  PROVE  Normalized(n) \in Capacities /\ Normalized(n) >= n
<1> DEFINE S == {x \in Capacities : x >= n}
<1>1. S \in SUBSET Nat /\ S # {}
  BY CapacityIs
<1>2. Min(S) \in S
  BY <1>1, MinOf
<1> QED
  BY <1>2 DEF Normalized

\* The slots that n entries need.
Needed(n) == (n \div 7) * 8 + ((n % 7) * 8 + 6) \div 7

LEMMA NeededIs ==
  ASSUME NEW n \in Nat, NEW c \in Nat
  PROVE  Needed(n) \in Nat /\ Needed(n) <= 2 * n /\ (c >= Needed(n) <=> GrowthFor(c) >= n)
<1> DEFINE q == n \div 7  r == n % 7  a == c \div 8  b == c % 8
<1>1. q \in Nat /\ r \in 0 .. 6 /\ n = q * 7 + r
  OBVIOUS
<1>2. a \in Nat /\ b \in 0 .. 7 /\ c = a * 8 + b
  OBVIOUS
<1> HIDE DEF q, r, a, b
<1>3. r \in {0, 1, 2, 3, 4, 5, 6} /\ b \in {0, 1, 2, 3, 4, 5, 6, 7}
  BY <1>1, <1>2
<1>4. (r * 8 + 6) \div 7 = (IF r = 0 THEN 0 ELSE r + 1)
  BY <1>3
<1>5. (b * 7) \div 8 = (IF b = 0 THEN 0 ELSE b - 1)
  BY <1>3
<1>6. Needed(n) = q * 8 + (IF r = 0 THEN 0 ELSE r + 1)
  BY <1>4 DEF Needed, q, r
<1>7. GrowthFor(c) = a * 7 + (IF b = 0 THEN 0 ELSE b - 1)
  BY <1>5 DEF GrowthFor, a, b
<1> QED
  BY <1>1, <1>2, <1>6, <1>7

LEMMA LimitMonotone == ASSUME NEW c \in Nat, NEW d \in Nat, c <= d PROVE GrowthFor(c) <= GrowthFor(d)
<1>1. GrowthFor(c) \in Nat /\ GrowthFor(d) \in Nat
  BY DEF GrowthFor
<1> QED
  BY <1>1, NeededIs

\* The capacity that size entries need is enough for them.
LEMMA RequiredIs ==
  ASSUME NEW n \in Nat, NEW c \in Capacities, c >= Needed(n)
  PROVE  /\ Required(n) \in Capacities \cup {0} /\ (n = 0 <=> Required(n) = 0)
         /\ GrowthFor(Required(n)) >= n
<1>1. Needed(n) \in Nat /\ 0 \notin Capacities
  BY NeededIs, CapacityIs
<1>2. CASE n = 0
  BY <1>1, <1>2 DEF Required, GrowthFor
<1>3. CASE n # 0
  <2>1. Required(n) = Normalized(Needed(n))
    BY <1>3 DEF Required, Needed
  <2>2. Normalized(Needed(n)) \in Capacities /\ Normalized(Needed(n)) >= Needed(n)
    BY <1>1, NormalizedIs
  <2> QED
    BY <1>1, <1>3, <2>1, <2>2, CapacityIs, NeededIs
<1> QED
  BY <1>2, <1>3

LEMMA RehashToWorks ==
  ASSUME Sound(table), NEW n \in Nat, NEW c \in Capacities, c >= n
  PROVE  LET r == RehashTo(n) IN Sound(r) /\ Entries(r) = Entries(table)
<1>1. /\ table.cap \in Nat /\ table.size \in Nat /\ table.size <= GrowthFor(table.cap)
      /\ (table # NoTable => table.cap \in Capacities)
  BY SoundIs
<1> DEFINE q == Required(table.size)  x == Max({n, q})  w == Normalized(x)
<1>2. q \in Capacities \cup {0} /\ GrowthFor(q) >= table.size
  <2>1. \E d \in Capacities : d >= Needed(table.size)
    <3>1. CASE table = NoTable
      <4>1. Needed(0) = 0
        BY DEF Needed
      <4> QED
        BY <3>1, <4>1, NoTableIs, CapacityIs
    <3>2. CASE table # NoTable
      BY <1>1, <3>2, NeededIs
    <3> QED
      BY <3>1, <3>2
  <2> QED
    BY <1>1, <2>1, RequiredIs
<1>3. q \in Nat
  BY <1>2, CapacityIs
<1> HIDE DEF q
<1>4. x \in {n, q} /\ x >= n /\ x >= q
  <2> DEFINE m == IF n >= q THEN n ELSE q
  <2>1. m \in {n, q} /\ \A y \in {n, q} : m >= y
    BY <1>3
  <2> QED
    BY <1>3, <2>1 DEF Max
<1>5. x \in Nat /\ \E d \in Capacities : d >= x
  BY <1>2, <1>3, <1>4, CapacityIs
<1> HIDE DEF x
<1>6. w \in Capacities /\ w >= x
  BY <1>5, NormalizedIs
<1>7. w \in Nat
  BY <1>6, CapacityIs
<1>8. RehashTo(n) = IF w = table.cap THEN table ELSE Rehashed(table, w)
  BY DEF RehashTo, w, x, q
<1> HIDE DEF w
<1>9. table.size <= GrowthFor(w)
  <2>1. GrowthFor(q) <= GrowthFor(w) /\ GrowthFor(q) \in Int /\ GrowthFor(w) \in Int
    <3>1. q <= w
      BY <1>3, <1>4, <1>5, <1>6, <1>7
    <3> QED
      BY <1>3, <1>7, <3>1, LimitMonotone DEF GrowthFor
  <2> QED
    BY <1>1, <1>2, <2>1
<1>10. CASE w = table.cap
  BY <1>8, <1>10
<1>11. CASE w # table.cap
  BY <1>6, <1>8, <1>9, <1>11, RehashWorks DEF Sound
<1> QED
  BY <1>10, <1>11

-----------------------------------------------------------------------------
(* Lookups and the place of an insertion. *)

LEMMA FindIs ==
  ASSUME NEW t, Sound(t), NEW k \in Key
  PROVE  /\ Find(t, k) = Holder(t, k)
         /\ IF Absent(t, k) THEN Find(t, k) = NoSlot
                            ELSE Find(t, k) \in 0 .. t.cap - 1 /\ HoldsAt(t, k, Find(t, k))
<1> DEFINE at == {i \in Full(t) : t.slots[i] # Raw /\ t.slots[i][1] = k}
<1>1. t.cap \in Nat /\ Tagged(t) /\ Single(t) /\ (t # NoTable => Works(t) /\ t.cap \in Capacities /\ t.cap > 0)
  BY SoundIs
<1>2. at = {i \in Full(t) : HoldsAt(t, k, i)} /\ Full(t) \subseteq 0 .. t.cap - 1
  BY <1>1, FullHolds DEF HoldsAt, Full
<1>3. Holder(t, k) = IF at = {} THEN NoSlot ELSE Min(at)
  BY DEF Holder
<1> HIDE DEF at
<1>4. CASE Absent(t, k)
  <2>1. at = {}
    BY <1>2, <1>4 DEF Absent
  <2>2. Find(t, k) = NoSlot
    <3>1. CASE t.cap = 0
      BY <3>1 DEF Find
    <3>2. CASE t.cap # 0
      <4>1. Works(t) /\ Mirrored(t)
        BY <1>1, <3>2, NoTableIs DEF Works, Laid
      <4>2. PICK i \in 0 .. t.cap - 1 : t.ctrl[i] = Empty
        BY <4>1, EmptyRemains
      <4>3. Stops(t, k) # {} /\ \A g \in Group(t) : Hits(t, k, g) = {}
        BY <1>1, <1>4, <4>1, <4>2, ProbeMisses DEF Absent
      <4>4. Stops(t, k) \subseteq Group(t)
        BY DEF Stops
      <4>5. Stops(t, k) \in SUBSET Nat
        BY <4>4, GroupsAre
      <4>6. Min(Stops(t, k)) \in Group(t)
        BY <4>3, <4>4, <4>5, MinOf
      <4> QED
        BY <3>2, <4>3, <4>6 DEF Find
    <3> QED
      BY <3>1, <3>2
  <2> QED
    BY <1>3, <1>4, <2>1, <2>2
<1>5. CASE ~Absent(t, k)
  <2>1. PICK i : HoldsAt(t, k, i)
    BY <1>5 DEF Absent
  <2>2. i \in 0 .. t.cap - 1 /\ i \in Full(t)
    BY <1>2, <2>1 DEF HoldsAt
  <2>3. t.cap # 0 /\ Laid(t)
    BY <1>1, <2>2, NoTableIs DEF Works
  <2>4. Find(t, k) = i
    BY <2>1, <2>3, ProbeFinds DEF Find
  <2>5. at = {i}
    BY <1>1, <1>2, <2>1, <2>2 DEF HoldsAt, Single
  <2>6. Min(at) = i
    <3>1. i \in Int /\ {i} \in SUBSET Int /\ \A y \in {i} : i <= y
      BY <2>2
    <3> QED
      BY <2>5, <3>1, MinIs
  <2> QED
    BY <1>3, <1>5, <2>1, <2>2, <2>4, <2>5, <2>6
<1> QED
  BY <1>4, <1>5

LEMMA InsertPlace ==
  ASSUME NEW t, Works(t), NEW k \in Key
  PROVE  LET i == SlotForInsert(t, k) IN
         /\ i \in 0 .. t.cap - 1
         /\ IF Absent(t, k)
              THEN /\ ~IsFull(t.ctrl[i])
                   /\ \E d \in 0 .. t.cap - 1 : i = Along(t, k, d) /\ Passes(t, k, d)
              ELSE IsFull(t.ctrl[i]) /\ HoldsAt(t, k, i)
<1>1. CASE Absent(t, k)
  <2>1. PICK d \in 0 .. t.cap - 1 :
           /\ SlotForInsert(t, k) = Along(t, k, d) /\ ~IsFull(t.ctrl[Along(t, k, d)])
           /\ Passes(t, k, d)
    BY <1>1, InsertFree
  <2>2. Along(t, k, d) \in 0 .. t.cap - 1
    BY AlongIs DEF Works, Laid, Mirrored
  <2> QED
    BY <1>1, <2>1, <2>2
<1>2. CASE ~Absent(t, k)
  <2>1. PICK i : HoldsAt(t, k, i)
    BY <1>2 DEF Absent
  <2>2. SlotForInsert(t, k) = i
    BY <2>1, InsertFinds DEF Works
  <2> QED
    BY <1>2, <2>1, <2>2 DEF HoldsAt, Full
<1> QED
  BY <1>1, <1>2

-----------------------------------------------------------------------------
(* The entries and the map they are. *)

LEMMA ContentIs ==
  ASSUME NEW t, Sound(t)
  PROVE  /\ Content(t) = [k \in {e[1] : e \in Entries(t)} |-> Content(t)[k]]
         /\ DOMAIN Content(t) = {e[1] : e \in Entries(t)}
         /\ \A e \in Entries(t) : Content(t)[e[1]] = e[2] /\ e \in Key \X Value /\ e = <<e[1], e[2]>>
         /\ \A e \in Entries(t), f \in Entries(t) : e[1] = f[1] => e = f
<1>1. Tagged(t) /\ Single(t)
  BY SoundIs
<1>2. Held(t) = Full(t)
  BY <1>1, FullHolds DEF Held
<1> DEFINE K == {t.slots[i][1] : i \in Full(t)}
           V(k) == t.slots[CHOOSE i \in Full(t) : t.slots[i][1] = k][2]
<1>3. Content(t) = [k \in K |-> V(k)]
  BY <1>2 DEF Content
<1>4. K = {e[1] : e \in Entries(t)}
  BY DEF Entries
<1>5. \A e \in Entries(t), f \in Entries(t) : e[1] = f[1] => e = f
  BY <1>1 DEF Entries, Single
<1>6. \A e \in Entries(t) : e \in Key \X Value /\ e = <<e[1], e[2]>>
  <2>1. \A e \in Entries(t) : e \in Key \X Value
    BY <1>1, FullHolds DEF Entries
  <2> QED
    BY <2>1
<1>7. ASSUME NEW e \in Entries(t) PROVE e[1] \in K /\ V(e[1]) = e[2]
  <2>1. PICK j \in Full(t) : t.slots[j] = e
    BY DEF Entries
  <2> DEFINE i == CHOOSE i \in Full(t) : t.slots[i][1] = e[1]
  <2>2. i \in Full(t) /\ t.slots[i][1] = e[1]
    BY <2>1
  <2>3. i = j
    BY <1>1, <2>1, <2>2 DEF Single
  <2>4. V(e[1]) = t.slots[i][2]
    OBVIOUS
  <2> HIDE DEF i, V
  <2> QED
    BY <2>1, <2>3, <2>4
<1> HIDE DEF K, V
<1> QED
  BY <1>3, <1>4, <1>5, <1>6, <1>7

LEMMA SameContent ==
  ASSUME NEW t, NEW p, Sound(t), Sound(p), Entries(p) = Entries(t)
  PROVE  Content(p) = Content(t)
<1> DEFINE K == {e[1] : e \in Entries(t)}  a == Content(t)  b == Content(p)
<1>1. /\ a = [k \in K |-> a[k]] /\ b = [k \in K |-> b[k]]
      /\ \A e \in Entries(t) : a[e[1]] = e[2] /\ b[e[1]] = e[2]
  BY ContentIs
<1>2. \A k \in K : a[k] = b[k]
  BY <1>1
<1> HIDE DEF K, a, b
<1>3. a = b
  BY <1>1, <1>2
<1> QED
  BY <1>3 DEF a, b

LEMMA LessContent ==
  ASSUME NEW t, NEW p, Sound(t), Sound(p), NEW K, Entries(p) = {e \in Entries(t) : e[1] \notin K}
  PROVE  Content(p) = Without(t, K)
<1> DEFINE D == DOMAIN Content(t) \ K  a == Content(t)  b == Content(p)
<1>1. /\ DOMAIN a = {e[1] : e \in Entries(t)} /\ b = [k \in {e[1] : e \in Entries(p)} |-> b[k]]
      /\ \A e \in Entries(t) : a[e[1]] = e[2]
      /\ \A e \in Entries(p) : b[e[1]] = e[2]
  BY ContentIs
<1>2. D = {e[1] : e \in Entries(p)}
  BY <1>1
<1>3. \A k \in D : a[k] = b[k]
  BY <1>1, <1>2
<1>4. Without(t, K) = [k \in D |-> a[k]]
  BY DEF Without
<1> HIDE DEF D, a, b
<1>5. b = [k \in D |-> a[k]]
  BY <1>1, <1>2, <1>3
<1> QED
  BY <1>4, <1>5 DEF b

Assigned(c, k, v) == [m \in DOMAIN c \cup {k} |-> IF m = k THEN v ELSE c[m]]

LEMMA MoreContent ==
  ASSUME NEW t, NEW p, Sound(t), Sound(p), NEW k, NEW v,
         Entries(p) = {e \in Entries(t) : e[1] # k} \cup {<<k, v>>}
  PROVE  Content(p) = Assigned(Content(t), k, v)
<1> DEFINE D == DOMAIN Content(t) \cup {k}  a == Content(t)  b == Content(p)
<1>1. /\ DOMAIN a = {e[1] : e \in Entries(t)} /\ b = [m \in {e[1] : e \in Entries(p)} |-> b[m]]
      /\ \A e \in Entries(t) : a[e[1]] = e[2]
      /\ \A e \in Entries(p) : b[e[1]] = e[2]
  BY ContentIs
<1>2. <<k, v>>[1] = k /\ <<k, v>>[2] = v /\ <<k, v>> \in Entries(p)
  OBVIOUS
<1>3. D = {e[1] : e \in Entries(p)}
  <2>1. ASSUME NEW m \in D PROVE \E e \in Entries(p) : m = e[1]
    <3>1. CASE m = k
      BY <1>2, <3>1
    <3>2. CASE m # k
      <4>1. PICK e \in Entries(t) : e[1] = m
        BY <1>1, <3>2
      <4> QED
        BY <3>2, <4>1
    <3> QED
      BY <3>1, <3>2
  <2>2. ASSUME NEW e \in Entries(p) PROVE e[1] \in D
    <3>1. CASE e = <<k, v>>
      BY <1>2, <3>1
    <3>2. CASE e \in Entries(t)
      BY <1>1, <3>2
    <3> QED
      BY <3>1, <3>2
  <2> HIDE DEF D
  <2> QED
    BY <2>1, <2>2
<1>4. ASSUME NEW m \in D PROVE b[m] = IF m = k THEN v ELSE a[m]
  <2>1. CASE m = k
    BY <1>1, <1>2, <2>1
  <2>2. CASE m # k
    <3>1. PICK e \in Entries(t) : e[1] = m
      BY <1>1, <2>2
    <3>2. e \in Entries(p)
      BY <2>2, <3>1
    <3> QED
      BY <1>1, <2>2, <3>1, <3>2
  <2> QED
    BY <2>1, <2>2
<1> HIDE DEF D, a, b
<1>5. b = [m \in D |-> IF m = k THEN v ELSE a[m]]
  BY <1>1, <1>3, <1>4
<1> QED
  BY <1>5 DEF b, D, a, Assigned

-----------------------------------------------------------------------------
(* The invariant: while nothing has left the control bytes and the slots   *)
(* apart, the table is sound; in every state its numbers are in range.     *)

Typed(t) ==
  /\ t.cap \in Capacities \cup {0}
  /\ t.size \in 0 .. t.cap
  /\ t.growth \in 0 .. GrowthFor(t.cap)
  /\ DOMAIN t.slots = 0 .. t.cap - 1 \/ t = NoTable
  /\ DOMAIN t.ctrl = 0 .. t.cap + GroupWidth - 1 \/ t = NoTable

Inv == /\ Typed(table) /\ status \in {"whole", "torn", "cleared", "copied"}
       /\ Whole => Sound(table)

LEMMA SoundTyped == ASSUME NEW t, Sound(t) PROVE Typed(t)
<1>1. CASE t = NoTable
  <2>1. GrowthFor(0) = 0
    BY DEF GrowthFor
  <2> QED
    BY <1>1, <2>1, NoTableIs DEF Typed
<1>2. CASE Works(t)
  <2>1. t.cap \in Capacities /\ t.cap \in Nat /\ GrowthFor(t.cap) \in Nat /\ GrowthFor(t.cap) < t.cap
    BY <1>2, CapacityIs, Limit DEF Works, Laid, Mirrored
  <2>2. t.size \in Nat /\ t.growth \in Nat /\ Cardinality(Tombstones(t)) \in Nat
    BY <1>2, <2>1, SlotsFinite DEF Works, Counted
  <2>3. t.size + t.growth + Cardinality(Tombstones(t)) = GrowthFor(t.cap)
    BY <1>2 DEF Works, Counted
  <2>4. DOMAIN t.slots = 0 .. t.cap - 1 /\ DOMAIN t.ctrl = 0 .. t.cap + GroupWidth - 1
    BY <1>2 DEF Works, Shape
  <2> QED
    BY <2>1, <2>2, <2>3, <2>4 DEF Typed
<1> QED
  BY <1>1, <1>2 DEF Sound

-----------------------------------------------------------------------------
(* What each operation does to the entries. *)

LEMMA GrownInStep ==
  ASSUME Inv, Whole, MayGrow
  PROVE  LET t == Grown(table) IN
         Works(t) /\ t.growth > 0 /\ Entries(t) = Entries(table) /\ Sound(table)
BY GrownWorks DEF Inv, MayGrow

\* A new entry is put where a probe finds it.
LEMMA PutInStep ==
  ASSUME NEW t, Works(t), t.growth > 0, NEW k \in Key, NEW v \in Value, Absent(t, k)
  PROVE  LET p == Put(t, SlotForInsert(t, k), k, v) IN
         /\ Works(p) /\ Entries(p) = Entries(t) \cup {<<k, v>>}
         /\ \A e \in Entries(t) : e[1] # k
<1>1. PICK d \in 0 .. t.cap - 1 : /\ SlotForInsert(t, k) = Along(t, k, d)
                                   /\ Passes(t, k, d) /\ ~IsFull(t.ctrl[SlotForInsert(t, k)])
  BY InsertPlace
<1>2. \A e \in Entries(t) : e[1] # k
  BY DEF Entries, Absent, HoldsAt
<1> QED
  BY <1>1, <1>2, PutCounted

LEMMA InsertStep ==
  ASSUME Inv, NEW k \in Key, NEW v \in Value, Insert(k, v)
  PROVE  /\ Whole /\ status' = status /\ Sound(table) /\ Sound(table')
         /\ \/ Entries(table') = Entries(table)
            \/ /\ Entries(table') = Entries(table) \cup {<<k, v>>}
               /\ \A e \in Entries(table) : e[1] # k
<1> DEFINE t == Grown(table)  i == SlotForInsert(t, k)
<1>1. /\ Whole /\ MayGrow /\ status' = status
      /\ table' = IF IsFull(t.ctrl[i]) THEN t ELSE Put(t, i, k, v)
  BY DEF Insert, Become
<1>2. Works(t) /\ t.growth > 0 /\ Entries(t) = Entries(table) /\ Sound(table)
  BY <1>1, GrownInStep
<1> HIDE DEF t
<1>3. CASE Absent(t, k)
  <2>1. table' = Put(t, i, k, v)
    BY <1>1, <1>2, <1>3, InsertPlace
  <2>2. /\ Works(table') /\ Entries(table') = Entries(t) \cup {<<k, v>>}
        /\ \A e \in Entries(t) : e[1] # k
    BY <1>2, <1>3, <2>1, PutInStep
  <2> QED
    BY <1>1, <1>2, <2>2 DEF Sound
<1>4. CASE ~Absent(t, k)
  <2>1. table' = t
    BY <1>1, <1>2, <1>4, InsertPlace
  <2> QED
    BY <1>1, <1>2, <2>1 DEF Sound
<1> QED
  BY <1>3, <1>4

LEMMA AssignStep ==
  ASSUME Inv, NEW k \in Key, NEW v \in Value, Assign(k, v)
  PROVE  /\ Whole /\ status' = status /\ Sound(table) /\ Sound(table')
         /\ Entries(table') = {e \in Entries(table) : e[1] # k} \cup {<<k, v>>}
<1> DEFINE t == Grown(table)  i == SlotForInsert(t, k)
<1>1. /\ Whole /\ MayGrow /\ status' = status
      /\ table' = IF IsFull(t.ctrl[i]) THEN [t EXCEPT !.slots[i] = <<t.slots[i][1], v>>] ELSE Put(t, i, k, v)
  BY DEF Assign, Become
<1>2. Works(t) /\ t.growth > 0 /\ Entries(t) = Entries(table) /\ Sound(table)
  BY <1>1, GrownInStep
<1> HIDE DEF t
<1>3. CASE Absent(t, k)
  <2>1. table' = Put(t, i, k, v)
    BY <1>1, <1>2, <1>3, InsertPlace
  <2>2. /\ Works(table') /\ Entries(table') = Entries(t) \cup {<<k, v>>}
        /\ \A e \in Entries(t) : e[1] # k
    BY <1>2, <1>3, <2>1, PutInStep
  <2>3. Entries(t) = {e \in Entries(table) : e[1] # k}
    BY <1>2, <2>2
  <2> QED
    BY <1>1, <1>2, <2>2, <2>3 DEF Sound
<1>4. CASE ~Absent(t, k)
  <2>1. IsFull(t.ctrl[i]) /\ HoldsAt(t, k, i)
    BY <1>2, <1>4, InsertPlace
  <2>2. i \in Full(t) /\ t.slots[i][1] = k
    BY <2>1 DEF HoldsAt
  <2>3. table' = [t EXCEPT !.slots[i] = <<t.slots[i][1], v>>]
    BY <1>1, <2>1
  <2> HIDE DEF i
  <2>4. /\ Works(table') /\ Entries(table') = (Entries(t) \ {t.slots[i]}) \cup {<<t.slots[i][1], v>>}
    BY <1>2, <2>2, <2>3, AssignedWorks
  <2>5. Entries(t) \ {t.slots[i]} = {e \in Entries(t) : e[1] # k}
    <3>1. Single(t)
      BY <1>2 DEF Works, Laid
    <3>2. \A j \in Full(t) : t.slots[j] = t.slots[i] <=> t.slots[j][1] = k
      BY <2>2, <3>1 DEF Single
    <3> QED
      BY <3>2 DEF Entries
  <2> QED
    BY <1>1, <1>2, <2>2, <2>4, <2>5 DEF Sound
<1> QED
  BY <1>3, <1>4

LEMMA InsertThrowsStep ==
  ASSUME Inv, NEW k \in Key, InsertThrows(k)
  PROVE  status' = "torn" /\ Typed(table')
<1> DEFINE t == Grown(table)  i == SlotForInsert(t, k)  w == WithByte(t, i, Tag[k])
<1>1. Whole /\ MayGrow /\ status' = "torn" /\ table' = [t EXCEPT !.ctrl = w]
  BY DEF InsertThrows
<1>2. Works(t)
  BY <1>1, GrownInStep
<1>3. DOMAIN w = DOMAIN t.ctrl
  BY DEF WithByte
<1> HIDE DEF t, i, w
<1>4. Typed(t) /\ t # NoTable
  BY <1>2, SoundTyped, NoTableIs, CapacityIs DEF Sound, Works, Laid, Mirrored
<1>5. table'.ctrl = w /\ table'.slots = t.slots /\ table'.size = t.size /\ table'.growth = t.growth /\ table'.cap = t.cap
  <2> DEFINE a == t.ctrl  s == t.slots  n == t.size  g == t.growth  c == t.cap
  <2>1. t = [ctrl |-> a, slots |-> s, size |-> n, growth |-> g, cap |-> c]
    BY <1>2 DEF Works, Shape
  <2> HIDE DEF a, s, n, g, c
  <2>2. table' = [ctrl |-> w, slots |-> s, size |-> n, growth |-> g, cap |-> c]
    BY <1>1, <2>1
  <2> QED
    BY <2>1, <2>2
<1> QED
  BY <1>1, <1>3, <1>4, <1>5 DEF Typed

LEMMA TryEmplaceThrowsStep ==
  ASSUME Inv, NEW k \in Key, TryEmplaceThrows(k)
  PROVE  Whole /\ status' = status /\ Sound(table) /\ Sound(table') /\ Entries(table') = Entries(table)
<1>1. Whole /\ MayGrow /\ status' = status /\ table' = Grown(table)
  BY DEF TryEmplaceThrows, Become
<1> QED
  BY <1>1, GrownInStep DEF Sound

LEMMA EraseStep ==
  ASSUME Inv, NEW k \in Key, Erase(k)
  PROVE  /\ Whole /\ status' = status /\ Sound(table) /\ Sound(table')
         /\ Entries(table') = {e \in Entries(table) : e[1] \notin {k}}
         /\ \E e \in Entries(table) : e[1] = k
<1> DEFINE i == Find(table, k)
<1>1. Whole /\ status' = status /\ i >= 0 /\ table' = Erased(table, i) /\ Sound(table)
  BY DEF Erase, Become, Inv
<1>2. i \in Full(table) /\ table.slots[i][1] = k
  BY <1>1, FindIs DEF HoldsAt, NoSlot
<1> HIDE DEF i
<1>3. table # NoTable
  BY <1>2, NoTableIs
<1>4. Works(table) /\ Single(table)
  BY <1>1, <1>3, SoundIs
<1>5. Works(table') /\ Entries(table') = Entries(table) \ {table.slots[i]}
  BY <1>1, <1>2, <1>4, ErasedWorks
<1>6. \A j \in Full(table) : table.slots[j] = table.slots[i] <=> table.slots[j][1] = k
  BY <1>2, <1>4 DEF Single
<1>7. Entries(table) \ {table.slots[i]} = {e \in Entries(table) : e[1] \notin {k}}
  BY <1>6 DEF Entries
<1> QED
  BY <1>1, <1>2, <1>5, <1>7 DEF Sound, Entries

LEMMA EraseRangeStep ==
  ASSUME Inv, NEW first \in Full(table), NEW last \in Full(table) \cup {table.cap}, EraseRange(first, last)
  PROVE  /\ Whole /\ status' = status /\ Sound(table) /\ Sound(table')
         /\ Entries(table') = {e \in Entries(table) : e[1] \notin KeysIn(table, first .. last - 1)}
<1>1. Whole /\ status' = status /\ first < last /\ table' = RangeErased(table, first, last) /\ Sound(table)
  BY DEF EraseRange, Become, Inv
<1>2. Works(table) /\ Single(table) /\ table.cap \in Nat
  BY <1>1, SoundIs, NoTableIs
<1>3. first \in Nat /\ last \in Nat
  BY <1>2 DEF Full
<1>4. /\ Works(table') /\ Full(table') = Full(table) \ (first .. last - 1)
      /\ \A j \in Full(table') : table'.slots[j] = table.slots[j]
  BY <1>1, <1>2, <1>3, RangeWorks
<1> DEFINE R == first .. last - 1
<1>5. \A j \in Full(table) : table.slots[j][1] \in KeysIn(table, R) <=> j \in R
  BY <1>2 DEF KeysIn, Single
<1> HIDE DEF R
<1>6. Full(table') = Full(table) \ R
  BY <1>4 DEF R
<1>7. Entries(table') = {e \in Entries(table) : e[1] \notin KeysIn(table, R)}
  BY <1>4, <1>5, <1>6 DEF Entries
<1> QED
  BY <1>1, <1>4, <1>7 DEF Sound, R

LEMMA ClearStep ==
  ASSUME Inv, Clear
  PROVE  /\ Whole /\ Sound(table) /\ Typed(table') /\ status' \in {"whole", "cleared"}
         /\ Full(table') = {} /\ Entries(table') = {}
         /\ status' = "whole" => Sound(table')
<1> DEFINE p == Cleared(table)
<1>1. /\ Whole /\ Sound(table) /\ table.size > 0 /\ table' = p
      /\ status' = IF table' = Fresh(table.cap) THEN "whole" ELSE "cleared"
  BY DEF Clear, Inv
<1>2. Works(table) /\ table.cap \in Capacities
  BY <1>1, SoundIs, NoTableIs
<1>3. /\ DOMAIN p.ctrl = DOMAIN table.ctrl /\ DOMAIN p.slots = DOMAIN table.slots /\ p.size = 0
      /\ p.growth = GrowthFor(table.cap) /\ p.cap = table.cap
  BY DEF Cleared
<1>7. p.ctrl = [i \in DOMAIN table.ctrl |-> IF i \in Full(table) THEN Empty ELSE table.ctrl[i]]
  BY DEF Cleared
<1> HIDE DEF p
<1>8. Full(p) = {}
  <2>1. table.cap \in Nat /\ GroupWidth \in Nat /\ DOMAIN table.ctrl = 0 .. table.cap + GroupWidth - 1
    BY <1>2, CapacityIs, Widths DEF Works, Shape
  <2> SUFFICES ASSUME NEW i \in 0 .. table.cap - 1 PROVE ~IsFull(p.ctrl[i])
    BY <1>3 DEF Full
  <2>2. p.ctrl[i] = IF i \in Full(table) THEN Empty ELSE table.ctrl[i]
    BY <1>7, <2>1
  <2> QED
    BY <2>2 DEF Full, IsFull
<1>9. Full(table') = {} /\ Entries(table') = {}
  BY <1>1, <1>8 DEF Entries
<1>4. Typed(p)
  <2>1. GrowthFor(table.cap) \in Nat /\ table.cap \in Nat
    BY <1>2, CapacityIs, Limit
  <2> QED
    BY <1>2, <1>3, <2>1 DEF Typed, Works, Shape
<1>5. CASE table' = Fresh(table.cap)
  BY <1>1, <1>2, <1>4, <1>5, <1>9, FreshWorks DEF Sound
<1>6. CASE table' # Fresh(table.cap)
  BY <1>1, <1>4, <1>6, <1>9
<1> QED
  BY <1>5, <1>6

LEMMA CopyStep ==
  ASSUME Inv, Copy
  PROVE  /\ Whole /\ Sound(table) /\ Typed(table') /\ status' \in {"whole", "copied"}
         /\ status' = "whole" => Sound(table') /\ Entries(table') = Entries(table)
<1>1. /\ Whole /\ Sound(table) /\ table' = CopyOf(table)
      /\ status' = IF table' \in {table, NoTable} THEN "whole" ELSE "copied"
  BY DEF Copy, Inv
<1>2. CASE table.size = 0
  <2>1. table' = NoTable
    BY <1>1, <1>2 DEF CopyOf
  <2>2. Full(table) = {}
    BY <1>1, <1>2, SoundIs, FS_EmptySet
  <2>3. Entries(table) = {} /\ Entries(table') = {}
    BY <2>1, <2>2, NoTableIs DEF Entries
  <2> QED
    BY <1>1, <2>1, <2>3, SoundTyped DEF Sound
<1>3. CASE table.size # 0
  <2> DEFINE p == Copied(table)
  <2>1. table' = p
    BY <1>1, <1>3 DEF CopyOf
  <2>2. /\ DOMAIN p.ctrl = DOMAIN table.ctrl /\ p.slots = table.slots /\ p.size = table.size
        /\ p.growth = table.growth /\ p.cap = table.cap
    BY DEF Copied
  <2>3. table' # NoTable /\ table # NoTable
    BY <1>3, <2>1, <2>2, NoTableIs
  <2> HIDE DEF p
  <2>4. Typed(table')
    BY <1>1, <2>1, <2>2, <2>3, SoundTyped DEF Typed
  <2> QED
    BY <1>1, <2>3, <2>4
<1> QED
  BY <1>2, <1>3

LEMMA MovedFromStep ==
  ASSUME Inv, MovedFrom
  PROVE  Whole /\ status' = status /\ Sound(table) /\ Sound(table') /\ Entries(table') = {}
BY NoTableIs DEF MovedFrom, Become, Inv, Sound

LEMMA RehashStep ==
  ASSUME Inv, NEW n \in 0 .. MaxCapacity, Rehash(n) \/ Reserve(n)
  PROVE  Whole /\ status' = status /\ Sound(table) /\ Sound(table') /\ Entries(table') = Entries(table)
<1>1. Whole /\ status' = status /\ Sound(table)
  BY DEF Rehash, Reserve, Become, Inv
<1> DEFINE C == GroupWidth * 256
<1>2. C \in Capacities /\ C \in Nat /\ n \in Nat /\ 2 * n <= C
  <2>1. 256 \in Power
    BY DEF Power
  <2>2. C \in Capacities
    BY <2>1, CapacitiesAre
  <2>3. 2 ^ 8 = 256
    OBVIOUS
  <2>4. MaxCapacity \in Nat /\ 2 * MaxCapacity <= C
    BY <2>3, Bounded
  <2>5. C \in Nat
    BY <2>2, CapacityIs
  <2> HIDE DEF C
  <2> QED
    BY <2>2, <2>4, <2>5
<1> HIDE DEF C
<1>3. CASE Rehash(n)
  <2>1. table' = RehashTo(n)
    BY <1>3 DEF Rehash, Become
  <2>2. C >= n
    BY <1>2
  <2> QED
    BY <1>1, <1>2, <2>1, <2>2, RehashToWorks
<1>4. CASE Reserve(n)
  <2>1. table' = RehashTo(Required(n)) /\ Required(n) > table.cap
    BY <1>4 DEF Reserve, Become
  <2>2. Needed(n) \in Nat /\ Needed(n) <= 2 * n
    BY <1>2, NeededIs
  <2>3. C >= Needed(n)
    BY <1>2, <2>2
  <2>4. Required(n) \in Capacities \cup {0}
    BY <1>2, <2>3, RequiredIs
  <2>5. Required(n) \in Nat /\ \E c \in Capacities : c >= Required(n)
    <3>1. CASE Required(n) = 0
      BY <1>2, <3>1
    <3>2. CASE Required(n) \in Capacities
      <4>1. Required(n) \in Nat
        BY <3>2, CapacityIs
      <4>2. Required(n) >= Required(n)
        BY <4>1
      <4> QED
        BY <3>2, <4>1, <4>2
    <3> QED
      BY <2>4, <3>1, <3>2
  <2> QED
    BY <1>1, <2>1, <2>5, RehashToWorks
<1> QED
  BY <1>3, <1>4

-----------------------------------------------------------------------------
(* The theorems *)

\* In every state the numbers of the table are in range, and until a call has left the control bytes and the slots
\* apart (dense_map.hpp:2080, 863, 1274) the table is sound: the invariant the theorems below rest on.
THEOREM SwissTableInvariance == Spec => []Inv
<1>1. Init => Inv
  <2> SUFFICES ASSUME Init PROVE Inv
    OBVIOUS
  <2>1. table = NoTable /\ Sound(NoTable) /\ status = "whole"
    BY DEF Init, Sound
  <2> QED
    BY <2>1, SoundTyped DEF Inv
<1>2. Inv /\ [Next]_vars => Inv'
  <2> SUFFICES ASSUME Inv, [Next]_vars PROVE Inv'
    OBVIOUS
  <2>1. ASSUME Sound(table'), status' = status, Whole PROVE Inv'
    BY <2>1, SoundTyped DEF Inv, Whole
  <2>2. ASSUME NEW k \in Key, NEW v \in Value, Insert(k, v) PROVE Inv'
    BY <2>1, <2>2, InsertStep
  <2>3. ASSUME NEW k \in Key, NEW v \in Value, Assign(k, v) PROVE Inv'
    BY <2>1, <2>3, AssignStep
  <2>4. ASSUME NEW k \in Key, InsertThrows(k) PROVE Inv'
    BY <2>4, InsertThrowsStep DEF Inv, Whole
  <2>5. ASSUME NEW k \in Key, TryEmplaceThrows(k) PROVE Inv'
    BY <2>1, <2>5, TryEmplaceThrowsStep
  <2>6. ASSUME NEW k \in Key, Erase(k) PROVE Inv'
    BY <2>1, <2>6, EraseStep
  <2>7. ASSUME NEW n \in 0 .. MaxCapacity, Rehash(n) \/ Reserve(n) PROVE Inv'
    BY <2>1, <2>7, RehashStep
  <2>8. ASSUME NEW first \in Full(table), NEW last \in Full(table) \cup {table.cap}, EraseRange(first, last)
        PROVE  Inv'
    BY <2>1, <2>8, EraseRangeStep
  <2>9. CASE Clear
    BY <2>9, ClearStep DEF Inv, Whole
  <2>10. CASE Copy
    BY <2>10, CopyStep DEF Inv, Whole
  <2>11. CASE MovedFrom
    BY <2>1, <2>11, MovedFromStep
  <2>12. CASE UNCHANGED vars
    BY <2>12 DEF Inv, Whole, vars
  <2> QED
    BY <2>2, <2>3, <2>4, <2>5, <2>6, <2>7, <2>8, <2>9, <2>10, <2>11, <2>12 DEF Next
<1> QED
  BY <1>1, <1>2, PTL DEF Spec

\* The capacity stays one that try_normalize_capacity yields, and growth_left_ neither passes the load limit nor wraps
\* below zero, however inserts, erases and rehashes follow each other.
THEOREM SwissTableTypeCorrect == Spec => []TypeOK
<1>1. Inv => TypeOK
  BY DEF Inv, Typed, TypeOK
<1> QED
  BY <1>1, SwissTableInvariance, PTL

\* A lookup (find_prehashed_impl, dense_map.hpp:1936) ends, finds a key that is there and none that is not: erase_at
\* never makes a byte empty that the probe of another key must pass.
THEOREM SwissTableLookupsAreRight == Spec => []LookupsRight
<1>1. Inv => LookupsRight
  BY FindIs DEF Inv, LookupsRight, Lookup
<1> QED
  BY <1>1, SwissTableInvariance, PTL

\* find_slot_for_insert (dense_map.hpp:2015) returns the slot of a key that is there and else a free one, by the fast
\* path of an empty home slot too: no key is stored twice, no entry is overwritten, no probe goes on for ever.
THEOREM SwissTableInsertsAreRight == Spec => []InsertsRight
<1>1. Inv => InsertsRight
  <2> SUFFICES ASSUME Inv, Whole, table.cap > 0, NEW k \in Key
               PROVE  LET i == SlotForInsert(table, k) IN
                      /\ i >= 0
                      /\ IF Holder(table, k) = NoSlot THEN ~IsFull(table.ctrl[i]) ELSE i = Holder(table, k)
    BY DEF InsertsRight
  <2> DEFINE i == SlotForInsert(table, k)
  <2>1. Sound(table) /\ table # NoTable
    BY NoTableIs DEF Inv
  <2>2. Works(table) /\ table.cap \in Nat /\ Single(table)
    BY <2>1, SoundIs
  <2>3. /\ i \in 0 .. table.cap - 1
        /\ IF Absent(table, k) THEN ~IsFull(table.ctrl[i]) ELSE HoldsAt(table, k, i)
    BY <2>2, InsertPlace
  <2> HIDE DEF i
  <2>4. IF Absent(table, k) THEN Holder(table, k) = NoSlot
                            ELSE Holder(table, k) \in 0 .. table.cap - 1 /\ HoldsAt(table, k, Holder(table, k))
    BY <2>1, FindIs
  <2>5. \A x, y : HoldsAt(table, k, x) /\ HoldsAt(table, k, y) => x = y
    BY <2>2 DEF HoldsAt, Single
  <2>6. NoSlot \notin 0 .. table.cap - 1
    BY DEF NoSlot
  <2>7. i >= 0
    BY <2>2, <2>3
  <2> QED
    BY <2>3, <2>4, <2>5, <2>6, <2>7 DEF i
<1> QED
  BY <1>1, SwissTableInvariance, PTL

\* Entries, tombstones and growth_left_ make up the load limit after every mix of inserts, erases and rehashes
\* (dense_map.hpp:2089, 2362): empty bytes, which end the probes, are never used up.
THEOREM SwissTableBudgetIsKept == Spec => []BudgetKept
<1>1. Inv => BudgetKept
  <2> SUFFICES ASSUME Inv, Whole
               PROVE  table.size + table.growth + Cardinality(Tombstones(table)) = GrowthFor(table.cap)
    BY DEF BudgetKept
  <2>1. CASE table = NoTable
    <3>1. 0 .. 0 - 1 = {} /\ Tombstones(table) \subseteq 0 .. table.cap - 1
      BY DEF Tombstones
    <3>2. Cardinality(Tombstones(table)) = 0
      BY <2>1, <3>1, NoTableIs, FS_EmptySet
    <3>3. GrowthFor(0) = 0
      BY DEF GrowthFor
    <3> QED
      BY <2>1, <3>2, <3>3, NoTableIs
  <2>2. CASE Works(table)
    BY <2>2 DEF Works, Counted
  <2> QED
    BY <2>1, <2>2 DEF Inv, Sound
<1> QED
  BY <1>1, SwissTableInvariance, PTL

\* An erase and a range of erases take the entries they were asked to take; a rehash, an insertion that throws before
\* it publishes and a copy that stays whole take none; clear and a move take all.
THEOREM SwissTableTakesOnlyAsked == Spec => TakesOnlyAsked
<1> DEFINE Asked ==
      LET Becomes(c) == Content(table') = c IN
      /\ \A k \in Key : Erase(k) => Becomes(Without(table, {k}))
      /\ \A first \in Full(table), last \in Full(table) \cup {table.cap} :
           EraseRange(first, last) => Becomes(Without(table, KeysIn(table, first .. last - 1)))
      /\ \A n \in 0 .. MaxCapacity : Rehash(n) \/ Reserve(n) => Becomes(Content(table))
      /\ \A k \in Key : TryEmplaceThrows(k) => Becomes(Content(table))
      /\ Copy /\ Whole' => Becomes(Content(table))
      /\ Clear \/ MovedFrom => Becomes(Without(table, Key))
<1>1. Inv => Asked
  <2> SUFFICES ASSUME Inv PROVE Asked
    OBVIOUS
  <2>1. ASSUME NEW k \in Key, Erase(k) PROVE Content(table') = Without(table, {k})
    BY <2>1, EraseStep, LessContent
  <2>2. ASSUME NEW first \in Full(table), NEW last \in Full(table) \cup {table.cap}, EraseRange(first, last)
        PROVE  Content(table') = Without(table, KeysIn(table, first .. last - 1))
    BY <2>2, EraseRangeStep, LessContent
  <2>3. ASSUME NEW n \in 0 .. MaxCapacity, Rehash(n) \/ Reserve(n) PROVE Content(table') = Content(table)
    BY <2>3, RehashStep, SameContent
  <2>4. ASSUME NEW k \in Key, TryEmplaceThrows(k) PROVE Content(table') = Content(table)
    BY <2>4, TryEmplaceThrowsStep, SameContent
  <2>5. ASSUME Copy, Whole' PROVE Content(table') = Content(table)
    BY <2>5, CopyStep, SameContent DEF Whole
  <2>6. ASSUME Clear \/ MovedFrom PROVE Content(table') = Without(table, Key)
    <3>1. Sound(table) /\ Full(table') = {}
      BY <2>6, ClearStep, MovedFromStep, NoTableIs DEF MovedFrom, Become
    <3>2. Held(table') = {}
      BY <3>1 DEF Held
    <3>3. DOMAIN Content(table) \ Key = {}
      <4>1. \A e \in Entries(table) : e[1] \in Key
        BY <3>1, ContentIs
      <4>2. DOMAIN Content(table) = {e[1] : e \in Entries(table)}
        BY <3>1, ContentIs
      <4> QED
        BY <4>1, <4>2
    <3> QED
      BY <3>2, <3>3 DEF Content, Without
  <2> QED
    BY <2>1, <2>2, <2>3, <2>4, <2>5, <2>6
<1> QED
  BY <1>1, SwissTableInvariance, PTL DEF TakesOnlyAsked

\* The inline dense_map is an unordered map: each step of its operations is a step of UnorderedMap or none.
THEOREM SwissTableImplementsMap == Spec => ImplementsMap
<1>1. Init => Map!MapInit
  <2> SUFFICES ASSUME Init PROVE Content(table) = Map!Nothing /\ Whole = TRUE
    BY DEF Map!MapInit
  <2>1. table = NoTable /\ status = "whole"
    BY DEF Init
  <2>2. Held(table) = {}
    BY <2>1, NoTableIs DEF Held
  <2> QED
    BY <2>1, <2>2 DEF Content, Map!Nothing, Whole
<1>2. Inv /\ [Next]_vars => [Map!MapNext]_(Map!mapVars)
  <2> SUFFICES ASSUME Inv, [Next]_vars PROVE Map!MapNext \/ UNCHANGED Map!mapVars
    OBVIOUS
  <2> DEFINE a == Content(table)  b == Content(table')
  <2>1. ASSUME status' = status, b = a PROVE UNCHANGED Map!mapVars
    BY <2>1 DEF Map!mapVars, Whole
  <2>2. ASSUME ~Whole' PROVE Map!MapNext
    BY <2>2 DEF Map!MapNext
  <2>3. ASSUME Whole, Whole', NEW K, b = Without(table, K) PROVE Map!MapNext
    <3>1. Map!EraseIf
      <4>1. Map!Bound \ K \in SUBSET Map!Bound /\ b = [m \in Map!Bound \ K |-> a[m]]
        BY <2>3 DEF Map!Bound, Without
      <4> QED
        BY <4>1 DEF Map!EraseIf
    <3> QED
      BY <2>3, <3>1 DEF Map!MapNext
  <2>4. ASSUME Whole, status' = status, NEW k \in Key, NEW v \in Value,
               b = Assigned(a, k, v)
        PROVE  Map!MapNext
    <3>1. Map!Assign(k, v)
      BY <2>4 DEF Map!Assign, Map!With, Map!Bound, Assigned
    <3>2. Whole'
      BY <2>4 DEF Whole
    <3> QED
      BY <2>4, <3>1, <3>2 DEF Map!MapNext
  <2>5. ASSUME NEW k \in Key, NEW v \in Value, Insert(k, v) PROVE Map!MapNext \/ UNCHANGED Map!mapVars
    <3>1. Whole /\ status' = status /\ Sound(table) /\ Sound(table')
      BY <2>5, InsertStep
    <3>2. CASE Entries(table') = Entries(table)
      BY <2>1, <3>1, <3>2, SameContent
    <3>3. CASE /\ Entries(table') = Entries(table) \cup {<<k, v>>}
               /\ \A e \in Entries(table) : e[1] # k
      <4>1. Entries(table') = {e \in Entries(table) : e[1] # k} \cup {<<k, v>>}
        BY <3>3
      <4>2. b = Assigned(a, k, v)
        BY <3>1, <4>1, MoreContent
      <4>5. k \notin DOMAIN a
        <5>1. DOMAIN a = {e[1] : e \in Entries(table)}
          BY <3>1, ContentIs
        <5> QED
          BY <3>3, <5>1
      <4>3. Map!Insert(k, v)
        BY <4>2, <4>5 DEF Map!Insert, Map!With, Map!Bound, Assigned
      <4>4. Whole'
        BY <3>1 DEF Whole
      <4> QED
        BY <3>1, <4>3, <4>4 DEF Map!MapNext
    <3> QED
      BY <2>5, <3>2, <3>3, InsertStep
  <2>6. ASSUME NEW k \in Key, NEW v \in Value, Assign(k, v) PROVE Map!MapNext
    <3>1. /\ Whole /\ status' = status
          /\ b = Assigned(a, k, v)
      <4>1. /\ Whole /\ status' = status /\ Sound(table) /\ Sound(table')
            /\ Entries(table') = {e \in Entries(table) : e[1] # k} \cup {<<k, v>>}
        BY <2>6, AssignStep
      <4>2. b = Assigned(a, k, v)
        BY <4>1, MoreContent
      <4> QED
        BY <4>1, <4>2
    <3> HIDE DEF a, b
    <3> QED
      BY <2>4, <3>1
  <2>7. ASSUME NEW k \in Key, InsertThrows(k) PROVE Map!MapNext
    BY <2>2, <2>7, InsertThrowsStep DEF Whole
  <2>8. ASSUME NEW k \in Key, TryEmplaceThrows(k) PROVE UNCHANGED Map!mapVars
    BY <2>1, <2>8, TryEmplaceThrowsStep, SameContent
  <2>9. ASSUME NEW k \in Key, Erase(k) PROVE Map!MapNext
    <3>1. Whole /\ status' = status /\ Sound(table) /\ b = Without(table, {k}) /\ k \in DOMAIN a
      <4>1. /\ Whole /\ status' = status /\ Sound(table) /\ Sound(table')
            /\ Entries(table') = {e \in Entries(table) : e[1] \notin {k}}
            /\ \E e \in Entries(table) : e[1] = k
        BY <2>9, EraseStep
      <4>2. b = Without(table, {k})
        BY <4>1, LessContent
      <4>3. DOMAIN a = {e[1] : e \in Entries(table)}
        BY <4>1, ContentIs
      <4> QED
        BY <4>1, <4>2, <4>3
    <3>2. Map!Erase(k)
      BY <3>1 DEF Map!Erase, Map!Without, Map!Bound, Without
    <3>3. Whole'
      BY <3>1 DEF Whole
    <3> QED
      BY <3>1, <3>2, <3>3 DEF Map!MapNext
  <2>10. ASSUME NEW n \in 0 .. MaxCapacity, Rehash(n) \/ Reserve(n) PROVE UNCHANGED Map!mapVars
    BY <2>1, <2>10, RehashStep, SameContent
  <2>11. ASSUME NEW first \in Full(table), NEW last \in Full(table) \cup {table.cap}, EraseRange(first, last)
         PROVE  Map!MapNext
    <3>1. /\ Whole /\ status' = status /\ b = Without(table, KeysIn(table, first .. last - 1))
      BY <2>11, EraseRangeStep, LessContent
    <3>2. Whole'
      BY <3>1 DEF Whole
    <3> QED
      BY <2>3, <3>1, <3>2
  <2>12. ASSUME Clear \/ MovedFrom PROVE Map!MapNext
    <3>1. CASE Whole'
      <4>1. /\ Whole /\ Sound(table) /\ Sound(table') /\ Entries(table') = {}
        BY <2>12, <3>1, ClearStep, MovedFromStep DEF Whole
      <4>2. Entries(table') = {e \in Entries(table) : e[1] \notin Key}
        BY <4>1, ContentIs
      <4>3. b = Without(table, Key)
        BY <4>1, <4>2, LessContent
      <4> QED
        BY <2>3, <3>1, <4>1, <4>3
    <3>2. CASE ~Whole'
      BY <2>2, <3>2
    <3> QED
      BY <3>1, <3>2
  <2>13. CASE Copy
    <3>1. CASE Whole'
      <4>1. b = a /\ status' = status
        BY <2>13, <3>1, CopyStep, SameContent DEF Whole
      <4> QED
        BY <2>1, <4>1
    <3>2. CASE ~Whole'
      BY <2>2, <3>2
    <3> QED
      BY <3>1, <3>2
  <2>14. CASE UNCHANGED vars
    BY <2>1, <2>14 DEF vars
  <2> QED
    BY <2>5, <2>6, <2>7, <2>8, <2>9, <2>10, <2>11, <2>12, <2>13, <2>14 DEF Next
<1> QED
  BY <1>1, <1>2, SwissTableInvariance, PTL DEF Spec, ImplementsMap, Map!MapSpec
=============================================================================
