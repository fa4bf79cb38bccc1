--------------------------- MODULE FlatMapProofs ---------------------------
(***************************************************************************)
(* What the Robin Hood table of flat_map promises, for every set of keys,  *)
(* every hash and every load factor that leaves a bucket empty.            *)
(*                                                                         *)
(* The loops are recursive functions of their turns: what one turn keeps   *)
(* is a lemma (CarryStep, PlaceOne), and the least turn that would break   *)
(* it gives the contradiction (LeastNumber).  Good is what the buckets     *)
(* keep, Stands adds that the first n entries have theirs, Laid adds the   *)
(* entries, and Works the room for one more.                               *)
(***************************************************************************)
EXTENDS FlatMap, WellFoundedInduction, FiniteSetTheorems, TLAPS

-----------------------------------------------------------------------------
(* Numbers. *)

LEMMA MinIs ==
  ASSUME NEW S \in SUBSET Int, NEW x \in S, \A y \in S : x <= y
  PROVE  Min(S) = x
<1>1. \A z \in S : (\A y \in S : z <= y) => z = x
  <2> SUFFICES ASSUME NEW z \in S, \A y \in S : z <= y PROVE z = x
    OBVIOUS
  <2>1. z <= x /\ x <= z /\ x \in Int /\ z \in Int
    OBVIOUS
  <2> QED
    BY <2>1
<1>2. \E z \in S : \A y \in S : z <= y
  OBVIOUS
<1>3. Min(S) \in S /\ \A y \in S : Min(S) <= y
  BY <1>2, Zenon DEF Min
<1> QED
  BY <1>1, <1>3

LEMMA LeastNumber == ASSUME NEW S \in SUBSET Nat, S # {} PROVE \E x \in S : \A y \in S : x <= y
<1> DEFINE R == OpToRel(<, Nat)
<1>1. PICK x \in S : \A y \in S : ~(<<y, x>> \in R)
  BY NatLessThanWellFounded, WFMin
<1>2. \A y \in S : ~(y < x)
  BY <1>1 DEF OpToRel
<1> QED
  BY <1>2

LEMMA MinOf ==
  ASSUME NEW S \in SUBSET Nat, S # {}
  PROVE  Min(S) \in S /\ \A y \in S : Min(S) <= y
<1>1. PICK x \in S : \A y \in S : x <= y
  BY LeastNumber
<1> QED
  BY <1>1, MinIs

LEMMA PowersAre == Powers = {1, 2, 4, 8, 16, 32, 64, 128, 256}
<1>1. /\ 2 ^ 0 = 1 /\ 2 ^ 1 = 2 /\ 2 ^ 2 = 4 /\ 2 ^ 3 = 8 /\ 2 ^ 4 = 16
      /\ 2 ^ 5 = 32 /\ 2 ^ 6 = 64 /\ 2 ^ 7 = 128 /\ 2 ^ 8 = 256
  OBVIOUS
<1>2. 0 .. 8 = {0, 1, 2, 3, 4, 5, 6, 7, 8}
  OBVIOUS
<1>3. Powers = {2 ^ e : e \in {0, 1, 2, 3, 4, 5, 6, 7, 8}}
  BY <1>2, Zenon DEF Powers
<1>4. Powers = {2 ^ 0, 2 ^ 1, 2 ^ 2, 2 ^ 3, 2 ^ 4, 2 ^ 5, 2 ^ 6, 2 ^ 7, 2 ^ 8}
  BY <1>3, Zenon
<1> QED
  BY <1>1, <1>4, Zenon

LEMMA PowerIs == ASSUME NEW c \in Powers PROVE c \in Nat \ {0} /\ (2 * c <= 256 => 2 * c \in Powers)
BY PowersAre

LEMMA Divides ==
  ASSUME NEW a \in Nat, NEW c \in Nat \ {0}
  PROVE  a % c \in 0 .. c-1 /\ a \div c \in Nat /\ a = (a \div c) * c + (a % c)
OBVIOUS

LEMMA Remainder ==
  ASSUME NEW q \in Nat, NEW c \in Nat \ {0}, NEW r \in 0 .. c-1
  PROVE  (q * c + r) % c = r
OBVIOUS

\* Going round a table of c buckets from a place beyond its end.
LEMMA GoesRound ==
  ASSUME NEW a \in Nat, NEW c \in Nat \ {0}, NEW d \in 0..c-1
  PROVE  a % c \in 0 .. c-1 /\ (a + d) % c = (IF (a % c) + d < c THEN (a % c) + d ELSE (a % c) + d - c)
<1> DEFINE q == a \div c  r == a % c
<1>1. r \in 0 .. c - 1 /\ q \in Nat /\ a = q * c + r
  BY Divides
<1> HIDE DEF q, r
<1>2. CASE r + d < c
  <2>1. r + d \in 0 .. c - 1
    BY <1>1, <1>2
  <2>2. a + d = q * c + (r + d)
    BY <1>1
  <2>3. (a + d) % c = r + d
    BY <1>1, <2>1, <2>2, Remainder
  <2> QED
    BY <1>1, <1>2, <2>3 DEF r
<1>3. CASE ~(r + d < c)
  <2>1. r + d - c \in 0 .. c - 1 /\ q + 1 \in Nat
    BY <1>1, <1>3
  <2>2. (q + 1) * c = q * c + c
    BY <1>1
  <2>3. a + d = (q + 1) * c + (r + d - c)
    BY <1>1, <2>2
  <2>4. ((q + 1) * c + (r + d - c)) % c = r + d - c
    BY <2>1, Remainder
  <2>5. (a + d) % c = r + d - c
    BY <2>3, <2>4
  <2> QED
    BY <1>1, <1>3, <2>5 DEF r
<1> QED
  BY <1>2, <1>3

-----------------------------------------------------------------------------
(* The buckets lie in a ring: what is n steps behind h, and what is next.  *)

Pos(h, n, c) == (h + n) % c
Nxt(b, c) == IF b + 1 = c THEN 0 ELSE b + 1

LEMMA PosIs ==
  ASSUME NEW c \in Nat \ {0}, NEW h \in Nat, NEW n \in 0 .. c - 1
  PROVE  /\ h % c \in 0 .. c - 1
         /\ Pos(h, n, c) = (IF (h % c) + n < c THEN (h % c) + n ELSE (h % c) + n - c)
BY GoesRound DEF Pos

LEMMA PosIn ==
  ASSUME NEW c \in Nat \ {0}, NEW h \in Nat, NEW n \in Nat
  PROVE  Pos(h, n, c) \in 0 .. c - 1
<1>1. h + n \in Nat
  OBVIOUS
<1> QED
  BY <1>1, Divides DEF Pos

LEMMA PosNext ==
  ASSUME NEW c \in Nat \ {0}, NEW h \in Nat, NEW n \in Nat
  PROVE  Pos(h, n + 1, c) = Nxt(Pos(h, n, c), c)
<1> DEFINE a == h + n
<1>1. a \in Nat /\ a % c \in 0 .. c - 1 /\ h + (n + 1) = a + 1
  BY Divides
<1>2. Pos(h, n + 1, c) = (a + 1) % c /\ Pos(h, n, c) = a % c
  BY <1>1 DEF Pos
<1> HIDE DEF a
<1>3. CASE c = 1
  <2>1. (a + 1) % c = 0 /\ a % c = 0
    BY <1>1, <1>3
  <2> QED
    BY <1>2, <1>3, <2>1 DEF Nxt
<1>4. CASE c # 1
  <2>1. 1 \in 0 .. c - 1
    BY <1>4
  <2>2. (a + 1) % c = (IF (a % c) + 1 < c THEN (a % c) + 1 ELSE (a % c) + 1 - c)
    BY <1>1, <2>1, GoesRound
  <2> QED
    BY <1>1, <1>2, <2>2 DEF Nxt
<1> QED
  BY <1>3, <1>4

LEMMA NxtIn == ASSUME NEW c \in Nat \ {0}, NEW b \in 0 .. c - 1 PROVE Nxt(b, c) \in 0 .. c - 1
BY DEF Nxt

LEMMA NxtOnce ==
  ASSUME NEW c \in Nat \ {0}, NEW a \in 0 .. c - 1, NEW b \in 0 .. c - 1, Nxt(a, c) = Nxt(b, c)
  PROVE  a = b
BY DEF Nxt

LEMMA PosOnce ==
  ASSUME NEW c \in Nat \ {0}, NEW h \in Nat, NEW n \in 0 .. c - 1, NEW m \in 0 .. c - 1, Pos(h, n, c) = Pos(h, m, c)
  PROVE  n = m
<1> DEFINE r == h % c
<1>1. /\ r \in 0 .. c - 1
      /\ Pos(h, n, c) = (IF r + n < c THEN r + n ELSE r + n - c)
      /\ Pos(h, m, c) = (IF r + m < c THEN r + m ELSE r + m - c)
  BY PosIs
<1>2. r \in Nat /\ n \in Nat /\ m \in Nat /\ n < c /\ m < c /\ r < c /\ c \in Nat
  BY <1>1
<1> HIDE DEF r
<1>3. CASE r + n < c /\ r + m < c
  <2>1. r + n = r + m
    BY <1>1, <1>3
  <2> QED
    BY <1>2, <2>1
<1>4. CASE r + n < c /\ ~(r + m < c)
  <2>1. r + n = r + m - c
    BY <1>1, <1>4
  <2> QED
    BY <1>2, <2>1
<1>5. CASE ~(r + n < c) /\ r + m < c
  <2>1. r + n - c = r + m
    BY <1>1, <1>5
  <2> QED
    BY <1>2, <2>1
<1>6. CASE ~(r + n < c) /\ ~(r + m < c)
  <2>1. r + n - c = r + m - c
    BY <1>1, <1>6
  <2> QED
    BY <1>2, <2>1
<1> QED
  BY <1>3, <1>4, <1>5, <1>6

LEMMA PosEvery ==
  ASSUME NEW c \in Nat \ {0}, NEW h \in Nat, NEW b \in 0 .. c - 1
  PROVE  \E n \in 0 .. c - 1 : Pos(h, n, c) = b
<1> DEFINE r == h % c
           n == IF b >= r THEN b - r ELSE b + c - r
<1>1. r \in 0 .. c - 1
  BY Divides
<1>2. n \in 0 .. c - 1
  BY <1>1
<1>3. Pos(h, n, c) = (IF r + n < c THEN r + n ELSE r + n - c)
  BY <1>2, PosIs
<1>4. Pos(h, n, c) = b
  <2> HIDE DEF r
  <2> QED
    BY <1>1, <1>3
<1> QED
  BY <1>2, <1>4

\* From a bucket of the ring itself.
LEMMA PosFrom ==
  ASSUME NEW c \in Nat \ {0}, NEW b \in 0 .. c - 1, NEW n \in 0 .. c - 1
  PROVE  Pos(b, n, c) = (IF b + n < c THEN b + n ELSE b + n - c)
<1>1. b % c = b /\ b \in Nat
  BY \A m \in Nat \ {0}, y \in Nat : y < m => y % m = y
<1> QED
  BY <1>1, PosIs

LEMMA NxtIs ==
  ASSUME NEW c \in Nat \ {0}, NEW b \in 0 .. c - 1
  PROVE  (b + 1) % c = Nxt(b, c)
<1>1. Pos(b, 0, c) = b
  BY PosFrom
<1>2. Pos(b, 0 + 1, c) = Nxt(b, c)
  BY <1>1, PosNext
<1> QED
  BY <1>2 DEF Pos

\* How far a is behind b.
LEMMA OffsetIs ==
  ASSUME NEW c \in Nat \ {0}, NEW a \in 0 .. c - 1, NEW b \in 0 .. c - 1
  PROVE  (a - b) % c = (IF a >= b THEN a - b ELSE a - b + c)
<1>1. CASE a >= b
  <2>1. a - b \in Nat /\ a - b < c
    BY <1>1
  <2> QED
    BY <1>1, <2>1, \A m \in Nat \ {0}, y \in Nat : y < m => y % m = y
<1>2. CASE a < b
  <2> DEFINE r == a - b + c
  <2>1. r \in Nat /\ r < c /\ a - b = (-1) * c + r
    BY <1>2
  <2>2. \A m \in Nat \ {0}, y \in Nat : y < m => ((-1) * m + y) % m = y
    OBVIOUS
  <2> QED
    BY <1>2, <2>1, <2>2
<1> QED
  BY <1>1, <1>2

LEMMA OffsetPos ==
  ASSUME NEW c \in Nat \ {0}, NEW a \in 0 .. c - 1, NEW b \in 0 .. c - 1
  PROVE  /\ (a - b) % c \in 0 .. c - 1
         /\ Pos(b, (a - b) % c, c) = a
         /\ \A n \in 0 .. c - 1 : Pos(b, n, c) = a => (a - b) % c = n
<1> DEFINE o == (a - b) % c
<1>1. o = (IF a >= b THEN a - b ELSE a - b + c)
  BY OffsetIs
<1>2. o \in 0 .. c - 1
  BY <1>1
<1>3. Pos(b, o, c) = a
  BY <1>1, <1>2, PosFrom
<1> QED
  BY <1>2, <1>3, PosOnce

-----------------------------------------------------------------------------
(* Robin Hood buckets.  V is the sequence of entries they hold the places of. *)

\* The entries.
Pairs(V) == V \in Seq(Key \X Value)

LEMMA PairsAre ==
  ASSUME NEW V, Pairs(V)
  PROVE  Len(V) \in Nat /\ \A i \in 1 .. Len(V) : V[i] \in Key \X Value /\ V[i][1] \in Key /\ Home[V[i][1]] \in Nat
<1>1. Len(V) \in Nat /\ \A i \in 1 .. Len(V) : V[i] \in Key \X Value
  BY DEF Pairs
<1>2. \A i \in 1 .. Len(V) : V[i][1] \in Key
  BY <1>1
<1> QED
  BY <1>1, <1>2, HomeAssumption

\* x is the bucket of an entry, but for its distance; it lies in bucket b as far from home as it says; y may lie in
\* the bucket behind p.
Bears(x, V) == x.idx \in 1 .. Len(V) /\ x.dist \in Nat /\ x = Bucket(x.idx, x.dist, Fingerprint[V[x.idx][1]])
HomeOf(x, V) == Home[V[x.idx][1]]
Lies(x, b, c, V) == Bears(x, V) /\ Pos(HomeOf(x, V), x.dist, c) = b
Behind(p, y) == y.dist > 0 => p.idx # 0 /\ y.dist <= p.dist + 1

Taken(bs, c) == {b \in 0 .. c - 1 : bs[b].idx # 0}
Held(bs, c)  == {bs[b].idx : b \in Taken(bs, c)}

Good(bs, c, V) ==
  /\ bs = [b \in 0 .. c - 1 |-> bs[b]]
  /\ \A b \in 0 .. c - 1 : bs[b] = EmptyBucket \/ Lies(bs[b], b, c, V)
  /\ \A a \in 0 .. c - 1, b \in 0 .. c - 1 : bs[a].idx # 0 /\ bs[a].idx = bs[b].idx => a = b
  /\ \A b \in 0 .. c - 1 : Behind(bs[b], bs[Nxt(b, c)])

\* x is carried to bucket p.
Carrying(bs, x, p, c, V) ==
  /\ Good(bs, c, V) /\ Lies(x, p, c, V) /\ x.idx \notin Held(bs, c)
  /\ \A q \in 0 .. c - 1 : Nxt(q, c) = p => Behind(bs[q], x)

\* r is what came of bs and x when the carried bucket has reached p.
Carried(bs, x, p, c, V, r) ==
  /\ Carrying(r[1], r[2], p, c, V)
  /\ Taken(r[1], c) = Taken(bs, c)
  /\ Held(r[1], c) \cup {r[2].idx} = Held(bs, c) \cup {x.idx}

LEMMA EmptyIs == EmptyBucket.idx = 0 /\ EmptyBucket.dist = 0
BY DEF EmptyBucket

LEMMA BucketIs ==
  \A i, d, f : /\ Bucket(i, d, f).idx = i /\ Bucket(i, d, f).dist = d /\ Bucket(i, d, f).print = f
BY DEF Bucket

LEMMA HomeIs ==
  ASSUME NEW V, Pairs(V), NEW x, Bears(x, V)
  PROVE  HomeOf(x, V) \in Nat
BY PairsAre DEF Bears, HomeOf

LEMMA FartherIs ==
  ASSUME NEW c \in Nat \ {0}, NEW V, Pairs(V), NEW p \in 0 .. c - 1, NEW x, Lies(x, p, c, V)
  PROVE  Lies(Farther(x), Nxt(p, c), c, V) /\ Farther(x).idx = x.idx /\ Farther(x).dist = x.dist + 1
<1> DEFINE f == Fingerprint[V[x.idx][1]]
<1>1. x = Bucket(x.idx, x.dist, f) /\ x.idx \in 1 .. Len(V) /\ x.dist \in Nat /\ Pos(HomeOf(x, V), x.dist, c) = p
  BY DEF Lies, Bears
<1>2. [x EXCEPT !.dist = @ + 1] = Bucket(x.idx, x.dist + 1, f)
  BY <1>1 DEF Bucket
<1>3. Farther(x) = Bucket(x.idx, x.dist + 1, f)
  BY <1>2 DEF Farther
<1>4. Farther(x).idx = x.idx /\ Farther(x).dist = x.dist + 1
  BY <1>3, BucketIs
<1>5. HomeOf(x, V) \in Nat
  BY HomeIs DEF Lies
<1>6. Pos(HomeOf(x, V), x.dist + 1, c) = Nxt(p, c)
  BY <1>1, <1>5, PosNext
<1>7. HomeOf(Farther(x), V) = HomeOf(x, V)
  BY <1>4 DEF HomeOf
<1>8. Bears(Farther(x), V)
  <2>1. Farther(x).idx \in 1 .. Len(V) /\ Farther(x).dist \in Nat
    BY <1>1, <1>4
  <2>2. Farther(x) = Bucket(Farther(x).idx, Farther(x).dist, Fingerprint[V[Farther(x).idx][1]])
    BY <1>3, <1>4 DEF f
  <2> QED
    BY <2>1, <2>2 DEF Bears
<1>9. Pos(HomeOf(Farther(x), V), Farther(x).dist, c) = Nxt(p, c)
  BY <1>4, <1>6, <1>7
<1> QED
  BY <1>4, <1>8, <1>9 DEF Lies

LEMMA LiesIs ==
  ASSUME NEW c, NEW V, NEW b, NEW x, Lies(x, b, c, V)
  PROVE  x.idx \in Nat /\ x.idx # 0 /\ x.idx \in 1 .. Len(V) /\ x.dist \in Nat
BY DEF Lies, Bears

\* A bucket written anew.
LEMMA Written ==
  ASSUME NEW c \in Nat, NEW bs, bs = [b \in 0 .. c - 1 |-> bs[b]], NEW p \in 0 .. c - 1, NEW x
  PROVE  LET u == [bs EXCEPT ![p] = x] IN
         /\ u = [b \in 0 .. c - 1 |-> IF b = p THEN x ELSE bs[b]]
         /\ u[p] = x /\ \A b \in 0 .. c - 1 : b # p => u[b] = bs[b]
OBVIOUS

LEMMA CarryStep ==
  ASSUME NEW c \in Nat \ {0}, NEW V, Pairs(V), NEW bs, NEW x, NEW p \in 0 .. c - 1,
         Carrying(bs, x, p, c, V), bs[p].idx # 0
  PROVE  Carried(bs, x, Nxt(p, c), c, V, Carry(bs, p, x))
<1> DEFINE r == Carry(bs, p, x)
<1> SUFFICES Carried(bs, x, Nxt(p, c), c, V, r)
  OBVIOUS
<1>1. Good(bs, c, V) /\ Lies(x, p, c, V) /\ x.idx \notin Held(bs, c) /\ Nxt(p, c) \in 0 .. c - 1
  BY NxtIn DEF Carrying
<1>2. Lies(bs[p], p, c, V)
  BY <1>1, EmptyIs DEF Good
<1>3. CASE ~(x.dist > bs[p].dist)
  <2>1. r = <<bs, Farther(x)>>
    BY <1>3 DEF Carry
  <2>2. r[1] = bs /\ r[2] = Farther(x)
    BY <2>1
  <2>3. Lies(r[2], Nxt(p, c), c, V) /\ r[2].idx = x.idx /\ r[2].dist = x.dist + 1
    <3>1. Lies(Farther(x), Nxt(p, c), c, V) /\ Farther(x).idx = x.idx /\ Farther(x).dist = x.dist + 1
      <4>1. Lies(x, p, c, V)
        BY <1>1
      <4> QED
        BY <4>1, FartherIs
    <3> QED
      BY <2>2, <3>1
  <2>4. Behind(bs[p], r[2])
    BY <1>1, <1>2, <1>3, <2>3, LiesIs DEF Behind
  <2>5. \A q \in 0 .. c - 1 : Nxt(q, c) = Nxt(p, c) => Behind(bs[q], r[2])
    BY <2>4, NxtOnce
  <2> QED
    BY <1>1, <2>2, <2>3, <2>5 DEF Carrying, Carried
<1>4. CASE x.dist > bs[p].dist
  <2> DEFINE u == [bs EXCEPT ![p] = x]  y == Farther(bs[p])
  <2>1. r = <<u, y>>
    BY <1>4 DEF Carry
  <2>2. r[1] = u /\ r[2] = y
    BY <2>1
  <2>3. u = [b \in 0 .. c - 1 |-> IF b = p THEN x ELSE bs[b]] /\ u[p] = x /\ \A b \in 0 .. c - 1 : b # p => u[b] = bs[b]
    <3>1. bs = [b \in 0 .. c - 1 |-> bs[b]]
      BY <1>1 DEF Good
    <3> QED
      BY <3>1, Written, Zenon
  <2>4. Lies(y, Nxt(p, c), c, V) /\ y.idx = bs[p].idx /\ y.dist = bs[p].dist + 1
    BY <1>2, FartherIs
  <2> HIDE DEF u, y
  <2>5. x.idx # 0 /\ x.dist \in Nat /\ bs[p].dist \in Nat
    BY <1>1, <1>2, LiesIs
  <2>6. \A b \in 0 .. c - 1 : bs[b].idx # x.idx
    BY <1>1, <2>5 DEF Held, Taken
  <2>7. \A b \in 0 .. c - 1 : u[b] = EmptyBucket \/ Lies(u[b], b, c, V)
    BY <1>1, <2>3 DEF Good
  <2>8. \A a \in 0 .. c - 1, b \in 0 .. c - 1 : u[a].idx # 0 /\ u[a].idx = u[b].idx => a = b
    BY <1>1, <2>3, <2>6 DEF Good
  <2>9. \A b \in 0 .. c - 1 : Behind(u[b], u[Nxt(b, c)])
    <3> SUFFICES ASSUME NEW b \in 0 .. c - 1 PROVE Behind(u[b], u[Nxt(b, c)])
      OBVIOUS
    <3>1. Nxt(b, c) \in 0 .. c - 1 /\ Behind(bs[b], bs[Nxt(b, c)])
      BY <1>1, NxtIn DEF Good
    <3>2. CASE b # p /\ Nxt(b, c) # p
      BY <2>3, <3>1, <3>2
    <3>3. CASE b # p /\ Nxt(b, c) = p
      BY <2>3, <3>3 DEF Carrying
    <3>4. CASE b = p /\ Nxt(b, c) # p
      <4>1. bs[Nxt(b, c)].dist > 0 => bs[Nxt(b, c)].dist \in Nat
        <5>1. bs[Nxt(b, c)] = EmptyBucket \/ Lies(bs[Nxt(b, c)], Nxt(b, c), c, V)
          BY <1>1, <3>1 DEF Good
        <5> QED
          BY <5>1, EmptyIs, LiesIs
      <4>2. u[b] = x /\ u[Nxt(b, c)] = bs[Nxt(b, c)]
        BY <2>3, <3>1, <3>4
      <4> QED
        BY <1>4, <2>5, <3>1, <3>4, <4>1, <4>2 DEF Behind
    <3>5. CASE b = p /\ Nxt(b, c) = p
      BY <2>3, <2>5, <3>5 DEF Behind
    <3> QED
      BY <3>2, <3>3, <3>4, <3>5
  <2>10. Good(u, c, V)
    BY <2>3, <2>7, <2>8, <2>9 DEF Good
  <2>11. Taken(u, c) = Taken(bs, c)
    BY <2>3, <2>5 DEF Taken
  <2>12. p \in Taken(bs, c)
    BY DEF Taken
  <2>13. Held(u, c) \cup {y.idx} = Held(bs, c) \cup {x.idx}
    BY <2>3, <2>4, <2>11, <2>12 DEF Held, Taken
  <2>14. y.idx \notin Held(u, c)
    <3> SUFFICES ASSUME NEW b \in 0 .. c - 1, b \in Taken(u, c), u[b].idx = bs[p].idx PROVE FALSE
      BY <2>4 DEF Held, Taken
    <3>1. CASE b = p
      BY <2>3, <2>6, <3>1
    <3>2. CASE b # p
      BY <1>1, <2>3, <3>2 DEF Good
    <3> QED
      BY <3>1, <3>2
  <2>15. Behind(u[p], y)
    BY <1>4, <2>3, <2>4, <2>5 DEF Behind
  <2>16. \A q \in 0 .. c - 1 : Nxt(q, c) = Nxt(p, c) => Behind(u[q], y)
    BY <2>15, NxtOnce
  <2> QED
    BY <2>2, <2>4, <2>10, <2>11, <2>13, <2>14, <2>16 DEF Carrying, Carried
<1> QED
  BY <1>3, <1>4

LEMMA CarryEnd ==
  ASSUME NEW c \in Nat \ {0}, NEW V, Pairs(V), NEW bs, NEW x, NEW p \in 0 .. c - 1,
         Carrying(bs, x, p, c, V), bs[p].idx = 0, NEW u, u = [bs EXCEPT ![p] = x]
  PROVE  /\ Good(u, c, V) /\ u[p] = x
         /\ Taken(u, c) = Taken(bs, c) \cup {p}
         /\ Held(u, c) = Held(bs, c) \cup {x.idx}
<1>1. Good(bs, c, V) /\ Lies(x, p, c, V) /\ x.idx \notin Held(bs, c)
  BY DEF Carrying
<1>2. x.idx # 0 /\ x.dist \in Nat
  BY <1>1, LiesIs
<1>3. u = [b \in 0 .. c - 1 |-> IF b = p THEN x ELSE bs[b]] /\ u[p] = x /\ \A b \in 0 .. c - 1 : b # p => u[b] = bs[b]
  <2>1. bs = [b \in 0 .. c - 1 |-> bs[b]]
    BY <1>1 DEF Good
  <2> QED
    BY <2>1, Written
<1>4. \A b \in 0 .. c - 1 : bs[b].idx # x.idx
  BY <1>1, <1>2 DEF Held, Taken
<1>5. \A b \in 0 .. c - 1 : u[b] = EmptyBucket \/ Lies(u[b], b, c, V)
  BY <1>1, <1>3 DEF Good
<1>6. \A a \in 0 .. c - 1, b \in 0 .. c - 1 : u[a].idx # 0 /\ u[a].idx = u[b].idx => a = b
  BY <1>1, <1>3, <1>4 DEF Good
<1>7. \A b \in 0 .. c - 1 : Behind(u[b], u[Nxt(b, c)])
  <2> SUFFICES ASSUME NEW b \in 0 .. c - 1 PROVE Behind(u[b], u[Nxt(b, c)])
    OBVIOUS
  <2>1. Nxt(b, c) \in 0 .. c - 1 /\ Behind(bs[b], bs[Nxt(b, c)])
    BY <1>1, NxtIn DEF Good
  <2>2. CASE b # p /\ Nxt(b, c) # p
    BY <1>3, <2>1, <2>2
  <2>3. CASE b # p /\ Nxt(b, c) = p
    BY <1>3, <2>3 DEF Carrying
  <2>4. CASE b = p /\ Nxt(b, c) # p
    BY <1>3, <2>1, <2>4 DEF Behind
  <2>5. CASE b = p /\ Nxt(b, c) = p
    BY <1>2, <1>3, <2>5 DEF Behind
  <2> QED
    BY <2>2, <2>3, <2>4, <2>5
<1>8. Good(u, c, V)
  BY <1>3, <1>5, <1>6, <1>7 DEF Good
<1>9. Taken(u, c) = Taken(bs, c) \cup {p}
  BY <1>2, <1>3 DEF Taken
<1>10. Held(u, c) = Held(bs, c) \cup {x.idx}
  BY <1>3, <1>9 DEF Held, Taken
<1> QED
  BY <1>3, <1>8, <1>9, <1>10

-----------------------------------------------------------------------------
(* The loop of insert_bucket_displace. *)

Carries(bs, b, x, c, n, m) ==
  m = [i \in 0 .. n |-> IF i = 0 THEN <<bs, x>> ELSE Carry(m[i - 1][1], (b + (i - 1)) % c, m[i - 1][2])]

LEMMA CarriesExist ==
  ASSUME NEW bs, NEW b, NEW x, NEW c, NEW n \in Nat
  PROVE  \E m : Carries(bs, b, x, c, n, m)
<1> DEFINE T(f, i) == Carry(f[i - 1][1], (b + (i - 1)) % c, f[i - 1][2])
           B == {y \in Nat : ~ \E m : Carries(bs, b, x, c, y, m)}
<1>1. SUFFICES ASSUME B # {} PROVE FALSE
  BY <1>1
<1>2. PICK y \in B : \A z \in B : y <= z
  BY <1>1, LeastNumber
<1>3. CASE y = 0
  <2> DEFINE m == [i \in 0 .. 0 |-> <<bs, x>>]
  <2>1. m = [i \in 0 .. 0 |-> IF i = 0 THEN <<bs, x>> ELSE T(m, i)]
    OBVIOUS
  <2> QED
    BY <1>2, <1>3, <2>1 DEF Carries
<1>4. CASE y # 0
  <2>1. y - 1 \in Nat /\ y \in Nat /\ y - 1 \notin B
    BY <1>2, <1>4
  <2>2. PICK f : f = [i \in 0 .. y - 1 |-> IF i = 0 THEN <<bs, x>> ELSE T(f, i)]
    BY <2>1 DEF Carries
  <2> DEFINE m == [i \in 0 .. y |-> IF i = y THEN T(f, y) ELSE f[i]]
  <2>3. ASSUME NEW i \in 0 .. y PROVE m[i] = IF i = 0 THEN <<bs, x>> ELSE T(m, i)
    <3>1. CASE i = y
      <4>1. m[i - 1] = f[y - 1] /\ m[i] = T(f, y)
        BY <2>1, <3>1
      <4> QED
        BY <1>4, <3>1, <4>1
    <3>2. CASE i # y
      <4>1. i \in 0 .. y - 1 /\ m[i] = f[i]
        BY <2>1, <3>2
      <4>2. i # 0 => i - 1 \in 0 .. y /\ i - 1 # y
        BY <2>1, <4>1
      <4>3. i # 0 => m[i - 1] = f[i - 1]
        BY <4>2
      <4>4. f[i] = IF i = 0 THEN <<bs, x>> ELSE T(f, i)
        BY <2>2, <4>1
      <4> HIDE DEF m
      <4> QED
        BY <4>1, <4>3, <4>4
    <3> QED
      BY <3>1, <3>2
  <2>4. m = [i \in 0 .. y |-> m[i]]
    OBVIOUS
  <2> HIDE DEF m
  <2>5. m = [i \in 0 .. y |-> IF i = 0 THEN <<bs, x>> ELSE T(m, i)]
    BY <2>3, <2>4
  <2> QED
    BY <1>2, <2>5 DEF Carries
<1> QED
  BY <1>3, <1>4

\* Where the loop ends: at the first empty bucket.
End(bs, b, c) == Min({n \in 0 .. c - 1 : bs[Pos(b, n, c)].idx = 0})

LEMMA RingSize == ASSUME NEW c \in Nat PROVE IsFiniteSet(0 .. c - 1) /\ Cardinality(0 .. c - 1) = c
<1>1. IsFiniteSet(0 .. c - 1) /\ Cardinality(0 .. c - 1) = IF 0 > c - 1 THEN 0 ELSE (c - 1) - 0 + 1
  BY FS_Interval
<1> QED
  BY <1>1

LEMMA EndIs ==
  ASSUME NEW c \in Nat \ {0}, NEW bs, NEW b \in 0 .. c - 1, NEW e \in 0 .. c - 1, bs[e].idx = 0
  PROVE  /\ End(bs, b, c) \in 0 .. c - 1 /\ bs[Pos(b, End(bs, b, c), c)].idx = 0
         /\ \A n \in 0 .. End(bs, b, c) - 1 : bs[Pos(b, n, c)].idx # 0
<1> DEFINE S == {n \in 0 .. c - 1 : bs[Pos(b, n, c)].idx = 0}
<1>1. PICK n \in 0 .. c - 1 : Pos(b, n, c) = e
  BY PosEvery
<1>2. n \in S /\ S \in SUBSET Nat
  BY <1>1
<1>3. Min(S) \in S /\ \A m \in S : Min(S) <= m
  <2>1. S # {} /\ S \in SUBSET Nat
    BY <1>2
  <2> HIDE DEF S
  <2> QED
    BY <2>1, MinOf
<1> QED
  BY <1>3 DEF End

\* m lists the turns of the loop from bucket b to the first empty one, and u is what it leaves.
Displaces(bs, b, x, c, m, u) ==
  LET e == End(bs, b, c) IN
  /\ m[0] = <<bs, x>>
  /\ \A i \in 1 .. e : m[i] = Carry(m[i - 1][1], Pos(b, i - 1, c), m[i - 1][2])
  /\ u = [m[e][1] EXCEPT ![Pos(b, e, c)] = m[e][2]]

LEMMA DisplacedIs ==
  ASSUME NEW c \in Nat \ {0}, NEW bs, DOMAIN bs = 0 .. c - 1, NEW b \in 0 .. c - 1, NEW x, End(bs, b, c) \in Nat
  PROVE  \E m : Displaces(bs, b, x, c, m, Displaced(bs, b, x))
<1> DEFINE e == End(bs, b, c)
           m == CHOOSE m : Carries(bs, b, x, c, e, m)
<1>1. Carries(bs, b, x, c, e, m)
  BY CarriesExist
<1>2. Cardinality(DOMAIN bs) = c
  BY RingSize
<1>3. e = Min({n \in 0 .. c - 1 : bs[(b + n) % c].idx = 0})
  BY DEF End, Pos
<1>4. Displaced(bs, b, x) = [m[e][1] EXCEPT ![(b + e) % c] = m[e][2]]
  <2> DEFINE count == Cardinality(DOMAIN bs)
             f == Min({n \in 0 .. count - 1 : bs[(b + n) % count].idx = 0})
             k == CHOOSE k : Carries(bs, b, x, count, f, k)
  <2>1. Displaced(bs, b, x) = [k[f][1] EXCEPT ![(b + f) % count] = k[f][2]]
    BY Zenon DEF Displaced, Carries
  <2>2. count = c
    BY <1>2
  <2>3. f = e
    BY <1>3, <2>2
  <2>4. k = m
    BY <2>2, <2>3
  <2> HIDE DEF k, f, m, e, count
  <2> QED
    BY <2>1, <2>2, <2>3, <2>4
<1> HIDE DEF m, e
<1>5. e \in Nat
  BY DEF e
<1>6. m[0] = <<bs, x>>
  BY <1>1, <1>5 DEF Carries
<1>7. ASSUME NEW i \in 1 .. e PROVE m[i] = Carry(m[i - 1][1], Pos(b, i - 1, c), m[i - 1][2])
  <2>1. i \in 0 .. e /\ i # 0
    BY <1>5
  <2>2. m[i] = IF i = 0 THEN <<bs, x>> ELSE Carry(m[i - 1][1], (b + (i - 1)) % c, m[i - 1][2])
    BY <1>1, <2>1, Zenon DEF Carries
  <2> QED
    BY <2>1, <2>2, Zenon DEF Pos
<1>8. Displaced(bs, b, x) = [m[e][1] EXCEPT ![Pos(b, e, c)] = m[e][2]]
  BY <1>4 DEF Pos
<1>9. Displaces(bs, b, x, c, m, Displaced(bs, b, x))
  BY <1>6, <1>7, <1>8, Zenon DEF Displaces, e
<1> QED
  BY <1>9

LEMMA DisplacedWorks ==
  ASSUME NEW c \in Nat \ {0}, NEW V, Pairs(V), NEW bs, NEW x, NEW b \in 0 .. c - 1,
         Carrying(bs, x, b, c, V), NEW f \in 0 .. c - 1, bs[f].idx = 0
  PROVE  /\ Good(Displaced(bs, b, x), c, V)
         /\ \E p \in (0 .. c - 1) \ Taken(bs, c) : Taken(Displaced(bs, b, x), c) = Taken(bs, c) \cup {p}
         /\ Held(Displaced(bs, b, x), c) = Held(bs, c) \cup {x.idx}
<1> DEFINE e == End(bs, b, c)  u == Displaced(bs, b, x)
<1>1. e \in 0 .. c - 1 /\ bs[Pos(b, e, c)].idx = 0 /\ \A n \in 0 .. e - 1 : bs[Pos(b, n, c)].idx # 0
  BY EndIs
<1>2. DOMAIN bs = 0 .. c - 1
  BY DEF Carrying, Good
<1>3. PICK m : Displaces(bs, b, x, c, m, u)
  <2>1. e \in Nat
    BY <1>1
  <2> QED
    BY <1>2, <2>1, DisplacedIs
<1>4. /\ m[0] = <<bs, x>>
      /\ \A i \in 1 .. e : m[i] = Carry(m[i - 1][1], Pos(b, i - 1, c), m[i - 1][2])
      /\ u = [m[e][1] EXCEPT ![Pos(b, e, c)] = m[e][2]]
  BY <1>3, Zenon DEF Displaces
<1> HIDE DEF e, u
<1>5. \A i \in 0 .. e : Carried(bs, x, Pos(b, i, c), c, V, m[i])
  <2> DEFINE B == {i \in 0 .. e : ~Carried(bs, x, Pos(b, i, c), c, V, m[i])}
  <2>1. SUFFICES ASSUME B # {} PROVE FALSE
    BY <2>1
  <2>2. PICK i \in B : \A j \in B : i <= j
    <3>1. B \in SUBSET Nat
      BY <1>1
    <3> HIDE DEF B
    <3> QED
      BY <2>1, <3>1, LeastNumber
  <2>3. CASE i = 0
    <3>1. Pos(b, 0, c) = b
      BY PosFrom
    <3>2. m[0][1] = bs /\ m[0][2] = x
      BY <1>4
    <3> QED
      BY <2>2, <2>3, <3>1, <3>2 DEF Carried
  <2>4. CASE i # 0
    <3>1. i \in 1 .. e /\ i - 1 \in 0 .. e - 1 /\ i - 1 \in 0 .. e /\ i - 1 \in Nat
      BY <1>1, <2>2, <2>4
    <3> DEFINE r == m[i - 1]  p == Pos(b, i - 1, c)
    <3>2. Carried(bs, x, p, c, V, r)
      BY <1>1, <2>2, <3>1
    <3>3. m[i] = Carry(r[1], p, r[2])
      BY <1>4, <3>1
    <3>4. p \in 0 .. c - 1 /\ Nxt(p, c) = Pos(b, i, c)
      <4>1. i - 1 + 1 = i /\ b \in Nat
        BY <3>1
      <4> QED
        BY <3>1, <4>1, PosIn, PosNext
    <3>5. p \in Taken(bs, c)
      BY <1>1, <3>1, <3>4 DEF Taken
    <3> HIDE DEF r, p
    <3>6. r[1][p].idx # 0
      BY <3>2, <3>5 DEF Taken, Carried
    <3>7. Carried(r[1], r[2], Nxt(p, c), c, V, m[i])
      <4>1. Carrying(r[1], r[2], p, c, V)
        BY <3>2 DEF Carried
      <4>2. Carried(r[1], r[2], Nxt(p, c), c, V, Carry(r[1], p, r[2]))
        BY <3>4, <3>6, <4>1, CarryStep
      <4> QED
        BY <3>3, <4>2
    <3>8. Carried(bs, x, Pos(b, i, c), c, V, m[i])
      BY <3>2, <3>4, <3>7 DEF Carried
    <3> QED
      BY <2>2, <3>8
  <2> QED
    BY <2>3, <2>4
<1> DEFINE r == m[e]  p == Pos(b, e, c)
<1>6. Carried(bs, x, p, c, V, r)
  BY <1>1, <1>5
<1>7. p \in 0 .. c - 1 /\ p \notin Taken(bs, c)
  <2>1. b \in Nat /\ e \in Nat
    BY <1>1
  <2>2. p \in 0 .. c - 1
    BY <2>1, PosIn
  <2> QED
    BY <1>1, <2>2 DEF Taken
<1>8. u = [r[1] EXCEPT ![p] = r[2]]
  BY <1>4
<1> HIDE DEF r, p
<1>9. r[1][p].idx = 0 /\ Carrying(r[1], r[2], p, c, V)
  BY <1>6, <1>7 DEF Taken, Carried
<1>10. /\ Good(u, c, V)
       /\ Taken(u, c) = Taken(r[1], c) \cup {p}
       /\ Held(u, c) = Held(r[1], c) \cup {r[2].idx}
  BY <1>7, <1>8, <1>9, CarryEnd
<1> QED
  BY <1>6, <1>7, <1>10 DEF Carried, u

-----------------------------------------------------------------------------
(* What the buckets promise: the places of the first n entries. *)

Stands(bs, c, V, n) == Good(bs, c, V) /\ Held(bs, c) = 1 .. n /\ Cardinality(Taken(bs, c)) = n

LEMMA TakenFinite == ASSUME NEW bs, NEW c \in Nat PROVE Taken(bs, c) \in SUBSET (0 .. c - 1) /\ IsFiniteSet(Taken(bs, c))
<1>1. Taken(bs, c) \in SUBSET (0 .. c - 1)
  BY DEF Taken
<1> QED
  BY <1>1, RingSize, FS_Subset

LEMMA Spare ==
  ASSUME NEW bs, NEW c \in Nat, Cardinality(Taken(bs, c)) < c
  PROVE  \E f \in 0 .. c - 1 : bs[f].idx = 0
<1>1. Taken(bs, c) # 0 .. c - 1
  BY RingSize
<1> QED
  BY <1>1, TakenFinite DEF Taken

LEMMA PlaceOne ==
  ASSUME NEW c \in Nat \ {0}, NEW V, Pairs(V), NEW bs, NEW n \in Nat, Stands(bs, c, V, n), n < c,
         NEW p \in 0 .. c - 1, NEW x, x.idx = n + 1, Lies(x, p, c, V),
         \A q \in 0 .. c - 1 : Nxt(q, c) = p => Behind(bs[q], x)
  PROVE  Stands(Displaced(bs, p, x), c, V, n + 1)
<1>1. Good(bs, c, V) /\ Held(bs, c) = 1 .. n /\ Cardinality(Taken(bs, c)) = n
  BY DEF Stands
<1>2. PICK f \in 0 .. c - 1 : bs[f].idx = 0
  BY <1>1, Spare
<1>3. Carrying(bs, x, p, c, V)
  BY <1>1 DEF Carrying
<1> DEFINE u == Displaced(bs, p, x)
<1>4. /\ Good(u, c, V)
      /\ \E e \in (0 .. c - 1) \ Taken(bs, c) : Taken(u, c) = Taken(bs, c) \cup {e}
      /\ Held(u, c) = Held(bs, c) \cup {x.idx}
  BY <1>2, <1>3, DisplacedWorks
<1> HIDE DEF u
<1>5. PICK e \in (0 .. c - 1) \ Taken(bs, c) : Taken(u, c) = Taken(bs, c) \cup {e}
  BY <1>4
<1>6. Cardinality(Taken(u, c)) = n + 1
  <2>1. IsFiniteSet(Taken(bs, c)) /\ e \notin Taken(bs, c)
    BY TakenFinite
  <2> QED
    BY <1>1, <1>5, <2>1, FS_AddElement
<1>7. Held(u, c) = 1 .. n + 1
  BY <1>1, <1>4
<1> QED
  BY <1>4, <1>6, <1>7 DEF Stands, u

\* Only the keys of the entries matter to the buckets.
LEMMA SameKeys ==
  ASSUME NEW c \in Nat \ {0}, NEW V, Pairs(V), NEW W, Pairs(W), NEW bs, NEW n \in Nat,
         Stands(bs, c, V, n), n <= Len(V), n <= Len(W), \A i \in 1 .. n : W[i][1] = V[i][1]
  PROVE  Stands(bs, c, W, n)
<1>1. \A b \in 0 .. c - 1 : bs[b] = EmptyBucket \/ Lies(bs[b], b, c, W)
  <2> SUFFICES ASSUME NEW b \in 0 .. c - 1, bs[b] # EmptyBucket PROVE Lies(bs[b], b, c, W)
    OBVIOUS
  <2>1. Lies(bs[b], b, c, V)
    BY DEF Stands, Good
  <2>2. bs[b].idx # 0
    BY <2>1, LiesIs
  <2>3. bs[b].idx \in 1 .. n
    BY <2>2 DEF Stands, Held, Taken
  <2>4. W[bs[b].idx][1] = V[bs[b].idx][1] /\ bs[b].idx \in 1 .. Len(W)
    BY <2>3
  <2> QED
    BY <2>1, <2>4 DEF Lies, Bears, HomeOf
<1> QED
  BY <1>1 DEF Stands, Good

\* Nothing is nearer to home between an entry's home and its bucket.
LEMMA WalkBack ==
  ASSUME NEW c \in Nat \ {0}, NEW V, Pairs(V), NEW bs, Good(bs, c, V), NEW b \in 0 .. c - 1,
         Lies(bs[b], b, c, V), NEW h, h = HomeOf(bs[b], V), NEW n \in 0 .. bs[b].dist
  PROVE  /\ h \in Nat /\ Pos(h, n, c) \in 0 .. c - 1
         /\ Lies(bs[Pos(h, n, c)], Pos(h, n, c), c, V) /\ bs[Pos(h, n, c)].dist >= n
<1> DEFINE d == bs[b].dist
<1>1. d \in Nat /\ Pos(h, d, c) = b
  BY DEF Lies, Bears
<1>2. h \in Nat
  BY HomeIs DEF Lies
<1> HIDE DEF d
<1>3. \A i \in 0 .. d : Lies(bs[Pos(h, d - i, c)], Pos(h, d - i, c), c, V) /\ bs[Pos(h, d - i, c)].dist >= d - i
  <2> DEFINE P(i) == Lies(bs[Pos(h, d - i, c)], Pos(h, d - i, c), c, V) /\ bs[Pos(h, d - i, c)].dist >= d - i
             B == {i \in 0 .. d : ~P(i)}
  <2>1. SUFFICES ASSUME B # {} PROVE FALSE
    BY <2>1
  <2>2. PICK i \in B : \A j \in B : i <= j
    <3>1. B \in SUBSET Nat
      BY <1>1
    <3> HIDE DEF B
    <3> QED
      BY <2>1, <3>1, LeastNumber
  <2>3. CASE i = 0
    <3>1. d - i = d /\ Pos(h, d - i, c) = b
      BY <1>1, <2>3
    <3>2. bs[b].dist >= d
      BY <1>1 DEF d
    <3> QED
      BY <2>2, <3>1, <3>2
  <2>4. CASE i # 0
    <3> DEFINE m == d - i  p == Pos(h, m, c)  q == Pos(h, m + 1, c)
    <3>1. i - 1 \in 0 .. d /\ i - 1 \notin B /\ d - (i - 1) = m + 1 /\ m \in Nat
      <4> HIDE DEF P
      <4>1. i \in Nat /\ i <= d /\ i - 1 \in 0 .. d
        BY <1>1, <2>2, <2>4
      <4>2. i - 1 \notin B
        BY <2>2, <4>1
      <4> QED
        BY <1>1, <4>1, <4>2
    <3>2. Lies(bs[q], q, c, V) /\ bs[q].dist >= m + 1
      <4>1. P(i - 1)
        BY <3>1
      <4> HIDE DEF m
      <4> QED
        BY <3>1, <4>1
    <3>3. p \in 0 .. c - 1 /\ Nxt(p, c) = q
      BY <1>2, <3>1, PosIn, PosNext
    <3> HIDE DEF m, p, q
    <3>4. Behind(bs[p], bs[q])
      BY <3>3 DEF Good
    <3>5. bs[q].dist \in Nat
      BY <3>2, LiesIs
    <3>6. bs[p].idx # 0 /\ bs[q].dist <= bs[p].dist + 1
      BY <3>1, <3>2, <3>4, <3>5 DEF Behind
    <3>7. Lies(bs[p], p, c, V)
      BY <3>3, <3>6, EmptyIs DEF Good
    <3>8. bs[p].dist >= m
      <4>1. bs[p].dist \in Nat
        BY <3>7, LiesIs
      <4> QED
        BY <3>1, <3>2, <3>5, <3>6, <4>1
    <3> QED
      BY <2>2, <3>7, <3>8 DEF m, p
  <2> QED
    BY <2>3, <2>4
<1>4. d - n \in 0 .. d /\ d - (d - n) = n /\ n \in Nat
  BY <1>1 DEF d
<1>5. Lies(bs[Pos(h, n, c)], Pos(h, n, c), c, V) /\ bs[Pos(h, n, c)].dist >= n
  <2>1. LET i == d - n IN Lies(bs[Pos(h, d - i, c)], Pos(h, d - i, c), c, V) /\ bs[Pos(h, d - i, c)].dist >= d - i
    BY <1>3, <1>4, Zenon
  <2> QED
    BY <1>4, <2>1
<1> QED
  BY <1>2, <1>4, <1>5, PosIn

\* So with an empty bucket none has gone all the way round.
LEMMA Near ==
  ASSUME NEW c \in Nat \ {0}, NEW V, Pairs(V), NEW bs, Good(bs, c, V), NEW b \in 0 .. c - 1,
         Lies(bs[b], b, c, V), NEW f \in 0 .. c - 1, bs[f].idx = 0
  PROVE  bs[b].dist \in 0 .. c - 1
<1> DEFINE h == HomeOf(bs[b], V)
<1>1. bs[b].dist \in Nat
  BY LiesIs
<1>3. h \in Nat
  BY HomeIs DEF Lies
<1> HIDE DEF h
<1>4. PICK n \in 0 .. c - 1 : Pos(h, n, c) = f
  BY <1>3, PosEvery
<1>5. SUFFICES ASSUME bs[b].dist >= c PROVE FALSE
  BY <1>1, <1>5
<1>6. n \in 0 .. bs[b].dist
  BY <1>1, <1>5
<1>7. Lies(bs[f], f, c, V)
  <2>1. Lies(bs[Pos(h, n, c)], Pos(h, n, c), c, V)
    BY <1>6, WalkBack DEF h
  <2> QED
    BY <1>4, <2>1
<1> QED
  BY <1>7, LiesIs

-----------------------------------------------------------------------------
(* A probe. *)

Distinct(V) == \A i \in 1 .. Len(V), j \in 1 .. Len(V) : V[i][1] = V[j][1] => i = j

\* The entries, each once, with their buckets and an empty one.
Laid(t) ==
  /\ t = [values |-> t.values, at |-> t.at, count |-> t.count]
  /\ Pairs(t.values) /\ Distinct(t.values)
  /\ t.count \in Powers /\ Len(t.values) < t.count
  /\ Stands(t.at, t.count, t.values, Len(t.values))

LEMMA LaidIs ==
  ASSUME NEW t, Laid(t)
  PROVE  /\ t.count \in Nat \ {0} /\ Pairs(t.values) /\ Len(t.values) \in Nat
         /\ Good(t.at, t.count, t.values)
         /\ \E f \in 0 .. t.count - 1 : t.at[f].idx = 0
<1>1. t.count \in Nat \ {0} /\ Pairs(t.values) /\ Len(t.values) \in Nat /\ Good(t.at, t.count, t.values)
  BY PowerIs DEF Laid, Stands
<1>2. Cardinality(Taken(t.at, t.count)) < t.count
  BY DEF Laid, Stands
<1> QED
  BY <1>1, <1>2, Spare

LEMMA PlaceIs == \A t, k, i : Place(t, k, i) = Pos(Home[k], i, t.count)
BY DEF Place, Pos

\* The bucket of entry i.
LEMMA EntryBucket ==
  ASSUME NEW t, Laid(t), NEW i \in 1 .. Len(t.values)
  PROVE  LET k == t.values[i][1] IN
         /\ k \in Key /\ Home[k] \in Nat
         /\ \E d \in 0 .. t.count - 1 :
              /\ At(t, k, d) = Bucket(i, d, Fingerprint[k])
              /\ \A n \in 0 .. d : At(t, k, n).idx # 0 /\ At(t, k, n).dist \in Nat /\ At(t, k, n).dist >= n
<1> DEFINE k == t.values[i][1]  c == t.count  V == t.values  bs == t.at  h == Home[k]
<1>1. /\ c \in Nat \ {0} /\ Pairs(V) /\ Len(V) \in Nat /\ Good(bs, c, V)
      /\ \E f \in 0 .. c - 1 : bs[f].idx = 0
  BY LaidIs
<1>3. k \in Key /\ h \in Nat
  BY <1>1, PairsAre
<1>4. i \in Held(bs, c)
  BY DEF Laid, Stands
<1>5. PICK b \in 0 .. c - 1 : bs[b].idx = i /\ bs[b].idx # 0
  BY <1>4 DEF Held, Taken
<1>6. Lies(bs[b], b, c, V)
  BY <1>1, <1>5, EmptyIs DEF Good
<1> DEFINE d == bs[b].dist
<1>7. d \in 0 .. c - 1
  BY <1>1, <1>6, Near
<1>8. h = HomeOf(bs[b], V)
  BY <1>5 DEF HomeOf
<1>9. Pos(h, d, c) = b /\ bs[b] = Bucket(i, d, Fingerprint[k])
  BY <1>5, <1>6, <1>8 DEF Lies, Bears
<1>10. At(t, k, d) = Bucket(i, d, Fingerprint[k])
  BY <1>9, PlaceIs DEF At
<1>11. ASSUME NEW n \in 0 .. d PROVE At(t, k, n).idx # 0 /\ At(t, k, n).dist \in Nat /\ At(t, k, n).dist >= n
  <2>1. At(t, k, n) = bs[Pos(h, n, c)]
    BY PlaceIs DEF At
  <2>2. Lies(bs[Pos(h, n, c)], Pos(h, n, c), c, V) /\ bs[Pos(h, n, c)].dist >= n
    <3> HIDE DEF h, c, bs, V
    <3> QED
      BY <1>1, <1>6, <1>8, WalkBack
  <2> DEFINE x == At(t, k, n)  p == Pos(h, n, c)
  <2>3. Lies(x, p, c, V) /\ x.dist >= n
    BY <2>1, <2>2, Zenon
  <2> HIDE DEF x, p, c, V
  <2>4. x.idx # 0 /\ x.dist \in Nat
    BY <2>3, LiesIs
  <2> QED
    BY <2>3, <2>4 DEF x
<1> QED
  BY <1>3, <1>7, <1>10, <1>11

\* One bucket for each entry, seen from home.
LEMMA AtOnce ==
  ASSUME NEW t, Laid(t), NEW k \in Key, NEW n \in 0 .. t.count - 1, NEW m \in 0 .. t.count - 1,
         At(t, k, n).idx # 0, At(t, k, n).idx = At(t, k, m).idx
  PROVE  n = m
<1> DEFINE c == t.count  bs == t.at  h == Home[k]
<1>1. c \in Nat \ {0} /\ Good(bs, c, t.values) /\ h \in Nat
  BY LaidIs, HomeAssumption
<1>2. Pos(h, n, c) \in 0 .. c - 1 /\ Pos(h, m, c) \in 0 .. c - 1
  <2>1. n \in Nat /\ m \in Nat
    BY <1>1
  <2> QED
    BY <1>1, <2>1, PosIn
<1>3. bs[Pos(h, n, c)].idx # 0 /\ bs[Pos(h, n, c)].idx = bs[Pos(h, m, c)].idx
  BY PlaceIs DEF At
<1> HIDE DEF c, bs, h
<1>4. Pos(h, n, c) = Pos(h, m, c)
  BY <1>1, <1>2, <1>3 DEF Good
<1> QED
  BY <1>1, <1>4, PosOnce DEF c

\* What a probe ends at.
Stop(t, k) == Min(Yielding(t, k) \cup Matching(t, k))

LEMMA StopIs ==
  ASSUME NEW t, Laid(t), NEW k \in Key
  PROVE  /\ Stop(t, k) \in 0 .. t.count - 1 /\ Stop(t, k) \in Yielding(t, k) \cup Matching(t, k)
         /\ \A n \in 0 .. Stop(t, k) - 1 : n \notin Yielding(t, k) /\ n \notin Matching(t, k)
<1> DEFINE S == Yielding(t, k) \cup Matching(t, k)  c == t.count
<1>1. c \in Nat \ {0} /\ Home[k] \in Nat
  BY LaidIs, HomeAssumption
<1>2. PICK f \in 0 .. c - 1 : t.at[f].idx = 0
  BY LaidIs
<1>3. PICK n \in 0 .. c - 1 : Pos(Home[k], n, c) = f
  BY <1>1, PosEvery
<1>4. n \in S
  BY <1>1, <1>2, <1>3, PlaceIs DEF Yielding, At, Step
<1>5. S \in SUBSET Nat
  BY <1>1 DEF Yielding, Matching, Step
<1> HIDE DEF S
<1>6. Min(S) \in S /\ \A m \in S : Min(S) <= m
  BY <1>4, <1>5, MinOf
<1>7. Min(S) \in 0 .. c - 1
  <2>1. Min(S) \in Nat /\ Min(S) <= n
    BY <1>4, <1>5, <1>6
  <2> QED
    BY <1>1, <2>1
<1>8. \A m \in 0 .. Min(S) - 1 : m \notin S
  BY <1>6, <1>7
<1> QED
  BY <1>6, <1>7, <1>8 DEF S, Stop

LEMMA FindsIt ==
  ASSUME NEW t, Laid(t), NEW i \in 1 .. Len(t.values), NEW k, k = t.values[i][1]
  PROVE  /\ k \in Key /\ Find(t, k) = i
         /\ Stop(t, k) \in Matching(t, k) /\ Stop(t, k) \notin Yielding(t, k)
<1> DEFINE c == t.count  V == t.values
<1>1. k \in Key /\ c \in Nat \ {0} /\ Len(V) \in Nat /\ Good(t.at, c, V)
  BY EntryBucket, LaidIs
<1>2. PICK d \in 0 .. c - 1 :
        /\ At(t, k, d) = Bucket(i, d, Fingerprint[k])
        /\ \A n \in 0 .. d : At(t, k, n).idx # 0 /\ At(t, k, n).dist \in Nat /\ At(t, k, n).dist >= n
  BY EntryBucket
<1>3. \A n \in 0 .. d : n \notin Yielding(t, k)
  BY <1>2 DEF Yielding
<1>4. d \in Matching(t, k)
  BY <1>1, <1>2, BucketIs DEF Matching, Step
<1>5. \A n \in 0 .. d - 1 : n \notin Matching(t, k)
  <2> SUFFICES ASSUME NEW n \in 0 .. d - 1, n \in Matching(t, k) PROVE FALSE
    OBVIOUS
  <2>1. At(t, k, n).idx # 0 /\ V[At(t, k, n).idx][1] = k
    BY DEF Matching
  <2>2. n \in 0 .. c - 1
    BY <1>1
  <2>3. At(t, k, n).idx \in 1 .. Len(V)
    <3> DEFINE p == Pos(Home[k], n, c)
    <3>1. p \in 0 .. c - 1
      <4>1. n \in Nat /\ Home[k] \in Nat
        BY <1>1, <2>2, HomeAssumption
      <4> QED
        BY <1>1, <4>1, PosIn
    <3>2. At(t, k, n) = t.at[p]
      BY PlaceIs DEF At
    <3> HIDE DEF p
    <3>3. Lies(t.at[p], p, c, V)
      BY <1>1, <2>1, <3>1, <3>2, EmptyIs DEF Good
    <3> QED
      BY <3>2, <3>3, LiesIs
  <2>4. At(t, k, n).idx = i
    BY <2>1, <2>3 DEF Laid, Distinct
  <2>5. At(t, k, n).idx = At(t, k, d).idx
    BY <1>2, <2>4, BucketIs
  <2>6. n = d
    BY <1>1, <2>1, <2>2, <2>5, AtOnce
  <2> QED
    BY <2>6
<1>6. Stop(t, k) = d
  <2>1. Stop(t, k) \in 0 .. c - 1 /\ Stop(t, k) \in Yielding(t, k) \cup Matching(t, k)
    BY <1>1, StopIs
  <2>2. ~(d \in 0 .. Stop(t, k) - 1)
    BY <1>1, <1>4, StopIs
  <2>3. ~(Stop(t, k) \in 0 .. d - 1)
    BY <1>3, <1>5, <2>1
  <2> QED
    BY <1>1, <2>1, <2>2, <2>3
<1>7. d \notin Yielding(t, k)
  BY <1>3
<1>8. At(t, k, Stop(t, k)).idx = i
  BY <1>2, <1>6, BucketIs
<1> QED
  BY <1>1, <1>4, <1>6, <1>7, <1>8 DEF Find, Stop

LEMMA FindsNone ==
  ASSUME NEW t, Laid(t), NEW k \in Key, \A i \in 1 .. Len(t.values) : t.values[i][1] # k
  PROVE  Find(t, k) = 0 /\ Matching(t, k) = {} /\ Stop(t, k) \in Yielding(t, k)
<1> DEFINE c == t.count  V == t.values
<1>1. c \in Nat \ {0} /\ Len(V) \in Nat /\ Good(t.at, c, V) /\ Home[k] \in Nat
  BY LaidIs, HomeAssumption
<1>2. Matching(t, k) = {}
  <2> SUFFICES ASSUME NEW n \in Step(t), At(t, k, n).idx # 0, V[At(t, k, n).idx][1] = k PROVE FALSE
    BY DEF Matching
  <2> DEFINE p == Pos(Home[k], n, c)
  <2>1. p \in 0 .. c - 1
    <3>1. n \in Nat
      BY <1>1 DEF Step
    <3> QED
      BY <1>1, <3>1, PosIn
  <2>2. At(t, k, n) = t.at[p]
    BY PlaceIs DEF At
  <2> HIDE DEF p
  <2>3. Lies(t.at[p], p, c, V)
    BY <1>1, <2>1, <2>2, EmptyIs DEF Good
  <2> QED
    BY <2>2, <2>3, LiesIs
<1>3. Stop(t, k) \in Yielding(t, k)
  BY <1>2, StopIs
<1> QED
  BY <1>2, <1>3 DEF Find, Stop

-----------------------------------------------------------------------------
(* A new entry. *)

LEMMA DistinctAppend ==
  ASSUME NEW V, Pairs(V), Distinct(V), NEW k \in Key, NEW v \in Value, \A i \in 1 .. Len(V) : V[i][1] # k
  PROVE  LET W == Append(V, <<k, v>>) IN
         /\ Pairs(W) /\ Len(W) = Len(V) + 1 /\ Distinct(W)
         /\ W[Len(V) + 1] = <<k, v>> /\ \A i \in 1 .. Len(V) : W[i] = V[i]
<1> DEFINE W == Append(V, <<k, v>>)
<1>1. <<k, v>> \in Key \X Value
  OBVIOUS
<1>2. /\ Pairs(W) /\ Len(W) = Len(V) + 1
      /\ W[Len(V) + 1] = <<k, v>> /\ \A i \in 1 .. Len(V) : W[i] = V[i]
  BY <1>1 DEF Pairs
<1>3. <<k, v>>[1] = k
  OBVIOUS
<1> HIDE DEF W
<1>4. Distinct(W)
  <2> SUFFICES ASSUME NEW i \in 1 .. Len(V) + 1, NEW j \in 1 .. Len(V) + 1, W[i][1] = W[j][1] PROVE i = j
    BY <1>2 DEF Distinct
  <2>1. CASE i \in 1 .. Len(V) /\ j \in 1 .. Len(V)
    BY <1>2, <2>1 DEF Distinct
  <2>2. CASE i = Len(V) + 1 /\ j \in 1 .. Len(V)
    BY <1>2, <1>3, <2>2
  <2>3. CASE j = Len(V) + 1 /\ i \in 1 .. Len(V)
    BY <1>2, <1>3, <2>3
  <2>4. Len(V) \in Nat
    BY PairsAre
  <2> QED
    BY <2>1, <2>2, <2>3, <2>4
<1> QED
  BY <1>2, <1>4 DEF W

LEMMA EmplacedThere ==
  ASSUME NEW t, Laid(t), NEW k, NEW v, NEW i \in 1 .. Len(t.values), k = t.values[i][1]
  PROVE  Emplaced(t, k, v) = t
BY FindsIt DEF Emplaced, Stop

LEMMA EmplacedNew ==
  ASSUME NEW t, Laid(t), Len(t.values) + 1 < t.count, NEW k \in Key, NEW v \in Value,
         \A i \in 1 .. Len(t.values) : t.values[i][1] # k
  PROVE  LET u == Emplaced(t, k, v) IN
         /\ Laid(u) /\ u.values = Append(t.values, <<k, v>>) /\ u.count = t.count
<1> DEFINE c == t.count  V == t.values  n == Len(V)  W == Append(V, <<k, v>>)  i == Stop(t, k)
           x == Bucket(n + 1, i, Fingerprint[k])  p == Pos(Home[k], i, c)  u == Emplaced(t, k, v)
<1>1. /\ c \in Nat \ {0} /\ Pairs(V) /\ n \in Nat /\ Home[k] \in Nat
      /\ t = [values |-> V, at |-> t.at, count |-> c]
  BY LaidIs, HomeAssumption DEF Laid
<1>2. /\ i \in 0 .. c - 1 /\ i \in Nat /\ i \notin Matching(t, k)
      /\ \A m \in 0 .. i - 1 : m \notin Yielding(t, k)
  <2>1. i \in 0 .. c - 1 /\ Matching(t, k) = {} /\ \A m \in 0 .. i - 1 : m \notin Yielding(t, k)
    BY FindsNone, StopIs
  <2> QED
    BY <1>1, <2>1
<1>3. u = [values |-> W, at |-> Displaced(t.at, p, x), count |-> c]
  <2>1. u = [t EXCEPT !.values = Append(@, <<k, v>>), !.at = Displaced(@, p, x)]
    BY <1>2, PlaceIs DEF Emplaced, Stop
  <2> HIDE DEF u, p, x
  <2> QED
    BY <1>1, <2>1
<1>4. /\ Pairs(W) /\ Len(W) = n + 1 /\ Distinct(W)
      /\ W[n + 1] = <<k, v>> /\ \A j \in 1 .. n : W[j] = V[j]
  BY <1>1, DistinctAppend DEF Laid
<1>5. Stands(t.at, c, W, n)
  <2>1. Stands(t.at, c, V, n) /\ n <= Len(V) /\ n <= Len(W) /\ \A j \in 1 .. n : W[j][1] = V[j][1]
    BY <1>1, <1>4 DEF Laid
  <2> HIDE DEF c, V, n, W
  <2> QED
    BY <1>1, <1>4, <2>1, SameKeys
<1>6. x.idx = n + 1 /\ x.dist = i /\ W[x.idx][1] = k
  BY <1>4, BucketIs
<1>7. p \in 0 .. c - 1
  BY <1>1, <1>2, PosIn
<1>8. Lies(x, p, c, W)
  <2>1. HomeOf(x, W) = Home[k]
    BY <1>6 DEF HomeOf
  <2>2. x = Bucket(x.idx, x.dist, Fingerprint[W[x.idx][1]])
    BY <1>6
  <2> QED
    BY <1>1, <1>2, <1>4, <1>6, <2>1, <2>2 DEF Lies, Bears
<1>9. \A q \in 0 .. c - 1 : Nxt(q, c) = p => Behind(t.at[q], x)
  <2> SUFFICES ASSUME NEW q \in 0 .. c - 1, Nxt(q, c) = p, i > 0 PROVE t.at[q].idx # 0 /\ i <= t.at[q].dist + 1
    BY <1>6 DEF Behind
  <2> DEFINE o == Pos(Home[k], i - 1, c)
  <2>1. i - 1 \in Nat /\ i - 1 \in 0 .. i - 1 /\ i - 1 + 1 = i /\ i - 1 \in 0 .. c
    BY <1>1, <1>2
  <2>2. o \in 0 .. c - 1 /\ Nxt(o, c) = p
    BY <1>1, <2>1, PosIn, PosNext
  <2>3. q = o
    BY <1>1, <2>2, NxtOnce
  <2>4. i - 1 \notin Yielding(t, k)
    BY <1>2, <2>1
  <2>5. At(t, k, i - 1) = t.at[q]
    BY <2>3, PlaceIs DEF At
  <2>6. t.at[q].idx # 0 /\ ~(i - 1 > t.at[q].dist)
    BY <2>1, <2>4, <2>5 DEF Yielding, Step
  <2>7. t.at[q].dist \in Nat
    <3>1. Good(t.at, c, V)
      BY LaidIs
    <3>2. Lies(t.at[q], q, c, V)
      BY <2>6, <3>1, EmptyIs DEF Good
    <3> QED
      BY <3>2, LiesIs
  <2> QED
    BY <2>1, <2>6, <2>7
<1> HIDE DEF p, x
<1>10. Stands(Displaced(t.at, p, x), c, W, n + 1)
  <2>1. n < c
    BY <1>1
  <2> HIDE DEF c, n, W, i, V
  <2> QED
    BY <1>1, <1>4, <1>5, <1>6, <1>7, <1>8, <1>9, <2>1, PlaceOne
<1> HIDE DEF u
<1>11. u.values = W /\ u.at = Displaced(t.at, p, x) /\ u.count = c
  BY <1>3
<1>12. c \in Powers /\ n + 1 < c
  BY DEF Laid
<1>13. Laid(u)
  <2> HIDE DEF W
  <2> QED
    BY <1>3, <1>4, <1>10, <1>11, <1>12 DEF Laid
<1> QED
  BY <1>11, <1>13 DEF u

-----------------------------------------------------------------------------
(* Rehashing: the buckets of the entries one after the other. *)

\* One turn of the loop of rehash_impl.
Placing(V, c, bs, i) == Displaced(bs, Place(Allocated(V, c), V[i][1], 0), Bucket(i, 0, Fingerprint[V[i][1]]))

Places(V, c, n, m) == m = [i \in 0 .. n |-> IF i = 0 THEN Allocated(V, c).at ELSE Placing(V, c, m[i - 1], i)]

LEMMA PlacesExist ==
  ASSUME NEW V, NEW c, NEW n \in Nat
  PROVE  \E m : Places(V, c, n, m)
<1> DEFINE S == Allocated(V, c).at
           B == {x \in Nat : ~ \E m : Places(V, c, x, m)}
<1>1. SUFFICES ASSUME B # {} PROVE FALSE
  BY <1>1
<1>2. PICK x \in B : \A y \in B : x <= y
  BY <1>1, LeastNumber
<1>3. CASE x = 0
  <2> DEFINE m == [i \in 0 .. 0 |-> S]
  <2>1. m = [i \in 0 .. 0 |-> IF i = 0 THEN S ELSE Placing(V, c, m[i - 1], i)]
    <3> HIDE DEF S
    <3> QED
      OBVIOUS
  <2> QED
    BY <1>2, <1>3, <2>1 DEF Places
<1>4. CASE x # 0
  <2>1. x - 1 \in Nat /\ x \in Nat /\ x - 1 \notin B
    BY <1>2, <1>4
  <2>2. PICK f : f = [i \in 0 .. x - 1 |-> IF i = 0 THEN S ELSE Placing(V, c, f[i - 1], i)]
    BY <2>1 DEF Places
  <2> DEFINE m == [i \in 0 .. x |-> IF i = x THEN Placing(V, c, f[x - 1], x) ELSE f[i]]
  <2>3. ASSUME NEW i \in 0 .. x PROVE m[i] = IF i = 0 THEN S ELSE Placing(V, c, m[i - 1], i)
    <3> HIDE DEF S
    <3>1. CASE i = x
      <4>1. m[i - 1] = f[x - 1] /\ m[i] = Placing(V, c, f[x - 1], x)
        BY <2>1, <3>1
      <4> QED
        BY <1>4, <3>1, <4>1
    <3>2. CASE i # x
      <4>1. i \in 0 .. x - 1 /\ m[i] = f[i]
        BY <2>1, <3>2
      <4>2. i # 0 => i - 1 \in 0 .. x /\ i - 1 # x
        BY <2>1, <4>1
      <4>3. i # 0 => m[i - 1] = f[i - 1]
        BY <4>2
      <4>4. f[i] = IF i = 0 THEN S ELSE Placing(V, c, f[i - 1], i)
        BY <2>2, <4>1
      <4> HIDE DEF m
      <4> QED
        BY <4>1, <4>3, <4>4
    <3> QED
      BY <3>1, <3>2
  <2>4. m = [i \in 0 .. x |-> m[i]]
    OBVIOUS
  <2> HIDE DEF m
  <2>5. m = [i \in 0 .. x |-> IF i = 0 THEN S ELSE Placing(V, c, m[i - 1], i)]
    BY <2>3, <2>4
  <2> QED
    BY <1>2, <2>5 DEF Places
<1> QED
  BY <1>3, <1>4

LEMMA RehashedIs ==
  ASSUME NEW t, NEW c, Len(t.values) \in Nat
  PROVE  \E m : /\ m[0] = Allocated(t.values, c).at
                /\ \A i \in 1 .. Len(t.values) : m[i] = Placing(t.values, c, m[i - 1], i)
                /\ Rehashed(t, c) = [values |-> t.values, at |-> m[Len(t.values)], count |-> c]
<1> DEFINE V == t.values  u == Allocated(V, c)  n == Len(V)
           m == CHOOSE m : Places(V, c, n, m)
<1>1. Places(V, c, n, m)
  BY PlacesExist
<1>2. Rehashed(t, c) = [u EXCEPT !.at = m[n]]
  BY Zenon DEF Rehashed, Places, Placing
<1>3. u = [values |-> V, at |-> u.at, count |-> c]
  BY DEF Allocated
<1> HIDE DEF m, u
<1>4. Rehashed(t, c) = [values |-> V, at |-> m[n], count |-> c]
  BY <1>2, <1>3
<1>5. m[0] = u.at
  BY <1>1 DEF Places, u
<1>6. \A i \in 1 .. n : m[i] = Placing(V, c, m[i - 1], i)
  BY <1>1 DEF Places
<1> QED
  BY <1>4, <1>5, <1>6 DEF u

LEMMA AllocatedStands ==
  ASSUME NEW c \in Nat \ {0}, NEW V
  PROVE  Stands(Allocated(V, c).at, c, V, 0)
<1> DEFINE bs == Allocated(V, c).at
<1>1. bs = [b \in 0 .. c - 1 |-> EmptyBucket]
  BY DEF Allocated
<1> HIDE DEF bs
<1>2. \A b \in 0 .. c - 1 : bs[b] = EmptyBucket
  BY <1>1
<1>3. Good(bs, c, V)
  BY <1>1, <1>2, EmptyIs, NxtIn DEF Good, Behind
<1>4. Taken(bs, c) = {}
  BY <1>2, EmptyIs DEF Taken
<1>5. Held(bs, c) = 1 .. 0
  BY <1>4 DEF Held
<1>6. Cardinality(Taken(bs, c)) = 0
  BY <1>4, FS_EmptySet
<1> QED
  BY <1>3, <1>5, <1>6 DEF Stands, bs

LEMMA RehashedWorks ==
  ASSUME NEW t, Pairs(t.values), Distinct(t.values), NEW c \in Powers, Len(t.values) < c
  PROVE  Laid(Rehashed(t, c)) /\ Rehashed(t, c).values = t.values /\ Rehashed(t, c).count = c
<1> DEFINE V == t.values  n == Len(V)  u == Rehashed(t, c)
<1>1. c \in Nat \ {0} /\ n \in Nat /\ Pairs(V)
  BY PowerIs
<1>2. PICK m : /\ m[0] = Allocated(V, c).at
               /\ \A i \in 1 .. n : m[i] = Placing(V, c, m[i - 1], i)
               /\ u = [values |-> V, at |-> m[n], count |-> c]
  BY <1>1, RehashedIs
<1> HIDE DEF V, n, u
<1>3. \A i \in 0 .. n : Stands(m[i], c, V, i)
  <2> DEFINE B == {i \in 0 .. n : ~Stands(m[i], c, V, i)}
  <2>1. SUFFICES ASSUME B # {} PROVE FALSE
    BY <2>1
  <2>2. PICK i \in B : \A j \in B : i <= j
    <3>1. B \in SUBSET Nat
      BY <1>1
    <3> HIDE DEF B
    <3> QED
      BY <2>1, <3>1, LeastNumber
  <2>3. CASE i = 0
    BY <1>1, <1>2, <2>2, <2>3, AllocatedStands
  <2>4. CASE i # 0
    <3>1. i \in 1 .. n /\ i - 1 \in 0 .. n /\ i - 1 \in Nat /\ i - 1 < c /\ i - 1 + 1 = i
      BY <1>1, <2>2, <2>4 DEF V, n
    <3>2. Stands(m[i - 1], c, V, i - 1)
      BY <1>1, <2>2, <3>1
    <3> DEFINE k == V[i][1]  p == Pos(Home[k], 0, c)  x == Bucket(i, 0, Fingerprint[k])
    <3>3. k \in Key /\ Home[k] \in Nat
      <4>1. i \in 1 .. Len(V)
        BY <3>1 DEF n
      <4> QED
        BY <1>1, <4>1, PairsAre
    <3>4. p \in 0 .. c - 1
      BY <1>1, <3>3, PosIn
    <3>5. x.idx = i /\ x.dist = 0
      BY BucketIs
    <3>6. Lies(x, p, c, V)
      <4>1. HomeOf(x, V) = Home[k]
        BY <3>5 DEF HomeOf
      <4>2. x = Bucket(x.idx, x.dist, Fingerprint[V[x.idx][1]])
        BY <3>5
      <4> QED
        BY <3>1, <3>5, <4>1, <4>2 DEF Lies, Bears, n
    <3>7. \A q \in 0 .. c - 1 : Nxt(q, c) = p => Behind(m[i - 1][q], x)
      BY <3>5 DEF Behind
    <3>8. m[i] = Displaced(m[i - 1], p, x)
      <4>1. m[i] = Placing(V, c, m[i - 1], i)
        BY <1>2, <3>1
      <4>2. Place(Allocated(V, c), k, 0) = p
        BY PlaceIs DEF Allocated
      <4> QED
        BY <4>1, <4>2 DEF Placing
    <3> HIDE DEF p, x, k
    <3>9. Stands(Displaced(m[i - 1], p, x), c, V, i - 1 + 1)
      BY <1>1, <3>1, <3>2, <3>4, <3>5, <3>6, <3>7, PlaceOne
    <3> QED
      BY <2>2, <3>1, <3>8, <3>9
  <2> QED
    BY <2>3, <2>4
<1>4. Stands(m[n], c, V, n)
  BY <1>1, <1>3
<1>5. u.values = V /\ u.at = m[n] /\ u.count = c
  BY <1>2
<1>6. n < c /\ Distinct(V) /\ c \in Powers /\ n = Len(V)
  BY DEF n, V
<1>7. Laid(u)
  BY <1>1, <1>2, <1>4, <1>5, <1>6 DEF Laid
<1> QED
  BY <1>5, <1>7 DEF u, V

-----------------------------------------------------------------------------
(* backward_shift_delete *)

Nearer(y) == [y EXCEPT !.dist = @ - 1]

LEMMA NearerIs ==
  ASSUME NEW c \in Nat \ {0}, NEW V, Pairs(V), NEW p \in 0 .. c - 1, NEW y, Lies(y, Nxt(p, c), c, V),
         y.dist # 0
  PROVE  Lies(Nearer(y), p, c, V) /\ Nearer(y).idx = y.idx /\ Nearer(y).dist = y.dist - 1 /\ y.dist - 1 \in Nat
<1> DEFINE f == Fingerprint[V[y.idx][1]]  h == HomeOf(y, V)
<1>1. y = Bucket(y.idx, y.dist, f) /\ y.idx \in 1 .. Len(V) /\ y.dist \in Nat /\ Pos(h, y.dist, c) = Nxt(p, c)
  BY DEF Lies, Bears
<1>2. [y EXCEPT !.dist = @ - 1] = Bucket(y.idx, y.dist - 1, f)
  BY <1>1 DEF Bucket
<1>3. Nearer(y) = Bucket(y.idx, y.dist - 1, f)
  BY <1>2 DEF Nearer
<1>4. Nearer(y).idx = y.idx /\ Nearer(y).dist = y.dist - 1
  BY <1>3, BucketIs
<1>5. h \in Nat
  BY HomeIs DEF Lies
<1>6. y.dist - 1 \in Nat /\ y.dist - 1 + 1 = y.dist
  BY <1>1
<1>7. Pos(h, y.dist - 1, c) = p
  <2> DEFINE m == y.dist - 1
  <2>1. m \in Nat /\ m + 1 = y.dist
    BY <1>6
  <2> HIDE DEF m, h
  <2>2. Pos(h, m, c) \in 0 .. c - 1 /\ Nxt(Pos(h, m, c), c) = Nxt(p, c)
    BY <1>1, <1>5, <2>1, PosIn, PosNext
  <2> QED
    BY <2>2, NxtOnce DEF m
<1>8. HomeOf(Nearer(y), V) = h
  BY <1>4 DEF HomeOf
<1> QED
  BY <1>1, <1>3, <1>4, <1>6, <1>7, <1>8 DEF Lies, Bears

\* How many buckets behind bucket b move.
Stopper(y) == y.idx = 0 \/ y.dist = 0
Moved(bs, b, c) == Min({n \in 0 .. c - 1 : Stopper(bs[Pos(b, n + 1, c)])})

LEMMA MovedIs ==
  ASSUME NEW c \in Nat \ {0}, NEW bs, NEW b \in 0 .. c - 1, bs[b].idx # 0, NEW f \in 0 .. c - 1, bs[f].idx = 0
  PROVE  /\ Moved(bs, b, c) \in Nat /\ Moved(bs, b, c) + 1 < c /\ Stopper(bs[Pos(b, Moved(bs, b, c) + 1, c)])
         /\ \A n \in 0 .. Moved(bs, b, c) - 1 : ~Stopper(bs[Pos(b, n + 1, c)])
<1>1. PICK n \in 0 .. c - 1 : Pos(b, n, c) = f
  <2>1. b \in Nat
    OBVIOUS
  <2>2. \A h \in Nat, q \in 0 .. c - 1 : \E i \in 0 .. c - 1 : Pos(h, i, c) = q
    <3> SUFFICES ASSUME NEW h \in Nat, NEW q \in 0 .. c - 1 PROVE \E i \in 0 .. c - 1 : Pos(h, i, c) = q
      OBVIOUS
    <3> QED
      BY PosEvery
  <2> QED
    BY <2>1, <2>2
<1> DEFINE S == {j \in 0 .. c - 1 : Stopper(bs[Pos(b, j + 1, c)])}
<1>2. n # 0
  BY <1>1, PosFrom
<1>3. n - 1 \in 0 .. c - 1 /\ n - 1 + 1 = n /\ n - 1 \in Nat
  BY <1>2
<1>4. n - 1 \in S
  BY <1>1, <1>3 DEF Stopper
<1>5. S \in SUBSET Nat
  OBVIOUS
<1> HIDE DEF S
<1>6. Min(S) \in S /\ \A m \in S : Min(S) <= m
  BY <1>4, <1>5, MinOf
<1>7. Min(S) \in Nat /\ Min(S) + 1 < c
  <2>1. Min(S) \in Nat /\ Min(S) <= n - 1
    BY <1>4, <1>5, <1>6
  <2> QED
    BY <1>3, <2>1
<1>8. \A m \in 0 .. Min(S) - 1 : m \notin S
  BY <1>6, <1>7
<1>9. \A m \in 0 .. Min(S) - 1 : m \in 0 .. c - 1
  BY <1>7
<1>10. Min(S) = Moved(bs, b, c)
  BY DEF S, Moved
<1> QED
  BY <1>6, <1>7, <1>8, <1>9, <1>10 DEF S

\* What lies n steps behind bucket b then.
Shifted(bs, b, c, n) ==
  IF n < Moved(bs, b, c) THEN Nearer(bs[Pos(b, n + 1, c)])
  ELSE IF n = Moved(bs, b, c) THEN EmptyBucket ELSE bs[Pos(b, n, c)]

LEMMA BackShiftedIs ==
  ASSUME NEW c \in Nat \ {0}, NEW bs, DOMAIN bs = 0 .. c - 1, NEW b \in 0 .. c - 1
  PROVE  /\ BackShifted(bs, b) = [q \in 0 .. c - 1 |-> BackShifted(bs, b)[q]]
         /\ \A n \in 0 .. c - 1 : BackShifted(bs, b)[Pos(b, n, c)] = Shifted(bs, b, c, n)
<1> DEFINE u == BackShifted(bs, b)  moved == Moved(bs, b, c)
<1>1. Cardinality(DOMAIN bs) = c
  BY RingSize
<1>2. \A n \in 0 .. c - 1 : bs[(b + n + 1) % c] = bs[Pos(b, n + 1, c)]
  <2>1. \A n \in 0 .. c - 1 : b + n + 1 = b + (n + 1)
    OBVIOUS
  <2> QED
    BY <2>1, Zenon DEF Pos
<1>3. moved = Min({n \in 0 .. c - 1 : bs[(b + n + 1) % c].idx = 0 \/ bs[(b + n + 1) % c].dist = 0})
  <2> DEFINE A == {n \in 0 .. c - 1 : Stopper(bs[Pos(b, n + 1, c)])}
             B == {n \in 0 .. c - 1 : bs[(b + n + 1) % c].idx = 0 \/ bs[(b + n + 1) % c].dist = 0}
  <2>1. A = B
    BY <1>2, Zenon DEF Stopper
  <2> HIDE DEF A, B
  <2>2. Min(A) = Min(B)
    BY <2>1
  <2> QED
    BY <2>2 DEF A, B, Moved
<1>4. u = [q \in 0 .. c - 1 |->
             IF (q - b) % c < moved THEN [bs[(b + ((q - b) % c) + 1) % c] EXCEPT !.dist = @ - 1]
             ELSE IF (q - b) % c = moved THEN EmptyBucket ELSE bs[q]]
  <2> HIDE DEF moved
  <2> QED
    BY <1>1, <1>3, Zenon DEF BackShifted
<1>5. ASSUME NEW n \in 0 .. c - 1 PROVE u[Pos(b, n, c)] = Shifted(bs, b, c, n)
  <2> DEFINE q == Pos(b, n, c)
  <2>1. q \in 0 .. c - 1
    <3>1. b \in Nat /\ n \in Nat
      OBVIOUS
    <3> QED
      BY <3>1, PosIn
  <2>2. (q - b) % c = n
    BY <2>1, OffsetPos
  <2> HIDE DEF u, q, moved
  <2>3. u[q] = IF n < moved THEN [bs[(b + n + 1) % c] EXCEPT !.dist = @ - 1]
               ELSE IF n = moved THEN EmptyBucket ELSE bs[q]
    BY <1>4, <2>1, <2>2
  <2> QED
    BY <1>2, <2>3 DEF Shifted, Nearer, q, moved
<1>6. u = [q \in 0 .. c - 1 |-> u[q]]
  <2> HIDE DEF moved
  <2> QED
    BY <1>4
<1> QED
  BY <1>5, <1>6

LEMMA BackShiftWorks ==
  ASSUME NEW c \in Nat \ {0}, NEW V, Pairs(V), NEW bs, Good(bs, c, V), NEW b \in 0 .. c - 1,
         bs[b].idx # 0, NEW f \in 0 .. c - 1, bs[f].idx = 0
  PROVE  LET u == BackShifted(bs, b) IN
         /\ Good(u, c, V)
         /\ \E p \in Taken(bs, c) : Taken(u, c) = Taken(bs, c) \ {p}
         /\ Held(u, c) = Held(bs, c) \ {bs[b].idx}
<1> DEFINE u == BackShifted(bs, b)  s == Moved(bs, b, c)  P(n) == Pos(b, n, c)
<1>1. /\ s \in Nat /\ s + 1 < c /\ Stopper(bs[P(s + 1)])
      /\ \A n \in 0 .. s - 1 : ~Stopper(bs[P(n + 1)])
  BY MovedIs
<1>2. /\ u = [q \in 0 .. c - 1 |-> u[q]]
      /\ \A n \in 0 .. c - 1 : u[P(n)] = Shifted(bs, b, c, n)
  <2>1. DOMAIN bs = 0 .. c - 1
    BY DEF Good
  <2> QED
    BY <2>1, BackShiftedIs
<1>3. \A n \in 0 .. c : P(n) \in 0 .. c - 1
  <2>1. \A n \in 0 .. c : n \in Nat
    OBVIOUS
  <2>2. b \in Nat
    OBVIOUS
  <2> QED
    BY <2>1, <2>2, PosIn
<1>4. \A n \in 0 .. c - 1 : Nxt(P(n), c) = P(n + 1)
  <2>1. \A n \in 0 .. c - 1 : n \in Nat
    OBVIOUS
  <2>2. b \in Nat
    OBVIOUS
  <2> QED
    BY <2>1, <2>2, PosNext
<1>5. P(0) = b /\ P(c) = b
  <2>1. P(0) = b
    BY PosFrom
  <2>2. c - 1 \in 0 .. c - 1 /\ c - 1 + 1 = c
    OBVIOUS
  <2>3. P(c - 1) = (IF b + (c - 1) < c THEN b + (c - 1) ELSE b + (c - 1) - c)
    BY <2>2, PosFrom
  <2>4. Nxt(P(c - 1), c) = b
    BY <2>3 DEF Nxt
  <2>5. Nxt(P(c - 1), c) = P(c - 1 + 1)
    BY <1>4, <2>2
  <2> QED
    BY <2>1, <2>2, <2>4, <2>5
<1>6. \A n \in 0 .. c - 1, m \in 0 .. c - 1 : P(n) = P(m) => n = m
  BY PosOnce
<1>7. \A q \in 0 .. c - 1 : \E n \in 0 .. c - 1 : P(n) = q
  BY PosEvery
<1>8. \A q \in 0 .. c - 1 : bs[q].idx # 0 => Lies(bs[q], q, c, V) /\ bs[q].dist \in Nat
  BY EmptyIs, LiesIs DEF Good
<1> HIDE DEF u, s, P
\* bucket by bucket
<1>9. ASSUME NEW n \in 0 .. c - 1, n < s
      PROVE  /\ n + 1 \in 0 .. c - 1 /\ u[P(n)] = Nearer(bs[P(n + 1)])
             /\ bs[P(n + 1)].idx # 0 /\ bs[P(n + 1)].dist # 0 /\ bs[P(n + 1)].dist \in Nat
             /\ Lies(u[P(n)], P(n), c, V)
             /\ u[P(n)].idx = bs[P(n + 1)].idx /\ u[P(n)].dist = bs[P(n + 1)].dist - 1
  <2>1. n + 1 \in 0 .. c - 1 /\ n \in 0 .. s - 1
    BY <1>1, <1>9
  <2>2. u[P(n)] = Nearer(bs[P(n + 1)])
    BY <1>2, <1>9 DEF Shifted, s, P
  <2>3. bs[P(n + 1)].idx # 0 /\ bs[P(n + 1)].dist # 0
    BY <1>1, <2>1 DEF Stopper
  <2>4. Lies(bs[P(n + 1)], Nxt(P(n), c), c, V) /\ bs[P(n + 1)].dist \in Nat
    BY <1>3, <1>4, <1>8, <2>1, <2>3
  <2>5. P(n) \in 0 .. c - 1
    BY <1>3
  <2> DEFINE y == bs[P(n + 1)]
  <2>6. Lies(Nearer(y), P(n), c, V) /\ Nearer(y).idx = y.idx /\ Nearer(y).dist = y.dist - 1
    <3> HIDE DEF y
    <3>1. Lies(y, Nxt(P(n), c), c, V) /\ y.dist # 0
      BY <2>3, <2>4 DEF y
    <3> QED
      BY <2>5, <3>1, NearerIs
  <2> QED
    BY <2>1, <2>2, <2>3, <2>4, <2>6
<1>10. u[P(s)] = EmptyBucket /\ s \in 0 .. c - 1
  <2>1. s \in 0 .. c - 1
    BY <1>1
  <2>2. u[P(s)] = Shifted(bs, b, c, s)
    BY <1>2, <2>1
  <2> QED
    BY <1>1, <2>1, <2>2 DEF Shifted, s
<1>11. ASSUME NEW n \in 0 .. c - 1, n > s PROVE u[P(n)] = bs[P(n)]
  BY <1>1, <1>2, <1>11 DEF Shifted, s, P
\* where an entry was before
<1> DEFINE From(n) == IF n < s THEN n + 1 ELSE n
<1>12. ASSUME NEW n \in 0 .. c - 1, n # s
       PROVE  From(n) \in 1 .. c - 1 /\ u[P(n)].idx = bs[P(From(n))].idx
  <2>1. CASE n < s
    BY <1>9, <2>1
  <2>2. CASE n > s
    BY <1>1, <1>11, <2>2
  <2> QED
    BY <1>1, <1>12, <2>1, <2>2
<1>13. \A n \in 0 .. c - 1, m \in 0 .. c - 1 : n # s /\ m # s /\ From(n) = From(m) => n = m
  BY <1>1
<1>14. \A m \in 1 .. c - 1 : \E n \in 0 .. c - 1 : n # s /\ From(n) = m
  <2> SUFFICES ASSUME NEW m \in 1 .. c - 1 PROVE \E n \in 0 .. c - 1 : n # s /\ From(n) = m
    OBVIOUS
  <2>1. CASE m <= s
    <3>1. m - 1 \in 0 .. c - 1 /\ m - 1 < s /\ m - 1 # s /\ m - 1 + 1 = m
      BY <1>1, <2>1
    <3>2. From(m - 1) = m
      BY <3>1
    <3> QED
      BY <3>1, <3>2
  <2>2. CASE ~(m <= s)
    <3>1. m \in 0 .. c - 1 /\ ~(m < s) /\ m # s
      BY <1>1, <2>2
    <3> QED
      BY <3>1
  <2> QED
    BY <2>1, <2>2
<1>15. \A q \in 0 .. c - 1 : u[q] = EmptyBucket \/ Lies(u[q], q, c, V)
  <2> SUFFICES ASSUME NEW n \in 0 .. c - 1 PROVE u[P(n)] = EmptyBucket \/ Lies(u[P(n)], P(n), c, V)
    BY <1>7
  <2>1. CASE n < s
    BY <1>9, <2>1
  <2>2. CASE n = s
    BY <1>10, <2>2
  <2>3. CASE n > s
    <3>1. u[P(n)] = bs[P(n)] /\ P(n) \in 0 .. c - 1
      BY <1>3, <1>11, <2>3
    <3> QED
      BY <3>1 DEF Good
  <2> QED
    BY <1>1, <2>1, <2>2, <2>3
<1>16. \A p \in 0 .. c - 1, q \in 0 .. c - 1 : u[p].idx # 0 /\ u[p].idx = u[q].idx => p = q
  <2> SUFFICES ASSUME NEW n \in 0 .. c - 1, NEW m \in 0 .. c - 1, u[P(n)].idx # 0, u[P(n)].idx = u[P(m)].idx PROVE n = m
    BY <1>7
  <2>1. n # s /\ m # s
    BY <1>10, EmptyIs
  <2>2. /\ From(n) \in 0 .. c - 1 /\ From(m) \in 0 .. c - 1
        /\ bs[P(From(n))].idx # 0 /\ bs[P(From(n))].idx = bs[P(From(m))].idx
    BY <1>12, <2>1
  <2> HIDE DEF From
  <2>3. P(From(n)) \in 0 .. c - 1 /\ P(From(m)) \in 0 .. c - 1
    BY <1>3, <2>2
  <2>4. P(From(n)) = P(From(m))
    BY <2>2, <2>3 DEF Good
  <2>5. From(n) = From(m)
    BY <1>6, <2>2, <2>4
  <2> QED
    BY <1>13, <2>1, <2>5
<1>17. \A q \in 0 .. c - 1 : Behind(u[q], u[Nxt(q, c)])
  <2> SUFFICES ASSUME NEW n \in 0 .. c - 1 PROVE Behind(u[P(n)], u[P(n + 1)])
    BY <1>4, <1>7
  <2>1. ASSUME NEW m \in 0 .. c - 1 PROVE Behind(bs[P(m)], bs[P(m + 1)])
    <3>1. P(m) \in 0 .. c - 1 /\ Nxt(P(m), c) = P(m + 1)
      BY <1>3, <1>4
    <3> QED
      BY <3>1 DEF Good
  <2>2. CASE n + 1 < s
    <3>1. n < s /\ n + 1 \in 0 .. c - 1
      BY <1>1, <2>2
    <3>2. u[P(n)].idx # 0 /\ u[P(n)].dist = bs[P(n + 1)].dist - 1 /\ bs[P(n + 1)].dist \in Nat
      BY <1>9, <3>1
    <3>3. u[P(n + 1)].dist = bs[P(n + 1 + 1)].dist - 1 /\ bs[P(n + 1 + 1)].dist \in Nat /\ bs[P(n + 1 + 1)].dist # 0
      BY <1>9, <2>2, <3>1
    <3>4. Behind(bs[P(n + 1)], bs[P(n + 1 + 1)])
      BY <2>1, <3>1
    <3> QED
      BY <3>2, <3>3, <3>4 DEF Behind
  <2>3. CASE n + 1 = s
    BY <1>10, <2>3, EmptyIs DEF Behind
  <2>4. CASE n = s
    <3>1. n + 1 \in 0 .. c - 1 /\ n + 1 > s
      BY <1>1, <2>4
    <3>2. u[P(n + 1)] = bs[P(s + 1)]
      BY <1>11, <2>4, <3>1
    <3>3. ~(u[P(n + 1)].dist > 0)
      <4>1. P(s + 1) \in 0 .. c - 1
        BY <1>3, <2>4, <3>1
      <4>2. bs[P(s + 1)] = EmptyBucket \/ bs[P(s + 1)].dist = 0
        BY <1>1, <4>1, LiesIs DEF Good, Stopper
      <4> QED
        BY <3>2, <4>2, EmptyIs
    <3> QED
      BY <3>3 DEF Behind
  <2>5. CASE n > s /\ n + 1 < c
    <3>1. n + 1 \in 0 .. c - 1 /\ n + 1 > s
      BY <1>1, <2>5
    <3>2. u[P(n)] = bs[P(n)] /\ u[P(n + 1)] = bs[P(n + 1)]
      BY <1>11, <2>5, <3>1
    <3> QED
      BY <2>1, <3>2
  <2>6. CASE n > s /\ n + 1 = c
    <3>1. u[P(n)] = bs[P(n)] /\ P(n + 1) = b /\ P(0) = b /\ 0 \in 0 .. c - 1
      BY <1>5, <1>11, <2>6
    <3>2. Behind(bs[P(n)], bs[b])
      BY <2>1, <3>1
    <3>3. CASE s = 0
      BY <1>10, <3>1, <3>3, EmptyIs DEF Behind
    <3>4. CASE s > 0
      <4>1. u[b].dist = bs[P(0 + 1)].dist - 1 /\ bs[P(0 + 1)].dist \in Nat /\ bs[P(0 + 1)].dist # 0
        BY <1>9, <3>1, <3>4
      <4>2. Behind(bs[b], bs[P(0 + 1)])
        BY <2>1, <3>1
      <4>3. bs[b].dist \in Nat
        BY <1>8
      <4>4. u[b].dist <= bs[b].dist
        BY <4>1, <4>2, <4>3 DEF Behind
      <4>5. bs[P(n)].idx # 0 => bs[P(n)].dist \in Nat
        BY <1>3, <1>8
      <4> QED
        BY <3>1, <3>2, <4>1, <4>3, <4>4, <4>5 DEF Behind
    <3> QED
      BY <1>1, <3>3, <3>4
  <2> QED
    BY <1>1, <2>2, <2>3, <2>4, <2>5, <2>6
<1>18. Good(u, c, V)
  BY <1>2, <1>15, <1>16, <1>17 DEF Good
<1>19. P(s) \in Taken(bs, c)
  <2>1. CASE s = 0
    BY <1>5, <2>1 DEF Taken
  <2>2. CASE s # 0
    <3>1. s - 1 \in 0 .. c - 1 /\ s - 1 < s /\ s - 1 + 1 = s
      BY <1>1, <2>2
    <3>2. bs[P(s - 1 + 1)].idx # 0
      BY <1>9, <3>1
    <3> QED
      BY <1>3, <1>10, <3>1, <3>2 DEF Taken
  <2> QED
    BY <2>1, <2>2
<1>20. Taken(u, c) = Taken(bs, c) \ {P(s)}
  <2> SUFFICES ASSUME NEW n \in 0 .. c - 1 PROVE u[P(n)].idx # 0 <=> bs[P(n)].idx # 0 /\ P(n) # P(s)
    BY <1>7 DEF Taken
  <2>1. CASE n < s
    <3>1. u[P(n)].idx # 0 /\ n # s
      BY <1>1, <1>9, <2>1
    <3>2. P(n) # P(s)
      BY <1>6, <1>10, <3>1
    <3>3. bs[P(n)].idx # 0
      <4>1. CASE n = 0
        BY <1>5, <4>1
      <4>2. CASE n # 0
        <5>1. n - 1 \in 0 .. c - 1 /\ n - 1 < s /\ n - 1 + 1 = n
          BY <1>1, <2>1, <4>2
        <5>2. bs[P(n - 1 + 1)].idx # 0
          BY <1>9, <5>1
        <5> QED
          BY <5>1, <5>2
      <4> QED
        BY <4>1, <4>2
    <3> QED
      BY <3>1, <3>2, <3>3
  <2>2. CASE n = s
    BY <1>10, <2>2, EmptyIs
  <2>3. CASE n > s
    <3>1. n # s
      BY <1>1, <2>3
    <3>2. P(n) # P(s)
      BY <1>6, <1>10, <3>1
    <3> QED
      BY <1>11, <2>3, <3>2
  <2> QED
    BY <1>1, <2>1, <2>2, <2>3
<1>21. Held(u, c) = Held(bs, c) \ {bs[b].idx}
  <2>1. ASSUME NEW q \in Taken(u, c) PROVE u[q].idx \in Held(bs, c) /\ u[q].idx # bs[b].idx
    <3>1. q \in 0 .. c - 1 /\ u[q].idx # 0
      BY DEF Taken
    <3>2. PICK n \in 0 .. c - 1 : P(n) = q
      BY <1>7, <3>1
    <3>3. n # s
      BY <1>10, <3>1, <3>2, EmptyIs
    <3> DEFINE m == From(n)
    <3>4. m \in 1 .. c - 1 /\ u[q].idx = bs[P(m)].idx
      BY <1>12, <3>2, <3>3
    <3> HIDE DEF m, From
    <3>5. m \in 0 .. c - 1 /\ m # 0 /\ P(m) \in 0 .. c - 1 /\ 0 \in 0 .. c - 1
      BY <1>3, <3>4
    <3>6. P(m) # b
      BY <1>5, <1>6, <3>5
    <3>7. bs[P(m)].idx # bs[b].idx
      BY <3>1, <3>4, <3>5, <3>6 DEF Good
    <3> QED
      BY <3>1, <3>4, <3>5, <3>7 DEF Held, Taken
  <2>2. ASSUME NEW q \in Taken(bs, c), bs[q].idx # bs[b].idx PROVE bs[q].idx \in Held(u, c)
    <3>1. q \in 0 .. c - 1 /\ bs[q].idx # 0
      BY DEF Taken
    <3>2. PICK m \in 0 .. c - 1 : P(m) = q
      BY <1>7, <3>1
    <3>3. m # 0
      BY <1>5, <2>2, <3>2
    <3>4. m \in 1 .. c - 1
      BY <3>3
    <3>5. PICK n \in 0 .. c - 1 : n # s /\ From(n) = m
      BY <1>14, <3>4
    <3>6. u[P(n)].idx = bs[q].idx
      BY <1>12, <3>2, <3>5
    <3>7. P(n) \in 0 .. c - 1
      BY <1>3
    <3> QED
      BY <3>1, <3>6, <3>7 DEF Held, Taken
  <2> QED
    BY <2>1, <2>2 DEF Held
<1> QED
  BY <1>18, <1>19, <1>20, <1>21 DEF u

-----------------------------------------------------------------------------
(* erase_at_index *)

LEMMA BucketOfIs ==
  ASSUME NEW t, NEW V, V = t.values, NEW c \in Nat \ {0}, c = t.count, Pairs(V), NEW bs, Good(bs, c, V),
         NEW idx \in 1 .. Len(V), idx \in Held(bs, c)
  PROVE  BucketOf(t, bs, idx) \in 0 .. c - 1 /\ bs[BucketOf(t, bs, idx)].idx = idx
<1> DEFINE k == V[idx][1]  S == {i \in Step(t) : bs[Place(t, k, i)].idx = idx}
<1>1. Home[k] \in Nat /\ idx # 0
  BY PairsAre
<1>2. PICK b \in 0 .. c - 1 : bs[b].idx = idx
  BY DEF Held, Taken
<1>3. PICK n \in 0 .. c - 1 : Pos(Home[k], n, c) = b
  BY <1>1, PosEvery
<1>4. n \in S
  BY <1>2, <1>3, PlaceIs DEF Step
<1>5. S \in SUBSET Nat
  BY DEF Step
<1>6. BucketOf(t, bs, idx) = Place(t, k, Min(S))
  BY DEF BucketOf
<1> HIDE DEF S
<1>7. Min(S) \in S /\ Min(S) \in Nat
  <2>1. Min(S) \in S
    BY <1>4, <1>5, MinOf
  <2> QED
    BY <1>5, <2>1
<1>8. bs[Place(t, k, Min(S))].idx = idx
  BY <1>7 DEF S
<1>9. Place(t, k, Min(S)) \in 0 .. c - 1
  BY <1>1, <1>7, PlaceIs, PosIn
<1> QED
  BY <1>6, <1>8, <1>9

\* The last entry, number n, becomes number idx.
Redirected(bs, b, idx) == [bs EXCEPT ![b].idx = idx]

Filled(V, W, n, idx) ==
  /\ Pairs(V) /\ Pairs(W) /\ Len(V) = n /\ Len(W) = n - 1
  /\ \A i \in 1 .. n - 1 : W[i] = (IF i = idx THEN V[n] ELSE V[i])

Redirectable(bs, c, V, W, n, idx, b) ==
  /\ c \in Nat \ {0} /\ n \in Nat /\ idx \in 1 .. n - 1 /\ Filled(V, W, n, idx)
  /\ Good(bs, c, V) /\ Held(bs, c) = (1 .. n) \ {idx} /\ b \in 0 .. c - 1 /\ bs[b].idx = n

LEMMA RedirectedIs ==
  ASSUME NEW c, NEW V, NEW W, NEW n, NEW idx, NEW bs, NEW b, Redirectable(bs, c, V, W, n, idx, b)
  PROVE  LET r == Redirected(bs, b, idx) IN
         Good(r, c, W) /\ Taken(r, c) = Taken(bs, c) /\ Held(r, c) = 1 .. n - 1
<1>   c \in Nat \ {0} /\ n \in Nat /\ idx \in 1 .. n - 1 /\ b \in 0 .. c - 1
  BY DEF Redirectable
<1>   Filled(V, W, n, idx) /\ Good(bs, c, V) /\ Held(bs, c) = (1 .. n) \ {idx} /\ bs[b].idx = n
  BY DEF Redirectable
<1> DEFINE x == Bucket(idx, bs[b].dist, bs[b].print)  r == Redirected(bs, b, idx)
<1>0. /\ Pairs(V) /\ Pairs(W) /\ Len(V) = n /\ Len(W) = n - 1
      /\ \A i \in 1 .. n - 1 : W[i] = (IF i = idx THEN V[n] ELSE V[i])
  BY DEF Filled
<1>1. bs = [q \in 0 .. c - 1 |-> bs[q]] /\ n # 0 /\ idx # 0 /\ idx # n
  BY DEF Good
<1>2. Lies(bs[b], b, c, V)
  BY <1>1, EmptyIs DEF Good
<1>3. bs[b] = Bucket(n, bs[b].dist, bs[b].print)
  BY <1>2, BucketIs DEF Lies, Bears
<1>4. r = [bs EXCEPT ![b] = x]
  <2>1. r = [bs EXCEPT ![b] = [bs[b] EXCEPT !.idx = idx]]
    BY <1>1 DEF Redirected
  <2>2. [bs[b] EXCEPT !.idx = idx] = x
    <3> DEFINE y == bs[b]
    <3>1. y = [idx |-> n, dist |-> y.dist, print |-> y.print]
      BY <1>3 DEF Bucket
    <3> HIDE DEF y
    <3>2. [y EXCEPT !.idx = idx] = [idx |-> idx, dist |-> y.dist, print |-> y.print]
      BY <3>1
    <3> QED
      BY <3>2 DEF Bucket, y
  <2> QED
    BY <2>1, <2>2
<1>5. r = [q \in 0 .. c - 1 |-> IF q = b THEN x ELSE bs[q]] /\ r[b] = x /\ \A q \in 0 .. c - 1 : q # b => r[q] = bs[q]
  BY <1>1, <1>4, Written
<1>6. x.idx = idx /\ x.dist = bs[b].dist
  BY BucketIs
<1>7. Lies(x, b, c, W)
  <2>1. W[x.idx][1] = V[n][1] /\ x.idx \in 1 .. Len(W)
    BY <1>0, <1>6
  <2>2. x = Bucket(x.idx, x.dist, Fingerprint[W[x.idx][1]])
    <3>1. bs[b].print = Fingerprint[V[n][1]]
      BY <1>2, BucketIs DEF Lies, Bears
    <3> QED
      BY <1>6, <2>1, <3>1
  <2> HIDE DEF x
  <2> QED
    BY <1>2, <1>6, <2>1, <2>2 DEF Lies, Bears, HomeOf
<1> HIDE DEF r, x
<1>8. \A q \in 0 .. c - 1 : q # b /\ bs[q].idx # 0 => bs[q].idx \in 1 .. n - 1 /\ bs[q].idx # idx
  <2> SUFFICES ASSUME NEW q \in 0 .. c - 1, q # b, bs[q].idx # 0 PROVE bs[q].idx \in 1 .. n - 1 /\ bs[q].idx # idx
    OBVIOUS
  <2>1. bs[q].idx \in Held(bs, c)
    BY DEF Held, Taken
  <2>2. bs[q].idx # n
    BY DEF Good
  <2> QED
    BY <2>1, <2>2
<1>9. \A q \in 0 .. c - 1 : r[q] = EmptyBucket \/ Lies(r[q], q, c, W)
  <2> SUFFICES ASSUME NEW q \in 0 .. c - 1 PROVE r[q] = EmptyBucket \/ Lies(r[q], q, c, W)
    OBVIOUS
  <2>1. CASE q = b
    BY <1>5, <1>7, <2>1
  <2>2. CASE q # b
    <3>1. r[q] = bs[q]
      BY <1>5, <2>2
    <3>2. CASE bs[q] = EmptyBucket
      BY <3>1, <3>2
    <3>3. CASE Lies(bs[q], q, c, V)
      <4>1. bs[q].idx \in 1 .. n - 1 /\ bs[q].idx # idx
        BY <1>8, <2>2, <3>3, LiesIs
      <4>2. W[bs[q].idx] = V[bs[q].idx] /\ bs[q].idx \in 1 .. Len(W)
        BY <1>0, <4>1
      <4> QED
        BY <3>1, <3>3, <4>2 DEF Lies, Bears, HomeOf
    <3> QED
      BY <3>2, <3>3 DEF Good
  <2> QED
    BY <2>1, <2>2
<1>10. \A p \in 0 .. c - 1, q \in 0 .. c - 1 : r[p].idx # 0 /\ r[p].idx = r[q].idx => p = q
  <2> SUFFICES ASSUME NEW p \in 0 .. c - 1, NEW q \in 0 .. c - 1, r[p].idx # 0, r[p].idx = r[q].idx, p # q PROVE FALSE
    OBVIOUS
  <2>1. CASE p = b
    BY <1>1, <1>5, <1>6, <1>8, <2>1
  <2>2. CASE q = b
    BY <1>1, <1>5, <1>6, <1>8, <2>2
  <2>3. CASE p # b /\ q # b
    BY <1>5, <2>3 DEF Good
  <2> QED
    BY <2>1, <2>2, <2>3
<1>11. \A q \in 0 .. c - 1 : r[q].dist = bs[q].dist /\ (r[q].idx = 0 <=> bs[q].idx = 0)
  BY <1>1, <1>5, <1>6
<1>12. \A q \in 0 .. c - 1 : Behind(r[q], r[Nxt(q, c)])
  <2> SUFFICES ASSUME NEW q \in 0 .. c - 1 PROVE Behind(r[q], r[Nxt(q, c)])
    OBVIOUS
  <2>1. Nxt(q, c) \in 0 .. c - 1 /\ Behind(bs[q], bs[Nxt(q, c)])
    BY NxtIn DEF Good
  <2> QED
    BY <1>11, <2>1 DEF Behind
<1>13. Good(r, c, W)
  BY <1>5, <1>9, <1>10, <1>12 DEF Good
<1>14. Taken(r, c) = Taken(bs, c)
  BY <1>11 DEF Taken
<1>15. Held(r, c) = 1 .. n - 1
  <2>1. ASSUME NEW q \in Taken(r, c) PROVE r[q].idx \in 1 .. n - 1
    <3>1. q \in 0 .. c - 1 /\ bs[q].idx # 0
      BY <1>11 DEF Taken
    <3> QED
      BY <1>5, <1>6, <1>8, <3>1
  <2>2. ASSUME NEW i \in 1 .. n - 1 PROVE i \in Held(r, c)
    <3>1. CASE i = idx
      BY <1>1, <1>5, <1>6, <3>1 DEF Held, Taken
    <3>2. CASE i # idx
      <4>1. i \in Held(bs, c)
        BY <3>2
      <4>2. PICK q \in Taken(bs, c) : bs[q].idx = i
        BY <4>1 DEF Held
      <4>3. q # b /\ q \in 0 .. c - 1
        BY <4>2 DEF Taken
      <4> QED
        BY <1>5, <1>14, <4>2, <4>3 DEF Held
    <3> QED
      BY <3>1, <3>2
  <2> QED
    BY <2>1, <2>2 DEF Held
<1> QED
  BY <1>13, <1>14, <1>15 DEF r

\* The entries then.
LEMMA FrontIs ==
  ASSUME NEW X, Pairs(X), NEW n \in Nat, n = Len(X), n # 0
  PROVE  /\ Pairs(Front(X)) /\ Len(Front(X)) = n - 1
         /\ \A i \in 1 .. n - 1 : Front(X)[i] = X[i]
<1> DEFINE S == Key \X Value
<1>1. X \in Seq(S)
  BY DEF Pairs
<1> HIDE DEF S
<1>2. Front(X) \in Seq(S) /\ Len(Front(X)) = n - 1 /\ \A i \in 1 .. n - 1 : Front(X)[i] = X[i]
  BY <1>1 DEF Front
<1> QED
  BY <1>2 DEF S, Pairs

LEMMA LastMoves ==
  ASSUME NEW V, Pairs(V), Distinct(V), NEW n, n = Len(V), NEW idx \in 1 .. n, NEW W, W = Front([V EXCEPT ![idx] = V[n]])
  PROVE  /\ n \in Nat /\ Pairs(W) /\ Distinct(W) /\ Len(W) = n - 1
         /\ \A i \in 1 .. n - 1 : W[i] = (IF i = idx THEN V[n] ELSE V[i])
<1> DEFINE X == [V EXCEPT ![idx] = V[n]]
<1>1. n \in Nat /\ \A i \in 1 .. n : V[i] \in Key \X Value
  BY PairsAre
<1>2. Pairs(X) /\ Len(X) = n /\ \A i \in 1 .. n : X[i] = (IF i = idx THEN V[n] ELSE V[i])
  <2>1. n \in 1 .. n
    BY <1>1
  <2>2. V[n] \in Key \X Value
    BY <1>1, <2>1
  <2> QED
    BY <2>2 DEF Pairs
<1> HIDE DEF X
<1>3. Pairs(W) /\ Len(W) = n - 1 /\ \A i \in 1 .. n - 1 : W[i] = X[i]
  <2>1. n # 0
    BY <1>1
  <2>2. W = Front(X)
    BY DEF X
  <2> QED
    <3>1. Pairs(Front(X)) /\ Len(Front(X)) = n - 1 /\ \A i \in 1 .. n - 1 : Front(X)[i] = X[i]
      <4>1. Pairs(X) /\ n = Len(X) /\ n \in Nat
        BY <1>1, <1>2
      <4> QED
        BY <2>1, <4>1, FrontIs
    <3> QED
      BY <2>2, <3>1
<1>4. ASSUME NEW i \in 1 .. n - 1 PROVE i \in 1 .. n /\ W[i] = (IF i = idx THEN V[n] ELSE V[i])
  <2>1. i \in 1 .. n
    BY <1>1
  <2> QED
    BY <1>2, <1>3, <2>1
<1>5. Distinct(W)
  <2> SUFFICES ASSUME NEW i \in 1 .. n - 1, NEW j \in 1 .. n - 1, W[i][1] = W[j][1] PROVE i = j
    BY <1>3 DEF Distinct
  <2>1. n \in 1 .. n /\ i \in 1 .. n /\ j \in 1 .. n /\ i # n /\ j # n
    BY <1>1
  <2>2. \A a \in 1 .. n, b \in 1 .. n : V[a][1] = V[b][1] => a = b
    BY DEF Distinct
  <2> DEFINE From(m) == IF m = idx THEN n ELSE m
  <2>3. W[i] = V[From(i)] /\ W[j] = V[From(j)] /\ From(i) \in 1 .. n /\ From(j) \in 1 .. n
    BY <1>4, <2>1
  <2>4. From(i) = From(j)
    <3> HIDE DEF From
    <3> QED
      BY <2>2, <2>3
  <2> QED
    BY <2>1, <2>4
<1> QED
  BY <1>1, <1>3, <1>4, <1>5

LEMMA ErasedWorks ==
  ASSUME NEW t, Laid(t), NEW idx \in 1 .. Len(t.values), NEW n, n = Len(t.values)
  PROVE  LET u == ErasedAt(t, idx) IN
         /\ Laid(u) /\ u.count = t.count /\ Len(u.values) = n - 1
         /\ \A i \in 1 .. n - 1 : u.values[i] = (IF i = idx THEN t.values[n] ELSE t.values[i])
<1> DEFINE V == t.values  c == t.count  b == BucketOf(t, t.at, idx)  bs == BackShifted(t.at, b)
           W == Front([V EXCEPT ![idx] = V[n]])  p == BucketOf(t, bs, n)
           at == IF idx = n THEN bs ELSE [bs EXCEPT ![p].idx = idx]
           u == ErasedAt(t, idx)
<1>1. /\ c \in Nat \ {0} /\ Pairs(V) /\ n \in Nat /\ Good(t.at, c, V) /\ \E f \in 0 .. c - 1 : t.at[f].idx = 0
      /\ Held(t.at, c) = 1 .. n /\ Cardinality(Taken(t.at, c)) = n
      /\ t = [values |-> V, at |-> t.at, count |-> c] /\ c \in Powers /\ Distinct(V) /\ n < c
  BY LaidIs DEF Laid, Stands
<1>2. u = [values |-> W, at |-> at, count |-> c]
  <2>1. u = [t EXCEPT !.at = at, !.values = W]
    BY DEF ErasedAt
  <2> HIDE DEF u, at, W
  <2> QED
    BY <1>1, <2>1
<1>3. b \in 0 .. c - 1 /\ t.at[b].idx = idx
  <2> HIDE DEF V, c
  <2>1. V = t.values /\ c = t.count /\ idx \in 1 .. Len(V)
    BY DEF V, c
  <2> QED
    BY <1>1, <2>1, BucketOfIs
<1> HIDE DEF b
<1>4. /\ Good(bs, c, V) /\ Held(bs, c) = (1 .. n) \ {idx}
      /\ \E q \in Taken(t.at, c) : Taken(bs, c) = Taken(t.at, c) \ {q}
  <2>1. idx # 0
    OBVIOUS
  <2> HIDE DEF V, c
  <2> QED
    BY <1>1, <1>3, <2>1, BackShiftWorks
<1>5. Cardinality(Taken(bs, c)) = n - 1
  <2>1. PICK q \in Taken(t.at, c) : Taken(bs, c) = Taken(t.at, c) \ {q}
    BY <1>4
  <2>2. IsFiniteSet(Taken(t.at, c))
    BY <1>1, TakenFinite
  <2> DEFINE T == Taken(t.at, c)  U == Taken(bs, c)
  <2>3. U = T \ {q} /\ q \in T /\ IsFiniteSet(T) /\ Cardinality(T) = n
    BY <1>1, <2>1, <2>2
  <2> HIDE DEF T, U
  <2>4. Cardinality(U) = n - 1
    BY <1>1, <2>3, FS_RemoveElement
  <2> QED
    BY <2>4 DEF U
<1> HIDE DEF bs
<1>6. /\ Pairs(W) /\ Distinct(W) /\ Len(W) = n - 1
      /\ \A i \in 1 .. n - 1 : W[i] = (IF i = idx THEN V[n] ELSE V[i])
  BY <1>1, LastMoves
<1> HIDE DEF W
<1>7. Stands(at, c, W, n - 1)
  <2>1. CASE idx = n
    <3>1. Held(bs, c) = 1 .. n - 1
      BY <1>1, <1>4, <2>1
    <3>2. Stands(bs, c, V, n - 1)
      BY <1>4, <1>5, <3>1 DEF Stands
    <3>3. n - 1 \in Nat /\ n - 1 <= Len(V) /\ n - 1 <= Len(W) /\ \A i \in 1 .. n - 1 : W[i][1] = V[i][1]
      BY <1>1, <1>6, <2>1
    <3> DEFINE m == n - 1
    <3>4. m \in Nat /\ m <= Len(V) /\ m <= Len(W) /\ (\A i \in 1 .. m : W[i][1] = V[i][1]) /\ Stands(bs, c, V, m)
      BY <3>2, <3>3
    <3>5. Stands(bs, c, W, m)
      <4> HIDE DEF m, V, c
      <4> QED
        BY <1>1, <1>6, <3>4, SameKeys
    <3> QED
      BY <2>1, <3>5
  <2>2. CASE idx # n
    <3>1. idx \in 1 .. n - 1 /\ n \in 1 .. Len(V) /\ n \in Held(bs, c)
      BY <1>1, <1>4, <2>2
    <3>2. p \in 0 .. c - 1 /\ bs[p].idx = n
      <4> HIDE DEF V, c
      <4>1. V = t.values /\ c = t.count
        BY DEF V, c
      <4> QED
        BY <1>1, <1>4, <3>1, <4>1, BucketOfIs
    <3> HIDE DEF p
    <3> DEFINE r == Redirected(bs, p, idx)
    <3>3. Good(r, c, W) /\ Taken(r, c) = Taken(bs, c) /\ Held(r, c) = 1 .. n - 1
      <4>1. Filled(V, W, n, idx)
        BY <1>1, <1>6 DEF Filled
      <4>2. /\ c \in Nat \ {0} /\ n \in Nat /\ idx \in 1 .. n - 1 /\ Good(bs, c, V)
            /\ Held(bs, c) = (1 .. n) \ {idx} /\ p \in 0 .. c - 1 /\ bs[p].idx = n
        BY <1>1, <1>4, <3>1, <3>2
      <4>3. Redirectable(bs, c, V, W, n, idx, p)
        BY <4>1, <4>2 DEF Redirectable
      <4> HIDE DEF V, c
      <4> QED
        BY <4>3, RedirectedIs, SMT
    <3>4. at = r
      BY <2>2 DEF Redirected, p
    <3> HIDE DEF r, at
    <3> QED
      BY <1>5, <3>3, <3>4 DEF Stands
  <2> QED
    BY <2>1, <2>2
<1> HIDE DEF u, at
<1>8. u.values = W /\ u.at = at /\ u.count = c
  BY <1>2
<1>9. n - 1 < c
  BY <1>1
<1>10. Laid(u)
  BY <1>1, <1>2, <1>6, <1>7, <1>8, <1>9 DEF Laid
<1> QED
  BY <1>6, <1>8, <1>10 DEF u

-----------------------------------------------------------------------------
(* The load: with fewer entries than the load factor allows two buckets    *)
(* are empty, and a table of twice the size has room again.                *)

LEMMA Ordered ==
  ASSUME NEW a \in Nat, NEW b \in Nat, NEW d \in Nat, a <= b
  PROVE  a * d \in Nat /\ b * d \in Nat /\ a * d <= b * d
<1>1. PICK e \in Nat : b = a + e
  <2>1. b - a \in Nat /\ b = a + (b - a)
    OBVIOUS
  <2> QED
    BY <2>1
<1>2. b * d = a * d + e * d
  BY <1>1
<1>3. a * d \in Nat /\ e * d \in Nat
  OBVIOUS
<1> QED
  BY <1>2, <1>3

LEMMA Less == ASSUME NEW a \in Int, NEW b \in Int, NEW d \in Int
              PROVE  /\ (a - b) * d = a * d - b * d /\ d * (a - b) = a * d - b * d
                     /\ a * d \in Int /\ b * d \in Int /\ a * d = d * a /\ b * d = d * b
OBVIOUS

\* What the load factor is, for a table of c buckets.
LEMMA LoadIs ==
  ASSUME NEW c \in Nat, MinBuckets <= c
  PROVE  /\ LoadNum \in Nat /\ LoadDen \in Nat /\ LoadNum > 0 /\ LoadDen > LoadNum
         /\ c * LoadNum \in Nat /\ c * LoadDen \in Nat
         /\ LoadDen <= c * LoadNum /\ LoadDen <= c * LoadDen - c * LoadNum
<1> DEFINE m == MinBuckets  D == LoadDen  N == LoadNum
<1>1. m \in Nat /\ m # 0 /\ N \in Nat /\ N > 0 /\ D \in Nat /\ D <= m * N /\ D <= m * (D - N)
  BY SizeAssumption, LoadAssumption, PowerIs
<1> HIDE DEF m, D, N
<1>2. m * (D - N) = m * D - m * N /\ m * D \in Int /\ m * N \in Int
  BY <1>1
<1>3. D > N
  <2> SUFFICES ASSUME D <= N PROVE FALSE
    BY <1>1
  <2>1. m * D <= m * N
    <3>1. D * m <= N * m
      BY <1>1, Ordered
    <3> QED
      BY <1>1, <3>1
  <2>2. D = 0
    BY <1>1, <1>2, <2>1
  <2>3. m * D = 0
    BY <1>1, <2>2
  <2>4. m * N > 0
    <3>1. 1 * N <= m * N
      <4>1. 1 \in Nat /\ 1 <= m
        BY <1>1
      <4> QED
        BY <1>1, <4>1, Ordered
    <3>2. 1 * N = N
      BY <1>1
    <3> QED
      BY <1>1, <1>2, <3>1, <3>2
  <2> QED
    BY <1>1, <1>2, <2>2, <2>3, <2>4
<1>4. m * N <= c * N /\ c * N \in Nat
  BY <1>1, Ordered DEF m
<1>5. m * (D - N) <= c * (D - N)
  <2>1. D - N \in Nat
    BY <1>1, <1>3
  <2> QED
    BY <1>1, <2>1, Ordered DEF m
<1>6. c * (D - N) = c * D - c * N /\ c * D \in Nat
  BY <1>1
<1>7. D <= c * D - c * N
  BY <1>1, <1>4, <1>5, <1>6
<1>8. D <= c * N
  BY <1>1, <1>2, <1>4
<1> QED
  BY <1>1, <1>3, <1>4, <1>6, <1>7, <1>8 DEF D, N

LEMMA RoomForTwo ==
  ASSUME NEW c \in Nat, MinBuckets <= c, NEW n \in Nat, n * LoadDen < c * LoadNum
  PROVE  n + 1 < c
<1> DEFINE D == LoadDen  N == LoadNum
<1>1. D \in Nat /\ c * N \in Nat /\ c * D \in Nat /\ D <= c * D - c * N
  BY LoadIs
<1>2. n * D < c * N
  OBVIOUS
<1> HIDE DEF D, N
<1> SUFFICES ASSUME c <= n + 1 PROVE FALSE
  OBVIOUS
<1>3. c * D <= (n + 1) * D
  BY <1>1, Ordered
<1>4. (n + 1) * D = n * D + D /\ n * D \in Nat
  BY <1>1
<1> QED
  BY <1>1, <1>2, <1>3, <1>4

LEMMA RoomForOne ==
  ASSUME NEW c \in Nat, MinBuckets <= c, NEW n \in Nat, n * LoadDen <= c * LoadNum
  PROVE  n < c
<1> DEFINE D == LoadDen  N == LoadNum
<1>1. D \in Nat /\ D > 0 /\ c * N \in Nat /\ c * D \in Nat /\ D <= c * D - c * N
  BY LoadIs
<1>2. n * D <= c * N
  OBVIOUS
<1> HIDE DEF D, N
<1> SUFFICES ASSUME c <= n PROVE FALSE
  OBVIOUS
<1>3. c * D <= n * D /\ n * D \in Nat
  BY <1>1, Ordered
<1> QED
  BY <1>1, <1>2, <1>3

\* What was not full before the last insertion.
Room(n, c) == n * LoadDen - LoadDen < c * LoadNum

LEMMA RoomGrows ==
  ASSUME NEW c \in Nat, MinBuckets <= c, NEW n \in Nat, Room(n, c)
  PROVE  n * LoadDen < (c * 2) * LoadNum /\ Room(n, c * 2)
<1> DEFINE D == LoadDen  N == LoadNum
<1>1. D \in Nat /\ N \in Nat /\ c * N \in Nat /\ D <= c * N /\ n * D - D < c * N
  BY LoadIs DEF Room
<1> HIDE DEF D, N
<1>2. (c * 2) * N = c * N + c * N /\ n * D \in Nat
  BY <1>1
<1>3. n * D < (c * 2) * N /\ n * D - D < (c * 2) * N
  BY <1>1, <1>2
<1> QED
  BY <1>3 DEF Room, D, N

LEMMA WantedIs ==
  ASSUME NEW n \in Nat
  PROVE  Wanted(n) \in Nat /\ n * LoadDen <= Wanted(n) * LoadNum
<1> DEFINE D == LoadDen  N == LoadNum  a == n * D + N - 1
<1>1. D \in Nat /\ N \in Nat \ {0}
  BY LoadAssumption
<1>2. n * D \in Nat /\ a \in Nat
  BY <1>1
<1> HIDE DEF D, N
<1>3. a % N \in 0 .. N - 1 /\ a \div N \in Nat /\ a = (a \div N) * N + (a % N)
  <2> HIDE DEF a
  <2> QED
    BY <1>1, <1>2, Divides
<1>4. Wanted(n) = a \div N
  BY DEF Wanted, D, N
<1> DEFINE w == a \div N  r == a % N  p == w * N
<1>5. r \in 0 .. N - 1 /\ w \in Nat /\ a = p + r /\ p \in Nat
  BY <1>1, <1>3
<1>6. a = n * D + N - 1
  OBVIOUS
<1> HIDE DEF w, r, a, p
<1>7. n * D <= p
  BY <1>1, <1>2, <1>5, <1>6
<1> QED
  BY <1>4, <1>5, <1>7 DEF w, p, D, N

LEMMA MaxOf ==
  ASSUME NEW a \in Nat, NEW b \in Nat, NEW c \in Nat
  PROVE  LET m == Max({a, b, c}) IN m \in Nat /\ m >= a /\ m >= b /\ m >= c
<1> DEFINE S == {a, b, c}  m == Max(S)
<1>1. \E x \in S : \A y \in S : x >= y
  <2>1. CASE a >= b /\ a >= c
    BY <2>1
  <2>2. CASE b >= a /\ b >= c
    BY <2>2
  <2>3. CASE c >= a /\ c >= b
    BY <2>3
  <2> QED
    BY <2>1, <2>2, <2>3
<1>2. m \in S /\ \A y \in S : m >= y
  <2> HIDE DEF S
  <2> QED
    BY <1>1, Zenon DEF Max
<1> HIDE DEF m
<1> QED
  BY <1>2 DEF m

LEMMA NextPowerIs ==
  ASSUME NEW n \in Nat, n <= MaxBuckets
  PROVE  NextPowerOf2(n) \in Powers /\ NextPowerOf2(n) >= n
<1> DEFINE S == {c \in Powers : c >= n}
<1>1. S # {}
  BY SizeAssumption, PowerIs
<1>2. S \in SUBSET Nat
  BY PowerIs
<1>3. NextPowerOf2(n) = Min(S)
  BY DEF NextPowerOf2
<1>4. \A x \in S : x \in Powers /\ x >= n
  OBVIOUS
<1> HIDE DEF S
<1>5. Min(S) \in S
  BY <1>1, <1>2, MinOf
<1> QED
  BY <1>3, <1>4, <1>5

-----------------------------------------------------------------------------
(* A sound table: it works, or it has no buckets. *)

Works(t) == Laid(t) /\ MinBuckets <= t.count /\ Room(Len(t.values), t.count)
Bare(t)  == t.count = 0 /\ t.values = <<>> /\ DOMAIN t.at = {}
Sound(t) == Works(t) \/ Bare(t)

\* The entries are a sequence of pairs, one for each key.
Listed(t) == Pairs(t.values) /\ Distinct(t.values)

LEMMA EmptyList == Pairs(<<>>) /\ Distinct(<<>>) /\ Len(<<>>) = 0
BY DEF Pairs, Distinct

LEMMA SoundListed == ASSUME NEW t, Sound(t) PROVE Listed(t) /\ Len(t.values) \in Nat
<1>1. CASE Works(t)
  BY <1>1, LaidIs DEF Works, Laid, Listed
<1>2. CASE Bare(t)
  BY <1>2, EmptyList DEF Bare, Listed
<1> QED
  BY <1>1, <1>2 DEF Sound

LEMMA AllocatedWorks ==
  ASSUME NEW c \in Powers, MinBuckets <= c
  PROVE  LET u == Allocated(<<>>, c) IN
         Works(u) /\ u.values = <<>> /\ ~IsFull(u)
<1> DEFINE u == Allocated(<<>>, c)
<1>1. c \in Nat \ {0}
  BY PowerIs
<1>2. u = [values |-> u.values, at |-> u.at, count |-> u.count] /\ u.values = <<>> /\ u.count = c
  BY DEF Allocated
<1>3. Stands(u.at, c, <<>>, 0)
  BY <1>1, AllocatedStands
<1> HIDE DEF u
<1>4. Laid(u)
  BY <1>1, <1>2, <1>3, EmptyList DEF Laid
<1>5. LoadDen \in Nat /\ LoadDen > 0 /\ c * LoadNum \in Nat /\ LoadDen <= c * LoadNum
  BY <1>1, LoadIs
<1> DEFINE p == c * LoadNum
<1>6. p \in Nat /\ p > 0 /\ LoadDen <= p
  BY <1>5
<1>7. 0 * LoadDen = 0
  BY <1>5
<1>8. Room(0, c) /\ ~(0 * LoadDen >= c * LoadNum)
  <2>1. 0 * LoadDen - LoadDen < p /\ ~(0 * LoadDen >= p)
    <3> HIDE DEF p
    <3> QED
      BY <1>5, <1>6, <1>7
  <2> QED
    BY <2>1 DEF Room
<1> QED
  BY <1>2, <1>4, <1>8, EmptyList DEF Works, IsFull, u

LEMMA RehashedKeeps ==
  ASSUME NEW t, Listed(t), NEW c \in Powers, MinBuckets <= c,
         Len(t.values) < c, Room(Len(t.values), c)
  PROVE  Works(Rehashed(t, c)) /\ Rehashed(t, c).values = t.values /\ Rehashed(t, c).count = c
<1>1. Laid(Rehashed(t, c)) /\ Rehashed(t, c).values = t.values /\ Rehashed(t, c).count = c
  BY RehashedWorks DEF Listed
<1> QED
  BY <1>1 DEF Works

LEMMA GrownWorks ==
  ASSUME NEW t, Sound(t), IsFull(t) => t.count * 2 <= MaxBuckets
  PROVE  LET g == Grown(t) IN Works(g) /\ ~IsFull(g) /\ g.values = t.values
<1> DEFINE g == Grown(t)  n == Len(t.values)  c == t.count
<1>1. CASE Bare(t)
  <2>1. g = Allocated(<<>>, MinBuckets)
    BY <1>1 DEF Grown, Bare
  <2>2. MinBuckets \in Powers /\ MinBuckets <= MinBuckets
    BY SizeAssumption, PowerIs
  <2> QED
    BY <1>1, <2>1, <2>2, AllocatedWorks DEF Bare
<1>2. CASE Works(t) /\ ~IsFull(t)
  <2>1. c # 0
    BY <1>2, LaidIs DEF Works
  <2> QED
    BY <1>2, <2>1 DEF Grown
<1>3. CASE Works(t) /\ IsFull(t)
  <2>1. /\ c \in Nat \ {0} /\ n \in Nat /\ MinBuckets <= c /\ Room(n, c) /\ Listed(t) /\ c \in Powers /\ n < c
        /\ c * 2 <= MaxBuckets
    BY <1>3, LaidIs DEF Works, Laid, Listed
  <2>2. g = Rehashed(t, c * 2)
    BY <1>3, <2>1 DEF Grown
  <2> HIDE DEF g, n, c
  <2>3. c * 2 \in Powers
    <3>1. MaxBuckets <= 256 /\ MaxBuckets \in Nat
      BY SizeAssumption, PowersAre
    <3>2. 2 * c <= 256 /\ c * 2 = 2 * c
      BY <2>1, <3>1
    <3> QED
      BY <2>1, <3>2, PowerIs
  <2>4. n < c * 2 /\ MinBuckets <= c * 2
    BY <2>1, SizeAssumption, PowerIs
  <2>5. n * LoadDen < (c * 2) * LoadNum /\ Room(n, c * 2)
    BY <2>1, RoomGrows
  <2>6. Works(g) /\ g.values = t.values /\ g.count = c * 2
    BY <2>1, <2>2, <2>3, <2>4, <2>5, RehashedKeeps DEF n
  <2>7. ~IsFull(g)
    <3>1. (c * 2) * LoadNum \in Nat /\ n * LoadDen \in Nat
      BY <2>1, LoadAssumption
    <3> DEFINE p == (c * 2) * LoadNum  q == n * LoadDen
    <3>2. p \in Nat /\ q \in Nat /\ q < p
      BY <2>5, <3>1
    <3>3. IsFull(g) <=> q >= p
      BY <2>6 DEF IsFull, n
    <3> HIDE DEF p, q
    <3> QED
      BY <3>2, <3>3
  <2> QED
    BY <2>6, <2>7 DEF g
<1> QED
  BY <1>1, <1>2, <1>3 DEF Sound

LEMMA EmplacedWorks ==
  ASSUME NEW t, Works(t), ~IsFull(t), NEW k \in Key, NEW v \in Value
  PROVE  LET u == Emplaced(t, k, v) IN
         /\ Works(u)
         /\ (\E i \in 1 .. Len(t.values) : t.values[i][1] = k) => u = t
         /\ (\A i \in 1 .. Len(t.values) : t.values[i][1] # k) => u.values = Append(t.values, <<k, v>>)
<1> DEFINE u == Emplaced(t, k, v)  n == Len(t.values)  c == t.count
<1>1. /\ Laid(t) /\ c \in Nat \ {0} /\ n \in Nat /\ MinBuckets <= c
  BY LaidIs DEF Works
<1>2. n * LoadDen < c * LoadNum
  <2>1. n * LoadDen \in Nat /\ c * LoadNum \in Nat
    BY <1>1, LoadAssumption
  <2> DEFINE p == n * LoadDen  q == c * LoadNum
  <2>2. ~(p >= q) /\ p \in Nat /\ q \in Nat
    BY <2>1 DEF IsFull
  <2> HIDE DEF p, q
  <2>3. p < q
    BY <2>2
  <2> QED
    BY <2>3 DEF p, q
<1>3. CASE \E i \in 1 .. n : t.values[i][1] = k
  BY <1>1, <1>3, EmplacedThere
<1>4. CASE \A i \in 1 .. n : t.values[i][1] # k
  <2>1. n + 1 < c
    BY <1>1, <1>2, RoomForTwo
  <2>2. Laid(u) /\ u.values = Append(t.values, <<k, v>>) /\ u.count = c
    BY <1>1, <1>4, <2>1, EmplacedNew
  <2>3. Pairs(t.values) /\ Distinct(t.values)
    BY <1>1 DEF Laid
  <2>4. Len(u.values) = n + 1
    BY <1>4, <2>2, <2>3, DistinctAppend
  <2> HIDE DEF u
  <2>5. Room(n + 1, c)
    <3>1. (n + 1) * LoadDen - LoadDen = n * LoadDen
      BY <1>1, LoadAssumption
    <3> QED
      BY <1>2, <3>1 DEF Room
  <2>6. Works(u)
    BY <1>1, <2>2, <2>4, <2>5 DEF Works
  <2> QED
    BY <1>4, <2>2, <2>6 DEF u
<1> QED
  BY <1>3, <1>4

LEMMA ValueWritten ==
  ASSUME NEW V, Pairs(V), Distinct(V), NEW i \in 1 .. Len(V), NEW k, k = V[i][1], NEW v \in Value
  PROVE  LET W == [V EXCEPT ![i] = <<k, v>>] IN
         /\ Pairs(W) /\ Distinct(W) /\ Len(W) = Len(V)
         /\ \A j \in 1 .. Len(V) : W[j][1] = V[j][1] /\ W[j] = (IF j = i THEN <<k, v>> ELSE V[j])
<1> DEFINE W == [V EXCEPT ![i] = <<k, v>>]
<1>1. <<k, v>> \in Key \X Value /\ <<k, v>>[1] = k /\ Len(V) \in Nat
  BY PairsAre
<1>2. Pairs(W) /\ Len(W) = Len(V) /\ \A j \in 1 .. Len(V) : W[j] = (IF j = i THEN <<k, v>> ELSE V[j])
  BY <1>1 DEF Pairs
<1> HIDE DEF W
<1>3. \A j \in 1 .. Len(V) : W[j][1] = V[j][1]
  BY <1>1, <1>2
<1>4. Distinct(W)
  BY <1>2, <1>3 DEF Distinct
<1> QED
  BY <1>2, <1>3, <1>4 DEF W

LEMMA AssignedWorks ==
  ASSUME NEW t, Works(t), NEW i \in 1 .. Len(t.values), NEW k, k = t.values[i][1], NEW v \in Value
  PROVE  LET u == [t EXCEPT !.values[i] = <<k, v>>] IN
         Works(u) /\ u.values = [t.values EXCEPT ![i] = <<k, v>>]
<1> DEFINE V == t.values  c == t.count  bs == t.at  n == Len(V)
           W == [V EXCEPT ![i] = <<k, v>>]  u == [t EXCEPT !.values[i] = <<k, v>>]
<1>1. /\ t = [values |-> V, at |-> bs, count |-> c] /\ Pairs(V) /\ Distinct(V) /\ c \in Powers /\ n < c
      /\ Stands(bs, c, V, n) /\ c \in Nat \ {0} /\ n \in Nat /\ MinBuckets <= c /\ Room(n, c)
  BY LaidIs DEF Works, Laid
<1>2. i \in 1 .. Len(V) /\ k = V[i][1]
  OBVIOUS
<1> HIDE DEF V, c, bs
<1>3. u = [values |-> W, at |-> bs, count |-> c]
  <2>1. u = [t EXCEPT !.values = W]
    BY DEF V
  <2> HIDE DEF W, u
  <2> QED
    BY <1>1, <2>1
<1>4. Pairs(W) /\ Distinct(W) /\ Len(W) = n /\ \A j \in 1 .. n : W[j][1] = V[j][1]
  BY <1>1, <1>2, ValueWritten
<1> HIDE DEF W, u
<1>5. Stands(bs, c, W, n)
  <2>1. n <= Len(V) /\ n <= Len(W)
    BY <1>1, <1>4
  <2> HIDE DEF n
  <2> QED
    BY <1>1, <1>4, <2>1, SameKeys
<1>6. u.values = W /\ u.at = bs /\ u.count = c
  BY <1>3
<1> HIDE DEF n
<1>7. Laid(u)
  BY <1>1, <1>3, <1>4, <1>5, <1>6 DEF Laid
<1> QED
  BY <1>1, <1>4, <1>6, <1>7 DEF Works, u, W, V

LEMMA ErasedKeeps ==
  ASSUME NEW t, Works(t), NEW idx \in 1 .. Len(t.values)
  PROVE  Works(ErasedAt(t, idx))
<1> DEFINE n == Len(t.values)  c == t.count  u == ErasedAt(t, idx)
<1>1. n \in Nat /\ c \in Nat /\ MinBuckets <= c /\ Room(n, c) /\ Laid(t) /\ n # 0
  BY LaidIs DEF Works
<1>2. Laid(u) /\ u.count = c /\ Len(u.values) = n - 1
  BY <1>1, ErasedWorks
<1>3. Room(n - 1, c)
  <2> DEFINE D == LoadDen  p == c * LoadNum
  <2>1. D \in Nat /\ p \in Nat /\ n * D - D < p /\ n * D \in Nat
    BY <1>1, LoadAssumption DEF Room
  <2>2. (n - 1) * D = n * D - D
    <3> HIDE DEF n, D
    <3> QED
      BY <1>1, <2>1
  <2> DEFINE q == n * D  r == (n - 1) * D
  <2>3. r = q - D /\ q - D < p /\ q \in Nat
    BY <2>1, <2>2
  <2> HIDE DEF q, r, p, D
  <2>4. r - D < p
    BY <2>1, <2>3
  <2> QED
    BY <2>4 DEF r, p, D, Room
<1> HIDE DEF u
<1> QED
  BY <1>1, <1>2, <1>3 DEF Works, u

LEMMA RehashToWorks ==
  ASSUME NEW t, Sound(t), NEW n \in Nat,
         Max({n, Wanted(Len(t.values)), MinBuckets}) <= MaxBuckets
  PROVE  LET count == NextPowerOf2(Max({n, Wanted(Len(t.values)), MinBuckets}))
             u     == IF count = t.count THEN t ELSE Rehashed(t, count)
         IN  Sound(u) /\ u.values = t.values
<1> DEFINE m == Len(t.values)  w == Wanted(m)  least == Max({n, w, MinBuckets})
           c == NextPowerOf2(least)
<1>1. m \in Nat /\ Listed(t)
  BY SoundListed
<1>2. w \in Nat /\ m * LoadDen <= w * LoadNum
  BY <1>1, WantedIs
<1>3. MinBuckets \in Nat
  BY SizeAssumption, PowerIs
<1>4. least \in Nat /\ least >= w /\ least >= MinBuckets /\ least <= MaxBuckets
  <2> HIDE DEF w
  <2>1. least \in Nat /\ least >= w /\ least >= MinBuckets
    BY <1>2, <1>3, MaxOf
  <2> QED
    BY <2>1 DEF w
<1> HIDE DEF least
<1>5. c \in Powers /\ c >= least
  BY <1>4, NextPowerIs
<1> HIDE DEF c, w
<1>6. c \in Nat /\ w <= c /\ MinBuckets <= c
  <2>1. c \in Nat
    BY <1>5, PowerIs
  <2> QED
    BY <1>2, <1>3, <1>4, <1>5, <2>1
<1>7. m * LoadDen <= c * LoadNum
  <2> DEFINE N == LoadNum  p == m * LoadDen  q == w * N  r == c * N
  <2>1. N \in Nat /\ LoadDen \in Nat
    BY LoadAssumption
  <2>2. q \in Nat /\ r \in Nat /\ q <= r
    <3> HIDE DEF N
    <3> QED
      BY <1>2, <1>6, <2>1, Ordered
  <2>3. p \in Nat /\ p <= q
    BY <1>1, <1>2, <2>1
  <2> HIDE DEF p, q, r
  <2>4. p <= r
    BY <2>2, <2>3
  <2> QED
    BY <2>4 DEF p, r
<1>8. m < c
  BY <1>1, <1>6, <1>7, RoomForOne
<1>9. Room(m, c)
  <2> DEFINE p == m * LoadDen  r == c * LoadNum
  <2>1. p \in Nat /\ r \in Nat /\ p <= r /\ LoadDen \in Nat /\ LoadDen > 0
    BY <1>1, <1>6, <1>7, LoadIs
  <2> HIDE DEF p, r
  <2>2. p - LoadDen < r
    BY <2>1
  <2> QED
    BY <2>2 DEF Room, p, r
<1> HIDE DEF m
<1>10. Works(Rehashed(t, c)) /\ Rehashed(t, c).values = t.values
  BY <1>1, <1>5, <1>6, <1>8, <1>9, RehashedKeeps DEF m
<1>11. CASE c = t.count
  BY <1>11 DEF c, least, w, m
<1>12. CASE c # t.count
  BY <1>10, <1>12 DEF c, least, w, m, Sound
<1> QED
  BY <1>11, <1>12

-----------------------------------------------------------------------------
(* The entries and the map they are. *)

Entries(t) == {t.values[i] : i \in 1 .. Len(t.values)}

LEMMA ListedIs ==
  ASSUME NEW t, Listed(t)
  PROVE  /\ DOMAIN t.values = 1 .. Len(t.values) /\ Len(t.values) \in Nat
         /\ \A i \in 1 .. Len(t.values) : t.values[i] \in Key \X Value /\ t.values[i][1] \in Key
         /\ \A i \in 1 .. Len(t.values), j \in 1 .. Len(t.values) : t.values[i][1] = t.values[j][1] => i = j
<1>1. DOMAIN t.values = 1 .. Len(t.values)
  BY DEF Listed, Pairs
<1> QED
  BY <1>1, PairsAre DEF Listed, Distinct

LEMMA WhereIs ==
  ASSUME NEW t, Listed(t), NEW i \in 1 .. Len(t.values)
  PROVE  Where(t, t.values[i][1]) = i
<1> DEFINE V == t.values  n == Len(V)  k == V[i][1]  S == {j \in DOMAIN V : V[j][1] = k}
<1>1. DOMAIN V = 1 .. n /\ n \in Nat /\ \A j \in 1 .. n : V[j][1] = k => j = i
  BY ListedIs
<1>2. i \in S /\ S \in SUBSET Int /\ \A j \in S : i <= j
  BY <1>1
<1>3. Where(t, k) = IF S = {} THEN 0 ELSE Min(S)
  BY DEF Where
<1> HIDE DEF S, k
<1>4. Min(S) = i
  BY <1>2, MinIs
<1> QED
  BY <1>2, <1>3, <1>4 DEF k

LEMMA WhereNone ==
  ASSUME NEW t, NEW k, Listed(t), \A i \in 1 .. Len(t.values) : t.values[i][1] # k
  PROVE  Where(t, k) = 0
BY ListedIs DEF Where

LEMMA ContentIs ==
  ASSUME NEW t, Listed(t)
  PROVE  /\ Content(t) = [k \in {e[1] : e \in Entries(t)} |-> Content(t)[k]]
         /\ DOMAIN Content(t) = {e[1] : e \in Entries(t)}
         /\ \A e \in Entries(t) : Content(t)[e[1]] = e[2] /\ e \in Key \X Value /\ e = <<e[1], e[2]>>
<1> DEFINE K == {t.values[i][1] : i \in DOMAIN t.values}
           L(k) == t.values[Where(t, k)][2]
<1>1. Content(t) = [k \in K |-> L(k)]
  BY DEF Content
<1>2. K = {e[1] : e \in Entries(t)}
  BY ListedIs DEF Entries
<1>3. \A e \in Entries(t) : e \in Key \X Value /\ e = <<e[1], e[2]>>
  <2>1. \A e \in Entries(t) : e \in Key \X Value
    BY ListedIs DEF Entries
  <2> QED
    BY <2>1
<1>4. ASSUME NEW e \in Entries(t) PROVE e[1] \in K /\ L(e[1]) = e[2]
  <2>1. PICK i \in 1 .. Len(t.values) : t.values[i] = e
    BY DEF Entries
  <2>2. Where(t, e[1]) = i
    BY <2>1, WhereIs
  <2> QED
    BY <1>2, <2>1, <2>2
<1> HIDE DEF K, L
<1> QED
  BY <1>1, <1>2, <1>3, <1>4

LEMMA SameContent ==
  ASSUME NEW t, NEW p, p.values = t.values
  PROVE  Content(p) = Content(t)
BY DEF Content, Where

LEMMA LessContent ==
  ASSUME NEW t, NEW p, Listed(t), Listed(p), NEW K, Entries(p) = {e \in Entries(t) : e[1] \notin K}
  PROVE  Content(p) = Without(t, K)
<1> DEFINE D == DOMAIN Content(t) \ K  a == Content(t)  b == Content(p)
<1>1. /\ DOMAIN a = {e[1] : e \in Entries(t)} /\ b = [k \in {e[1] : e \in Entries(p)} |-> b[k]]
      /\ \A e \in Entries(t) : a[e[1]] = e[2]
      /\ \A e \in Entries(p) : b[e[1]] = e[2]
  BY ContentIs
<1>2. D = {e[1] : e \in Entries(p)}
  BY <1>1
<1>3. \A k \in D : a[k] = b[k]
  BY <1>1, <1>2
<1>4. Without(t, K) = [k \in D |-> a[k]]
  BY DEF Without
<1> HIDE DEF D, a, b
<1>5. b = [k \in D |-> a[k]]
  BY <1>1, <1>2, <1>3
<1> QED
  BY <1>4, <1>5 DEF b

Assigned(c, k, v) == [m \in DOMAIN c \cup {k} |-> IF m = k THEN v ELSE c[m]]

LEMMA MoreContent ==
  ASSUME NEW t, NEW p, Listed(t), Listed(p), NEW k, NEW v,
         Entries(p) = {e \in Entries(t) : e[1] # k} \cup {<<k, v>>}
  PROVE  Content(p) = Assigned(Content(t), k, v)
<1> DEFINE D == DOMAIN Content(t) \cup {k}  a == Content(t)  b == Content(p)
<1>1. /\ DOMAIN a = {e[1] : e \in Entries(t)} /\ b = [m \in {e[1] : e \in Entries(p)} |-> b[m]]
      /\ \A e \in Entries(t) : a[e[1]] = e[2]
      /\ \A e \in Entries(p) : b[e[1]] = e[2]
  BY ContentIs
<1>2. <<k, v>>[1] = k /\ <<k, v>>[2] = v /\ <<k, v>> \in Entries(p)
  OBVIOUS
<1>3. D = {e[1] : e \in Entries(p)}
  <2>1. ASSUME NEW m \in D PROVE \E e \in Entries(p) : m = e[1]
    <3>1. CASE m = k
      BY <1>2, <3>1
    <3>2. CASE m # k
      <4>1. PICK e \in Entries(t) : e[1] = m
        BY <1>1, <3>2
      <4> QED
        BY <3>2, <4>1
    <3> QED
      BY <3>1, <3>2
  <2>2. ASSUME NEW e \in Entries(p) PROVE e[1] \in D
    <3>1. CASE e = <<k, v>>
      BY <1>2, <3>1
    <3>2. CASE e \in Entries(t)
      BY <1>1, <3>2
    <3> QED
      BY <3>1, <3>2
  <2> HIDE DEF D
  <2> QED
    BY <2>1, <2>2
<1>4. ASSUME NEW m \in D PROVE b[m] = IF m = k THEN v ELSE a[m]
  <2>1. CASE m = k
    BY <1>1, <1>2, <2>1
  <2>2. CASE m # k
    <3>1. PICK e \in Entries(t) : e[1] = m
      BY <1>1, <2>2
    <3>2. e \in Entries(p)
      BY <2>2, <3>1
    <3> QED
      BY <1>1, <2>2, <3>1, <3>2
  <2> QED
    BY <2>1, <2>2
<1> HIDE DEF D, a, b
<1>5. b = [m \in D |-> IF m = k THEN v ELSE a[m]]
  BY <1>1, <1>3, <1>4
<1> QED
  BY <1>5 DEF b, D, a, Assigned

\* The entries after an append, an assignment and an erase.
LEMMA Appended ==
  ASSUME NEW t, Listed(t), NEW p, NEW k \in Key, NEW v \in Value, p.values = Append(t.values, <<k, v>>),
         \A i \in 1 .. Len(t.values) : t.values[i][1] # k
  PROVE  Entries(p) = {e \in Entries(t) : e[1] # k} \cup {<<k, v>>}
<1> DEFINE V == t.values  n == Len(V)  W == p.values
<1>1. n \in Nat /\ Len(W) = n + 1 /\ W[n + 1] = <<k, v>> /\ \A i \in 1 .. n : W[i] = V[i] /\ V[i][1] # k
  BY DistinctAppend, ListedIs DEF Listed
<1> HIDE DEF V, n, W
<1>2. 1 .. n + 1 = 1 .. n \cup {n + 1}
  BY <1>1
<1>3. {W[i] : i \in 1 .. n + 1} = {V[i] : i \in 1 .. n} \cup {<<k, v>>}
  <2> DEFINE A == {W[i] : i \in 1 .. n + 1}  B == {V[i] : i \in 1 .. n}
  <2>1. ASSUME NEW i \in 1 .. n + 1 PROVE W[i] \in B \cup {<<k, v>>}
    <3>1. CASE i = n + 1
      BY <1>1, <3>1
    <3>2. CASE i # n + 1
      <4>1. i \in 1 .. n
        BY <1>2, <3>2
      <4> QED
        BY <1>1, <4>1
    <3> QED
      BY <3>1, <3>2
  <2>2. ASSUME NEW i \in 1 .. n PROVE V[i] \in A
    BY <1>1, <1>2
  <2>3. <<k, v>> \in A
    BY <1>1, <1>2
  <2>4. A \subseteq B \cup {<<k, v>>} /\ B \subseteq A
    BY <2>1, <2>2
  <2> HIDE DEF A, B
  <2>5. A = B \cup {<<k, v>>}
    BY <2>3, <2>4
  <2> QED
    BY <2>5 DEF A, B
<1>4. \A e \in {V[i] : i \in 1 .. n} : e[1] # k
  BY <1>1
<1>5. Entries(p) = {W[i] : i \in 1 .. n + 1} /\ Entries(t) = {V[i] : i \in 1 .. n}
  BY <1>1 DEF Entries, V, n, W
<1> QED
  BY <1>3, <1>4, <1>5

LEMMA Overwritten ==
  ASSUME NEW t, Listed(t), NEW p, NEW i \in 1 .. Len(t.values), NEW k, k = t.values[i][1], NEW v \in Value,
         p.values = [t.values EXCEPT ![i] = <<k, v>>]
  PROVE  Entries(p) = {e \in Entries(t) : e[1] # k} \cup {<<k, v>>}
<1> DEFINE V == t.values  n == Len(V)  W == p.values
<1>1. Len(W) = n /\ \A j \in 1 .. n : W[j] = (IF j = i THEN <<k, v>> ELSE V[j])
  BY ValueWritten DEF Listed
<1>2. \A j \in 1 .. n : V[j][1] = k <=> j = i
  BY ListedIs
<1>3. i \in 1 .. n /\ Entries(p) = {W[j] : j \in 1 .. n} /\ Entries(t) = {V[j] : j \in 1 .. n}
  BY <1>1 DEF Entries
<1> HIDE DEF V, n, W
<1> QED
  BY <1>1, <1>2, <1>3

LEMMA TakenOut ==
  ASSUME NEW t, Works(t), NEW idx \in 1 .. Len(t.values)
  PROVE  Entries(ErasedAt(t, idx)) = {e \in Entries(t) : e[1] \notin {t.values[idx][1]}}
<1> DEFINE V == t.values  n == Len(V)  u == ErasedAt(t, idx)  W == u.values
<1>1. Laid(t) /\ n \in Nat /\ Listed(t)
  BY LaidIs DEF Works, Laid, Listed
<1>2. Len(W) = n - 1 /\ \A i \in 1 .. n - 1 : W[i] = (IF i = idx THEN V[n] ELSE V[i])
  BY <1>1, ErasedWorks
<1>3. \A j \in 1 .. n : V[j][1] = V[idx][1] <=> j = idx
  BY <1>1, ListedIs
<1>4. /\ Entries(u) = {W[j] : j \in 1 .. n - 1} /\ Entries(t) = {V[j] : j \in 1 .. n}
      /\ idx \in 1 .. n
  BY <1>2 DEF Entries
<1> HIDE DEF V, n, W, u
<1>5. ASSUME NEW j \in 1 .. n - 1
      PROVE  \E m \in 1 .. n : W[j] = V[m] /\ m # idx
  BY <1>1, <1>2
<1>6. ASSUME NEW m \in 1 .. n, m # idx
      PROVE  \E j \in 1 .. n - 1 : W[j] = V[m]
  <2>1. CASE m = n
    <3>1. idx \in 1 .. n - 1 /\ W[idx] = V[n]
      BY <1>1, <1>2, <1>4, <1>6, <2>1
    <3> QED
      BY <2>1, <3>1
  <2>2. CASE m # n
    <3>1. m \in 1 .. n - 1 /\ W[m] = V[m]
      BY <1>1, <1>2, <1>6, <2>2
    <3> QED
      BY <3>1
  <2> QED
    BY <2>1, <2>2
<1> DEFINE R == {e \in Entries(t) : e[1] \notin {V[idx][1]}}
<1>7. Entries(u) = R
  <2>1. ASSUME NEW j \in 1 .. n - 1 PROVE W[j] \in R
    <3>1. PICK m \in 1 .. n : W[j] = V[m] /\ m # idx
      BY <1>5
    <3> QED
      BY <1>3, <1>4, <3>1
  <2>2. ASSUME NEW e \in R PROVE e \in Entries(u)
    <3>1. PICK m \in 1 .. n : e = V[m] /\ m # idx
      BY <1>4
    <3> QED
      BY <1>4, <1>6, <3>1
  <2>3. Entries(u) \subseteq R
    <3>1. \A e \in {W[j] : j \in 1 .. n - 1} : e \in R
      BY <2>1
    <3> HIDE DEF R
    <3> QED
      BY <1>4, <3>1
  <2> QED
    BY <2>2, <2>3
<1> QED
  BY <1>7 DEF u, V

-----------------------------------------------------------------------------
(* The invariant: the entries are listed once each, also when a count has  *)
(* been stored for buckets that were never allocated; until then the table *)
(* is sound.                                                               *)

Inv == Listed(buckets) /\ status \in {"whole", "counted"} /\ (Whole => Sound(buckets))

NoneHas(t, k) == \A i \in 1 .. Len(t.values) : t.values[i][1] # k

\* Lookups.
LEMMA FindIs ==
  ASSUME NEW t, Sound(t), NEW k \in Key
  PROVE  /\ Find(t, k) = Where(t, k)
         /\ NoneHas(t, k) => Find(t, k) = 0
         /\ ~NoneHas(t, k) => Works(t) /\ Find(t, k) \in 1 .. Len(t.values) /\ t.values[Find(t, k)][1] = k
<1>1. Listed(t) /\ Len(t.values) \in Nat
  BY SoundListed
<1>2. CASE Bare(t)
  <2>1. Find(t, k) = 0 /\ NoneHas(t, k)
    BY <1>2, EmptyList DEF Bare, Find, NoneHas
  <2> QED
    BY <1>1, <2>1, WhereNone DEF NoneHas
<1>3. CASE Works(t) /\ NoneHas(t, k)
  <2>1. Find(t, k) = 0
    BY <1>3, FindsNone DEF Works, NoneHas
  <2> QED
    BY <1>1, <1>3, <2>1, WhereNone DEF NoneHas
<1>4. CASE Works(t) /\ ~NoneHas(t, k)
  <2>1. PICK i \in 1 .. Len(t.values) : t.values[i][1] = k
    BY <1>4 DEF NoneHas
  <2>2. Find(t, k) = i
    BY <1>4, <2>1, FindsIt DEF Works
  <2>3. Where(t, k) = i
    BY <1>1, <2>1, WhereIs
  <2> QED
    BY <1>4, <2>1, <2>2, <2>3
<1> QED
  BY <1>2, <1>3, <1>4 DEF Sound

-----------------------------------------------------------------------------
(* What each operation does to the entries. *)

LEMMA GrownInStep ==
  ASSUME Inv, MayGrow
  PROVE  LET t == Grown(buckets) IN
         /\ Whole /\ Sound(buckets) /\ Works(t) /\ ~IsFull(t) /\ t.values = buckets.values
         /\ Listed(t) /\ Entries(t) = Entries(buckets)
<1>1. Whole /\ Sound(buckets) /\ (IsFull(buckets) => buckets.count * 2 <= MaxBuckets)
  BY DEF Inv, MayGrow
<1> QED
  BY <1>1, GrownWorks DEF Inv, Listed, Entries

LEMMA InsertStep ==
  ASSUME Inv, NEW k \in Key, NEW v \in Value, Insert(k, v) \/ TryEmplace(k, v)
  PROVE  /\ Whole /\ status' = status /\ Sound(buckets) /\ Sound(buckets')
         /\ \/ buckets'.values = buckets.values
            \/ /\ Entries(buckets') = {e \in Entries(buckets) : e[1] # k} \cup {<<k, v>>}
               /\ \A e \in Entries(buckets) : e[1] # k
<1> DEFINE t == Grown(buckets)  u == Emplaced(t, k, v)
<1>1. MayGrow /\ Whole /\ status' = status /\ buckets' = u
  BY DEF Insert, TryEmplace, Become
<1>2. /\ Sound(buckets) /\ Works(t) /\ ~IsFull(t) /\ t.values = buckets.values
      /\ Listed(t) /\ Entries(t) = Entries(buckets)
  BY <1>1, GrownInStep
<1> HIDE DEF t
<1>3. /\ Works(u)
      /\ (\E i \in 1 .. Len(t.values) : t.values[i][1] = k) => u = t
      /\ NoneHas(t, k) => u.values = Append(t.values, <<k, v>>)
  BY <1>2, EmplacedWorks DEF NoneHas
<1> HIDE DEF u
<1>4. CASE NoneHas(t, k)
  <2>1. Entries(u) = {e \in Entries(t) : e[1] # k} \cup {<<k, v>>}
    <3>1. u.values = Append(t.values, <<k, v>>) /\ Listed(t)
      BY <1>2, <1>3, <1>4
    <3>2. \A j \in 1 .. Len(t.values) : t.values[j][1] # k
      BY <1>4 DEF NoneHas
    <3> QED
      BY <3>1, <3>2, Appended
  <2>2. \A e \in Entries(t) : e[1] # k
    BY <1>4 DEF NoneHas, Entries
  <2> QED
    BY <1>1, <1>2, <1>3, <2>1, <2>2 DEF Sound
<1>5. CASE ~NoneHas(t, k)
  BY <1>1, <1>2, <1>3, <1>5 DEF NoneHas, Sound
<1> QED
  BY <1>4, <1>5

LEMMA AssignStep ==
  ASSUME Inv, NEW k \in Key, NEW v \in Value, Assign(k, v)
  PROVE  /\ Whole /\ status' = status /\ Sound(buckets) /\ Sound(buckets')
         /\ Entries(buckets') = {e \in Entries(buckets) : e[1] # k} \cup {<<k, v>>}
<1> DEFINE t == Grown(buckets)  u == Emplaced(t, k, v)  i == Find(u, k)
           p == [u EXCEPT !.values[i] = <<k, v>>]
<1>1. MayGrow /\ Whole /\ status' = status /\ buckets' = p
  BY DEF Assign, Become
<1>2. /\ Sound(buckets) /\ Works(t) /\ ~IsFull(t) /\ t.values = buckets.values
      /\ Listed(t) /\ Entries(t) = Entries(buckets)
  BY <1>1, GrownInStep
<1> HIDE DEF t
<1>3. /\ Works(u)
      /\ ~NoneHas(t, k) => u = t
      /\ NoneHas(t, k) => u.values = Append(t.values, <<k, v>>)
  BY <1>2, EmplacedWorks DEF NoneHas
<1>4. {e \in Entries(u) : e[1] # k} = {e \in Entries(t) : e[1] # k} /\ ~NoneHas(u, k)
  <2> HIDE DEF u, i, p
  <2>1. CASE NoneHas(t, k)
    <3>1. u.values = Append(t.values, <<k, v>>) /\ Listed(t)
      BY <1>2, <1>3, <2>1
    <3>2. \A j \in 1 .. Len(t.values) : t.values[j][1] # k
      BY <2>1 DEF NoneHas
    <3>3. Entries(u) = {e \in Entries(t) : e[1] # k} \cup {<<k, v>>}
      BY <3>1, <3>2, Appended
    <3>4. <<k, v>>[1] = k /\ <<k, v>> \in Entries(u)
      BY <3>3
    <3>5. ~NoneHas(u, k)
      BY <3>4 DEF Entries, NoneHas
    <3> QED
      BY <3>3, <3>4, <3>5
  <2>2. CASE ~NoneHas(t, k)
    BY <1>3, <2>2
  <2> QED
    BY <2>1, <2>2
<1> HIDE DEF u
<1>5. Sound(u) /\ Listed(u)
  BY <1>3, SoundListed DEF Sound
<1>6. i \in 1 .. Len(u.values) /\ u.values[i][1] = k
  BY <1>4, <1>5, FindIs
<1> HIDE DEF i
<1>7. Works(p) /\ p.values = [u.values EXCEPT ![i] = <<k, v>>]
  BY <1>3, <1>6, AssignedWorks
<1> HIDE DEF p
<1>8. Entries(p) = {e \in Entries(u) : e[1] # k} \cup {<<k, v>>}
  BY <1>5, <1>6, <1>7, Overwritten
<1> QED
  BY <1>1, <1>2, <1>4, <1>7, <1>8 DEF Sound

LEMMA InsertThrowsStep ==
  ASSUME Inv, NEW k \in Key, InsertThrows(k)
  PROVE  /\ Whole /\ status' = status /\ Sound(buckets) /\ Sound(buckets')
         /\ buckets'.values = buckets.values
<1>1. MayGrow /\ Whole /\ status' = status /\ buckets' = Grown(buckets)
  BY DEF InsertThrows, Become
<1> QED
  BY <1>1, GrownInStep DEF Sound

LEMMA CountOnlyStep ==
  ASSUME Inv, NEW count, CountOnly(count)
  PROVE  status' = "counted" /\ Listed(buckets') /\ buckets'.values = buckets.values
<1>1. status' = "counted" /\ buckets' = [buckets EXCEPT !.count = count]
  BY DEF CountOnly
<1>2. buckets'.values = buckets.values
  BY <1>1
<1> QED
  BY <1>1, <1>2 DEF Inv, Listed

LEMMA EraseAtStep ==
  ASSUME Inv, NEW idx \in 1 .. Len(buckets.values), Become(ErasedAt(buckets, idx))
  PROVE  /\ Whole /\ status' = status /\ Sound(buckets) /\ Sound(buckets')
         /\ Entries(buckets') = {e \in Entries(buckets) : e[1] \notin {buckets.values[idx][1]}}
         /\ \E e \in Entries(buckets) : e[1] = buckets.values[idx][1]
<1>1. Whole /\ status' = status /\ buckets' = ErasedAt(buckets, idx) /\ Sound(buckets)
  BY DEF Become, Inv
<1>2. Works(buckets)
  BY <1>1, EmptyList DEF Sound, Bare
<1>3. Works(buckets') /\ Entries(buckets') = {e \in Entries(buckets) : e[1] \notin {buckets.values[idx][1]}}
  BY <1>1, <1>2, ErasedKeeps, TakenOut
<1>4. buckets.values[idx] \in Entries(buckets)
  BY DEF Entries
<1> QED
  BY <1>1, <1>3, <1>4 DEF Sound

LEMMA EraseStep ==
  ASSUME Inv, NEW k \in Key, Erase(k)
  PROVE  /\ Whole /\ status' = status /\ Sound(buckets) /\ Sound(buckets')
         /\ Entries(buckets') = {e \in Entries(buckets) : e[1] \notin {k}}
         /\ \E e \in Entries(buckets) : e[1] = k
<1> DEFINE i == Find(buckets, k)
<1>1. Whole /\ i > 0 /\ Become(ErasedAt(buckets, i)) /\ Sound(buckets)
  BY DEF Erase, Inv
<1>2. i \in 1 .. Len(buckets.values) /\ buckets.values[i][1] = k
  BY <1>1, FindIs
<1> HIDE DEF i
<1> QED
  BY <1>1, <1>2, EraseAtStep

LEMMA EmptiedStep ==
  ASSUME Inv, Clear \/ MovedFrom
  PROVE  /\ Whole /\ status' = status /\ Sound(buckets) /\ Sound(buckets')
         /\ Entries(buckets') = {}
<1>1. Whole /\ status' = status /\ Sound(buckets)
  BY DEF Clear, MovedFrom, Become, Inv
<1>2. Bare(NoBuckets) /\ NoBuckets.values = <<>>
  BY DEF Bare, NoBuckets
<1>3. ASSUME MovedFrom PROVE Sound(buckets')
  BY <1>2, <1>3 DEF MovedFrom, Become, Sound
<1>4. ASSUME Clear PROVE Sound(buckets')
  <2>1. buckets' = Allocated(<<>>, buckets.count)
    BY <1>4 DEF Clear, Become
  <2>2. CASE Bare(buckets)
    <3>1. 0 .. 0 - 1 = {}
      OBVIOUS
    <3>2. Bare(Allocated(<<>>, 0))
      BY <3>1 DEF Allocated, Bare
    <3> QED
      BY <2>1, <2>2, <3>2 DEF Bare, Sound
  <2>3. CASE Works(buckets)
    <3>1. buckets.count \in Powers /\ MinBuckets <= buckets.count
      BY <2>3 DEF Works, Laid
    <3> QED
      BY <2>1, <3>1, AllocatedWorks DEF Sound
  <2> QED
    BY <1>1, <2>2, <2>3 DEF Sound
<1>5. Sound(buckets') /\ buckets'.values = <<>>
  <2>1. buckets'.values = <<>>
    BY <1>2 DEF Clear, MovedFrom, Become, Allocated
  <2> QED
    BY <1>3, <1>4, <2>1
<1>6. Entries(buckets') = {}
  BY <1>5, EmptyList DEF Entries
<1> QED
  BY <1>1, <1>5, <1>6

LEMMA CopyStep ==
  ASSUME Inv, Copy
  PROVE  /\ Whole /\ status' = status /\ Sound(buckets) /\ Sound(buckets')
         /\ buckets'.values = buckets.values
<1>1. /\ Whole /\ status' = status /\ Sound(buckets)
      /\ buckets' = IF buckets.count > 0 THEN buckets ELSE NoBuckets
  BY DEF Copy, Become, Inv
<1>2. CASE Works(buckets)
  <2>1. buckets.count > 0
    BY <1>2, LaidIs DEF Works
  <2> QED
    BY <1>1, <2>1
<1>3. CASE Bare(buckets)
  <2>1. buckets' = NoBuckets
    BY <1>1, <1>3 DEF Bare
  <2>2. Bare(NoBuckets) /\ NoBuckets.values = <<>>
    BY DEF Bare, NoBuckets
  <2> QED
    BY <1>1, <1>3, <2>1, <2>2 DEF Bare, Sound
<1> QED
  BY <1>1, <1>2, <1>3 DEF Sound

LEMMA RehashStep ==
  ASSUME Inv, NEW n \in 0 .. MaxBuckets, Rehash(n) \/ Reserve(n)
  PROVE  /\ Whole /\ status' = status /\ Sound(buckets) /\ Sound(buckets')
         /\ buckets'.values = buckets.values
<1>1. PICK m \in Nat : RehashTo(m)
  <2>1. n \in Nat /\ Wanted(n) \in Nat
    BY WantedIs
  <2> QED
    BY <2>1 DEF Rehash, Reserve
<1> DEFINE least == Max({m, Wanted(Len(buckets.values)), MinBuckets})  c == NextPowerOf2(least)
<1>2. /\ least <= MaxBuckets /\ Whole /\ status' = status /\ Sound(buckets)
      /\ buckets' = IF c = buckets.count THEN buckets ELSE Rehashed(buckets, c)
  BY <1>1 DEF RehashTo, Least, Become, Inv
<1> QED
  BY <1>2, RehashToWorks

-----------------------------------------------------------------------------
(* The theorems *)

\* In every state the entries are listed once each, and while the allocation of the buckets has not failed
\* (flat_map.hpp:472) the table is sound: the invariant the theorems below rest on.
THEOREM FlatMapInvariance == Spec => []Inv
<1>1. Init => Inv
  <2> SUFFICES ASSUME Init PROVE Inv
    OBVIOUS
  <2>1. Bare(buckets) /\ buckets.values = <<>> /\ status = "whole"
    BY DEF Init, Bare, NoBuckets
  <2> QED
    BY <2>1, EmptyList DEF Inv, Sound, Listed
<1>2. Inv /\ [Next]_vars => Inv'
  <2> SUFFICES ASSUME Inv, [Next]_vars PROVE Inv'
    OBVIOUS
  <2>1. ASSUME Sound(buckets'), status' = status PROVE Inv'
    BY <2>1, SoundListed DEF Inv, Whole
  <2>2. ASSUME NEW k \in Key, NEW v \in Value, Insert(k, v) \/ TryEmplace(k, v) PROVE Inv'
    BY <2>1, <2>2, InsertStep
  <2>3. ASSUME NEW k \in Key, NEW v \in Value, Assign(k, v) PROVE Inv'
    BY <2>1, <2>3, AssignStep
  <2>4. ASSUME NEW k \in Key, InsertThrows(k) PROVE Inv'
    BY <2>1, <2>4, InsertThrowsStep
  <2>5. ASSUME NEW k \in Key, Erase(k) PROVE Inv'
    BY <2>1, <2>5, EraseStep
  <2>6. ASSUME NEW idx \in DOMAIN buckets.values, EraseAt(idx) PROVE Inv'
    <3>1. idx \in 1 .. Len(buckets.values) /\ Become(ErasedAt(buckets, idx))
      BY <2>6, ListedIs DEF Inv, EraseAt
    <3> QED
      BY <2>1, <3>1, EraseAtStep
  <2>7. ASSUME NEW n \in 0 .. MaxBuckets, Rehash(n) \/ Reserve(n) PROVE Inv'
    BY <2>1, <2>7, RehashStep
  <2>8. ASSUME NEW count, CountOnly(count) PROVE Inv'
    BY <2>8, CountOnlyStep DEF Inv, Whole
  <2>9. CASE Clear \/ MovedFrom
    BY <2>1, <2>9, EmptiedStep
  <2>10. CASE Copy
    BY <2>1, <2>10, CopyStep
  <2>11. CASE UNCHANGED vars
    BY <2>11 DEF Inv, Whole, vars
  <2>12. ASSUME NEW n \in 0 .. MaxBuckets, RehashFails(n) PROVE Inv'
    BY <2>8, <2>12 DEF RehashFails
  <2>13. CASE GrowthFails
    BY <2>8, <2>13 DEF GrowthFails
  <2> QED
    BY <2>2, <2>3, <2>4, <2>5, <2>6, <2>7, <2>9, <2>10, <2>11, <2>12, <2>13 DEF Next
<1> QED
  BY <1>1, <1>2, PTL DEF Spec

\* The buckets are a Robin Hood table of the entries: insert_bucket_displace, backward_shift_delete and the
\* redirection of the last entry's bucket (flat_map.hpp:601-668) leave each entry its bucket and its distance, no
\* bucket more than one step poorer than the one before, and one bucket empty.
THEOREM FlatMapIsWellPlaced == Spec => []WellPlaced
<1>1. Inv => WellPlaced
  <2> SUFFICES ASSUME Inv, Whole
               PROVE  /\ \A i \in DOMAIN buckets.values :
                           LET k == buckets.values[i][1] IN
                           \E d \in Step(buckets) : At(buckets, k, d) = Bucket(i, d, Fingerprint[k])
                      /\ Cardinality({b \in DOMAIN buckets.at : buckets.at[b].idx # 0}) = Len(buckets.values)
                      /\ \A b \in DOMAIN buckets.at :
                           LET next == buckets.at[(b + 1) % buckets.count] IN
                           next.dist > 0 => buckets.at[b].idx # 0 /\ next.dist <= buckets.at[b].dist + 1
                      /\ buckets.count > 0 => \E b \in DOMAIN buckets.at : buckets.at[b].idx = 0
    BY DEF WellPlaced
  <2>1. DOMAIN buckets.values = 1 .. Len(buckets.values)
    BY ListedIs DEF Inv
  <2>2. CASE Bare(buckets)
    <3>1. DOMAIN buckets.values = {} /\ Len(buckets.values) = 0 /\ DOMAIN buckets.at = {} /\ ~(buckets.count > 0)
      BY <2>1, <2>2, EmptyList DEF Bare
    <3>2. Cardinality({b \in DOMAIN buckets.at : buckets.at[b].idx # 0}) = 0
      <4>1. {b \in DOMAIN buckets.at : buckets.at[b].idx # 0} = {}
        BY <3>1
      <4> QED
        BY <4>1, FS_EmptySet
    <3> QED
      BY <3>1, <3>2
  <2>3. CASE Works(buckets)
    <3> DEFINE c == buckets.count  bs == buckets.at
    <3>1. /\ Laid(buckets) /\ c \in Nat \ {0} /\ Good(bs, c, buckets.values)
          /\ \E f \in 0 .. c - 1 : bs[f].idx = 0
      BY <2>3, LaidIs DEF Works
    <3>2. DOMAIN bs = 0 .. c - 1
      BY <3>1 DEF Good
    <3>3. ASSUME NEW i \in 1 .. Len(buckets.values)
          PROVE  LET k == buckets.values[i][1] IN
                 \E d \in Step(buckets) : At(buckets, k, d) = Bucket(i, d, Fingerprint[k])
      <4>1. \A d \in 0 .. c - 1 : d \in Step(buckets)
        BY <3>1 DEF Step
      <4> QED
        BY <3>1, <4>1, EntryBucket
    <3>4. Cardinality({b \in DOMAIN bs : bs[b].idx # 0}) = Len(buckets.values)
      BY <3>1, <3>2 DEF Laid, Stands, Taken
    <3>5. ASSUME NEW b \in DOMAIN bs
          PROVE  LET next == bs[(b + 1) % c] IN next.dist > 0 => bs[b].idx # 0 /\ next.dist <= bs[b].dist + 1
      <4>1. b \in 0 .. c - 1
        BY <3>2
      <4>2. (b + 1) % c = Nxt(b, c)
        BY <3>1, <4>1, NxtIs
      <4>3. Behind(bs[b], bs[Nxt(b, c)])
        BY <3>1, <4>1 DEF Good
      <4> QED
        BY <4>2, <4>3 DEF Behind
    <3>6. \E b \in DOMAIN bs : bs[b].idx = 0
      BY <3>1, <3>2
    <3> QED
      BY <2>1, <3>3, <3>4, <3>5, <3>6
  <2> QED
    BY <2>2, <2>3 DEF Inv, Sound
<1> QED
  BY <1>1, FlatMapInvariance, PTL

\* A lookup (find_impl, flat_map.hpp:521) finds the place of a key that is there and none for one that is not,
\* though it gives up at the first bucket nearer to its home than the key would be.
THEOREM FlatMapLookupsAreRight == Spec => []LookupsRight
<1>1. Inv => LookupsRight
  BY FindIs DEF Inv, LookupsRight
<1> QED
  BY <1>1, FlatMapInvariance, PTL

\* An erase takes the one entry it was asked to take, though it moves the last entry into its place and shifts the
\* buckets behind; a rehash or growth, failed or not, an insertion that throws and a copy take none.
THEOREM FlatMapTakesOnlyAsked == Spec => TakesOnlyAsked
<1> DEFINE Asked ==
      LET Becomes(c) == Content(buckets') = c IN
      /\ \A k \in Key : Erase(k) => Becomes(Without(buckets, {k}))
      /\ \A i \in DOMAIN buckets.values : EraseAt(i) => Becomes(Without(buckets, {buckets.values[i][1]}))
      /\ \A n \in 0 .. MaxBuckets : Rehash(n) \/ Reserve(n) \/ RehashFails(n) => Becomes(Content(buckets))
      /\ \A k \in Key : InsertThrows(k) => Becomes(Content(buckets))
      /\ GrowthFails \/ Copy => Becomes(Content(buckets))
<1>1. Inv => Asked
  <2> SUFFICES ASSUME Inv PROVE Asked
    OBVIOUS
  <2>1. ASSUME NEW k \in Key, Erase(k) PROVE Content(buckets') = Without(buckets, {k})
    BY <2>1, EraseStep, SoundListed, LessContent
  <2>2. ASSUME NEW i \in DOMAIN buckets.values, EraseAt(i)
        PROVE  Content(buckets') = Without(buckets, {buckets.values[i][1]})
    <3>1. i \in 1 .. Len(buckets.values) /\ Become(ErasedAt(buckets, i))
      BY <2>2, ListedIs DEF Inv, EraseAt
    <3> QED
      BY <3>1, EraseAtStep, SoundListed, LessContent
  <2>3. ASSUME NEW n \in 0 .. MaxBuckets, Rehash(n) \/ Reserve(n) PROVE Content(buckets') = Content(buckets)
    BY <2>3, RehashStep, SameContent
  <2>4. ASSUME NEW k \in Key, InsertThrows(k) PROVE Content(buckets') = Content(buckets)
    BY <2>4, InsertThrowsStep, SameContent
  <2>5. ASSUME NEW count, CountOnly(count) PROVE Content(buckets') = Content(buckets)
    BY <2>5, CountOnlyStep, SameContent
  <2>6. ASSUME NEW n \in 0 .. MaxBuckets, RehashFails(n) PROVE Content(buckets') = Content(buckets)
    BY <2>5, <2>6 DEF RehashFails
  <2>7. ASSUME GrowthFails PROVE Content(buckets') = Content(buckets)
    BY <2>5, <2>7 DEF GrowthFails
  <2>8. ASSUME Copy PROVE Content(buckets') = Content(buckets)
    BY <2>8, CopyStep, SameContent
  <2> QED
    BY <2>1, <2>2, <2>3, <2>4, <2>6, <2>7, <2>8
<1> QED
  BY <1>1, FlatMapInvariance, PTL DEF TakesOnlyAsked

\* flat_map is an unordered map: each step of its operations is a step of UnorderedMap or none.
THEOREM FlatMapImplementsMap == Spec => ImplementsMap
<1>1. Init => Map!MapInit
  <2> SUFFICES ASSUME Init PROVE Content(buckets) = Map!Nothing /\ Whole = TRUE
    BY DEF Map!MapInit
  <2>1. buckets.values = <<>> /\ status = "whole"
    BY DEF Init, NoBuckets
  <2>2. {buckets.values[i][1] : i \in DOMAIN buckets.values} = {}
    BY <2>1
  <2> QED
    BY <2>1, <2>2 DEF Content, Map!Nothing, Whole
<1>2. Inv /\ [Next]_vars => [Map!MapNext]_(Map!mapVars)
  <2> SUFFICES ASSUME Inv, [Next]_vars PROVE Map!MapNext \/ UNCHANGED Map!mapVars
    OBVIOUS
  <2> DEFINE a == Content(buckets)  b == Content(buckets')
  <2>1. ASSUME status' = status, b = a PROVE UNCHANGED Map!mapVars
    BY <2>1 DEF Map!mapVars, Whole
  <2>2. ASSUME ~Whole' PROVE Map!MapNext
    BY <2>2 DEF Map!MapNext
  <2>3. ASSUME Whole, status' = status, NEW k \in Key, NEW v \in Value, b = Assigned(a, k, v)
        PROVE  Map!MapNext
    <3>1. Map!Assign(k, v)
      BY <2>3 DEF Map!Assign, Map!With, Map!Bound, Assigned
    <3>2. Whole'
      BY <2>3 DEF Whole
    <3> QED
      BY <2>3, <3>1, <3>2 DEF Map!MapNext
  <2>4. ASSUME Whole, status' = status, NEW k \in Key, b = Without(buckets, {k}), k \in DOMAIN a
        PROVE  Map!MapNext
    <3>1. Map!Erase(k)
      BY <2>4 DEF Map!Erase, Map!Without, Map!Bound, Without
    <3>2. Whole'
      BY <2>4 DEF Whole
    <3> QED
      BY <2>4, <3>1, <3>2 DEF Map!MapNext
  <2>5. ASSUME NEW k \in Key, NEW v \in Value, Insert(k, v) \/ TryEmplace(k, v)
        PROVE  Map!MapNext \/ UNCHANGED Map!mapVars
    <3>1. Whole /\ status' = status /\ Listed(buckets) /\ Listed(buckets')
      BY <2>5, InsertStep, SoundListed
    <3>2. CASE buckets'.values = buckets.values
      BY <2>1, <3>1, <3>2, SameContent
    <3>3. CASE /\ Entries(buckets') = {e \in Entries(buckets) : e[1] # k} \cup {<<k, v>>}
               /\ \A e \in Entries(buckets) : e[1] # k
      <4>1. b = Assigned(a, k, v)
        BY <3>1, <3>3, MoreContent
      <4>2. k \notin DOMAIN a
        <5>1. DOMAIN a = {e[1] : e \in Entries(buckets)}
          BY <3>1, ContentIs
        <5> QED
          BY <3>3, <5>1
      <4>3. Map!Insert(k, v)
        BY <4>1, <4>2 DEF Map!Insert, Map!With, Map!Bound, Assigned
      <4>4. Whole'
        BY <3>1 DEF Whole
      <4> QED
        BY <3>1, <4>3, <4>4 DEF Map!MapNext
    <3> QED
      BY <2>5, <3>2, <3>3, InsertStep
  <2>6. ASSUME NEW k \in Key, NEW v \in Value, Assign(k, v) PROVE Map!MapNext
    <3>1. /\ Whole /\ status' = status
          /\ b = Assigned(a, k, v)
      <4>1. /\ Whole /\ status' = status /\ Listed(buckets) /\ Listed(buckets')
            /\ Entries(buckets') = {e \in Entries(buckets) : e[1] # k} \cup {<<k, v>>}
        BY <2>6, AssignStep, SoundListed
      <4>2. b = Assigned(a, k, v)
        BY <4>1, MoreContent
      <4> QED
        BY <4>1, <4>2
    <3> HIDE DEF a, b
    <3> QED
      BY <2>3, <3>1
  <2>7. ASSUME NEW k \in Key, Erase(k) PROVE Map!MapNext
    <3>1. Whole /\ status' = status /\ b = Without(buckets, {k}) /\ k \in DOMAIN a
      <4>1. /\ Whole /\ status' = status /\ Listed(buckets) /\ Listed(buckets')
            /\ Entries(buckets') = {e \in Entries(buckets) : e[1] \notin {k}}
            /\ \E e \in Entries(buckets) : e[1] = k
        BY <2>7, EraseStep, SoundListed
      <4>2. b = Without(buckets, {k})
        BY <4>1, LessContent
      <4>3. DOMAIN a = {e[1] : e \in Entries(buckets)}
        BY <4>1, ContentIs
      <4> QED
        BY <4>1, <4>2, <4>3
    <3> HIDE DEF a, b
    <3> QED
      BY <2>4, <3>1
  <2>8. ASSUME NEW i \in DOMAIN buckets.values, EraseAt(i) PROVE Map!MapNext
    <3> DEFINE k == buckets.values[i][1]
    <3>1. Whole /\ status' = status /\ b = Without(buckets, {k}) /\ k \in DOMAIN a /\ k \in Key
      <4>1. i \in 1 .. Len(buckets.values) /\ Become(ErasedAt(buckets, i)) /\ k \in Key
        BY <2>8, ListedIs DEF Inv, EraseAt
      <4>2. /\ Whole /\ status' = status /\ Listed(buckets) /\ Listed(buckets')
            /\ Entries(buckets') = {e \in Entries(buckets) : e[1] \notin {k}}
            /\ \E e \in Entries(buckets) : e[1] = k
        BY <4>1, EraseAtStep, SoundListed
      <4> HIDE DEF k
      <4>3. b = Without(buckets, {k})
        BY <4>2, LessContent
      <4>4. DOMAIN a = {e[1] : e \in Entries(buckets)}
        BY <4>2, ContentIs
      <4> QED
        BY <4>1, <4>2, <4>3, <4>4
    <3> HIDE DEF a, b, k
    <3> QED
      BY <2>4, <3>1
  <2>9. ASSUME NEW k \in Key, InsertThrows(k) PROVE UNCHANGED Map!mapVars
    BY <2>1, <2>9, InsertThrowsStep, SameContent
  <2>10. ASSUME NEW n \in 0 .. MaxBuckets, Rehash(n) \/ Reserve(n) PROVE UNCHANGED Map!mapVars
    BY <2>1, <2>10, RehashStep, SameContent
  <2>11. ASSUME NEW count, CountOnly(count) PROVE Map!MapNext
    BY <2>2, <2>11, CountOnlyStep DEF Whole
  <2>12. CASE Clear \/ MovedFrom
    <3>1. Whole /\ status' = status /\ Listed(buckets) /\ Listed(buckets') /\ Entries(buckets') = {}
      BY <2>12, EmptiedStep, SoundListed
    <3>2. Entries(buckets') = {e \in Entries(buckets) : e[1] \notin Key}
      <4>1. \A e \in Entries(buckets) : e \in Key \X Value
        BY <3>1, ContentIs
      <4>2. \A e \in Entries(buckets) : e[1] \in Key
        BY <4>1
      <4> QED
        BY <3>1, <4>2
    <3>3. b = Without(buckets, Key)
      BY <3>1, <3>2, LessContent
    <3>4. Map!EraseIf
      <4>1. Map!Bound \ Key \in SUBSET Map!Bound /\ b = [m \in Map!Bound \ Key |-> a[m]]
        BY <3>3 DEF Map!Bound, Without
      <4> QED
        BY <4>1 DEF Map!EraseIf
    <3>5. Whole'
      BY <3>1 DEF Whole
    <3> QED
      BY <3>1, <3>4, <3>5 DEF Map!MapNext
  <2>13. CASE Copy
    BY <2>1, <2>13, CopyStep, SameContent
  <2>14. CASE UNCHANGED vars
    BY <2>1, <2>14 DEF vars
  <2>15. ASSUME NEW n \in 0 .. MaxBuckets, RehashFails(n) PROVE Map!MapNext
    BY <2>11, <2>15 DEF RehashFails
  <2>16. CASE GrowthFails
    BY <2>11, <2>16 DEF GrowthFails
  <2> QED
    BY <2>5, <2>6, <2>7, <2>8, <2>9, <2>10, <2>12, <2>13, <2>14, <2>15, <2>16 DEF Next
<1> QED
  BY <1>1, <1>2, FlatMapInvariance, PTL DEF Spec, ImplementsMap, Map!MapSpec
=============================================================================
