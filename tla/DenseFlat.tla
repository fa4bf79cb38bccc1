----------------------------- MODULE DenseFlat -----------------------------
(***************************************************************************)
(* dense_map with flat storage (container/dense_map.hpp): the entries lie  *)
(* in an array without gaps, Robin Hood buckets hold their places.  A      *)
(* bucket is one number, the distance from home (from 1) above eight bits  *)
(* of the hash, and a place; the number 0 says it is empty.                *)
(*                                                                         *)
(* The array of entries grows when it must.  An allocation that fails      *)
(* there or for new buckets in place of old ones leaves the table as it    *)
(* was; one for a table without buckets does not.                          *)
(***************************************************************************)
EXTENDS ControlBytes, Sequences, SequencesExt

CONSTANTS
  High,    \* [Key -> 0 .. MaxCapacity - 1]: the high bits of the hash
  Finger,  \* [Key -> 0 .. FingerMod - 1]: its low bits
  FingerMod

VARIABLES
  flat,   \* [values, buckets, growth, cap]: values_ and size_, buckets_, growth_left_, capacity_
  status  \* "whole", or "counted": capacity_ belongs to buckets or entries that were never allocated

vars == <<flat, status>>

NoFlat == [values |-> <<>>, buckets |-> <<>>, growth |-> 0, cap |-> 0]
NoBucket == [daf |-> 0, idx |-> 0]

Fresh(values, cap) ==
  [values |-> values, buckets |-> [b \in 0 .. cap - 1 |-> NoBucket], growth |-> GrowthFor(cap), cap |-> cap]

\* The home of k, and the bucket i steps behind it; what a bucket there would be marked with.
Home(t, k) == High[k] \div (MaxCapacity \div t.cap)
At(t, k, i) == (Home(t, k) + i) % t.cap
Mark(k, i) == (i + 1) * FingerMod + Finger[k]
Step(t) == 0 .. t.cap  \* after which a distance is beyond all

\* The steps at which k is found, and those at which a probe gives up.
FoundByMark(t, k) == {i \in Step(t) : t.buckets[At(t, k, i)].daf = Mark(k, i)}  \* mutant
Found(t, k) == {i \in Step(t) : LET b == t.buckets[At(t, k, i)] IN
                                b.daf = Mark(k, i) /\ t.values[b.idx][1] = k}
Beyond(t, k) == {i \in Step(t) : Mark(k, i) > t.buckets[At(t, k, i)].daf}

NotFound == 0

\* find_prehashed_impl looks at two buckets before it may give up.
FindFlat(t, k) ==
  IF t.cap = 0 THEN NotFound
  ELSE LET stops == Found(t, k) \cup {i \in Beyond(t, k) : i >= 2} IN
       IF Min(stops) \in Found(t, k) THEN t.buckets[At(t, k, Min(stops))].idx ELSE NotFound

\* place_and_shift_up: x goes to bucket b; whoever is nearer to home moves on.
RECURSIVE Placed(_, _, _), BackShifted(_, _)
Farther(x) == [x EXCEPT !.daf = @ + FingerMod]
Placed(bs, b, x) ==
  LET y == bs[b]  next == (b + 1) % Cardinality(DOMAIN bs) IN
  IF y.daf = 0 THEN [bs EXCEPT ![b] = x]
  ELSE IF x.daf > y.daf THEN Placed([bs EXCEPT ![b] = x], next, Farther(y))
  ELSE Placed(bs, next, Farther(x))

\* rehash_impl: the entries stay, their buckets are placed anew.
RehashedFlat(t, cap) ==
  LET u == Fresh(t.values, cap) IN
  [u EXCEPT !.growth = @ - Len(t.values),
            !.buckets = FoldLeftDomain(LAMBDA bs, i :
                          LET k == t.values[i][1] IN Placed(bs, Home(u, k), [daf |-> Mark(k, 0), idx |-> i]),
                          @, t.values)]

GrownFlat(t) ==
  IF t.cap = 0 THEN Fresh(<<>>, MinCapacity)
  ELSE IF t.growth = 0 THEN RehashedFlat(t, t.cap * 2)
  ELSE t

\* emplace_impl and try_emplace_impl behind their growth.
InsertStops(t, k) == Found(t, k) \cup Beyond(t, k)
Emplaced(t, k, v) ==
  LET i == Min(InsertStops(t, k)) IN
  IF i \in Found(t, k) THEN t
  ELSE [t EXCEPT !.values = Append(@, <<k, v>>), !.growth = @ - 1,
                 !.buckets = Placed(@, At(t, k, i), [daf |-> Mark(k, i), idx |-> Len(t.values) + 1])]

\* erase_value_at: the bucket goes, those behind it that are not at home move back; the last entry fills the
\* hole, and its bucket is told.
BackShifted(bs, b) ==
  LET next == (b + 1) % Cardinality(DOMAIN bs) IN
  IF bs[next].daf < 2 * FingerMod THEN [bs EXCEPT ![b] = NoBucket]
  ELSE BackShifted([bs EXCEPT ![b] = [daf |-> bs[next].daf - FingerMod, idx |-> bs[next].idx]], next)

BucketOf(t, bs, idx) ==
  LET k == t.values[idx][1] IN At(t, k, Min({i \in Step(t) : bs[At(t, k, i)].idx = idx}))
WithoutBucket(t, idx) == BackShifted(t.buckets, BucketOf(t, t.buckets, idx))
ErasedAtUntold(t, idx) ==  \* mutant: the bucket of the last entry is not told
  [t EXCEPT !.buckets = WithoutBucket(t, idx), !.growth = @ + 1,
            !.values  = Front([@ EXCEPT ![idx] = t.values[Len(t.values)]])]
ErasedAt(t, idx) ==
  LET bs == WithoutBucket(t, idx)
      last == Len(t.values)
  IN [t EXCEPT !.buckets = IF idx = last THEN bs ELSE [bs EXCEPT ![BucketOf(t, bs, last)].idx = idx],
               !.values  = Front([@ EXCEPT ![idx] = t.values[last]]),
               !.growth  = @ + 1]

\* erase(first, last): the entry at first, count times.
RECURSIVE ErasedRange(_, _, _)
ErasedRange(t, first, count) == IF count = 0 THEN t ELSE ErasedRange(ErasedAt(t, first), first, count - 1)

-----------------------------------------------------------------------------
Init == flat = NoFlat /\ status = "whole"

Whole == status = "whole"
Become(t) == Whole /\ t.cap <= MaxCapacity /\ flat' = t /\ UNCHANGED status
MayGrow == Whole /\ (flat.growth = 0 => flat.cap * 2 <= MaxCapacity)

Insert(k, v)     == MayGrow /\ Become(Emplaced(GrownFlat(flat), k, v))
TryEmplace(k, v) == MayGrow /\ Become(Emplaced(GrownFlat(flat), k, v))

\* The entry is constructed before anything else is written: only the growth remains.
InsertThrows(k) == MayGrow /\ FindFlat(flat, k) = NotFound /\ Become(GrownFlat(flat))

\* insert_or_assign, and operator[] followed by an assignment.
Assign(k, v) ==
  /\ MayGrow
  /\ LET t == Emplaced(GrownFlat(flat), k, v) IN Become([t EXCEPT !.values[FindFlat(t, k)] = <<k, v>>])

Erase(k) == Whole /\ FindFlat(flat, k) > 0 /\ Become(ErasedAt(flat, FindFlat(flat, k)))
EraseAt(idx) == Become(ErasedAt(flat, idx))
EraseRange(first, count) == first + count <= Len(flat.values) + 1 /\ Become(ErasedRange(flat, first, count))

Clear == Len(flat.values) > 0 /\ Become(Fresh(<<>>, flat.cap))

\* Copies and moves between unequal allocators keep the buckets, but nothing of an empty map.
Copy == Become(IF flat.values = <<>> THEN NoFlat ELSE flat)
MovedFrom == Become(NoFlat)

\* initialize stores capacity_ before it allocates: when that throws, in the first insertion or in an assignment
\* that has given up the old storage, a table without buckets has a capacity.
InitializeThrows(cap) ==
  /\ Whole
  /\ flat' = [NoFlat EXCEPT !.cap = cap]
  /\ status' = "counted"

RehashTo(n) ==
  LET cap == Normalized(Max({n, Required(Len(flat.values))})) IN
  /\ cap <= MaxCapacity
  /\ Become(IF cap = flat.cap THEN flat ELSE RehashedFlat(flat, cap))
Rehash(n)  == RehashTo(n)
Reserve(n) == Required(n) > flat.cap /\ RehashTo(Required(n))

Next ==
  \/ \E k \in Key, v \in Value : Insert(k, v) \/ TryEmplace(k, v) \/ Assign(k, v)
  \/ \E k \in Key : InsertThrows(k) \/ Erase(k)
  \/ \E idx \in DOMAIN flat.values : EraseAt(idx) \/ \E count \in 1 .. Len(flat.values) : EraseRange(idx, count)
  \/ \E n \in 0 .. MaxCapacity : Rehash(n) \/ Reserve(n)
  \/ \E cap \in Capacities : cap <= MaxCapacity /\ InitializeThrows(cap)
  \/ Clear \/ Copy \/ MovedFrom

Spec == Init /\ [][Next]_vars
-----------------------------------------------------------------------------
(* Properties *)

Place(t, k) == LET at == {i \in DOMAIN t.values : t.values[i][1] = k} IN IF at = {} THEN NotFound ELSE Min(at)

\* The buckets are a Robin Hood table of the entries: each entry has its bucket, marked with its true distance,
\* none is poorer than the one before it by more than a step, and the budget counts what may still come.
WellPlaced ==
  Whole =>
    /\ flat.cap > 0 => \E b \in DOMAIN flat.buckets : flat.buckets[b] = NoBucket
    /\ \A i \in DOMAIN flat.values :
         LET k == flat.values[i][1] IN
         \E d \in Step(flat) : flat.buckets[At(flat, k, d)] = [daf |-> Mark(k, d), idx |-> i]
    /\ Cardinality({b \in DOMAIN flat.buckets : flat.buckets[b] # NoBucket}) = Len(flat.values)
    /\ \A b \in DOMAIN flat.buckets :
         flat.buckets[(b + 1) % flat.cap].daf \div FingerMod <= flat.buckets[b].daf \div FingerMod + 1
    /\ flat.growth + Len(flat.values) = GrowthFor(flat.cap)

\* A lookup finds the place of a key that is there and none for one that is not.
LookupsRight == Whole => \A k \in Key : FindFlat(flat, k) = Place(flat, k)

Content == [k \in {flat.values[i][1] : i \in DOMAIN flat.values} |-> flat.values[Place(flat, k)][2]]
Map == INSTANCE UnorderedMap WITH content <- Content, usable <- Whole
ImplementsMap == Map!MapSpec

\* erase(first, last) takes these entries and no others: "erase from end to start to avoid index shifting
\* issues" (dense_map.hpp:1411).
RangesErase ==
  \A i \in DOMAIN flat.values, j \in DOMAIN flat.values :
    i <= j => Range(ErasedRange(flat, i, j - i + 1).values) = Range(flat.values) \ {flat.values[m] : m \in i .. j}
=============================================================================
