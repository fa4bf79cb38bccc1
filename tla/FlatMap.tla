------------------------------ MODULE FlatMap ------------------------------
(***************************************************************************)
(* flat_map (container/flat_map.hpp): the entries lie in a vector without  *)
(* gaps, and Robin Hood buckets hold their places.  A bucket is the index  *)
(* of an entry (0: kEmpty), the distance from its home and a fingerprint.  *)
(*                                                                         *)
(* With at most 256 buckets the eight bits of a distance do not wrap.      *)
(***************************************************************************)
EXTENDS Integers, FiniteSets, FiniteSetsExt, Sequences, SequencesExt

CONSTANTS
  Key, Value,
  Home,        \* [Key -> Nat]: the low bits of the hash
  Fingerprint, \* [Key -> ...]
  MinBuckets,  \* kMinBuckets
  LoadNum, LoadDen,  \* kMaxLoadFactor, exactly
  MaxBuckets   \* bound of the model: calls that need more are left out

Powers == {2 ^ e : e \in 0 .. 8}

ASSUME HomeAssumption == Home \in [Key -> Nat]
ASSUME SizeAssumption == MinBuckets \in Powers /\ MaxBuckets \in Powers /\ MinBuckets <= MaxBuckets
\* The least table has room for an entry, and for another bucket that stays empty.
ASSUME LoadAssumption == /\ LoadNum \in Nat \ {0} /\ LoadDen \in Nat
                         /\ LoadDen <= MinBuckets * LoadNum
                         /\ LoadDen <= MinBuckets * (LoadDen - LoadNum)

VARIABLES
  buckets,  \* [values, at, count]: values_, buckets_, bucket_count_
  status    \* "whole", or "counted": bucket_count_ belongs to buckets that were never allocated

vars == <<buckets, status>>

NoBuckets == [values |-> <<>>, at |-> <<>>, count |-> 0]
EmptyBucket == [idx |-> 0, dist |-> 0, print |-> 0]
Bucket(idx, dist, print) == [idx |-> idx, dist |-> dist, print |-> print]

\* allocate_buckets
Allocated(values, count) == [values |-> values, at |-> [b \in 0 .. count - 1 |-> EmptyBucket], count |-> count]

NextPowerOf2(n) == Min({c \in Powers : c >= n})
\* The least number of buckets n entries may have, and whether the next insert must grow first.
Wanted(n) == (n * LoadDen + LoadNum - 1) \div LoadNum
IsFull(t) == Len(t.values) * LoadDen >= t.count * LoadNum

-----------------------------------------------------------------------------
(* Probing: i steps from home. *)

Step(t) == 0 .. t.count
Place(t, k, i) == (Home[k] + i) % t.count
At(t, k, i) == t.at[Place(t, k, i)]

MatchingByPrint(t, k) == {i \in Step(t) : At(t, k, i).idx # 0 /\ At(t, k, i).print = Fingerprint[k]}  \* mutant
Matching(t, k) == {i \in Step(t) : /\ At(t, k, i).idx # 0 /\ At(t, k, i).print = Fingerprint[k]
                                   /\ t.values[At(t, k, i).idx][1] = k}
Yielding(t, k) == {i \in Step(t) : At(t, k, i).idx = 0 \/ i > At(t, k, i).dist}

\* find_impl asks whether to give up before it compares, emplace_impl after.
Find(t, k) ==
  IF t.count = 0 THEN 0
  ELSE LET i == Min(Yielding(t, k) \cup Matching(t, k)) IN
       IF i \in Yielding(t, k) THEN 0 ELSE At(t, k, i).idx

\* insert_bucket_displace: x goes to bucket b or behind it, up to the first empty one; whoever is nearer to home
\* gives way and is carried on.
Farther(x) == [x EXCEPT !.dist = @ + 1]
CarryInPlace(bs, c, x) ==  \* mutant: who gave way is no farther
  IF x.dist > bs[c].dist THEN <<[bs EXCEPT ![c] = x], bs[c]>> ELSE <<bs, Farther(x)>>
Carry(bs, c, x) == IF x.dist > bs[c].dist THEN <<[bs EXCEPT ![c] = x], Farther(bs[c])>> ELSE <<bs, Farther(x)>>
Displaced(bs, b, x) ==
  LET count == Cardinality(DOMAIN bs)
      end   == Min({n \in 0 .. count - 1 : bs[(b + n) % count].idx = 0})
      carried[n \in 0 .. end] ==
        IF n = 0 THEN <<bs, x>> ELSE Carry(carried[n - 1][1], (b + (n - 1)) % count, carried[n - 1][2])
  IN [carried[end][1] EXCEPT ![(b + end) % count] = carried[end][2]]

\* rehash_impl: the entries stay, their buckets are placed anew.
Rehashed(t, count) ==
  LET u == Allocated(t.values, count)
      placed[i \in 0 .. Len(t.values)] ==
        IF i = 0 THEN u.at
        ELSE LET k == t.values[i][1] IN Displaced(placed[i - 1], Place(u, k, 0), Bucket(i, 0, Fingerprint[k]))
  IN [u EXCEPT !.at = placed[Len(t.values)]]

\* maybe_rehash
Grown(t) ==
  IF t.count = 0 THEN Allocated(<<>>, MinBuckets)
  ELSE IF IsFull(t) THEN Rehashed(t, t.count * 2)
  ELSE t

\* emplace_impl, try_emplace_impl behind maybe_rehash.
Emplaced(t, k, v) ==
  LET i == Min(Yielding(t, k) \cup Matching(t, k))
      x == Bucket(Len(t.values) + 1, i, Fingerprint[k])
  IN IF i \in Matching(t, k) THEN t
     ELSE [t EXCEPT !.values = Append(@, <<k, v>>), !.at = Displaced(@, Place(t, k, i), x)]

\* backward_shift_delete: those behind bucket b that are not at home move back by one.
BackShifted(bs, b) ==
  LET count   == Cardinality(DOMAIN bs)
      next(n) == bs[(b + n + 1) % count]
      moved   == Min({n \in 0 .. count - 1 : next(n).idx = 0 \/ next(n).dist = 0})
  IN [c \in DOMAIN bs |->
        LET n == (c - b) % count IN
        IF n < moved THEN [next(n) EXCEPT !.dist = @ - 1] ELSE IF n = moved THEN EmptyBucket ELSE bs[c]]

\* erase_at_index: the bucket of the entry goes, then that of the last entry is found and sent to the hole.
BucketOf(t, bs, idx) ==
  LET k == t.values[idx][1] IN Place(t, k, Min({i \in Step(t) : bs[Place(t, k, i)].idx = idx}))
ErasedAtUntold(t, idx) ==  \* mutant: the bucket of the last entry is not told
  [t EXCEPT !.at = BackShifted(t.at, BucketOf(t, t.at, idx)),
            !.values = Front([@ EXCEPT ![idx] = t.values[Len(t.values)]])]
ErasedAtUnmoved(t, idx) ==  \* mutant: the last entry is not moved to the hole
  [t EXCEPT !.at = BackShifted(t.at, BucketOf(t, t.at, idx)), !.values = Front(@)]
ErasedAt(t, idx) ==
  LET bs == BackShifted(t.at, BucketOf(t, t.at, idx))
      last == Len(t.values)
  IN [t EXCEPT !.at = IF idx = last THEN bs ELSE [bs EXCEPT ![BucketOf(t, bs, last)].idx = idx],
               !.values = Front([@ EXCEPT ![idx] = t.values[last]])]

-----------------------------------------------------------------------------
Init == buckets = NoBuckets /\ status = "whole"

Whole == status = "whole"
Become(t) == Whole /\ t.count <= MaxBuckets /\ buckets' = t /\ UNCHANGED status
MayGrow == Whole /\ (IsFull(buckets) => buckets.count * 2 <= MaxBuckets)

Insert(k, v)     == MayGrow /\ Become(Emplaced(Grown(buckets), k, v))
TryEmplace(k, v) == MayGrow /\ Become(Emplaced(Grown(buckets), k, v))

\* operator[] followed by an assignment.
Assign(k, v) ==
  /\ MayGrow
  /\ LET t == Emplaced(Grown(buckets), k, v) IN Become([t EXCEPT !.values[Find(t, k)] = <<k, v>>])

\* The entry is appended before a bucket is written: when that throws, only the growth remains.
InsertThrows(k) == MayGrow /\ Find(buckets, k) = 0 /\ Become(Grown(buckets))

\* allocate_buckets stores the count before the allocation that may throw: on the way to an insertion, or in a
\* rehash (below).
CountOnly(count) ==
  /\ Whole
  /\ buckets' = [buckets EXCEPT !.count = count]
  /\ status' = "counted"
GrowthFails == MayGrow /\ Grown(buckets) # buckets /\ CountOnly(Grown(buckets).count)

Erase(k)     == Whole /\ Find(buckets, k) > 0 /\ Become(ErasedAt(buckets, Find(buckets, k)))
EraseAt(idx) == Become(ErasedAt(buckets, idx))

Clear == Become(Allocated(<<>>, buckets.count))

\* A copy has the same entries and buckets; what was moved away leaves nothing.
Copy == Become(IF buckets.count > 0 THEN buckets ELSE NoBuckets)
MovedFrom == Become(NoBuckets)

Least(n) == Max({n, Wanted(Len(buckets.values)), MinBuckets})
RehashTo(n) ==
  LET count == NextPowerOf2(Least(n)) IN
  Least(n) <= MaxBuckets /\ Become(IF count = buckets.count THEN buckets ELSE Rehashed(buckets, count))
Rehash(n)  == RehashTo(n)
Reserve(n) == Wanted(n) > buckets.count /\ RehashTo(Wanted(n))
\* Of reserve too, which rehashes to what it wants.
RehashFails(n) ==
  LET count == NextPowerOf2(Least(n)) IN Least(n) <= MaxBuckets /\ count # buckets.count /\ CountOnly(count)

Next ==
  \/ \E k \in Key, v \in Value : Insert(k, v) \/ TryEmplace(k, v) \/ Assign(k, v)
  \/ \E k \in Key : InsertThrows(k) \/ Erase(k)
  \/ \E idx \in DOMAIN buckets.values : EraseAt(idx)
  \/ \E n \in 0 .. MaxBuckets : Rehash(n) \/ Reserve(n) \/ RehashFails(n)
  \/ GrowthFails \/ Clear \/ Copy \/ MovedFrom

Spec == Init /\ [][Next]_vars
-----------------------------------------------------------------------------
(* Properties *)

Where(t, k) == LET at == {i \in DOMAIN t.values : t.values[i][1] = k} IN IF at = {} THEN 0 ELSE Min(at)

\* The buckets are a Robin Hood table of the entries: each has its bucket, with its distance from home, none is
\* more than one step poorer than the one before it, and an empty bucket remains to end a probe.
WellPlaced ==
  Whole =>
    /\ \A i \in DOMAIN buckets.values :
         LET k == buckets.values[i][1] IN \E d \in Step(buckets) : At(buckets, k, d) = Bucket(i, d, Fingerprint[k])
    /\ Cardinality({b \in DOMAIN buckets.at : buckets.at[b].idx # 0}) = Len(buckets.values)
    /\ \A b \in DOMAIN buckets.at :
         LET next == buckets.at[(b + 1) % buckets.count] IN
         next.dist > 0 => buckets.at[b].idx # 0 /\ next.dist <= buckets.at[b].dist + 1
    /\ buckets.count > 0 => \E b \in DOMAIN buckets.at : buckets.at[b].idx = 0

\* A lookup finds the place of a key that is there and none for one that is not.
LookupsRight == Whole => \A k \in Key : Find(buckets, k) = Where(buckets, k)

\* The table is an unordered map.
Content(t) == [k \in {t.values[i][1] : i \in DOMAIN t.values} |-> t.values[Where(t, k)][2]]
Map == INSTANCE UnorderedMap WITH content <- Content(buckets), usable <- Whole
ImplementsMap == Map!MapSpec

Without(t, keys) == [k \in DOMAIN Content(t) \ keys |-> Content(t)[k]]

\* No call loses an entry it was not asked to take: an erase takes one, though it moves another into its place and
\* many buckets, and a rehash or growth, failed or not, or an insertion that throws takes none.
TakesOnlyAsked ==
  [][LET Becomes(c) == Content(buckets') = c IN
     /\ \A k \in Key : Erase(k) => Becomes(Without(buckets, {k}))
     /\ \A i \in DOMAIN buckets.values : EraseAt(i) => Becomes(Without(buckets, {buckets.values[i][1]}))
     /\ \A n \in 0 .. MaxBuckets : Rehash(n) \/ Reserve(n) \/ RehashFails(n) => Becomes(Content(buckets))
     /\ \A k \in Key : InsertThrows(k) => Becomes(Content(buckets))
     /\ GrowthFails \/ Copy => Becomes(Content(buckets))]_vars
=============================================================================
