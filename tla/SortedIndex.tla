---------------------------- MODULE SortedIndex ----------------------------
(***************************************************************************)
(* immutable_ordered_multimap.hpp: an ordered multimap that is built once, *)
(* as its distinct keys in order, all values grouped by key, and where the *)
(* values of each key begin.                                               *)
(***************************************************************************)
EXTENDS Integers, Sequences, SequencesExt

CONSTANTS
  MaxKey,    \* keys are 1 .. MaxKey
  MaxPairs,  \* bound on the pairs an index is built from
  OffsetMod  \* 2^32, of the offsets

VARIABLES
  index,  \* [keys, offsets, values]
  given   \* [1 .. MaxKey -> the values given for the key, in order]

indexVars == <<index, given>>

IndexKey == 1 .. MaxKey
Blank == [keys |-> <<>>, offsets |-> <<>>, values |-> <<>>]

\* std::stable_sort by key, of a sequence of <<key, value>>.
StableSorted(pairs) ==
  FlattenSeq([k \in IndexKey |-> SelectSeq(pairs, LAMBDA p : p[1] = k)])

\* build: a key and an offset where the key changes.
Begins(s, i) == i = 1 \/ s[i][1] # s[i - 1][1]
BuiltEnding(pairs) ==  \* mutant
  LET s == StableSorted(pairs)
      starts == SelectSeq([i \in DOMAIN s |-> i], LAMBDA i : i = Len(s) \/ s[i][1] # s[i + 1][1])
  IN [keys    |-> [j \in DOMAIN starts |-> s[starts[j]][1]],
      offsets |-> [j \in DOMAIN starts |-> (starts[j] - 1) % OffsetMod] \o <<Len(s) % OffsetMod>>,
      values  |-> [i \in DOMAIN s |-> s[i][2]]]
Built(pairs) ==
  LET s == StableSorted(pairs)
      starts == SelectSeq([i \in DOMAIN s |-> i], LAMBDA i : Begins(s, i))
  IN [keys    |-> [j \in DOMAIN starts |-> s[starts[j]][1]],
      offsets |-> [j \in DOMAIN starts |-> (starts[j] - 1) % OffsetMod] \o <<Len(s) % OffsetMod>>,
      values  |-> [i \in DOMAIN s |-> s[i][2]]]

\* lower and upper: how many keys stand before x, or before what is greater than x.
Lower(x) == Cardinality({j \in DOMAIN index.keys : index.keys[j] < x})
Upper(x) == Cardinality({j \in DOMAIN index.keys : index.keys[j] <= x})

\* span_of: the values of the keys that stand at klo .. khi - 1, counted from 0.
SpanOf(klo, khi) ==
  IF klo >= khi \/ klo >= Len(index.keys) THEN <<>>
  ELSE SubSeq(index.values, index.offsets[klo + 1] + 1, index.offsets[khi + 1])

Held(x)   == Lower(x) < Len(index.keys) /\ index.keys[Lower(x) + 1] = x
EqualRange(x) == IF Held(x) THEN SpanOf(Lower(x), Lower(x) + 1) ELSE <<>>
CountOf(x)    == Len(EqualRange(x))
ValuesIn(lo, withLo, hi, withHi) ==
  SpanOf(IF withLo THEN Lower(lo) ELSE Upper(lo), IF withHi THEN Upper(hi) ELSE Lower(hi))
AtLeast(lo, inclusive) == SpanOf(IF inclusive THEN Lower(lo) ELSE Upper(lo), Len(index.keys))
AtMost(hi, inclusive)  == SpanOf(0, IF inclusive THEN Upper(hi) ELSE Lower(hi))
-----------------------------------------------------------------------------
Init == index = Blank /\ given = [k \in IndexKey |-> <<>>]

\* The values of the pairs are their positions, which tells them all apart.
Build ==
  /\ index = Blank
  /\ \E n \in 0 .. MaxPairs : \E key \in [1 .. n -> IndexKey] :
       LET pairs == [i \in 1 .. n |-> <<key[i], i>>] IN
       /\ index' = Built(pairs)
       /\ given' = [k \in IndexKey |-> SelectSeq([i \in 1 .. n |-> i], LAMBDA i : key[i] = k)]

\* from_parts: some keys, each with a run of values, which may be empty.
FromParts ==
  /\ index = Blank
  /\ \E keys \in SUBSET IndexKey : \E runs \in [keys -> 0 .. 2] :
       LET ks == SetToSortSeq(keys, <)
           Before(j) == FoldLeft(LAMBDA n, k : n + runs[k], 0, SubSeq(ks, 1, j - 1))
       IN /\ index' = [keys    |-> ks,
                       offsets |-> [j \in 1 .. Len(ks) + 1 |-> Before(j)],
                       values  |-> [i \in 1 .. Before(Len(ks) + 1) |-> i]]
          /\ given' = [k \in IndexKey |->
               IF k \notin keys THEN <<>>
               ELSE LET j == CHOOSE j \in DOMAIN ks : ks[j] = k
                    IN [i \in 1 .. runs[k] |-> Before(j) + i]]

Next == Build \/ FromParts
Spec == Init /\ [][Next]_indexVars
-----------------------------------------------------------------------------
\* Each lookup is one span, the values that were given for the keys asked for, by key and then
\* in the order they were given, also when an end of the range is no key or the ends are
\* crossed (immutable_ordered_multimap.hpp:79, 90, 130).
Given(keys) == FlattenSeq([k \in IndexKey |-> IF k \in keys THEN given[k] ELSE <<>>])
SpansRight ==
  \A x \in 0 .. MaxKey + 1 :
    /\ EqualRange(x) = Given({x})
    /\ CountOf(x) > 0 => Held(x)
    /\ \A with \in BOOLEAN :
         /\ AtLeast(x, with) = Given({k \in IndexKey : IF with THEN k >= x ELSE k > x})
         /\ AtMost(x, with)  = Given({k \in IndexKey : IF with THEN k <= x ELSE k < x})
         /\ \A hi \in 0 .. MaxKey + 1, withHi \in BOOLEAN :
              ValuesIn(x, with, hi, withHi) =
                Given({k \in IndexKey : /\ IF with THEN k >= x ELSE k > x
                                        /\ IF withHi THEN k <= hi ELSE k < hi})
=============================================================================
