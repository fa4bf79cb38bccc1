------------------------------- MODULE Slots -------------------------------
(***************************************************************************)
(* container_base.hpp: what the helpers of the vectors do to raw storage,  *)
(* for an element type that has to be constructed, moved and destroyed.    *)
(* Storage is a function from 0 .. n - 1 to slots.  A slot is Raw, holds a *)
(* value, or holds a Husk, an element that was moved from and not yet      *)
(* destroyed.  To construct over an element, or to destroy where there is  *)
(* none, leaves a Clash, for good.                                         *)
(***************************************************************************)
EXTENDS Integers, Sequences

CONSTANTS Value, Raw, Husk, Clash

\* A slot without an element, or one that clashed, is not mistaken for an element or a husk.
ASSUME SlotKinds == Raw \notin Value \cup {Husk} /\ Clash \notin Value \cup {Husk, Raw}

RawSlots(n) == [i \in 0 .. n - 1 |-> Raw]

\* Placement new of x in slot i: copy_cref, copy_value, emplace.
Constructed(b, i, x) == [b EXCEPT ![i] = IF @ = Raw THEN x ELSE Clash]

\* destroy_ptr.
DestroyedAt(b, i) == [b EXCEPT ![i] = IF @ \in {Raw, Clash} THEN Clash ELSE Raw]

\* The elements s constructed in the slots from first on: construct_range, construct_range_with_cref,
\* copy_range, copy_from_iterator, and the target of move_range_without_overlap.
Filled(b, first, s) ==
  [i \in DOMAIN b |-> IF i - first + 1 \notin DOMAIN s THEN b[i]
                      ELSE IF b[i] = Raw THEN s[i - first + 1] ELSE Clash]

\* destroy_range over first .. last - 1.
Destroyed(b, first, last) ==
  [i \in DOMAIN b |-> IF first <= i /\ i < last THEN DestroyedAt(b, i)[i] ELSE b[i]]

\* The source of move_range_without_overlap: the elements are moved from, not destroyed.
MovedFrom(b, first, last) ==
  [i \in DOMAIN b |-> IF first <= i /\ i < last /\ b[i] # Raw THEN Husk ELSE b[i]]

\* One step of an overlapping move: construct at dst from src, then destroy src.
Relocated(b, dst, src) == DestroyedAt(Constructed(b, dst, b[src]), src)

\* move_range_forward: slots first .. last - 1 go to dst .., the first one first.
MovedForward(b, dst, first, last) ==
  LET moved[j \in 0 .. last - first] ==
        IF j = 0 THEN b ELSE Relocated(moved[j - 1], dst + j - 1, first + j - 1)
  IN moved[last - first]

\* move_backward of the vectors: the same, the last one first.
MovedBackward(b, dst, first, last) ==
  LET moved[j \in 0 .. last - first] ==
        IF j = 0 THEN b ELSE Relocated(moved[j - 1], dst + last - first - j, last - j)
  IN moved[last - first]

Copies(n, x) == [j \in 1 .. n |-> x]

\* std::remove: the elements that are not x, as the loop collects them.
Without(s, x) ==
  LET kept[j \in 0 .. Len(s)] ==
        IF j = 0 THEN <<>> ELSE IF s[j] = x THEN kept[j - 1] ELSE Append(kept[j - 1], s[j])
  IN kept[Len(s)]

\* The first n slots hold elements and the others none.
Holds(b, n) == \A i \in DOMAIN b : IF i < n THEN b[i] \in Value ELSE b[i] = Raw
Listed(b, n) == [j \in 1 .. n |-> b[j - 1]]

\* insert: slots pos .. size - 1 move n up, one element with move_range_forward and several with
\* move_backward, and the gap takes n copies of x.
Opened(b, pos, n, size) ==
  IF pos >= size THEN b
  ELSE IF pos + 1 < size THEN MovedBackward(b, pos + n, pos, size)
  ELSE MovedForward(b, pos + n, pos, size)

\* erase of first .. last - 1: destroyed, and the tail moved down over the gap.
Closed(b, first, last, size) ==
  IF first = last THEN b ELSE MovedForward(Destroyed(b, first, last), first, last, size)
=============================================================================
