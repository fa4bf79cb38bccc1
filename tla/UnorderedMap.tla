--------------------------- MODULE UnorderedMap ---------------------------
(***************************************************************************)
(* What a hash map promises: a function from the keys put in to the values *)
(* last assigned to them.  The order, the layout, growth and failed calls  *)
(* are invisible: a call that changes nothing here is a stuttering step.   *)
(***************************************************************************)
CONSTANTS Key, Value

VARIABLE content,  \* a function from the keys held to their values
         usable    \* FALSE once a defect of the layout leaves the rest undefined

mapVars == <<content, usable>>

Bound == DOMAIN content
With(k, v) == [m \in Bound \cup {k} |-> IF m = k THEN v ELSE content[m]]
Without(k) == [m \in Bound \ {k} |-> content[m]]
Nothing == [m \in {} |-> m]

MapInit == content = Nothing /\ usable = TRUE

\* insert: a key that is there keeps its value.
Insert(k, v) == k \notin Bound /\ content' = With(k, v)
Assign(k, v) == content' = With(k, v)
Erase(k)     == k \in Bound /\ content' = Without(k)
\* ranges of entries, and clear
EraseIf      == \E S \in SUBSET Bound : content' = [m \in S |-> content[m]]

\* Nothing is said of a map that is no longer usable.
MapNext ==
  \/ /\ usable /\ usable' /\ (EraseIf \/ \E k \in Key : Erase(k) \/ \E v \in Value : Insert(k, v) \/ Assign(k, v))
  \/ ~usable'

MapSpec == MapInit /\ [][MapNext]_mapVars
=============================================================================
