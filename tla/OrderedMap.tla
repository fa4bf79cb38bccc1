---------------------------- MODULE OrderedMap ----------------------------
(***************************************************************************)
(* What an ordered map or set promises: how many elements of each key it   *)
(* holds.  Splits, merges and rotations of whatever keeps the elements in  *)
(* order are invisible.                                                    *)
(***************************************************************************)
EXTENDS Integers, FiniteSets

CONSTANT Key

VARIABLES
  content,  \* [Key -> Nat]
  many,     \* whether a key may occur more than once
  usable    \* FALSE once a defect of the structure leaves the rest undefined

mapVars == <<content, many, usable>>

Nothing == [k \in Key |-> 0]

MapInit == content = Nothing /\ many \in BOOLEAN /\ usable = TRUE

Insert(k) == (many \/ content[k] = 0) /\ content' = [content EXCEPT ![k] = @ + 1]
Remove(k) == content[k] > 0 /\ content' = [content EXCEPT ![k] = @ - 1]
Erase(k)  == content' = [content EXCEPT ![k] = 0]
\* erase_if and clear, and the source of a merge
EraseIf   == content' \in [Key -> Nat] /\ \A k \in Key : content'[k] \in {0, content[k]}
\* A range may begin and end amid equal elements.
EraseRange ==
  /\ many /\ content' \in [Key -> Nat] /\ \A k \in Key : content'[k] <= content[k]
  /\ Cardinality({k \in Key : 0 < content'[k] /\ content'[k] < content[k]}) <= 2
\* A bulk load of an empty map
Fill      == content = Nothing /\ content' \in [Key -> {0, 1}]

\* Nothing is said of a map that is no longer usable.
MapNext ==
  /\ UNCHANGED many
  /\ \/ usable /\ usable' /\ (EraseIf \/ EraseRange \/ Fill \/ \E k \in Key : Insert(k) \/ Remove(k) \/ Erase(k))
     \/ ~usable'

MapSpec == MapInit /\ [][MapNext]_mapVars
=============================================================================
