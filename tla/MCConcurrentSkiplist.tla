----------------------- MODULE MCConcurrentSkiplist -----------------------
(***************************************************************************)
(* Small instances of ConcurrentSkiplist.  A run starts from the empty     *)
(* list (Init) or from a list that sequential inserts have built           *)
(* (BuiltInit), which leaves the calls of the run to what is concurrent.   *)
(***************************************************************************)
EXTENDS ConcurrentSkiplist, TLC

CONSTANTS Built,   \* a sequence of <<node, key, height>>, in key order
          t1, t2, t3, n1, n2, n3, n4

BuiltNodes == {Built[j][1] : j \in 1 .. Len(Built)}
BuiltIndex(p) == IF p \in BuiltNodes THEN CHOOSE j \in 1 .. Len(Built) : Built[j][1] = p ELSE 0
BuiltMin(S) == CHOOSE j \in S : \A m \in S : j <= m
BuiltNext(p, i) ==
  LET after == {j \in 1 .. Len(Built) : j > BuiltIndex(p) /\ Built[j][3] >= i} IN
  IF \/ after = {} \/ p \notin BuiltNodes \cup {HeadNode}
     \/ p # HeadNode /\ Built[BuiltIndex(p)][3] < i
    THEN Null ELSE Built[BuiltMin(after)][1]

BuiltInit ==
  /\ next = [p \in Pred |-> [i \in Level |-> To(BuiltNext(p, i))]]
  /\ nkey = [n \in Node |-> IF n \in BuiltNodes THEN Built[BuiltIndex(n)][2]
                                                ELSE CHOOSE k \in Key : TRUE]
  /\ nheight = [n \in Node |-> IF n \in BuiltNodes THEN Built[BuiltIndex(n)][3] ELSE 0]
  /\ status = [n \in Node |-> IF n \in BuiltNodes THEN "linked" ELSE "free"]
  /\ maxHeight = IF \E j \in 1 .. Len(Built) : Built[j][3] = MaxLevel THEN MaxLevel ELSE 0
  /\ size = Len(Built) % SizeMod
  /\ retired = <<>> /\ freed = [n \in Node |-> 0] /\ alive = TRUE
  /\ pc = [t \in Thread |-> "idle"]
  /\ key = [t \in Thread |-> Null]
  /\ node = [t \in Thread |-> Null]
  /\ cur = [t \in Thread |-> NoCursor]
  /\ preds = [t \in Thread |-> NoPreds]
  /\ succs = [t \in Thread |-> NoSuccs]
  /\ link = [t \in Thread |-> 0]
  /\ visited = [t \in Thread |-> {}]
  /\ calls = [t \in Thread |-> 0]
  /\ seen = [t \in Thread |-> [k \in Key |-> {}]]
  /\ outcome = [t \in Thread |-> NoOutcome]
BuiltSpec == BuiltInit /\ [][Next]_vars
BuiltFairSpec == BuiltSpec /\ \A t \in Thread : WF_vars(Go(t))
-----------------------------------------------------------------------------
None == <<>>
\* Two nodes of full height, so that a corpse can stand on both levels.
Two  == <<<<n1, 1, 1>>, <<n2, 2, 1>>>>

\* From the empty list: two inserts race for one key or for neighbours, an erase and a find follow.
RaceWork == t1 :> {<<"insert", 1>>}
         @@ t2 :> {<<"insert", 1>>, <<"insert", 2>>, <<"erase", 1>>}
         @@ t3 :> {<<"erase", 1>>, <<"find", 1>>}

\* From two nodes: neighbours are erased together while a key comes in at or behind them.
EraseWork == t1 :> {<<"erase", 1>>, <<"erase", 2>>}
          @@ t2 :> {<<"erase", 2>>, <<"erase", 3>>, <<"insert", 2>>}
          @@ t3 :> {<<"insert", 2>>, <<"insert", 3>>}

\* From two nodes: both are erased, so that a corpse may stay linked, while a reader or an insert of
\* the erased key meets it.
ReadWork == t1 :> {<<"for_each", Null>>, <<"find", 2>>, <<"insert", 2>>}
         @@ t2 :> {<<"erase", 1>>}
         @@ t3 :> {<<"erase", 2>>}

\* From the empty list: two inserts of adjacent keys, tall enough for two index levels.
TallWork == t1 :> {<<"insert", 1>>} @@ t2 :> {<<"insert", 2>>}


\* n3 and n4 carry no key at the start and nothing tells them apart.
FreeNodes == Permutations({n3, n4})
=============================================================================
