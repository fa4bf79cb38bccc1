------------------------ MODULE ConcurrentSkiplist ------------------------
(***************************************************************************)
(* The lock-free skiplist of container/concurrent_skiplist.hpp, one action *)
(* per access of a thread to memory that other threads may write: a load,  *)
(* a store or a compare-and-swap of one next pointer, of _height, of       *)
(* _retired or of _size.  What a thread does between two such accesses is  *)
(* part of the action before it.  Accesses are sequentially consistent.    *)
(*                                                                         *)
(* Three loops of the code are one action here because the loop only       *)
(* retries a compare-and-swap whose new value depends on nothing else: the *)
(* raise of _height, the setting of one mark by erase, the push on the     *)
(* retired list.  The loop ends at the access that succeeds, and the value *)
(* an earlier iteration read is dead by then.                              *)
(***************************************************************************)
EXTENDS Integers, Sequences, FiniteSets

CONSTANTS
  Thread,    \* the threads that share the list
  Node,      \* the blocks of memory Node::create can return
  Key,       \* the keys, with < for _cmp
  MaxLevel,  \* the template parameter: levels are 0..MaxLevel
  SizeMod,   \* 2^w for the w-bit size_type of _size
  Null,      \* the null pointer
  HeadNode,  \* _head: the code writes it as a null predecessor
  Uninit,    \* an element of a preds[] array that was never written
  Work,      \* [Thread -> SUBSET Call]: the calls each thread may make
  MaxCalls   \* how many calls a thread makes

Level   == 0 .. MaxLevel
NodePtr == Node \cup {Null}
Pred    == Node \cup {HeadNode}
Call    == ({"insert", "erase", "find"} \X Key) \cup {<<"for_each", Null>>}

ASSUME LevelAssumption == MaxLevel \in Nat
ASSUME SizeAssumption  == SizeMod \in Nat /\ SizeMod > 1
ASSUME KeyAssumption   == Key \subseteq Int /\ Key # {}
ASSUME NullAssumption  == /\ Null \notin Node \cup Key \cup {HeadNode}
                          /\ HeadNode \notin Node
                          /\ Uninit \notin Node \cup {HeadNode}
ASSUME WorkAssumption  == Work \in [Thread -> SUBSET Call]
ASSUME CallsAssumption == MaxCalls \in Nat
ASSUME FiniteAssumption == IsFiniteSet(Node) /\ IsFiniteSet(Thread)

VARIABLES
  next,       \* [Pred -> [Level -> Link]]: _head[i] and n->next[i]
  nkey,       \* [Node -> Key]: n->key, meaningless while n is free
  nheight,    \* [Node -> Level]: n->height, meaningless while n is free
  status,     \* [Node -> {"free", "private", "linked"}]: allocated? linked at level 0?
  maxHeight,  \* _height
  size,       \* _size
  retired,    \* the _retired list, most recent first; n->retired holds iff n is on it
  freed,      \* [Node -> Nat]: how often the destructor has destroyed the node
  alive,      \* the container's lifetime has not ended
  pc,         \* per thread: the access it will make next
  key,        \* per thread: the argument of the call, Null for for_each
  node,       \* per thread: insert's new_node, erase's victim
  cur,        \* per thread: the cursor of the search (level i, pred, curr, live)
  preds,      \* per thread: the preds[] array
  succs,      \* per thread: the succs[] array
  link,       \* per thread: the level insert is linking, 0 before the node is public
  visited,    \* per thread: the nodes for_each has called fn on
  calls,      \* per thread: the calls made so far
  seen,       \* history: the bindings each key of the call has had since it began
  outcome     \* history: what the thread's last call returned

counters == <<maxHeight, size>>
final    == <<retired, freed, alive>>
arrays   == <<preds, succs>>
history  == <<seen, outcome>>
nodeInfo == <<nkey, nheight, status>>
memory   == <<next, nodeInfo>>
shared   == <<memory, counters, final>>
args     == <<key, node, link, visited, calls>>
vars     == <<next, nkey, nheight, status, maxHeight, size, retired, freed, alive, pc, key,
              node, cur, preds, succs, link, visited, calls, seen, outcome>>

-----------------------------------------------------------------------------
\* MarkedPtr<Node>: a pointer and, in its low bit, the deletion mark of the node it is read from.
Link == [ptr : NodePtr, mark : BOOLEAN]
To(p) == [ptr |-> p, mark |-> FALSE]

\* A compare-and-swap of p->next[i] succeeds iff it holds this value.
Holds(p, i, v) == next[p][i] = v
WithLink(p, i, v) == [next EXCEPT ![p][i] = v]

\* _cmp(n->key, k) and _cmp(k, n->key); the keys are equal when neither holds.
AfterOrEqual(n, k) == nkey[n] >= k  \* mutant: the second comparison dropped
Before(n, k) == nkey[n] < k
After(n, k)  == nkey[n] > k

\* fetch_add(1) and fetch_sub(1) on a w-bit counter.
DownUnbounded(x) == x - 1  \* mutant
Up(x)   == IF x = SizeMod - 1 THEN 0 ELSE x + 1
Down(x) == IF x = 0 THEN SizeMod - 1 ELSE x - 1

Cursor == [lvl : Level, pred : Pred, curr : Link, live : NodePtr]
NoCursor == [lvl |-> 0, pred |-> HeadNode, curr |-> To(Null), live |-> Null]
NoPreds == [i \in Level |-> Uninit]
NoSuccs == [i \in Level |-> Null]

\* The live nodes and the map they stand for: what the history and the properties speak of.
Live == {n \in Node : status[n] = "linked" /\ ~next[n][0].mark}
Binding(k) == IF \E n \in Live : nkey[n] = k
                THEN CHOOSE n \in Live : nkey[n] = k
                ELSE Null
\* The binding of k changes to v in a step of t that takes effect.
Observe(t, k, v) ==
  seen' = [u \in Thread |-> [j \in Key |->
             CASE u = t                              -> {}
               [] u # t /\ j = k /\ seen[u][j] # {}  -> seen[u][j] \cup {v}
               [] OTHER                               -> seen[u][j]]]

Outcome(kind, nodes) == [kind |-> kind, nodes |-> nodes]
NoOutcome == Outcome("none", {})

\* The cursor of t moves; it enters a level with nothing read yet.
Scan(t, i, p, c) == cur' = [cur EXCEPT ![t] = [lvl |-> i, pred |-> p, curr |-> c, live |-> Null]]
Enter(t, i, p)   == Scan(t, i, p, To(Null))
Survivor(t, n)   == cur' = [cur EXCEPT ![t] = [lvl |-> cur[t].lvl, pred |-> cur[t].pred,
                                               curr |-> cur[t].curr, live |-> n]]

Goto(t, l) == pc' = [pc EXCEPT ![t] = l]

\* A call of t begins: its locals are fresh, in particular preds[] and succs[].
Start(t, k) ==
  /\ alive /\ pc[t] = "idle" /\ calls[t] < MaxCalls
  /\ calls' = [calls EXCEPT ![t] = @ + 1]
  /\ key' = [key EXCEPT ![t] = k]
  /\ seen' = [seen EXCEPT ![t] = [j \in Key |-> IF k \in {j, Null} THEN {Binding(j)} ELSE {}]]
  /\ outcome' = [outcome EXCEPT ![t] = NoOutcome]

\* The call of t returns o: its locals are gone.
Return(t, o) ==
  /\ Goto(t, "idle")
  /\ key'     = [key EXCEPT ![t] = Null]
  /\ node'    = [node EXCEPT ![t] = Null]
  /\ Enter(t, 0, HeadNode)
  /\ preds'   = [preds EXCEPT ![t] = NoPreds]
  /\ succs'   = [succs EXCEPT ![t] = NoSuccs]
  /\ link'    = [link EXCEPT ![t] = 0]
  /\ visited' = [visited EXCEPT ![t] = {}]
  /\ seen'    = [seen EXCEPT ![t] = [j \in Key |-> {}]]
  /\ outcome' = [outcome EXCEPT ![t] = o]
  /\ UNCHANGED calls

PcType == {"idle", "i_top", "i_level", "i_scan", "i_live", "i_splice", "i_publish", "i_check",
           "i_link", "i_relink", "i_count", "e_level", "e_scan", "e_mark", "e_claim", "e_unlink",
           "e_retire", "e_count", "f_top", "f_level", "f_scan", "f_check", "w_scan"}
OutcomeType == [kind : {"none", "inserted", "exists", "erased", "missing", "found", "visited"},
                nodes : SUBSET Node]

TypeMemory ==
  /\ next \in [Pred -> [Level -> Link]]
  /\ nkey \in [Node -> Key] /\ nheight \in [Node -> Level]
  /\ status \in [Node -> {"free", "private", "linked"}]
TypeShared ==
  /\ maxHeight \in Level /\ size \in 0 .. SizeMod - 1
  /\ retired \in Seq(Node) /\ freed \in [Node -> Nat] /\ alive \in BOOLEAN
TypeThread ==
  /\ pc \in [Thread -> PcType]
  /\ key \in [Thread -> Key \cup {Null}]
  /\ node \in [Thread -> NodePtr] /\ cur \in [Thread -> Cursor]
  /\ preds \in [Thread -> [Level -> Pred \cup {Uninit}]]
  /\ succs \in [Thread -> [Level -> NodePtr]]
  /\ link \in [Thread -> Level] /\ visited \in [Thread -> SUBSET Node]
  /\ calls \in [Thread -> 0 .. MaxCalls]
TypeHistory ==
  /\ seen \in [Thread -> [Key -> SUBSET NodePtr]]
  /\ outcome \in [Thread -> OutcomeType]
TypeOK == TypeMemory /\ TypeShared /\ TypeThread /\ TypeHistory

Init ==
  /\ next = [p \in Pred |-> [i \in Level |-> To(Null)]]
  /\ nkey = [n \in Node |-> CHOOSE k \in Key : TRUE]
  /\ nheight = [n \in Node |-> 0]
  /\ status = [n \in Node |-> "free"]
  /\ maxHeight = 0 /\ size = 0
  /\ retired = <<>> /\ freed = [n \in Node |-> 0] /\ alive = TRUE
  /\ pc = [t \in Thread |-> "idle"]
  /\ key = [t \in Thread |-> Null]
  /\ node = [t \in Thread |-> Null]
  /\ cur = [t \in Thread |-> NoCursor]
  /\ preds = [t \in Thread |-> NoPreds]
  /\ succs = [t \in Thread |-> NoSuccs]
  /\ link = [t \in Thread |-> 0]
  /\ visited = [t \in Thread |-> {}]
  /\ calls = [t \in Thread |-> 0]
  /\ seen = [t \in Thread |-> [k \in Key |-> {}]]
  /\ outcome = [t \in Thread |-> NoOutcome]
-----------------------------------------------------------------------------
\* find_insert_position, run by insert before it publishes its node (link = 0) and again
\* whenever a link above level 0 fails (link > 0).

\* Level i of the search ended between p and s.  Below it the search goes on; after level 0 it is over.
InsertLevelDone(t, p, s) ==
  LET i == cur[t].lvl IN
  /\ preds' = [preds EXCEPT ![t][i] = p]
  /\ succs' = [succs EXCEPT ![t][i] = s]
  /\ IF i > 0
       THEN Goto(t, "i_level") /\ Enter(t, i - 1, p)
       ELSE /\ Goto(t, IF link[t] = 0 THEN "i_publish" ELSE "i_relink")
            /\ Enter(t, 0, HeadNode)

\* goto retry
InsertRetry(t) ==
  /\ Goto(t, "i_top") /\ Enter(t, 0, HeadNode)
  /\ UNCHANGED arrays

\* Load _height.  The levels above it get pred = head, succ = null: the code stores these when the
\* search ends, but no step of the search reads them and only levels up to _height are linked.
InsertTop(t) ==
  /\ pc[t] = "i_top"
  /\ Goto(t, "i_level")
  /\ Enter(t, maxHeight, HeadNode)
  /\ preds' = [preds EXCEPT ![t] = [i \in Level |-> IF i > maxHeight THEN HeadNode ELSE @[i]]]
  /\ succs' = [succs EXCEPT ![t] = [i \in Level |-> IF i > maxHeight THEN Null ELSE @[i]]]
  /\ UNCHANGED <<shared, args, history>>

\* Load pred->next[i].  A null pointer ends the level, whatever its mark.
InsertLevel(t) ==
  /\ pc[t] = "i_level"
  /\ LET c == next[cur[t].pred][cur[t].lvl] IN
     IF c.ptr = Null
       THEN InsertLevelDone(t, cur[t].pred, Null)
       ELSE Goto(t, "i_scan") /\ Scan(t, cur[t].lvl, cur[t].pred, c) /\ UNCHANGED arrays
  /\ UNCHANGED <<shared, args, history>>

\* Load curr->next[i] and act on the two marks: pred's (in curr) and curr's (in succ).
InsertScan(t) ==
  LET i    == cur[t].lvl
      curr == cur[t].curr
      succ == next[curr.ptr][i]
  IN
  /\ pc[t] = "i_scan"
  /\ \/ /\ curr.mark
        /\ InsertRetry(t) /\ UNCHANGED <<memory, args, history>>
     \/ /\ ~curr.mark /\ succ.mark                    \* curr is deleted: look for the first survivor
        /\ Goto(t, IF succ.ptr = Null THEN "i_splice" ELSE "i_live")
        /\ Survivor(t, succ.ptr)
        /\ UNCHANGED <<memory, args, arrays, history>>
     \/ /\ ~curr.mark /\ ~succ.mark /\ Before(curr.ptr, key[t])
        /\ IF succ.ptr = Null
             THEN InsertLevelDone(t, curr.ptr, Null)
             ELSE /\ Scan(t, i, curr.ptr, succ)
                  /\ UNCHANGED <<pc, arrays>>
        /\ UNCHANGED <<memory, args, history>>
     \/ /\ ~curr.mark /\ ~succ.mark /\ After(curr.ptr, key[t])
        /\ InsertLevelDone(t, cur[t].pred, curr.ptr)
        /\ UNCHANGED <<memory, args, history>>
     \/ /\ ~curr.mark /\ ~succ.mark /\ ~Before(curr.ptr, key[t]) /\ ~After(curr.ptr, key[t])
        /\ link[t] = 0
        /\ status' = [status EXCEPT ![node[t]] = "free"]        \* new_node->destroy
        /\ next' = [next EXCEPT ![node[t]] = [j \in Level |-> To(Null)]]
        /\ Return(t, Outcome("exists", {}))
        /\ UNCHANGED <<nkey, nheight>>
     \/ /\ ~curr.mark /\ ~succ.mark /\ ~Before(curr.ptr, key[t]) /\ ~After(curr.ptr, key[t])
        /\ link[t] > 0
        /\ Goto(t, "i_relink") /\ Enter(t, 0, HeadNode)   \* insert ignores the result
        /\ UNCHANGED <<memory, args, arrays, history>>
  /\ UNCHANGED <<counters, final>>

\* Mutant: the walk ends one node late, on the survivor's successor.
InsertLiveTooFar(t) ==
  LET n == next[cur[t].live][cur[t].lvl] IN
  /\ pc[t] = "i_live"
  /\ Survivor(t, n.ptr)
  /\ IF n.mark /\ n.ptr # Null THEN UNCHANGED pc ELSE Goto(t, "i_splice")
  /\ UNCHANGED <<shared, args, arrays, history>>

\* Load live->next[i]: a deleted node is stepped over, an undeleted one is the survivor.
InsertLive(t) ==
  LET live == cur[t].live
      n    == next[live][cur[t].lvl]
  IN
  /\ pc[t] = "i_live"
  /\ IF n.mark THEN Survivor(t, n.ptr) ELSE UNCHANGED cur
  /\ IF n.mark /\ n.ptr # Null THEN UNCHANGED pc ELSE Goto(t, "i_splice")
  /\ UNCHANGED <<shared, args, arrays, history>>

\* Mutant: level 0 keeps its corpses.
SplicedAbove(p, i, live) == IF i = 0 THEN next ELSE WithLink(p, i, To(live))
Spliced(p, i, live) == WithLink(p, i, To(live))

\* compare_exchange pred->next[i] from curr to the survivor.
InsertSplice(t) ==
  LET i == cur[t].lvl  p == cur[t].pred  live == cur[t].live IN
  /\ pc[t] = "i_splice"
  /\ IF Holds(p, i, cur[t].curr)
       THEN /\ next' = Spliced(p, i, live)
            /\ IF live = Null
                 THEN InsertLevelDone(t, p, Null)
                 ELSE /\ Goto(t, "i_scan")
                      /\ Scan(t, i, p, To(live))
                      /\ UNCHANGED arrays
       ELSE InsertRetry(t) /\ UNCHANGED next
  /\ UNCHANGED <<nodeInfo, counters, final, args, history>>

-----------------------------------------------------------------------------
\* insert

\* Choose a height, create the node, raise _height to cover it.
InsertBegin(t, k, h, n) ==
  /\ <<"insert", k>> \in Work[t]
  /\ status[n] = "free"
  /\ Start(t, k)
  /\ status'  = [status EXCEPT ![n] = "private"]
  /\ nkey'    = [nkey EXCEPT ![n] = k]
  /\ nheight' = [nheight EXCEPT ![n] = h]
  /\ next'    = [next EXCEPT ![n] = [i \in Level |-> To(Null)]]
  /\ node'    = [node EXCEPT ![t] = n]
  /\ maxHeight' = IF h > maxHeight THEN h ELSE maxHeight
  /\ Goto(t, "i_top")
  /\ UNCHANGED <<size, final, cur, arrays, link, visited>>

\* Store the forward pointers of the still private node, then compare_exchange at level 0.
InsertPublish(t) ==
  LET n == node[t]
      p == preds[t][0]
      forward == [next EXCEPT ![n] =
                    [i \in Level |-> IF i <= nheight[n] THEN To(succs[t][i]) ELSE @[i]]]
  IN
  /\ pc[t] = "i_publish"
  /\ IF Holds(p, 0, To(succs[t][0]))
       THEN /\ next' = [forward EXCEPT ![p][0] = To(n)]
            /\ status' = [status EXCEPT ![n] = "linked"]
            /\ Observe(t, key[t], n)
            /\ IF nheight[n] = 0
                 THEN Goto(t, "i_count") /\ UNCHANGED link
                 ELSE Goto(t, "i_check") /\ link' = [link EXCEPT ![t] = 1]
       ELSE next' = forward /\ Goto(t, "i_top") /\ UNCHANGED <<status, seen, link>>
  /\ UNCHANGED <<nkey, nheight, counters, final, key, node, cur, arrays, visited, calls, outcome>>

\* Load new_node->next[i]: linking stops once the node is being erased.
InsertCheck(t) ==
  /\ pc[t] = "i_check"
  /\ Goto(t, IF next[node[t]][link[t]].mark THEN "i_count" ELSE "i_link")
  /\ UNCHANGED <<shared, args, cur, arrays, history>>

\* compare_exchange preds[i]->next[i] from succs[i] to new_node; on failure search again.
InsertLink(t) ==
  LET i == link[t]  n == node[t]  p == preds[t][i] IN
  /\ pc[t] = "i_link"
  /\ IF Holds(p, i, To(succs[t][i]))
       THEN /\ next' = WithLink(p, i, To(n))
            /\ IF i = nheight[n]
                 THEN Goto(t, "i_count") /\ UNCHANGED link
                 ELSE Goto(t, "i_check") /\ link' = [link EXCEPT ![t] = i + 1]
       ELSE Goto(t, "i_top") /\ UNCHANGED <<next, link>>
  /\ UNCHANGED <<nodeInfo, counters, final, key, node, cur, arrays, visited, calls, history>>

\* Mutant: a plain store, which clears a mark that came first.
InsertRelinkStore(t) ==
  /\ pc[t] = "i_relink"
  /\ Goto(t, "i_check") /\ next' = WithLink(node[t], link[t], To(succs[t][link[t]]))
  /\ UNCHANGED <<nodeInfo, counters, final, args, cur, arrays, history>>

\* After the search, point new_node->next[i] at the new successor unless a mark got there first.
\* The load and the compare_exchange are one step: between them only a mark can change the field.
InsertRelink(t) ==
  LET i == link[t]  n == node[t] IN
  /\ pc[t] = "i_relink"
  /\ IF next[n][i].mark
       THEN Goto(t, "i_count") /\ UNCHANGED next
       ELSE Goto(t, "i_check") /\ next' = WithLink(n, i, To(succs[t][i]))
  /\ UNCHANGED <<nodeInfo, counters, final, args, cur, arrays, history>>

\* _size.fetch_add(1); return true
InsertCount(t) ==
  /\ pc[t] = "i_count"
  /\ size' = Up(size)
  /\ Return(t, Outcome("inserted", {}))
  /\ UNCHANGED <<memory, maxHeight, final>>

-----------------------------------------------------------------------------
\* erase, with find_delete_position as its search: it neither unlinks nor restarts.

\* Load _height.  Levels above it are not written by this search.
EraseBegin(t, k) ==
  /\ <<"erase", k>> \in Work[t]
  /\ Start(t, k)
  /\ Goto(t, "e_level")
  /\ Enter(t, maxHeight, HeadNode)
  /\ UNCHANGED <<shared, node, arrays, link, visited>>

\* Level i of the search ended between p and s.  After level 0 the victim is s if it has the key.
EraseLevelDone(t, p, s) ==
  LET i == cur[t].lvl IN
  IF i > 0
    THEN /\ Goto(t, "e_level")
         /\ preds' = [preds EXCEPT ![t][i] = p]
         /\ Enter(t, i - 1, p)
         /\ UNCHANGED <<args, succs, history>>
    ELSE IF s # Null /\ ~Before(s, key[t]) /\ ~After(s, key[t])
    THEN /\ Goto(t, IF nheight[s] > 0 THEN "e_mark" ELSE "e_claim")
         /\ preds' = [preds EXCEPT ![t][i] = p]
         /\ node' = [node EXCEPT ![t] = s]
         /\ Enter(t, nheight[s], HeadNode)
         /\ UNCHANGED <<key, succs, link, visited, calls, history>>
    ELSE Return(t, Outcome("missing", {}))

\* Load pred->next[i]; its mark is ignored.
EraseLevel(t) ==
  /\ pc[t] = "e_level"
  /\ LET c == next[cur[t].pred][cur[t].lvl] IN
     IF c.ptr = Null
       THEN EraseLevelDone(t, cur[t].pred, Null)
       ELSE /\ Goto(t, "e_scan") /\ Scan(t, cur[t].lvl, cur[t].pred, To(c.ptr))
            /\ UNCHANGED <<args, arrays, history>>
  /\ UNCHANGED shared

\* Load curr->next[i]: deleted nodes are skipped, smaller keys passed.
EraseScan(t) ==
  LET c    == cur[t].curr.ptr
      succ == next[c][cur[t].lvl]
      passed == IF succ.mark THEN cur[t].pred ELSE c
  IN
  /\ pc[t] = "e_scan"
  /\ IF ~succ.mark /\ ~Before(c, key[t])
       THEN EraseLevelDone(t, cur[t].pred, c)
     ELSE IF succ.ptr = Null
       THEN EraseLevelDone(t, passed, Null)
     ELSE /\ Scan(t, cur[t].lvl, passed, To(succ.ptr))
          /\ UNCHANGED <<pc, args, arrays, history>>
  /\ UNCHANGED shared

\* What the loop around compare_exchange_weak makes of next: without the loop it may do nothing.
WithMark(n, i) == WithLink(n, i, [ptr |-> next[n][i].ptr, mark |-> TRUE])
MarkingOnce(n, i) == {next, WithMark(n, i)}  \* mutant
Marking(n, i) == {WithMark(n, i)}

\* Set the mark of victim->next[i], top down, for the levels above 0.  Another eraser may have.
EraseMark(t) ==
  LET i == cur[t].lvl IN
  /\ pc[t] = "e_mark"
  /\ next' \in Marking(node[t], i)
  /\ Goto(t, IF i = 1 THEN "e_claim" ELSE "e_mark")
  /\ Enter(t, i - 1, HeadNode)
  /\ UNCHANGED <<nodeInfo, counters, final, args, arrays, history>>

\* Mutant: a thread that finds the mark set takes the node for its own.
EraseClaimUnowned(t) ==
  LET v == node[t] IN
  /\ pc[t] = "e_claim"
  /\ next' = WithMark(v, 0)
  /\ Observe(t, key[t], Null)
  /\ Goto(t, "e_unlink") /\ Enter(t, nheight[v], HeadNode)
  /\ UNCHANGED <<nodeInfo, counters, final, args, arrays, outcome>>

\* The mark of level 0 decides who erased the node.
EraseClaim(t) ==
  LET v == node[t] IN
  /\ pc[t] = "e_claim"
  /\ \/ /\ next[v][0].mark
        /\ Return(t, Outcome("missing", {}))
        /\ UNCHANGED next
     \/ /\ ~next[v][0].mark
        /\ next' = WithMark(v, 0)
        /\ Observe(t, key[t], Null)
        /\ Goto(t, "e_unlink")
        /\ Enter(t, nheight[v], HeadNode)
        /\ UNCHANGED <<args, arrays, outcome>>
  /\ UNCHANGED <<nodeInfo, counters, final>>

\* What a read of preds[i] yields.  An element find_delete_position did not write is whatever the
\* stack holds: here a null pointer or a node that has the level; a wild pointer ends the program.
PredAt(t, i) ==
  IF preds[t][i] # Uninit THEN {preds[t][i]}
  ELSE {HeadNode} \cup {n \in Node : status[n] # "free" /\ nheight[n] >= i}

\* compare_exchange preds[i]->next[i] from victim to its successor, top down; a failure is ignored.
\* The load of victim->next[i] is part of the step: the field is marked, hence frozen.
EraseUnlink(t) ==
  LET i == cur[t].lvl  v == node[t] IN
  /\ pc[t] = "e_unlink"
  /\ \E p \in PredAt(t, i) :
       next' = IF Holds(p, i, To(v)) THEN WithLink(p, i, To(next[v][i].ptr)) ELSE next
  /\ Goto(t, IF i = 0 THEN "e_retire" ELSE "e_unlink")
  /\ Enter(t, IF i = 0 THEN 0 ELSE i - 1, HeadNode)
  /\ UNCHANGED <<nodeInfo, counters, final, args, arrays, history>>

\* victim->retired = true, and push it on the retired list.
EraseRetire(t) ==
  /\ pc[t] = "e_retire"
  /\ retired' = <<node[t]>> \o retired
  /\ Goto(t, "e_count")
  /\ UNCHANGED <<memory, counters, freed, alive, args, cur, arrays, history>>

\* _size.fetch_sub(1); return true
EraseCount(t) ==
  /\ pc[t] = "e_count"
  /\ size' = Down(size)
  /\ Return(t, Outcome("erased", {}))
  /\ UNCHANGED <<memory, maxHeight, final>>

-----------------------------------------------------------------------------
\* find and contains: find_node.

FindBegin(t, k) ==
  /\ <<"find", k>> \in Work[t]
  /\ Start(t, k)
  /\ Goto(t, "f_level")
  /\ Enter(t, maxHeight, HeadNode)
  /\ UNCHANGED <<shared, node, arrays, link, visited>>

FindTop(t) ==
  /\ pc[t] = "f_top"
  /\ Goto(t, "f_level")
  /\ Enter(t, maxHeight, HeadNode)
  /\ UNCHANGED <<shared, args, arrays, history>>

FindLevelDone(t, p) ==
  LET i == cur[t].lvl IN
  IF i > 0
    THEN /\ Goto(t, "f_level")
         /\ Enter(t, i - 1, p)
         /\ UNCHANGED <<args, arrays, history>>
    ELSE Return(t, Outcome("missing", {}))

\* Load pred->next[i].
FindLevel(t) ==
  /\ pc[t] = "f_level"
  /\ LET c == next[cur[t].pred][cur[t].lvl] IN
     IF c.ptr = Null
       THEN FindLevelDone(t, cur[t].pred)
       ELSE /\ IF c.mark
                 THEN Goto(t, "f_top") /\ Enter(t, 0, HeadNode)
                 ELSE Goto(t, "f_scan") /\ Scan(t, cur[t].lvl, cur[t].pred, c)
            /\ UNCHANGED <<args, arrays, history>>
  /\ UNCHANGED shared

\* Load curr->next[i]: skip a deleted node, pass a smaller key, recheck an equal one.
FindScan(t) ==
  LET c    == cur[t].curr.ptr
      succ == next[c][cur[t].lvl]
      passed == IF succ.mark THEN cur[t].pred ELSE c
  IN
  /\ pc[t] = "f_scan"
  /\ IF ~succ.mark /\ After(c, key[t])
       THEN FindLevelDone(t, cur[t].pred)
     ELSE IF ~succ.mark /\ ~Before(c, key[t])
       THEN /\ Goto(t, "f_check") /\ UNCHANGED cur
            /\ UNCHANGED <<args, arrays, history>>
     ELSE IF succ.ptr = Null
       THEN FindLevelDone(t, passed)
     ELSE /\ Scan(t, cur[t].lvl, passed, To(succ.ptr))
          /\ UNCHANGED <<pc, args, arrays, history>>
  /\ UNCHANGED shared

\* Load node->next[0]: deletion marks upper levels before level 0.
FindCheck(t) ==
  LET c == cur[t].curr.ptr IN
  /\ pc[t] = "f_check"
  /\ IF next[c][0].mark
       THEN /\ Goto(t, "f_top") /\ Enter(t, 0, HeadNode)
            /\ UNCHANGED <<args, arrays, history>>
       ELSE Return(t, Outcome("found", {c}))
  /\ UNCHANGED shared

-----------------------------------------------------------------------------
\* for_each: a walk along level 0 that calls fn on the nodes it sees unmarked.

\* fn is called on a node whose next[0] is not marked.
ShownAlways(n) == {n}  \* mutant
Shown(n) == IF next[n][0].mark THEN {} ELSE {n}

EachGo(t, p, vis) ==
  IF p = Null
    THEN Return(t, Outcome("visited", vis))
    ELSE /\ Goto(t, "w_scan")
         /\ Scan(t, 0, HeadNode, To(p))
         /\ visited' = [visited EXCEPT ![t] = vis]
         /\ UNCHANGED <<key, node, arrays, link, calls, history>>

EachBegin(t) ==
  /\ <<"for_each", Null>> \in Work[t]
  /\ Start(t, Null)
  /\ Goto(t, "w_scan")
  /\ Scan(t, 0, HeadNode, To(next[HeadNode][0].ptr))
  /\ UNCHANGED <<shared, node, arrays, link, visited>>

EachScan(t) ==
  LET c == cur[t].curr.ptr IN
  /\ pc[t] = "w_scan"
  /\ IF c = Null
       THEN Return(t, Outcome("visited", visited[t]))
       ELSE EachGo(t, next[c][0].ptr, visited[t] \cup Shown(c))
  /\ UNCHANGED shared

-----------------------------------------------------------------------------
\* The nodes on the chain of level i.
Chain(i) ==
  LET hop[m \in 0 .. Cardinality(Node)] ==
        IF m = 0 THEN {HeadNode}
        ELSE hop[m - 1] \cup ({next[p][i].ptr : p \in hop[m - 1]} \ {Null})
  IN hop[Cardinality(Node)] \ {HeadNode}

Retired == {retired[j] : j \in 1 .. Len(retired)}

\* How often the destructor destroys n: on the level-0 chain if n is not retired, and once for each
\* entry of the retired list.
Entries(n) == Cardinality({j \in 1 .. Len(retired) : retired[j] = n})
DestructionsOfBoth(n) == Entries(n) + IF n \in Chain(0) THEN 1 ELSE 0  \* mutant: flag ignored
Destructions(n) == Entries(n) + IF n \in Chain(0) \ Retired THEN 1 ELSE 0

\* The destructor, which runs when every call has returned.
Destroy ==
  /\ alive
  /\ \A t \in Thread : pc[t] = "idle"
  /\ alive' = FALSE
  /\ freed' = [n \in Node |-> Destructions(n)]
  /\ UNCHANGED <<memory, counters, retired, pc, args, cur, arrays, history>>

Step(t) ==
  \/ \E k \in Key, h \in Level, n \in Node : InsertBegin(t, k, h, n)
  \/ \E k \in Key : EraseBegin(t, k) \/ FindBegin(t, k)
  \/ EachBegin(t) \/ EachScan(t)
  \/ InsertTop(t) \/ InsertLevel(t) \/ InsertScan(t) \/ InsertLive(t)
  \/ InsertSplice(t) \/ InsertPublish(t) \/ InsertCheck(t) \/ InsertLink(t) \/ InsertRelink(t)
  \/ InsertCount(t)
  \/ EraseLevel(t) \/ EraseScan(t) \/ EraseMark(t) \/ EraseClaim(t)
  \/ EraseUnlink(t) \/ EraseRetire(t) \/ EraseCount(t)
  \/ FindTop(t) \/ FindLevel(t) \/ FindScan(t) \/ FindCheck(t)

Next == (\E t \in Thread : Step(t)) \/ Destroy

Spec == Init /\ [][Next]_vars

\* Every thread keeps running: a call in progress takes its next step.
Go(t) == pc[t] # "idle" /\ Step(t)
FairSpec == Spec /\ \A t \in Thread : WF_vars(Go(t))
-----------------------------------------------------------------------------
(* Properties *)

\* Every pointer of a level leads to a linked node with a larger key, also out of a node that is
\* erased, unlinked or not published yet: a thread that stands on any node can walk off it, no walk
\* goes round in circles and none meets a key twice.
Leads(p, q) == q = Null \/ (status[q] = "linked" /\ (p = HeadNode \/ nkey[p] < nkey[q]))
LevelSorted == \A p \in Pred, i \in Level : Leads(p, next[p][i].ptr)

\* "lose a live node": every live node is on the chain of level 0, whatever the inserts and erases of
\* its neighbours do, and no two live nodes have one key.
NoLiveNodeLost == Live \subseteq Chain(0)
UniqueKeys == \A m, n \in Live : nkey[m] = nkey[n] => m = n

\* "Deletion marks upper levels before level 0": a node live at level 0 may be marked above, a node
\* dead at level 0 is marked everywhere, so an upper level that looks live is.
MarkOrder == \A n \in Node : next[n][0].mark => \A i \in 0 .. nheight[n] : next[n][i].mark

\* _size counts the live nodes, give or take the calls that have taken effect and not counted yet.
Uncounted(S) == {t \in Thread : pc[t] \in S}
Published == {t \in Thread : pc[t] \in {"i_check", "i_link", "i_relink", "i_count"} \/ link[t] > 0}
SizeAccounts ==
  (size + Cardinality(Published)) % SizeMod
    = (Cardinality(Live) + Cardinality(Uncounted({"e_unlink", "e_retire", "e_count"}))) % SizeMod

\* An erased node is pushed on the retired list once, by the thread that claimed it, and is no longer
\* live then; so the destructor destroys every node exactly once, wherever a lost unlink left it.
RetiredOnce == /\ \A i, j \in 1 .. Len(retired) : retired[i] = retired[j] => i = j
               /\ Retired \cap Live = {}
FreedOnce == ~alive => \A n \in Node : freed[n] = IF status[n] = "linked" THEN 1 ELSE 0

\* A marked next pointer is frozen: erase marked it, and neither a helper nor the insert that is still
\* linking the node changes it again ("Do not clear a deletion mark that raced with the failed link").
FrozenLinks ==
  [][\A n \in Node, i \in Level :
       status[n] = "linked" /\ next[n][i].mark => next'[n][i] = next[n][i]]_vars

\* The list implements the concurrent map: a call takes effect at one step between call and return,
\* and what it returns was true at some instant of the call.
Done(t) == link[t] > 0 \/ pc[t] \in {"i_count", "e_unlink", "e_retire", "e_count"}
Operation(t) ==
  CASE pc[t] = "idle"   -> "none"
    [] pc[t] = "w_scan" -> "for_each"
    [] pc[t] \in {"f_top", "f_level", "f_scan", "f_check"} -> "find"
    [] pc[t] \in {"e_level", "e_scan", "e_mark", "e_claim", "e_unlink", "e_retire", "e_count"} -> "erase"
    [] OTHER            -> "insert"
Map == INSTANCE ConcurrentMap WITH
         content <- [k \in Key |-> Binding(k)],
         call    <- [t \in Thread |-> [op |-> Operation(t), key |-> key[t], done |-> Done(t)]]
ImplementsMap == Map!Spec
StepsOfMap == [][Map!Next]_Map!mapVars

\* Every call returns: insert does not spin on a corpse at level 0 or on a link that never succeeds,
\* find does not retry for ever.
CallsReturn == \A t \in Thread : pc[t] # "idle" ~> pc[t] = "idle"

\* Erase takes preds[i] for the predecessor of its victim at every level the victim has.
PredsKnown == \A t \in Thread : pc[t] = "e_unlink" => preds[t][cur[t].lvl] # Uninit

\* With no call in progress, each level links every live node that has it ("Link higher levels").
IndexComplete ==
  (\A t \in Thread : pc[t] = "idle") =>
    \A i \in Level : {n \in Live : nheight[n] >= i} \subseteq Chain(i)
=============================================================================
