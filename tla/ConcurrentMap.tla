--------------------------- MODULE ConcurrentMap ---------------------------
(***************************************************************************)
(* What concurrent_skiplist promises its callers, with no list in it: a    *)
(* map from keys to nodes (the key/value pair an insert brought in) that   *)
(* threads call concurrently.  insert and erase take effect in one atomic  *)
(* step between call and return.  A call that changes nothing (find,       *)
(* contains, an insert that meets its key, an erase that does not) may     *)
(* only report what was true at some instant of the call: seen[t][k] is    *)
(* the set of bindings key k has had since t's call began.  for_each       *)
(* promises the same key by key, but no single snapshot.                   *)
(***************************************************************************)
CONSTANTS
  Thread,  \* the calling threads
  Node,    \* the key/value pairs, named by the node that carries them
  Key,     \* the keys
  Null     \* no binding

VARIABLES
  content,  \* [Key -> Node or Null]: the map
  call,     \* [Thread -> Call]: the operation in progress, if any
  seen,     \* bindings observed since the call began; {} for keys of no concern
  outcome   \* [Thread -> Outcome]: what the thread's last call returned

mapVars == <<content, call, seen, outcome>>

NoCall == [op |-> "none", key |-> Null, done |-> FALSE]
Outcome(kind, nodes) == [kind |-> kind, nodes |-> nodes]

Init ==
  /\ content = [k \in Key |-> Null]
  /\ call    = [t \in Thread |-> NoCall]
  /\ seen    = [t \in Thread |-> [k \in Key |-> {}]]
  /\ outcome = [t \in Thread |-> Outcome("none", {})]

Concern(op, key) == IF op = "for_each" THEN Key ELSE {key}

Invoke(t, op, key) ==
  /\ call[t] = NoCall
  /\ call' = [call EXCEPT ![t] = [op |-> op, key |-> key, done |-> FALSE]]
  /\ seen' = [seen EXCEPT ![t] =
                [k \in Key |-> IF k \in Concern(op, key) THEN {content[k]} ELSE {}]]
  /\ outcome' = [outcome EXCEPT ![t] = Outcome("none", {})]
  /\ UNCHANGED content

\* A binding of key changes to v: every call concerned with key may have seen it;
\* the call that makes the change needs to observe nothing more.
Bind(t, key, v) ==
  /\ content' = [content EXCEPT ![key] = v]
  /\ call'    = [call EXCEPT ![t].done = TRUE]
  /\ seen'    = [u \in Thread |-> [k \in Key |->
                  CASE u = t                                -> {}
                    [] u # t /\ k = key /\ seen[u][k] # {}  -> seen[u][k] \cup {v}
                    [] OTHER                                 -> seen[u][k]]]
  /\ UNCHANGED outcome

Insert(t) ==
  /\ call[t].op = "insert" /\ ~call[t].done
  /\ content[call[t].key] = Null
  /\ \E n \in Node : Bind(t, call[t].key, n)

Erase(t) ==
  /\ call[t].op = "erase" /\ ~call[t].done
  /\ content[call[t].key] # Null
  /\ Bind(t, call[t].key, Null)

\* The outcomes the call of t may return.
Justified(t, o) ==
  LET c == call[t] IN
  \/ o = Outcome("inserted", {}) /\ c.op = "insert" /\ c.done
  \/ o = Outcome("erased", {})   /\ c.op = "erase"  /\ c.done
  \/ /\ ~c.done
     /\ \/ o = Outcome("exists", {})   /\ c.op = "insert" /\ seen[t][c.key] \cap Node # {}
        \/ o = Outcome("missing", {})  /\ c.op \in {"erase", "find"} /\ Null \in seen[t][c.key]
        \/ c.op = "find" /\ \E n \in seen[t][c.key] \cap Node : o = Outcome("found", {n})
        \/ /\ c.op = "for_each"
           /\ o.kind = "visited"
           /\ \E pick \in [Key -> Node \cup {Null}] :
                /\ \A k \in Key : pick[k] \in seen[t][k]
                /\ o.nodes = {pick[k] : k \in Key} \ {Null}

Return(t, o) ==
  /\ call[t] # NoCall
  /\ Justified(t, o)
  /\ outcome' = [outcome EXCEPT ![t] = o]
  /\ call'    = [call EXCEPT ![t] = NoCall]
  /\ seen'    = [seen EXCEPT ![t] = [k \in Key |-> {}]]
  /\ UNCHANGED content

Outcomes ==
  {Outcome(kind, {}) : kind \in {"inserted", "erased", "exists", "missing"}}
    \cup {Outcome("found", {n}) : n \in Node}
    \cup {Outcome("visited", s) : s \in SUBSET Node}

Next ==
  \E t \in Thread :
    \/ \E op \in {"insert", "erase", "find"}, key \in Key : Invoke(t, op, key)
    \/ Invoke(t, "for_each", Null)
    \/ Insert(t)
    \/ Erase(t)
    \/ \E o \in Outcomes : Return(t, o)

Spec == Init /\ [][Next]_mapVars
=============================================================================
