---------------------- MODULE ConcurrentSkiplistProofs ----------------------
(***************************************************************************)
(* The safety of ConcurrentSkiplist for any number of threads, keys, nodes *)
(* and levels.  LevelSorted, MarkOrder and RetiredOnce are not inductive   *)
(* alone: a compare-and-swap keeps them because of what the thread knows   *)
(* of the pointers it compares and swaps, so IndInv adds, per thread, that *)
(* its predecessors lie before and its successors behind its key on linked *)
(* nodes (InsertOK, SearchOK), that erase marks top down (EraseOK), and    *)
(* that no two threads own one node (Exclusive).                           *)
(*                                                                         *)
(* The first part shows that every action keeps TypeOK: what it needs of   *)
(* its thread beside the types is LocalInv, at which pc which local names  *)
(* a node, which elements of preds[] are written and how far the links of  *)
(* a node may go.                                                          *)
(*                                                                         *)
(* The second is one lemma per group of actions (Fine: the step keeps what *)
(* holds of its thread, leaves the shared memory sound and takes no node   *)
(* of another thread), one lemma for all other threads (OtherThreadOK),    *)
(* and the induction in NextInv.                                           *)
(***************************************************************************)
EXTENDS ConcurrentSkiplist, WellFoundedInduction, FiniteSetTheorems, TLAPS

InsertPc == {"i_top", "i_level", "i_scan", "i_live", "i_splice", "i_publish", "i_check", "i_link",
             "i_relink", "i_count"}
SearchPc == {"i_level", "i_scan", "i_live", "i_splice"}
VictimPc == {"e_mark", "e_claim", "e_unlink", "e_retire", "e_count"}

\* What a thread's locals satisfy at each pc, whatever the shared memory holds.
LocalOK(t) ==
  /\ pc[t] \in InsertPc => node[t] \in Node /\ key[t] \in Key
  /\ pc[t] \in VictimPc => node[t] \in Node
  /\ pc[t] \in {"i_scan", "i_live", "i_splice", "e_scan", "f_scan", "f_check"} => cur[t].curr.ptr \in Node
  /\ pc[t] \in {"i_live", "i_splice"} => ~cur[t].curr.mark
  /\ pc[t] = "i_live" => cur[t].live \in Node
  /\ pc[t] = "e_mark" => cur[t].lvl > 0
  /\ pc[t] \in {"i_check", "i_link", "i_relink"} => link[t] > 0
  /\ pc[t] \in SearchPc => \A i \in Level : i > cur[t].lvl => preds[t][i] # Uninit
  /\ pc[t] = "i_publish" \/ link[t] > 0 => \A i \in Level : preds[t][i] # Uninit
  /\ pc[t] \in InsertPc => link[t] <= nheight[node[t]]
LocalInv == \A t \in Thread : LocalOK(t)

\* The levels are the naturals up to MaxLevel.
LEMMA LevelFacts == /\ 0 \in Level /\ MaxLevel \in Level /\ Level \subseteq Nat
                    /\ \A i \in Level : i > 0 => i - 1 \in Level
                    /\ \A i, j \in Level : i < j => i + 1 \in Level
  BY LevelAssumption DEF Level

\* The values locals start from.
LEMMA ConstantTypes ==
  /\ \A p \in NodePtr : To(p) \in Link
  /\ NoPreds \in [Level -> Pred \cup {Uninit}]
  /\ NoSuccs \in [Level -> NodePtr]
  /\ Null \in NodePtr /\ HeadNode \in Pred
  BY LevelFacts DEF To, Link, NoPreds, NoSuccs, NodePtr, Pred

\* A key is bound to a node or to nothing.
LEMMA BindingType == ASSUME NEW k PROVE Binding(k) \in NodePtr
  BY DEF Binding, Live, NodePtr

\* The cursor keeps its type wherever it moves.
LEMMA CursorType ==
  ASSUME TypeThread, NEW t \in Thread
  PROVE  /\ \A i \in Level, p \in Pred, c \in Link : Scan(t, i, p, c) => cur' \in [Thread -> Cursor]
         /\ \A i \in Level, p \in Pred : Enter(t, i, p) => cur' \in [Thread -> Cursor]
         /\ \A n \in NodePtr : Survivor(t, n) => cur' \in [Thread -> Cursor]
         /\ cur[t].lvl \in Level /\ cur[t].pred \in Pred /\ cur[t].curr \in Link
         /\ cur[t].curr.ptr \in NodePtr /\ cur[t].live \in NodePtr /\ cur[t].curr.mark \in BOOLEAN
  <1>1. cur[t].lvl \in Level /\ cur[t].pred \in Pred /\ cur[t].curr \in Link /\ cur[t].live \in NodePtr
    BY DEF TypeThread, Cursor
  <1>2. cur[t].curr.ptr \in NodePtr /\ cur[t].curr.mark \in BOOLEAN
    BY <1>1 DEF Link
  <1>3. \A i \in Level, p \in Pred, c \in Link : Scan(t, i, p, c) => cur' \in [Thread -> Cursor]
    BY DEF TypeThread, Cursor, Scan, NodePtr
  <1>4. \A n \in NodePtr : Survivor(t, n) => cur' \in [Thread -> Cursor]
    BY <1>1 DEF TypeThread, Cursor, Survivor
  <1> QED BY <1>1, <1>2, <1>3, <1>4, ConstantTypes DEF Enter

\* A call that returns leaves its thread typed, whatever it returns.
LEMMA ReturnType ==
  ASSUME TypeThread, TypeHistory, NEW t \in Thread, NEW o \in OutcomeType, Return(t, o)
  PROVE  TypeThread' /\ TypeHistory'
  BY CursorType, LevelFacts, ConstantTypes
     DEF TypeThread, TypeHistory, Return, Goto, PcType

\* The outcomes of the model are outcomes.
LEMMA OutcomeTypes ==
  /\ \A k \in {"none", "inserted", "exists", "erased", "missing"} : Outcome(k, {}) \in OutcomeType
  /\ \A n \in Node : Outcome("found", {n}) \in OutcomeType
  /\ \A S \in SUBSET Node : Outcome("visited", S) \in OutcomeType
  BY DEF Outcome, OutcomeType

\* What a thread loads is a link.
LEMMA ReadType ==
  ASSUME TypeMemory, NEW p \in Pred, NEW i \in Level
  PROVE  /\ next[p][i] \in Link /\ next[p][i].ptr \in NodePtr /\ next[p][i].mark \in BOOLEAN
         /\ To(next[p][i].ptr) \in Link
  BY ConstantTypes DEF TypeMemory, Link

\* What an action that leaves a group of variables alone leaves typed.
LEMMA FrameType ==
  /\ TypeMemory /\ TypeShared /\ UNCHANGED shared => TypeMemory' /\ TypeShared'
  /\ TypeShared /\ UNCHANGED <<counters, final>> => TypeShared'
  /\ TypeMemory /\ UNCHANGED memory => TypeMemory'
  /\ TypeHistory /\ UNCHANGED history => TypeHistory'
  BY DEF TypeMemory, TypeShared, TypeHistory, shared, memory, nodeInfo, counters, final, history

\* Writing one next pointer keeps the list typed.
LEMMA WriteType ==
  ASSUME TypeMemory, NEW p \in Pred, NEW i \in Level, NEW v \in Link, next' = WithLink(p, i, v), UNCHANGED nodeInfo
  PROVE  TypeMemory'
  BY DEF TypeMemory, WithLink, nodeInfo

\* The end of a level in insert's search.
LEMMA InsertLevelDoneType ==
  ASSUME TypeThread, NEW t \in Thread, NEW p \in Pred, NEW s \in NodePtr, InsertLevelDone(t, p, s), UNCHANGED args
  PROVE  TypeThread'
  <1>1. cur' \in [Thread -> Cursor]
    BY CursorType, LevelFacts, ConstantTypes DEF InsertLevelDone
  <1>2. pc' \in [Thread -> PcType]
    BY DEF InsertLevelDone, Goto, TypeThread, PcType
  <1>3. preds' \in [Thread -> [Level -> Pred \cup {Uninit}]] /\ succs' \in [Thread -> [Level -> NodePtr]]
    BY CursorType DEF InsertLevelDone, TypeThread
  <1> QED BY <1>1, <1>2, <1>3 DEF TypeThread, args

\* The begin of a call.
LEMMA StartType ==
  ASSUME TypeThread, TypeHistory, NEW t \in Thread, NEW k \in Key \cup {Null}, Start(t, k)
  PROVE  /\ calls' \in [Thread -> 0 .. MaxCalls] /\ key' \in [Thread -> Key \cup {Null}]
         /\ TypeHistory'
  BY BindingType, OutcomeTypes, CallsAssumption DEF TypeThread, TypeHistory, Start, NoOutcome

\* The history of what calls may have seen.
LEMMA ObserveType ==
  ASSUME TypeHistory, NEW t \in Thread, NEW k, NEW v \in NodePtr, Observe(t, k, v)
  PROVE  seen' \in [Thread -> [Key -> SUBSET NodePtr]]
  BY DEF TypeHistory, Observe

\* insert keeps the types.
LEMMA InsertType ==
  ASSUME TypeOK, LocalInv, NEW t \in Thread
  PROVE  /\ \A k \in Key, h \in Level, n \in Node : InsertBegin(t, k, h, n) => TypeOK'
         /\ InsertTop(t) => TypeOK'
         /\ InsertLevel(t) => TypeOK'
         /\ InsertScan(t) => TypeOK'
         /\ InsertLive(t) => TypeOK'
         /\ InsertSplice(t) => TypeOK'
         /\ InsertPublish(t) => TypeOK'
         /\ InsertCheck(t) => TypeOK'
         /\ InsertLink(t) => TypeOK'
         /\ InsertRelink(t) => TypeOK'
         /\ InsertCount(t) => TypeOK'
  <1> USE DEF TypeOK
  <1> DEFINE i == cur[t].lvl
             n == node[t]
  <1>0. LocalOK(t)
    BY DEF LocalInv
  <1>1. \A k \in Key, h \in Level, m \in Node : InsertBegin(t, k, h, m) => TypeOK'
    <2> SUFFICES ASSUME NEW k \in Key, NEW h \in Level, NEW m \in Node, InsertBegin(t, k, h, m)
                 PROVE  TypeOK'
      OBVIOUS
    <2> USE DEF InsertBegin
    <2>1. TypeMemory'
      BY ConstantTypes DEF TypeMemory, Pred
    <2>2. TypeShared'
      BY DEF TypeShared, final
    <2>3. TypeThread' /\ TypeHistory'
      BY StartType DEF TypeThread, Goto, PcType, NodePtr, arrays
    <2> QED BY <2>1, <2>2, <2>3
  <1>2. ASSUME InsertTop(t) PROVE TypeOK'
    BY <1>2, LevelFacts, ConstantTypes, CursorType, FrameType
       DEF InsertTop, TypeShared, TypeThread, Goto, PcType, args
  <1>3. ASSUME InsertLevel(t) PROVE TypeOK'
    <2> DEFINE c == next[cur[t].pred][i]
    <2>1. c \in Link /\ c.ptr \in NodePtr
      BY ReadType, CursorType
    <2>2. CASE c.ptr = Null
      BY <1>3, <2>2, InsertLevelDoneType, CursorType, ConstantTypes, FrameType DEF InsertLevel
    <2>3. CASE c.ptr # Null
      BY <1>3, <2>1, <2>3, CursorType, ConstantTypes, FrameType
         DEF InsertLevel, TypeThread, Goto, PcType, args, arrays
    <2> QED BY <2>2, <2>3
  <1>4. ASSUME InsertScan(t) PROVE TypeOK'
    <2> DEFINE c == cur[t].curr.ptr
               succ == next[c][i]
    <2> USE <1>4 DEF InsertScan
    <2>1. pc[t] = "i_scan" /\ c \in Node /\ c \in Pred /\ c \in NodePtr /\ n \in Node
      BY <1>0 DEF LocalOK, Pred, NodePtr, InsertPc
    <2>1a. Before(c, key[t]) => ~After(c, key[t])
      <3>1. nkey[c] \in Int /\ key[t] \in Int
        BY <2>1, <1>0, KeyAssumption DEF LocalOK, InsertPc, TypeMemory
      <3> QED BY <3>1, SMTT(30) DEF Before, After
    <2>2. succ \in Link /\ succ.ptr \in NodePtr /\ i \in Level
      BY <2>1, ReadType, CursorType
    <2>3. TypeShared'
      BY FrameType
    <2>4. CASE cur[t].curr.mark
      BY <2>4, <2>3, CursorType, FrameType, LevelFacts, ConstantTypes
         DEF InsertRetry, TypeThread, Goto, PcType, args, arrays
    <2>5. CASE ~cur[t].curr.mark /\ succ.mark
      BY <2>5, <2>3, <2>2, CursorType, FrameType DEF TypeThread, Goto, PcType, args, arrays
    <2>6. CASE ~cur[t].curr.mark /\ ~succ.mark /\ Before(c, key[t])
      <3>1. TypeMemory' /\ TypeHistory'
        BY <2>6, <2>1a, FrameType
      <3>2. CASE succ.ptr = Null
        BY <2>6, <3>1, <3>2, <2>1, <2>1a, <2>3, ConstantTypes, InsertLevelDoneType
      <3>3. CASE succ.ptr # Null
        BY <2>6, <3>1, <3>3, <2>1, <2>1a, <2>2, <2>3, CursorType DEF TypeThread, args, arrays
      <3> QED BY <3>2, <3>3
    <2>7. CASE ~cur[t].curr.mark /\ ~succ.mark /\ ~Before(c, key[t]) /\ After(c, key[t])
      BY <2>7, <2>1, <2>3, FrameType, CursorType, InsertLevelDoneType
    <2>8. CASE /\ ~cur[t].curr.mark /\ ~succ.mark /\ ~Before(c, key[t]) /\ ~After(c, key[t])
               /\ link[t] = 0
      <3>1. TypeMemory'
        <4>1. /\ status' = [status EXCEPT ![n] = "free"]
              /\ next' = [next EXCEPT ![n] = [j \in Level |-> To(Null)]]
              /\ UNCHANGED <<nkey, nheight>>
          BY <2>8, SMTT(30)
        <4> QED BY <4>1, <2>1, ConstantTypes DEF TypeMemory, Pred
      <3>2. TypeThread' /\ TypeHistory'
        BY <2>8, ReturnType, OutcomeTypes, SMTT(30)
      <3> QED BY <2>3, <3>1, <3>2
    <2>9. CASE /\ ~cur[t].curr.mark /\ ~succ.mark /\ ~Before(c, key[t]) /\ ~After(c, key[t])
               /\ link[t] # 0
      BY <2>9, <2>3, FrameType, CursorType, LevelFacts, ConstantTypes
         DEF TypeThread, Goto, PcType, args, arrays
    <2> QED BY <2>4, <2>5, <2>6, <2>7, <2>8, <2>9
  <1>5. ASSUME InsertLive(t) PROVE TypeOK'
    <2> DEFINE m == next[cur[t].live][i]
    <2>1. m.ptr \in NodePtr
      BY <1>0, <1>5, ReadType, CursorType DEF LocalOK, InsertLive, Pred
    <2> QED BY <1>5, <2>1, FrameType, CursorType
               DEF InsertLive, TypeThread, Goto, PcType, args, arrays
  <1>6. ASSUME InsertSplice(t) PROVE TypeOK'
    <2> DEFINE p == cur[t].pred
               live == cur[t].live
    <2>1. To(live) \in Link /\ p \in Pred /\ i \in Level /\ live \in NodePtr
      BY CursorType, ConstantTypes
    <2>2. TypeMemory'
      BY <1>6, <2>1, WriteType, FrameType DEF InsertSplice, Spliced, TypeMemory, nodeInfo
    <2>3. TypeShared' /\ TypeHistory'
      BY <1>6, FrameType DEF InsertSplice
    <2>4. TypeThread'
      <3>1. CASE ~Holds(p, i, cur[t].curr)
        BY <1>6, <3>1, LevelFacts, ConstantTypes, CursorType
           DEF InsertSplice, InsertRetry, TypeThread, Goto, PcType, args, arrays
      <3>2. CASE Holds(p, i, cur[t].curr) /\ live = Null
        BY <1>6, <3>2, <2>1, InsertLevelDoneType, ConstantTypes DEF InsertSplice
      <3>3. CASE Holds(p, i, cur[t].curr) /\ live # Null
        BY <1>6, <3>3, <2>1, CursorType
           DEF InsertSplice, TypeThread, Goto, PcType, args, arrays
      <3> QED BY <3>1, <3>2, <3>3
    <2> QED BY <2>2, <2>3, <2>4
  <1>7. ASSUME InsertPublish(t) PROVE TypeOK'
    <2> USE <1>7 DEF InsertPublish
    <2> DEFINE p == preds[t][0]
               forward == [next EXCEPT ![n] =
                    [j \in Level |-> IF j <= nheight[n] THEN To(succs[t][j]) ELSE @[j]]]
    <2>1. n \in Node /\ n \in NodePtr /\ n \in Pred /\ p \in Pred /\ key[t] \in Key
      BY <1>0, LevelFacts DEF LocalOK, InsertPc, TypeThread, Pred, NodePtr
    <2>2. [j \in Level |-> IF j <= nheight[n] THEN To(succs[t][j]) ELSE next[n][j]] \in [Level -> Link]
      BY <2>1, ReadType, ConstantTypes DEF TypeThread
    <2>3. forward \in [Pred -> [Level -> Link]]
      BY <2>1, <2>2 DEF TypeMemory
    <2>4. [forward EXCEPT ![p][0] = To(n)] \in [Pred -> [Level -> Link]]
      BY <2>1, <2>3, ConstantTypes, LevelFacts
    <2>5. TypeMemory'
      BY <2>1, <2>3, <2>4 DEF TypeMemory
    <2>6. TypeHistory'
      BY <2>1, ObserveType DEF TypeHistory
    <2>7. TypeShared'
      BY FrameType
    <2>8. TypeThread'
      <3>1. nheight[n] \in Level /\ (nheight[n] # 0 => 1 \in Level)
        BY <2>1, LevelAssumption DEF TypeMemory, Level
      <3> QED BY <3>1 DEF TypeThread, Goto, PcType, arrays
    <2> QED BY <2>5, <2>6, <2>7, <2>8
  <1>8. ASSUME InsertCheck(t) PROVE TypeOK'
    BY <1>8, FrameType DEF InsertCheck, TypeThread, Goto, PcType, args, arrays
  <1>9. ASSUME InsertLink(t) PROVE TypeOK'
    <2> USE <1>9 DEF InsertLink
    <2>1. /\ n \in Node /\ link[t] \in Level /\ preds[t][link[t]] \in Pred
          /\ nheight[n] \in Level /\ link[t] <= nheight[n] /\ To(n) \in Link
      <3>1. n \in Node /\ link[t] <= nheight[n] /\ link[t] > 0
        BY <1>0 DEF LocalOK, InsertPc
      <3>2. link[t] \in Level /\ nheight[n] \in Level /\ To(n) \in Link
        BY <3>1, ConstantTypes DEF TypeThread, TypeMemory, NodePtr
      <3>3. preds[t][link[t]] # Uninit /\ preds[t][link[t]] \in Pred \cup {Uninit}
        BY <1>0, <3>1, <3>2 DEF LocalOK, TypeThread
      <3> QED BY <3>1, <3>2, <3>3
    <2>2. TypeMemory'
      BY <2>1, WriteType, FrameType DEF TypeMemory, nodeInfo
    <2>3. TypeShared' /\ TypeHistory'
      BY FrameType
    <2>4. link[t] # nheight[n] => link[t] + 1 \in Level
      BY <2>1, LevelAssumption DEF Level
    <2>5. TypeThread'
      BY <2>4 DEF TypeThread, Goto, PcType, arrays
    <2> QED BY <2>2, <2>3, <2>5
  <1>10. ASSUME InsertRelink(t) PROVE TypeOK'
    <2> USE <1>10 DEF InsertRelink
    <2>1. n \in Node /\ n \in Pred /\ link[t] \in Level /\ To(succs[t][link[t]]) \in Link
      BY <1>0, ConstantTypes DEF LocalOK, InsertPc, TypeThread, Pred
    <2>2. TypeMemory'
      BY <2>1, WriteType DEF TypeMemory, nodeInfo
    <2>3. TypeShared' /\ TypeHistory'
      BY FrameType
    <2> QED BY <2>2, <2>3 DEF TypeThread, Goto, PcType, args, arrays
  <1>11. ASSUME InsertCount(t) PROVE TypeOK'
    <2>1. TypeThread' /\ TypeHistory'
      BY <1>11, ReturnType, OutcomeTypes DEF InsertCount
    <2>2. TypeMemory'
      BY <1>11, FrameType DEF InsertCount
    <2>3. TypeShared'
      BY <1>11, SizeAssumption DEF InsertCount, TypeShared, Up, final
    <2> QED BY <2>1, <2>2, <2>3
  <1> QED BY <1>1, <1>2, <1>3, <1>4, <1>5, <1>6, <1>7, <1>8, <1>9, <1>10, <1>11

\* The end of a level in erase's search.
LEMMA EraseLevelDoneType ==
  ASSUME TypeMemory, TypeThread, TypeHistory, NEW t \in Thread, NEW p \in Pred, NEW s \in NodePtr,
         EraseLevelDone(t, p, s)
  PROVE  TypeThread' /\ TypeHistory'
  <1> DEFINE i == cur[t].lvl
  <1>1. CASE i > 0
    <2>1. cur' \in [Thread -> Cursor] /\ i \in Level
      BY <1>1, CursorType, LevelFacts DEF EraseLevelDone
    <2>2. preds' \in [Thread -> [Level -> Pred \cup {Uninit}]] /\ pc' \in [Thread -> PcType]
      <3>1. preds' = [preds EXCEPT ![t][i] = p] /\ Goto(t, "e_level")
        BY <1>1 DEF EraseLevelDone
      <3> QED BY <2>1, <3>1 DEF TypeThread, Goto, PcType
    <2> QED BY <1>1, <2>1, <2>2, FrameType DEF EraseLevelDone, TypeThread, args
  <1>2. CASE ~(i > 0) /\ s # Null /\ ~Before(s, key[t]) /\ ~After(s, key[t])
    <2>1. s \in Node /\ nheight[s] \in Level
      BY <1>2 DEF NodePtr, TypeMemory
    <2>2. cur' \in [Thread -> Cursor] /\ i \in Level
      BY <1>2, <2>1, CursorType, ConstantTypes DEF EraseLevelDone
    <2>3. preds' \in [Thread -> [Level -> Pred \cup {Uninit}]] /\ pc' \in [Thread -> PcType]
      <3>1. /\ preds' = [preds EXCEPT ![t][i] = p]
            /\ Goto(t, IF nheight[s] > 0 THEN "e_mark" ELSE "e_claim")
        BY <1>2 DEF EraseLevelDone
      <3> QED BY <2>2, <3>1 DEF TypeThread, Goto, PcType
    <2> QED BY <1>2, <2>2, <2>3, FrameType DEF EraseLevelDone, TypeThread
  <1>3. CASE ~(i > 0) /\ ~(s # Null /\ ~Before(s, key[t]) /\ ~After(s, key[t]))
    BY <1>3, ReturnType, OutcomeTypes DEF EraseLevelDone
  <1> QED BY <1>1, <1>2, <1>3

\* erase keeps the types.
LEMMA EraseType ==
  ASSUME TypeOK, LocalInv, NEW t \in Thread
  PROVE  /\ \A k \in Key : EraseBegin(t, k) => TypeOK'
         /\ EraseLevel(t) => TypeOK'
         /\ EraseScan(t) => TypeOK'
         /\ EraseMark(t) => TypeOK'
         /\ EraseClaim(t) => TypeOK'
         /\ EraseUnlink(t) => TypeOK'
         /\ EraseRetire(t) => TypeOK'
         /\ EraseCount(t) => TypeOK'
  <1> USE DEF TypeOK
  <1> DEFINE i == cur[t].lvl
             v == node[t]
  <1>0. LocalOK(t)
    BY DEF LocalInv
  <1>1. \A k \in Key : EraseBegin(t, k) => TypeOK'
    <2> SUFFICES ASSUME NEW k \in Key, EraseBegin(t, k) PROVE TypeOK'
      OBVIOUS
    <2> QED BY StartType, CursorType, ConstantTypes, FrameType
               DEF EraseBegin, TypeThread, TypeShared, Goto, PcType, arrays
  <1>2. ASSUME EraseLevel(t) PROVE TypeOK'
    <2> DEFINE c == next[cur[t].pred][i]
    <2>1. c.ptr \in NodePtr /\ To(c.ptr) \in Link
      BY ReadType, CursorType
    <2>2. CASE c.ptr = Null
      BY <1>2, <2>2, EraseLevelDoneType, CursorType, ConstantTypes, FrameType DEF EraseLevel
    <2>3. CASE c.ptr # Null
      BY <1>2, <2>1, <2>3, CursorType, FrameType
         DEF EraseLevel, TypeThread, Goto, PcType, args, arrays
    <2> QED BY <2>2, <2>3
  <1>3. ASSUME EraseScan(t) PROVE TypeOK'
    <2> DEFINE c == cur[t].curr.ptr
               succ == next[c][i]
               passed == IF succ.mark THEN cur[t].pred ELSE c
    <2> USE <1>3 DEF EraseScan
    <2>1. c \in Pred /\ c \in NodePtr /\ passed \in Pred /\ i \in Level
      BY <1>0, CursorType DEF LocalOK, Pred
    <2>2. succ.ptr \in NodePtr /\ To(succ.ptr) \in Link
      BY <2>1, ReadType
    <2>3. CASE ~succ.mark /\ ~Before(c, key[t])
      BY <2>1, <2>3, EraseLevelDoneType, CursorType, FrameType
    <2>4. CASE ~(~succ.mark /\ ~Before(c, key[t])) /\ succ.ptr = Null
      <3>1. EraseLevelDone(t, passed, Null)
        BY <2>4
      <3> QED BY <2>1, <3>1, EraseLevelDoneType, ConstantTypes, FrameType
    <2>5. CASE ~(~succ.mark /\ ~Before(c, key[t])) /\ succ.ptr # Null
      <3>1. Scan(t, i, passed, To(succ.ptr)) /\ UNCHANGED <<pc, args, arrays, history>>
        BY <2>5
      <3> QED BY <2>1, <2>2, <3>1, CursorType, FrameType DEF TypeThread, args, arrays
    <2> QED BY <2>3, <2>4, <2>5
  <1>4. ASSUME EraseMark(t) PROVE TypeOK'
    <2> USE <1>4 DEF EraseMark
    <2>1. v \in Node /\ v \in Pred /\ i \in Level /\ i - 1 \in Level
      BY <1>0, CursorType, LevelFacts DEF LocalOK, VictimPc, Pred
    <2>2. [ptr |-> next[v][i].ptr, mark |-> TRUE] \in Link
      BY <2>1, ReadType DEF Link
    <2>3. TypeMemory'
      BY <2>1, <2>2, WriteType DEF Marking, WithMark
    <2> QED BY <2>1, <2>3, CursorType, ConstantTypes, FrameType
               DEF TypeThread, Goto, PcType, args, arrays
  <1>5. ASSUME EraseClaim(t) PROVE TypeOK'
    <2> USE <1>5 DEF EraseClaim
    <2>1. v \in Node /\ v \in Pred /\ 0 \in Level
      BY <1>0, LevelFacts DEF LocalOK, VictimPc, Pred
    <2>2. nheight[v] \in Level /\ [ptr |-> next[v][0].ptr, mark |-> TRUE] \in Link
      BY <2>1, ReadType DEF Link, TypeMemory
    <2>3. TypeMemory'
      BY <2>1, <2>2, WriteType DEF WithMark, TypeMemory, nodeInfo
    <2>4. TypeThread' /\ TypeHistory'
      <3>1. CASE next[v][0].mark
        BY <3>1, ReturnType, OutcomeTypes
      <3>2. CASE ~next[v][0].mark
        <4>1. TypeHistory'
          BY <3>2, ObserveType, ConstantTypes DEF TypeHistory
        <4> QED BY <3>2, <4>1, <2>2, CursorType, ConstantTypes
                   DEF TypeThread, Goto, PcType, args, arrays
      <3> QED BY <3>1, <3>2
    <2> QED BY <2>3, <2>4, FrameType
  <1>6. ASSUME EraseUnlink(t) PROVE TypeOK'
    <2> USE <1>6 DEF EraseUnlink
    <2>1. v \in Pred /\ i \in Level
      BY <1>0, CursorType DEF LocalOK, VictimPc, Pred
    <2>1a. i # 0 => i - 1 \in Level
      BY <2>1, LevelAssumption DEF Level
    <2>2. PredAt(t, i) \subseteq Pred
      BY <2>1 DEF PredAt, Pred, TypeThread
    <2>3. TypeMemory'
      BY <2>1, <2>2, ReadType, WriteType DEF TypeMemory, nodeInfo
    <2>4. TypeShared' /\ TypeHistory'
      BY FrameType
    <2> QED BY <2>1, <2>1a, <2>3, <2>4, CursorType, ConstantTypes, LevelFacts
               DEF TypeThread, Goto, PcType, args, arrays
  <1>7. ASSUME EraseRetire(t) PROVE TypeOK'
    <2>1. v \in Node
      BY <1>0, <1>7 DEF LocalOK, VictimPc, EraseRetire
    <2>2. <<v>> \o retired \in Seq(Node)
      BY <2>1 DEF TypeShared
    <2> QED BY <1>7, <2>2, FrameType
               DEF EraseRetire, TypeShared, TypeThread, counters, Goto, PcType, args, arrays
  <1>8. ASSUME EraseCount(t) PROVE TypeOK'
    <2>1. TypeThread' /\ TypeHistory'
      BY <1>8, ReturnType, OutcomeTypes DEF EraseCount
    <2>2. TypeMemory'
      BY <1>8, FrameType DEF EraseCount
    <2>3. TypeShared'
      BY <1>8, SizeAssumption DEF EraseCount, TypeShared, Down, final
    <2> QED BY <2>1, <2>2, <2>3
  <1> QED BY <1>1, <1>2, <1>3, <1>4, <1>5, <1>6, <1>7, <1>8

\* The end of a level in find's search.
LEMMA FindLevelDoneType ==
  ASSUME TypeThread, TypeHistory, NEW t \in Thread, NEW p \in Pred, FindLevelDone(t, p)
  PROVE  TypeThread' /\ TypeHistory'
  <1>1. CASE cur[t].lvl > 0
    BY <1>1, CursorType, LevelFacts, FrameType
       DEF FindLevelDone, TypeThread, Goto, PcType, args, arrays
  <1>2. CASE ~(cur[t].lvl > 0)
    BY <1>2, ReturnType, OutcomeTypes DEF FindLevelDone
  <1> QED BY <1>1, <1>2

\* find, contains and for_each keep the types.
LEMMA ReadersType ==
  ASSUME TypeOK, LocalInv, NEW t \in Thread
  PROVE  /\ \A k \in Key : FindBegin(t, k) => TypeOK'
         /\ FindTop(t) => TypeOK'
         /\ FindLevel(t) => TypeOK'
         /\ FindScan(t) => TypeOK'
         /\ FindCheck(t) => TypeOK'
         /\ EachBegin(t) => TypeOK'
         /\ EachScan(t) => TypeOK'
  <1> USE DEF TypeOK
  <1> DEFINE i == cur[t].lvl
             c == cur[t].curr.ptr
             Quiet == UNCHANGED <<args, arrays, history>>
  <1>0. LocalOK(t) /\ i \in Level
    BY CursorType DEF LocalInv
  <1>1. \A k \in Key : FindBegin(t, k) => TypeOK'
    <2> SUFFICES ASSUME NEW k \in Key, FindBegin(t, k) PROVE TypeOK'
      OBVIOUS
    <2> QED BY StartType, CursorType, ConstantTypes, FrameType
               DEF FindBegin, TypeThread, TypeShared, Goto, PcType, arrays
  <1>2. ASSUME FindTop(t) PROVE TypeOK'
    BY <1>2, CursorType, ConstantTypes, FrameType
       DEF FindTop, TypeThread, TypeShared, Goto, PcType, args, arrays
  <1>3. ASSUME FindLevel(t) PROVE TypeOK'
    <2> USE <1>3 DEF FindLevel
    <2> DEFINE r == next[cur[t].pred][i]
    <2>1. r \in Link
      BY ReadType, CursorType
    <2>2. CASE r.ptr = Null
      BY <2>2, FindLevelDoneType, CursorType, FrameType
    <2>3. CASE r.ptr # Null
      <3>1. cur' \in [Thread -> Cursor] /\ pc' \in [Thread -> PcType] /\ Quiet
        BY <1>0, <2>1, <2>3, CursorType, ConstantTypes, LevelFacts DEF Goto, PcType, TypeThread
      <3> QED BY <3>1, FrameType DEF TypeThread, args, arrays
    <2> QED BY <2>2, <2>3
  <1>4. ASSUME FindScan(t) PROVE TypeOK'
    <2> USE <1>4 DEF FindScan
    <2> DEFINE succ == next[c][i]
               passed == IF succ.mark THEN cur[t].pred ELSE c
    <2>1. c \in Pred /\ passed \in Pred
      BY <1>0, CursorType DEF LocalOK, Pred
    <2>2. succ.ptr \in NodePtr /\ To(succ.ptr) \in Link
      BY <1>0, <2>1, ReadType
    <2>3. \/ FindLevelDone(t, cur[t].pred)
          \/ FindLevelDone(t, passed)
          \/ Goto(t, "f_check") /\ UNCHANGED cur /\ Quiet
          \/ Scan(t, i, passed, To(succ.ptr)) /\ UNCHANGED pc /\ Quiet
      OBVIOUS
    <2>4. CASE FindLevelDone(t, cur[t].pred) \/ FindLevelDone(t, passed)
      BY <2>4, <2>1, FindLevelDoneType, CursorType, FrameType
    <2>5. CASE Goto(t, "f_check") /\ UNCHANGED cur /\ Quiet
      BY <2>5, FrameType DEF TypeThread, Goto, PcType, args, arrays
    <2>6. CASE Scan(t, i, passed, To(succ.ptr)) /\ UNCHANGED pc /\ Quiet
      BY <2>6, <1>0, <2>1, <2>2, CursorType, FrameType DEF TypeThread, args, arrays
    <2> QED BY <2>3, <2>4, <2>5, <2>6
  <1>5. ASSUME FindCheck(t) PROVE TypeOK'
    <2> USE <1>5 DEF FindCheck
    <2>1. c \in Node
      BY <1>0 DEF LocalOK
    <2>2. CASE next[c][0].mark
      BY <2>2, CursorType, ConstantTypes, LevelFacts, FrameType
         DEF TypeThread, Goto, PcType, args, arrays
    <2>3. CASE ~next[c][0].mark
      BY <2>1, <2>3, ReturnType, OutcomeTypes, FrameType
    <2> QED BY <2>2, <2>3
  <1>6. ASSUME EachBegin(t) PROVE TypeOK'
    <2>1. To(next[HeadNode][0].ptr) \in Link
      BY ReadType, LevelFacts, ConstantTypes
    <2> QED BY <1>6, <2>1, StartType, CursorType, ConstantTypes, LevelFacts, FrameType
               DEF EachBegin, TypeThread, Goto, PcType, arrays
  <1>7. ASSUME EachScan(t) PROVE TypeOK'
    <2> USE <1>7 DEF EachScan
    <2>1. c \in NodePtr /\ visited[t] \in SUBSET Node
      BY CursorType DEF TypeThread
    <2>2. CASE c = Null
      BY <2>2, <2>1, ReturnType, OutcomeTypes, FrameType
    <2>3. CASE c # Null
      <3> DEFINE p == next[c][0].ptr
                 vis == visited[t] \cup Shown(c)
      <3>1. p \in NodePtr /\ vis \in SUBSET Node /\ To(p) \in Link
        BY <2>1, <2>3, ReadType, LevelFacts DEF NodePtr, Pred, Shown
      <3>2. EachGo(t, p, vis)
        BY <2>3
      <3> HIDE DEF p, vis
      <3>3. CASE p = Null
        BY <3>1, <3>2, <3>3, ReturnType, OutcomeTypes, FrameType DEF EachGo
      <3>4. CASE p # Null
        BY <3>1, <3>2, <3>4, CursorType, ConstantTypes, LevelFacts, FrameType, ZenonT(30)
           DEF EachGo, TypeThread, Goto, PcType, arrays
      <3> QED BY <3>3, <3>4
    <2> QED BY <2>2, <2>3
  <1> QED BY <1>1, <1>2, <1>3, <1>4, <1>5, <1>6, <1>7

\* The destructor.
LEMMA DestroyType == ASSUME TypeOK, Destroy PROVE TypeOK'
  <1>1. \A n \in Node : Destructions(n) \in Nat
    <2> SUFFICES ASSUME NEW n \in Node PROVE Destructions(n) \in Nat
      OBVIOUS
    <2> DEFINE E == {j \in 1 .. Len(retired) : retired[j] = n}
    <2>1. Len(retired) \in Nat
      BY DEF TypeOK, TypeShared
    <2>2. IsFiniteSet(1 .. Len(retired))
      BY <2>1, FS_Interval
    <2>3. IsFiniteSet(E)
      BY <2>2, FS_Subset
    <2>4. Cardinality(E) \in Nat
      BY <2>3, FS_CardinalityType
    <2> QED BY <2>4 DEF Destructions, Entries
  <1>2. TypeShared'
    BY <1>1 DEF Destroy, TypeOK, TypeShared, counters
  <1> QED BY <1>2, FrameType DEF Destroy, TypeOK, TypeThread, args, arrays

-----------------------------------------------------------------------------
\* What a search may take for a predecessor and for a successor of k.

Under(p, k) == p = HeadNode \/ (status[p] = "linked" /\ nkey[p] < k)
Over(q, k)  == q = Null \/ (status[q] = "linked" /\ k < nkey[q])

\* insert's node is its own until it is published, and keeps its key; the arrays enclose the key.
Private(t) == pc[t] \in InsertPc /\ link[t] = 0 /\ pc[t] # "i_count"
InsertOK(t) ==
  pc[t] \in InsertPc =>
    /\ nkey[node[t]] = key[t]
    /\ status[node[t]] = IF Private(t) THEN "private" ELSE "linked"
    /\ \A i \in Level : /\ preds[t][i] # Uninit => Under(preds[t][i], key[t])
                        /\ Over(succs[t][i], key[t])

\* The search stands on linked nodes, its predecessor before the key, the survivor behind curr.
SearchOK(t) ==
  /\ pc[t] \in SearchPc => Under(cur[t].pred, key[t])
  /\ pc[t] \in {"i_scan", "i_live", "i_splice", "e_scan", "f_scan", "f_check"} => status[cur[t].curr.ptr] = "linked"
  /\ pc[t] \in {"i_live", "i_splice"} => Over(cur[t].live, nkey[cur[t].curr.ptr])

\* erase has marked its victim down to the level it has reached.
Marked(n, i) == \A j \in Level : i < j /\ j <= nheight[n] => next[n][j].mark
EraseOK(t) ==
  /\ pc[t] \in VictimPc => status[node[t]] = "linked"
  /\ pc[t] = "e_mark"  => Marked(node[t], cur[t].lvl)
  /\ pc[t] = "e_claim" => Marked(node[t], 0)
  /\ pc[t] \in {"e_unlink", "e_retire"} => next[node[t]][0].mark /\ node[t] \notin Retired

\* Between calls the locals of a call are fresh, and insert links nothing before it has published.
FreshOK(t) == /\ pc[t] \notin InsertPc \/ pc[t] = "i_publish" => link[t] = 0
              /\ pc[t] = "idle" => preds[t] = NoPreds /\ succs[t] = NoSuccs

ThreadOK(t) == LocalOK(t) /\ FreshOK(t) /\ InsertOK(t) /\ SearchOK(t) /\ EraseOK(t)

\* No two threads insert one block, no two erase one node.
Owns(t) == pc[t] \in {"e_unlink", "e_retire"}
Exclusive == \A t, u \in Thread : t # u => /\ Private(t) /\ Private(u) => node[t] # node[u]
                                           /\ Owns(t) /\ Owns(u) => node[t] # node[u]

RetiredOK == /\ \A n \in Retired : status[n] = "linked" /\ next[n][0].mark
             /\ RetiredOnce

IndInv == /\ TypeOK
          /\ \A t \in Thread : ThreadOK(t)
          /\ Exclusive
          /\ LevelSorted
          /\ MarkOrder
          /\ RetiredOK
\* What a step of t leaves to the others: their locals, the nodes that are theirs or linked, and every
\* marked pointer of a linked node.
Others(t) == \A u \in Thread : u # t =>
               /\ pc'[u] = pc[u] /\ key'[u] = key[u] /\ node'[u] = node[u] /\ cur'[u] = cur[u]
               /\ preds'[u] = preds[u] /\ succs'[u] = succs[u] /\ link'[u] = link[u]
Same(n) == status'[n] = status[n] /\ nkey'[n] = nkey[n] /\ nheight'[n] = nheight[n]
Keeps(t) == /\ \A n \in Node : status[n] = "linked" \/ (status[n] = "private" /\ ~(Private(t) /\ n = node[t]))
                                 => Same(n)
            /\ \A n \in Retired' : n \in Retired \/ (Owns(t) /\ n = node[t])
Frozen == \A n \in Node, i \in Level :
            status[n] = "linked" /\ next[n][i].mark => next'[n][i] = next[n][i]

\* A step of t writes no local of another thread.
LEMMA ReturnOthers == ASSUME TypeThread, NEW t \in Thread, NEW o, Return(t, o) PROVE Others(t)
  BY DEF TypeThread, Others, Return, Goto, Enter, Scan

LEMMA OthersStep == ASSUME TypeThread, NEW t \in Thread, Step(t) PROVE Others(t)
  <1> USE DEF TypeThread, Others, Goto, Enter, Scan, args, arrays
  <1>1. CASE \E k \in Key, h \in Level, n \in Node : InsertBegin(t, k, h, n)
    BY <1>1 DEF InsertBegin, Start
  <1>2. CASE \E k \in Key : EraseBegin(t, k) \/ FindBegin(t, k)
    BY <1>2 DEF EraseBegin, FindBegin, Start
  <1>3. CASE EachBegin(t)
    BY <1>3 DEF EachBegin, Start
  <1>4. CASE EachScan(t)
    BY <1>4, ReturnOthers DEF EachScan, EachGo
  <1>5. CASE InsertTop(t)
    BY <1>5 DEF InsertTop
  <1>6. CASE InsertLevel(t)
    BY <1>6 DEF InsertLevel, InsertLevelDone
  <1>7. CASE InsertScan(t)
    BY <1>7, ReturnOthers, ZenonT(30) DEF InsertScan, InsertRetry, Survivor, InsertLevelDone
  <1>8. CASE InsertLive(t)
    BY <1>8 DEF InsertLive, Survivor
  <1>9. CASE InsertSplice(t)
    BY <1>9 DEF InsertSplice, InsertRetry, InsertLevelDone
  <1>10. CASE InsertPublish(t)
    BY <1>10 DEF InsertPublish
  <1>11. CASE InsertCheck(t) \/ InsertLink(t) \/ InsertRelink(t)
    BY <1>11 DEF InsertCheck, InsertLink, InsertRelink
  <1>12. CASE InsertCount(t) \/ EraseCount(t)
    BY <1>12, ReturnOthers DEF InsertCount, EraseCount
  <1>13. CASE EraseLevel(t)
    BY <1>13, ReturnOthers DEF EraseLevel, EraseLevelDone
  <1>14. CASE EraseScan(t)
    BY <1>14, ReturnOthers DEF EraseScan, EraseLevelDone
  <1>15. CASE EraseMark(t) \/ EraseUnlink(t) \/ EraseRetire(t)
    BY <1>15 DEF EraseMark, EraseUnlink, EraseRetire
  <1>16. CASE EraseClaim(t)
    BY <1>16, ReturnOthers DEF EraseClaim
  <1>17. CASE FindTop(t)
    BY <1>17 DEF FindTop
  <1>18. CASE FindLevel(t)
    BY <1>18, ReturnOthers DEF FindLevel, FindLevelDone
  <1>19. CASE FindScan(t)
    BY <1>19, ReturnOthers DEF FindScan, FindLevelDone
  <1>20. CASE FindCheck(t)
    BY <1>20, ReturnOthers DEF FindCheck
  <1> QED BY <1>1, <1>2, <1>3, <1>4, <1>5, <1>6, <1>7, <1>8, <1>9, <1>10, <1>11, <1>12, <1>13,
             <1>14, <1>15, <1>16, <1>17, <1>18, <1>19, <1>20 DEF Step

\* Hence a step of t keeps what holds of another thread.
LEMMA OtherThreadOK ==
  ASSUME IndInv, NEW t \in Thread, NEW u \in Thread, u # t, Others(t), Keeps(t), Frozen
  PROVE  ThreadOK(u)'
  <1> DEFINE n == node[u]
  <1>0. ThreadOK(u) /\ TypeOK /\ Exclusive
    BY DEF IndInv
  <1>1. /\ pc'[u] = pc[u] /\ key'[u] = key[u] /\ node'[u] = n /\ cur'[u] = cur[u]
        /\ preds'[u] = preds[u] /\ succs'[u] = succs[u] /\ link'[u] = link[u]
    BY DEF Others
  <1>2. \A m \in Node : status[m] = "linked" => Same(m)
    BY DEF Keeps
  <1>3. pc[u] \in InsertPc => n \in Node /\ Same(n)
    <2> SUFFICES ASSUME pc[u] \in InsertPc PROVE n \in Node /\ Same(n)
      OBVIOUS
    <2>1. n \in Node /\ (status[n] = "linked" \/ (status[n] = "private" /\ Private(u)))
      BY <1>0 DEF ThreadOK, LocalOK, InsertOK
    <2>2. ~(Private(t) /\ Private(u) /\ n = node[t])
      BY <1>0 DEF Exclusive
    <2> QED BY <2>1, <2>2 DEF Keeps
  <1>4. LocalOK(u)'
    BY <1>0, <1>1, <1>3 DEF ThreadOK, LocalOK, Same
  <1>5. \A k : \A p \in Pred : Under(p, k) => Under(p, k)'
    BY <1>2 DEF Under, Same, Pred
  <1>6. \A k : \A q \in NodePtr : Over(q, k) => Over(q, k)'
    BY <1>2 DEF Over, Same, NodePtr
  <1>7. InsertOK(u)'
    <2> SUFFICES ASSUME pc[u] \in InsertPc PROVE InsertOK(u)'
      BY <1>1 DEF InsertOK
    <2>1. (Private(u))' = Private(u)
      BY <1>1 DEF Private
    <2>2. \A i \in Level : preds[u][i] \in Pred \cup {Uninit} /\ succs[u][i] \in NodePtr
      BY <1>0 DEF TypeOK, TypeThread
    <2>3. \A i \in Level : /\ preds[u][i] # Uninit => Under(preds[u][i], key[u])'
                           /\ Over(succs[u][i], key[u])'
      BY <1>0, <1>1, <1>5, <1>6, <2>2 DEF ThreadOK, InsertOK, Under, Over, Same
    <2> QED BY <1>0, <1>1, <1>3, <2>1, <2>3 DEF ThreadOK, InsertOK, Same, Under, Over
  <1>8. SearchOK(u)'
    <2> DEFINE c == cur[u].curr.ptr
    <2>1. cur[u].pred \in Pred /\ cur[u].live \in NodePtr
      BY <1>0, CursorType DEF TypeOK
    <2>2. pc[u] \in SearchPc => Under(cur[u].pred, key[u])'
      BY <1>0, <1>1, <1>5, <2>1 DEF ThreadOK, SearchOK, Under
    <2>3. pc[u] \in {"i_scan", "i_live", "i_splice", "e_scan", "f_scan", "f_check"} => c \in Node /\ Same(c) /\ status[c] = "linked"
      BY <1>0, <1>2 DEF ThreadOK, SearchOK, LocalOK
    <2>4. pc[u] \in {"i_live", "i_splice"} => Over(cur[u].live, nkey[c])'
      BY <1>0, <1>1, <1>2, <2>1, <2>3 DEF ThreadOK, SearchOK, Over, Same, NodePtr
    <2> QED BY <1>1, <2>2, <2>3, <2>4 DEF SearchOK, Same, Under, Over
  <1>9. EraseOK(u)'
    <2>1. pc[u] \in VictimPc => n \in Node /\ Same(n) /\ status[n] = "linked"
      BY <1>0, <1>2 DEF ThreadOK, EraseOK, LocalOK
    <2>2. pc[u] \in VictimPc =>
            nheight'[n] = nheight[n] /\ \A j \in Level : next[n][j].mark => next'[n][j].mark
      BY <2>1 DEF Same, Frozen
    <2>3. Owns(u) => next'[n][0].mark /\ n \notin Retired'
      BY <1>0, <2>1, LevelFacts DEF ThreadOK, EraseOK, Owns, VictimPc, Exclusive, Keeps, Frozen
    <2>4. pc[u] = "e_mark" =>
            \A j \in Level : cur[u].lvl < j /\ j <= nheight[n] => next'[n][j].mark
      BY <1>0, <2>2 DEF ThreadOK, EraseOK, VictimPc, Marked
    <2>5. pc[u] = "e_claim" => \A j \in Level : 0 < j /\ j <= nheight[n] => next'[n][j].mark
      BY <1>0, <2>2 DEF ThreadOK, EraseOK, VictimPc, Marked
    <2> QED BY <1>1, <2>1, <2>2, <2>3, <2>4, <2>5 DEF EraseOK, Same, Marked, Owns, VictimPc
  <1>10. FreshOK(u)'
    BY <1>0, <1>1 DEF ThreadOK, FreshOK
  <1> QED BY <1>4, <1>7, <1>8, <1>9, <1>10 DEF ThreadOK
\* What a step leaves of the shared part of the invariant.
Steady(t) == Keeps(t) /\ Frozen /\ LevelSorted' /\ MarkOrder' /\ RetiredOK'

\* A step that writes no memory.
LEMMA QuietSteady == ASSUME IndInv, NEW t \in Thread, UNCHANGED <<memory, retired>> PROVE Steady(t)
  <1>1. UNCHANGED <<next, nkey, nheight, status, retired>>
    BY DEF memory, nodeInfo
  <1>2. Keeps(t) /\ Frozen
    BY <1>1 DEF Keeps, Same, Frozen, Retired
  <1>3. LevelSorted' /\ MarkOrder'
    BY <1>1 DEF IndInv, LevelSorted, Leads, MarkOrder
  <1>4. RetiredOK'
    BY <1>1 DEF IndInv, RetiredOK, RetiredOnce, Retired, Live
  <1> QED BY <1>2, <1>3, <1>4 DEF Steady

\* One next pointer is written: it was not marked or stays what it was, leads to a larger key, and is
\* marked at level 0 only when the levels above are.
LEMMA WriteSteady ==
  ASSUME IndInv, NEW t \in Thread, NEW p \in Pred, NEW i \in Level, NEW v \in Link,
         next' = WithLink(p, i, v), UNCHANGED <<nodeInfo, retired>>,
         Leads(p, v.ptr),
         p \in Node => /\ next[p][i].mark => v = next[p][i]
                       /\ v.mark /\ i = 0 => Marked(p, 0)
  PROVE  Steady(t)
  <1>1. TypeMemory /\ LevelSorted /\ MarkOrder /\ RetiredOK
    BY DEF IndInv, TypeOK
  <1>2. UNCHANGED <<nkey, nheight, status, retired>>
    BY DEF nodeInfo
  <1>3. \A q \in Pred, j \in Level : next'[q][j] = IF q = p /\ j = i THEN v ELSE next[q][j]
    BY <1>1 DEF TypeMemory, WithLink
  <1>4. Frozen
    BY <1>3 DEF Frozen, Pred
  <1>5. Keeps(t)
    BY <1>2 DEF Keeps, Same, Retired
  <1>6. LevelSorted'
    BY <1>1, <1>2, <1>3 DEF LevelSorted, Leads
  <1>7. MarkOrder'
    <2> SUFFICES ASSUME NEW n \in Node, next'[n][0].mark, NEW j \in 0 .. nheight[n]
                 PROVE  next'[n][j].mark
      BY <1>2 DEF MarkOrder
    <2>1. n \in Pred /\ 0 \in Level /\ j \in Level /\ j <= nheight[n] /\ (j = 0 \/ 0 < j)
      BY <1>1, LevelAssumption DEF Pred, TypeMemory, Level
    <2>2. CASE n = p /\ i = 0
      BY <1>3, <2>1, <2>2 DEF Marked
    <2>3. CASE ~(n = p /\ i = 0)
      <3>1. next[n][0].mark
        BY <1>3, <2>1, <2>3
      <3>2. next[n][j].mark
        BY <1>1, <3>1 DEF MarkOrder
      <3> QED BY <1>3, <2>1, <3>2
    <2> QED BY <2>2, <2>3
  <1>8. RetiredOK'
    <2>1. \A n \in Retired : n \in Node
      BY DEF IndInv, TypeOK, TypeShared, Retired
    <2>2. \A n \in Retired : status[n] = "linked" /\ next'[n][0].mark
      BY <1>1, <1>4, <2>1, LevelFacts DEF RetiredOK, Frozen
    <2>3. Retired' = Retired
      BY <1>2 DEF Retired
    <2>4. RetiredOnce'
      BY <1>1, <1>2, <2>2, <2>3 DEF RetiredOK, RetiredOnce, Live
    <2> QED BY <1>2, <2>2, <2>3, <2>4 DEF RetiredOK
  <1> QED BY <1>4, <1>5, <1>6, <1>7, <1>8 DEF Steady

\* t owns no more than it did.
Modest(t) == /\ Private(t)' => Private(t) /\ node'[t] = node[t]
             /\ Owns(t)' => Owns(t) /\ node'[t] = node[t]

\* A step that takes no node keeps the nodes exclusive.
LEMMA ModestExclusive == ASSUME IndInv, NEW t \in Thread, Others(t), Modest(t) PROVE Exclusive'
  BY DEF IndInv, Exclusive, Others, Modest, Private, Owns

\* What each action is shown to do.
Fine(t) == ThreadOK(t)' /\ Steady(t) /\ Exclusive'

\* A call that returns.
LEMMA ReturnFine ==
  ASSUME IndInv, NEW t \in Thread, NEW o, Return(t, o)
  PROVE  ThreadOK(t)' /\ Modest(t) /\ Exclusive'
  <1>1. pc'[t] = "idle" /\ link'[t] = 0 /\ preds'[t] = NoPreds /\ succs'[t] = NoSuccs
    BY DEF IndInv, TypeOK, TypeThread, Return, Goto
  <1>2. LocalOK(t)' /\ FreshOK(t)' /\ InsertOK(t)' /\ SearchOK(t)' /\ EraseOK(t)'
    BY <1>1 DEF LocalOK, FreshOK, InsertOK, SearchOK, EraseOK, InsertPc, SearchPc, VictimPc
  <1>3. Modest(t)
    BY <1>1 DEF Modest, Private, Owns, InsertPc
  <1>4. Others(t)
    BY ReturnOthers DEF IndInv, TypeOK
  <1> QED BY <1>2, <1>3, <1>4, ModestExclusive DEF ThreadOK

\* The end of a level of insert's search: both arrays enclose the key one level further down.
LEMMA InsertLevelDoneFine ==
  ASSUME IndInv, NEW t \in Thread, NEW p \in Pred, NEW s \in NodePtr, pc[t] \in SearchPc,
         Under(p, key[t]), Over(s, key[t]), InsertLevelDone(t, p, s), UNCHANGED <<args, nodeInfo>>
  PROVE  ThreadOK(t)' /\ Modest(t)
  <1> DEFINE i == cur[t].lvl
             n == node[t]
  <1>1. /\ TypeThread /\ LocalOK(t) /\ InsertOK(t) /\ pc[t] \in InsertPc /\ i \in Level
    BY CursorType DEF IndInv, TypeOK, ThreadOK, SearchPc, InsertPc
  <1>2. UNCHANGED <<nkey, nheight, status, key, node, link>>
    BY DEF args, nodeInfo
  <1>3. /\ \A j \in Level : preds'[t][j] = IF j = i THEN p ELSE preds[t][j]
        /\ \A j \in Level : succs'[t][j] = IF j = i THEN s ELSE succs[t][j]
        /\ p # Uninit
    BY <1>1, NullAssumption DEF InsertLevelDone, TypeThread, Pred
  <1>4. i > 0 => pc'[t] = "i_level" /\ cur'[t].lvl = i - 1 /\ cur'[t].pred = p
    BY <1>1 DEF InsertLevelDone, Goto, Enter, Scan, TypeThread
  <1>5. ~(i > 0) => pc'[t] = IF link[t] = 0 THEN "i_publish" ELSE "i_relink"
    BY <1>1 DEF InsertLevelDone, Goto, TypeThread
  <1>6. \A j \in Level : j > i => preds[t][j] # Uninit
    BY <1>1 DEF LocalOK
  <1>7. i \in Nat /\ \A j \in Level : j \in Nat
    BY <1>1, LevelFacts
  <1>8. LocalOK(t)'
    <2>1. pc'[t] \in SearchPc => \A j \in Level : j > cur'[t].lvl => preds'[t][j] # Uninit
      <3> SUFFICES ASSUME pc'[t] \in SearchPc, NEW j \in Level, j > cur'[t].lvl
                   PROVE  preds'[t][j] # Uninit
        OBVIOUS
      <3>1. i > 0 /\ cur'[t].lvl = i - 1
        BY <1>4, <1>5 DEF SearchPc
      <3>2. j = i \/ j > i
        BY <3>1, <1>7
      <3> QED BY <3>2, <1>3, <1>6
    <2>2. pc'[t] = "i_publish" \/ link'[t] > 0 => \A j \in Level : preds'[t][j] # Uninit
      <3>1. CASE link[t] > 0
        BY <3>1, <1>1, <1>3 DEF LocalOK
      <3>2. CASE ~(link[t] > 0)
        <4>1. pc'[t] = "i_publish" => i = 0
          BY <1>4, <1>5, <1>7
        <4>2. i = 0 => \A j \in Level : j = i \/ j > i
          BY <1>7
        <4> QED BY <3>2, <4>1, <4>2, <1>2, <1>3, <1>6
      <3> QED BY <3>1, <3>2
    <2>3. link[t] \in Nat
      BY <1>1, LevelFacts DEF TypeThread
    <2>4. pc'[t] \in {"i_level", "i_publish", "i_relink"} /\ (pc'[t] = "i_relink" => link[t] > 0)
      BY <1>4, <1>5, <2>3
    <2> QED BY <1>1, <1>2, <2>1, <2>2, <2>4 DEF LocalOK, InsertPc, SearchPc, VictimPc
  <1>9. pc'[t] \in InsertPc /\ pc'[t] # "i_count" /\ pc[t] # "i_count"
    BY <1>4, <1>5 DEF InsertPc, SearchPc
  <1>10. InsertOK(t)'
    <2>1. Private(t)' = Private(t)
      BY <1>1, <1>2, <1>9 DEF Private
    <2> QED BY <1>1, <1>2, <1>3, <2>1 DEF InsertOK, Under, Over
  <1>11. SearchOK(t)'
    BY <1>2, <1>4, <1>5 DEF SearchOK, SearchPc, Under
  <1>12. EraseOK(t)'
    BY <1>4, <1>5 DEF EraseOK, VictimPc
  <1>13. Modest(t)
    BY <1>1, <1>2, <1>4, <1>5, <1>9 DEF Modest, Private, Owns
  <1>14. FreshOK(t)'
    BY <1>1, <1>2, <1>4, <1>5, <1>9 DEF FreshOK, InsertPc
  <1> QED BY <1>8, <1>10, <1>11, <1>12, <1>13, <1>14 DEF ThreadOK

\* The invariant, taken apart for one thread.
LEMMA Facts ==
  ASSUME IndInv, NEW t \in Thread
  PROVE  /\ TypeMemory /\ TypeShared /\ TypeThread /\ LocalInv
         /\ LocalOK(t) /\ FreshOK(t) /\ InsertOK(t) /\ SearchOK(t) /\ EraseOK(t)
         /\ LevelSorted /\ MarkOrder /\ RetiredOK /\ Exclusive
         /\ cur[t].lvl \in Level /\ cur[t].pred \in Pred /\ cur[t].curr \in Link
         /\ cur[t].curr.ptr \in NodePtr /\ cur[t].live \in NodePtr
         /\ node[t] \in NodePtr /\ link[t] \in Level
         /\ \A i \in Level : preds[t][i] \in Pred \cup {Uninit} /\ succs[t][i] \in NodePtr
  <1>1. TypeMemory /\ TypeShared /\ TypeThread /\ LocalInv /\ ThreadOK(t)
    BY DEF IndInv, TypeOK, ThreadOK, LocalInv
  <1>2. LevelSorted /\ MarkOrder /\ RetiredOK /\ Exclusive
    BY DEF IndInv
  <1>3. /\ cur[t].lvl \in Level /\ cur[t].pred \in Pred /\ cur[t].curr \in Link
        /\ cur[t].curr.ptr \in NodePtr /\ cur[t].live \in NodePtr
    BY <1>1, CursorType
  <1>4. /\ node[t] \in NodePtr /\ link[t] \in Level
        /\ \A i \in Level : preds[t][i] \in Pred \cup {Uninit} /\ succs[t][i] \in NodePtr
    BY <1>1 DEF TypeThread
  <1> QED BY <1>1, <1>2, <1>3, <1>4 DEF ThreadOK

\* Where a pointer read by a thread leads.
LEMMA ReadLeads ==
  ASSUME IndInv, NEW p \in Pred, NEW i \in Level
  PROVE  /\ next[p][i].ptr \in NodePtr
         /\ next[p][i].ptr # Null => /\ next[p][i].ptr \in Node
                                     /\ status[next[p][i].ptr] = "linked"
                                     /\ p # HeadNode => nkey[p] < nkey[next[p][i].ptr]
  BY ReadType DEF IndInv, TypeOK, LevelSorted, Leads, NodePtr

\* Steps that write no memory are fine once their thread is.
LEMMA QuietFine ==
  ASSUME IndInv, NEW t \in Thread, Others(t), ThreadOK(t)', Modest(t), UNCHANGED <<memory, retired>>
  PROVE  Fine(t)
  BY QuietSteady, ModestExclusive DEF Fine

\* A step of a thread that only searches, to a place where it holds at most one linked node.
ReaderPc == {"e_level", "e_scan", "f_top", "f_level", "f_scan", "f_check", "w_scan"}
LEMMA ReaderFine ==
  ASSUME IndInv, NEW t \in Thread, Others(t), UNCHANGED <<memory, retired>>,
         pc[t] \notin InsertPc, link'[t] = link[t], pc'[t] \in ReaderPc,
         pc'[t] \in {"e_scan", "f_scan", "f_check"} =>
           cur'[t].curr.ptr \in Node /\ status[cur'[t].curr.ptr] = "linked"
  PROVE  Fine(t)
  <1>1. link'[t] = 0 /\ status' = status
    BY Facts DEF FreshOK, memory, nodeInfo
  <1>2. LocalOK(t)' /\ FreshOK(t)'
    BY <1>1 DEF LocalOK, FreshOK, ReaderPc, InsertPc, SearchPc, VictimPc
  <1>3. InsertOK(t)' /\ SearchOK(t)' /\ EraseOK(t)'
    BY <1>1 DEF InsertOK, SearchOK, EraseOK, ReaderPc, InsertPc, SearchPc, VictimPc
  <1>4. Modest(t)
    BY DEF Modest, Private, Owns, ReaderPc, InsertPc
  <1> QED BY <1>2, <1>3, <1>4, QuietFine DEF ThreadOK

\* A call that returns and writes nothing but its locals.
LEMMA ReturnQuiet ==
  ASSUME IndInv, NEW t \in Thread, NEW o, Return(t, o), UNCHANGED <<memory, retired>>
  PROVE  Fine(t)
  BY ReturnFine, QuietSteady DEF Fine

\* What leaves the shared variables alone writes no memory.
LEMMA SharedQuiet == UNCHANGED shared => UNCHANGED <<memory, retired>>
  BY DEF shared, final

\* find, contains and for_each.
LEMMA ReadersFine ==
  ASSUME IndInv, NEW t \in Thread, Others(t)
  PROVE  /\ \A k \in Key : FindBegin(t, k) => Fine(t)
         /\ FindTop(t) => Fine(t)
         /\ FindLevel(t) => Fine(t)
         /\ FindScan(t) => Fine(t)
         /\ FindCheck(t) => Fine(t)
         /\ EachBegin(t) => Fine(t)
         /\ EachScan(t) => Fine(t)
  <1> DEFINE i == cur[t].lvl
             c == cur[t].curr.ptr
             succ == next[c][i]
             passed == IF succ.mark THEN cur[t].pred ELSE c
             Quiet == UNCHANGED <<args, arrays, history>>
  <1>0. TypeThread /\ LocalOK(t) /\ i \in Level /\ cur[t].pred \in Pred
    BY Facts
  <1>1. \A k \in Key : FindBegin(t, k) => Fine(t)
    <2> SUFFICES ASSUME NEW k \in Key, FindBegin(t, k) PROVE Fine(t)
      OBVIOUS
    <2>1. pc[t] = "idle" /\ pc'[t] = "f_level" /\ link'[t] = link[t]
      BY <1>0 DEF FindBegin, Start, Goto, TypeThread
    <2> QED BY <2>1, ReaderFine, SharedQuiet DEF FindBegin, InsertPc, ReaderPc
  <1>2. ASSUME FindTop(t) PROVE Fine(t)
    <2>1. pc[t] = "f_top" /\ pc'[t] = "f_level" /\ link'[t] = link[t]
      BY <1>0, <1>2 DEF FindTop, Goto, TypeThread, args
    <2> QED BY <1>2, <2>1, ReaderFine, SharedQuiet DEF FindTop, InsertPc, ReaderPc
  <1>3. ASSUME NEW p, FindLevelDone(t, p), pc[t] \notin InsertPc, UNCHANGED shared PROVE Fine(t)
    <2>1. CASE i > 0
      <3>1. pc'[t] = "f_level" /\ link'[t] = link[t]
        BY <1>0, <1>3, <2>1 DEF FindLevelDone, Goto, TypeThread, args
      <3> QED BY <1>3, <3>1, ReaderFine, SharedQuiet DEF ReaderPc
    <2>2. CASE ~(i > 0)
      BY <1>3, <2>2, ReturnQuiet, SharedQuiet DEF FindLevelDone
    <2> QED BY <2>1, <2>2
  <1>4. ASSUME FindLevel(t) PROVE Fine(t)
    <2> DEFINE r == next[cur[t].pred][i]
    <2>1. pc[t] = "f_level" /\ pc[t] \notin InsertPc
      BY <1>4 DEF FindLevel, InsertPc
    <2>2. CASE r.ptr = Null
      BY <1>3, <1>4, <2>1, <2>2 DEF FindLevel
    <2>3. CASE r.ptr # Null /\ r.mark
      <3>1. pc'[t] = "f_top" /\ link'[t] = link[t]
        BY <1>0, <1>4, <2>3 DEF FindLevel, Goto, TypeThread, args
      <3> QED BY <1>4, <2>1, <3>1, ReaderFine, SharedQuiet DEF FindLevel, ReaderPc
    <2>4. CASE r.ptr # Null /\ ~r.mark
      <3>1. pc'[t] = "f_scan" /\ link'[t] = link[t] /\ cur'[t].curr = r
        BY <1>0, <1>4, <2>4 DEF FindLevel, Goto, Scan, TypeThread, args
      <3>2. r.ptr \in Node /\ status[r.ptr] = "linked"
        BY <1>0, <2>4, ReadLeads
      <3> QED BY <1>4, <2>1, <3>1, <3>2, ReaderFine, SharedQuiet DEF FindLevel, ReaderPc
    <2> QED BY <2>2, <2>3, <2>4
  <1>5. ASSUME FindScan(t) PROVE Fine(t)
    <2>1. pc[t] = "f_scan" /\ pc[t] \notin InsertPc /\ c \in Node /\ c \in Pred
      BY <1>0, <1>5 DEF FindScan, InsertPc, LocalOK, Pred
    <2>2. \/ FindLevelDone(t, cur[t].pred)
          \/ FindLevelDone(t, passed)
          \/ Goto(t, "f_check") /\ UNCHANGED cur /\ Quiet
          \/ Scan(t, i, passed, To(succ.ptr)) /\ UNCHANGED pc /\ Quiet /\ succ.ptr # Null
      BY <1>5 DEF FindScan
    <2>3. CASE FindLevelDone(t, cur[t].pred) \/ FindLevelDone(t, passed)
      BY <1>3, <1>5, <2>1, <2>3 DEF FindScan
    <2>4. CASE Goto(t, "f_check") /\ UNCHANGED cur /\ Quiet
      <3>1. pc'[t] = "f_check" /\ link'[t] = link[t] /\ cur'[t] = cur[t]
        BY <1>0, <2>4 DEF Goto, TypeThread, args
      <3>2. status[c] = "linked"
        BY <1>5, Facts DEF SearchOK, FindScan
      <3> QED BY <1>5, <2>1, <3>1, <3>2, ReaderFine, SharedQuiet DEF FindScan, ReaderPc
    <2>5. CASE Scan(t, i, passed, To(succ.ptr)) /\ UNCHANGED pc /\ Quiet /\ succ.ptr # Null
      <3>1. pc'[t] = "f_scan" /\ link'[t] = link[t] /\ cur'[t].curr.ptr = succ.ptr
        BY <1>0, <2>1, <2>5 DEF Scan, To, TypeThread, args
      <3>2. succ.ptr \in Node /\ status[succ.ptr] = "linked"
        BY <1>0, <2>1, <2>5, ReadLeads
      <3> QED BY <1>5, <2>1, <3>1, <3>2, ReaderFine, SharedQuiet DEF FindScan, ReaderPc
    <2> QED BY <2>2, <2>3, <2>4, <2>5
  <1>6. ASSUME FindCheck(t) PROVE Fine(t)
    <2>1. CASE next[c][0].mark
      <3>1. pc[t] = "f_check" /\ pc'[t] = "f_top" /\ link'[t] = link[t]
        BY <1>0, <1>6, <2>1 DEF FindCheck, Goto, TypeThread, args
      <3> QED BY <1>6, <3>1, ReaderFine, SharedQuiet DEF FindCheck, ReaderPc, InsertPc
    <2>2. CASE ~next[c][0].mark
      BY <1>6, <2>2, ReturnQuiet, SharedQuiet DEF FindCheck
    <2> QED BY <2>1, <2>2
  <1>7. ASSUME EachBegin(t) PROVE Fine(t)
    <2>1. pc[t] = "idle" /\ pc'[t] = "w_scan" /\ link'[t] = link[t]
      BY <1>0, <1>7 DEF EachBegin, Start, Goto, TypeThread
    <2> QED BY <1>7, <2>1, ReaderFine, SharedQuiet DEF EachBegin, InsertPc, ReaderPc
  <1>8. ASSUME EachScan(t) PROVE Fine(t)
    <2>1. \/ \E o : Return(t, o)
          \/ Goto(t, "w_scan") /\ UNCHANGED link
      BY <1>8 DEF EachScan, EachGo
    <2>2. CASE \E o : Return(t, o)
      BY <1>8, <2>2, ReturnQuiet, SharedQuiet DEF EachScan
    <2>3. CASE Goto(t, "w_scan") /\ UNCHANGED link
      <3>1. pc[t] = "w_scan" /\ pc'[t] = "w_scan" /\ link'[t] = link[t]
        BY <1>0, <1>8, <2>3 DEF EachScan, Goto, TypeThread
      <3> QED BY <1>8, <3>1, ReaderFine, SharedQuiet DEF EachScan, InsertPc, ReaderPc
    <2> QED BY <2>1, <2>2, <2>3
  <1> QED BY <1>1, <1>2, <1>4, <1>5, <1>6, <1>7, <1>8

\* The keys of a path are integers, so they grow along two pointers as along one.
LEMMA LeadsTransitive ==
  ASSUME IndInv, NEW p \in Pred, NEW n \in Node, NEW q \in NodePtr, Leads(p, n), Leads(n, q)
  PROVE  Leads(p, q)
  <1>1. p # HeadNode => p \in Node
    BY DEF Pred
  <1>2. q # Null => q \in Node
    BY DEF NodePtr
  <1>3. \A m \in Node : nkey[m] \in Int
    BY KeyAssumption DEF IndInv, TypeOK, TypeMemory
  <1>4. n # Null /\ n # HeadNode
    BY NullAssumption
  <1> QED BY <1>1, <1>2, <1>3, <1>4 DEF Leads

\* The end of a level of erase's search, which chooses the victim at level 0.
LEMMA EraseLevelDoneFine ==
  ASSUME IndInv, NEW t \in Thread, Others(t), UNCHANGED shared, pc[t] \in {"e_level", "e_scan"},
         NEW p, NEW s \in NodePtr, s # Null => status[s] = "linked", EraseLevelDone(t, p, s)
  PROVE  Fine(t)
  <1> DEFINE i == cur[t].lvl
  <1>0. TypeThread /\ TypeMemory /\ LocalOK(t) /\ FreshOK(t) /\ pc[t] \notin InsertPc
    BY Facts DEF InsertPc
  <1>1. CASE i > 0
    <2>1. pc'[t] = "e_level" /\ link'[t] = link[t]
      BY <1>0, <1>1 DEF EraseLevelDone, Goto, TypeThread, args
    <2> QED BY <1>0, <2>1, ReaderFine, SharedQuiet DEF ReaderPc
  <1>2. CASE ~(i > 0) /\ s # Null /\ ~Before(s, key[t]) /\ ~After(s, key[t])
    <2>1. s \in Node /\ nheight[s] \in Level /\ status[s] = "linked"
      BY <1>0, <1>2 DEF NodePtr, TypeMemory
    <2>2. /\ Goto(t, IF nheight[s] > 0 THEN "e_mark" ELSE "e_claim")
          /\ node' = [node EXCEPT ![t] = s]
          /\ Enter(t, nheight[s], HeadNode)
          /\ UNCHANGED link
      BY <1>2 DEF EraseLevelDone
    <2>3. /\ pc'[t] = IF nheight[s] > 0 THEN "e_mark" ELSE "e_claim"
          /\ node'[t] = s /\ cur'[t].lvl = nheight[s] /\ link'[t] = 0
      BY <1>0, <2>2 DEF Goto, Enter, Scan, TypeThread, FreshOK
    <2>4. UNCHANGED <<next, nkey, nheight, status, retired>>
      BY SharedQuiet DEF memory, nodeInfo
    <2>5. LocalOK(t)' /\ FreshOK(t)'
      BY <2>1, <2>3 DEF LocalOK, FreshOK, InsertPc, SearchPc, VictimPc
    <2>6. InsertOK(t)' /\ SearchOK(t)'
      BY <2>3 DEF InsertOK, SearchOK, InsertPc, SearchPc
    <2>7. \A j \in Level : ~(nheight[s] < j /\ j <= nheight[s]) /\ (nheight[s] > 0 \/ ~(0 < j /\ j <= nheight[s]))
      <3>1. \A j, m \in Nat : ~(m < j /\ j <= m) /\ (m > 0 \/ ~(0 < j /\ j <= m))
        OBVIOUS
      <3> QED BY <2>1, <3>1, LevelFacts
    <2>8. EraseOK(t)'
      BY <2>1, <2>3, <2>4, <2>7 DEF EraseOK, Marked
    <2>9. Modest(t)
      BY <2>3 DEF Modest, Private, Owns, InsertPc
    <2> QED BY <2>5, <2>6, <2>8, <2>9, QuietFine, SharedQuiet DEF ThreadOK
  <1>3. CASE ~(i > 0) /\ ~(s # Null /\ ~Before(s, key[t]) /\ ~After(s, key[t]))
    BY <1>3, ReturnQuiet, SharedQuiet DEF EraseLevelDone
  <1> QED BY <1>1, <1>2, <1>3

\* The search of erase.
LEMMA EraseSearchFine ==
  ASSUME IndInv, NEW t \in Thread, Others(t)
  PROVE  /\ \A k \in Key : EraseBegin(t, k) => Fine(t)
         /\ EraseLevel(t) => Fine(t)
         /\ EraseScan(t) => Fine(t)
  <1> DEFINE i == cur[t].lvl
  <1>0. TypeThread /\ LocalOK(t) /\ SearchOK(t) /\ i \in Level /\ cur[t].pred \in Pred
    BY Facts
  <1>1. \A k \in Key : EraseBegin(t, k) => Fine(t)
    <2> SUFFICES ASSUME NEW k \in Key, EraseBegin(t, k) PROVE Fine(t)
      OBVIOUS
    <2>1. pc[t] = "idle" /\ pc'[t] = "e_level" /\ link'[t] = link[t]
      BY <1>0 DEF EraseBegin, Start, Goto, TypeThread
    <2> QED BY <2>1, ReaderFine, SharedQuiet DEF EraseBegin, InsertPc, ReaderPc
  <1>2. ASSUME EraseLevel(t) PROVE Fine(t)
    <2> DEFINE c == next[cur[t].pred][i]
    <2>1. pc[t] = "e_level" /\ UNCHANGED shared
      BY <1>2 DEF EraseLevel
    <2>2. CASE c.ptr = Null
      BY <1>2, <2>1, <2>2, EraseLevelDoneFine, ConstantTypes DEF EraseLevel
    <2>3. CASE c.ptr # Null
      <3>1. pc'[t] = "e_scan" /\ link'[t] = link[t] /\ cur'[t].curr.ptr = c.ptr
        BY <1>0, <1>2, <2>3 DEF EraseLevel, Goto, Scan, To, TypeThread, args
      <3>2. c.ptr \in Node /\ status[c.ptr] = "linked"
        BY <1>0, <2>3, ReadLeads
      <3> QED BY <2>1, <3>1, <3>2, ReaderFine, SharedQuiet DEF ReaderPc, InsertPc
    <2> QED BY <2>2, <2>3
  <1>3. ASSUME EraseScan(t) PROVE Fine(t)
    <2> DEFINE c == cur[t].curr.ptr
               succ == next[c][i]
               passed == IF succ.mark THEN cur[t].pred ELSE c
    <2>1. pc[t] = "e_scan" /\ UNCHANGED shared
      BY <1>3 DEF EraseScan
    <2>2. c \in Node /\ c \in Pred /\ c \in NodePtr /\ status[c] = "linked"
      BY <1>0, <2>1 DEF LocalOK, SearchOK, Pred, NodePtr
    <2>3. CASE ~succ.mark /\ ~Before(c, key[t])
      BY <1>3, <2>1, <2>2, <2>3, EraseLevelDoneFine DEF EraseScan
    <2>4. CASE ~(~succ.mark /\ ~Before(c, key[t])) /\ succ.ptr = Null
      BY <1>3, <2>1, <2>4, EraseLevelDoneFine, ConstantTypes DEF EraseScan
    <2>5. CASE ~(~succ.mark /\ ~Before(c, key[t])) /\ succ.ptr # Null
      <3>1. Scan(t, i, passed, To(succ.ptr)) /\ UNCHANGED <<pc, args>>
        BY <1>3, <2>5 DEF EraseScan
      <3>2. pc'[t] = "e_scan" /\ link'[t] = link[t] /\ cur'[t].curr.ptr = succ.ptr
        BY <1>0, <2>1, <3>1 DEF Scan, To, TypeThread, args
      <3>3. succ.ptr \in Node /\ status[succ.ptr] = "linked"
        BY <1>0, <2>2, <2>5, ReadLeads
      <3> QED BY <2>1, <3>2, <3>3, ReaderFine, SharedQuiet DEF ReaderPc, InsertPc
    <2> QED BY <2>3, <2>4, <2>5
  <1> QED BY <1>1, <1>2, <1>3

\* Setting a mark changes nothing else, and nothing at all where it is set already.
LEMMA WithMarkSteady ==
  ASSUME IndInv, NEW t \in Thread, NEW n \in Node, NEW i \in Level, i = 0 => Marked(n, 0),
         next' = WithMark(n, i), UNCHANGED <<nodeInfo, retired>>
  PROVE  /\ Steady(t) /\ next'[n][i].mark
         /\ \A m \in Node, j \in Level : next[m][j].mark => next'[m][j].mark
  <1> DEFINE v == [ptr |-> next[n][i].ptr, mark |-> TRUE]
  <1>1. n \in Pred /\ next[n][i] \in Link /\ v \in Link
    BY ReadType DEF IndInv, TypeOK, Pred, Link
  <1>2. Leads(n, v.ptr)
    BY <1>1 DEF IndInv, LevelSorted
  <1>3. next[n][i].mark => v = next[n][i]
    BY <1>1 DEF Link
  <1>4. next' = WithLink(n, i, v)
    BY DEF WithMark
  <1>5. Steady(t)
    BY <1>1, <1>2, <1>3, <1>4, WriteSteady
  <1>6. \A m \in Node, j \in Level : next'[m][j] = IF m = n /\ j = i THEN v ELSE next[m][j]
    BY <1>1, <1>4 DEF WithLink, IndInv, TypeOK, TypeMemory, Pred
  <1> QED BY <1>5, <1>6

\* erase marks, claims, unlinks, retires and counts its victim.
LEMMA EraseFine ==
  ASSUME IndInv, NEW t \in Thread, Others(t)
  PROVE  /\ EraseMark(t) => Fine(t)
         /\ EraseClaim(t) => Fine(t)
         /\ EraseUnlink(t) => Fine(t)
         /\ EraseRetire(t) => Fine(t)
         /\ EraseCount(t) => Fine(t)
  <1> DEFINE i == cur[t].lvl
             v == node[t]
  <1>0. TypeThread /\ TypeMemory /\ LocalOK(t) /\ FreshOK(t) /\ EraseOK(t) /\ i \in Level
    BY Facts
  <1>1. ASSUME EraseMark(t) PROVE Fine(t)
    <2>1. v \in Node /\ status[v] = "linked" /\ i > 0 /\ Marked(v, i) /\ link[t] = 0
      BY <1>0, <1>1 DEF EraseMark, LocalOK, EraseOK, FreshOK, VictimPc, InsertPc
    <2>2. next' = WithMark(v, i) /\ UNCHANGED <<nodeInfo, retired>> /\ i # 0
      BY <1>1, <2>1, LevelFacts, <1>0 DEF EraseMark, Marking, final
    <2>3. /\ Steady(t) /\ next'[v][i].mark
          /\ \A m \in Node, j \in Level : next[m][j].mark => next'[m][j].mark
      BY <1>0, <2>1, <2>2, WithMarkSteady
    <2>4. /\ pc'[t] = IF i = 1 THEN "e_claim" ELSE "e_mark"
          /\ node'[t] = v /\ cur'[t].lvl = i - 1 /\ link'[t] = 0
      BY <1>0, <1>1, <2>1 DEF EraseMark, Goto, Enter, Scan, TypeThread, args
    <2>5. i \in Nat /\ \A j \in Level : j \in Nat
      BY <1>0, LevelFacts
    <2>6. LocalOK(t)' /\ FreshOK(t)' /\ InsertOK(t)' /\ SearchOK(t)'
      BY <2>1, <2>4, <2>5 DEF LocalOK, FreshOK, InsertOK, SearchOK, InsertPc, SearchPc, VictimPc
    <2>7. \A j \in Level : i - 1 < j /\ j <= nheight'[v] => next'[v][j].mark
      <3> SUFFICES ASSUME NEW j \in Level, i - 1 < j, j <= nheight[v] PROVE next'[v][j].mark
        BY <2>2 DEF nodeInfo
      <3>1. j = i \/ i < j
        BY <2>5
      <3> QED BY <3>1, <2>1, <2>3 DEF Marked
    <2>8. EraseOK(t)'
      BY <2>1, <2>2, <2>4, <2>7 DEF EraseOK, Marked, nodeInfo
    <2>9. Modest(t)
      BY <2>4 DEF Modest, Private, Owns, InsertPc
    <2> QED BY <2>3, <2>6, <2>8, <2>9, ModestExclusive DEF Fine, ThreadOK
  <1>2. ASSUME EraseClaim(t) PROVE Fine(t)
    <2>1. v \in Node /\ status[v] = "linked" /\ Marked(v, 0) /\ link[t] = 0
      BY <1>0, <1>2 DEF EraseClaim, LocalOK, EraseOK, FreshOK, VictimPc, InsertPc
    <2>2. CASE next[v][0].mark
      BY <1>2, <2>2, ReturnQuiet DEF EraseClaim, memory, final
    <2>3. CASE ~next[v][0].mark
      <3>1. /\ next' = WithMark(v, 0) /\ UNCHANGED <<nodeInfo, retired, args>>
            /\ Goto(t, "e_unlink") /\ Enter(t, nheight[v], HeadNode)
        BY <1>2, <2>3 DEF EraseClaim, final
      <3>2. Steady(t) /\ next'[v][0].mark
        BY <2>1, <3>1, LevelFacts, WithMarkSteady
      <3>3. pc'[t] = "e_unlink" /\ node'[t] = v /\ link'[t] = 0
        BY <1>0, <2>1, <3>1 DEF Goto, TypeThread, args
      <3>4. LocalOK(t)' /\ FreshOK(t)' /\ InsertOK(t)' /\ SearchOK(t)'
        BY <2>1, <3>3 DEF LocalOK, FreshOK, InsertOK, SearchOK, InsertPc, SearchPc, VictimPc
      <3>5. v \notin Retired'
        BY <2>3, <3>1, Facts DEF RetiredOK, Retired
      <3>6. EraseOK(t)'
        BY <2>1, <3>1, <3>2, <3>3, <3>5 DEF EraseOK, nodeInfo
      <3>7. \A u \in Thread : Owns(u) => node[u] # v
        BY <2>3, Facts DEF EraseOK, Owns
      <3>8. Exclusive'
        BY <3>3, <3>7, Facts DEF Exclusive, Others, Private, Owns, InsertPc
      <3> QED BY <3>2, <3>4, <3>6, <3>8 DEF Fine, ThreadOK
    <2> QED BY <2>2, <2>3
  <1>3. ASSUME EraseUnlink(t) PROVE Fine(t)
    <2>1. /\ v \in Node /\ v \in Pred /\ status[v] = "linked" /\ link[t] = 0
          /\ next[v][0].mark /\ v \notin Retired
      BY <1>0, <1>3 DEF EraseUnlink, LocalOK, EraseOK, FreshOK, VictimPc, InsertPc, Pred
    <2>2. UNCHANGED <<nodeInfo, retired>>
      BY <1>3 DEF EraseUnlink, final
    <2>3. Steady(t)
      <3>1. PICK p \in PredAt(t, i) :
              next' = IF Holds(p, i, To(v)) THEN WithLink(p, i, To(next[v][i].ptr)) ELSE next
        BY <1>3 DEF EraseUnlink
      <3>2. p \in Pred
        BY <1>0 DEF PredAt, Pred, TypeThread
      <3>3. CASE ~Holds(p, i, To(v))
        BY <2>2, <3>1, <3>3, QuietSteady DEF memory
      <3>4. CASE Holds(p, i, To(v))
        <4>1. next[v][i].ptr \in NodePtr /\ To(next[v][i].ptr) \in Link
          BY <1>0, <2>1, ReadType
        <4>2. Leads(p, v) /\ Leads(v, next[v][i].ptr)
          BY <1>0, <2>1, <3>2, <3>4, Facts DEF LevelSorted, Holds, To
        <4>3. Leads(p, To(next[v][i].ptr).ptr)
          BY <2>1, <3>2, <4>1, <4>2, LeadsTransitive DEF To
        <4>4. ~next[p][i].mark /\ ~To(next[v][i].ptr).mark
          BY <3>4 DEF Holds, To
        <4>5. next' = WithLink(p, i, To(next[v][i].ptr))
          BY <3>1, <3>4
        <4> QED BY <1>0, <2>2, <3>2, <4>1, <4>3, <4>4, <4>5, WriteSteady
      <3> QED BY <3>3, <3>4
    <2>4. next'[v][0].mark /\ v \notin Retired' /\ status' = status
      BY <2>1, <2>2, <2>3, LevelFacts DEF Steady, Frozen, Retired, nodeInfo
    <2>5. pc'[t] \in {"e_unlink", "e_retire"} /\ node'[t] = v /\ link'[t] = 0
      BY <1>0, <1>3, <2>1 DEF EraseUnlink, Goto, TypeThread, args
    <2>6. LocalOK(t)' /\ FreshOK(t)' /\ InsertOK(t)' /\ SearchOK(t)'
      BY <2>1, <2>5 DEF LocalOK, FreshOK, InsertOK, SearchOK, InsertPc, SearchPc, VictimPc
    <2>7. EraseOK(t)'
      BY <2>1, <2>4, <2>5 DEF EraseOK
    <2>8. Modest(t)
      BY <1>3, <2>5 DEF Modest, Private, Owns, InsertPc, EraseUnlink
    <2> QED BY <2>3, <2>6, <2>7, <2>8, ModestExclusive DEF Fine, ThreadOK
  <1>4. ASSUME EraseRetire(t) PROVE Fine(t)
    <2>1. /\ v \in Node /\ status[v] = "linked" /\ link[t] = 0 /\ pc[t] = "e_retire"
          /\ next[v][0].mark /\ v \notin Retired
      BY <1>0, <1>4 DEF EraseRetire, LocalOK, EraseOK, FreshOK, VictimPc, InsertPc
    <2>2. retired' = <<v>> \o retired /\ UNCHANGED <<next, nkey, nheight, status>>
      BY <1>4 DEF EraseRetire, memory, nodeInfo
    <2>3. retired \in Seq(Node)
      BY Facts DEF TypeShared
    <2>4. /\ Len(retired') = Len(retired) + 1 /\ Len(retired) \in Nat
          /\ \A j \in 1 .. Len(retired') : retired'[j] = IF j = 1 THEN v ELSE retired[j - 1]
      BY <2>1, <2>2, <2>3
    <2>5. Retired' = Retired \cup {v}
      <3>1. \A j \in 1 .. Len(retired') : retired'[j] \in Retired \cup {v}
        BY <2>4 DEF Retired
      <3>2. \A j \in 1 .. Len(retired) : j + 1 \in 1 .. Len(retired') /\ retired'[j + 1] = retired[j]
        BY <2>4
      <3>3. 1 \in 1 .. Len(retired') /\ retired'[1] = v
        BY <2>4
      <3>4. \A n \in Retired \cup {v} : \E j \in 1 .. Len(retired') : retired'[j] = n
        BY <3>2, <3>3 DEF Retired
      <3>5. Retired' = {retired'[j] : j \in 1 .. Len(retired')}
        BY DEF Retired
      <3> QED BY <3>1, <3>4, <3>5
    <2>6. RetiredOK'
      <3>1. RetiredOK
        BY Facts
      <3>2. \A n \in Retired' : status[n] = "linked" /\ next[n][0].mark
        BY <2>1, <2>5, <3>1 DEF RetiredOK
      <3>3. \A j, m \in 1 .. Len(retired') : retired'[j] = retired'[m] => j = m
        <4> SUFFICES ASSUME NEW j \in 1 .. Len(retired'), NEW m \in 1 .. Len(retired'),
                            retired'[j] = retired'[m], j # m
                     PROVE  FALSE
          OBVIOUS
        <4>1. \A b \in 2 .. Len(retired') : b - 1 \in 1 .. Len(retired) /\ retired'[b] = retired[b - 1]
          BY <2>4
        <4>2. \A b \in 2 .. Len(retired') : retired'[b] # v
          BY <2>1, <4>1 DEF Retired
        <4>3. j \in 2 .. Len(retired') /\ m \in 2 .. Len(retired')
          BY <2>4, <4>2
        <4>4. j - 1 = m - 1
          BY <3>1, <4>1, <4>3 DEF RetiredOK, RetiredOnce
        <4> QED BY <4>3, <4>4
      <3>4. Retired' \cap Live' = {}
        BY <2>2, <3>2 DEF Live
      <3> QED BY <2>2, <3>2, <3>3, <3>4 DEF RetiredOK, RetiredOnce
    <2>7. LevelSorted' /\ MarkOrder'
      BY <2>2, Facts DEF LevelSorted, Leads, MarkOrder
    <2>8. Keeps(t) /\ Frozen
      BY <2>1, <2>2, <2>5 DEF Keeps, Same, Frozen, Owns
    <2>9. pc'[t] = "e_count" /\ node'[t] = v /\ link'[t] = 0
      BY <1>0, <1>4, <2>1 DEF EraseRetire, Goto, TypeThread, args
    <2>10. LocalOK(t)' /\ FreshOK(t)' /\ InsertOK(t)' /\ SearchOK(t)'
      BY <2>1, <2>9 DEF LocalOK, FreshOK, InsertOK, SearchOK, InsertPc, SearchPc, VictimPc
    <2>11. EraseOK(t)' /\ Modest(t)
      BY <2>1, <2>2, <2>9 DEF EraseOK, Modest, Private, Owns, InsertPc
    <2> QED BY <2>6, <2>7, <2>8, <2>10, <2>11, ModestExclusive DEF Fine, Steady, ThreadOK
  <1>5. ASSUME EraseCount(t) PROVE Fine(t)
    BY <1>5, ReturnQuiet DEF EraseCount, final
  <1> QED BY <1>1, <1>2, <1>3, <1>4, <1>5

\* A step inside insert that leaves its node alone.
LEMMA InsertStays ==
  ASSUME IndInv, NEW t \in Thread, pc[t] \in InsertPc, pc[t] # "i_count", pc'[t] \in InsertPc,
         pc'[t] # "i_publish", pc'[t] = "i_count" => link[t] > 0, UNCHANGED <<args, nodeInfo>>,
         \A i \in Level : /\ preds'[t][i] # Uninit => Under(preds'[t][i], key[t])
                          /\ Over(succs'[t][i], key[t])
  PROVE  FreshOK(t)' /\ InsertOK(t)' /\ EraseOK(t)' /\ Modest(t)
  <1>1. UNCHANGED <<nkey, nheight, status, key, node, link>>
    BY DEF args, nodeInfo
  <1>2. InsertOK(t) /\ link[t] \in Nat
    BY Facts, LevelFacts
  <1>3. Private(t)' = Private(t)
    BY <1>1, <1>2 DEF Private
  <1>4. FreshOK(t)' /\ EraseOK(t)' /\ Modest(t)
    BY <1>1, <1>3 DEF FreshOK, EraseOK, Modest, Owns, InsertPc, VictimPc
  <1>5. InsertOK(t)'
    BY <1>1, <1>2, <1>3 DEF InsertOK, Under, Over
  <1> QED BY <1>4, <1>5

\* A step of insert between two searches.
LEMMA InsertRests ==
  ASSUME IndInv, NEW t \in Thread, pc[t] \in InsertPc, pc[t] # "i_count",
         pc'[t] \in {"i_top", "i_check", "i_link", "i_relink", "i_count"},
         pc'[t] # "i_top" => link[t] > 0, UNCHANGED <<args, arrays, nodeInfo>>
  PROVE  ThreadOK(t)' /\ Modest(t)
  <1>1. UNCHANGED <<nheight, key, node, link, preds, succs>>
    BY DEF args, arrays, nodeInfo
  <1>2. LocalOK(t) /\ InsertOK(t)
    BY Facts
  <1>3. pc'[t] \in InsertPc /\ pc'[t] \notin SearchPc /\ pc'[t] \notin VictimPc
    BY DEF InsertPc, SearchPc, VictimPc
  <1>4. FreshOK(t)' /\ InsertOK(t)' /\ EraseOK(t)' /\ Modest(t)
    BY <1>1, <1>2, <1>3, InsertStays DEF InsertOK
  <1>5. LocalOK(t)'
    BY <1>1, <1>2, <1>3 DEF LocalOK
  <1>6. SearchOK(t)'
    BY <1>3 DEF SearchOK
  <1> QED BY <1>4, <1>5, <1>6 DEF ThreadOK

\* A step of insert's search along its level.
LEMMA InsertMoves ==
  ASSUME IndInv, NEW t \in Thread, pc[t] \in SearchPc, pc'[t] \in {"i_scan", "i_live", "i_splice"},
         UNCHANGED <<args, arrays, nodeInfo>>, cur'[t].lvl = cur[t].lvl,
         Under(cur'[t].pred, key[t]),
         cur'[t].curr.ptr \in Node, status[cur'[t].curr.ptr] = "linked",
         pc'[t] # "i_scan" => ~cur'[t].curr.mark /\ Over(cur'[t].live, nkey[cur'[t].curr.ptr]),
         pc'[t] = "i_live" => cur'[t].live \in Node
  PROVE  ThreadOK(t)' /\ Modest(t)
  <1>1. UNCHANGED <<nkey, nheight, status, key, node, link, preds, succs>>
    BY DEF args, arrays, nodeInfo
  <1>2. LocalOK(t) /\ InsertOK(t)
    BY Facts
  <1>3. pc[t] \in InsertPc /\ pc'[t] \in InsertPc /\ pc'[t] \in SearchPc /\ pc'[t] \notin VictimPc
    BY DEF InsertPc, SearchPc, VictimPc
  <1>4. FreshOK(t)' /\ InsertOK(t)' /\ EraseOK(t)' /\ Modest(t)
    BY <1>1, <1>2, <1>3, InsertStays DEF InsertOK, SearchPc
  <1>5. LocalOK(t)'
    BY <1>1, <1>2, <1>3 DEF LocalOK
  <1>6. SearchOK(t)'
    BY <1>1, <1>3 DEF SearchOK, Under, Over
  <1> QED BY <1>4, <1>5, <1>6 DEF ThreadOK

\* The block a thread creates is nobody's, and nothing points at it.
LEMMA InsertBeginFine ==
  ASSUME IndInv, NEW t \in Thread, Others(t), NEW k \in Key, NEW h \in Level, NEW n \in Node,
         InsertBegin(t, k, h, n)
  PROVE  Fine(t)
  <1>0. TypeThread /\ TypeMemory /\ LocalOK(t) /\ FreshOK(t) /\ LevelSorted /\ MarkOrder
    BY Facts
  <1>1. pc[t] = "idle" /\ status[n] = "free" /\ link[t] = 0 /\ preds[t] = NoPreds /\ succs[t] = NoSuccs
    BY <1>0 DEF InsertBegin, Start, FreshOK, InsertPc
  <1>2. /\ pc'[t] = "i_top" /\ key'[t] = k /\ node'[t] = n
        /\ link'[t] = 0 /\ preds'[t] = NoPreds /\ succs'[t] = NoSuccs
    BY <1>0, <1>1 DEF InsertBegin, Start, Goto, TypeThread, arrays
  <1>3. /\ \A m \in Node : /\ m # n => Same(m)
                           /\ status'[n] = "private" /\ nkey'[n] = k /\ nheight'[n] = h
        /\ \A p \in Pred : p # n => next'[p] = next[p]
        /\ \A i \in Level : next'[n][i] = To(Null)
        /\ UNCHANGED retired
    BY <1>0 DEF InsertBegin, TypeMemory, Same, Pred, final
  <1>4. \A p \in Pred, i \in Level : next[p][i].ptr # n
    BY <1>1, ReadLeads, NullAssumption
  <1>5. LevelSorted'
    <2> SUFFICES ASSUME NEW p \in Pred, NEW i \in Level PROVE Leads(p, next[p][i].ptr)'
      BY DEF LevelSorted
    <2>1. CASE p = n
      BY <1>3, <2>1 DEF Leads, To
    <2>2. CASE p # n
      <3>1. next'[p][i] = next[p][i] /\ next[p][i].ptr \in NodePtr /\ next[p][i].ptr # n
        BY <1>3, <1>4, <2>2, ReadLeads
      <3>2. Leads(p, next[p][i].ptr)
        BY <1>0 DEF LevelSorted
      <3> QED BY <1>3, <2>2, <3>1, <3>2 DEF Leads, Same, Pred, NodePtr
    <2> QED BY <2>1, <2>2
  <1>6. MarkOrder'
    <2> SUFFICES ASSUME NEW m \in Node, next'[m][0].mark, NEW j \in 0 .. nheight'[m] PROVE next'[m][j].mark
      BY DEF MarkOrder
    <2>1. m # n
      BY <1>3, LevelFacts DEF To
    <2>2. next'[m] = next[m] /\ nheight'[m] = nheight[m]
      BY <1>3, <2>1 DEF Pred, Same
    <2> QED BY <1>0, <2>2 DEF MarkOrder
  <1>7. Keeps(t) /\ Frozen
    <2>1. Keeps(t)
      BY <1>1, <1>3 DEF Keeps, Retired
    <2>2. Frozen
      BY <1>1, <1>3 DEF Frozen, Pred
    <2> QED BY <2>1, <2>2
  <1>8. RetiredOK'
    <2>1. RetiredOK /\ Retired \subseteq Node /\ Retired' = Retired
      BY <1>3, Facts DEF TypeShared, Retired
    <2>2. \A m \in Retired : m # n /\ Same(m) /\ next'[m] = next[m]
      BY <1>1, <1>3, <2>1 DEF RetiredOK, Pred
    <2>3. \A m \in Retired' : status'[m] = "linked" /\ next'[m][0].mark
      BY <2>1, <2>2 DEF RetiredOK, Same
    <2>4. Retired' \cap Live' = {}
      BY <2>3 DEF Live
    <2> QED BY <1>3, <2>1, <2>3, <2>4 DEF RetiredOK, RetiredOnce
  <1>9. LocalOK(t)' /\ FreshOK(t)' /\ SearchOK(t)' /\ EraseOK(t)'
    <2>1. 0 <= h
      BY DEF Level
    <2> QED BY <1>2, <1>3, <2>1 DEF LocalOK, FreshOK, SearchOK, EraseOK, InsertPc, SearchPc, VictimPc
  <1>10. InsertOK(t)'
    BY <1>2, <1>3 DEF InsertOK, Private, InsertPc, Over, NoPreds, NoSuccs
  <1>11. Exclusive'
    <2>1. \A u \in Thread : u # t /\ Private(u) => node[u] # n
      BY <1>1, Facts DEF InsertOK, Private
    <2> QED BY <1>2, <2>1, Facts DEF Exclusive, Others, Private, Owns
  <1> QED BY <1>5, <1>6, <1>7, <1>8, <1>9, <1>10, <1>11 DEF Fine, Steady, ThreadOK

\* insert destroys the node it did not publish.
LEMMA InsertExistsFine ==
  ASSUME IndInv, NEW t \in Thread, NEW o, pc[t] = "i_scan", link[t] = 0, Return(t, o),
         status' = [status EXCEPT ![node[t]] = "free"],
         next' = [next EXCEPT ![node[t]] = [j \in Level |-> To(Null)]],
         UNCHANGED <<nkey, nheight, retired>>
  PROVE  Fine(t)
  <1> DEFINE n == node[t]
  <1>0. TypeThread /\ TypeMemory /\ LocalOK(t) /\ InsertOK(t) /\ LevelSorted /\ MarkOrder
    BY Facts
  <1>1. n \in Node /\ status[n] = "private" /\ Private(t)
    BY <1>0 DEF LocalOK, InsertOK, Private, InsertPc
  <1>2. /\ \A m \in Node : m # n => Same(m)
        /\ \A p \in Pred : p # n => next'[p] = next[p]
        /\ \A i \in Level : next'[n][i] = To(Null)
    BY <1>0, <1>1 DEF TypeMemory, Same, Pred
  <1>3. \A p \in Pred, i \in Level : next[p][i].ptr # n
    BY <1>1, ReadLeads, NullAssumption
  <1>4. LevelSorted'
    <2> SUFFICES ASSUME NEW p \in Pred, NEW i \in Level PROVE Leads(p, next[p][i].ptr)'
      BY DEF LevelSorted
    <2>1. CASE p = n
      BY <1>2, <2>1 DEF Leads, To
    <2>2. CASE p # n
      <3>1. next'[p][i] = next[p][i] /\ next[p][i].ptr \in NodePtr /\ next[p][i].ptr # n
        BY <1>2, <1>3, <2>2, ReadLeads
      <3>2. Leads(p, next[p][i].ptr)
        BY <1>0 DEF LevelSorted
      <3> QED BY <1>2, <2>2, <3>1, <3>2 DEF Leads, Same, Pred, NodePtr
    <2> QED BY <2>1, <2>2
  <1>5. MarkOrder'
    <2> SUFFICES ASSUME NEW m \in Node, next'[m][0].mark, NEW j \in 0 .. nheight[m] PROVE next'[m][j].mark
      BY DEF MarkOrder
    <2>1. m # n
      BY <1>2, LevelFacts DEF To
    <2> QED BY <1>0, <1>2, <2>1 DEF MarkOrder, Pred
  <1>6. Keeps(t) /\ Frozen
    BY <1>1, <1>2 DEF Keeps, Retired, Frozen, Pred
  <1>7. RetiredOK'
    <2>1. RetiredOK /\ Retired \subseteq Node /\ Retired' = Retired
      BY Facts DEF TypeShared, Retired
    <2>2. \A m \in Retired : m # n /\ Same(m) /\ next'[m] = next[m]
      BY <1>1, <1>2, <2>1 DEF RetiredOK, Pred
    <2>3. \A m \in Retired' : status'[m] = "linked" /\ next'[m][0].mark
      BY <2>1, <2>2 DEF RetiredOK, Same
    <2>4. Retired' \cap Live' = {}
      BY <2>3 DEF Live
    <2> QED BY <2>1, <2>3, <2>4 DEF RetiredOK, RetiredOnce
  <1> QED BY <1>4, <1>5, <1>6, <1>7, ReturnFine DEF Fine, Steady

\* Steps that write memory soundly are fine once their thread is.
LEMMA ActFine ==
  ASSUME IndInv, NEW t \in Thread, Others(t), ThreadOK(t)', Modest(t), Steady(t)
  PROVE  Fine(t)
  BY ModestExclusive DEF Fine

\* The search of insert.
LEMMA InsertSearchFine ==
  ASSUME IndInv, NEW t \in Thread, Others(t)
  PROVE  /\ InsertTop(t) => Fine(t)
         /\ InsertLevel(t) => Fine(t)
         /\ InsertScan(t) => Fine(t)
         /\ InsertLive(t) => Fine(t)
         /\ InsertSplice(t) => Fine(t)
  <1> DEFINE i == cur[t].lvl
             p == cur[t].pred
             c == cur[t].curr.ptr
             live == cur[t].live
  <1>0. /\ TypeThread /\ TypeMemory /\ TypeShared /\ LocalOK(t) /\ FreshOK(t) /\ InsertOK(t) /\ SearchOK(t)
        /\ LevelSorted
        /\ i \in Level /\ p \in Pred /\ live \in NodePtr
    BY Facts
  <1>1. ASSUME InsertTop(t) PROVE Fine(t)
    <2>1. /\ pc[t] = "i_top" /\ pc'[t] = "i_level" /\ cur'[t].lvl = maxHeight /\ cur'[t].pred = HeadNode
          /\ \A j \in Level : /\ preds'[t][j] = IF j > maxHeight THEN HeadNode ELSE preds[t][j]
                              /\ succs'[t][j] = IF j > maxHeight THEN Null ELSE succs[t][j]
          /\ UNCHANGED <<args, nodeInfo>> /\ UNCHANGED <<nheight, key, node, link>>
      BY <1>0, <1>1 DEF InsertTop, Goto, Enter, Scan, TypeThread, args, shared, memory, nodeInfo
    <2>2. \A j \in Level : /\ preds'[t][j] # Uninit => Under(preds'[t][j], key[t])
                           /\ Over(succs'[t][j], key[t])
      BY <1>0, <2>1 DEF InsertOK, InsertPc, Under, Over
    <2>3. FreshOK(t)' /\ InsertOK(t)' /\ EraseOK(t)' /\ Modest(t)
      BY <2>1, <2>2, InsertStays DEF InsertPc
    <2>4. LocalOK(t)'
      BY <1>0, <2>1, NullAssumption DEF LocalOK, InsertPc, SearchPc, VictimPc
    <2>5. SearchOK(t)'
      BY <2>1 DEF SearchOK, SearchPc, Under
    <2> QED BY <1>1, <2>3, <2>4, <2>5, QuietFine, SharedQuiet DEF InsertTop, ThreadOK
  <1>2. ASSUME NEW q \in Pred, NEW s \in NodePtr, pc[t] \in SearchPc, Under(q, key[t]), Over(s, key[t]),
               InsertLevelDone(t, q, s), UNCHANGED <<args, memory, retired>>
        PROVE  Fine(t)
    BY <1>2, InsertLevelDoneFine, QuietFine DEF memory
  <1>3. ASSUME InsertLevel(t) PROVE Fine(t)
    <2> DEFINE r == next[p][i]
    <2>1. pc[t] = "i_level" /\ pc[t] \in SearchPc /\ UNCHANGED <<memory, retired, args>>
      BY <1>3, SharedQuiet DEF InsertLevel, SearchPc
    <2>2. Under(p, key[t])
      BY <1>0, <2>1 DEF SearchOK
    <2>3. CASE r.ptr = Null
      BY <1>0, <1>2, <1>3, <2>1, <2>2, <2>3, ConstantTypes DEF InsertLevel, Over
    <2>4. CASE r.ptr # Null
      <3>1. Goto(t, "i_scan") /\ Scan(t, i, p, r) /\ UNCHANGED arrays
        BY <1>3, <2>4 DEF InsertLevel
      <3>2. pc'[t] = "i_scan" /\ cur'[t].lvl = i /\ cur'[t].pred = p /\ cur'[t].curr = r
        BY <1>0, <3>1 DEF Goto, Scan, TypeThread
      <3>3. r.ptr \in Node /\ status[r.ptr] = "linked"
        BY <1>0, <2>4, ReadLeads
      <3>4. ThreadOK(t)' /\ Modest(t)
        BY <2>1, <2>2, <3>1, <3>2, <3>3, InsertMoves DEF memory
      <3> QED BY <2>1, <3>4, QuietFine
    <2> QED BY <2>3, <2>4
  <1>4. ASSUME InsertScan(t) PROVE Fine(t)
    <2> DEFINE succ == next[c][i]
    <2>1. /\ pc[t] = "i_scan" /\ pc[t] \in SearchPc /\ pc[t] \in InsertPc
          /\ UNCHANGED <<retired>>
      BY <1>4 DEF InsertScan, SearchPc, InsertPc, final
    <2>2. /\ Under(p, key[t]) /\ c \in Node /\ c \in Pred /\ c \in NodePtr /\ status[c] = "linked"
          /\ key[t] \in Key /\ c # HeadNode
      BY <1>0, <2>1, NullAssumption DEF SearchOK, LocalOK, InsertPc, Pred, NodePtr
    <2>3. /\ succ \in Link /\ succ.ptr \in NodePtr
          /\ succ.ptr # Null => /\ succ.ptr \in Node /\ status[succ.ptr] = "linked"
                                /\ nkey[c] < nkey[succ.ptr]
      BY <1>0, <2>2, ReadLeads, ReadType
    <2>4. nkey[c] \in Int /\ key[t] \in Int
      BY <1>0, <2>2, KeyAssumption DEF TypeMemory
    <2>5. \/ InsertRetry(t) /\ UNCHANGED <<memory, args, history>>
          \/ /\ ~cur[t].curr.mark /\ succ.mark
             /\ Goto(t, IF succ.ptr = Null THEN "i_splice" ELSE "i_live")
             /\ Survivor(t, succ.ptr) /\ UNCHANGED <<memory, args, arrays>>
          \/ /\ nkey[c] < key[t] /\ succ.ptr = Null
             /\ InsertLevelDone(t, c, Null) /\ UNCHANGED <<memory, args>>
          \/ /\ nkey[c] < key[t] /\ succ.ptr # Null
             /\ Scan(t, i, c, succ) /\ UNCHANGED <<pc, arrays, memory, args>>
          \/ /\ nkey[c] > key[t]
             /\ InsertLevelDone(t, p, c) /\ UNCHANGED <<memory, args>>
          \/ /\ link[t] = 0
             /\ status' = [status EXCEPT ![node[t]] = "free"]
             /\ next' = [next EXCEPT ![node[t]] = [j \in Level |-> To(Null)]]
             /\ Return(t, Outcome("exists", {})) /\ UNCHANGED <<nkey, nheight>>
          \/ link[t] > 0 /\ Goto(t, "i_relink") /\ UNCHANGED <<memory, args, arrays>>
      BY <1>4 DEF InsertScan, Before, After
    <2>6. CASE InsertRetry(t) /\ UNCHANGED <<memory, args, history>>
      <3>1. pc'[t] = "i_top" /\ UNCHANGED arrays
        BY <1>0, <2>6 DEF InsertRetry, Goto, TypeThread
      <3>2. ThreadOK(t)' /\ Modest(t)
        BY <2>1, <2>6, <3>1, InsertRests DEF memory
      <3> QED BY <2>1, <2>6, <3>2, QuietFine
    <2>7. CASE /\ ~cur[t].curr.mark /\ succ.mark
               /\ Goto(t, IF succ.ptr = Null THEN "i_splice" ELSE "i_live")
               /\ Survivor(t, succ.ptr) /\ UNCHANGED <<memory, args, arrays>>
      <3>1. /\ pc'[t] = IF succ.ptr = Null THEN "i_splice" ELSE "i_live"
            /\ cur'[t].lvl = i /\ cur'[t].pred = p /\ cur'[t].curr = cur[t].curr
            /\ cur'[t].live = succ.ptr
        BY <1>0, <2>7 DEF Goto, Survivor, TypeThread
      <3>2. Over(succ.ptr, nkey[c])
        BY <2>3 DEF Over
      <3>3. ThreadOK(t)' /\ Modest(t)
        BY <2>1, <2>2, <2>3, <2>7, <3>1, <3>2, InsertMoves DEF memory
      <3> QED BY <2>1, <2>7, <3>3, QuietFine
    <2>8. CASE /\ nkey[c] < key[t] /\ succ.ptr = Null
               /\ InsertLevelDone(t, c, Null) /\ UNCHANGED <<memory, args>>
      <3>1. Under(c, key[t]) /\ Over(Null, key[t])
        BY <2>2, <2>8 DEF Under, Over
      <3> QED BY <1>2, <2>1, <2>2, <2>8, <3>1, ConstantTypes
    <2>9. CASE /\ nkey[c] < key[t] /\ succ.ptr # Null
               /\ Scan(t, i, c, succ) /\ UNCHANGED <<pc, arrays, memory, args>>
      <3>1. pc'[t] = "i_scan" /\ cur'[t].lvl = i /\ cur'[t].pred = c /\ cur'[t].curr = succ
        BY <1>0, <2>1, <2>9 DEF Scan, TypeThread
      <3>2. Under(c, key[t])
        BY <2>2, <2>9 DEF Under
      <3>3. ThreadOK(t)' /\ Modest(t)
        BY <2>1, <2>3, <2>9, <3>1, <3>2, InsertMoves DEF memory
      <3> QED BY <2>1, <2>9, <3>3, QuietFine
    <2>10. CASE nkey[c] > key[t] /\ InsertLevelDone(t, p, c) /\ UNCHANGED <<memory, args>>
      <3>1. Over(c, key[t])
        BY <2>2, <2>4, <2>10 DEF Over
      <3> QED BY <1>0, <1>2, <2>1, <2>2, <2>10, <3>1
    <2>11. CASE /\ link[t] = 0
                /\ status' = [status EXCEPT ![node[t]] = "free"]
                /\ next' = [next EXCEPT ![node[t]] = [j \in Level |-> To(Null)]]
                /\ Return(t, Outcome("exists", {})) /\ UNCHANGED <<nkey, nheight>>
      BY <2>1, <2>11, InsertExistsFine
    <2>12. CASE link[t] > 0 /\ Goto(t, "i_relink") /\ UNCHANGED <<memory, args, arrays>>
      <3>1. pc'[t] = "i_relink"
        BY <1>0, <2>12 DEF Goto, TypeThread
      <3>2. ThreadOK(t)' /\ Modest(t)
        BY <2>1, <2>12, <3>1, InsertRests DEF memory
      <3> QED BY <2>1, <2>12, <3>2, QuietFine
    <2> QED BY <2>5, <2>6, <2>7, <2>8, <2>9, <2>10, <2>11, <2>12
  <1>5. ASSUME InsertLive(t) PROVE Fine(t)
    <2> DEFINE n == next[live][i]
    <2>1. /\ pc[t] = "i_live" /\ pc[t] \in SearchPc
          /\ UNCHANGED <<args, arrays, memory, retired>>
      BY <1>5, SharedQuiet DEF InsertLive, SearchPc
    <2>2. /\ Under(p, key[t]) /\ c \in Node /\ status[c] = "linked" /\ ~cur[t].curr.mark
          /\ live \in Node /\ live \in Pred /\ Over(live, nkey[c])
      BY <1>0, <2>1 DEF SearchOK, LocalOK, Pred
    <2>3. /\ status[live] = "linked" /\ live # Null /\ nkey[c] < nkey[live]
          /\ n.ptr \in NodePtr /\ Leads(live, n.ptr)
      BY <1>0, <2>2, NullAssumption, ReadLeads DEF Over, LevelSorted
    <2>4. Over(n.ptr, nkey[c])
      <3>1. c \in Pred /\ c # HeadNode
        BY <2>2, NullAssumption DEF Pred
      <3>2. Leads(c, live)
        BY <2>3 DEF Leads
      <3>3. Leads(c, n.ptr)
        BY <2>2, <2>3, <3>1, <3>2, LeadsTransitive
      <3> QED BY <3>1, <3>3 DEF Leads, Over
    <2>5. /\ pc'[t] \in {"i_live", "i_splice"}
          /\ cur'[t].lvl = i /\ cur'[t].pred = p /\ cur'[t].curr = cur[t].curr
          /\ cur'[t].live \in {live, n.ptr}
          /\ pc'[t] = "i_live" => cur'[t].live = n.ptr /\ n.ptr # Null
      BY <1>0, <1>5, <2>1 DEF InsertLive, Survivor, Goto, TypeThread
    <2>6. Over(cur'[t].live, nkey[c])
      BY <2>2, <2>4, <2>5
    <2>7. pc'[t] = "i_live" => cur'[t].live \in Node
      BY <2>3, <2>5 DEF NodePtr
    <2>8. ThreadOK(t)' /\ Modest(t)
      BY <2>1, <2>2, <2>5, <2>6, <2>7, InsertMoves DEF memory
    <2> QED BY <2>1, <2>8, QuietFine
  <1>6. ASSUME InsertSplice(t) PROVE Fine(t)
    <2>1. /\ pc[t] = "i_splice" /\ pc[t] \in SearchPc /\ pc[t] \in InsertPc
          /\ UNCHANGED <<args, nodeInfo, retired>>
      BY <1>6 DEF InsertSplice, SearchPc, InsertPc, final
    <2>2. /\ Under(p, key[t]) /\ c \in Node /\ status[c] = "linked" /\ ~cur[t].curr.mark
          /\ Over(live, nkey[c])
      BY <1>0, <2>1 DEF SearchOK, LocalOK
    <2>3. CASE ~Holds(p, i, cur[t].curr)
      <3>1. InsertRetry(t) /\ UNCHANGED next
        BY <1>6, <2>3 DEF InsertSplice
      <3>2. pc'[t] = "i_top" /\ UNCHANGED arrays
        BY <1>0, <3>1 DEF InsertRetry, Goto, TypeThread
      <3>3. ThreadOK(t)' /\ Modest(t)
        BY <2>1, <3>2, InsertRests
      <3> QED BY <2>1, <3>1, <3>3, QuietFine DEF memory
    <2>4. CASE Holds(p, i, cur[t].curr)
      <3>1. Leads(p, live)
        <4>1. Leads(p, c)
          BY <1>0, <2>4 DEF LevelSorted, Holds
        <4>2. Leads(c, live)
          BY <2>2 DEF Leads, Over
        <4> QED BY <1>0, <2>2, <4>1, <4>2, LeadsTransitive
      <3>2. next' = WithLink(p, i, To(live)) /\ To(live).ptr = live /\ ~To(live).mark /\ To(live) \in Link
        BY <1>0, <1>6, <2>4, ConstantTypes DEF InsertSplice, Spliced, To
      <3>3. ~next[p][i].mark
        BY <2>2, <2>4 DEF Holds
      <3>4. Steady(t)
        BY <1>0, <2>1, <3>1, <3>2, <3>3, WriteSteady
      <3>5. CASE live = Null
        <4>1. InsertLevelDone(t, p, Null) /\ Over(Null, key[t])
          BY <1>6, <2>4, <3>5 DEF InsertSplice, Over
        <4>2. ThreadOK(t)' /\ Modest(t)
          BY <1>0, <2>1, <2>2, <4>1, InsertLevelDoneFine, ConstantTypes
        <4> QED BY <3>4, <4>2, ActFine
      <3>6. CASE live # Null
        <4>1. Goto(t, "i_scan") /\ Scan(t, i, p, To(live)) /\ UNCHANGED arrays
          BY <1>6, <2>4, <3>6 DEF InsertSplice
        <4>2. pc'[t] = "i_scan" /\ cur'[t].lvl = i /\ cur'[t].pred = p /\ cur'[t].curr.ptr = live
          BY <1>0, <4>1 DEF Goto, Scan, To, TypeThread
        <4>3. live \in Node /\ status[live] = "linked"
          BY <1>0, <2>2, <3>6 DEF Over, NodePtr
        <4>4. ThreadOK(t)' /\ Modest(t)
          BY <2>1, <2>2, <4>1, <4>2, <4>3, InsertMoves
        <4> QED BY <3>4, <4>4, ActFine
      <3> QED BY <3>5, <3>6
    <2> QED BY <2>3, <2>4
  <1> QED BY <1>1, <1>3, <1>4, <1>5, <1>6

\* insert publishes its node: it becomes linked, and is the successor of preds[0] in the same step.
LEMMA InsertPublishFine ==
  ASSUME IndInv, NEW t \in Thread, Others(t), InsertPublish(t)
  PROVE  Fine(t)
  <1> DEFINE n == node[t]
             p == preds[t][0]
             pub == Holds(p, 0, To(succs[t][0]))
  <1>0. /\ TypeThread /\ TypeMemory /\ LocalOK(t) /\ FreshOK(t) /\ InsertOK(t)
        /\ LevelSorted /\ MarkOrder /\ RetiredOK
    BY Facts
  <1>1. /\ pc[t] = "i_publish" /\ link[t] = 0 /\ Private(t)
        /\ n \in Node /\ n \in Pred /\ n \in NodePtr /\ key[t] \in Key /\ nkey[n] = key[t] /\ status[n] = "private"
    BY <1>0 DEF InsertPublish, FreshOK, Private, LocalOK, InsertOK, InsertPc, Pred, NodePtr
  <1>2. /\ \A j \in Level : preds[t][j] \in Pred /\ Under(preds[t][j], key[t])
        /\ \A j \in Level : succs[t][j] \in NodePtr /\ Over(succs[t][j], key[t])
        /\ p \in Pred /\ Under(p, key[t]) /\ p # n
    <2>1. \A j \in Level : preds[t][j] \in Pred /\ Under(preds[t][j], key[t])
      BY <1>0, <1>1 DEF LocalOK, InsertOK, InsertPc, TypeThread
    <2>2. \A j \in Level : succs[t][j] \in NodePtr /\ Over(succs[t][j], key[t])
      BY <1>0, <1>1 DEF InsertOK, InsertPc, TypeThread
    <2> QED BY <1>1, <2>1, <2>2, LevelFacts, NullAssumption DEF Under
  <1>3. /\ nheight[n] \in Level /\ nheight[n] \in Nat /\ 0 <= nheight[n] /\ 0 \in Level
    <2>1. nheight[n] \in Level
      BY <1>0, <1>1 DEF TypeMemory
    <2> QED BY <2>1, LevelAssumption DEF Level
  <1>4. /\ UNCHANGED <<nkey, nheight, retired, key, node, preds, succs>>
        /\ \A m \in Node : status'[m] = IF pub /\ m = n THEN "linked" ELSE status[m]
    BY <1>0, <1>1 DEF InsertPublish, TypeMemory, final, arrays
  <1>5. \A q \in Pred, j \in Level :
          next'[q][j] = IF q = n /\ j <= nheight[n] THEN To(succs[t][j])
                        ELSE IF pub /\ q = p /\ j = 0 THEN To(n) ELSE next[q][j]
    <2> DEFINE own == [j \in Level |-> IF j <= nheight[n] THEN To(succs[t][j]) ELSE next[n][j]]
               forward == [next EXCEPT ![n] = own]
    <2>1. next' = IF pub THEN [forward EXCEPT ![p][0] = To(n)] ELSE forward
      BY <1>1 DEF InsertPublish
    <2>2. \A q \in Pred, j \in Level : forward[q][j] = IF q = n THEN own[j] ELSE next[q][j]
      BY <1>0, <1>1 DEF TypeMemory
    <2>3. own \in [Level -> Link]
      BY <1>0, <1>1, ReadType, ConstantTypes DEF TypeThread
    <2>4. forward \in [Pred -> [Level -> Link]]
      BY <1>0, <1>1, <2>3 DEF TypeMemory
    <2>5. \A j \in Level : own[j] = IF j <= nheight[n] THEN To(succs[t][j]) ELSE next[n][j]
      OBVIOUS
    <2> HIDE DEF own, forward
    <2>6. pub => \A q \in Pred, j \in Level : next'[q][j] = IF q = p /\ j = 0 THEN To(n) ELSE forward[q][j]
      BY <1>2, <1>3, <2>1, <2>4
    <2>7. ~pub => next' = forward
      BY <2>1
    <2> QED BY <1>2, <2>2, <2>5, <2>6, <2>7
  <1>6. /\ pub => next[p][0] = To(succs[t][0])
        /\ \A x : To(x).ptr = x /\ To(x).mark = FALSE
    BY DEF Holds, To
  <1> HIDE DEF pub
  <1>7. \A m \in Node : status[m] = "linked" => status'[m] = "linked" /\ m # n
    BY <1>1, <1>4
  <1>8. LevelSorted'
    <2> SUFFICES ASSUME NEW q \in Pred, NEW j \in Level PROVE Leads(q, next[q][j].ptr)'
      BY DEF LevelSorted
    <2>1. CASE q = n /\ j <= nheight[n]
      <3>1. next'[q][j].ptr = succs[t][j]
        BY <1>5, <1>6, <2>1
      <3> QED BY <1>1, <1>2, <1>4, <1>7, <2>1, <3>1 DEF Leads, Over, NodePtr
    <2>2. CASE pub /\ q = p /\ j = 0 /\ q # n
      <3>1. next'[q][j].ptr = n
        BY <1>5, <1>6, <2>2
      <3>2. Under(q, key[t])
        BY <1>2, <2>2
      <3> QED BY <1>1, <1>4, <1>7, <2>2, <3>1, <3>2 DEF Leads, Under
    <2>3. CASE ~(q = n /\ j <= nheight[n]) /\ ~(pub /\ q = p /\ j = 0 /\ q # n)
      <3>1. next'[q][j] = next[q][j]
        BY <1>2, <1>5, <2>3
      <3>2. Leads(q, next[q][j].ptr) /\ next[q][j].ptr \in NodePtr
        BY <1>0, ReadLeads DEF LevelSorted
      <3> QED BY <1>4, <1>7, <3>1, <3>2 DEF Leads, NodePtr
    <2> QED BY <2>1, <2>2, <2>3
  <1>9. MarkOrder'
    <2> SUFFICES ASSUME NEW m \in Node, next'[m][0].mark, NEW j \in 0 .. nheight[m] PROVE next'[m][j].mark
      BY <1>4 DEF MarkOrder
    <2>1. m \in Pred /\ j \in Level
      BY <1>0, LevelAssumption DEF Pred, TypeMemory, Level
    <2>2. m # n /\ ~(pub /\ m = p)
      BY <1>3, <1>5, <1>6, <2>1
    <2>3. next[m][0].mark /\ next'[m][j] = next[m][j]
      BY <1>3, <1>5, <2>1, <2>2
    <2> QED BY <1>0, <2>3 DEF MarkOrder
  <1>10. Frozen
    <2> SUFFICES ASSUME NEW m \in Node, NEW j \in Level, status[m] = "linked", next[m][j].mark
                 PROVE  next'[m][j] = next[m][j]
      BY DEF Frozen
    <2>1. m \in Pred /\ m # n /\ ~(pub /\ m = p /\ j = 0)
      BY <1>6, <1>7 DEF Pred, To
    <2> QED BY <1>5, <2>1
  <1>11. Keeps(t)
    BY <1>1, <1>4 DEF Keeps, Same, Retired
  <1>12. RetiredOK'
    <2>1. Retired \subseteq Node /\ Retired' = Retired
      BY <1>4, Facts DEF TypeShared, Retired
    <2>2. \A m \in Retired' : status'[m] = "linked" /\ next'[m][0].mark
      BY <1>0, <1>3, <1>7, <1>10, <2>1 DEF RetiredOK, Frozen
    <2>3. Retired' \cap Live' = {}
      BY <2>2 DEF Live
    <2> QED BY <1>0, <1>4, <2>2, <2>3 DEF RetiredOK, RetiredOnce
  <1>13. Steady(t)
    BY <1>8, <1>9, <1>10, <1>11, <1>12 DEF Steady
  <1>14. CASE ~pub
    <2>1. pc'[t] = "i_top" /\ UNCHANGED <<args, arrays, nodeInfo>>
      BY <1>0, <1>14 DEF InsertPublish, Goto, TypeThread, args, nodeInfo, pub
    <2> QED BY <1>1, <1>13, <2>1, InsertRests, ActFine DEF InsertPc
  <1>15. CASE pub
    <2>1. \/ pc'[t] = "i_count" /\ link'[t] = 0
          \/ pc'[t] = "i_check" /\ link'[t] = 1 /\ nheight[n] # 0
      BY <1>0, <1>1, <1>15 DEF InsertPublish, Goto, TypeThread, pub
    <2>2. pc'[t] \in InsertPc /\ pc'[t] \notin SearchPc /\ pc'[t] \notin VictimPc /\ ~Private(t)'
      BY <2>1 DEF InsertPc, SearchPc, VictimPc, Private
    <2>3. LocalOK(t)'
      <3>1. link'[t] <= nheight[n]
        BY <1>3, <2>1
      <3>2. \A j \in Level : preds[t][j] # Uninit
        BY <1>0, <1>1 DEF LocalOK
      <3> QED BY <1>1, <1>4, <2>1, <2>2, <3>1, <3>2 DEF LocalOK
    <2>4. FreshOK(t)' /\ SearchOK(t)' /\ EraseOK(t)' /\ Modest(t)
      BY <2>1, <2>2 DEF FreshOK, SearchOK, EraseOK, Modest, Owns, VictimPc
    <2>5. \A j \in Level : Under(preds[t][j], key[t])' /\ Over(succs[t][j], key[t])'
      BY <1>2, <1>4, <1>7 DEF Under, Over, Pred, NodePtr
    <2>6. InsertOK(t)'
      BY <1>1, <1>4, <1>15, <2>2, <2>5 DEF InsertOK
    <2> QED BY <1>13, <2>3, <2>4, <2>6, ActFine DEF ThreadOK
  <1> QED BY <1>14, <1>15

\* insert links its published node.
LEMMA InsertLinkFine ==
  ASSUME IndInv, NEW t \in Thread, Others(t)
  PROVE  /\ InsertCheck(t) => Fine(t)
         /\ InsertLink(t) => Fine(t)
         /\ InsertRelink(t) => Fine(t)
         /\ InsertCount(t) => Fine(t)
  <1> DEFINE n == node[t]
             i == link[t]
             p == preds[t][i]
  <1>0. /\ TypeThread /\ TypeMemory /\ LocalOK(t) /\ FreshOK(t) /\ InsertOK(t) /\ LevelSorted
        /\ i \in Level /\ i \in Nat
    BY Facts, LevelFacts
  <1>1. ASSUME pc[t] \in {"i_check", "i_link", "i_relink"}
        PROVE  /\ i > 0 /\ n \in Node /\ n \in Pred /\ n # HeadNode /\ status[n] = "linked" /\ nkey[n] = key[t]
               /\ p \in Pred /\ Under(p, key[t])
               /\ succs[t][i] \in NodePtr /\ Over(succs[t][i], key[t]) /\ To(succs[t][i]) \in Link
               /\ pc[t] \in InsertPc
    <2>1. pc[t] \in InsertPc /\ i > 0 /\ ~Private(t)
      BY <1>0, <1>1 DEF InsertPc, LocalOK, Private
    <2>2. n \in Node /\ status[n] = "linked" /\ nkey[n] = key[t]
      BY <1>0, <2>1 DEF LocalOK, InsertOK
    <2>3. p \in Pred /\ Under(p, key[t]) /\ succs[t][i] \in NodePtr /\ Over(succs[t][i], key[t])
      BY <1>0, <2>1 DEF LocalOK, InsertOK, TypeThread
    <2> QED BY <2>1, <2>2, <2>3, ConstantTypes, NullAssumption DEF Pred
  <1>2. ASSUME InsertCheck(t) PROVE Fine(t)
    <2>1. pc[t] = "i_check" /\ pc'[t] \in {"i_count", "i_link"} /\ UNCHANGED <<memory, args, arrays, retired>>
      BY <1>0, <1>2, SharedQuiet DEF InsertCheck, Goto, TypeThread
    <2>2. ThreadOK(t)' /\ Modest(t)
      BY <1>1, <2>1, InsertRests DEF memory
    <2> QED BY <2>1, <2>2, QuietFine
  <1>3. ASSUME InsertLink(t) PROVE Fine(t)
    <2>1. pc[t] = "i_link" /\ UNCHANGED <<nodeInfo, retired, key, node, arrays>>
      BY <1>3 DEF InsertLink, final
    <2>2. CASE ~Holds(p, i, To(succs[t][i]))
      <3>1. pc'[t] = "i_top" /\ UNCHANGED <<next, args>>
        BY <1>0, <1>3, <2>2 DEF InsertLink, Goto, TypeThread, args
      <3>2. ThreadOK(t)' /\ Modest(t)
        BY <1>1, <2>1, <3>1, InsertRests
      <3> QED BY <2>1, <3>1, <3>2, QuietFine DEF memory
    <2>3. CASE Holds(p, i, To(succs[t][i]))
      <3>1. next' = WithLink(p, i, To(n)) /\ To(n) \in Link /\ To(n).ptr = n /\ ~To(n).mark
        BY <1>1, <1>3, <2>1, <2>3, ConstantTypes DEF InsertLink, To, NodePtr
      <3>2. Leads(p, n) /\ ~next[p][i].mark
        BY <1>1, <2>1, <2>3 DEF Leads, Under, Holds, To
      <3>3. Steady(t)
        BY <1>0, <1>1, <2>1, <3>1, <3>2, WriteSteady
      <3>4. \/ pc'[t] = "i_count" /\ link'[t] = i
            \/ pc'[t] = "i_check" /\ link'[t] = i + 1 /\ i # nheight[n]
        BY <1>0, <1>3, <2>3 DEF InsertLink, Goto, TypeThread
      <3>5. UNCHANGED <<nkey, nheight, status, key, node, preds, succs>>
        BY <2>1 DEF nodeInfo, arrays
      <3>6. link'[t] > 0 /\ link'[t] <= nheight[n]
        <4>1. i > 0 /\ i <= nheight[n] /\ nheight[n] \in Nat
          BY <1>0, <1>1, <2>1, LevelFacts DEF LocalOK, TypeMemory, InsertPc
        <4> QED BY <1>0, <3>4, <4>1
      <3>7. pc'[t] \in InsertPc /\ pc'[t] \notin SearchPc /\ pc'[t] \notin VictimPc /\ ~Private(t)'
        BY <3>4, <3>6, LevelFacts DEF InsertPc, SearchPc, VictimPc, Private
      <3>8. LocalOK(t)'
        BY <1>0, <1>1, <2>1, <3>4, <3>5, <3>6, <3>7 DEF LocalOK
      <3>9. FreshOK(t)' /\ SearchOK(t)' /\ EraseOK(t)' /\ Modest(t)
        BY <3>4, <3>7 DEF FreshOK, SearchOK, EraseOK, Modest, Owns, VictimPc
      <3>10. InsertOK(t)'
        BY <1>0, <1>1, <2>1, <3>5, <3>7 DEF InsertOK, Under, Over
      <3> QED BY <3>3, <3>8, <3>9, <3>10, ActFine DEF ThreadOK
    <2> QED BY <2>2, <2>3
  <1>4. ASSUME InsertRelink(t) PROVE Fine(t)
    <2>1. /\ pc[t] = "i_relink" /\ pc'[t] \in {"i_count", "i_check"}
          /\ UNCHANGED <<nodeInfo, retired, args, arrays>>
      BY <1>0, <1>4 DEF InsertRelink, Goto, TypeThread, final
    <2>2. ThreadOK(t)' /\ Modest(t)
      BY <1>1, <2>1, InsertRests
    <2>3. CASE next[n][i].mark
      BY <1>4, <2>1, <2>2, <2>3, QuietFine DEF InsertRelink, memory
    <2>4. CASE ~next[n][i].mark
      <3>1. /\ next' = WithLink(n, i, To(succs[t][i]))
            /\ To(succs[t][i]).ptr = succs[t][i] /\ ~To(succs[t][i]).mark
        BY <1>4, <2>4 DEF InsertRelink, To
      <3>2. Leads(n, succs[t][i])
        BY <1>1, <2>1 DEF Leads, Over
      <3>3. Steady(t)
        BY <1>0, <1>1, <2>1, <2>4, <3>1, <3>2, WriteSteady
      <3> QED BY <2>2, <3>3, ActFine
    <2> QED BY <2>3, <2>4
  <1>5. ASSUME InsertCount(t) PROVE Fine(t)
    BY <1>5, ReturnQuiet DEF InsertCount, final
  <1> QED BY <1>2, <1>3, <1>4, <1>5

\* Every action, put together.
LEMMA StepFine == ASSUME IndInv, NEW t \in Thread, Step(t) PROVE Fine(t) /\ TypeOK' /\ Others(t)
  <1>1. Others(t)
    BY OthersStep, Facts
  <1>2. TypeOK /\ LocalInv
    BY Facts DEF IndInv
  <1>3. CASE \E k \in Key, h \in Level, n \in Node : InsertBegin(t, k, h, n)
    BY <1>1, <1>2, <1>3, InsertBeginFine, InsertType
  <1>4. CASE \E k \in Key : EraseBegin(t, k) \/ FindBegin(t, k)
    BY <1>1, <1>2, <1>4, EraseSearchFine, EraseType, ReadersFine, ReadersType
  <1>5. CASE EachBegin(t) \/ EachScan(t) \/ FindTop(t) \/ FindLevel(t) \/ FindScan(t) \/ FindCheck(t)
    BY <1>1, <1>2, <1>5, ReadersFine, ReadersType
  <1>6. CASE InsertTop(t) \/ InsertLevel(t) \/ InsertScan(t) \/ InsertLive(t) \/ InsertSplice(t)
    BY <1>1, <1>2, <1>6, InsertSearchFine, InsertType
  <1>7. CASE InsertPublish(t)
    BY <1>1, <1>2, <1>7, InsertPublishFine, InsertType
  <1>8. CASE InsertCheck(t) \/ InsertLink(t) \/ InsertRelink(t) \/ InsertCount(t)
    BY <1>1, <1>2, <1>8, InsertLinkFine, InsertType
  <1>9. CASE EraseLevel(t) \/ EraseScan(t)
    BY <1>1, <1>2, <1>9, EraseSearchFine, EraseType
  <1>10. CASE EraseMark(t) \/ EraseClaim(t) \/ EraseUnlink(t) \/ EraseRetire(t) \/ EraseCount(t)
    BY <1>1, <1>2, <1>10, EraseFine, EraseType
  <1> QED BY <1>3, <1>4, <1>5, <1>6, <1>7, <1>8, <1>9, <1>10 DEF Step

\* The invariant holds at the start, and every step keeps it.
LEMMA InitInv == ASSUME Init PROVE IndInv
  <1> USE DEF Init
  <1>1. NoOutcome \in OutcomeType /\ NoCursor \in Cursor
    BY OutcomeTypes, ConstantTypes, LevelFacts DEF NoOutcome, NoCursor, Cursor
  <1>2. TypeOK
    <2>1. TypeMemory
      BY ConstantTypes, LevelFacts, KeyAssumption DEF TypeMemory
    <2>2. TypeShared
      BY LevelFacts, SizeAssumption DEF TypeShared
    <2>3. TypeThread
      BY <1>1, ConstantTypes, LevelFacts, CallsAssumption DEF TypeThread, PcType
    <2>4. TypeHistory
      BY <1>1 DEF TypeHistory
    <2> QED BY <2>1, <2>2, <2>3, <2>4 DEF TypeOK
  <1>3. ASSUME NEW t \in Thread PROVE ThreadOK(t)
    <2>1. pc[t] = "idle" /\ link[t] = 0 /\ preds[t] = NoPreds /\ succs[t] = NoSuccs
      OBVIOUS
    <2> QED BY <2>1 DEF ThreadOK, LocalOK, FreshOK, InsertOK, SearchOK, EraseOK, InsertPc, SearchPc, VictimPc
  <1>4. Exclusive
    BY DEF Exclusive, Private, Owns, InsertPc
  <1>5. \A p \in Pred, i \in Level : next[p][i].ptr = Null /\ next[p][i].mark = FALSE
    BY DEF To
  <1>6. LevelSorted /\ MarkOrder
    BY <1>5, LevelFacts DEF LevelSorted, Leads, MarkOrder, Pred
  <1>7. RetiredOK
    BY DEF RetiredOK, RetiredOnce, Retired
  <1> QED BY <1>2, <1>3, <1>4, <1>6, <1>7 DEF IndInv

LEMMA NextInv == ASSUME IndInv, [Next]_vars PROVE IndInv'
  <1>1. ASSUME NEW t \in Thread, Step(t) PROVE IndInv'
    <2>1. Fine(t) /\ TypeOK' /\ Others(t)
      BY <1>1, StepFine
    <2>2. \A u \in Thread : u # t => ThreadOK(u)'
      BY <2>1, OtherThreadOK DEF Fine, Steady
    <2> QED BY <2>1, <2>2 DEF IndInv, Fine, Steady
  <1>2. ASSUME TypeOK', UNCHANGED <<memory, retired, pc, args, cur, arrays>> PROVE IndInv'
    <2>1. /\ UNCHANGED <<next, nkey, nheight, status, retired, pc>>
          /\ UNCHANGED <<key, node, link, cur, preds, succs>>
      BY <1>2 DEF memory, nodeInfo, args, arrays
    <2>2. ASSUME NEW t \in Thread PROVE ThreadOK(t)'
      <3>1. ThreadOK(t)
        BY DEF IndInv
      <3>2. LocalOK(t)' /\ FreshOK(t)'
        BY <2>1, <3>1 DEF ThreadOK, LocalOK, FreshOK
      <3>3. InsertOK(t)' /\ SearchOK(t)'
        BY <2>1, <3>1 DEF ThreadOK, InsertOK, SearchOK, Under, Over, Private
      <3>4. EraseOK(t)'
        BY <2>1, <3>1 DEF ThreadOK, EraseOK, Marked, Retired
      <3> QED BY <3>2, <3>3, <3>4 DEF ThreadOK
    <2>3. Exclusive'
      BY <2>1 DEF IndInv, Exclusive, Private, Owns
    <2>4. LevelSorted' /\ MarkOrder'
      BY <2>1 DEF IndInv, LevelSorted, Leads, MarkOrder
    <2>5. RetiredOK'
      BY <2>1 DEF IndInv, RetiredOK, RetiredOnce, Retired, Live
    <2> QED BY <1>2, <2>2, <2>3, <2>4, <2>5 DEF IndInv
  <1>3. ASSUME Destroy PROVE IndInv'
    <2>1. TypeOK'
      BY <1>3, DestroyType DEF IndInv
    <2> QED BY <1>2, <1>3, <2>1 DEF Destroy
  <1>4. ASSUME UNCHANGED vars PROVE IndInv'
    <2>1. TypeOK'
      BY <1>4 DEF IndInv, TypeOK, TypeMemory, TypeShared, TypeThread, TypeHistory, vars
    <2> QED BY <1>2, <1>4, <2>1 DEF vars, memory, nodeInfo, args, arrays
  <1> QED BY <1>1, <1>3, <1>4 DEF Next

\* The inductive invariant holds of every behaviour.
THEOREM Invariance == Spec => []IndInv
  <1>1. Init => IndInv
    BY InitInv
  <1>2. IndInv /\ [Next]_vars => IndInv'
    BY NextInv
  <1> QED BY <1>1, <1>2, PTL DEF Spec
-----------------------------------------------------------------------------
\* Every variable keeps its type: no call ever stores a mark, a pointer, a level or a preds[] element
\* of the wrong kind, and _size never leaves its width.
THEOREM TypeCorrect == Spec => []TypeOK
  <1>1. IndInv => TypeOK
    BY DEF IndInv
  <1> QED BY <1>1, Invariance, PTL

\* However many threads insert and erase, every pointer of a level leads to a linked node with a
\* larger key: a search can leave any node it stands on, and always moves towards its key.
THEOREM LevelsSorted == Spec => []LevelSorted
  <1>1. IndInv => LevelSorted
    BY DEF IndInv
  <1> QED BY <1>1, Invariance, PTL

\* A node dead at level 0 is marked on every level it has, so find's check of level 0 after an upper
\* level suffices and a splice at an upper level takes out no node that later turns out to be live.
THEOREM MarksTopDown == Spec => []MarkOrder
  <1>1. IndInv => MarkOrder
    BY DEF IndInv
  <1> QED BY <1>1, Invariance, PTL

\* Two erases of one key never both claim its node: it is pushed on the retired list at most once,
\* and what is on the list is dead.
THEOREM RetiredAtMostOnce == Spec => []RetiredOnce
  <1>1. IndInv => RetiredOnce
    BY DEF IndInv, RetiredOK
  <1> QED BY <1>1, Invariance, PTL

\* No compare_exchange, of a helper, of another eraser or of the insert that is still linking the
\* node, changes a next pointer after erase has marked it.
THEOREM MarkedIsFrozen == Spec => FrozenLinks
  <1> DEFINE Freeze == \A n \in Node, i \in Level :
                         status[n] = "linked" /\ next[n][i].mark => next'[n][i] = next[n][i]
  <1>1. ASSUME IndInv, Next PROVE Freeze
    <2>1. CASE \E t \in Thread : Step(t)
      BY <1>1, <2>1, StepFine DEF Fine, Steady, Frozen
    <2>2. CASE Destroy
      BY <2>2 DEF Destroy, memory
    <2> QED BY <1>1, <2>1, <2>2 DEF Next
  <1>2. IndInv /\ [Next]_vars => [Freeze]_vars
    BY <1>1
  <1> QED BY <1>2, Invariance, PTL DEF Spec, FrozenLinks
-----------------------------------------------------------------------------
(***************************************************************************)
(* No live node of ConcurrentSkiplist is lost and no key is live twice.    *)
(*                                                                         *)
(* From(c), what a walk along level 0 meets that starts at c, is the least *)
(* set closed under next[_][0].  ReachInv adds to IndInv that every live   *)
(* node is in From(HeadNode) (Joined), and that the corpses an insert has  *)
(* walked over are a path of marked, hence frozen, nodes (PathOK): this is *)
(* what makes its splice skip corpses only.  Every step does one of four   *)
(* things to level 0 (Rests, Claims, Bypasses, Publishes), and none cuts   *)
(* a walk off from a live node that it led to (FromStable).                *)
(* Then: what was linked and is not on the chain any more is dead, so that *)
(* the destructor's walk and the retired list together hold each linked    *)
(* node once (FreedOnce); and _size counts the live nodes up to the calls  *)
(* that have yet to count themselves (SizeAccounts).                       *)
(***************************************************************************)

\* What a walk along level 0 can meet.
Public    == {HeadNode} \cup {n \in Node : status[n] = "linked"}
Closed(S) == \A x \in S : next[x][0].ptr = Null \/ next[x][0].ptr \in S
From(c)   == {x \in Pred : \A S \in SUBSET Pred : c \in S /\ Closed(S) => x \in S}
Joined    == Live \subseteq From(HeadNode)

\* A path of corpses at level 0 from a to b, b itself not included.
Corpses(D, b)  == \A x \in D : status[x] = "linked" /\ next[x][0].mark /\ next[x][0].ptr \in D \cup {b}
DeadPath(a, b) == \E D \in SUBSET Node : a \in D /\ Corpses(D, b)
PathOK(t)      == pc[t] \in {"i_live", "i_splice"} /\ cur[t].lvl = 0 => DeadPath(cur[t].curr.ptr, cur[t].live)

ReachInv == IndInv /\ Joined /\ \A t \in Thread : PathOK(t)
-----------------------------------------------------------------------------
LEMMA PublicFacts == /\ Public \subseteq Pred /\ Live \subseteq Public /\ Live \subseteq Node
                     /\ HeadNode \in Public /\ HeadNode \notin Node
  BY NullAssumption DEF Public, Pred, Live

\* Where level 0 leads out of a block.
LEMMA Level0 ==
  ASSUME IndInv, NEW p \in Pred
  PROVE  /\ next[p][0] \in Link
         /\ next[p][0].ptr = Null \/ (next[p][0].ptr \in Public /\ next[p][0].ptr \in Node
                                     /\ next[p][0].ptr \in Pred)
  BY ReadLeads, ReadType, LevelFacts DEF IndInv, TypeOK, Public, NodePtr, Pred

\* From(c) is the least closed set that c is in.
LEMMA FromSelf == ASSUME NEW c \in Pred PROVE c \in From(c)
  BY DEF From

LEMMA FromClosed == ASSUME IndInv, NEW c \in Pred PROVE Closed(From(c))
  <1> SUFFICES ASSUME NEW x \in From(c), next[x][0].ptr # Null PROVE next[x][0].ptr \in From(c)
    BY DEF Closed
  <1>1. next[x][0].ptr \in Pred
    BY Level0 DEF From
  <1>2. ASSUME NEW S \in SUBSET Pred, c \in S, Closed(S) PROVE next[x][0].ptr \in S
    BY <1>2 DEF From, Closed
  <1> QED BY <1>1, <1>2 DEF From

LEMMA FromLeast ==
  ASSUME NEW c, NEW S \in SUBSET Pred, c \in S, Closed(S)
  PROVE  From(c) \subseteq S
  BY DEF From

\* A walk that meets more than its start goes on at the next node.
LEMMA FromNext ==
  ASSUME IndInv, NEW c \in Pred, NEW x \in From(c), x # c
  PROVE  next[c][0].ptr # Null /\ x \in From(next[c][0].ptr)
  <1> DEFINE q == next[c][0].ptr
             S == {c} \cup (IF q = Null THEN {} ELSE From(q))
  <1>1. q # Null => q \in Pred /\ q \in From(q) /\ Closed(From(q)) /\ From(q) \in SUBSET Pred
    BY Level0, FromSelf, FromClosed DEF From
  <1>2. S \in SUBSET Pred /\ Closed(S)
    BY <1>1 DEF Closed
  <1>3. x \in S
    BY <1>2, FromLeast
  <1> QED BY <1>3

\* Walks meet linked nodes, in key order.
LEMMA FromSorted ==
  ASSUME IndInv, NEW c \in Public, NEW x \in From(c), x # c
  PROVE  x \in Node /\ status[x] = "linked" /\ (c # HeadNode => nkey[c] < nkey[x])
  <1> DEFINE S == {y \in Public : y = c \/ (y \in Node /\ (c # HeadNode => nkey[c] < nkey[y]))}
  <1>1. c \in Pred /\ S \in SUBSET Pred /\ HeadNode \notin Node
    BY PublicFacts
  <1>2. \A n \in Node : nkey[n] \in Int
    BY KeyAssumption DEF IndInv, TypeOK, TypeMemory
  <1>3. ASSUME NEW y \in S, next[y][0].ptr # Null PROVE next[y][0].ptr \in S
    <2> DEFINE q == next[y][0].ptr
    <2>1. y \in Pred /\ q \in Public /\ q \in Node /\ (y # HeadNode => nkey[y] < nkey[q])
      BY <1>3, Level0, LevelFacts, ReadLeads, PublicFacts
    <2>2. c # HeadNode => c \in Node
      BY DEF Public
    <2>3. c # HeadNode => nkey[c] < nkey[q]
      BY <1>1, <1>2, <2>1, <2>2
    <2> QED BY <2>1, <2>3
  <1>4. x \in S
    BY <1>1, <1>3, FromLeast DEF Closed
  <1> QED BY <1>1, <1>4 DEF Public

\* Of two nodes a walk meets, it meets one first.
LEMMA FromLinear ==
  ASSUME IndInv, NEW c \in Pred, NEW a \in From(c), NEW b \in From(c)
  PROVE  b \in From(a) \/ a \in From(b)
  <1> DEFINE S == {x \in Pred : a \in From(x) \/ x \in From(a)}
  <1>1. c \in S /\ S \in SUBSET Pred /\ a \in Pred
    BY DEF From
  <1>2. ASSUME NEW x \in S, next[x][0].ptr # Null PROVE next[x][0].ptr \in S
    <2>1. next[x][0].ptr \in Pred
      BY <1>2, Level0
    <2>2. CASE a \in From(x) /\ a # x
      BY <2>1, <2>2, FromNext
    <2>3. CASE x \in From(a) \/ a = x
      BY <1>1, <1>2, <2>1, <2>3, FromClosed, FromSelf DEF Closed
    <2> QED BY <2>2, <2>3
  <1>3. b \in S
    BY <1>1, <1>2, FromLeast DEF Closed
  <1> QED BY <1>3
-----------------------------------------------------------------------------
\* What a step can do to level 0: nothing that a walk could see, set the mark of a node, replace a
\* path of corpses behind p by its end b, or put a node n that was not linked behind p.
Rests     == Public' = Public /\ \A q \in Public : next'[q][0] = next[q][0]
Claims(v) == /\ v \in Live /\ Public' = Public
             /\ \A q \in Public : next'[q][0] = IF q = v THEN [ptr |-> next[v][0].ptr, mark |-> TRUE]
                                                          ELSE next[q][0]
Bypasses(p, D, b) ==
  /\ p \in Public /\ ~next[p][0].mark /\ next[p][0].ptr \in D /\ Corpses(D, b)
  /\ Public' = Public
  /\ \A q \in Public : next'[q][0] = IF q = p THEN To(b) ELSE next[q][0]
Publishes(p, n) ==
  /\ p \in Public /\ ~next[p][0].mark /\ n \in Node /\ n \notin Public
  /\ Public' = Public \cup {n}
  /\ \A q \in Public : next'[q][0] = IF q = p THEN To(n) ELSE next[q][0]
  /\ next'[n][0] = next[p][0]
Level0Step == \/ Rests
              \/ \E v \in Node : Claims(v)
              \/ \E p \in Public, D \in SUBSET Node, b \in NodePtr : Bypasses(p, D, b)
              \/ \E p \in Public, n \in Node : Publishes(p, n)

\* Which nodes are live after a step.
LEMMA LiveAfter ==
  ASSUME IndInv
  PROVE  /\ Rests => Live' = Live
         /\ \A v \in Node : Claims(v) => Live' = Live \ {v}
         /\ \A p, D, b : Bypasses(p, D, b) => Live' = Live
         /\ \A p \in Public, n \in Node : Publishes(p, n) => Live' = Live \cup {n}
  <1>1. /\ Live = {n \in Node : n \in Public /\ ~next[n][0].mark}
        /\ Live' = {n \in Node : n \in Public' /\ ~next'[n][0].mark}
    BY PublicFacts DEF Live, Public
  <1>2. Rests => Live' = Live
    BY <1>1 DEF Rests
  <1>3. ASSUME NEW v \in Node, Claims(v) PROVE Live' = Live \ {v}
    BY <1>1, <1>3 DEF Claims
  <1>4. ASSUME NEW p, NEW D, NEW b, Bypasses(p, D, b) PROVE Live' = Live
    BY <1>1, <1>4 DEF Bypasses, To
  <1>5. ASSUME NEW p \in Public, NEW n \in Node, Publishes(p, n) PROVE Live' = Live \cup {n}
    BY <1>1, <1>5 DEF Publishes, To
  <1> QED BY <1>2, <1>3, <1>4, <1>5

\* A live node that a walk from c led to and that stays live is still led to.
LEMMA FromStable ==
  ASSUME IndInv, Level0Step, NEW c \in Public, NEW m \in Live, m \in Live', m \in From(c)
  PROVE  m \in From(c)'
  <1> SUFFICES ASSUME NEW T \in SUBSET Pred, c \in T, Closed(T)' PROVE m \in T
    BY DEF From
  <1> DEFINE Q == T \cap Public
  <1>1. Q \in SUBSET Pred /\ c \in Q /\ m \in Node /\ m \in Public /\ ~next[m][0].mark
    BY PublicFacts DEF Live
  <1>2. \A x \in Q : next[x][0].ptr = Null \/ next[x][0].ptr \in Public
    BY Level0, PublicFacts
  <1>3. \A x \in T : next'[x][0].ptr = Null \/ next'[x][0].ptr \in T
    BY DEF Closed
  <1>4. Closed(Q) => m \in T
    BY <1>1, FromLeast
  <1>5. CASE Rests \/ \E v \in Node : Claims(v)
    <2>1. Rests => \A x \in Q : next'[x][0].ptr = next[x][0].ptr
      BY DEF Rests
    <2>2. ASSUME NEW v \in Node, Claims(v), NEW x \in Q PROVE next'[x][0].ptr = next[x][0].ptr
      BY <2>2 DEF Claims
    <2> QED BY <1>2, <1>3, <1>4, <1>5, <2>1, <2>2 DEF Closed
  <1>6. CASE \E p \in Public, D \in SUBSET Node, b \in NodePtr : Bypasses(p, D, b)
    <2>1. PICK p \in Public, D \in SUBSET Node, b \in NodePtr : Bypasses(p, D, b)
      BY <1>6
    <2>2. \A x \in Q : x # p => next'[x][0] = next[x][0]
      BY <2>1 DEF Bypasses
    <2>3. CASE p \notin Q
      BY <1>2, <1>3, <1>4, <2>2, <2>3 DEF Closed
    <2>4. CASE p \in Q
      <3>1. b = Null \/ b \in T
        BY <1>3, <2>1, <2>4 DEF Bypasses, To
      <3>2. D \subseteq Public /\ m \notin D
        BY <1>1, <2>1 DEF Bypasses, Corpses, Public
      <3>3. \A x \in D : next[x][0].ptr = Null \/ next[x][0].ptr \in Public
        BY <3>2, Level0, PublicFacts
      <3>4. \A x \in D : next[x][0].ptr = Null \/ next[x][0].ptr \in Q \cup D
        BY <2>1, <3>1, <3>3 DEF Bypasses, Corpses
      <3>5. next[p][0].ptr \in D
        BY <2>1 DEF Bypasses
      <3>6. Closed(Q \cup D)
        BY <1>2, <1>3, <2>2, <3>4, <3>5 DEF Closed
      <3>7. m \in Q \cup D
        BY <1>1, <3>2, <3>6, FromLeast, PublicFacts
      <3> QED BY <3>2, <3>7
    <2> QED BY <2>3, <2>4
  <1>7. CASE \E p \in Public, n \in Node : Publishes(p, n)
    <2>1. PICK p \in Public, n \in Node : Publishes(p, n)
      BY <1>7
    <2>2. \A x \in Q : x # p => next'[x][0] = next[x][0]
      BY <2>1 DEF Publishes
    <2>3. p \in Q => next'[p][0].ptr = n /\ n # Null /\ next'[n][0] = next[p][0]
      BY <2>1, NullAssumption DEF Publishes, To
    <2>4. p \in Q => next[p][0].ptr = Null \/ next[p][0].ptr \in T
      BY <1>3, <2>3
    <2> QED BY <1>2, <1>3, <1>4, <2>2, <2>4 DEF Closed
  <1> QED BY <1>5, <1>6, <1>7 DEF Level0Step

\* Hence no live node is lost: a node that is published comes behind the head or a live node.
LEMMA JoinedStable == ASSUME IndInv, Joined, Level0Step PROVE Joined'
  <1> SUFFICES ASSUME NEW m \in Live' PROVE m \in From(HeadNode)'
    BY DEF Joined
  <1>1. \A q \in Live : q \in Live' => q \in From(HeadNode)'
    BY FromStable, PublicFacts DEF Joined
  <1>2. CASE m \in Live
    BY <1>1, <1>2
  <1>3. CASE m \notin Live
    <2>1. PICK p \in Public : Publishes(p, m)
      <3>1. PICK p \in Public, n \in Node : Publishes(p, n)
        BY <1>3, LiveAfter DEF Level0Step
      <3> QED BY <1>3, <3>1, LiveAfter
    <2>2. p = HeadNode \/ p \in Live
      BY <2>1 DEF Publishes, Public, Live
    <2>3. p \in From(HeadNode)'
      <3>1. HeadNode \in From(HeadNode)'
        BY DEF From, Pred
      <3>2. Live \subseteq Live'
        BY <2>1, LiveAfter DEF Publishes
      <3> QED BY <1>1, <2>2, <3>1, <3>2
    <2>4. next'[p][0].ptr = m /\ m # Null /\ m \in Pred
      BY <2>1, NullAssumption DEF Publishes, To, Pred
    <2> QED BY <2>3, <2>4 DEF From, Closed
  <1> QED BY <1>2, <1>3
-----------------------------------------------------------------------------
\* Steps that write no memory, or a level above 0.
LEMMA QuietRests == ASSUME UNCHANGED memory PROVE Rests
  BY DEF Rests, Public, memory, nodeInfo

LEMMA WriteLevel0 ==
  ASSUME IndInv, NEW p \in Pred, NEW i \in Level, NEW v, next' = WithLink(p, i, v), UNCHANGED nodeInfo
  PROVE  /\ Public' = Public
         /\ \A q \in Pred : next'[q][0] = IF q = p /\ i = 0 THEN v ELSE next[q][0]
         /\ i # 0 \/ p \notin Public => Rests
  <1>1. Public' = Public
    BY DEF Public, nodeInfo
  <1>2. \A q \in Pred : next'[q][0] = IF q = p /\ i = 0 THEN v ELSE next[q][0]
    BY LevelFacts DEF IndInv, TypeOK, TypeMemory, WithLink
  <1> QED BY <1>1, <1>2, PublicFacts DEF Rests

\* insert publishes its node behind its predecessor, or writes only its node.
LEMMA PublishStep ==
  ASSUME IndInv, NEW t \in Thread, InsertPublish(t)
  PROVE  /\ Holds(preds[t][0], 0, To(succs[t][0])) => Publishes(preds[t][0], node[t])
         /\ ~Holds(preds[t][0], 0, To(succs[t][0])) => Rests
  <1> DEFINE n == node[t]
             p == preds[t][0]
             pub == Holds(p, 0, To(succs[t][0]))
             own == [j \in Level |-> IF j <= nheight[n] THEN To(succs[t][j]) ELSE next[n][j]]
             forward == [next EXCEPT ![n] = own]
  <1>1. /\ pc[t] = "i_publish" /\ pc[t] \in InsertPc /\ Private(t) /\ TypeMemory /\ 0 \in Level
    BY Facts, LevelFacts DEF InsertPublish, InsertPc, Private, FreshOK
  <1>2. n \in Node /\ n \in Pred /\ status[n] = "private" /\ n \notin Public /\ 0 <= nheight[n]
    BY <1>1, Facts, NullAssumption DEF LocalOK, InsertOK, Pred, Public, TypeMemory, Level
  <1>3. p \in Public
    <2>1. p # Uninit
      BY <1>1, Facts DEF LocalOK
    <2> QED BY <1>1, <2>1, Facts DEF InsertOK, Under, Public, Pred
  <1>4. next' = IF pub THEN [forward EXCEPT ![p][0] = To(n)] ELSE forward
    BY <1>1 DEF InsertPublish
  <1>5. \A q \in Pred : forward[q] = IF q = n THEN own ELSE next[q]
    BY <1>1, <1>2 DEF TypeMemory
  <1>6. own[0] = To(succs[t][0])
    BY <1>1, <1>2
  <1>7. /\ \A q \in Pred : q # n => DOMAIN next[q] = Level
        /\ DOMAIN forward = Pred
    BY <1>1 DEF TypeMemory
  <1> HIDE DEF own, forward
  <1>8. CASE pub
    <2>1. next[p][0] = To(succs[t][0]) /\ ~next[p][0].mark
      BY <1>8 DEF Holds, To
    <2>2. \A q \in Pred : q # p => next'[q] = forward[q]
      BY <1>4, <1>7, <1>8
    <2>3. next'[p][0] = To(n)
      BY <1>1, <1>2, <1>3, <1>4, <1>5, <1>7, <1>8, PublicFacts
    <2>4. Public' = Public \cup {n}
      BY <1>1, <1>2, <1>8 DEF InsertPublish, TypeMemory, Public
    <2>5. next'[n][0] = next[p][0] /\ \A q \in Public : q # p => next'[q][0] = next[q][0]
      BY <1>2, <1>3, <1>5, <1>6, <2>1, <2>2, PublicFacts
    <2>6. Publishes(p, n)
      BY <1>2, <1>3, <2>1, <2>3, <2>4, <2>5 DEF Publishes
    <2> QED BY <1>8, <2>6
  <1>9. CASE ~pub
    <2>1. Public' = Public
      BY <1>9 DEF InsertPublish, Public
    <2> QED BY <1>2, <1>4, <1>5, <1>9, <2>1, PublicFacts DEF Rests
  <1> QED BY <1>8, <1>9

\* erase claims its victim, or finds it claimed.
LEMMA ClaimStep ==
  ASSUME IndInv, NEW t \in Thread, EraseClaim(t)
  PROVE  /\ ~next[node[t]][0].mark => Claims(node[t])
         /\ next[node[t]][0].mark => Rests
  <1>1. node[t] \in Node /\ node[t] \in Pred /\ status[node[t]] = "linked" /\ 0 \in Level
    BY Facts, LevelFacts DEF EraseClaim, VictimPc, LocalOK, EraseOK, Pred
  <1>2. CASE ~next[node[t]][0].mark
    <2>1. next' = WithLink(node[t], 0, [ptr |-> next[node[t]][0].ptr, mark |-> TRUE]) /\ UNCHANGED nodeInfo
      BY <1>2 DEF EraseClaim, WithMark
    <2>2. node[t] \in Live
      BY <1>1, <1>2 DEF Live
    <2>3. /\ Public' = Public
          /\ \A q \in Pred : next'[q][0] = IF q = node[t] THEN [ptr |-> next[node[t]][0].ptr, mark |-> TRUE]
                                                           ELSE next[q][0]
      BY <1>1, <2>1, WriteLevel0, ZenonT(30)
    <2>4. Claims(node[t])
      BY <2>2, <2>3, PublicFacts DEF Claims
    <2> QED BY <1>2, <2>4
  <1>3. CASE next[node[t]][0].mark
    BY <1>3, QuietRests DEF EraseClaim, memory
  <1> QED BY <1>2, <1>3

\* A splice takes out corpses only, and so does an unlink.
LEMMA SpliceStep ==
  ASSUME IndInv, NEW t \in Thread, PathOK(t), InsertSplice(t)
  PROVE  Rests \/ \E p \in Public, D \in SUBSET Node, b \in NodePtr : Bypasses(p, D, b)
  <1> DEFINE i == cur[t].lvl
             p == cur[t].pred
             c == cur[t].curr
             b == cur[t].live
  <1>1. /\ pc[t] = "i_splice" /\ i \in Level /\ p \in Pred /\ p \in Public /\ b \in NodePtr /\ ~c.mark
        /\ UNCHANGED nodeInfo
    BY Facts DEF InsertSplice, SearchPc, SearchOK, LocalOK, Under, Public, Pred
  <1>2. CASE ~Holds(p, i, c)
    BY <1>1, <1>2, QuietRests DEF InsertSplice, memory
  <1>3. CASE Holds(p, i, c) /\ i # 0
    BY <1>1, <1>3, WriteLevel0 DEF InsertSplice, Spliced
  <1>4. CASE Holds(p, i, c) /\ i = 0
    <2>1. PICK D \in SUBSET Node : c.ptr \in D /\ Corpses(D, b)
      BY <1>1, <1>4 DEF PathOK, DeadPath
    <2>2. next[p][0] = c
      BY <1>4 DEF Holds
    <2>3. next' = WithLink(p, i, To(b))
      BY <1>4 DEF InsertSplice, Spliced
    <2>4. Bypasses(p, D, b)
      BY <1>1, <1>4, <2>1, <2>2, <2>3, WriteLevel0, PublicFacts DEF Bypasses
    <2> QED BY <1>1, <2>4
  <1> QED BY <1>2, <1>3, <1>4

LEMMA UnlinkStep ==
  ASSUME IndInv, NEW t \in Thread, EraseUnlink(t)
  PROVE  Rests \/ \E p \in Public, D \in SUBSET Node, b \in NodePtr : Bypasses(p, D, b)
  <1> DEFINE i == cur[t].lvl
             v == node[t]
             b == next[v][i].ptr
  <1>1. /\ pc[t] = "e_unlink" /\ i \in Level /\ UNCHANGED nodeInfo
        /\ v \in Node /\ v \in Pred /\ status[v] = "linked" /\ next[v][0].mark
    BY Facts DEF EraseUnlink, VictimPc, LocalOK, EraseOK, Pred
  <1>2. PICK p \in PredAt(t, i) : next' = IF Holds(p, i, To(v)) THEN WithLink(p, i, To(b)) ELSE next
    BY DEF EraseUnlink
  <1>3. p \in Pred
    BY <1>1, Facts DEF PredAt, Pred, TypeThread
  <1>4. CASE ~Holds(p, i, To(v))
    BY <1>1, <1>2, <1>4, QuietRests DEF memory
  <1>5. CASE Holds(p, i, To(v)) /\ (i # 0 \/ p \notin Public)
    BY <1>1, <1>2, <1>3, <1>5, WriteLevel0
  <1>6. CASE Holds(p, i, To(v)) /\ i = 0 /\ p \in Public
    <2>1. next[p][0].ptr = v /\ ~next[p][0].mark
      BY <1>6 DEF Holds, To
    <2>2. Corpses({v}, b)
      BY <1>1, <1>6 DEF Corpses
    <2>3. b \in NodePtr
      BY <1>1, ReadLeads
    <2>4. Bypasses(p, {v}, b)
      BY <1>1, <1>2, <1>3, <1>6, <2>1, <2>2, WriteLevel0, PublicFacts DEF Bypasses
    <2> QED BY <1>1, <1>6, <2>3, <2>4
  <1> QED BY <1>4, <1>5, <1>6

\* Every other step leaves the live nodes alone.
LEMMA OtherStep ==
  ASSUME IndInv, NEW t \in Thread, PathOK(t), Step(t), ~InsertPublish(t), ~EraseClaim(t)
  PROVE  Rests \/ \E p \in Public, D \in SUBSET Node, b \in NodePtr : Bypasses(p, D, b)
  <1>0. TypeMemory /\ LocalOK(t) /\ InsertOK(t) /\ cur[t].lvl \in Level /\ link[t] \in Level
    BY Facts
  <1>1. CASE UNCHANGED memory
    BY <1>1, QuietRests
  <1>2. CASE \E k \in Key, h \in Level, n \in Node : InsertBegin(t, k, h, n)
    <2>1. PICK k \in Key, h \in Level, n \in Node : InsertBegin(t, k, h, n)
      BY <1>2
    <2>2. /\ status[n] = "free" /\ status' = [status EXCEPT ![n] = "private"]
          /\ next' = [next EXCEPT ![n] = [i \in Level |-> To(Null)]]
      BY <2>1 DEF InsertBegin
    <2> QED BY <1>0, <2>2, NullAssumption DEF Rests, Public, TypeMemory, Pred
  <1>3. CASE InsertScan(t)
    <2>1. CASE UNCHANGED memory
      BY <2>1, QuietRests
    <2>2. CASE ~UNCHANGED memory
      <3>1. /\ pc[t] = "i_scan" /\ link[t] = 0
            /\ status' = [status EXCEPT ![node[t]] = "free"]
            /\ next' = [next EXCEPT ![node[t]] = [j \in Level |-> To(Null)]]
        BY <1>3, <2>2 DEF InsertScan
      <3>2. node[t] \in Node /\ status[node[t]] = "private"
        BY <1>0, <3>1 DEF LocalOK, InsertOK, InsertPc, Private
      <3> QED BY <1>0, <3>1, <3>2, NullAssumption DEF Rests, Public, TypeMemory, Pred
    <2> QED BY <2>1, <2>2
  <1>4. CASE InsertSplice(t)
    BY <1>4, SpliceStep
  <1>5. CASE EraseUnlink(t)
    BY <1>5, UnlinkStep
  <1>6. CASE InsertLink(t)
    <2>1. pc[t] = "i_link" /\ link[t] # 0 /\ preds[t][link[t]] \in Pred /\ UNCHANGED nodeInfo
      BY <1>0, <1>6, Facts DEF InsertLink, LocalOK, Level
    <2>2. UNCHANGED next \/ next' = WithLink(preds[t][link[t]], link[t], To(node[t]))
      BY <1>6 DEF InsertLink
    <2> QED BY <1>0, <2>1, <2>2, WriteLevel0, QuietRests DEF memory
  <1>7. CASE InsertRelink(t)
    <2>1. link[t] # 0 /\ node[t] \in Pred /\ UNCHANGED nodeInfo
      BY <1>0, <1>7 DEF InsertRelink, LocalOK, InsertPc, Level, Pred
    <2>2. UNCHANGED next \/ next' = WithLink(node[t], link[t], To(succs[t][link[t]]))
      BY <1>7 DEF InsertRelink
    <2> QED BY <1>0, <2>1, <2>2, WriteLevel0, QuietRests DEF memory
  <1>8. CASE EraseMark(t)
    <2>1. cur[t].lvl # 0 /\ node[t] \in Pred /\ UNCHANGED nodeInfo
      BY <1>0, <1>8 DEF EraseMark, LocalOK, VictimPc, Level, Pred
    <2>2. next' = WithLink(node[t], cur[t].lvl, [ptr |-> next[node[t]][cur[t].lvl].ptr, mark |-> TRUE])
      BY <1>8 DEF EraseMark, Marking, WithMark
    <2> QED BY <1>0, <2>1, <2>2, WriteLevel0, SMTT(30)
  <1>9. CASE \/ \E k \in Key : EraseBegin(t, k) \/ FindBegin(t, k)
            \/ EachBegin(t) \/ EachScan(t) \/ InsertTop(t) \/ InsertLevel(t) \/ InsertLive(t)
            \/ InsertCheck(t) \/ InsertCount(t) \/ EraseLevel(t) \/ EraseScan(t) \/ EraseRetire(t)
            \/ EraseCount(t) \/ FindTop(t) \/ FindLevel(t) \/ FindScan(t) \/ FindCheck(t)
    <2>1. UNCHANGED memory
      BY <1>9 DEF EraseBegin, FindBegin, EachBegin, EachScan, InsertTop, InsertLevel, InsertLive, InsertCheck,
                  InsertCount, EraseLevel, EraseScan, EraseRetire, EraseCount, FindTop, FindLevel, FindScan,
                  FindCheck, shared
    <2> QED BY <1>1, <2>1
  <1> QED BY <1>2, <1>3, <1>4, <1>5, <1>6, <1>7, <1>8, <1>9 DEF Step

LEMMA StepLevel0 == ASSUME IndInv, NEW t \in Thread, PathOK(t), Step(t) PROVE Level0Step
  <1>1. CASE InsertPublish(t)
    <2>1. node[t] \in Node
      BY <1>1, Facts DEF InsertPublish, InsertPc, LocalOK
    <2> QED BY <1>1, <2>1, PublishStep DEF Level0Step, Publishes
  <1>2. CASE EraseClaim(t)
    BY <1>2, ClaimStep, PublicFacts DEF Level0Step, Claims
  <1>3. CASE ~InsertPublish(t) /\ ~EraseClaim(t)
    BY <1>3, OtherStep DEF Level0Step
  <1> QED BY <1>1, <1>2, <1>3
-----------------------------------------------------------------------------
\* A path of corpses stays one: their marks freeze it.
LEMMA DeadPathStable ==
  ASSUME IndInv, NEW t \in Thread, Keeps(t), Frozen, NEW a, NEW b, DeadPath(a, b)
  PROVE  DeadPath(a, b)'
  <1>1. PICK D \in SUBSET Node : a \in D /\ Corpses(D, b)
    BY DEF DeadPath
  <1>2. \A x \in D : status'[x] = "linked" /\ next'[x][0] = next[x][0]
    BY <1>1, LevelFacts DEF Corpses, Keeps, Same, Frozen
  <1>3. Corpses(D, b)'
    BY <1>1, <1>2 DEF Corpses
  <1> QED BY <1>1, <1>3 DEF DeadPath

LEMMA PathNow ==
  ASSUME NEW t \in Thread, UNCHANGED memory,
         cur'[t].lvl = 0 => DeadPath(cur'[t].curr.ptr, cur'[t].live)
  PROVE  PathOK(t)'
  <1>1. UNCHANGED <<next, status>>
    BY DEF memory, nodeInfo
  <1>2. CASE cur'[t].lvl = 0
    <2>1. PICK D \in SUBSET Node : cur'[t].curr.ptr \in D /\ Corpses(D, cur'[t].live)
      BY <1>2 DEF DeadPath
    <2>2. \A x \in D : status'[x] = "linked" /\ next'[x][0].mark /\ next'[x][0].ptr \in D \cup {cur'[t].live}
      BY <1>1, <2>1 DEF Corpses
    <2> QED BY <2>1, <2>2 DEF PathOK, DeadPath, Corpses
  <1>3. CASE cur'[t].lvl # 0
    BY <1>3 DEF PathOK
  <1> QED BY <1>2, <1>3

\* An insert that walks along corpses extends its path.
LEMMA PathStep == ASSUME IndInv, NEW t \in Thread, PathOK(t), Step(t) PROVE PathOK(t)'
  <1> DEFINE i == cur[t].lvl
             c == cur[t].curr.ptr
             live == cur[t].live
  <1>0. TypeThread
    BY Facts
  <1>1. CASE InsertScan(t)
    <2>1. CASE ~(~cur[t].curr.mark /\ next[c][i].mark)
      <3>1. pc'[t] \notin {"i_live", "i_splice"}
        BY <1>0, <1>1, <2>1 DEF InsertScan, InsertRetry, InsertLevelDone, Return, Goto, TypeThread
      <3> QED BY <3>1 DEF PathOK
    <2>2. CASE ~cur[t].curr.mark /\ next[c][i].mark
      <3>1. Survivor(t, next[c][i].ptr) /\ UNCHANGED memory /\ pc[t] = "i_scan"
        BY <1>1, <2>2 DEF InsertScan
      <3>2. cur'[t].lvl = i /\ cur'[t].curr.ptr = c /\ cur'[t].live = next[c][i].ptr
        BY <1>0, <3>1 DEF Survivor, TypeThread
      <3>3. c \in Node /\ status[c] = "linked"
        BY <3>1, Facts DEF LocalOK, SearchOK
      <3>4. i = 0 => Corpses({c}, next[c][0].ptr)
        BY <2>2, <3>3 DEF Corpses
      <3>5. i = 0 => DeadPath(c, next[c][0].ptr)
        BY <3>3, <3>4 DEF DeadPath
      <3> QED BY <3>1, <3>2, <3>5, PathNow
    <2> QED BY <2>1, <2>2
  <1>2. CASE InsertLive(t)
    <2>1. pc[t] = "i_live" /\ UNCHANGED memory /\ live \in Node /\ Over(live, nkey[c])
      BY <1>2, Facts DEF InsertLive, shared, LocalOK, SearchOK
    <2>2. live # Null /\ status[live] = "linked"
      BY <2>1, NullAssumption DEF Over
    <2>3. cur'[t].lvl = i /\ cur'[t].curr.ptr = c /\ cur'[t].live = IF next[live][i].mark THEN next[live][i].ptr ELSE live
      BY <1>0, <1>2 DEF InsertLive, Survivor, TypeThread
    <2>4. ASSUME i = 0 PROVE DeadPath(c, cur'[t].live)
      <3>1. PICK D \in SUBSET Node : c \in D /\ Corpses(D, live)
        BY <2>1, <2>4 DEF PathOK, DeadPath
      <3>2. CASE ~next[live][0].mark
        BY <2>3, <2>4, <3>1, <3>2 DEF DeadPath
      <3>3. CASE next[live][0].mark
        <4>1. Corpses(D \cup {live}, next[live][0].ptr)
          BY <2>2, <3>1, <3>3 DEF Corpses
        <4>2. D \cup {live} \in SUBSET Node /\ c \in D \cup {live}
          BY <2>1, <3>1
        <4>3. cur'[t].live = next[live][0].ptr
          BY <2>3, <2>4, <3>3
        <4> QED BY <4>1, <4>2, <4>3 DEF DeadPath
      <3> QED BY <3>2, <3>3
    <2> QED BY <2>1, <2>3, <2>4, PathNow
  <1>3. CASE ~InsertScan(t) /\ ~InsertLive(t)
    <2>1. pc'[t] \notin {"i_live", "i_splice"}
      <3> SUFFICES ASSUME pc'[t] \in {"i_live", "i_splice"} PROVE FALSE
        OBVIOUS
      <3> USE DEF TypeThread, Goto
      <3>1. CASE \E k \in Key, h \in Level, n \in Node : InsertBegin(t, k, h, n)
        BY <1>0, <3>1 DEF InsertBegin
      <3>7. CASE \E k \in Key : EraseBegin(t, k) \/ FindBegin(t, k)
        BY <1>0, <3>7 DEF EraseBegin, FindBegin
      <3>8. CASE EachBegin(t) \/ EachScan(t)
        BY <1>0, <3>8 DEF EachBegin, EachScan, EachGo, Return
      <3>2. CASE InsertTop(t) \/ InsertLevel(t) \/ InsertSplice(t)
        BY <1>0, <3>2 DEF InsertTop, InsertLevel, InsertSplice, InsertLevelDone, InsertRetry
      <3>3. CASE InsertPublish(t) \/ InsertCheck(t) \/ InsertLink(t) \/ InsertRelink(t) \/ InsertCount(t)
        BY <1>0, <3>3 DEF InsertPublish, InsertCheck, InsertLink, InsertRelink, InsertCount, Return
      <3>4. CASE EraseLevel(t) \/ EraseScan(t)
        BY <1>0, <3>4 DEF EraseLevel, EraseScan, EraseLevelDone, Return
      <3>5. CASE EraseMark(t) \/ EraseClaim(t) \/ EraseUnlink(t) \/ EraseRetire(t) \/ EraseCount(t)
        BY <1>0, <3>5 DEF EraseMark, EraseClaim, EraseUnlink, EraseRetire, EraseCount, Return
      <3>6. CASE FindTop(t) \/ FindLevel(t) \/ FindScan(t) \/ FindCheck(t)
        BY <1>0, <3>6 DEF FindTop, FindLevel, FindScan, FindCheck, FindLevelDone, Return
      <3> HIDE DEF TypeThread, Goto
      <3> QED BY <1>3, <3>1, <3>2, <3>3, <3>4, <3>5, <3>6, <3>7, <3>8 DEF Step
    <2> QED BY <2>1 DEF PathOK
  <1> QED BY <1>1, <1>2, <1>3
-----------------------------------------------------------------------------
\* The other threads keep their paths.
LEMMA PathOthers ==
  ASSUME IndInv, NEW t \in Thread, NEW u \in Thread, u # t, Others(t), Keeps(t), Frozen, PathOK(u)
  PROVE  PathOK(u)'
  <1>1. pc'[u] = pc[u] /\ cur'[u] = cur[u]
    BY DEF Others
  <1>2. CASE DeadPath(cur[u].curr.ptr, cur[u].live)
    <2>1. PICK D \in SUBSET Node : cur[u].curr.ptr \in D /\ Corpses(D, cur[u].live)
      BY <1>2 DEF DeadPath
    <2>2. \A x \in D : status'[x] = "linked" /\ next'[x][0] = next[x][0]
      BY <2>1, LevelFacts DEF Corpses, Keeps, Same, Frozen
    <2>3. \A x \in D : status'[x] = "linked" /\ next'[x][0].mark /\ next'[x][0].ptr \in D \cup {cur'[u].live}
      BY <1>1, <2>1, <2>2 DEF Corpses
    <2> QED BY <1>1, <2>1, <2>3 DEF PathOK, DeadPath, Corpses
  <1>3. CASE ~DeadPath(cur[u].curr.ptr, cur[u].live)
    BY <1>1, <1>3 DEF PathOK
  <1> QED BY <1>2, <1>3

\* A step with memory and cursors untouched.
LEMMA ReachQuiet == ASSUME ReachInv, IndInv', UNCHANGED <<memory, pc, cur>> PROVE ReachInv'
  <1>1. UNCHANGED <<next, nkey, nheight, status>>
    BY DEF memory, nodeInfo
  <1>2. Joined'
    BY <1>1 DEF ReachInv, Joined, Live, From, Closed
  <1>3. ASSUME NEW t \in Thread PROVE PathOK(t)'
    BY <1>1 DEF ReachInv, PathOK, DeadPath, Corpses
  <1> QED BY <1>2, <1>3 DEF ReachInv

LEMMA InitReach == ASSUME Init PROVE ReachInv
  <1>1. Live = {}
    BY DEF Init, Live
  <1>2. \A t \in Thread : PathOK(t)
    BY DEF Init, PathOK
  <1> QED BY <1>1, <1>2, InitInv DEF ReachInv, Joined

LEMMA NextReach == ASSUME ReachInv, [Next]_vars PROVE ReachInv'
  <1>0. IndInv /\ IndInv'
    BY NextInv DEF ReachInv
  <1>1. ASSUME NEW t \in Thread, Step(t) PROVE ReachInv'
    <2>1. PathOK(t) /\ Joined
      BY DEF ReachInv
    <2>2. Level0Step /\ PathOK(t)'
      BY <1>0, <1>1, <2>1, StepLevel0, PathStep
    <2>3. Others(t) /\ Keeps(t) /\ Frozen
      BY <1>0, <1>1, StepFine DEF Fine, Steady
    <2>4. \A u \in Thread : u # t => PathOK(u)'
      BY <1>0, <2>3, PathOthers DEF ReachInv
    <2>5. Joined'
      BY <1>0, <2>1, <2>2, JoinedStable
    <2> QED BY <1>0, <2>2, <2>4, <2>5 DEF ReachInv
  <1>2. CASE Destroy \/ UNCHANGED vars
    BY <1>0, <1>2, ReachQuiet DEF Destroy, vars, memory, nodeInfo
  <1> QED BY <1>1, <1>2 DEF Next

\* Joined and the paths of corpses hold throughout.
THEOREM ReachInvariance == Spec => []ReachInv
  <1>1. Init => ReachInv
    BY InitReach
  <1>2. ReachInv /\ [Next]_vars => ReachInv'
    BY NextReach
  <1> QED BY <1>1, <1>2, PTL DEF Spec

\* Two live nodes never carry one key: of two nodes behind the head one is behind the other, and keys
\* grow along the way.
LEMMA LiveKeys == ASSUME ReachInv PROVE UniqueKeys
  <1> SUFFICES ASSUME NEW m \in Live, NEW n \in Live, nkey[m] = nkey[n] PROVE m = n
    BY DEF UniqueKeys
  <1>1. IndInv /\ m \in From(HeadNode) /\ n \in From(HeadNode) /\ HeadNode \in Pred
    BY PublicFacts DEF ReachInv, Joined
  <1>2. m \in Public /\ n \in Public /\ m # HeadNode /\ n # HeadNode /\ nkey[m] \in Int /\ nkey[n] \in Int
    BY <1>1, PublicFacts, KeyAssumption DEF IndInv, TypeOK, TypeMemory
  <1>3. m \in From(n) \/ n \in From(m)
    BY <1>1, FromLinear
  <1> QED BY <1>1, <1>2, <1>3, FromSorted

\* Two inserts of one key, or an insert racing the erase of the same key and the unlinking of corpses
\* around it, never leave two live nodes with that key.
THEOREM KeysUnique == Spec => []UniqueKeys
  <1>1. ReachInv => UniqueKeys
    BY LiveKeys
  <1> QED BY <1>1, ReachInvariance, PTL
-----------------------------------------------------------------------------
\* Chain(0), which the model computes hop by hop, is From(HeadNode).
LEMMA NatSetInduction == ASSUME NEW S, 0 \in S, \A n \in Nat : n \in S => n + 1 \in S PROVE Nat \subseteq S
  <1> SUFFICES ASSUME Nat \ S # {} PROVE FALSE
    OBVIOUS
  <1> DEFINE R == OpToRel(<, Nat)
  <1>1. IsWellFoundedOn(R, Nat)
    BY NatLessThanWellFounded
  <1> HIDE DEF R
  <1>2. PICK x \in Nat \ S : \A y \in Nat \ S : ~(<<y, x>> \in R)
    BY <1>1, WFMin
  <1>3. x - 1 \in Nat \ S
    BY <1>2
  <1>4. <<x - 1, x>> \in R
    BY <1>2, <1>3 DEF R, OpToRel
  <1> QED BY <1>2, <1>3, <1>4

Grow(S)    == S \cup ({next[p][0].ptr : p \in S} \ {Null})
Hops(n, h) == h = [m \in 0 .. n |-> IF m = 0 THEN {HeadNode} ELSE Grow(h[m - 1])]

LEMMA HopsExist == ASSUME NEW n \in Nat PROVE \E h : Hops(n, h)
  <1> DEFINE S == {k \in Nat : \E h : Hops(k, h)}
  <1>1. 0 \in S
    <2>1. Hops(0, [m \in 0 .. 0 |-> {HeadNode}])
      BY DEF Hops
    <2> QED BY <2>1
  <1>2. ASSUME NEW k \in Nat, k \in S PROVE k + 1 \in S
    <2>1. PICK g : Hops(k, g)
      BY <1>2
    <2> DEFINE h == [m \in 0 .. k + 1 |-> IF m = k + 1 THEN Grow(g[k]) ELSE g[m]]
               r == [m \in 0 .. k + 1 |-> IF m = 0 THEN {HeadNode} ELSE Grow(h[m - 1])]
    <2>2. ASSUME NEW m \in 0 .. k + 1 PROVE h[m] = r[m]
      <3>1. CASE m = k + 1
        BY <3>1
      <3>2. CASE m # k + 1
        <4>1. m \in 0 .. k
          BY <3>2
        <4>2. g[m] = IF m = 0 THEN {HeadNode} ELSE Grow(g[m - 1])
          BY <2>1, <4>1 DEF Hops
        <4>3. m # 0 => m - 1 \in 0 .. k + 1 /\ m - 1 # k + 1
          BY <4>1
        <4> QED BY <4>1, <4>2, <4>3
      <3> QED BY <3>1, <3>2
    <2>3. h = r
      BY <2>2
    <2>4. Hops(k + 1, h)
      BY <2>3 DEF Hops
    <2> HIDE DEF h
    <2> QED BY <2>4
  <1> HIDE DEF S
  <1>3. n \in S
    BY <1>1, <1>2, NatSetInduction
  <1> QED BY <1>3 DEF S

\* Hop by hop the set grows towards From(HeadNode), by one node at least until it is closed.
LEMMA HopsGrow ==
  ASSUME IndInv, NEW n \in Nat, NEW h, Hops(n, h)
  PROVE  \A m \in 0 .. n : /\ HeadNode \in h[m] /\ h[m] \subseteq From(HeadNode)
                           /\ Closed(h[m]) \/ Cardinality(h[m]) > m
  <1> DEFINE F == From(HeadNode)
             P(m) == HeadNode \in h[m] /\ h[m] \subseteq F /\ (Closed(h[m]) \/ Cardinality(h[m]) > m)
             S == {m \in Nat : m \in 0 .. n => P(m)}
  <1>0. HeadNode \in F /\ Closed(F) /\ F \in SUBSET Pred /\ IsFiniteSet(Pred) /\ Null \notin Pred
    <2>1. IsFiniteSet(Node \cup {HeadNode})
      BY FiniteAssumption, FS_AddElement
    <2> QED BY <2>1, FromSelf, FromClosed, PublicFacts, NullAssumption DEF From, Pred
  <1>1. 0 \in S
    <2>1. h[0] = {HeadNode}
      BY DEF Hops
    <2>2. Cardinality({HeadNode}) = 1
      BY FS_Singleton
    <2> QED BY <1>0, <2>1, <2>2
  <1>2. ASSUME NEW m \in Nat, m \in S PROVE m + 1 \in S
    <2> SUFFICES ASSUME m + 1 \in 0 .. n PROVE P(m + 1)
      OBVIOUS
    <2> DEFINE A == h[m]
               B == h[m + 1]
    <2>1. HeadNode \in A /\ A \subseteq F /\ (Closed(A) \/ Cardinality(A) > m)
      BY <1>2
    <2>2. B = Grow(A)
      <3>1. \A j \in 0 .. n : h[j] = IF j = 0 THEN {HeadNode} ELSE Grow(h[j - 1])
        BY DEF Hops
      <3>2. h[m + 1] = Grow(h[(m + 1) - 1]) /\ (m + 1) - 1 = m
        BY <3>1
      <3> QED BY <3>2
    <2> HIDE DEF A, B, F
    <2>3. HeadNode \in B /\ A \subseteq B
      BY <2>1, <2>2 DEF Grow
    <2>4. B \subseteq F
      BY <1>0, <2>1, <2>2 DEF Grow, Closed
    <2>5. CASE Closed(A)
      <3>1. B = A
        BY <2>2, <2>5 DEF Grow, Closed
      <3> QED BY <2>3, <2>4, <2>5, <3>1 DEF A, B, F
    <2>6. CASE ~Closed(A)
      <3>1. PICK x \in A : next[x][0].ptr # Null /\ next[x][0].ptr \notin A
        BY <2>6 DEF Closed
      <3> DEFINE q == next[x][0].ptr
      <3>2. q \in B
        BY <2>2, <3>1 DEF Grow
      <3>3. IsFiniteSet(A) /\ IsFiniteSet(B) /\ Cardinality(A) > m
        BY <1>0, <2>1, <2>4, <2>6, FS_Subset
      <3>4. Cardinality(A \cup {q}) = Cardinality(A) + 1 /\ A \cup {q} \in SUBSET B
        BY <2>3, <3>1, <3>2, <3>3, FS_AddElement
      <3>5. Cardinality(A \cup {q}) <= Cardinality(B) /\ Cardinality(A) \in Nat /\ Cardinality(B) \in Nat
        BY <3>3, <3>4, FS_Subset, FS_CardinalityType
      <3>6. Cardinality(B) > m + 1
        BY <3>3, <3>4, <3>5
      <3> QED BY <2>3, <2>4, <3>6 DEF B, F
    <2> QED BY <2>5, <2>6
  <1> HIDE DEF S
  <1>3. Nat \subseteq S
    BY <1>1, <1>2, NatSetInduction
  <1> QED BY <1>3 DEF S

LEMMA ChainIsFrom == ASSUME IndInv PROVE Chain(0) = From(HeadNode) \ {HeadNode}
  <1> DEFINE N == Cardinality(Node)
             hop == CHOOSE h : Hops(N, h)
  <1>1. Chain(0) = hop[N] \ {HeadNode}
    BY DEF Chain, Hops, Grow
  <1>2. N \in Nat
    BY FiniteAssumption, FS_CardinalityType
  <1>3. Hops(N, hop)
    BY <1>2, HopsExist
  <1> HIDE DEF N, hop
  <1>4. /\ HeadNode \in hop[N] /\ hop[N] \subseteq From(HeadNode)
        /\ Closed(hop[N]) \/ Cardinality(hop[N]) > N
    BY <1>2, <1>3, HopsGrow
  <1>5. IsFiniteSet(Pred) /\ Cardinality(Pred) = N + 1 /\ hop[N] \in SUBSET Pred
    BY <1>4, FiniteAssumption, FS_AddElement, PublicFacts DEF Pred, From, N
  <1>6. CASE Closed(hop[N])
    BY <1>1, <1>4, <1>5, <1>6, FromLeast
  <1>7. CASE Cardinality(hop[N]) > N
    <2>1. Cardinality(hop[N]) <= Cardinality(Pred) /\ Cardinality(hop[N]) \in Nat
      BY <1>5, FS_Subset, FS_CardinalityType
    <2>2. Cardinality(hop[N]) = Cardinality(Pred)
      BY <1>2, <1>5, <1>7, <2>1
    <2>3. hop[N] = Pred
      BY <1>5, <2>2, FS_Subset
    <2> QED BY <1>1, <1>4, <2>3 DEF From
  <1> QED BY <1>4, <1>6, <1>7

\* Whatever the inserts and erases of its neighbours do, a live node is on the chain of level 0: no
\* splice, unlink or publish takes out or overtakes a node that is not erased.
THEOREM LiveNodesKept == Spec => []NoLiveNodeLost
  <1>1. ReachInv => NoLiveNodeLost
    BY ChainIsFrom, PublicFacts DEF ReachInv, Joined, NoLiveNodeLost
  <1> QED BY <1>1, ReachInvariance, PTL
-----------------------------------------------------------------------------
\* The destructor runs between calls, and an erased node waits for it on the retired list or still
\* belongs to the erase that claimed it.
Once     == \A n \in Node : freed[n] = IF status[n] = "linked" THEN 1 ELSE 0
Buried   == \A n \in Node : status[n] = "linked" /\ next[n][0].mark =>
                              n \in Retired \/ \E t \in Thread : Owns(t) /\ node[t] = n
FreedInv == Buried /\ (~alive => Once /\ \A t \in Thread : pc[t] = "idle")

\* The steps of a thread at some pcs, and what no step but one writes.
LEMMA StepByPc ==
  ASSUME NEW t \in Thread, Step(t)
  PROVE  /\ pc[t] = "e_unlink" => EraseUnlink(t)
         /\ pc[t] = "e_retire" => EraseRetire(t)
         /\ pc[t] # "e_retire" => UNCHANGED retired
         /\ alive \/ pc[t] # "idle"
         /\ UNCHANGED <<alive, freed>>
  <1> USE DEF shared, final
  <1>1. CASE \E k \in Key, h \in Level, n \in Node : InsertBegin(t, k, h, n)
    BY <1>1 DEF InsertBegin, Start
  <1>2. CASE \E k \in Key : EraseBegin(t, k) \/ FindBegin(t, k)
    BY <1>2 DEF EraseBegin, FindBegin, Start
  <1>3. CASE EachBegin(t) \/ EachScan(t)
    BY <1>3 DEF EachBegin, EachScan, Start
  <1>4. CASE InsertTop(t) \/ InsertLevel(t) \/ InsertScan(t) \/ InsertLive(t) \/ InsertSplice(t)
    BY <1>4 DEF InsertTop, InsertLevel, InsertScan, InsertLive, InsertSplice
  <1>5. CASE InsertPublish(t) \/ InsertCheck(t) \/ InsertLink(t) \/ InsertRelink(t) \/ InsertCount(t)
    BY <1>5 DEF InsertPublish, InsertCheck, InsertLink, InsertRelink, InsertCount
  <1>6. CASE EraseLevel(t) \/ EraseScan(t) \/ EraseMark(t) \/ EraseClaim(t)
    BY <1>6 DEF EraseLevel, EraseScan, EraseMark, EraseClaim
  <1>7. CASE EraseUnlink(t) \/ EraseRetire(t) \/ EraseCount(t)
    BY <1>7 DEF EraseUnlink, EraseRetire, EraseCount
  <1>8. CASE FindTop(t) \/ FindLevel(t) \/ FindScan(t) \/ FindCheck(t)
    BY <1>8 DEF FindTop, FindLevel, FindScan, FindCheck
  <1> QED BY <1>1, <1>2, <1>3, <1>4, <1>5, <1>6, <1>7, <1>8 DEF Step

\* A push on the retired list.
LEMMA PushRetired ==
  ASSUME IndInv, NEW t \in Thread, EraseRetire(t)
  PROVE  Retired' = Retired \cup {node[t]}
  <1>1. retired \in Seq(Node) /\ node[t] \in Node /\ retired' = <<node[t]>> \o retired
    BY Facts DEF EraseRetire, TypeShared, LocalOK, VictimPc
  <1>2. Len(retired') = Len(retired) + 1 /\ retired'[1] = node[t] /\ Len(retired) \in Nat
    BY <1>1
  <1>3. \A j \in 1 .. Len(retired) : retired'[j + 1] = retired[j]
    BY <1>1
  <1>4. \A j \in 2 .. Len(retired') : retired'[j] = retired[j - 1] /\ j - 1 \in 1 .. Len(retired)
    BY <1>1, <1>2
  <1>5. Retired' \subseteq Retired \cup {node[t]}
    BY <1>2, <1>4 DEF Retired
  <1>6. Retired \subseteq Retired'
    BY <1>2, <1>3 DEF Retired
  <1>7. node[t] \in Retired'
    BY <1>2 DEF Retired
  <1> QED BY <1>5, <1>6, <1>7

\* A node that a thread owns stays its own until it is retired.
LEMMA OwnedOrRetired ==
  ASSUME IndInv, NEW t \in Thread, Step(t)
  PROVE  /\ Retired \subseteq Retired'
         /\ Owns(t) => node[t] \in Retired' \/ (Owns(t)' /\ node'[t] = node[t])
  <1>1. CASE pc[t] = "e_retire"
    BY <1>1, StepByPc, PushRetired
  <1>2. CASE pc[t] # "e_retire"
    <2>1. Retired' = Retired
      BY <1>2, StepByPc DEF Retired
    <2>2. Owns(t) => Owns(t)' /\ node'[t] = node[t]
      BY <1>2, StepByPc, Facts DEF Owns, EraseUnlink, Goto, args, TypeThread
    <2> QED BY <2>1, <2>2
  <1> QED BY <1>1, <1>2

LEMMA BuriedStep == ASSUME IndInv, NEW t \in Thread, PathOK(t), Step(t), Buried PROVE Buried'
  <1> SUFFICES ASSUME NEW n \in Node, status'[n] = "linked", next'[n][0].mark
               PROVE  n \in Retired' \/ \E u \in Thread : Owns(u)' /\ node'[u] = n
    BY DEF Buried
  <1>1. CASE n \in Public /\ n \notin Live
    <2>1. status[n] = "linked" /\ next[n][0].mark
      BY <1>1, PublicFacts DEF Public, Live
    <2>2. CASE n \in Retired
      BY <2>2, OwnedOrRetired
    <2>3. CASE \E u \in Thread : Owns(u) /\ node[u] = n
      <3>1. PICK u \in Thread : Owns(u) /\ node[u] = n
        BY <2>3
      <3>2. CASE u = t
        BY <3>1, <3>2, OwnedOrRetired
      <3>3. CASE u # t
        BY <3>1, <3>3, StepFine DEF Others, Owns
      <3> QED BY <3>2, <3>3
    <2> QED BY <2>1, <2>2, <2>3 DEF Buried
  <1>2. CASE n \in Live
    <2>1. n \notin Live'
      BY DEF Live
    <2>2. EraseClaim(t) /\ ~next[node[t]][0].mark
      BY <1>2, <2>1, LiveAfter, OtherStep, PublishStep, ClaimStep, PublicFacts DEF Publishes
    <2>3. n = node[t]
      <3>1. Claims(node[t]) /\ node[t] \in Node
        BY <2>2, ClaimStep, PublicFacts DEF Claims
      <3>2. Live' = Live \ {node[t]}
        BY <3>1, LiveAfter
      <3> QED BY <1>2, <2>1, <3>2
    <2>4. pc'[t] = "e_unlink" /\ node'[t] = node[t]
      BY <2>2, Facts DEF EraseClaim, Goto, args, TypeThread
    <2> QED BY <2>3, <2>4 DEF Owns
  <1>3. CASE n \notin Public
    <2>1. n \in Public' /\ n \notin Live'
      BY DEF Public, Live
    <2>2. PICK p \in Public, m \in Node : Publishes(p, m) /\ n = m
      BY <1>3, <2>1, StepLevel0 DEF Level0Step, Rests, Claims, Bypasses, Publishes
    <2> QED BY <2>1, <2>2, LiveAfter
  <1> QED BY <1>1, <1>2, <1>3

\* What the destructor finds: each linked node on the chain or once on the retired list.
LEMMA DestroyOnce ==
  ASSUME ReachInv, Buried, \A t \in Thread : pc[t] = "idle", NEW n \in Node
  PROVE  Destructions(n) = IF status[n] = "linked" THEN 1 ELSE 0
  <1> DEFINE J == {j \in 1 .. Len(retired) : retired[j] = n}
  <1>1. Chain(0) = From(HeadNode) \ {HeadNode} /\ RetiredOnce /\ \A m \in Retired : status[m] = "linked" /\ next[m][0].mark
    BY ChainIsFrom DEF ReachInv, IndInv, RetiredOK
  <1>2. n \in Retired => Entries(n) = 1
    <2> SUFFICES ASSUME n \in Retired PROVE Entries(n) = 1
      OBVIOUS
    <2>1. PICK j \in 1 .. Len(retired) : retired[j] = n
      BY DEF Retired
    <2>2. J = {j}
      BY <1>1, <2>1 DEF RetiredOnce
    <2> QED BY <2>2, FS_Singleton DEF Entries
  <1>3. n \notin Retired => Entries(n) = 0
    <2> SUFFICES ASSUME n \notin Retired PROVE Entries(n) = 0
      OBVIOUS
    <2>1. J = {}
      BY DEF Retired
    <2> QED BY <2>1, FS_EmptySet DEF Entries
  <1>4. status[n] = "linked" => n \in Retired \/ n \in Chain(0)
    BY <1>1, PublicFacts DEF ReachInv, Joined, Live, Buried, Owns
  <1>5. n \in Chain(0) => status[n] = "linked"
    BY <1>1, FromSorted, PublicFacts DEF ReachInv
  <1> QED BY <1>1, <1>2, <1>3, <1>4, <1>5 DEF Destructions

LEMMA NextFreed == ASSUME ReachInv, FreedInv, [Next]_vars PROVE FreedInv'
  <1>1. ASSUME NEW t \in Thread, Step(t) PROVE FreedInv'
    <2>1. alive /\ alive'
      BY <1>1, StepByPc DEF FreedInv
    <2>2. Buried'
      BY <1>1, BuriedStep DEF ReachInv, FreedInv
    <2> QED BY <2>1, <2>2 DEF FreedInv
  <1>2. ASSUME UNCHANGED <<memory, retired, pc, node>>, Buried PROVE Buried'
    BY <1>2 DEF Buried, memory, nodeInfo, Retired, Owns
  <1>3. CASE Destroy
    <2>1. Buried'
      BY <1>2, <1>3 DEF Destroy, args, FreedInv
    <2>2. Once'
      BY <1>3, DestroyOnce DEF Destroy, FreedInv, Once, memory, nodeInfo
    <2> QED BY <1>3, <2>1, <2>2 DEF Destroy, FreedInv
  <1>4. CASE UNCHANGED vars
    <2>1. Buried'
      BY <1>2, <1>4 DEF vars, memory, nodeInfo, FreedInv
    <2> QED BY <1>4, <2>1 DEF vars, FreedInv, Once
  <1> QED BY <1>1, <1>3, <1>4 DEF Next

\* Whichever unlink was lost, and whoever walked past the node, the destructor destroys every node that
\* was linked exactly once, and no other block.
THEOREM DestroyedOnce == Spec => []FreedOnce
  <1>1. Init => FreedInv
    BY DEF Init, FreedInv, Buried
  <1>2. ReachInv /\ FreedInv /\ [Next]_vars => FreedInv'
    BY NextFreed
  <1>3. FreedInv => FreedOnce
    BY DEF FreedInv, Once, FreedOnce
  <1> QED BY <1>1, <1>2, <1>3, ReachInvariance, PTL DEF Spec
-----------------------------------------------------------------------------
\* _size is the number of live nodes, corrected by the calls between their effect and their count, up to
\* a multiple of SizeMod.
Pub(t)   == pc[t] \in {"i_check", "i_link", "i_relink", "i_count"} \/ link[t] > 0
Unc(t)   == pc[t] \in {"e_unlink", "e_retire", "e_count"}
Erasing  == Uncounted({"e_unlink", "e_retire", "e_count"})
Balanced == \E k \in Int : size + Cardinality(Published) = Cardinality(Live) + Cardinality(Erasing) + k * SizeMod

\* The steps that neither take effect nor count.
LEMMA CountQuiet ==
  ASSUME IndInv, NEW t \in Thread, Step(t),
         ~InsertPublish(t), ~EraseClaim(t), ~InsertCount(t), ~EraseCount(t)
  PROVE  UNCHANGED size /\ Pub(t)' = Pub(t) /\ Unc(t)' = Unc(t)
  <1>0. TypeThread /\ LocalOK(t) /\ FreshOK(t) /\ link[t] \in Nat
    BY Facts, LevelFacts
  <1>1. \A o : Return(t, o) => pc'[t] = "idle" /\ link'[t] = 0
    BY <1>0 DEF Return, Goto, TypeThread
  <1>2. UNCHANGED args => link'[t] = link[t]
    BY DEF args
  <1> USE <1>0 DEF Pub, Unc, shared, counters, Goto, TypeThread
  <1>3. CASE \E k \in Key, h \in Level, n \in Node : InsertBegin(t, k, h, n)
    BY <1>3 DEF InsertBegin, Start
  <1>4. CASE \E k \in Key : EraseBegin(t, k) \/ FindBegin(t, k)
    BY <1>4 DEF EraseBegin, FindBegin, Start
  <1>5. CASE EachBegin(t) \/ EachScan(t)
    BY <1>1, <1>5 DEF EachBegin, EachScan, EachGo, Start, FreshOK, InsertPc
  <1>6. CASE InsertTop(t) \/ InsertLevel(t) \/ InsertLive(t) \/ InsertSplice(t)
    BY <1>2, <1>6 DEF InsertTop, InsertLevel, InsertLevelDone, InsertLive, InsertSplice, InsertRetry
  <1>7. CASE InsertScan(t)
    BY <1>1, <1>2, <1>7, SMTT(30) DEF InsertScan, InsertLevelDone, InsertRetry
  <1>8. CASE InsertCheck(t) \/ InsertLink(t) \/ InsertRelink(t)
    BY <1>2, <1>8, LevelFacts DEF InsertCheck, InsertLink, InsertRelink, LocalOK
  <1>9. CASE EraseLevel(t) \/ EraseScan(t)
    BY <1>1, <1>2, <1>9, SMTT(30) DEF EraseLevel, EraseScan, EraseLevelDone, FreshOK, InsertPc
  <1>10. CASE EraseMark(t) \/ EraseUnlink(t) \/ EraseRetire(t)
    BY <1>2, <1>10 DEF EraseMark, EraseUnlink, EraseRetire
  <1>11. CASE FindTop(t) \/ FindLevel(t) \/ FindScan(t) \/ FindCheck(t)
    BY <1>1, <1>2, <1>11, SMTT(30) DEF FindTop, FindLevel, FindScan, FindCheck, FindLevelDone, FreshOK, InsertPc
  <1> QED BY <1>3, <1>4, <1>5, <1>6, <1>7, <1>8, <1>9, <1>10, <1>11 DEF Step

\* Finite sets that gain or lose one element.
LEMMA CountOne ==
  ASSUME NEW S, IsFiniteSet(S), NEW x
  PROVE  /\ Cardinality(S) \in Nat
         /\ x \notin S => Cardinality(S \cup {x}) = Cardinality(S) + 1
         /\ x \in S => Cardinality(S \ {x}) = Cardinality(S) - 1
  BY FS_AddElement, FS_RemoveElement, FS_CardinalityType

\* The sets of calls that are counted, after a step of t.
LEMMA CallSets ==
  ASSUME IndInv, NEW t \in Thread, Others(t)
  PROVE  /\ IsFiniteSet(Published) /\ IsFiniteSet(Erasing) /\ IsFiniteSet(Live)
         /\ (t \in Published <=> Pub(t)) /\ (t \in Erasing <=> Unc(t))
         /\ Published' = IF Pub(t)' THEN Published \cup {t} ELSE Published \ {t}
         /\ Erasing' = IF Unc(t)' THEN Erasing \cup {t} ELSE Erasing \ {t}
  <1>1. Published \in SUBSET Thread /\ Erasing \in SUBSET Thread /\ Live \in SUBSET Node
    BY DEF Published, Erasing, Uncounted, Live
  <1>2. IsFiniteSet(Published) /\ IsFiniteSet(Erasing) /\ IsFiniteSet(Live)
    BY <1>1, FiniteAssumption, FS_Subset
  <1>3. (t \in Published <=> Pub(t)) /\ (t \in Erasing <=> Unc(t))
    BY DEF Published, Erasing, Uncounted, Pub, Unc
  <1>4. /\ Published' = {u \in Thread : IF u = t THEN Pub(t)' ELSE u \in Published}
        /\ Erasing' = {u \in Thread : IF u = t THEN Unc(t)' ELSE u \in Erasing}
    BY DEF Published, Erasing, Uncounted, Pub, Unc, Others
  <1> QED BY <1>1, <1>2, <1>3, <1>4

LEMMA BalancedStep == ASSUME IndInv, NEW t \in Thread, PathOK(t), Step(t), Balanced PROVE Balanced'
  <1> DEFINE P == Cardinality(Published)
             E == Cardinality(Erasing)
             L == Cardinality(Live)
  <1>0. /\ TypeThread /\ LocalOK(t) /\ FreshOK(t) /\ Others(t) /\ link[t] \in Nat
        /\ size \in Int /\ SizeMod \in Int /\ size >= 0 /\ size < SizeMod
    <2>1. TypeThread /\ TypeShared /\ LocalOK(t) /\ FreshOK(t) /\ link[t] \in Level
      BY Facts
    <2>2. Others(t)
      BY StepFine
    <2>3. size \in 0 .. SizeMod - 1 /\ SizeMod \in Nat
      BY <2>1, SizeAssumption DEF TypeShared
    <2>4. link[t] \in Nat
      BY <2>1, LevelFacts
    <2> HIDE DEF P, E, L
    <2> QED BY <2>1, <2>2, <2>3, <2>4
  <1>1. /\ P \in Int /\ E \in Int /\ L \in Int
        /\ (t \in Published <=> Pub(t)) /\ (t \in Erasing <=> Unc(t))
        /\ P' = P + (IF Pub(t)' /\ ~Pub(t) THEN 1 ELSE IF Pub(t) /\ ~Pub(t)' THEN -1 ELSE 0)
        /\ E' = E + (IF Unc(t)' /\ ~Unc(t) THEN 1 ELSE IF Unc(t) /\ ~Unc(t)' THEN -1 ELSE 0)
    <2>1. Published \cup {t} = Published \/ t \notin Published
      OBVIOUS
    <2>2. Erasing \cup {t} = Erasing \/ t \notin Erasing
      OBVIOUS
    <2>3. P \in Int /\ E \in Int /\ L \in Int
      <3>1. IsFiniteSet(Published) /\ IsFiniteSet(Erasing) /\ IsFiniteSet(Live)
        BY <1>0, CallSets
      <3> QED BY <3>1, FS_CardinalityType
    <2>4. P' = IF Pub(t)' THEN Cardinality(Published \cup {t}) ELSE Cardinality(Published \ {t})
      BY <1>0, CallSets
    <2>5. E' = IF Unc(t)' THEN Cardinality(Erasing \cup {t}) ELSE Cardinality(Erasing \ {t})
      BY <1>0, CallSets
    <2>6. /\ Cardinality(Published \cup {t}) = IF Pub(t) THEN P ELSE P + 1
          /\ Cardinality(Published \ {t}) = IF Pub(t) THEN P - 1 ELSE P
      <3>1. Published \ {t} = Published \/ t \in Published
        OBVIOUS
      <3> QED BY <1>0, <2>1, <3>1, CallSets, CountOne
    <2>7. /\ Cardinality(Erasing \cup {t}) = IF Unc(t) THEN E ELSE E + 1
          /\ Cardinality(Erasing \ {t}) = IF Unc(t) THEN E - 1 ELSE E
      <3>1. Erasing \ {t} = Erasing \/ t \in Erasing
        OBVIOUS
      <3> QED BY <1>0, <2>2, <3>1, CallSets, CountOne
    <2> HIDE DEF P, E, L
    <2> QED BY <1>0, <2>3, <2>4, <2>5, <2>6, <2>7, CallSets
  <1>2. PICK k \in Int : size + P = L + E + k * SizeMod
    BY DEF Balanced
  <1>3. ASSUME NEW j \in Int, size' + P' = L' + E' + j * SizeMod PROVE Balanced'
    BY <1>3 DEF Balanced
  <1> DEFINE K == k * SizeMod
  <1>3a. size + P = L + E + K /\ K \in Int /\ (size' + P' = L' + E' + K => Balanced')
    BY <1>0, <1>2, <1>3
  <1> HIDE DEF P, E, L, K
  <1>4. CASE InsertPublish(t)
    <2>1. UNCHANGED size /\ Unc(t)' = Unc(t) /\ ~Pub(t) /\ ~Unc(t)
      BY <1>0, <1>4 DEF InsertPublish, counters, Unc, Pub, FreshOK, Goto, TypeThread
    <2>2. CASE Holds(preds[t][0], 0, To(succs[t][0]))
      <3>1. Pub(t)'
        BY <1>0, <1>4, <2>2 DEF InsertPublish, Pub, Goto, TypeThread
      <3>2. Live' = Live \cup {node[t]} /\ node[t] \notin Live
        <4>1. Publishes(preds[t][0], node[t])
          BY <1>4, <2>2, PublishStep
        <4> QED BY <4>1, LiveAfter, PublicFacts DEF Publishes
      <3>3. L' = L + 1
        BY <1>0, <3>2, CallSets, CountOne DEF L
      <3> QED BY <1>0, <1>1, <1>3a, <2>1, <3>1, <3>3
    <2>3. CASE ~Holds(preds[t][0], 0, To(succs[t][0]))
      <3>1. ~Pub(t)'
        BY <1>0, <1>4, <2>1, <2>3 DEF InsertPublish, Pub, Goto, TypeThread
      <3>2. L' = L
        BY <1>4, <2>3, PublishStep, LiveAfter DEF L
      <3> QED BY <1>0, <1>1, <1>3a, <2>1, <3>1, <3>2
    <2> QED BY <2>2, <2>3
  <1>5. CASE EraseClaim(t)
    <2>1. UNCHANGED size /\ ~Pub(t) /\ ~Pub(t)' /\ ~Unc(t)
      BY <1>0, <1>5 DEF EraseClaim, counters, Unc, Pub, FreshOK, InsertPc, Goto, TypeThread, Return, args
    <2>2. CASE ~next[node[t]][0].mark
      <3>1. Unc(t)'
        BY <1>0, <1>5, <2>2 DEF EraseClaim, Unc, Goto, TypeThread
      <3>2. Live' = Live \ {node[t]} /\ node[t] \in Live
        <4>1. Claims(node[t])
          BY <1>5, <2>2, ClaimStep
        <4> QED BY <4>1, LiveAfter, PublicFacts DEF Claims
      <3>3. L' = L - 1
        BY <1>0, <3>2, CallSets, CountOne DEF L
      <3> QED BY <1>0, <1>1, <1>3a, <2>1, <3>1, <3>3
    <2>3. CASE next[node[t]][0].mark
      <3>1. ~Unc(t)'
        BY <1>0, <1>5, <2>3 DEF EraseClaim, Unc, Goto, TypeThread, Return
      <3>2. L' = L
        BY <1>5, <2>3, ClaimStep, LiveAfter DEF L
      <3> QED BY <1>0, <1>1, <1>3a, <2>1, <3>1, <3>2
    <2> QED BY <2>2, <2>3
  <1>6. CASE InsertCount(t)
    <2>1. size' = Up(size) /\ Pub(t) /\ ~Pub(t)' /\ ~Unc(t) /\ ~Unc(t)'
      BY <1>0, <1>6 DEF InsertCount, Pub, Unc, Return, Goto, TypeThread
    <2>2. L' = L
      BY <1>6, QuietRests, LiveAfter DEF InsertCount, L
    <2>3. CASE size = SizeMod - 1
      <3>1. (k - 1) * SizeMod = k * SizeMod - SizeMod
        BY <1>0
      <3>2. size' + P' = L' + E' + (k - 1) * SizeMod
        BY <1>0, <1>1, <1>2, <2>1, <2>2, <2>3, <3>1 DEF Up
      <3> QED BY <1>3, <3>2
    <2>4. CASE size # SizeMod - 1
      BY <1>0, <1>1, <1>3a, <2>1, <2>2, <2>4 DEF Up
    <2> QED BY <2>3, <2>4
  <1>7. CASE EraseCount(t)
    <2>1. size' = Down(size) /\ ~Pub(t) /\ ~Pub(t)' /\ Unc(t) /\ ~Unc(t)'
      BY <1>0, <1>7 DEF EraseCount, Pub, Unc, FreshOK, InsertPc, Return, Goto, TypeThread
    <2>2. L' = L
      BY <1>7, QuietRests, LiveAfter DEF EraseCount, L
    <2>3. CASE size = 0
      <3>1. (k + 1) * SizeMod = k * SizeMod + SizeMod
        BY <1>0
      <3>2. size' + P' = L' + E' + (k + 1) * SizeMod
        BY <1>0, <1>1, <1>2, <2>1, <2>2, <2>3, <3>1 DEF Down
      <3> QED BY <1>3, <3>2
    <2>4. CASE size # 0
      BY <1>0, <1>1, <1>3a, <2>1, <2>2, <2>4 DEF Down
    <2> QED BY <2>3, <2>4
  <1>8. CASE ~InsertPublish(t) /\ ~EraseClaim(t) /\ ~InsertCount(t) /\ ~EraseCount(t)
    <2>1. UNCHANGED size /\ Pub(t)' = Pub(t) /\ Unc(t)' = Unc(t)
      BY <1>8, CountQuiet
    <2>2. Live' = Live
      BY <1>8, OtherStep, LiveAfter
    <2>3. L' = L
      BY <2>2 DEF L
    <2> QED BY <1>0, <1>1, <1>3a, <2>1, <2>3
  <1> QED BY <1>4, <1>5, <1>6, <1>7, <1>8

\* Sums that differ by a multiple of m are equal modulo m.
LEMMA SmallMultiple ==
  ASSUME NEW m \in Int, m > 1, NEW d \in Int, NEW r \in 0 .. m - 1, NEW s \in 0 .. m - 1, r = s + d * m
  PROVE  r = s
  <1>1. CASE d = 0
    BY <1>1
  <1>2. CASE d >= 1
    <2>1. d * m >= m
      BY <1>2, SMT
    <2> QED BY <1>2, <2>1
  <1>3. CASE d <= -1
    <2>1. d * m <= -m
      BY <1>3, SMT
    <2> QED BY <1>3, <2>1
  <1> QED BY <1>1, <1>2, <1>3

LEMMA Product ==
  ASSUME NEW m \in Int, NEW p \in Int, NEW q \in Int, NEW k \in Int
  PROVE  (q + k - p) * m = (m * q) + (k * m) - (m * p)
  BY SMT

LEMMA ModMultiple ==
  ASSUME NEW m \in Nat, m > 1, NEW a \in Int, NEW b \in Int, NEW k \in Int, a = b + k * m
  PROVE  a % m = b % m
  <1>1. \A x \in Int : x % m \in 0 .. m - 1 /\ x \div m \in Int /\ x = m * (x \div m) + (x % m)
    OBVIOUS
  <1> DEFINE p == a \div m
             q == b \div m
             r == a % m
             s == b % m
  <1>2. /\ p \in Int /\ q \in Int /\ r \in 0 .. m - 1 /\ s \in 0 .. m - 1
        /\ a = m * p + r /\ b = m * q + s
    BY <1>1
  <1> HIDE DEF p, q, r, s
  <1>3. r = s + ((q + k - p) * m)
    <2>1. (m * q) \in Int /\ (m * p) \in Int /\ (k * m) \in Int
      BY <1>2
    <2>2. r = s + ((m * q) + (k * m) - (m * p))
      BY <1>2, <2>1
    <2> QED BY <1>2, <2>2, Product
  <1>4. q + k - p \in Int
    BY <1>2
  <1>5. r = s
    BY <1>2, <1>3, <1>4, SmallMultiple
  <1> QED BY <1>5 DEF r, s

\* However the calls interleave and _size wraps, it counts the live nodes, give or take the calls that
\* have taken effect and not counted yet: a lost or doubled fetch_add or fetch_sub would show.
THEOREM SizeIsRight == Spec => []SizeAccounts
  <1>1. Init => Balanced
    <2> SUFFICES ASSUME Init PROVE Balanced
      OBVIOUS
    <2>1. Published = {} /\ Live = {} /\ Erasing = {} /\ size = 0
      BY DEF Init, Published, Live, Erasing, Uncounted
    <2> QED BY <2>1, FS_EmptySet, SizeAssumption DEF Balanced
  <1>2. ReachInv /\ Balanced /\ [Next]_vars => Balanced'
    <2> SUFFICES ASSUME ReachInv, Balanced, [Next]_vars PROVE Balanced'
      OBVIOUS
    <2>1. CASE \E t \in Thread : Step(t)
      BY <2>1, BalancedStep DEF ReachInv
    <2>2. CASE Destroy \/ UNCHANGED vars
      BY <2>2 DEF Destroy, vars, memory, nodeInfo, counters, args, Balanced, Published, Live, Erasing, Uncounted
    <2> QED BY <2>1, <2>2 DEF Next
  <1>3. ReachInv /\ Balanced => SizeAccounts
    <2> SUFFICES ASSUME ReachInv, Balanced PROVE SizeAccounts
      OBVIOUS
    <2>1. PICK k \in Int : size + Cardinality(Published) = Cardinality(Live) + Cardinality(Erasing) + k * SizeMod
      BY DEF Balanced
    <2>2. Cardinality(Published) \in Int /\ Cardinality(Live) \in Int /\ Cardinality(Erasing) \in Int
      BY FS_Subset, FS_CardinalityType, FiniteAssumption DEF Published, Live, Erasing, Uncounted
    <2>3. size \in Int /\ SizeMod \in Nat /\ SizeMod > 1
      BY SizeAssumption DEF ReachInv, IndInv, TypeOK, TypeShared
    <2> DEFINE a == size + Cardinality(Published)
               b == Cardinality(Live) + Cardinality(Erasing)
    <2>4. a \in Int /\ b \in Int /\ a = b + k * SizeMod
      BY <2>1, <2>2, <2>3
    <2> HIDE DEF a, b
    <2>5. a % SizeMod = b % SizeMod
      BY <2>3, <2>4, ModMultiple
    <2> QED BY <2>5 DEF a, b, SizeAccounts, Erasing
  <1> QED BY <1>1, <1>2, <1>3, ReachInvariance, PTL DEF Spec
-----------------------------------------------------------------------------
(***************************************************************************)
(* ConcurrentSkiplist implements ConcurrentMap.  An insert takes effect    *)
(* when it publishes, an erase when it marks level 0; every other step is  *)
(* a call, a return or a stutter of the map (StepKind).  That a return is  *)
(* justified needs what the thread knows of the list (MapInv): a node that *)
(* looks live on an upper level is live, because pointers of a level lead  *)
(* to nodes that have it (HeightInv); a reader has still ahead of it every *)
(* live node of its key, unless the key was free at some instant of the    *)
(* call (LookOK, WalkOK).                                                  *)
(***************************************************************************)

\* A pointer of level i leads to a node that has level i.
Tall(q, i) == q = Null \/ nheight[q] >= i
HeightOK   == \A p \in Pred, i \in Level : Tall(next[p][i].ptr, i)
HeightThread(t) ==
  /\ pc[t] \in InsertPc => \A i \in Level : Tall(succs[t][i], i)
  /\ pc[t] \in {"i_scan", "e_scan", "f_scan"} => Tall(cur[t].curr.ptr, cur[t].lvl)
  /\ pc[t] \in {"i_live", "i_splice"} => Tall(cur[t].live, cur[t].lvl)
HeightInv == HeightOK /\ \A t \in Thread : HeightThread(t)
-----------------------------------------------------------------------------
\* Only the begin of an insert writes a height, of a block nothing points at.
LEMMA HeightsKept ==
  ASSUME NEW t \in Thread, Step(t)
  PROVE  \/ UNCHANGED nheight
         \/ \E k \in Key, h \in Level, n \in Node : InsertBegin(t, k, h, n)
  <1> USE DEF shared, memory, nodeInfo
  <1>2. CASE \E k \in Key : EraseBegin(t, k) \/ FindBegin(t, k)
    BY <1>2 DEF EraseBegin, FindBegin
  <1>3. CASE EachBegin(t) \/ EachScan(t)
    BY <1>3 DEF EachBegin, EachScan
  <1>4. CASE InsertTop(t) \/ InsertLevel(t) \/ InsertScan(t) \/ InsertLive(t) \/ InsertSplice(t)
    BY <1>4 DEF InsertTop, InsertLevel, InsertScan, InsertLive, InsertSplice
  <1>5. CASE InsertPublish(t) \/ InsertCheck(t) \/ InsertLink(t) \/ InsertRelink(t) \/ InsertCount(t)
    BY <1>5 DEF InsertPublish, InsertCheck, InsertLink, InsertRelink, InsertCount
  <1>6. CASE EraseLevel(t) \/ EraseScan(t) \/ EraseMark(t) \/ EraseClaim(t)
    BY <1>6 DEF EraseLevel, EraseScan, EraseMark, EraseClaim
  <1>7. CASE EraseUnlink(t) \/ EraseRetire(t) \/ EraseCount(t)
    BY <1>7 DEF EraseUnlink, EraseRetire, EraseCount
  <1>8. CASE FindTop(t) \/ FindLevel(t) \/ FindScan(t) \/ FindCheck(t)
    BY <1>8 DEF FindTop, FindLevel, FindScan, FindCheck
  <1> QED BY <1>2, <1>3, <1>4, <1>5, <1>6, <1>7, <1>8 DEF Step

\* The end of a level of insert's search.
LEMMA LevelDoneTall ==
  ASSUME IndInv, NEW t \in Thread, HeightThread(t), pc[t] \in InsertPc, UNCHANGED nheight,
         NEW p, NEW s, Tall(s, cur[t].lvl), InsertLevelDone(t, p, s)
  PROVE  HeightThread(t)'
  <1>1. TypeThread /\ cur[t].lvl \in Level
    BY Facts
  <1>2. \A i \in Level : succs'[t][i] = IF i = cur[t].lvl THEN s ELSE succs[t][i]
    BY <1>1 DEF InsertLevelDone, TypeThread
  <1>3. pc'[t] \in {"i_level", "i_publish", "i_relink"}
    BY <1>1 DEF InsertLevelDone, Goto, TypeThread
  <1>4. \A i \in Level : Tall(succs[t][i], i)
    BY DEF HeightThread
  <1>5. \A i \in Level : succs'[t][i] = Null \/ nheight'[succs'[t][i]] >= i
    BY <1>2, <1>4 DEF Tall
  <1> QED BY <1>3, <1>5 DEF HeightThread, Tall

\* The other steps of insert keep succs[] and move the cursor along the level.
LEMMA InsertTall ==
  ASSUME IndInv, NEW t \in Thread, HeightThread(t), pc[t] \in InsertPc, UNCHANGED <<nheight, succs>>,
         pc'[t] = "i_scan" => Tall(cur'[t].curr.ptr, cur'[t].lvl),
         pc'[t] \in {"i_live", "i_splice"} => Tall(cur'[t].live, cur'[t].lvl),
         pc'[t] \notin {"e_scan", "f_scan"}
  PROVE  HeightThread(t)'
  BY DEF HeightThread, Tall

LEMMA HeightOwn == ASSUME IndInv, HeightInv, NEW t \in Thread, Step(t) PROVE HeightThread(t)'
  <1> DEFINE i == cur[t].lvl
             c == cur[t].curr.ptr
             p == cur[t].pred
             live == cur[t].live
  <1>0. /\ TypeThread /\ TypeMemory /\ LocalOK(t) /\ FreshOK(t) /\ i \in Level /\ p \in Pred /\ c \in NodePtr
        /\ HeightThread(t) /\ HeightOK
    BY Facts DEF HeightInv
  <1>1. /\ \A q \in Pred, j \in Level : Tall(next[q][j].ptr, j)
        /\ pc[t] \in {"i_scan", "i_live", "i_splice", "e_scan", "f_scan"} => c \in Pred
        /\ pc[t] = "i_live" => live \in Pred
    BY <1>0 DEF HeightOK, LocalOK, Pred
  <1>2. ASSUME NEW o, Return(t, o) PROVE HeightThread(t)'
    BY <1>0, <1>2 DEF Return, Goto, TypeThread, HeightThread, InsertPc
  <1>3. Tall(Null, i)
    BY DEF Tall
  <1>4. CASE \E k \in Key, h \in Level, n \in Node : InsertBegin(t, k, h, n)
    <2>1. pc'[t] = "i_top" /\ succs'[t] = NoSuccs
      BY <1>0, <1>4 DEF InsertBegin, Start, Goto, TypeThread, FreshOK, arrays
    <2> QED BY <2>1 DEF HeightThread, Tall, NoSuccs
  <1>5. CASE UNCHANGED nheight
    <2>1. CASE \E k \in Key : EraseBegin(t, k) \/ FindBegin(t, k)
      BY <1>0, <2>1 DEF EraseBegin, FindBegin, Goto, TypeThread, HeightThread, InsertPc
    <2>2. CASE EachBegin(t) \/ EachScan(t)
      BY <1>0, <1>2, <2>2 DEF EachBegin, EachScan, EachGo, Goto, TypeThread, HeightThread, InsertPc
    <2>3. CASE InsertTop(t)
      <3>1. \A j \in Level : succs'[t][j] = IF j > maxHeight THEN Null ELSE succs[t][j]
        BY <1>0, <2>3 DEF InsertTop, TypeThread
      <3>2. pc[t] \in InsertPc /\ pc'[t] = "i_level"
        BY <1>0, <2>3 DEF InsertTop, Goto, TypeThread, InsertPc
      <3>3. \A j \in Level : Tall(succs'[t][j], j)
        BY <1>0, <3>1, <3>2 DEF HeightThread, Tall
      <3> QED BY <1>5, <3>2, <3>3 DEF HeightThread, Tall
    <2>4. CASE InsertLevel(t)
      <3>1. pc[t] \in InsertPc
        BY <2>4 DEF InsertLevel, InsertPc
      <3>2. CASE next[p][i].ptr = Null
        BY <1>0, <1>3, <1>5, <2>4, <3>1, <3>2, LevelDoneTall DEF InsertLevel
      <3>3. CASE next[p][i].ptr # Null
        <4>1. pc'[t] = "i_scan" /\ cur'[t].curr = next[p][i] /\ cur'[t].lvl = i /\ UNCHANGED succs
          BY <1>0, <2>4, <3>3 DEF InsertLevel, Goto, Scan, TypeThread, arrays
        <4> QED BY <1>0, <1>1, <1>5, <3>1, <4>1, InsertTall
      <3> QED BY <3>2, <3>3
    <2>5. CASE InsertScan(t)
      <3> DEFINE succ == next[c][i]
      <3>1. pc[t] = "i_scan" /\ pc[t] \in InsertPc /\ Tall(succ.ptr, i) /\ Tall(c, i)
        BY <1>0, <1>1, <2>5 DEF InsertScan, InsertPc, HeightThread
      <3>2. CASE \E o : Return(t, o)
        BY <1>2, <3>2
      <3>3. CASE \E q, s : InsertLevelDone(t, q, s) /\ Tall(s, i)
        BY <1>0, <1>5, <3>1, <3>3, LevelDoneTall
      <3>4. CASE /\ UNCHANGED succs /\ cur'[t].lvl = i
                 /\ \/ pc'[t] \in {"i_splice", "i_live"} /\ cur'[t].live = succ.ptr
                    \/ pc'[t] = "i_scan" /\ cur'[t].curr = succ
        BY <1>0, <1>5, <3>1, <3>4, InsertTall
      <3>5. CASE UNCHANGED succs /\ pc'[t] \in {"i_top", "i_relink"}
        BY <1>0, <1>5, <3>1, <3>5, InsertTall
      <3>6. \/ \E o : Return(t, o)
            \/ \E q, s : InsertLevelDone(t, q, s) /\ Tall(s, i)
            \/ /\ UNCHANGED succs /\ cur'[t].lvl = i
               /\ \/ pc'[t] \in {"i_splice", "i_live"} /\ cur'[t].live = succ.ptr
                  \/ pc'[t] = "i_scan" /\ cur'[t].curr = succ
            \/ UNCHANGED succs /\ pc'[t] \in {"i_top", "i_relink"}
        <4>1. CASE InsertRetry(t)
          BY <1>0, <4>1 DEF InsertRetry, Goto, TypeThread, arrays
        <4>2. CASE Survivor(t, succ.ptr) /\ Goto(t, IF succ.ptr = Null THEN "i_splice" ELSE "i_live") /\ UNCHANGED arrays
          BY <1>0, <4>2 DEF Survivor, Goto, TypeThread, arrays
        <4>3. CASE InsertLevelDone(t, c, Null) \/ InsertLevelDone(t, p, c)
          BY <1>3, <3>1, <4>3
        <4>4. CASE Scan(t, i, c, succ) /\ UNCHANGED <<pc, arrays>>
          BY <1>0, <3>1, <4>4 DEF Scan, TypeThread, arrays
        <4>5. CASE Return(t, Outcome("exists", {}))
          BY <4>5
        <4>6. CASE Goto(t, "i_relink") /\ UNCHANGED arrays
          BY <1>0, <4>6 DEF Goto, TypeThread, arrays
        <4> QED BY <2>5, <4>1, <4>2, <4>3, <4>4, <4>5, <4>6 DEF InsertScan
      <3> QED BY <3>2, <3>3, <3>4, <3>5, <3>6
    <2>6. CASE InsertLive(t)
      <3>1. pc[t] = "i_live" /\ pc[t] \in InsertPc /\ Tall(live, i) /\ UNCHANGED succs
        BY <1>0, <2>6 DEF InsertLive, InsertPc, HeightThread, arrays
      <3>2. Tall(next[live][i].ptr, i)
        BY <1>0, <1>1, <3>1
      <3>3. /\ pc'[t] \in {"i_live", "i_splice"} /\ cur'[t].lvl = i
            /\ cur'[t].live = IF next[live][i].mark THEN next[live][i].ptr ELSE live
        BY <1>0, <2>6 DEF InsertLive, Survivor, Goto, TypeThread
      <3> QED BY <1>0, <1>5, <3>1, <3>2, <3>3, InsertTall
    <2>7. CASE InsertSplice(t)
      <3>1. pc[t] = "i_splice" /\ pc[t] \in InsertPc /\ Tall(live, i)
        BY <1>0, <2>7 DEF InsertSplice, InsertPc, HeightThread
      <3>2. CASE InsertLevelDone(t, p, Null)
        BY <1>0, <1>3, <1>5, <3>1, <3>2, LevelDoneTall
      <3>3. CASE UNCHANGED succs /\ pc'[t] = "i_scan" /\ cur'[t].lvl = i /\ cur'[t].curr.ptr = live
        BY <1>0, <1>5, <3>1, <3>3, InsertTall
      <3>4. CASE UNCHANGED succs /\ pc'[t] = "i_top"
        BY <1>0, <1>5, <3>1, <3>4, InsertTall
      <3> QED BY <1>0, <2>7, <3>2, <3>3, <3>4 DEF InsertSplice, InsertRetry, Scan, To, Goto, TypeThread, arrays
    <2>8. CASE InsertPublish(t) \/ InsertCheck(t) \/ InsertLink(t) \/ InsertRelink(t)
      <3>1. pc[t] \in InsertPc /\ UNCHANGED succs /\ pc'[t] \in {"i_count", "i_check", "i_top", "i_link"}
        BY <1>0, <2>8 DEF InsertPublish, InsertCheck, InsertLink, InsertRelink, Goto, TypeThread, arrays, InsertPc
      <3> QED BY <1>0, <1>5, <3>1, InsertTall
    <2>9. CASE InsertCount(t) \/ EraseCount(t)
      BY <1>2, <2>9 DEF InsertCount, EraseCount
    <2>10. CASE EraseLevel(t)
      BY <1>0, <1>1, <1>2, <1>5, <2>10
         DEF EraseLevel, EraseLevelDone, Goto, Scan, To, TypeThread, HeightThread, InsertPc, Tall
    <2>11. CASE EraseScan(t)
      <3>1. Tall(next[c][i].ptr, i)
        BY <1>0, <1>1, <2>11 DEF EraseScan
      <3>2. ASSUME NEW q, NEW s, EraseLevelDone(t, q, s) PROVE HeightThread(t)'
        BY <1>0, <1>2, <3>2 DEF EraseLevelDone, Goto, TypeThread, HeightThread, InsertPc
      <3>3. ASSUME NEW q, Scan(t, i, q, To(next[c][i].ptr)), UNCHANGED pc PROVE HeightThread(t)'
        <4>1. pc'[t] = "e_scan" /\ cur'[t].curr.ptr = next[c][i].ptr /\ cur'[t].lvl = i
          BY <1>0, <2>11, <3>3 DEF EraseScan, Scan, To, TypeThread
        <4> QED BY <1>5, <3>1, <4>1 DEF HeightThread, InsertPc, Tall
      <3> QED BY <2>11, <3>2, <3>3 DEF EraseScan
    <2>12. CASE EraseMark(t) \/ EraseClaim(t) \/ EraseUnlink(t) \/ EraseRetire(t)
      BY <1>0, <1>2, <2>12 DEF EraseMark, EraseClaim, EraseUnlink, EraseRetire, Goto, TypeThread, HeightThread, InsertPc
    <2>13. CASE FindTop(t) \/ FindLevel(t)
      BY <1>0, <1>1, <1>2, <1>5, <2>13
         DEF FindTop, FindLevel, FindLevelDone, Goto, Scan, TypeThread, HeightThread, InsertPc, Tall
    <2>14. CASE FindScan(t)
      <3>1. Tall(next[c][i].ptr, i)
        BY <1>0, <1>1, <2>14 DEF FindScan
      <3>2. ASSUME NEW q, FindLevelDone(t, q) PROVE HeightThread(t)'
        BY <1>0, <1>2, <3>2 DEF FindLevelDone, Goto, TypeThread, HeightThread, InsertPc
      <3>3. ASSUME Goto(t, "f_check") PROVE HeightThread(t)'
        BY <1>0, <3>3 DEF Goto, TypeThread, HeightThread, InsertPc
      <3>4. ASSUME NEW q, Scan(t, i, q, To(next[c][i].ptr)), UNCHANGED pc PROVE HeightThread(t)'
        <4>1. pc'[t] = "f_scan" /\ cur'[t].curr.ptr = next[c][i].ptr /\ cur'[t].lvl = i
          BY <1>0, <2>14, <3>4 DEF FindScan, Scan, To, TypeThread
        <4> QED BY <1>5, <3>1, <4>1 DEF HeightThread, InsertPc, Tall
      <3> QED BY <2>14, <3>2, <3>3, <3>4 DEF FindScan
    <2>15. CASE FindCheck(t)
      BY <1>0, <1>2, <2>15 DEF FindCheck, Goto, TypeThread, HeightThread, InsertPc
    <2> QED BY <1>4, <2>1, <2>2, <2>3, <2>4, <2>5, <2>6, <2>7, <2>8, <2>9, <2>10, <2>11, <2>12,
               <2>13, <2>14, <2>15 DEF Step
  <1> QED BY <1>4, <1>5, HeightsKept

\* Another thread's pointers lead to linked nodes, which keep their height.
LEMMA HeightOthers ==
  ASSUME IndInv, NEW t \in Thread, NEW u \in Thread, u # t, Others(t), Keeps(t), HeightThread(u)
  PROVE  HeightThread(u)'
  <1>1. pc'[u] = pc[u] /\ cur'[u] = cur[u] /\ succs'[u] = succs[u]
    BY DEF Others
  <1>2. LocalOK(u) /\ InsertOK(u) /\ SearchOK(u) /\ cur[u].live \in NodePtr /\ \A i \in Level : succs[u][i] \in NodePtr
    BY Facts
  <1>3. \A n \in Node : status[n] = "linked" => nheight'[n] = nheight[n]
    BY DEF Keeps, Same
  <1>4. ASSUME pc[u] \in InsertPc, NEW i \in Level PROVE succs[u][i] = Null \/ nheight'[succs[u][i]] >= i
    BY <1>2, <1>3, <1>4 DEF InsertOK, Over, HeightThread, Tall, NodePtr
  <1>5. pc[u] \in {"i_scan", "e_scan", "f_scan"} => nheight'[cur[u].curr.ptr] = nheight[cur[u].curr.ptr]
    BY <1>2, <1>3 DEF LocalOK, SearchOK
  <1>6. pc[u] \in {"i_live", "i_splice"} =>
          cur[u].live = Null \/ nheight'[cur[u].live] = nheight[cur[u].live]
    BY <1>2, <1>3 DEF SearchOK, Over, NodePtr
  <1> QED BY <1>1, <1>4, <1>5, <1>6 DEF HeightThread, Tall

\* Every pointer that a step writes is one that its thread found on that level.
LEMMA WriteTall ==
  ASSUME IndInv, HeightOK, UNCHANGED nheight, NEW p \in Pred, NEW i \in Level, NEW v,
         next' = WithLink(p, i, v), Tall(v.ptr, i)
  PROVE  HeightOK'
  <1>1. \A q \in Pred, j \in Level : next'[q][j] = IF q = p /\ j = i THEN v ELSE next[q][j]
    BY DEF IndInv, TypeOK, TypeMemory, WithLink
  <1> QED BY <1>1 DEF HeightOK, Tall

LEMMA HeightMemory == ASSUME IndInv, HeightInv, NEW t \in Thread, Step(t) PROVE HeightOK'
  <1> DEFINE n == node[t]
  <1>0. /\ TypeMemory /\ LocalOK(t) /\ InsertOK(t) /\ HeightThread(t) /\ HeightOK /\ LevelSorted
        /\ cur[t].lvl \in Level /\ cur[t].pred \in Pred /\ link[t] \in Level
    BY Facts DEF HeightInv
  <1>1. \A q \in Pred, j \in Level : Tall(next[q][j].ptr, j) /\ next[q][j].ptr \in NodePtr
    BY <1>0, ReadLeads DEF HeightOK
  <1>2. CASE \E k \in Key, h \in Level, m \in Node : InsertBegin(t, k, h, m)
    <2>1. PICK k \in Key, h \in Level, m \in Node : InsertBegin(t, k, h, m)
      BY <1>2
    <2>2. /\ status[m] = "free" /\ \A q \in Node : q # m => nheight'[q] = nheight[q]
          /\ \A q \in Pred : q # m => next'[q] = next[q]
          /\ \A j \in Level : next'[m][j].ptr = Null
      BY <1>0, <2>1 DEF InsertBegin, TypeMemory, Pred, To
    <2>3. \A q \in Pred, j \in Level : next[q][j].ptr # m
      BY <2>1, <2>2, ReadLeads, NullAssumption
    <2> QED BY <1>1, <2>2, <2>3 DEF HeightOK, Tall, NodePtr
  <1>3. CASE UNCHANGED <<next, nheight>>
    BY <1>0, <1>3 DEF HeightOK, Tall
  <1>4. CASE UNCHANGED nheight
    <2>1. CASE InsertScan(t)
      <3>1. CASE UNCHANGED next
        BY <1>3, <1>4, <3>1
      <3>2. CASE ~UNCHANGED next
        <4>1. next' = [next EXCEPT ![n] = [j \in Level |-> To(Null)]]
          BY <2>1, <3>2 DEF InsertScan, memory
        <4>2. \A q \in Pred, j \in Level : next'[q][j].ptr = Null \/ next'[q][j] = next[q][j]
          BY <1>0, <4>1 DEF TypeMemory, To
        <4> QED BY <1>1, <1>4, <4>2 DEF HeightOK, Tall
      <3> QED BY <3>1, <3>2
    <2>2. CASE InsertSplice(t)
      <3>1. UNCHANGED next \/ next' = WithLink(cur[t].pred, cur[t].lvl, To(cur[t].live))
        BY <2>2 DEF InsertSplice, Spliced
      <3>2. Tall(To(cur[t].live).ptr, cur[t].lvl)
        BY <1>0, <2>2 DEF InsertSplice, HeightThread, To
      <3> QED BY <1>0, <1>3, <1>4, <3>1, <3>2, WriteTall
    <2>3. CASE InsertPublish(t)
      <3> DEFINE p == preds[t][0]
                 own == [j \in Level |-> IF j <= nheight[n] THEN To(succs[t][j]) ELSE next[n][j]]
                 forward == [next EXCEPT ![n] = own]
      <3>1. /\ pc[t] \in InsertPc /\ n \in Node /\ n \in Pred /\ nheight[n] >= 0
            /\ \A j \in Level : Tall(succs[t][j], j)
        <4>1. pc[t] \in InsertPc
          BY <2>3 DEF InsertPublish, InsertPc
        <4>2. n \in Node /\ n \in Pred /\ \A j \in Level : Tall(succs[t][j], j)
          BY <1>0, <4>1 DEF LocalOK, HeightThread, Pred
        <4>3. nheight[n] \in Level
          BY <1>0, <4>2 DEF TypeMemory
        <4>4. nheight[n] >= 0
          BY <4>3, LevelAssumption DEF Level
        <4> QED BY <4>1, <4>2, <4>4
      <3>2. next' = forward \/ next' = [forward EXCEPT ![p][0] = To(n)]
        BY <2>3 DEF InsertPublish
      <3>3. forward \in [Pred -> [Level -> Link]] /\ \A j \in Level : To(succs[t][j]) \in Link
        BY <1>0, Facts, ConstantTypes DEF TypeMemory
      <3>4. \A q \in Pred, j \in Level : Tall(forward[q][j].ptr, j)
        <4>1. \A q \in Pred : forward[q] = IF q = n THEN own ELSE next[q]
          BY <1>0 DEF TypeMemory
        <4>2. \A j \in Level : Tall(own[j].ptr, j)
          BY <1>1, <3>1 DEF To
        <4> HIDE DEF own, forward
        <4> QED BY <1>1, <4>1, <4>2
      <3> HIDE DEF own, forward
      <3>5. \A q \in Pred, j \in Level : next'[q][j] = forward[q][j] \/ (next'[q][j] = To(n) /\ j = 0)
        BY <3>2, <3>3
      <3>6. \A q \in Pred, j \in Level : Tall(next'[q][j].ptr, j)
        BY <3>1, <3>4, <3>5 DEF To, Tall
      <3> QED BY <1>4, <3>6 DEF HeightOK, Tall
    <2>4. CASE InsertLink(t)
      <3>1. /\ pc[t] \in InsertPc /\ link[t] > 0
            /\ UNCHANGED next \/ next' = WithLink(preds[t][link[t]], link[t], To(n))
        BY <1>0, <2>4 DEF InsertLink, InsertPc, LocalOK
      <3>2. preds[t][link[t]] \in Pred
        BY <1>0, <3>1, Facts DEF LocalOK
      <3>3. Tall(To(n).ptr, link[t])
        BY <1>0, <3>1, LevelFacts DEF LocalOK, Tall, To, TypeMemory
      <3> QED BY <1>0, <1>3, <1>4, <3>1, <3>2, <3>3, WriteTall
    <2>5. CASE InsertRelink(t)
      <3>1. /\ pc[t] \in InsertPc /\ n \in Pred
            /\ UNCHANGED next \/ next' = WithLink(n, link[t], To(succs[t][link[t]]))
        BY <1>0, <2>5 DEF InsertRelink, InsertPc, LocalOK, Pred
      <3>2. Tall(To(succs[t][link[t]]).ptr, link[t])
        BY <1>0, <3>1 DEF HeightThread, To
      <3> QED BY <1>0, <1>3, <1>4, <3>1, <3>2, WriteTall
    <2>6. CASE EraseMark(t) \/ EraseClaim(t)
      <3>1. n \in Pred
        BY <1>0, <2>6 DEF EraseMark, EraseClaim, VictimPc, LocalOK, Pred
      <3>2. UNCHANGED next \/ \E j \in Level : next' = WithLink(n, j, [ptr |-> next[n][j].ptr, mark |-> TRUE])
        BY <1>0, <2>6, LevelFacts DEF EraseMark, EraseClaim, Marking, WithMark
      <3>3. ASSUME NEW j \in Level, next' = WithLink(n, j, [ptr |-> next[n][j].ptr, mark |-> TRUE])
            PROVE  HeightOK'
        BY <1>0, <1>1, <1>4, <3>1, <3>3, WriteTall
      <3> QED BY <1>3, <1>4, <3>2, <3>3
    <2>7. CASE EraseUnlink(t)
      <3> DEFINE j == cur[t].lvl
      <3>1. n \in Pred
        BY <1>0, <2>7 DEF EraseUnlink, VictimPc, LocalOK, Pred
      <3>2. PICK p \in PredAt(t, j) : UNCHANGED next \/ next' = WithLink(p, j, To(next[n][j].ptr))
        BY <2>7 DEF EraseUnlink
      <3>3. p \in Pred
        BY <1>0, Facts DEF PredAt, Pred
      <3>4. Tall(To(next[n][j].ptr).ptr, j)
        BY <1>0, <1>1, <3>1 DEF To
      <3> QED BY <1>0, <1>3, <1>4, <3>2, <3>3, <3>4, WriteTall
    <2>8. CASE \/ \E k \in Key : EraseBegin(t, k) \/ FindBegin(t, k)
               \/ EachBegin(t) \/ EachScan(t) \/ InsertTop(t) \/ InsertLevel(t) \/ InsertLive(t)
               \/ InsertCheck(t) \/ InsertCount(t) \/ EraseLevel(t) \/ EraseScan(t) \/ EraseRetire(t)
               \/ EraseCount(t) \/ FindTop(t) \/ FindLevel(t) \/ FindScan(t) \/ FindCheck(t)
      <3>1. UNCHANGED memory
        BY <2>8 DEF EraseBegin, FindBegin, EachBegin, EachScan, InsertTop, InsertLevel, InsertLive, InsertCheck,
                    InsertCount, EraseLevel, EraseScan, EraseRetire, EraseCount, FindTop, FindLevel, FindScan,
                    FindCheck, shared
      <3> QED BY <1>3, <1>4, <3>1 DEF memory
    <2> QED BY <1>2, <2>1, <2>2, <2>3, <2>4, <2>5, <2>6, <2>7, <2>8 DEF Step
  <1> QED BY <1>2, <1>4, HeightsKept

LEMMA InitHeight == ASSUME Init PROVE HeightInv
  BY DEF Init, HeightInv, HeightOK, HeightThread, Tall, To, InsertPc

LEMMA NextHeight == ASSUME IndInv, HeightInv, [Next]_vars PROVE HeightInv'
  <1>1. ASSUME NEW t \in Thread, Step(t) PROVE HeightInv'
    <2>1. HeightThread(t)' /\ HeightOK' /\ Others(t) /\ Keeps(t)
      BY <1>1, HeightOwn, HeightMemory, StepFine DEF Fine, Steady
    <2>2. \A u \in Thread : u # t => HeightThread(u)'
      BY <2>1, HeightOthers DEF HeightInv
    <2> QED BY <2>1, <2>2 DEF HeightInv
  <1>2. CASE Destroy \/ UNCHANGED vars
    <2>1. UNCHANGED <<next, nheight, pc, cur, succs>>
      BY <1>2 DEF Destroy, vars, memory, nodeInfo, arrays
    <2> QED BY <2>1 DEF HeightInv, HeightOK, HeightThread, Tall
  <1> QED BY <1>1, <1>2 DEF Next
-----------------------------------------------------------------------------
\* Keys and live nodes: the binding of a key is its live node.
Bound == /\ \A k, m : m \in Live /\ nkey[m] = k => Binding(k) = m
         /\ \A k : Binding(k) # Null => \E m \in Live : nkey[m] = k /\ Binding(k) = m

LEMMA LiveBound == ASSUME UniqueKeys PROVE Bound
  <1>1. ASSUME NEW k, NEW m, m \in Live, nkey[m] = k PROVE Binding(k) = m
    <2> DEFINE b == CHOOSE n \in Live : nkey[n] = k
    <2>1. \E n \in Live : nkey[n] = k
      BY <1>1
    <2>2. b \in Live /\ nkey[b] = k
      BY <2>1
    <2>3. Binding(k) = b
      BY <2>1 DEF Binding
    <2> HIDE DEF b
    <2> QED BY <1>1, <2>2, <2>3 DEF UniqueKeys
  <1>2. ASSUME NEW k, Binding(k) # Null PROVE \E m \in Live : nkey[m] = k /\ Binding(k) = m
    BY <1>1, <1>2 DEF Binding
  <1> QED BY <1>1, <1>2 DEF Bound

LEMMA BoundNext == ASSUME ReachInv, [Next]_vars PROVE Bound /\ ReachInv' /\ Bound'
  <1>1. Bound
    BY LiveKeys, LiveBound
  <1>2. ReachInv'
    BY NextReach
  <1>3. Bound'
    <2>1. UniqueKeys'
      BY <1>2, LiveKeys, PTL
    <2> QED BY <2>1, LiveBound, PTL
  <1> QED BY <1>1, <1>2, <1>3

\* What a step of t makes of the bindings: an insert that publishes binds its key to its node, an erase
\* that claims frees its key.
Kept        == \A k \in Key : Binding(k)' = Binding(k)
Binds(k, v) == \A j \in Key : Binding(j)' = IF j = k THEN v ELSE Binding(j)

LEMMA SameBindings ==
  ASSUME ReachInv, [Next]_vars, Live' = Live, \A n \in Live : nkey'[n] = nkey[n]
  PROVE  Kept
  <1> SUFFICES ASSUME NEW k \in Key PROVE Binding(k)' = Binding(k)
    BY DEF Kept
  <1>1. Bound /\ Bound'
    BY BoundNext
  <1>2. CASE Binding(k) # Null
    BY <1>1, <1>2 DEF Bound
  <1>3. CASE Binding(k)' # Null
    BY <1>1, <1>3 DEF Bound
  <1> QED BY <1>2, <1>3

LEMMA BindingStep ==
  ASSUME ReachInv, NEW t \in Thread, Step(t)
  PROVE  /\ Bound /\ ReachInv' /\ Bound' /\ \A n \in Live : nkey'[n] = nkey[n]
         /\ InsertPublish(t) /\ Holds(preds[t][0], 0, To(succs[t][0])) =>
              Publishes(preds[t][0], node[t]) /\ Live' = Live \cup {node[t]} /\ Binds(key[t], node[t])
         /\ EraseClaim(t) /\ ~next[node[t]][0].mark /\ nkey[node[t]] = key[t] =>
              node[t] \in Live /\ Live' = Live \ {node[t]} /\ Binds(key[t], Null)
         /\ ~InsertPublish(t) /\ ~EraseClaim(t) => Live' = Live /\ Kept
         /\ InsertPublish(t) /\ ~Holds(preds[t][0], 0, To(succs[t][0])) => Live' = Live /\ Kept
         /\ EraseClaim(t) /\ next[node[t]][0].mark => Live' = Live /\ Kept
  <1>0. Bound /\ ReachInv' /\ Bound' /\ IndInv /\ [Next]_vars
    BY BoundNext DEF Next, ReachInv
  <1>1. \A n \in Live : nkey'[n] = nkey[n]
    BY <1>0, StepFine DEF Fine, Steady, Keeps, Same, Live
  <1>2. Live' = Live => Kept
    BY <1>0, <1>1, SameBindings
  <1>3. ASSUME InsertPublish(t), Holds(preds[t][0], 0, To(succs[t][0]))
        PROVE  Publishes(preds[t][0], node[t]) /\ Live' = Live \cup {node[t]} /\ Binds(key[t], node[t])
    <2>1. Publishes(preds[t][0], node[t]) /\ Live' = Live \cup {node[t]} /\ node[t] \in Live'
      <3>1. Publishes(preds[t][0], node[t])
        BY <1>0, <1>3, PublishStep
      <3> QED BY <1>0, <3>1, LiveAfter DEF Publishes
    <2>2. nkey'[node[t]] = key[t]
      BY <1>0, <1>3, Facts DEF InsertPublish, InsertPc, InsertOK
    <2>3. ASSUME NEW j \in Key PROVE Binding(j)' = IF j = key[t] THEN node[t] ELSE Binding(j)
      <3>1. CASE j = key[t]
        BY <1>0, <2>1, <2>2, <3>1 DEF Bound
      <3>2. CASE j # key[t] /\ Binding(j) # Null
        BY <1>0, <1>1, <2>1, <3>2 DEF Bound
      <3>3. CASE j # key[t] /\ Binding(j) = Null
        <4> SUFFICES ASSUME Binding(j)' # Null PROVE FALSE
          BY <3>3
        <4>1. PICK m \in Live' : nkey'[m] = j
          BY <1>0 DEF Bound
        <4>2. m \in Live /\ nkey[m] = j
          BY <1>1, <2>1, <2>2, <3>3, <4>1
        <4> QED BY <1>0, <3>3, <4>2, NullAssumption DEF Bound, Live
      <3> QED BY <3>1, <3>2, <3>3
    <2> QED BY <2>1, <2>3 DEF Binds
  <1>4. ASSUME EraseClaim(t), ~next[node[t]][0].mark, nkey[node[t]] = key[t]
        PROVE  node[t] \in Live /\ Live' = Live \ {node[t]} /\ Binds(key[t], Null)
    <2>1. node[t] \in Live /\ Live' = Live \ {node[t]}
      <3>1. Claims(node[t]) /\ node[t] \in Node
        BY <1>0, <1>4, ClaimStep, PublicFacts DEF Claims
      <3> QED BY <1>0, <3>1, LiveAfter DEF Claims
    <2>2. Binding(key[t]) = node[t]
      BY <1>0, <1>4, <2>1 DEF Bound
    <2>3. ASSUME NEW j \in Key PROVE Binding(j)' = IF j = key[t] THEN Null ELSE Binding(j)
      <3>1. CASE j # key[t] /\ Binding(j) # Null
        BY <1>0, <1>1, <1>4, <2>1, <3>1 DEF Bound
      <3>2. CASE j = key[t] \/ Binding(j) = Null
        <4> SUFFICES ASSUME Binding(j)' # Null PROVE FALSE
          BY <3>2
        <4>1. PICK m \in Live' : nkey'[m] = j
          BY <1>0 DEF Bound
        <4>2. m \in Live /\ nkey[m] = j /\ m # node[t]
          BY <1>1, <2>1, <4>1
        <4> QED BY <1>0, <2>2, <3>2, <4>2, NullAssumption DEF Bound, Live
      <3> QED BY <3>1, <3>2
    <2> QED BY <2>1, <2>3 DEF Binds
  <1>5. /\ ~InsertPublish(t) /\ ~EraseClaim(t) => Live' = Live
        /\ InsertPublish(t) /\ ~Holds(preds[t][0], 0, To(succs[t][0])) => Live' = Live
        /\ EraseClaim(t) /\ next[node[t]][0].mark => Live' = Live
    BY <1>0, OtherStep, PublishStep, ClaimStep, LiveAfter DEF ReachInv
  <1> QED BY <1>0, <1>1, <1>2, <1>3, <1>4, <1>5

\* insert publishes only where its key is free: between its predecessor and the next node of level 0.
LEMMA KeyIsFree ==
  ASSUME ReachInv, NEW t \in Thread, InsertPublish(t), Holds(preds[t][0], 0, To(succs[t][0]))
  PROVE  key[t] \in Key /\ Binding(key[t]) = Null
  <1> DEFINE p == preds[t][0]
             s == succs[t][0]
  <1>0. IndInv /\ Joined /\ UniqueKeys
    BY LiveKeys DEF ReachInv
  <1>1. Publishes(p, node[t])
    BY <1>0, PublishStep
  <1>2. key[t] \in Key /\ key[t] \in Int /\ Under(p, key[t]) /\ Over(s, key[t]) /\ next[p][0].ptr = s
    <2>1. pc[t] \in InsertPc /\ pc[t] = "i_publish" /\ 0 \in Level
      BY LevelFacts DEF InsertPublish, InsertPc
    <2>2. p # Uninit /\ key[t] \in Key
      BY <1>0, <2>1, Facts DEF LocalOK
    <2>3. Under(p, key[t]) /\ Over(s, key[t])
      BY <1>0, <2>1, <2>2, Facts DEF InsertOK
    <2>4. next[p][0].ptr = s
      BY DEF Holds, To
    <2>5. key[t] \in Int
      BY <2>2, KeyAssumption
    <2> HIDE DEF p, s
    <2> QED BY <2>2, <2>3, <2>4, <2>5
  <1>3. p \in Public /\ p \in Pred /\ p \in From(HeadNode) /\ \A n \in Node : nkey[n] \in Int
    <2>1. p = HeadNode \/ p \in Live
      BY <1>1 DEF Publishes, Public, Live
    <2> QED BY <1>0, <1>1, <2>1, FromSelf, PublicFacts, KeyAssumption
            DEF Joined, Publishes, IndInv, TypeOK, TypeMemory
  <1>4. ASSUME NEW m \in Live, nkey[m] = key[t] PROVE FALSE
    <2>1. m \in From(HeadNode) /\ m \in Public /\ m # HeadNode /\ m # p /\ (p # HeadNode => p \in Node)
      BY <1>0, <1>2, <1>3, <1>4, PublicFacts DEF Joined, Under, Pred
    <2>2. CASE p \in From(m)
      BY <1>0, <1>2, <1>3, <1>4, <2>1, <2>2, FromSorted, PublicFacts DEF Under
    <2>3. CASE m \in From(p)
      <3>1. s # Null /\ m \in From(s)
        BY <1>0, <1>2, <1>3, <2>1, <2>3, FromNext
      <3>2. s \in Public /\ s \in Node
        BY <1>0, <1>2, <1>3, <3>1, Level0
      <3>3. m = s \/ nkey[s] < nkey[m]
        BY <1>0, <3>1, <3>2, FromSorted, PublicFacts
      <3> QED BY <1>2, <1>3, <1>4, <3>1, <3>2, <3>3 DEF Over
    <2> QED BY <1>0, <1>3, <2>1, <2>2, <2>3, FromLinear, PublicFacts
  <1> QED BY <1>0, <1>2, <1>4, LiveBound DEF Bound
-----------------------------------------------------------------------------
\* What the call of t does at each pc, and when it has taken effect.
ErasePc == {"e_level", "e_scan", "e_mark", "e_claim", "e_unlink", "e_retire", "e_count"}
FindPc  == {"f_top", "f_level", "f_scan", "f_check"}

\* A pending call has seen the binding that each key it is concerned with has now.
SeenOK(t) ==
  /\ \A k \in Key : seen[t][k] # {} => Binding(k) \in seen[t][k]
  /\ pc[t] = "idle" => key[t] = Null
  /\ Operation(t) \in {"insert", "erase", "find"} /\ ~Done(t) => key[t] \in Key /\ seen[t][key[t]] # {}
  /\ Operation(t) = "for_each" => key[t] = Null /\ \A k \in Key : seen[t][k] # {}

\* From c the thread can still reach the live node of its key, unless the key was free for a moment.
Sight(t, c) == \/ Null \in seen[t][key[t]]
               \/ \A m \in Live : nkey[m] = key[t] => c # Null /\ m \in From(c)
Ahead(t, p) == Under(p, key[t]) /\ Sight(t, p)
Keyed(t, n) == nkey[n] = key[t]
LookOK(t) ==
  /\ \A p \in Pred : pc[t] \in {"e_level", "e_scan", "f_level", "f_scan"} /\ cur[t].pred = p => Ahead(t, p)
  /\ \A c \in NodePtr :
       /\ pc[t] \in {"e_scan", "f_scan"} /\ cur[t].lvl = 0 /\ cur[t].curr.ptr = c => Sight(t, c)
       /\ pc[t] = "f_check" /\ cur[t].curr.ptr = c => Keyed(t, c)
  /\ pc[t] \in VictimPc => nkey[node[t]] = key[t]
  /\ pc[t] \in {"e_mark", "e_claim"} /\ node[t] \notin Live => Null \in seen[t][key[t]]

\* The walk of for_each at c has called fn on V: on nodes that were bound when it did, in key order, and
\* every live node is in V, or still ahead, or its key was free for a moment.
Walked(t, c, V) ==
  /\ c = Null \/ (c \in Node /\ status[c] = "linked")
  /\ \A v \in V : status[v] = "linked" /\ v \in seen[t][nkey[v]] /\ (c = Null \/ nkey[v] < nkey[c])
  /\ \A v, w \in V : nkey[v] = nkey[w] => v = w
  /\ \A m \in Live : m \in V \/ Null \in seen[t][nkey[m]] \/ (c # Null /\ m \in From(c))
WalkOK(t) ==
  /\ pc[t] # "w_scan" => visited[t] = {}
  /\ \A c \in NodePtr, V \in SUBSET Node :
       pc[t] = "w_scan" /\ cur[t].curr.ptr = c /\ visited[t] = V => Walked(t, c, V)

MapInv == ReachInv /\ HeightInv /\ \A t \in Thread : SeenOK(t) /\ LookOK(t) /\ WalkOK(t)
-----------------------------------------------------------------------------
LEMMA Operations ==
  ASSUME NEW t
  PROVE  /\ pc[t] = "idle" => Operation(t) = "none"
         /\ pc[t] \in InsertPc => Operation(t) = "insert"
         /\ pc[t] \in ErasePc => Operation(t) = "erase"
         /\ pc[t] \in FindPc => Operation(t) = "find"
         /\ pc[t] = "w_scan" => Operation(t) = "for_each"
  BY DEF Operation, InsertPc, ErasePc, FindPc

LEMMA OperationsNext ==
  ASSUME NEW t
  PROVE  /\ pc'[t] = "idle" => Operation(t)' = "none"
         /\ pc'[t] \in InsertPc => Operation(t)' = "insert"
         /\ pc'[t] \in ErasePc => Operation(t)' = "erase"
         /\ pc'[t] \in FindPc => Operation(t)' = "find"
         /\ pc'[t] = "w_scan" => Operation(t)' = "for_each"
  BY DEF Operation, InsertPc, ErasePc, FindPc

\* The outcomes the map allows, spelled out.
LEMMA JustifiedIf ==
  ASSUME NEW t \in Thread
  PROVE  /\ Operation(t) = "insert" /\ Done(t) => Map!Justified(t, Outcome("inserted", {}))
         /\ Operation(t) = "erase" /\ Done(t) => Map!Justified(t, Outcome("erased", {}))
         /\ Operation(t) = "insert" /\ ~Done(t) /\ seen[t][key[t]] \cap Node # {} =>
              Map!Justified(t, Outcome("exists", {}))
         /\ Operation(t) \in {"erase", "find"} /\ ~Done(t) /\ Null \in seen[t][key[t]] =>
              Map!Justified(t, Outcome("missing", {}))
         /\ \A n \in Node : Operation(t) = "find" /\ ~Done(t) /\ n \in seen[t][key[t]] =>
              Map!Justified(t, Outcome("found", {n}))
         /\ \A V : Operation(t) = "for_each" /\ ~Done(t)
                   /\ (\E pick \in [Key -> Node \cup {Null}] :
                         (\A k \in Key : pick[k] \in seen[t][k]) /\ V = {pick[k] : k \in Key} \ {Null}) =>
              Map!Justified(t, Outcome("visited", V))
  BY DEF Map!Justified, Map!Outcome, Outcome
-----------------------------------------------------------------------------
\* What a reader gains from what it reads.
LEMMA LiveAbove ==
  ASSUME IndInv, NEW c \in Node, NEW i \in Level, status[c] = "linked", Tall(c, i), ~next[c][i].mark
  PROVE  c \in Live
  <1>1. i \in 0 .. nheight[c]
    BY LevelFacts, NullAssumption DEF Tall, IndInv, TypeOK, TypeMemory
  <1> QED BY <1>1 DEF IndInv, MarkOrder, Live

LEMMA SightHead == ASSUME ReachInv, NEW t PROVE Sight(t, HeadNode)
  BY NullAssumption DEF ReachInv, Joined, Sight

\* A live node before the key has the key's live node behind it.
LEMMA SightLive ==
  ASSUME ReachInv, NEW t \in Thread, NEW c \in Live, key[t] \in Key, nkey[c] < key[t]
  PROVE  Sight(t, c)
  <1> SUFFICES ASSUME NEW m \in Live, nkey[m] = key[t] PROVE m \in From(c)
    BY NullAssumption DEF Sight, Live
  <1>1. IndInv /\ c \in From(HeadNode) /\ m \in From(HeadNode) /\ HeadNode \in Pred
    BY PublicFacts DEF ReachInv, Joined
  <1>2. m \in Public /\ m # HeadNode /\ nkey[c] \in Int /\ nkey[m] \in Int
    BY <1>1, PublicFacts, KeyAssumption DEF IndInv, TypeOK, TypeMemory
  <1>3. c # m /\ c \notin From(m)
    BY <1>1, <1>2, FromSorted
  <1> QED BY <1>1, <1>3, FromLinear

\* Past a corpse, or a node of another key.
LEMMA SightNext ==
  ASSUME ReachInv, NEW t \in Thread, NEW c \in Pred, Sight(t, c),
         c = HeadNode \/ c \notin Live \/ nkey[c] # key[t]
  PROVE  Sight(t, next[c][0].ptr)
  <1> SUFFICES ASSUME NEW m \in Live, nkey[m] = key[t], m \in From(c)
               PROVE  next[c][0].ptr # Null /\ m \in From(next[c][0].ptr)
    BY DEF Sight
  <1>1. m # c
    BY PublicFacts
  <1> QED BY <1>1, FromNext DEF ReachInv

\* The end of a search: the key's node is not ahead, so the key was free at some instant.
LEMMA SightEnd ==
  ASSUME ReachInv, NEW t \in Thread, SeenOK(t), key[t] \in Key, seen[t][key[t]] # {},
         NEW c \in NodePtr, Sight(t, c), c # Null => status[c] = "linked" /\ nkey[c] > key[t]
  PROVE  Null \in seen[t][key[t]]
  <1> SUFFICES ASSUME Null \notin seen[t][key[t]] PROVE FALSE
    OBVIOUS
  <1>1. Bound /\ IndInv
    BY LiveKeys, LiveBound DEF ReachInv
  <1>2. Binding(key[t]) # Null
    BY DEF SeenOK
  <1>3. PICK m \in Live : nkey[m] = key[t]
    BY <1>1, <1>2 DEF Bound
  <1>4. c # Null /\ m \in From(c)
    BY <1>3 DEF Sight
  <1>5. c \in Public /\ c # HeadNode /\ nkey[c] \in Int /\ key[t] \in Int
    BY <1>1, <1>4, PublicFacts, KeyAssumption DEF NodePtr, Public, IndInv, TypeOK, TypeMemory
  <1>6. m = c \/ nkey[c] < nkey[m]
    BY <1>1, <1>4, <1>5, FromSorted
  <1> QED BY <1>3, <1>4, <1>5, <1>6

\* A node that is live is what its key is bound to.
LEMMA SeenLive ==
  ASSUME ReachInv, NEW t \in Thread, SeenOK(t), NEW m \in Live, seen[t][nkey[m]] # {}
  PROVE  m \in seen[t][nkey[m]]
  <1>1. Bound /\ nkey[m] \in Key
    BY LiveKeys, LiveBound, PublicFacts DEF ReachInv, IndInv, TypeOK, TypeMemory
  <1> QED BY <1>1 DEF SeenOK, Bound

\* The walk of for_each moves on, or ends.
LEMMA WalkStart == ASSUME ReachInv, NEW t \in Thread PROVE Walked(t, next[HeadNode][0].ptr, {})
  <1>1. IndInv /\ HeadNode \in Pred /\ \A m \in Live : m \in From(HeadNode) /\ m # HeadNode
    BY PublicFacts DEF ReachInv, Joined
  <1> DEFINE c == next[HeadNode][0].ptr
  <1>2. c = Null \/ (c \in Node /\ status[c] = "linked")
    BY <1>1, ReadLeads, LevelFacts
  <1>3. \A m \in Live : c # Null /\ m \in From(c)
    BY <1>1, FromNext
  <1> QED BY <1>2, <1>3 DEF Walked

LEMMA WalkOn ==
  ASSUME ReachInv, NEW t \in Thread, SeenOK(t), \A k \in Key : seen[t][k] # {},
         NEW c \in Node, NEW V \in SUBSET Node, Walked(t, c, V)
  PROVE  Walked(t, next[c][0].ptr, V \cup Shown(c))
  <1> DEFINE q == next[c][0].ptr
             W == V \cup Shown(c)
  <1>0. IndInv /\ c \in Pred /\ c # Null /\ status[c] = "linked" /\ \A n \in Node : nkey[n] \in Int /\ nkey[n] \in Key
    BY NullAssumption, KeyAssumption DEF ReachInv, IndInv, TypeOK, TypeMemory, Pred, Walked
  <1>1. q = Null \/ (q \in Node /\ status[q] = "linked" /\ nkey[c] < nkey[q])
    BY <1>0, ReadLeads, LevelFacts, PublicFacts
  <1>2. c \in Live => c \in Shown(c) /\ c \in seen[t][nkey[c]]
    BY <1>0, SeenLive DEF Live, Shown
  <1>3. \A v \in Shown(c) : v = c /\ c \in Live
    BY <1>0 DEF Live, Shown
  <1>4. \A v \in W : status[v] = "linked" /\ v \in seen[t][nkey[v]] /\ (q = Null \/ nkey[v] < nkey[q])
    <2>1. \A v \in V : status[v] = "linked" /\ v \in seen[t][nkey[v]] /\ nkey[v] < nkey[c]
      BY <1>0 DEF Walked
    <2> QED BY <1>0, <1>1, <1>2, <1>3, <2>1
  <1>5. \A v, w \in W : nkey[v] = nkey[w] => v = w
    <2>1. \A v \in V : nkey[v] # nkey[c]
      BY <1>0 DEF Walked
    <2>2. \A v, w \in V : nkey[v] = nkey[w] => v = w
      BY DEF Walked
    <2> QED BY <1>3, <2>1, <2>2
  <1>6. ASSUME NEW m \in Live PROVE m \in W \/ Null \in seen[t][nkey[m]] \/ (q # Null /\ m \in From(q))
    <2>1. m \in V \/ Null \in seen[t][nkey[m]] \/ m \in From(c)
      BY DEF Walked
    <2>2. CASE m = c
      BY <1>2, <2>2
    <2>3. CASE m # c /\ m \in From(c)
      BY <1>0, <2>3, FromNext
    <2> QED BY <2>1, <2>2, <2>3
  <1> QED BY <1>1, <1>4, <1>5, <1>6 DEF Walked

LEMMA WalkEnd ==
  ASSUME ReachInv, NEW t \in Thread, SeenOK(t), \A k \in Key : seen[t][k] # {},
         NEW V \in SUBSET Node, Walked(t, Null, V)
  PROVE  \E pick \in [Key -> Node \cup {Null}] :
           (\A k \in Key : pick[k] \in seen[t][k]) /\ V = {pick[k] : k \in Key} \ {Null}
  <1> DEFINE of(k) == {v \in V : nkey[v] = k}
             pick == [k \in Key |-> IF of(k) = {} THEN Null ELSE CHOOSE v \in V : v \in of(k)]
  <1>0. Bound /\ \A n \in Node : nkey[n] \in Key
    BY LiveKeys, LiveBound DEF ReachInv, IndInv, TypeOK, TypeMemory
  <1>1. \A v \in V : v \in seen[t][nkey[v]] /\ v # Null
    BY NullAssumption DEF Walked
  <1>2. \A k \in Key : of(k) # {} => pick[k] \in V /\ nkey[pick[k]] = k
    OBVIOUS
  <1>3. \A k \in Key : of(k) = {} => pick[k] = Null /\ Null \in seen[t][k]
    <2> SUFFICES ASSUME NEW k \in Key, of(k) = {} PROVE Null \in seen[t][k]
      OBVIOUS
    <2>1. CASE Binding(k) = Null
      BY <2>1 DEF SeenOK
    <2>2. CASE Binding(k) # Null
      <3>1. PICK m \in Live : nkey[m] = k
        BY <1>0, <2>2 DEF Bound
      <3> QED BY <3>1 DEF Walked
    <2> QED BY <2>1, <2>2
  <1>4. \A v \in V : v = pick[nkey[v]]
    <2> SUFFICES ASSUME NEW v \in V PROVE v = pick[nkey[v]]
      OBVIOUS
    <2>1. nkey[v] \in Key /\ v \in of(nkey[v])
      BY <1>0
    <2> HIDE DEF pick
    <2>2. pick[nkey[v]] \in V /\ nkey[pick[nkey[v]]] = nkey[v]
      BY <1>2, <2>1
    <2> QED BY <2>2 DEF Walked
  <1>5. pick \in [Key -> Node \cup {Null}]
    OBVIOUS
  <1> HIDE DEF pick
  <1>6. \A k \in Key : pick[k] \in seen[t][k]
    BY <1>1, <1>2, <1>3
  <1>7. V = {pick[k] : k \in Key} \ {Null}
    BY <1>0, <1>1, <1>2, <1>3, <1>4
  <1> QED BY <1>5, <1>6, <1>7
-----------------------------------------------------------------------------
\* What a step of t is to the map: the begin of a call, a step within one, the step at which it takes
\* effect, or its return.
Begins(t, op, k) ==
  /\ Start(t, k) /\ pc'[t] # "idle" /\ UNCHANGED visited
  /\ Operation(t)' = op /\ ~Done(t)'
  /\ \/ op \in {"insert", "erase", "find"} /\ k \in Key
     \/ op = "for_each" /\ k = Null
Stays(t) ==
  /\ pc[t] # "idle" /\ pc'[t] # "idle"
  /\ Operation(t)' = Operation(t) /\ Done(t)' = Done(t)
  /\ UNCHANGED <<key, seen, outcome>>
  /\ pc[t] # "w_scan" => pc'[t] # "w_scan" /\ UNCHANGED visited
  /\ \A u \in Thread : u # t => visited'[u] = visited[u]
Takes(t, v) ==
  /\ pc'[t] # "idle" /\ ~Done(t) /\ Done(t)' /\ key[t] \in Key
  /\ Operation(t)' = Operation(t)
  /\ \/ Operation(t) = "insert" /\ v \in Node /\ Binding(key[t]) = Null
     \/ Operation(t) = "erase" /\ v = Null /\ Binding(key[t]) # Null
  /\ Observe(t, key[t], v) /\ Binds(key[t], v) /\ UNCHANGED <<key, outcome, visited>>
Returns(t, o) == pc[t] # "idle" /\ Return(t, o) /\ Map!Justified(t, o)
StepKind(t) == \/ Kept /\ \/ \E op, k : Begins(t, op, k)
                          \/ Stays(t)
                          \/ \E o : Returns(t, o)
               \/ \E v : Takes(t, v)

\* A step that keeps the call where it was: it takes no effect, before or after.
LEMMA StaysIf ==
  ASSUME NEW t \in Thread, UNCHANGED <<key, seen, outcome, visited>>,
         \/ pc[t] \in InsertPc \ {"i_count"} /\ pc'[t] \in InsertPc \ {"i_count"} /\ link'[t] = link[t]
         \/ pc[t] \in InsertPc /\ pc'[t] \in InsertPc /\ link[t] > 0 /\ link'[t] > 0
         \/ pc[t] \in ErasePc /\ pc'[t] \in ErasePc \ {"e_unlink", "e_retire", "e_count"}
              /\ pc[t] \notin {"e_unlink", "e_retire", "e_count"} /\ link'[t] = link[t]
         \/ pc[t] \in {"e_unlink", "e_retire"} /\ pc'[t] \in {"e_unlink", "e_retire", "e_count"}
         \/ pc[t] \in FindPc /\ pc'[t] \in FindPc /\ link'[t] = link[t]
  PROVE  Stays(t)
  <1>1. CASE pc[t] \in InsertPc /\ pc'[t] \in InsertPc
    <2>1. Operation(t) = "insert" /\ Operation(t)' = "insert"
      BY <1>1, Operations, OperationsNext
    <2>2. Done(t)' = Done(t)
      BY <1>1 DEF Done, InsertPc, ErasePc, FindPc
    <2> QED BY <1>1, <2>1, <2>2 DEF Stays, InsertPc
  <1>2. CASE pc[t] \in ErasePc /\ pc'[t] \in ErasePc
    <2>1. Operation(t) = "erase" /\ Operation(t)' = "erase"
      BY <1>2, Operations, OperationsNext
    <2>2. Done(t)' = Done(t)
      BY <1>2 DEF Done, InsertPc, ErasePc, FindPc
    <2> QED BY <1>2, <2>1, <2>2 DEF Stays, ErasePc
  <1>3. CASE pc[t] \in FindPc /\ pc'[t] \in FindPc
    <2>1. Operation(t) = "find" /\ Operation(t)' = "find"
      BY <1>3, Operations, OperationsNext
    <2>2. Done(t)' = Done(t)
      BY <1>3 DEF Done, InsertPc, ErasePc, FindPc
    <2> QED BY <1>3, <2>1, <2>2 DEF Stays, FindPc
  <1> QED BY <1>1, <1>2, <1>3 DEF ErasePc

\* A search that has gone past every node smaller than the key, and met no live node of the key.
LEMMA MissingIf ==
  ASSUME ReachInv, NEW t \in Thread, SeenOK(t), pc[t] \in {"e_level", "e_scan", "f_level", "f_scan"}, link[t] = 0,
         NEW c \in NodePtr, Sight(t, c), c # Null => status[c] = "linked" /\ nkey[c] > key[t]
  PROVE  Map!Justified(t, Outcome("missing", {}))
  <1>1. pc[t] \in ErasePc \/ pc[t] \in FindPc
    BY DEF ErasePc, FindPc
  <1>2. Operation(t) \in {"erase", "find"} /\ ~Done(t)
    BY <1>1, Operations DEF Done
  <1>3. key[t] \in Key /\ seen[t][key[t]] # {}
    BY <1>2 DEF SeenOK
  <1> QED BY <1>2, <1>3, SightEnd, JustifiedIf

LEMMA KeptElse ==
  ASSUME ReachInv, NEW t \in Thread, Step(t), pc[t] \notin {"i_publish", "e_claim"}
  PROVE  Kept /\ Live' = Live
  <1>1. ~InsertPublish(t) /\ ~EraseClaim(t)
    BY DEF InsertPublish, EraseClaim
  <1> QED BY <1>1, BindingStep

\* What MapInv says of one thread.
LEMMA MapFacts ==
  ASSUME MapInv, NEW t \in Thread
  PROVE  /\ ReachInv /\ IndInv /\ HeightInv /\ SeenOK(t) /\ LookOK(t) /\ WalkOK(t)
         /\ TypeThread /\ TypeMemory /\ TypeHistory /\ LocalOK(t) /\ FreshOK(t) /\ InsertOK(t) /\ SearchOK(t) /\ HeightThread(t)
         /\ cur[t].lvl \in Level /\ cur[t].pred \in Pred /\ cur[t].curr.ptr \in NodePtr
  <1>1. ReachInv /\ IndInv /\ HeightInv /\ SeenOK(t) /\ LookOK(t) /\ WalkOK(t)
    BY DEF MapInv, ReachInv
  <1> QED BY <1>1, Facts DEF HeightInv, IndInv, TypeOK

LEMMA BeginKind ==
  ASSUME MapInv, NEW t \in Thread, Step(t)
  PROVE  /\ \A k \in Key, h \in Level, n \in Node : InsertBegin(t, k, h, n) => StepKind(t)
         /\ \A k \in Key : EraseBegin(t, k) => StepKind(t)
         /\ \A k \in Key : FindBegin(t, k) => StepKind(t)
         /\ EachBegin(t) => StepKind(t)
  <1>0. ReachInv /\ TypeThread /\ FreshOK(t)
    BY MapFacts
  <1>1. ASSUME NEW k, Start(t, k), pc'[t] \in {"i_top", "e_level", "f_level", "w_scan"}, UNCHANGED <<link, visited>>,
               \/ Operation(t)' \in {"insert", "erase", "find"} /\ k \in Key
               \/ Operation(t)' = "for_each" /\ k = Null
        PROVE  StepKind(t)
    <2>1. pc[t] = "idle" /\ link[t] = 0
      BY <1>0, <1>1 DEF Start, FreshOK, InsertPc
    <2>2. ~Done(t)' /\ Kept
      BY <1>0, <1>1, <2>1, KeptElse DEF Done
    <2>3. PICK op : op = Operation(t)'
      OBVIOUS
    <2>4. Begins(t, op, k)
      BY <1>1, <2>2, <2>3 DEF Begins
    <2> QED BY <2>2, <2>4 DEF StepKind
  <1>2. ASSUME NEW k \in Key, NEW h \in Level, NEW n \in Node, InsertBegin(t, k, h, n) PROVE StepKind(t)
    <2>1. pc'[t] = "i_top" /\ Start(t, k) /\ UNCHANGED <<link, visited>>
      BY <1>0, <1>2 DEF InsertBegin, Goto, TypeThread
    <2>2. Operation(t)' = "insert"
      BY <2>1, OperationsNext DEF InsertPc
    <2> QED BY <1>1, <2>1, <2>2
  <1>3. ASSUME NEW k \in Key, EraseBegin(t, k) PROVE StepKind(t)
    <2>1. pc'[t] = "e_level" /\ Start(t, k) /\ UNCHANGED <<link, visited>>
      BY <1>0, <1>3 DEF EraseBegin, Goto, TypeThread
    <2>2. Operation(t)' = "erase"
      BY <2>1, OperationsNext DEF ErasePc
    <2> QED BY <1>1, <2>1, <2>2
  <1>4. ASSUME NEW k \in Key, FindBegin(t, k) PROVE StepKind(t)
    <2>1. pc'[t] = "f_level" /\ Start(t, k) /\ UNCHANGED <<link, visited>>
      BY <1>0, <1>4 DEF FindBegin, Goto, TypeThread
    <2>2. Operation(t)' = "find"
      BY <2>1, OperationsNext DEF FindPc
    <2> QED BY <1>1, <2>1, <2>2
  <1>5. ASSUME EachBegin(t) PROVE StepKind(t)
    <2>1. pc'[t] = "w_scan" /\ Start(t, Null) /\ UNCHANGED <<link, visited>>
      BY <1>0, <1>5 DEF EachBegin, Goto, TypeThread
    <2>2. Operation(t)' = "for_each"
      BY <2>1, OperationsNext
    <2> QED BY <1>1, <2>1, <2>2
  <1> QED BY <1>2, <1>3, <1>4, <1>5

\* The search of insert stays, but for the return of an insert that meets its key.
LEMMA InsertLevelDoneKind ==
  ASSUME MapInv, NEW t \in Thread, Step(t), pc[t] \in SearchPc, NEW p, NEW s, InsertLevelDone(t, p, s),
         UNCHANGED <<args, history>>
  PROVE  Kept /\ Stays(t)
  <1>1. ReachInv /\ TypeThread
    BY MapFacts
  <1>2. pc'[t] \in {"i_level", "i_publish", "i_relink"} /\ UNCHANGED <<key, seen, outcome, visited, link>>
    BY <1>1 DEF InsertLevelDone, Goto, TypeThread, args, history
  <1>3. Stays(t)
    BY <1>2, StaysIf DEF SearchPc, InsertPc
  <1> QED BY <1>1, <1>3, KeptElse DEF SearchPc

LEMMA InsertSearchKind ==
  ASSUME MapInv, NEW t \in Thread, Step(t)
  PROVE  /\ InsertTop(t) => StepKind(t)
         /\ InsertLevel(t) => StepKind(t)
         /\ InsertScan(t) => StepKind(t)
         /\ InsertLive(t) => StepKind(t)
         /\ InsertSplice(t) => StepKind(t)
  <1>0. ReachInv /\ IndInv /\ TypeThread /\ SeenOK(t)
    BY MapFacts
  <1>1. ASSUME pc[t] \in InsertPc \ {"i_count", "i_publish"}, pc'[t] \in InsertPc \ {"i_count"}, UNCHANGED <<args, history>>
        PROVE  StepKind(t)
    <2>1. UNCHANGED <<key, seen, outcome, visited, link>>
      BY <1>1 DEF args, history
    <2>2. Stays(t)
      BY <1>1, <2>1, StaysIf
    <2> QED BY <1>0, <1>1, <2>2, KeptElse DEF StepKind, InsertPc
  <1>2. ASSUME pc[t] \in SearchPc, NEW p, NEW s, InsertLevelDone(t, p, s), UNCHANGED <<args, history>>
        PROVE  StepKind(t)
    BY <1>2, InsertLevelDoneKind DEF StepKind
  <1>3. CASE InsertTop(t)
    BY <1>0, <1>1, <1>3 DEF InsertTop, Goto, TypeThread, InsertPc
  <1>4. CASE InsertLevel(t)
    BY <1>0, <1>1, <1>2, <1>4 DEF InsertLevel, Goto, TypeThread, InsertPc, SearchPc
  <1>5. CASE InsertLive(t)
    BY <1>0, <1>1, <1>5 DEF InsertLive, Goto, TypeThread, InsertPc
  <1>6. CASE InsertSplice(t)
    BY <1>0, <1>1, <1>2, <1>6 DEF InsertSplice, InsertRetry, Goto, TypeThread, InsertPc, SearchPc
  <1>7. CASE InsertScan(t)
    <2> DEFINE i == cur[t].lvl
               c == cur[t].curr.ptr
    <2>1. pc[t] = "i_scan" /\ pc[t] \in InsertPc /\ pc[t] \in SearchPc
      BY <1>7 DEF InsertScan, InsertPc, SearchPc
    <2>2. CASE ~next[c][i].mark /\ link[t] = 0 /\ Return(t, Outcome("exists", {})) /\ ~Before(c, key[t]) /\ ~After(c, key[t])
      <3>1. c \in Node /\ status[c] = "linked" /\ Tall(c, i) /\ i \in Level
        BY <2>1, MapFacts DEF LocalOK, SearchOK, HeightThread
      <3>2. c \in Live
        BY <1>0, <2>2, <3>1, LiveAbove
      <3>3. Operation(t) = "insert" /\ ~Done(t)
        BY <2>1, <2>2, Operations DEF Done
      <3>4. key[t] \in Key /\ seen[t][key[t]] # {}
        BY <1>0, <3>3 DEF SeenOK
      <3>5. nkey[c] = key[t]
        <4>1. nkey[c] \in Int /\ key[t] \in Int
          BY <1>0, <3>1, <3>4, KeyAssumption DEF IndInv, TypeOK, TypeMemory
        <4> HIDE DEF c
        <4> QED BY <2>2, <4>1 DEF Before, After
      <3>6. c \in seen[t][key[t]]
        BY <1>0, <3>2, <3>4, <3>5, SeenLive
      <3>7. Map!Justified(t, Outcome("exists", {}))
        BY <3>1, <3>3, <3>6, JustifiedIf
      <3> QED BY <1>0, <2>1, <2>2, <3>7, KeptElse DEF StepKind, Returns
    <2>3. CASE UNCHANGED <<args, history>> /\ \E p, s : InsertLevelDone(t, p, s)
      BY <1>2, <2>1, <2>3
    <2>4. CASE UNCHANGED <<args, history>> /\ pc'[t] \in {"i_top", "i_splice", "i_live", "i_scan", "i_relink"}
      BY <1>1, <2>1, <2>4 DEF InsertPc
    <2>5. \/ ~next[c][i].mark /\ link[t] = 0 /\ Return(t, Outcome("exists", {})) /\ ~Before(c, key[t]) /\ ~After(c, key[t])
          \/ UNCHANGED <<args, history>> /\ \/ \E p, s : InsertLevelDone(t, p, s)
                                            \/ pc'[t] \in {"i_top", "i_splice", "i_live", "i_scan", "i_relink"}
      BY <1>0, <1>7, <2>1 DEF InsertScan, InsertRetry, Goto, TypeThread
    <2> QED BY <2>2, <2>3, <2>4, <2>5
  <1> QED BY <1>3, <1>4, <1>5, <1>6, <1>7

\* insert takes effect when it publishes; what follows only links the node higher up and counts it.
LEMMA InsertLinkKind ==
  ASSUME MapInv, NEW t \in Thread, Step(t)
  PROVE  /\ InsertPublish(t) => StepKind(t)
         /\ InsertCheck(t) => StepKind(t)
         /\ InsertLink(t) => StepKind(t)
         /\ InsertRelink(t) => StepKind(t)
         /\ InsertCount(t) => StepKind(t)
  <1>0. ReachInv /\ IndInv /\ TypeThread /\ LocalOK(t) /\ FreshOK(t)
    BY MapFacts
  <1>1. ASSUME pc[t] \in {"i_check", "i_link", "i_relink"}, pc'[t] \in InsertPc, link'[t] > 0, UNCHANGED <<key, visited, history>>
        PROVE  StepKind(t)
    <2>1. Stays(t)
      BY <1>0, <1>1, StaysIf DEF LocalOK, InsertPc, history
    <2> QED BY <1>0, <1>1, <2>1, KeptElse DEF StepKind
  <1>2. CASE InsertCheck(t)
    BY <1>0, <1>1, <1>2 DEF InsertCheck, Goto, TypeThread, InsertPc, LocalOK, args
  <1>3. CASE InsertRelink(t)
    BY <1>0, <1>1, <1>3 DEF InsertRelink, Goto, TypeThread, InsertPc, LocalOK, args
  <1>4. CASE InsertLink(t)
    <2>1. link[t] \in Nat /\ link[t] > 0
      BY <1>0, <1>4, LevelFacts DEF InsertLink, LocalOK, TypeThread
    <2>2. pc'[t] \in InsertPc /\ link'[t] > 0
      BY <1>0, <1>4, <2>1 DEF InsertLink, Goto, TypeThread, InsertPc
    <2> QED BY <1>1, <1>4, <2>2 DEF InsertLink
  <1>5. CASE InsertCount(t)
    <2>1. Operation(t) = "insert" /\ Done(t) /\ Return(t, Outcome("inserted", {})) /\ pc[t] = "i_count"
      BY <1>5, Operations DEF InsertCount, InsertPc, Done
    <2> QED BY <1>0, <2>1, KeptElse, JustifiedIf DEF StepKind, Returns
  <1>6. CASE InsertPublish(t)
    <2>1. pc[t] = "i_publish" /\ pc[t] \in InsertPc /\ link[t] = 0 /\ node[t] \in Node /\ UNCHANGED <<key, outcome, visited>>
      BY <1>0, <1>6 DEF InsertPublish, InsertPc, FreshOK, LocalOK
    <2>2. CASE Holds(preds[t][0], 0, To(succs[t][0]))
      <3>1. Binds(key[t], node[t]) /\ key[t] \in Key /\ Binding(key[t]) = Null
        BY <1>0, <1>6, <2>2, BindingStep, KeyIsFree
      <3>2. Observe(t, key[t], node[t])
        BY <1>6, <2>2 DEF InsertPublish
      <3>3. pc'[t] \in InsertPc /\ pc'[t] # "idle" /\ Done(t)'
        BY <1>0, <1>6, <2>1, <2>2 DEF InsertPublish, Goto, TypeThread, InsertPc, Done
      <3>4. Operation(t) = "insert" /\ Operation(t)' = "insert" /\ ~Done(t)
        BY <2>1, <3>3, Operations, OperationsNext DEF Done
      <3>5. Takes(t, node[t])
        BY <2>1, <3>1, <3>2, <3>3, <3>4 DEF Takes
      <3> QED BY <3>5 DEF StepKind
    <2>3. CASE ~Holds(preds[t][0], 0, To(succs[t][0]))
      <3>1. Kept
        BY <1>0, <1>6, <2>3, BindingStep
      <3>2. pc'[t] = "i_top" /\ UNCHANGED <<link, seen>>
        BY <1>0, <1>6, <2>3 DEF InsertPublish, Goto, TypeThread
      <3>3. Stays(t)
        BY <2>1, <3>2, StaysIf DEF InsertPc
      <3> QED BY <3>1, <3>3 DEF StepKind
    <2> QED BY <2>2, <2>3
  <1> QED BY <1>2, <1>3, <1>4, <1>5, <1>6

\* What a search reads at level i of c: c, and what comes after it.
LEMMA ReaderFacts ==
  ASSUME MapInv, NEW t \in Thread, pc[t] \in {"e_scan", "f_scan"}
  PROVE  LET c == cur[t].curr.ptr
             i == cur[t].lvl
         IN  /\ c \in Node /\ c \in Pred /\ c # Null /\ status[c] = "linked" /\ key[t] \in Key /\ key[t] \in Int
             /\ link[t] = 0 /\ Ahead(t, cur[t].pred) /\ nkey[c] \in Int /\ next[c][i].ptr \in NodePtr
             /\ ~next[c][i].mark => c \in Live
             /\ ~next[c][i].mark /\ Before(c, key[t]) => Ahead(t, c)
             /\ i = 0 => Sight(t, c)
             /\ i = 0 /\ (next[c][i].mark \/ Before(c, key[t])) => Sight(t, next[c][0].ptr)
  <1> DEFINE c == cur[t].curr.ptr
             i == cur[t].lvl
  <1>0. ReachInv /\ IndInv /\ SeenOK(t) /\ LookOK(t) /\ cur[t].pred \in Pred /\ i \in Level /\ TypeMemory
    BY MapFacts
  <1>1. c \in Node /\ status[c] = "linked" /\ Tall(c, i) /\ c \in NodePtr
    BY MapFacts DEF LocalOK, SearchOK, HeightThread
  <1>2. link[t] = 0 /\ pc[t] \in ErasePc \cup FindPc
    BY MapFacts DEF FreshOK, InsertPc, ErasePc, FindPc
  <1>3. Operation(t) \in {"erase", "find"} /\ ~Done(t)
    BY <1>2, Operations DEF Done
  <1>4. key[t] \in Key
    BY <1>0, <1>3 DEF SeenOK
  <1> HIDE DEF c, i
  <1>5. c \in Pred /\ c # Null /\ key[t] \in Int /\ nkey[c] \in Int /\ next[c][i].ptr \in NodePtr
    BY <1>0, <1>1, <1>4, ReadLeads, NullAssumption, KeyAssumption DEF Pred, TypeMemory
  <1>6. Ahead(t, cur[t].pred) /\ (i = 0 => Sight(t, c))
    BY <1>0, <1>1 DEF LookOK, c, i
  <1>7. ~next[c][i].mark => c \in Live
    BY <1>0, <1>1, LiveAbove
  <1>8. ~next[c][i].mark /\ Before(c, key[t]) => Ahead(t, c)
    BY <1>0, <1>1, <1>4, <1>7, SightLive DEF Ahead, Under, Before
  <1>9. i = 0 /\ (next[c][i].mark \/ Before(c, key[t])) => Sight(t, next[c][0].ptr)
    <2>1. next[c][0].mark => c \notin Live
      BY DEF Live
    <2>2. Before(c, key[t]) => nkey[c] # key[t]
      BY <1>5 DEF Before
    <2> QED BY <1>0, <1>5, <1>6, <2>1, <2>2, SightNext
  <1> QED BY <1>1, <1>2, <1>4, <1>5, <1>6, <1>7, <1>8, <1>9 DEF c, i

\* The same at the predecessor, from which a level is entered.
LEMMA EntryFacts ==
  ASSUME MapInv, NEW t \in Thread, pc[t] \in {"e_level", "f_level"}
  PROVE  LET p == cur[t].pred
         IN  /\ key[t] \in Key /\ key[t] \in Int /\ link[t] = 0 /\ Ahead(t, p) /\ next[p][0].ptr \in NodePtr
             /\ Sight(t, next[p][0].ptr)
  <1> DEFINE p == cur[t].pred
  <1>0. ReachInv /\ IndInv /\ SeenOK(t) /\ LookOK(t) /\ p \in Pred /\ TypeMemory
    BY MapFacts
  <1>1. link[t] = 0 /\ pc[t] \in ErasePc \cup FindPc
    BY MapFacts DEF FreshOK, InsertPc, ErasePc, FindPc
  <1>2. Operation(t) \in {"erase", "find"} /\ ~Done(t)
    BY <1>1, Operations DEF Done
  <1>3. key[t] \in Key /\ key[t] \in Int
    BY <1>0, <1>2, KeyAssumption DEF SeenOK
  <1>4. Ahead(t, p)
    BY <1>0 DEF LookOK
  <1> HIDE DEF p
  <1>5. next[p][0].ptr \in NodePtr
    BY <1>0, ReadLeads, LevelFacts
  <1>6. p # HeadNode => nkey[p] \in Int /\ nkey[p] < key[t]
    BY <1>0, <1>4, KeyAssumption DEF Ahead, Under, TypeMemory, Pred
  <1>7. p # HeadNode => nkey[p] # key[t]
    BY <1>3, <1>6
  <1>8. Sight(t, next[p][0].ptr)
    BY <1>0, <1>4, <1>7, SightNext DEF Ahead
  <1> QED BY <1>1, <1>3, <1>4, <1>5, <1>8 DEF p

\* The end of a level of erase's search: after level 0 there is a victim, or the key was free at some instant.
LEMMA EraseLevelDoneKind ==
  ASSUME MapInv, NEW t \in Thread, Step(t), pc[t] \in {"e_level", "e_scan"}, NEW p, NEW s \in NodePtr,
         EraseLevelDone(t, p, s), cur[t].lvl = 0 => Sight(t, s),
         s # Null => status[s] = "linked" /\ ~Before(s, key[t])
  PROVE  StepKind(t)
  <1>0. ReachInv /\ IndInv /\ TypeThread /\ TypeMemory /\ SeenOK(t) /\ FreshOK(t) /\ cur[t].lvl \in Nat
    BY MapFacts, LevelFacts
  <1>1. link[t] = 0 /\ pc[t] \in ErasePc /\ pc[t] # "idle" /\ Kept
    BY <1>0, KeptElse DEF FreshOK, InsertPc, ErasePc
  <1>2. CASE cur[t].lvl > 0
    <2>1. pc'[t] = "e_level" /\ UNCHANGED <<key, seen, outcome, visited, link>>
      BY <1>0, <1>2 DEF EraseLevelDone, Goto, TypeThread, args, history
    <2>2. Stays(t)
      BY <1>1, <2>1, StaysIf DEF ErasePc
    <2> QED BY <1>1, <2>2 DEF StepKind
  <1>3. CASE cur[t].lvl = 0 /\ s # Null /\ ~Before(s, key[t]) /\ ~After(s, key[t])
    <2>1. pc'[t] \in {"e_mark", "e_claim"} /\ UNCHANGED <<key, seen, outcome, visited, link>>
      BY <1>0, <1>3 DEF EraseLevelDone, Goto, TypeThread, history
    <2>2. Stays(t)
      BY <1>1, <2>1, StaysIf DEF ErasePc
    <2> QED BY <1>1, <2>2 DEF StepKind
  <1>4. CASE cur[t].lvl = 0 /\ ~(s # Null /\ ~Before(s, key[t]) /\ ~After(s, key[t]))
    <2>1. Return(t, Outcome("missing", {}))
      BY <1>4 DEF EraseLevelDone
    <2>2. s # Null => status[s] = "linked" /\ nkey[s] > key[t]
      BY <1>4 DEF After
    <2>3. Map!Justified(t, Outcome("missing", {}))
      BY <1>0, <1>1, <1>4, <2>2, MissingIf
    <2> QED BY <1>1, <2>1, <2>3 DEF StepKind, Returns
  <1> QED BY <1>0, <1>2, <1>3, <1>4

LEMMA EraseKind ==
  ASSUME MapInv, NEW t \in Thread, Step(t)
  PROVE  /\ EraseLevel(t) => StepKind(t)
         /\ EraseScan(t) => StepKind(t)
         /\ EraseMark(t) => StepKind(t)
         /\ EraseClaim(t) => StepKind(t)
         /\ EraseUnlink(t) => StepKind(t)
         /\ EraseRetire(t) => StepKind(t)
         /\ EraseCount(t) => StepKind(t)
  <1> DEFINE i == cur[t].lvl
             c == cur[t].curr.ptr
  <1>0. ReachInv /\ IndInv /\ TypeThread /\ SeenOK(t) /\ LookOK(t) /\ LocalOK(t) /\ FreshOK(t) /\ i \in Level
    BY MapFacts
  <1>1. ASSUME pc[t] \in ErasePc \ {"e_unlink", "e_retire", "e_count", "e_claim"},
               pc'[t] \in ErasePc \ {"e_unlink", "e_retire", "e_count"}, UNCHANGED <<args, history>>
        PROVE  StepKind(t)
    <2>1. UNCHANGED <<key, seen, outcome, visited, link>>
      BY <1>1 DEF args, history
    <2>2. Stays(t)
      BY <1>1, <2>1, StaysIf
    <2> QED BY <1>0, <1>1, <2>2, KeptElse DEF StepKind, ErasePc
  <1>2. CASE EraseLevel(t)
    <2> DEFINE q == next[cur[t].pred][i]
    <2>1. pc[t] = "e_level"
      BY <1>2 DEF EraseLevel
    <2>2. CASE q.ptr = Null
      <3>1. EraseLevelDone(t, cur[t].pred, Null) /\ Null \in NodePtr
        BY <1>2, <2>2 DEF EraseLevel, NodePtr
      <3>2. i = 0 => Sight(t, Null)
        BY <2>1, <2>2, EntryFacts
      <3> QED BY <2>1, <3>1, <3>2, EraseLevelDoneKind
    <2>3. CASE q.ptr # Null
      BY <1>0, <1>1, <1>2, <2>3 DEF EraseLevel, Goto, TypeThread, ErasePc
    <2> QED BY <2>2, <2>3
  <1>3. CASE EraseScan(t)
    <2> DEFINE succ == next[c][i]
    <2>1. pc[t] = "e_scan"
      BY <1>3 DEF EraseScan
    <2>2. /\ c \in Node /\ c \in NodePtr /\ status[c] = "linked" /\ (i = 0 => Sight(t, c))
          /\ i = 0 /\ (succ.mark \/ Before(c, key[t])) => Sight(t, succ.ptr)
      BY <2>1, ReaderFacts DEF NodePtr
    <2>3. CASE ~succ.mark /\ ~Before(c, key[t])
      <3>1. EraseLevelDone(t, cur[t].pred, c)
        BY <1>3, <2>3 DEF EraseScan
      <3> QED BY <2>1, <2>2, <2>3, <3>1, EraseLevelDoneKind
    <2>4. CASE (succ.mark \/ Before(c, key[t])) /\ succ.ptr = Null
      <3>1. PICK p : EraseLevelDone(t, p, Null)
        BY <1>3, <2>4 DEF EraseScan
      <3>2. i = 0 => Sight(t, Null)
        BY <2>2, <2>4
      <3> QED BY <2>1, <3>1, <3>2, EraseLevelDoneKind DEF NodePtr
    <2>5. CASE (succ.mark \/ Before(c, key[t])) /\ succ.ptr # Null
      <3>1. UNCHANGED <<pc, args, history>>
        BY <1>3, <2>5 DEF EraseScan
      <3> QED BY <1>1, <2>1, <3>1 DEF ErasePc
    <2> QED BY <2>3, <2>4, <2>5
  <1>4. CASE EraseMark(t)
    BY <1>0, <1>1, <1>4 DEF EraseMark, Goto, TypeThread, ErasePc
  <1>5. CASE EraseClaim(t)
    <2>1. pc[t] = "e_claim" /\ link[t] = 0 /\ node[t] \in Node /\ nkey[node[t]] = key[t]
      BY <1>0, <1>5 DEF EraseClaim, FreshOK, InsertPc, LocalOK, LookOK, VictimPc
    <2>2. Operation(t) = "erase" /\ ~Done(t)
      BY <2>1, Operations DEF Done, ErasePc
    <2>3. key[t] \in Key /\ seen[t][key[t]] # {}
      BY <1>0, <2>2 DEF SeenOK
    <2>4. CASE next[node[t]][0].mark
      <3>1. Return(t, Outcome("missing", {})) /\ Kept
        BY <1>0, <1>5, <2>4, BindingStep DEF EraseClaim
      <3>2. Null \in seen[t][key[t]]
        BY <1>0, <2>1, <2>4 DEF LookOK, Live
      <3>3. Map!Justified(t, Outcome("missing", {}))
        BY <2>2, <3>2, JustifiedIf
      <3> QED BY <2>1, <3>1, <3>3 DEF StepKind, Returns
    <2>5. CASE ~next[node[t]][0].mark
      <3>1. node[t] \in Live /\ Binds(key[t], Null) /\ Bound
        BY <1>0, <1>5, <2>1, <2>5, BindingStep
      <3>2. Binding(key[t]) # Null
        BY <2>1, <3>1, NullAssumption DEF Bound
      <3>3. Observe(t, key[t], Null) /\ pc'[t] = "e_unlink" /\ UNCHANGED <<key, outcome, visited>>
        BY <1>0, <1>5, <2>5 DEF EraseClaim, Goto, TypeThread, args
      <3>4. Operation(t)' = "erase" /\ Done(t)'
        BY <3>3, OperationsNext DEF Done, ErasePc
      <3>5. Takes(t, Null)
        BY <2>2, <2>3, <3>1, <3>2, <3>3, <3>4 DEF Takes
      <3> QED BY <3>5 DEF StepKind
    <2> QED BY <2>4, <2>5
  <1>6. CASE EraseUnlink(t) \/ EraseRetire(t)
    <2>1. /\ pc[t] \in {"e_unlink", "e_retire"} /\ pc'[t] \in {"e_unlink", "e_retire", "e_count"}
          /\ UNCHANGED <<key, seen, outcome, visited>>
      BY <1>0, <1>6 DEF EraseUnlink, EraseRetire, Goto, TypeThread, args, history
    <2>2. Stays(t)
      BY <2>1, StaysIf
    <2> QED BY <1>0, <2>1, <2>2, KeptElse DEF StepKind
  <1>7. CASE EraseCount(t)
    <2>1. Operation(t) = "erase" /\ Done(t) /\ Return(t, Outcome("erased", {})) /\ pc[t] = "e_count"
      BY <1>7, Operations DEF EraseCount, ErasePc, Done
    <2> QED BY <1>0, <2>1, KeptElse, JustifiedIf DEF StepKind, Returns
  <1> QED BY <1>2, <1>3, <1>4, <1>5, <1>6, <1>7

LEMMA FindLevelDoneKind ==
  ASSUME MapInv, NEW t \in Thread, Step(t), pc[t] \in {"f_level", "f_scan"}, NEW p, NEW s \in NodePtr,
         FindLevelDone(t, p), cur[t].lvl = 0 => Sight(t, s),
         s # Null => status[s] = "linked" /\ After(s, key[t])
  PROVE  StepKind(t)
  <1>0. ReachInv /\ IndInv /\ TypeThread /\ TypeMemory /\ SeenOK(t) /\ FreshOK(t) /\ cur[t].lvl \in Nat
    BY MapFacts, LevelFacts
  <1>1. link[t] = 0 /\ pc[t] \in FindPc /\ pc[t] # "idle" /\ Kept
    BY <1>0, KeptElse DEF FreshOK, InsertPc, FindPc
  <1>2. CASE cur[t].lvl > 0
    <2>1. pc'[t] = "f_level" /\ UNCHANGED <<key, seen, outcome, visited, link>>
      BY <1>0, <1>2 DEF FindLevelDone, Goto, TypeThread, args, history
    <2>2. Stays(t)
      BY <1>1, <2>1, StaysIf DEF FindPc
    <2> QED BY <1>1, <2>2 DEF StepKind
  <1>3. CASE cur[t].lvl = 0
    <2>1. Return(t, Outcome("missing", {}))
      BY <1>3 DEF FindLevelDone
    <2>2. Map!Justified(t, Outcome("missing", {}))
      BY <1>0, <1>1, <1>3, MissingIf DEF After
    <2> QED BY <1>1, <2>1, <2>2 DEF StepKind, Returns
  <1> QED BY <1>0, <1>2, <1>3

LEMMA ReaderKind ==
  ASSUME MapInv, NEW t \in Thread, Step(t)
  PROVE  /\ FindTop(t) => StepKind(t)
         /\ FindLevel(t) => StepKind(t)
         /\ FindScan(t) => StepKind(t)
         /\ FindCheck(t) => StepKind(t)
         /\ EachScan(t) => StepKind(t)
  <1> DEFINE i == cur[t].lvl
             c == cur[t].curr.ptr
  <1>0. ReachInv /\ IndInv /\ TypeThread /\ SeenOK(t) /\ LookOK(t) /\ WalkOK(t) /\ LocalOK(t) /\ FreshOK(t) /\ i \in Level
    BY MapFacts
  <1>1. ASSUME pc[t] \in FindPc, pc'[t] \in FindPc, UNCHANGED <<args, history>>
        PROVE  StepKind(t)
    <2>1. UNCHANGED <<key, seen, outcome, visited, link>>
      BY <1>1 DEF args, history
    <2>2. Stays(t)
      BY <1>1, <2>1, StaysIf
    <2> QED BY <1>0, <1>1, <2>2, KeptElse DEF StepKind, FindPc
  <1>2. CASE FindTop(t)
    BY <1>0, <1>1, <1>2 DEF FindTop, Goto, TypeThread, FindPc
  <1>3. CASE FindLevel(t)
    <2> DEFINE q == next[cur[t].pred][i]
    <2>1. pc[t] = "f_level"
      BY <1>3 DEF FindLevel
    <2>2. CASE q.ptr = Null
      <3>1. FindLevelDone(t, cur[t].pred) /\ Null \in NodePtr
        BY <1>3, <2>2 DEF FindLevel, NodePtr
      <3>2. i = 0 => Sight(t, Null)
        BY <2>1, <2>2, EntryFacts
      <3> QED BY <2>1, <3>1, <3>2, FindLevelDoneKind
    <2>3. CASE q.ptr # Null
      <3>1. pc'[t] \in {"f_top", "f_scan"} /\ UNCHANGED <<args, history>>
        BY <1>0, <1>3, <2>3 DEF FindLevel, Goto, TypeThread
      <3> QED BY <1>1, <2>1, <3>1 DEF FindPc
    <2> QED BY <2>2, <2>3
  <1>4. CASE FindScan(t)
    <2> DEFINE succ == next[c][i]
    <2>1. pc[t] = "f_scan"
      BY <1>4 DEF FindScan
    <2>2. /\ c \in Node /\ c \in NodePtr /\ status[c] = "linked" /\ (i = 0 => Sight(t, c))
          /\ i = 0 /\ (succ.mark \/ Before(c, key[t])) => Sight(t, succ.ptr)
      BY <2>1, ReaderFacts DEF NodePtr
    <2>3. CASE ~succ.mark /\ After(c, key[t])
      <3>1. FindLevelDone(t, cur[t].pred)
        BY <1>4, <2>3 DEF FindScan
      <3> QED BY <2>1, <2>2, <2>3, <3>1, FindLevelDoneKind
    <2>4. CASE ~succ.mark /\ ~After(c, key[t]) /\ ~Before(c, key[t])
      <3>1. pc'[t] = "f_check" /\ UNCHANGED <<args, history>>
        BY <1>0, <1>4, <2>4 DEF FindScan, Goto, TypeThread
      <3> QED BY <1>1, <2>1, <3>1 DEF FindPc
    <2>5. CASE (succ.mark \/ (~After(c, key[t]) /\ Before(c, key[t]))) /\ succ.ptr = Null
      <3>1. PICK p : FindLevelDone(t, p)
        BY <1>4, <2>5 DEF FindScan
      <3>2. i = 0 => Sight(t, Null)
        BY <2>2, <2>5
      <3> QED BY <2>1, <3>1, <3>2, FindLevelDoneKind DEF NodePtr
    <2>6. CASE (succ.mark \/ (~After(c, key[t]) /\ Before(c, key[t]))) /\ succ.ptr # Null
      <3>1. UNCHANGED <<pc, args, history>>
        BY <1>4, <2>6 DEF FindScan
      <3> QED BY <1>1, <2>1, <3>1 DEF FindPc
    <2> QED BY <2>3, <2>4, <2>5, <2>6
  <1>5. CASE FindCheck(t)
    <2>1. pc[t] = "f_check" /\ link[t] = 0 /\ c \in Node /\ c \in NodePtr /\ status[c] = "linked"
      BY <1>0, <1>5, MapFacts DEF FindCheck, FreshOK, InsertPc, LocalOK, SearchOK, NodePtr
    <2>2. Operation(t) = "find" /\ ~Done(t) /\ nkey[c] = key[t]
      BY <1>0, <2>1, Operations DEF Done, FindPc, LookOK, Keyed
    <2>3. CASE next[c][0].mark
      <3>1. pc'[t] = "f_top" /\ UNCHANGED <<args, history>>
        BY <1>0, <1>5, <2>3 DEF FindCheck, Goto, TypeThread
      <3> QED BY <1>1, <2>1, <3>1 DEF FindPc
    <2>4. CASE ~next[c][0].mark
      <3>1. Return(t, Outcome("found", {c})) /\ c \in Live
        BY <1>5, <2>1, <2>4 DEF FindCheck, Live
      <3>2. seen[t][key[t]] # {}
        BY <1>0, <2>2 DEF SeenOK
      <3>3. c \in seen[t][key[t]]
        BY <1>0, <2>2, <3>1, <3>2, SeenLive
      <3>4. Map!Justified(t, Outcome("found", {c}))
        BY <2>1, <2>2, <3>3, JustifiedIf
      <3> QED BY <1>0, <2>1, <3>1, <3>4, KeptElse DEF StepKind, Returns
    <2> QED BY <2>3, <2>4
  <1>6. CASE EachScan(t)
    <2>1. pc[t] = "w_scan" /\ link[t] = 0 /\ c \in NodePtr /\ visited[t] \in SUBSET Node
      BY <1>0, <1>6, MapFacts DEF EachScan, FreshOK, InsertPc, TypeThread
    <2>2. Operation(t) = "for_each" /\ ~Done(t) /\ Walked(t, c, visited[t])
      BY <1>0, <2>1, Operations DEF Done, WalkOK
    <2>3. \A k \in Key : seen[t][k] # {}
      BY <1>0, <2>2 DEF SeenOK
    <2>4. ASSUME NEW V \in SUBSET Node, Walked(t, Null, V), Return(t, Outcome("visited", V)) PROVE StepKind(t)
      <3>1. Map!Justified(t, Outcome("visited", V))
        BY <1>0, <2>2, <2>3, <2>4, WalkEnd, JustifiedIf
      <3> QED BY <1>0, <2>1, <2>4, <3>1, KeptElse DEF StepKind, Returns
    <2>5. CASE c = Null
      BY <1>6, <2>1, <2>2, <2>4, <2>5 DEF EachScan
    <2>6. CASE c # Null
      <3> DEFINE q == next[c][0].ptr
                 W == visited[t] \cup Shown(c)
      <3>1. c \in Node /\ EachGo(t, q, W) /\ W \in SUBSET Node
        BY <1>6, <2>1, <2>6 DEF EachScan, NodePtr, Shown
      <3>2. Walked(t, q, W)
        BY <1>0, <2>1, <2>2, <2>3, <3>1, WalkOn
      <3> HIDE DEF W
      <3>3. CASE q = Null
        BY <2>4, <3>1, <3>2, <3>3 DEF EachGo
      <3>4. CASE q # Null
        <4>1. /\ pc'[t] = "w_scan" /\ UNCHANGED <<key, link, seen, outcome>>
              /\ \A u \in Thread : u # t => visited'[u] = visited[u]
          BY <1>0, <3>1, <3>4 DEF EachGo, Goto, TypeThread, history
        <4>2. Operation(t)' = "for_each" /\ ~Done(t)'
          BY <2>1, <4>1, OperationsNext DEF Done
        <4>3. Stays(t)
          <5>1. Operation(t)' = Operation(t)
            BY <2>2, <4>2
          <5>2. Done(t)' = Done(t)
            BY <2>1, <4>1 DEF Done
          <5> QED BY <2>1, <4>1, <5>1, <5>2 DEF Stays
        <4> QED BY <1>0, <2>1, <4>3, KeptElse DEF StepKind
      <3> QED BY <3>3, <3>4
    <2> QED BY <2>5, <2>6
  <1> QED BY <1>2, <1>3, <1>4, <1>5, <1>6

LEMMA StepHasKind == ASSUME MapInv, NEW t \in Thread, Step(t) PROVE StepKind(t)
  <1>1. CASE \E k \in Key, h \in Level, n \in Node : InsertBegin(t, k, h, n)
    BY <1>1, BeginKind
  <1>2. CASE \E k \in Key : EraseBegin(t, k) \/ FindBegin(t, k)
    BY <1>2, BeginKind
  <1> QED BY <1>1, <1>2, BeginKind, InsertSearchKind, InsertLinkKind, EraseKind, ReaderKind DEF Step
-----------------------------------------------------------------------------
\* What the step of t does to what another thread has seen: it may add the new binding of a key, and what
\* was seen stays seen.
LEMMA OthersSee ==
  ASSUME MapInv, NEW t \in Thread, StepKind(t), NEW u \in Thread, u # t, Others(t)
  PROVE  /\ Operation(u)' = Operation(u) /\ Done(u)' = Done(u) /\ visited'[u] = visited[u]
         /\ \A k \in Key : seen[u][k] \subseteq seen'[u][k] /\ (seen[u][k] = {} <=> seen'[u][k] = {})
         /\ \A k \in Key : seen[u][k] # {} => Binding(k)' \in seen'[u][k]
  <1>0. TypeThread /\ TypeHistory /\ SeenOK(u)
    BY MapFacts
  <1>1. Operation(u)' = Operation(u) /\ Done(u)' = Done(u)
    BY DEF Others, Operation, Done
  <1>2. visited'[u] = visited[u]
    <2>1. Stays(t) => visited'[u] = visited[u]
      BY DEF Stays
    <2>2. \A o : Returns(t, o) => visited'[u] = visited[u]
      BY <1>0 DEF Returns, Return, TypeThread
    <2>3. /\ \A v : Takes(t, v) => visited'[u] = visited[u]
          /\ \A op, k : Begins(t, op, k) => visited'[u] = visited[u]
      BY DEF Takes, Begins
    <2> QED BY <2>1, <2>2, <2>3 DEF StepKind
  <1>3. CASE Kept /\ seen'[u] = seen[u]
    BY <1>0, <1>1, <1>2, <1>3 DEF Kept, SeenOK
  <1>4. CASE \E v : Takes(t, v)
    <2>1. PICK v : Takes(t, v)
      BY <1>4
    <2>2. \A k \in Key : seen'[u][k] = IF k = key[t] /\ seen[u][k] # {} THEN seen[u][k] \cup {v} ELSE seen[u][k]
      BY <1>0, <2>1 DEF Takes, Observe
    <2>3. \A k \in Key : Binding(k)' = IF k = key[t] THEN v ELSE Binding(k)
      BY <2>1 DEF Takes, Binds
    <2>4. \A k \in Key : seen[u][k] # {} => Binding(k) \in seen[u][k]
      BY <1>0 DEF SeenOK
    <2> QED BY <1>1, <1>2, <2>2, <2>3, <2>4
  <1>5. \/ Kept /\ seen'[u] = seen[u]
        \/ \E v : Takes(t, v)
    BY <1>0 DEF StepKind, Begins, Stays, Returns, Return, Start, TypeHistory
  <1> QED BY <1>3, <1>4, <1>5

LEMMA SeenOther ==
  ASSUME MapInv, NEW t \in Thread, StepKind(t), NEW u \in Thread, u # t, Others(t)
  PROVE  SeenOK(u)'
  <1>0. SeenOK(u)
    BY MapFacts
  <1>1. pc'[u] = pc[u] /\ key'[u] = key[u]
    BY DEF Others
  <1>2. /\ Operation(u)' = Operation(u) /\ Done(u)' = Done(u)
        /\ \A k \in Key : seen[u][k] = {} <=> seen'[u][k] = {}
        /\ \A k \in Key : seen[u][k] # {} => Binding(k)' \in seen'[u][k]
    BY OthersSee
  <1>3. \A k \in Key : seen'[u][k] # {} => Binding(k)' \in seen'[u][k]
    BY <1>2
  <1>4. pc'[u] = "idle" => key'[u] = Null
    BY <1>0, <1>1 DEF SeenOK
  <1>5. Operation(u)' \in {"insert", "erase", "find"} /\ ~Done(u)' => key'[u] \in Key /\ seen'[u][key'[u]] # {}
    BY <1>0, <1>1, <1>2 DEF SeenOK
  <1>6. Operation(u)' = "for_each" => key'[u] = Null /\ \A k \in Key : seen'[u][k] # {}
    BY <1>0, <1>1, <1>2 DEF SeenOK
  <1> QED BY <1>3, <1>4, <1>5, <1>6 DEF SeenOK

LEMMA SeenOwn == ASSUME MapInv, NEW t \in Thread, StepKind(t) PROVE SeenOK(t)'
  <1>0. TypeThread /\ TypeHistory /\ SeenOK(t)
    BY MapFacts
  <1>1. ASSUME NEW op, NEW k, Begins(t, op, k), Kept PROVE SeenOK(t)'
    <2>1. /\ key'[t] = k /\ pc'[t] # "idle" /\ Operation(t)' = op
          /\ \A j \in Key : seen'[t][j] = IF k \in {j, Null} THEN {Binding(j)} ELSE {}
          /\ \/ op \in {"insert", "erase", "find"} /\ k \in Key
             \/ op = "for_each" /\ k = Null
      BY <1>0, <1>1 DEF Begins, Start, TypeThread, TypeHistory
    <2>2. \A j \in Key : Binding(j)' = Binding(j)
      BY <1>1 DEF Kept
    <2>3. \A j \in Key : seen'[t][j] # {} => Binding(j)' \in seen'[t][j]
      BY <2>1, <2>2
    <2>4. op = "for_each" => k = Null /\ \A j \in Key : seen'[t][j] # {}
      BY <2>1
    <2>5. op \in {"insert", "erase", "find"} => k \in Key /\ seen'[t][k] # {}
      BY <2>1
    <2> QED BY <2>1, <2>3, <2>4, <2>5 DEF SeenOK
  <1>2. ASSUME Stays(t), Kept PROVE SeenOK(t)'
    <2>1. /\ key' = key /\ seen' = seen /\ pc'[t] # "idle" /\ Operation(t)' = Operation(t) /\ Done(t)' = Done(t)
          /\ \A j \in Key : Binding(j)' = Binding(j)
      BY <1>2 DEF Stays, Kept
    <2> QED BY <1>0, <2>1 DEF SeenOK
  <1>3. ASSUME NEW o, Returns(t, o) PROVE SeenOK(t)'
    <2>1. /\ key'[t] = Null /\ pc'[t] = "idle" /\ \A j \in Key : seen'[t][j] = {}
      BY <1>0, <1>3 DEF Returns, Return, Goto, TypeThread, TypeHistory
    <2>2. Operation(t)' = "none"
      BY <2>1, OperationsNext
    <2> QED BY <2>1, <2>2 DEF SeenOK
  <1>4. ASSUME NEW v, Takes(t, v) PROVE SeenOK(t)'
    <2>1. \A j \in Key : seen'[t][j] = {}
      <3>1. Observe(t, key[t], v)
        BY <1>4 DEF Takes
      <3> QED BY <3>1 DEF Observe
    <2>2. pc'[t] # "idle" /\ Done(t)' /\ Operation(t)' = Operation(t)
      BY <1>4 DEF Takes
    <2>3. Operation(t) \in {"insert", "erase"}
      BY <1>4 DEF Takes
    <2> QED BY <2>1, <2>2, <2>3 DEF SeenOK
  <1> QED BY <1>1, <1>2, <1>3, <1>4 DEF StepKind

\* A node that becomes live by a step of another thread has a key that was free, so the reader has seen
\* that; any other live node stays ahead of the reader.
LEMMA NewlyLive ==
  ASSUME MapInv, NEW t \in Thread, Step(t), NEW u \in Thread, u # t, NEW m \in Live', m \notin Live,
         seen[u][nkey'[m]] # {}
  PROVE  Null \in seen[u][nkey'[m]] /\ nkey'[m] \in Key
  <1>0. ReachInv /\ IndInv /\ SeenOK(u) /\ InsertOK(t)
    BY MapFacts
  <1>1. InsertPublish(t) /\ Holds(preds[t][0], 0, To(succs[t][0])) /\ m = node[t]
    <2>1. Live' # Live /\ ~(Live' \subseteq Live)
      OBVIOUS
    <2>2. EraseClaim(t) /\ ~next[node[t]][0].mark => Live' \subseteq Live
      <3>1. EraseClaim(t) => nkey[node[t]] = key[t]
        BY MapFacts DEF LookOK, EraseClaim, VictimPc
      <3> QED BY <1>0, <3>1, BindingStep
    <2>3. InsertPublish(t) /\ Holds(preds[t][0], 0, To(succs[t][0]))
      BY <1>0, <2>1, <2>2, BindingStep
    <2> QED BY <1>0, <2>3, BindingStep
  <1>2. nkey'[m] = key[t]
    BY <1>0, <1>1 DEF InsertPublish, InsertPc, InsertOK
  <1> QED BY <1>0, <1>1, <1>2, KeyIsFree DEF SeenOK

LEMMA SightOther ==
  ASSUME MapInv, NEW t \in Thread, Step(t), StepKind(t), NEW u \in Thread, u # t, Others(t),
         key[u] \in Key, seen[u][key[u]] # {}, NEW c, c \in Public \/ c = Null, Sight(u, c)
  PROVE  Sight(u, c)'
  <1>0. ReachInv /\ IndInv /\ TypeMemory /\ key'[u] = key[u]
    BY MapFacts DEF Others
  <1>1. CASE Null \in seen[u][key[u]]
    BY <1>0, <1>1, OthersSee DEF Sight
  <1>2. CASE Null \notin seen[u][key[u]]
    <2> SUFFICES ASSUME NEW m \in Live', nkey'[m] = key[u] PROVE c # Null /\ m \in From(c)'
      BY <1>0 DEF Sight
    <2>1. m \in Live
      BY <1>2, NewlyLive
    <2>2. nkey[m] = key[u]
      BY <1>0, <2>1, BindingStep
    <2>3. c # Null /\ m \in From(c)
      BY <1>2, <2>1, <2>2 DEF Sight
    <2>4. Level0Step
      BY <1>0, StepLevel0 DEF ReachInv
    <2> QED BY <1>0, <2>1, <2>3, <2>4, FromStable
  <1> QED BY <1>1, <1>2

\* What another thread looks for stays in sight.
LEMMA LookOther ==
  ASSUME MapInv, NEW t \in Thread, Step(t), StepKind(t), NEW u \in Thread, u # t, Others(t), Keeps(t)
  PROVE  LookOK(u)'
  <1>0. /\ ReachInv /\ IndInv /\ SeenOK(u) /\ LookOK(u) /\ LocalOK(u) /\ SearchOK(u) /\ TypeMemory
        /\ pc'[u] = pc[u] /\ key'[u] = key[u] /\ cur'[u] = cur[u] /\ node'[u] = node[u]
    BY MapFacts DEF Others
  <1>1. \A n \in Node : status[n] = "linked" => nkey'[n] = nkey[n] /\ status'[n] = "linked"
    BY DEF Keeps, Same
  <1>2. ASSUME pc[u] \in {"e_level", "e_scan", "f_level", "f_scan", "f_check", "e_mark", "e_claim"}
        PROVE  key[u] \in Key /\ seen[u][key[u]] # {}
    <2>1. pc[u] \in ErasePc \cup FindPc /\ link[u] = 0
      BY <1>2, MapFacts DEF ErasePc, FindPc, FreshOK, InsertPc
    <2>2. Operation(u) \in {"erase", "find"} /\ ~Done(u)
      BY <1>2, <2>1, Operations DEF Done
    <2> QED BY <1>0, <2>2 DEF SeenOK
  <1>3. ASSUME NEW p \in Pred, pc'[u] \in {"e_level", "e_scan", "f_level", "f_scan"}, cur'[u].pred = p
        PROVE  Ahead(u, p)'
    <2>1. Under(p, key[u]) /\ Sight(u, p)
      BY <1>0, <1>3 DEF LookOK, Ahead
    <2>2. p \in Public
      BY <2>1 DEF Under, Public, Pred
    <2>3. Sight(u, p)'
      BY <1>0, <1>2, <1>3, <2>1, <2>2, SightOther
    <2>4. p = HeadNode \/ (status'[p] = "linked" /\ nkey'[p] < key'[u])
      BY <1>0, <1>1, <2>1 DEF Under, Pred
    <2> QED BY <2>3, <2>4 DEF Ahead, Under
  <1>4. ASSUME NEW c \in NodePtr, pc'[u] \in {"e_scan", "f_scan"}, cur'[u].lvl = 0, cur'[u].curr.ptr = c
        PROVE  Sight(u, c)'
    <2>1. c \in Public /\ Sight(u, c)
      BY <1>0, <1>4 DEF LookOK, LocalOK, SearchOK, Public
    <2> QED BY <1>0, <1>2, <1>4, <2>1, SightOther
  <1>5. ASSUME NEW c \in NodePtr, pc'[u] = "f_check", cur'[u].curr.ptr = c
        PROVE  nkey'[c] = key'[u]
    BY <1>0, <1>1, <1>5 DEF LookOK, LocalOK, SearchOK, Keyed
  <1>6. ASSUME pc'[u] \in VictimPc PROVE nkey'[node'[u]] = key'[u]
    <2>1. node[u] \in Node /\ status[node[u]] = "linked" /\ nkey[node[u]] = key[u]
      BY <1>0, <1>6, Facts DEF LocalOK, EraseOK, LookOK
    <2> QED BY <1>0, <1>1, <2>1
  <1>7. ASSUME pc'[u] \in {"e_mark", "e_claim"}, node'[u] \notin Live' PROVE Null \in seen'[u][key'[u]]
    <2>1. key[u] \in Key /\ seen[u][key[u]] # {} /\ nkey[node[u]] = key[u]
      BY <1>0, <1>2, <1>7 DEF LookOK, VictimPc
    <2>2. CASE node[u] \notin Live
      BY <1>0, <1>7, <2>1, <2>2, OthersSee DEF LookOK
    <2>3. CASE node[u] \in Live
      <3>1. Bound /\ Binding(key[u]) = node[u] /\ node[u] # Null
        BY <1>0, <2>1, <2>3, BindingStep, NullAssumption DEF Bound, Live
      <3>2. Live' # Live /\ ~(Live \subseteq Live')
        BY <1>0, <1>7, <2>3
      <3>3. EraseClaim(t) => nkey[node[t]] = key[t]
        BY MapFacts DEF LookOK, EraseClaim, VictimPc
      <3>4. EraseClaim(t) /\ ~next[node[t]][0].mark /\ Binds(key[t], Null) /\ Live' = Live \ {node[t]}
        BY <1>0, <3>2, <3>3, BindingStep
      <3>5. key[u] = key[t]
        BY <1>0, <1>7, <2>1, <2>3, <3>3, <3>4
      <3>6. \A k : k = key[u] => Binding(k)' = Null
        BY <2>1, <3>4, <3>5 DEF Binds
      <3> QED BY <1>0, <2>1, <3>6, OthersSee
    <2> QED BY <2>2, <2>3
  <1> QED BY <1>3, <1>4, <1>5, <1>6, <1>7 DEF LookOK, Keyed

LEMMA WalkOther ==
  ASSUME MapInv, NEW t \in Thread, Step(t), StepKind(t), NEW u \in Thread, u # t, Others(t), Keeps(t)
  PROVE  WalkOK(u)'
  <1>0. /\ ReachInv /\ IndInv /\ SeenOK(u) /\ WalkOK(u) /\ TypeMemory
        /\ pc'[u] = pc[u] /\ cur'[u] = cur[u] /\ visited'[u] = visited[u]
        /\ \A k \in Key : seen[u][k] \subseteq seen'[u][k] /\ (seen[u][k] = {} <=> seen'[u][k] = {})
    BY MapFacts, OthersSee DEF Others
  <1>1. \A n \in Node : status[n] = "linked" => nkey'[n] = nkey[n] /\ status'[n] = "linked"
    BY DEF Keeps, Same
  <1>2. ASSUME NEW c \in NodePtr, NEW V \in SUBSET Node, pc'[u] = "w_scan", cur'[u].curr.ptr = c, visited'[u] = V
        PROVE  Walked(u, c, V)'
    <2>1. Walked(u, c, V) /\ Operation(u) = "for_each"
      BY <1>0, <1>2, Operations DEF WalkOK
    <2>2. \A k \in Key : seen[u][k] # {}
      BY <1>0, <2>1 DEF SeenOK
    <2>3. c = Null \/ (c \in Node /\ status'[c] = "linked" /\ nkey'[c] = nkey[c] /\ c \in Public)
      BY <1>1, <2>1 DEF Walked, Public
    <2>4. \A v \in V : /\ status'[v] = "linked" /\ nkey'[v] = nkey[v]
                       /\ v \in seen'[u][nkey'[v]] /\ (c = Null \/ nkey'[v] < nkey'[c])
      <3> SUFFICES ASSUME NEW v \in V
                   PROVE  /\ status'[v] = "linked" /\ nkey'[v] = nkey[v]
                          /\ v \in seen'[u][nkey'[v]] /\ (c = Null \/ nkey'[v] < nkey'[c])
        OBVIOUS
      <3>1. v \in Node /\ status[v] = "linked" /\ v \in seen[u][nkey[v]] /\ (c = Null \/ nkey[v] < nkey[c])
        BY <2>1 DEF Walked
      <3>2. nkey[v] \in Key /\ nkey'[v] = nkey[v] /\ status'[v] = "linked"
        BY <1>0, <1>1, <3>1 DEF TypeMemory
      <3>3. v \in seen'[u][nkey[v]]
        BY <1>0, <3>1, <3>2
      <3> QED BY <2>3, <3>1, <3>2, <3>3
    <2>5. \A v, w \in V : nkey'[v] = nkey'[w] => v = w
      BY <2>1, <2>4 DEF Walked
    <2>6. ASSUME NEW m \in Live' PROVE m \in V \/ Null \in seen'[u][nkey'[m]] \/ (c # Null /\ m \in From(c)')
      <3>1. CASE m \notin Live
        <4>1. m \in Node /\ nkey'[m] \in Key
          <5>1. Live' \subseteq Node
            BY DEF Live
          <5>2. IndInv'
            BY <1>0, BindingStep DEF ReachInv
          <5> QED BY <5>1, <5>2 DEF IndInv, TypeOK, TypeMemory
        <4> QED BY <1>0, <2>2, <3>1, <4>1, NewlyLive
      <3>2. CASE m \in Live
        <4>1. m \in V \/ Null \in seen[u][nkey[m]] \/ (c # Null /\ m \in From(c))
          BY <2>1, <3>2 DEF Walked
        <4>2. nkey[m] \in Key /\ nkey'[m] = nkey[m]
          BY <1>0, <1>1, <3>2 DEF Live, TypeMemory
        <4>3. Level0Step
          BY <1>0, StepLevel0 DEF ReachInv
        <4>4. c # Null /\ m \in From(c) => m \in From(c)'
          BY <1>0, <2>3, <3>2, <4>3, FromStable
        <4> QED BY <1>0, <4>1, <4>2, <4>4
      <3> QED BY <3>1, <3>2
    <2> QED BY <2>3, <2>4, <2>5, <2>6 DEF Walked
  <1>3. pc'[u] # "w_scan" => visited'[u] = {}
    BY <1>0 DEF WalkOK
  <1> QED BY <1>2, <1>3 DEF WalkOK

\* The steps of the thread itself: a search that reads memory moves what it has in sight along.
LEMMA SightSame ==
  ASSUME UNCHANGED <<memory, key, seen>>, NEW t, NEW c
  PROVE  (Sight(t, c)' <=> Sight(t, c)) /\ (Ahead(t, c)' <=> Ahead(t, c))
  <1>1. UNCHANGED <<next, nkey, status>>
    BY DEF memory, nodeInfo
  <1>2. Live' = Live /\ From(c)' = From(c)
    BY <1>1 DEF Live, From, Closed
  <1>3. Sight(t, c)' <=> Sight(t, c)
    BY <1>1, <1>2 DEF Sight
  <1> QED BY <1>1, <1>3 DEF Ahead, Under

LEMMA LookMoves ==
  ASSUME NEW t \in Thread, UNCHANGED <<memory, key, seen>>, pc'[t] \in {"e_level", "e_scan", "f_level", "f_scan"},
         NEW p, cur'[t].pred = p, Ahead(t, p),
         NEW c, cur'[t].curr.ptr = c, pc'[t] \in {"e_scan", "f_scan"} /\ cur'[t].lvl = 0 => Sight(t, c)
  PROVE  LookOK(t)'
  <1>1. Ahead(t, p)' /\ (pc'[t] \in {"e_scan", "f_scan"} /\ cur'[t].lvl = 0 => Sight(t, c)')
    BY SightSame
  <1> QED BY <1>1 DEF LookOK, VictimPc

LEMMA LookEnters ==
  ASSUME ReachInv', NEW t \in Thread, pc'[t] \in {"e_level", "f_level"}, cur'[t].pred = HeadNode
  PROVE  LookOK(t)'
  <1>1. \A p \in Pred : p = HeadNode => Ahead(t, p)'
    BY NullAssumption DEF ReachInv, Joined, Ahead, Under, Sight
  <1> QED BY <1>1 DEF LookOK, VictimPc

LEMMA LookRests ==
  ASSUME NEW t \in Thread, pc'[t] \notin {"e_level", "e_scan", "f_level", "f_scan", "f_check"} \cup VictimPc
  PROVE  LookOK(t)'
  BY DEF LookOK, VictimPc

LEMMA LookErase ==
  ASSUME MapInv, NEW t \in Thread, Step(t)
  PROVE  /\ EraseLevel(t) => LookOK(t)'
         /\ EraseScan(t) => LookOK(t)'
         /\ EraseMark(t) => LookOK(t)'
         /\ EraseClaim(t) => LookOK(t)'
         /\ EraseUnlink(t) => LookOK(t)'
         /\ EraseRetire(t) => LookOK(t)'
         /\ EraseCount(t) => LookOK(t)'
  <1> DEFINE i == cur[t].lvl
             c == cur[t].curr.ptr
  <1>0. /\ ReachInv /\ ReachInv' /\ IndInv /\ TypeThread /\ TypeMemory /\ LookOK(t) /\ LocalOK(t) /\ i \in Level
        /\ cur[t].pred \in Pred /\ cur[t] \in Cursor /\ \A n \in Live : nkey'[n] = nkey[n]
    BY MapFacts, BindingStep DEF TypeThread
  <1>1. UNCHANGED shared => UNCHANGED memory /\ UNCHANGED <<nkey, nheight, next, status>>
    BY DEF shared, memory, nodeInfo
  <1>2. ASSUME NEW o, Return(t, o) PROVE LookOK(t)'
    <2>1. pc'[t] = "idle"
      BY <1>0, <1>2 DEF Return, Goto, TypeThread
    <2> QED BY <2>1, LookRests DEF VictimPc
  <1>3. ASSUME NEW p, NEW s \in NodePtr, EraseLevelDone(t, p, s), UNCHANGED shared, Ahead(t, p),
               pc[t] \in {"e_level", "e_scan"}, s # Null /\ i = 0 /\ ~After(s, key[t]) /\ ~Before(s, key[t]) => s \in Live,
               key[t] \in Int
        PROVE  LookOK(t)'
    <2>1. CASE i > 0
      <3>1. Goto(t, "e_level") /\ Enter(t, i - 1, p) /\ UNCHANGED <<args, history>>
        BY <1>3, <2>1 DEF EraseLevelDone
      <3>2. pc'[t] = "e_level" /\ cur'[t].pred = p /\ UNCHANGED <<key, seen>>
        BY <1>0, <3>1 DEF Goto, Enter, Scan, TypeThread, args, history
      <3> QED BY <1>1, <1>3, <3>2, LookMoves
    <2>2. CASE ~(i > 0) /\ s # Null /\ ~After(s, key[t]) /\ ~Before(s, key[t])
      <3>1. s \in Node /\ nkey[s] \in Int /\ i = 0
        BY <1>0, <1>3, <2>2, KeyAssumption, LevelFacts DEF TypeMemory, NodePtr
      <3>2. nkey[s] = key[t] /\ s \in Live
        BY <1>3, <2>2, <3>1 DEF After, Before
      <3>3. pc'[t] \in {"e_mark", "e_claim"} /\ node'[t] = s /\ UNCHANGED <<key, seen>>
        BY <1>0, <1>3, <2>2 DEF EraseLevelDone, Goto, TypeThread, history
      <3>4. Live' = Live
        BY <1>0, <1>3, KeptElse
      <3>5. nkey'[node'[t]] = key'[t] /\ node'[t] \in Live'
        BY <1>0, <3>2, <3>3, <3>4
      <3> QED BY <3>3, <3>5 DEF LookOK, VictimPc
    <2>3. CASE ~(i > 0) /\ ~(s # Null /\ ~After(s, key[t]) /\ ~Before(s, key[t]))
      BY <1>2, <1>3, <2>3 DEF EraseLevelDone
    <2> QED BY <2>1, <2>2, <2>3
  <1>4. CASE EraseLevel(t)
    <2> DEFINE p == cur[t].pred
               q == next[p][i]
    <2>1. /\ pc[t] = "e_level" /\ key[t] \in Int /\ Ahead(t, p) /\ UNCHANGED shared /\ (i = 0 => Sight(t, q.ptr))
      BY <1>4, EntryFacts DEF EraseLevel
    <2>2. CASE q.ptr = Null
      BY <1>3, <1>4, <2>1, <2>2 DEF EraseLevel, NodePtr
    <2>3. CASE q.ptr # Null
      <3>1. /\ pc'[t] = "e_scan" /\ cur'[t].pred = p /\ cur'[t].curr.ptr = q.ptr /\ cur'[t].lvl = i
            /\ UNCHANGED <<key, seen>>
        BY <1>0, <1>4, <2>3 DEF EraseLevel, Goto, Scan, To, TypeThread, args, history
      <3> QED BY <1>1, <2>1, <3>1, LookMoves
    <2> QED BY <2>2, <2>3
  <1>5. CASE EraseScan(t)
    <2> DEFINE succ == next[c][i]
               passed == IF succ.mark THEN cur[t].pred ELSE c
    <2>1. /\ pc[t] = "e_scan" /\ UNCHANGED shared
          /\ c \in Node /\ c \in NodePtr /\ key[t] \in Int /\ Ahead(t, cur[t].pred)
          /\ ~succ.mark => c \in Live
          /\ ~succ.mark /\ Before(c, key[t]) => Ahead(t, c)
          /\ i = 0 /\ (succ.mark \/ Before(c, key[t])) => Sight(t, succ.ptr)
      BY <1>5, ReaderFacts DEF EraseScan, NodePtr
    <2>2. CASE ~succ.mark /\ ~Before(c, key[t])
      <3>1. EraseLevelDone(t, cur[t].pred, c)
        BY <1>5, <2>2 DEF EraseScan
      <3> QED BY <1>3, <2>1, <2>2, <3>1
    <2>3. CASE (succ.mark \/ Before(c, key[t])) /\ succ.ptr = Null
      <3>1. EraseLevelDone(t, passed, Null) /\ Ahead(t, passed)
        BY <1>5, <2>1, <2>3 DEF EraseScan
      <3> HIDE DEF passed
      <3> QED BY <1>3, <2>1, <3>1 DEF NodePtr
    <2>4. CASE (succ.mark \/ Before(c, key[t])) /\ succ.ptr # Null
      <3>1. Ahead(t, passed)
        BY <2>1, <2>4
      <3>2. /\ pc'[t] = "e_scan" /\ cur'[t].pred = passed /\ cur'[t].curr.ptr = succ.ptr /\ cur'[t].lvl = i
            /\ UNCHANGED <<key, seen>>
        BY <1>0, <1>5, <2>1, <2>4, SMTT(30) DEF EraseScan, Scan, To, TypeThread, args, history
      <3> HIDE DEF passed
      <3> QED BY <1>1, <2>1, <2>4, <3>1, <3>2, LookMoves
    <2> QED BY <2>2, <2>3, <2>4
  <1>6. ASSUME pc[t] \in VictimPc, pc'[t] \in VictimPc, UNCHANGED <<key, node>>,
               pc'[t] \in {"e_mark", "e_claim"} => Live' = Live /\ UNCHANGED seen /\ pc[t] \in {"e_mark", "e_claim"}
        PROVE  LookOK(t)'
    <2>1. node[t] \in Node /\ status[node[t]] = "linked" /\ nkey[node[t]] = key[t]
      BY <1>0, <1>6, Facts DEF LocalOK, EraseOK, LookOK
    <2>2. nkey'[node[t]] = nkey[node[t]]
      BY <1>0, <2>1, StepFine DEF Fine, Steady, Keeps, Same
    <2>3. nkey'[node'[t]] = key'[t]
      BY <1>6, <2>1, <2>2
    <2>4. pc'[t] \in {"e_mark", "e_claim"} /\ node'[t] \notin Live' => Null \in seen'[t][key'[t]]
      BY <1>0, <1>6 DEF LookOK
    <2> QED BY <1>6, <2>3, <2>4 DEF LookOK, VictimPc
  <1>7. CASE EraseMark(t)
    <2>1. pc[t] = "e_mark" /\ pc'[t] \in {"e_mark", "e_claim"} /\ UNCHANGED <<key, node, seen>>
      BY <1>0, <1>7 DEF EraseMark, Goto, TypeThread, args, history
    <2>2. Live' = Live
      BY <1>0, <2>1, KeptElse
    <2> QED BY <1>6, <2>1, <2>2 DEF VictimPc
  <1>8. CASE EraseClaim(t)
    <2>1. pc[t] = "e_claim"
      BY <1>8 DEF EraseClaim
    <2>2. (\E o : Return(t, o)) \/ (pc'[t] = "e_unlink" /\ UNCHANGED <<key, node>>)
      BY <1>0, <1>8 DEF EraseClaim, Goto, TypeThread, args
    <2> QED BY <1>2, <1>6, <2>1, <2>2 DEF VictimPc
  <1>9. CASE EraseUnlink(t) \/ EraseRetire(t)
    <2>1. /\ pc[t] \in {"e_unlink", "e_retire"} /\ pc'[t] \in {"e_unlink", "e_retire", "e_count"}
          /\ UNCHANGED <<key, node>>
      BY <1>0, <1>9 DEF EraseUnlink, EraseRetire, Goto, TypeThread, args
    <2> QED BY <1>6, <2>1 DEF VictimPc
  <1>10. CASE EraseCount(t)
    BY <1>2, <1>10 DEF EraseCount
  <1> QED BY <1>4, <1>5, <1>7, <1>8, <1>9, <1>10

LEMMA LookFind ==
  ASSUME MapInv, NEW t \in Thread, Step(t)
  PROVE  /\ FindTop(t) => LookOK(t)'
         /\ FindLevel(t) => LookOK(t)'
         /\ FindScan(t) => LookOK(t)'
         /\ FindCheck(t) => LookOK(t)'
  <1> DEFINE i == cur[t].lvl
             c == cur[t].curr.ptr
  <1>0. /\ ReachInv /\ ReachInv' /\ IndInv /\ TypeThread /\ TypeMemory /\ LookOK(t) /\ LocalOK(t) /\ i \in Level
        /\ cur[t].pred \in Pred
    BY MapFacts, BindingStep
  <1>1. UNCHANGED shared => UNCHANGED memory /\ UNCHANGED <<nkey, next>>
    BY DEF shared, memory, nodeInfo
  <1>2. ASSUME NEW o, Return(t, o) PROVE LookOK(t)'
    <2>1. pc'[t] = "idle"
      BY <1>0, <1>2 DEF Return, Goto, TypeThread
    <2> QED BY <2>1, LookRests DEF VictimPc
  <1>3. ASSUME NEW p, FindLevelDone(t, p), UNCHANGED shared, Ahead(t, p) PROVE LookOK(t)'
    <2>1. CASE i > 0
      <3>1. Goto(t, "f_level") /\ Enter(t, i - 1, p) /\ UNCHANGED <<args, history>>
        BY <1>3, <2>1 DEF FindLevelDone
      <3>2. pc'[t] = "f_level" /\ cur'[t].pred = p /\ UNCHANGED <<key, seen>>
        BY <1>0, <3>1 DEF Goto, Enter, Scan, TypeThread, args, history
      <3> QED BY <1>1, <1>3, <3>2, LookMoves
    <2>2. CASE ~(i > 0)
      BY <1>2, <1>3, <2>2 DEF FindLevelDone
    <2> QED BY <2>1, <2>2
  <1>4. ASSUME pc'[t] = "f_top" PROVE LookOK(t)'
    BY <1>4, LookRests DEF VictimPc
  <1>5. CASE FindTop(t)
    <2>1. pc'[t] = "f_level" /\ cur'[t].pred = HeadNode
      BY <1>0, <1>5 DEF FindTop, Goto, Enter, Scan, TypeThread
    <2> QED BY <1>0, <2>1, LookEnters
  <1>6. CASE FindLevel(t)
    <2> DEFINE p == cur[t].pred
               q == next[p][i]
    <2>1. pc[t] = "f_level" /\ Ahead(t, p) /\ UNCHANGED shared /\ (i = 0 => Sight(t, q.ptr))
      BY <1>6, EntryFacts DEF FindLevel
    <2>2. CASE q.ptr = Null
      BY <1>3, <1>6, <2>1, <2>2 DEF FindLevel
    <2>3. CASE q.ptr # Null /\ q.mark
      BY <1>0, <1>4, <1>6, <2>3 DEF FindLevel, Goto, TypeThread
    <2>4. CASE q.ptr # Null /\ ~q.mark
      <3>1. Goto(t, "f_scan") /\ Scan(t, i, p, q) /\ UNCHANGED <<args, history>>
        BY <1>6, <2>4 DEF FindLevel
      <3>2. /\ pc'[t] = "f_scan" /\ cur'[t].pred = p /\ cur'[t].curr.ptr = q.ptr /\ cur'[t].lvl = i
            /\ UNCHANGED <<key, seen>>
        BY <1>0, <3>1 DEF Goto, Scan, TypeThread, args, history
      <3> QED BY <1>1, <2>1, <3>2, LookMoves
    <2> QED BY <2>2, <2>3, <2>4
  <1>7. CASE FindScan(t)
    <2> DEFINE succ == next[c][i]
               passed == IF succ.mark THEN cur[t].pred ELSE c
    <2>1. /\ pc[t] = "f_scan" /\ UNCHANGED shared
          /\ c \in Node /\ key[t] \in Int /\ nkey[c] \in Int /\ Ahead(t, cur[t].pred)
          /\ ~succ.mark /\ Before(c, key[t]) => Ahead(t, c)
          /\ i = 0 /\ (succ.mark \/ Before(c, key[t])) => Sight(t, succ.ptr)
      BY <1>7, ReaderFacts DEF FindScan
    <2>2. CASE ~succ.mark /\ After(c, key[t])
      BY <1>3, <1>7, <2>1, <2>2 DEF FindScan
    <2>3. CASE ~succ.mark /\ ~After(c, key[t]) /\ ~Before(c, key[t])
      <3>1. pc'[t] = "f_check" /\ UNCHANGED <<cur, key, nkey>>
        BY <1>0, <1>1, <1>7, <2>1, <2>3 DEF FindScan, Goto, TypeThread, args
      <3>2. nkey[c] = key[t]
        <4> HIDE DEF c
        <4> QED BY <2>1, <2>3 DEF After, Before
      <3>3. \A d \in NodePtr : d = cur'[t].curr.ptr => nkey'[d] = key'[t]
        BY <3>1, <3>2
      <3> QED BY <3>1, <3>3 DEF LookOK, Keyed, VictimPc
    <2>4. CASE (succ.mark \/ (~After(c, key[t]) /\ Before(c, key[t]))) /\ succ.ptr = Null
      <3>1. FindLevelDone(t, passed) /\ Ahead(t, passed)
        BY <1>7, <2>1, <2>4 DEF FindScan
      <3> HIDE DEF passed
      <3> QED BY <1>3, <2>1, <3>1
    <2>5. CASE (succ.mark \/ (~After(c, key[t]) /\ Before(c, key[t]))) /\ succ.ptr # Null
      <3>1. Ahead(t, passed)
        BY <2>1, <2>5
      <3>2. /\ pc'[t] = "f_scan" /\ cur'[t].pred = passed /\ cur'[t].curr.ptr = succ.ptr /\ cur'[t].lvl = i
            /\ UNCHANGED <<key, seen>>
        BY <1>0, <1>7, <2>1, <2>5, SMTT(30) DEF FindScan, Scan, To, TypeThread, args, history
      <3> HIDE DEF passed
      <3> QED BY <1>1, <2>1, <2>5, <3>1, <3>2, LookMoves
    <2> QED BY <2>2, <2>3, <2>4, <2>5
  <1>8. CASE FindCheck(t)
    BY <1>0, <1>2, <1>4, <1>8 DEF FindCheck, Goto, TypeThread
  <1> QED BY <1>5, <1>6, <1>7, <1>8

LEMMA LookOwn == ASSUME MapInv, NEW t \in Thread, Step(t) PROVE LookOK(t)'
  <1>0. ReachInv' /\ TypeThread
    BY MapFacts, BindingStep
  <1>1. ASSUME pc'[t] \in {"idle", "w_scan"} \cup InsertPc PROVE LookOK(t)'
    BY <1>1, LookRests DEF InsertPc, VictimPc
  <1>2. ASSUME NEW o, Return(t, o) PROVE LookOK(t)'
    BY <1>0, <1>1, <1>2 DEF Return, Goto, TypeThread
  <1>3. CASE \E k \in Key, h \in Level, n \in Node : InsertBegin(t, k, h, n)
    BY <1>0, <1>1, <1>3 DEF InsertBegin, Goto, TypeThread, InsertPc
  <1>4. CASE \E k \in Key : EraseBegin(t, k) \/ FindBegin(t, k)
    <2>1. pc'[t] \in {"e_level", "f_level"} /\ cur'[t].pred = HeadNode
      BY <1>0, <1>4 DEF EraseBegin, FindBegin, Goto, Enter, Scan, TypeThread
    <2> QED BY <1>0, <2>1, LookEnters
  <1>5. CASE EachBegin(t) \/ EachScan(t)
    BY <1>0, <1>1, <1>2, <1>5 DEF EachBegin, EachScan, EachGo, Goto, TypeThread
  <1>6. CASE InsertTop(t) \/ InsertLevel(t) \/ InsertLive(t) \/ InsertSplice(t)
    BY <1>0, <1>1, <1>6
       DEF InsertTop, InsertLevel, InsertLive, InsertSplice, InsertLevelDone, InsertRetry, Goto, TypeThread, InsertPc
  <1>7. CASE InsertScan(t)
    BY <1>0, <1>1, <1>2, <1>7 DEF InsertScan, InsertLevelDone, InsertRetry, Goto, TypeThread, InsertPc
  <1>8. CASE InsertPublish(t) \/ InsertCheck(t) \/ InsertLink(t) \/ InsertRelink(t) \/ InsertCount(t)
    BY <1>0, <1>1, <1>2, <1>8
       DEF InsertPublish, InsertCheck, InsertLink, InsertRelink, InsertCount, Goto, TypeThread, InsertPc
  <1> QED BY <1>3, <1>4, <1>5, <1>6, <1>7, <1>8, LookErase, LookFind DEF Step

\* Only for_each is at w_scan.
LEMMA NoOtherWalk ==
  ASSUME TypeThread, NEW t \in Thread, Step(t), ~EachBegin(t), ~EachScan(t)
  PROVE  pc[t] # "w_scan" /\ pc'[t] # "w_scan"
  <1>1. ASSUME NEW o, Return(t, o) PROVE pc'[t] = "idle"
    BY <1>1 DEF Return, Goto, TypeThread
  <1>2. CASE \E k \in Key, h \in Level, n \in Node : InsertBegin(t, k, h, n)
    BY <1>2 DEF InsertBegin, Start, Goto, TypeThread
  <1>3. CASE \E k \in Key : EraseBegin(t, k) \/ FindBegin(t, k)
    BY <1>3 DEF EraseBegin, FindBegin, Start, Goto, TypeThread
  <1>4. CASE InsertTop(t) \/ InsertLevel(t) \/ InsertLive(t) \/ InsertSplice(t)
    BY <1>4 DEF InsertTop, InsertLevel, InsertLive, InsertSplice, InsertLevelDone, InsertRetry, Goto, TypeThread
  <1>5. CASE InsertScan(t)
    BY <1>1, <1>5 DEF InsertScan, InsertLevelDone, InsertRetry, Goto, TypeThread
  <1>6. CASE InsertPublish(t) \/ InsertCheck(t) \/ InsertLink(t) \/ InsertRelink(t) \/ InsertCount(t)
    BY <1>1, <1>6 DEF InsertPublish, InsertCheck, InsertLink, InsertRelink, InsertCount, Goto, TypeThread
  <1>7. CASE EraseLevel(t) \/ EraseScan(t)
    BY <1>1, <1>7 DEF EraseLevel, EraseScan, EraseLevelDone, Goto, TypeThread
  <1>8. CASE EraseMark(t) \/ EraseClaim(t) \/ EraseUnlink(t) \/ EraseRetire(t) \/ EraseCount(t)
    BY <1>1, <1>8 DEF EraseMark, EraseClaim, EraseUnlink, EraseRetire, EraseCount, Goto, TypeThread
  <1>9. CASE FindTop(t) \/ FindLevel(t) \/ FindScan(t) \/ FindCheck(t)
    BY <1>1, <1>9 DEF FindTop, FindLevel, FindScan, FindCheck, FindLevelDone, Goto, TypeThread
  <1> QED BY <1>2, <1>3, <1>4, <1>5, <1>6, <1>7, <1>8, <1>9 DEF Step

\* for_each moves on by one node; the other calls visit nothing.
LEMMA WalkOwn == ASSUME MapInv, NEW t \in Thread, Step(t), StepKind(t), SeenOK(t)' PROVE WalkOK(t)'
  <1> DEFINE c == cur[t].curr.ptr
  <1>0. /\ ReachInv /\ ReachInv' /\ IndInv /\ TypeThread /\ SeenOK(t) /\ WalkOK(t) /\ c \in NodePtr
        /\ visited[t] \in SUBSET Node
    BY MapFacts, BindingStep DEF TypeThread
  <1>1. CASE EachBegin(t)
    <2>1. /\ pc'[t] = "w_scan" /\ visited'[t] = {} /\ UNCHANGED shared
          /\ cur'[t].curr.ptr = next[HeadNode][0].ptr
      BY <1>0, <1>1 DEF EachBegin, Start, Goto, Scan, To, TypeThread, WalkOK
    <2>2. UNCHANGED <<next, status, nkey>>
      BY <2>1 DEF shared, memory, nodeInfo
    <2>3. Walked(t, next[HeadNode][0].ptr, {})
      BY <1>0, WalkStart
    <2>4. \A d : d = next[HeadNode][0].ptr => Walked(t, d, {})'
      <3> SUFFICES ASSUME NEW d, d = next[HeadNode][0].ptr PROVE Walked(t, d, {})'
        OBVIOUS
      <3>1. (d = Null \/ (d \in Node /\ status[d] = "linked")) /\ \A m \in Live : d # Null /\ m \in From(d)
        <4>1. IndInv /\ HeadNode \in Pred /\ \A m \in Live : m \in From(HeadNode) /\ m # HeadNode
          BY <1>0, PublicFacts DEF ReachInv, Joined
        <4> QED BY <2>3, <4>1, FromNext DEF Walked
      <3>2. Live' = Live /\ From(d)' = From(d)
        BY <2>2 DEF Live, From, Closed
      <3> QED BY <2>2, <3>1, <3>2 DEF Walked
    <2> QED BY <2>1, <2>4 DEF WalkOK
  <1>2. CASE EachScan(t)
    <2>1. pc[t] = "w_scan" /\ UNCHANGED shared /\ Walked(t, c, visited[t])
      BY <1>0, <1>2 DEF EachScan, WalkOK
    <2>2. UNCHANGED <<next, status, nkey>>
      BY <2>1 DEF shared, memory, nodeInfo
    <2>3. \A k \in Key : seen[t][k] # {}
      BY <1>0, <2>1, Operations DEF SeenOK
    <2>4. CASE pc'[t] # "w_scan"
      <3>1. \E o : Return(t, o)
        BY <1>0, <1>2, <2>4 DEF EachScan, EachGo, Goto, TypeThread
      <3>2. visited'[t] = {}
        BY <1>0, <3>1 DEF Return, TypeThread
      <3> QED BY <2>4, <3>2 DEF WalkOK
    <2>5. CASE pc'[t] = "w_scan"
      <3> DEFINE q == next[c][0].ptr
                 W == visited[t] \cup Shown(c)
      <3>1. c # Null /\ q # Null /\ EachGo(t, q, W)
        <4>1. ~\E o : Return(t, o)
          BY <1>0, <2>5 DEF Return, Goto, TypeThread
        <4> QED BY <1>2, <4>1 DEF EachScan, EachGo
      <3>2. c \in Node /\ W \in SUBSET Node
        BY <1>0, <3>1 DEF NodePtr, Shown
      <3>3. Walked(t, q, W)
        BY <1>0, <2>1, <2>3, <3>2, WalkOn
      <3> HIDE DEF W, q
      <3>4. visited'[t] = W /\ cur'[t].curr.ptr = q /\ UNCHANGED seen
        BY <1>0, <3>1 DEF EachGo, Scan, To, TypeThread, history
      <3>5. ASSUME NEW d, NEW V, d = q, V = W PROVE Walked(t, d, V)'
        <4>1. Live' = Live /\ From(d)' = From(d)
          BY <2>2 DEF Live, From, Closed
        <4>2. Walked(t, d, V)
          BY <3>3, <3>5
        <4> QED BY <2>2, <3>4, <4>1, <4>2 DEF Walked
      <3> QED BY <2>5, <3>4, <3>5 DEF WalkOK
    <2> QED BY <2>4, <2>5
  <1>3. CASE ~EachBegin(t) /\ ~EachScan(t)
    <2>1. pc[t] # "w_scan" /\ pc'[t] # "w_scan"
      BY <1>0, <1>3, NoOtherWalk
    <2>2. visited'[t] = {}
      <3>1. visited[t] = {}
        BY <1>0, <2>1 DEF WalkOK
      <3>2. \A o : Returns(t, o) => visited'[t] = {}
        BY <1>0 DEF Returns, Return, TypeThread
      <3>3. /\ Stays(t) => visited' = visited
            /\ \A v : Takes(t, v) => visited' = visited
            /\ \A op, k : Begins(t, op, k) => visited' = visited
        BY <2>1 DEF Stays, Takes, Begins
      <3> QED BY <3>1, <3>2, <3>3 DEF StepKind
    <2> QED BY <2>1, <2>2 DEF WalkOK
  <1> QED BY <1>1, <1>2, <1>3
-----------------------------------------------------------------------------
\* MapInv holds throughout.
LEMMA InitMap == ASSUME Init PROVE MapInv
  <1>1. ReachInv /\ HeightInv
    BY InitReach, InitHeight
  <1>2. ASSUME NEW t \in Thread PROVE SeenOK(t) /\ LookOK(t) /\ WalkOK(t)
    <2>1. /\ pc[t] = "idle" /\ key[t] = Null /\ visited[t] = {} /\ \A k \in Key : seen[t][k] = {}
      BY DEF Init
    <2>2. Operation(t) = "none"
      BY <2>1, Operations
    <2> QED BY <2>1, <2>2 DEF SeenOK, LookOK, WalkOK, VictimPc
  <1> QED BY <1>1, <1>2 DEF MapInv

LEMMA QuietMap ==
  ASSUME MapInv, [Next]_vars, Destroy \/ UNCHANGED vars
  PROVE  /\ \A t \in Thread : SeenOK(t)' /\ LookOK(t)' /\ WalkOK(t)'
         /\ UNCHANGED <<pc, key, link, seen, outcome>> /\ Kept
  <1>1. UNCHANGED <<next, nkey, status, pc, key, node, cur, link, visited, seen, outcome>> /\ UNCHANGED memory
    BY DEF Destroy, vars, memory, nodeInfo, args, arrays, history
  <1>2. Live' = Live /\ \A c : From(c)' = From(c)
    BY <1>1 DEF Live, From, Closed
  <1>3. Kept
    BY <1>1, <1>2, SameBindings DEF MapInv
  <1>4. ASSUME NEW t \in Thread PROVE SeenOK(t)' /\ LookOK(t)' /\ WalkOK(t)'
    <2>1. SeenOK(t) /\ LookOK(t) /\ WalkOK(t)
      BY DEF MapInv
    <2>2. Operation(t)' = Operation(t) /\ Done(t)' = Done(t)
      BY <1>1 DEF Operation, Done
    <2>3. SeenOK(t)'
      BY <1>1, <1>3, <2>1, <2>2 DEF SeenOK, Kept
    <2>4. \A c : (Sight(t, c)' <=> Sight(t, c)) /\ (Ahead(t, c)' <=> Ahead(t, c))
      BY <1>1, SightSame
    <2>5. LookOK(t)'
      BY <1>1, <1>2, <2>1, <2>4 DEF LookOK, Keyed
    <2>6. \A c, V : Walked(t, c, V)' <=> Walked(t, c, V)
      BY <1>1, <1>2 DEF Walked
    <2>7. WalkOK(t)'
      BY <1>1, <2>1, <2>6 DEF WalkOK
    <2> QED BY <2>3, <2>5, <2>7
  <1> QED BY <1>1, <1>3, <1>4

LEMMA NextMap == ASSUME MapInv, [Next]_vars PROVE MapInv'
  <1>0. ReachInv /\ IndInv /\ HeightInv
    BY DEF MapInv, ReachInv
  <1>1. ReachInv' /\ HeightInv'
    BY <1>0, NextReach, NextHeight
  <1>2. ASSUME NEW t \in Thread, Step(t), NEW u \in Thread PROVE SeenOK(u)' /\ LookOK(u)' /\ WalkOK(u)'
    <2>1. StepKind(t) /\ Others(t) /\ Keeps(t)
      BY <1>0, <1>2, StepHasKind, StepFine DEF Fine, Steady
    <2>2. SeenOK(u)'
      BY <1>2, <2>1, SeenOwn, SeenOther
    <2>3. LookOK(u)'
      BY <1>2, <2>1, LookOwn, LookOther
    <2>4. WalkOK(u)'
      BY <1>2, <2>1, <2>2, WalkOwn, WalkOther
    <2> QED BY <2>2, <2>3, <2>4
  <1>3. CASE Destroy \/ UNCHANGED vars
    BY <1>1, <1>3, QuietMap DEF MapInv
  <1> QED BY <1>1, <1>2, <1>3 DEF Next, MapInv

\* Throughout a call its failed outcomes that were true stay seen, a find that has met a node with its key
\* has seen what it will report, and a for_each has seen each key it has reported or passed over.
THEOREM MapInvariance == Spec => []MapInv
  <1>1. Init => MapInv
    BY InitMap
  <1>2. MapInv /\ [Next]_vars => MapInv'
    BY NextMap
  <1> QED BY <1>1, <1>2, PTL DEF Spec
-----------------------------------------------------------------------------
\* The refinement.  A step of t changes the call of t only.
Pending(t) == [op |-> Operation(t), key |-> key[t], done |-> Done(t)]

LEMMA CallsOfOthers ==
  ASSUME NEW t \in Thread, Others(t), NEW c, Pending(t)' = c
  PROVE  [u \in Thread |-> Pending(u)]' = [[u \in Thread |-> Pending(u)] EXCEPT ![t] = c]
  <1>1. ASSUME NEW u \in Thread, u # t PROVE Pending(u)' = Pending(u)
    <2>1. Operation(u)' = Operation(u) /\ Done(u)' = Done(u) /\ key'[u] = key[u]
      BY <1>1 DEF Others, Operation, Done
    <2> QED BY <2>1 DEF Pending
  <1> QED BY <1>1

LEMMA ContentKept == ASSUME Kept PROVE [k \in Key |-> Binding(k)]' = [k \in Key |-> Binding(k)]
  BY DEF Kept

LEMMA BeginsInvokes ==
  ASSUME MapInv, NEW t \in Thread, Others(t), NEW op, NEW k, Begins(t, op, k), Kept
  PROVE  Map!Next
  <1>0. TypeThread /\ TypeHistory /\ SeenOK(t) /\ FreshOK(t) /\ pc[t] = "idle"
    BY MapFacts DEF Begins, Start
  <1>1. Pending(t) = [op |-> "none", key |-> Null, done |-> FALSE]
    <2>1. Operation(t) = "none" /\ key[t] = Null
      BY <1>0, Operations DEF SeenOK
    <2>2. Done(t) = FALSE
      BY <1>0 DEF Done, FreshOK, InsertPc
    <2> QED BY <2>1, <2>2 DEF Pending
  <1>2. Pending(t)' = [op |-> op, key |-> k, done |-> FALSE]
    <2>1. Operation(t)' = op /\ key'[t] = k
      BY <1>0 DEF Begins, Start, TypeThread
    <2>2. Done(t)' = FALSE
      BY DEF Begins, Done
    <2> QED BY <2>1, <2>2 DEF Pending
  <1>3. seen' = [seen EXCEPT ![t] = [j \in Key |-> IF j \in Map!Concern(op, k) THEN {Binding(j)} ELSE {}]]
    <2>1. \A j \in Key : k \in {j, Null} <=> j \in Map!Concern(op, k)
      BY NullAssumption DEF Begins, Map!Concern
    <2> QED BY <2>1 DEF Begins, Start
  <1>4. outcome' = [outcome EXCEPT ![t] = Outcome("none", {})]
    BY DEF Begins, Start, NoOutcome
  <1>5. Map!Invoke(t, op, k)
    BY <1>1, <1>2, <1>3, <1>4, CallsOfOthers, ContentKept DEF Map!Invoke, Map!NoCall, Map!Outcome, Outcome, Pending
  <1> QED BY <1>5 DEF Map!Next, Begins

LEMMA StaysStutters ==
  ASSUME MapInv, NEW t \in Thread, Others(t), Stays(t), Kept
  PROVE  UNCHANGED Map!mapVars
  <1>1. UNCHANGED <<seen, outcome>> /\ Pending(t)' = Pending(t)
    BY DEF Stays, Pending
  <1>2. [u \in Thread |-> Pending(u)]' = [u \in Thread |-> Pending(u)]
    BY <1>1, CallsOfOthers
  <1> QED BY <1>1, <1>2, ContentKept DEF Map!mapVars, Pending

LEMMA WithDone ==
  ASSUME NEW r, NEW a, NEW b, NEW c, NEW d, r = [op |-> a, key |-> b, done |-> c]
  PROVE  [r EXCEPT !.done = d] = [op |-> a, key |-> b, done |-> d]
  OBVIOUS

LEMMA TakesBinds ==
  ASSUME MapInv, NEW t \in Thread, Others(t), NEW v, Takes(t, v)
  PROVE  Map!Next
  <1> DEFINE content == [k \in Key |-> Binding(k)]
             call == [u \in Thread |-> Pending(u)]
  <1>1. key[t] \in Key /\ key'[t] = key[t] /\ Operation(t)' = Operation(t) /\ ~Done(t)
    BY DEF Takes
  <1>2. Done(t)' = TRUE /\ Done(t) = FALSE
    BY DEF Takes, Done
  <1>3. call' = [call EXCEPT ![t].done = TRUE]
    <2>1. Pending(t)' = [op |-> Operation(t), key |-> key[t], done |-> TRUE]
      BY <1>1, <1>2 DEF Pending
    <2>2. call' = [call EXCEPT ![t] = [op |-> Operation(t), key |-> key[t], done |-> TRUE]]
      BY <2>1, CallsOfOthers
    <2>3. call[t] = [op |-> Operation(t), key |-> key[t], done |-> FALSE]
      BY <1>2 DEF Pending
    <2>4. PICK d : d = TRUE
      OBVIOUS
    <2> HIDE DEF call
    <2>5. [call[t] EXCEPT !.done = d] = [op |-> Operation(t), key |-> key[t], done |-> d]
      BY <2>3, WithDone
    <2>6. [call EXCEPT ![t] = [call[t] EXCEPT !.done = d]] = [call EXCEPT ![t].done = d]
      OBVIOUS
    <2> QED BY <2>2, <2>4, <2>5, <2>6
  <1>4. content' = [content EXCEPT ![key[t]] = v]
    <2>1. \A j \in Key : Binding(j)' = IF j = key[t] THEN v ELSE Binding(j)
      BY DEF Takes, Binds
    <2> QED BY <2>1
  <1>5. call[t].key = key[t] /\ call[t].op = Operation(t) /\ call[t].done = FALSE /\ content[key[t]] = Binding(key[t])
    BY <1>1, <1>2 DEF Pending
  <1>6. Map!Bind(t, key[t], v)
    <2>1. UNCHANGED outcome /\ Observe(t, key[t], v)
      BY DEF Takes
    <2> QED BY <1>3, <1>4, <2>1 DEF Map!Bind, Observe, Pending
  <1>7. CASE Operation(t) = "insert"
    <2>1. v \in Node /\ Binding(key[t]) = Null
      BY <1>7 DEF Takes
    <2>2. Map!Insert(t)
      BY <1>5, <1>6, <1>7, <2>1 DEF Map!Insert, Pending
    <2> QED BY <2>2 DEF Map!Next
  <1>8. CASE Operation(t) = "erase"
    <2>1. v = Null /\ Binding(key[t]) # Null
      BY <1>8 DEF Takes
    <2>2. Map!Erase(t)
      BY <1>5, <1>6, <1>8, <2>1 DEF Map!Erase, Pending
    <2> QED BY <2>2 DEF Map!Next
  <1> QED BY <1>7, <1>8 DEF Takes

\* An outcome that is justified is one of the outcomes of the map.
LEMMA OutcomeKnown ==
  ASSUME NEW t \in Thread, NEW o \in OutcomeType, Map!Justified(t, o)
  PROVE  o \in Map!Outcomes
  <1> USE DEF Map!Outcomes, Map!Outcome
  <1>1. CASE o.kind = "visited"
    <2>1. o = [kind |-> "visited", nodes |-> o.nodes] /\ o.nodes \in SUBSET Node
      BY <1>1 DEF OutcomeType
    <2> QED BY <2>1
  <1>2. CASE o.kind # "visited"
    BY <1>2 DEF Map!Justified
  <1> QED BY <1>1, <1>2

LEMMA ReturnsReturns ==
  ASSUME MapInv, MapInv', NEW t \in Thread, Others(t), NEW o, Returns(t, o), Kept
  PROVE  Map!Next
  <1>0. TypeThread /\ TypeHistory /\ pc[t] # "idle" /\ Return(t, o) /\ Map!Justified(t, o)
    BY MapFacts DEF Returns
  <1>1. outcome' = [outcome EXCEPT ![t] = o] /\ seen' = [seen EXCEPT ![t] = [j \in Key |-> {}]]
    BY <1>0 DEF Return
  <1>2. o \in OutcomeType
    <2>1. TypeHistory'
      BY DEF MapInv, ReachInv, IndInv, TypeOK
    <2> QED BY <1>0, <1>1, <2>1 DEF TypeHistory
  <1>3. Pending(t) # [op |-> "none", key |-> Null, done |-> FALSE]
    <2>1. Operation(t) # "none"
      BY <1>0 DEF Operation
    <2> QED BY <2>1 DEF Pending
  <1>4. Pending(t)' = [op |-> "none", key |-> Null, done |-> FALSE]
    <2>1. pc'[t] = "idle" /\ key'[t] = Null /\ link'[t] = 0
      BY <1>0 DEF Return, Goto, TypeThread
    <2>2. Operation(t)' = "none"
      BY <2>1, OperationsNext
    <2>3. Done(t)' = FALSE
      BY <2>1 DEF Done
    <2> QED BY <2>1, <2>2, <2>3 DEF Pending
  <1>5. Map!Return(t, o)
    BY <1>0, <1>1, <1>3, <1>4, CallsOfOthers, ContentKept DEF Map!Return, Map!NoCall, Pending
  <1>6. o \in Map!Outcomes
    BY <1>0, <1>2, OutcomeKnown
  <1> QED BY <1>5, <1>6 DEF Map!Next

LEMMA MapStep == ASSUME MapInv, [Next]_vars PROVE Map!Next \/ UNCHANGED Map!mapVars
  <1>0. MapInv' /\ IndInv
    BY NextMap DEF MapInv, ReachInv
  <1>1. ASSUME NEW t \in Thread, Step(t) PROVE Map!Next \/ UNCHANGED Map!mapVars
    <2>1. StepKind(t) /\ Others(t)
      BY <1>0, <1>1, StepHasKind, StepFine
    <2> QED BY <1>0, <2>1, BeginsInvokes, StaysStutters, TakesBinds, ReturnsReturns DEF StepKind
  <1>2. CASE Destroy \/ UNCHANGED vars
    <2>1. UNCHANGED <<pc, key, link, seen, outcome>> /\ Kept
      BY <1>2, QuietMap
    <2>2. \A t \in Thread : Pending(t)' = Pending(t)
      BY <2>1 DEF Pending, Operation, Done
    <2> QED BY <2>1, <2>2, ContentKept DEF Map!mapVars, Pending
  <1> QED BY <1>1, <1>2 DEF Next

LEMMA MapInit == ASSUME Init PROVE Map!Init
  <1>1. ASSUME NEW t \in Thread PROVE Pending(t) = [op |-> "none", key |-> Null, done |-> FALSE]
    <2>1. pc[t] = "idle" /\ key[t] = Null /\ link[t] = 0
      BY DEF Init
    <2>2. Operation(t) = "none"
      BY <2>1, Operations
    <2>3. Done(t) = FALSE
      BY <2>1 DEF Done
    <2> QED BY <2>1, <2>2, <2>3 DEF Pending
  <1>2. \A k \in Key : Binding(k) = Null
    BY DEF Init, Live, Binding
  <1> QED BY <1>1, <1>2 DEF Init, Map!Init, Map!NoCall, Map!Outcome, NoOutcome, Outcome, Pending

\* Every step of the list, of any thread and in any interleaving, is a step of the concurrent map or none:
\* no insert replaces a binding, no erase of a node that another thread erased reports success, and no find,
\* failed insert, failed erase or for_each reports what was true at no instant of its call.
THEOREM StepsAreOfMap == Spec => StepsOfMap
  <1>1. MapInv /\ [Next]_vars => [Map!Next]_Map!mapVars
    BY MapStep
  <1> QED BY <1>1, MapInvariance, PTL DEF Spec, StepsOfMap

\* The lock-free skiplist implements the concurrent map: insert, erase, find and contains are linearizable.
THEOREM ListImplementsMap == Spec => ImplementsMap
  <1>1. Init => Map!Init
    BY MapInit
  <1> QED BY <1>1, StepsAreOfMap, PTL DEF Spec, StepsOfMap, ImplementsMap, Map!Spec
=============================================================================
