--------------------- MODULE LinkedListSingleton_proofs ---------------------
(***************************************************************************)
(* Theorems about LinkedListSingleton: transactions and operations called  *)
(* outside transactions, on one list, for any number of threads, nodes,    *)
(* keys and tasks and any mix of the two.                                  *)
(*                                                                         *)
(* Types and the clock hold as they are.  Locks, the stability of nodes    *)
(* and the order of the list do not, for every mix: three stores of the    *)
(* code act on a value that was read or compared before.  Lemmas say what  *)
(* such a store has to find (first section); the theorems are about the    *)
(* ways to use the list in which it finds that always.                     *)
(***************************************************************************)
EXTENDS LinkedListTX_proofs, LinkedListSingleton

-----------------------------------------------------------------------------
(* What the code does not check *)

(* setSingleton(false) on a node TXend has not locked (TX.h:124), and the  *)
(* stamp of a node that is linked and not locked (LinkedList.h:241), load  *)
(* a word, change it and store it: they find the word they loaded, as a    *)
(* compare-and-swap would make sure.                                       *)
StoresLikeCAS ==
  \A t \in Threads :
    /\ setSingletonStore(t) => \A n \in todo[t] : word[t] = m_version_mask[n]
    /\ SStoreWord(t) => word[t] = m_version_mask[node[t]]

(* Besides, a new node is stamped before another thread has locked it: the *)
(* version was taken before the word was loaded, so that no comparison of  *)
(* words can tell.                                                         *)
StampsFresh ==
  \A t \in Threads : SStoreWord(t) => m_version_mask[node[t]] = FreshWord

(* find_node_singelton compares next and then moves to pred->m_next        *)
(* (LinkedList.h:167): the node it gets is still before the key to put.    *)
MovesBefore ==
  \A t \in Threads :
    SMove(t) /\ task[t].op = "put" /\ m_next[pred[t]] # Null
      => Before(m_next[pred[t]], task[t].key)

-----------------------------------------------------------------------------
(* The inductive invariant, layer by layer *)

NodeLabels == {"sChkVal", "sPutVal", "sSetSng", "sVerPut", "sSetVer", "sUnlockVal"}
PredLabels == {"sChkIns", "sLink", "sVerIns", "sLoad", "sStore", "sUnlockIns",
               "sChkRem", "sLockDel", "sUnlockPred"}
BothLabels == {"sClear", "sUnlink", "sVerRem", "sStampDel", "sStampPred", "sUnlockDel"}

HasNode == NodeLabels \cup {"sVerIns", "sLoad", "sStore", "sUnlockIns", "sIndex"}
HasNext == BothLabels \cup {"sUnlockPred", "sUnindex"}

(* What a singleton operation is about to dereference is not null.         *)
SRefs ==
  \A t \in Threads :
    /\ node[t] \in Ref
    /\ pc[t] \in HasNode => node[t] # Null
    /\ pc[t] \in HasNext \cup {"sStep", "sSame", "sMove"} => next[t] # Null

STypeInv ==
  /\ TypeInv
  /\ \A t \in Threads : pc[t] \in Labels \cup SLabels
  /\ node \in [Threads -> NodeOrNull]
  /\ ret \in [Threads -> ValOrNone]
  /\ SRefs

(* Nobody has a version ahead of the clock, loaded words included.         *)
SClockInv ==
  /\ ClockBound
  /\ \A t \in Threads : writeVersion[t] <= gvc /\ word[t].ver <= gvc

(* Which nodes a thread has locked, from where it is.                      *)
TxHolds(t) ==
  /\ pc[t] \in Validating \cup {"loadSng", "storeSng", "write", "stamp"}
       => WriteNodes(t) \subseteq lockedLNodes[t]
  /\ pc[t] \in {"write", "stamp"} => todo[t] \subseteq WriteNodes(t)
  /\ pc[t] = "stamp" => pred[t] \in WriteNodes(t)

LockLabels == Validating \cup {"lock", "loadSng", "storeSng", "write", "stamp", "release"}

SHolds(t) ==
  /\ TxHolds(t)
  /\ pc[t] \in NodeLabels => lockedLNodes[t] = {node[t]}
  /\ pc[t] \in PredLabels => lockedLNodes[t] = {pred[t]}
  /\ pc[t] \in BothLabels => lockedLNodes[t] = {pred[t], next[t]} /\ pred[t] # next[t]
  /\ pc[t] \notin LockLabels \cup NodeLabels \cup PredLabels \cup BothLabels
       => lockedLNodes[t] = {}

SLockInv == LockOwnership /\ \A t \in Threads : SHolds(t)

(* The version a thread is going to stamp its nodes with is no older than  *)
(* theirs.                                                                 *)
StampLabels == {"write", "stamp", "sSetVer", "sStampDel", "sStampPred"}

SStampInv ==
  \A t \in Threads :
    pc[t] \in StampLabels => \A n \in lockedLNodes[t] : getVersion(n) <= writeVersion[t]

(* What a put outside a transaction knows about the place it looks for.    *)
PutLabels == {"sPred", "sRead", "sAgain", "sLoop", "sHit", "sStep", "sSame", "sMove", "sNext",
              "sFound", "sMiss", "sChkIns", "sLink"}

PutOrdered(t) ==
  /\ pc[t] \in PutLabels /\ task[t].op = "put" => Before(pred[t], task[t].key)
  /\ pc[t] \in {"sMiss", "sChkIns", "sLink"} /\ next[t] # Null => task[t].key < m_key[next[t]]
  /\ pc[t] = "sLink" => m_next[pred[t]] = next[t] /\ task[t].op = "put"
  /\ pc[t] = "sChkIns" => task[t].op = "put"

SOrderInv == OrderInv /\ \A t \in Threads : PutOrdered(t)

-----------------------------------------------------------------------------
(* Frames: what a step of one thread leaves alone *)

(* A step of a transaction changes no local variable of another thread and *)
(* takes no node back.                                                     *)
LEMMA StepFrame ==
  ASSUME TypeInv, NEW t \in Threads, TXStep(t)
  PROVE  /\ allocated \subseteq allocated'
         /\ \A u \in Threads \ {t} :
              /\ task'[u] = task[u] /\ pred'[u] = pred[u] /\ next'[u] = next[u] /\ prev'[u] = prev[u]
              /\ writeSet'[u] = writeSet[u] /\ lockedLNodes'[u] = lockedLNodes[u]
              /\ todo'[u] = todo[u] /\ word'[u] = word[u]
              /\ readVersion'[u] = readVersion[u] /\ writeVersion'[u] = writeVersion[u]
<1>0. /\ task \in [Threads -> Task \cup {NoTask}] /\ pred \in [Threads -> AllNodes]
      /\ next \in [Threads -> NodeOrNull] /\ prev \in [Threads -> NodeOrNull]
      /\ writeSet \in [Threads -> [AllNodes -> Element]]
      /\ lockedLNodes \in [Threads -> SUBSET AllNodes] /\ todo \in [Threads -> SUBSET AllNodes]
      /\ word \in [Threads -> Word] /\ readVersion \in [Threads -> Nat]
      /\ writeVersion \in [Threads -> Nat]
  BY DEF TypeInv, MemoryTypeOK, LocalsTypeOK, OpTypeOK, StoreTypeOK, EndTypeOK
<1> USE <1>0 DEF lnodeVars, nodeVars, opVars, storeVars, versVars, endVars
<1>1. CASE AbortOp(t) BY <1>1 DEF AbortOp, ClearStorage, ForgetOp
<1>2. CASE \/ TXbegin(t) \/ Call(t) \/ SearchPred(t) \/ SkipDeleted(t) \/ Advance(t) \/ RemoveFound(t)
  BY <1>2 DEF TXbegin, Call, SearchPred, SkipDeleted, Advance, RemoveFound
<1>3. CASE CheckVersion(t) \/ CheckSingleton(t) \/ IncrementAndAbort(t) \/ ReadNext(t)
  BY <1>1, <1>3 DEF CheckVersion, CheckSingleton, IncrementAndAbort, ReadNext
<1>4. CASE PutFound(t) \/ Get(t) \/ RemoveAbsent(t)
  BY <1>4 DEF PutFound, Get, RemoveAbsent, Return, ForgetOp
<1>5. CASE PutNew(t) \/ RemoveFinish(t)
  BY <1>5 DEF PutNew, RemoveFinish, Return, ForgetOp
<1>6. CASE LockNode(t) \/ LockedAll(t) \/ setSingletonLoad(t) \/ setSingletonStore(t)
  BY <1>6 DEF LockNode, LockedAll, setSingletonLoad, setSingletonStore
<1>6a. CASE ValidateStep(t) BY <1>6a, ValidateFrame
<1>7. CASE ValidatedReadOnly(t) \/ TakeVersion(t) \/ WriteNode(t) \/ StampNode(t) \/ WroteAll(t)
  BY <1>7 DEF ValidatedReadOnly, TakeVersion, WriteNode, StampNode, WroteAll
<1>8. CASE ReleaseNode(t) \/ AbortEnd(t) \/ UpdateIndex(t) \/ AddToIndex(t)
  BY <1>8 DEF ReleaseNode, AbortEnd, UpdateIndex, AddToIndex, ClearStorage
<1>9. CASE RemoveFromIndex(t) \/ Commit(t)
  BY <1>9 DEF RemoveFromIndex, Commit, ClearStorage
<1> QED
  BY <1>2, <1>3, <1>4, <1>5, <1>6, <1>6a, <1>7, <1>8, <1>9 DEF TXStep, OpStep, EndStep, ValidateStep

(* The same of a step outside a transaction, which leaves the storage of   *)
(* its own thread's transactions alone as well.                            *)
LEMMA SingletonFrame ==
  ASSUME STypeInv, NEW t \in Threads, SingletonStep(t)
  PROVE  /\ allocated \subseteq allocated'
         /\ UNCHANGED <<gvc, storeVars, readVersion, readOnly, todo, abort>>
         /\ pc[t] \in SLabels \cup {"idle"} /\ pc'[t] \in SLabels \cup {"idle"}
         /\ pc' = [u \in Threads |-> pc'[u]]
         /\ prev'[t] \in {prev[t], Null}
         /\ \A u \in Threads \ {t} :
              /\ pc'[u] = pc[u] /\ node'[u] = node[u]
              /\ task'[u] = task[u] /\ pred'[u] = pred[u] /\ next'[u] = next[u] /\ prev'[u] = prev[u]
              /\ lockedLNodes'[u] = lockedLNodes[u] /\ word'[u] = word[u]
              /\ writeVersion'[u] = writeVersion[u]
<1>0. /\ task \in [Threads -> Task \cup {NoTask}] /\ pred \in [Threads -> AllNodes]
      /\ next \in [Threads -> NodeOrNull] /\ prev \in [Threads -> NodeOrNull]
      /\ lockedLNodes \in [Threads -> SUBSET AllNodes]
      /\ word \in [Threads -> Word] /\ writeVersion \in [Threads -> Nat]
      /\ node \in [Threads -> NodeOrNull] /\ pc = [u \in Threads |-> pc[u]]
  BY DEF STypeInv, TypeInv, MemoryTypeOK, LocalsTypeOK, OpTypeOK, StoreTypeOK, EndTypeOK
<1> USE <1>0 DEF lnodeVars, nodeVars, opVars, storeVars, versVars, endVars, sVars, findVars, keepVars,
                 Goto, Retry, SLabels, txVars
<1>1. ASSUME NEW r, SReturn(t, r), pc[t] \in SLabels
      PROVE  /\ allocated \subseteq allocated'
             /\ UNCHANGED <<gvc, storeVars, readVersion, readOnly, todo, abort>>
             /\ pc[t] \in SLabels \cup {"idle"} /\ pc'[t] \in SLabels \cup {"idle"}
             /\ pc' = [u \in Threads |-> pc'[u]]
             /\ prev'[t] \in {prev[t], Null}
             /\ \A u \in Threads \ {t} :
                  /\ pc'[u] = pc[u] /\ node'[u] = node[u]
                  /\ task'[u] = task[u] /\ pred'[u] = pred[u] /\ next'[u] = next[u] /\ prev'[u] = prev[u]
                  /\ lockedLNodes'[u] = lockedLNodes[u] /\ word'[u] = word[u]
                  /\ writeVersion'[u] = writeVersion[u]
  BY <1>1 DEF SReturn, ForgetOp
<1>2. CASE CallSingleton(t) BY <1>2 DEF CallSingleton
<1>3. CASE SFind(t) \/ SStepBack(t) \/ SReadNext(t) \/ SCheckPred(t) \/ SCompare(t)
  BY <1>3 DEF SFind, SStepBack, SReadNext, SCheckPred, SCompare
<1>4. CASE SHit(t) \/ SStep(t) \/ SSame(t) \/ SMove(t) \/ SNext(t)
  BY <1>4 DEF SHit, SStep, SSame, SMove, SNext
<1>5. CASE SGet(t) \/ SMiss(t) \/ SPutReturn(t) \/ SInsIndex(t) \/ SRemReturn(t)
  BY <1>1, <1>5 DEF SGet, SMiss, SPutReturn, SInsIndex, SRemReturn, Crash
<1>6. CASE LoadClock(t) BY <1>6 DEF LoadClock
<1>7. CASE SPutRead(t) \/ SPutLock(t) \/ SPutCheck(t) \/ SPutVal(t)
  BY <1>7 DEF SPutRead, SPutLock, SPutCheck, SPutVal, Crash, TryLock, Release
<1>8. CASE SSetSingleton(t) \/ SSetVersion(t) \/ SPutUnlock(t)
  BY <1>8 DEF SSetSingleton, SSetVersion, SPutUnlock, Stamp, Release
<1>9. CASE SInsLock(t) \/ SInsCheck(t) \/ SLink(t) \/ SLoadWord(t) \/ SStoreWord(t) \/ SInsUnlock(t)
  BY <1>9 DEF SInsLock, SInsCheck, SLink, SLoadWord, SStoreWord, SInsUnlock, TryLock, Release
<1>10. CASE SRemLock(t) \/ SRemCheck(t) \/ SRemLockVictim(t) \/ SRemClear(t) \/ SRemUnlink(t)
  BY <1>10 DEF SRemLock, SRemCheck, SRemLockVictim, SRemClear, SRemUnlink, TryLock, Release, Crash
<1>11. CASE SRemStampVictim(t) \/ SRemStampPred(t) \/ SRemUnlockVictim(t) \/ SRemUnlockPred(t)
  BY <1>11 DEF SRemStampVictim, SRemStampPred, SRemUnlockVictim, SRemUnlockPred, Stamp, Release
<1> QED
  BY <1>2, <1>3, <1>4, <1>5, <1>6, <1>7, <1>8, <1>9, <1>10, <1>11
  DEF SingletonStep, SFindStep, SPutStep, SRemoveStep

-----------------------------------------------------------------------------
(* Types and references *)

(* A step outside a transaction has to answer for the heap and for its own *)
(* thread's locals.                                                        *)
LEMMA SingletonTypes ==
  ASSUME STypeInv, NEW t \in Threads, SingletonStep(t),
         LNodeTypeOK', HeapRefs', OpTypeOK',
         writeVersion' \in [Threads -> Nat], lockedLNodes' \in [Threads -> SUBSET AllNodes],
         word' \in [Threads -> Word], consumed' \in [Threads -> Nat],
         node' \in [Threads -> NodeOrNull], ret' \in [Threads -> ValOrNone],
         \A u \in Threads : consumed'[u] <= Len(Tasks[u]),
         \A u \in Threads \ {t} : consumed'[u] = consumed[u],
         pred'[t] \in allocated', next'[t] \in Ref', node'[t] \in Ref',
         pc'[t] \in HasNode => node'[t] # Null,
         pc'[t] \in HasNext \cup {"sStep", "sSame", "sMove"} => next'[t] # Null
  PROVE  STypeInv'
<1> USE DEF STypeInv, TypeInv, MemoryTypeOK, LocalsTypeOK
<1>1. StoreTypeOK' /\ EndTypeOK'
  BY SingletonFrame DEF storeVars, StoreTypeOK, EndTypeOK
<1>2. StoreRefs' /\ \A u \in Threads : todo'[u] \subseteq allocated'
  BY SingletonFrame DEF storeVars, RefsAllocated, StoreRefs, Ref
<1>a. /\ allocated \subseteq allocated' /\ prev'[t] \in {prev[t], Null}
      /\ \A u \in Threads \ {t} : /\ pc'[u] = pc[u] /\ node'[u] = node[u] /\ pred'[u] = pred[u]
                                 /\ next'[u] = next[u] /\ prev'[u] = prev[u]
  BY SingletonFrame
<1>3. OpRefs'
  <2>1. \A u \in Threads : pred[u] \in allocated /\ next[u] \in Ref /\ prev[u] \in Ref
    BY DEF RefsAllocated, OpRefs
  <2> QED BY <1>a, <2>1 DEF OpRefs, Ref
<1>4. TasksLeft'
  BY SingletonFrame DEF TasksLeft, SLabels
<1>5. SRefs'
  <2>1. \A u \in Threads : /\ node[u] \in Ref
                           /\ pc[u] \in HasNode => node[u] # Null
                           /\ pc[u] \in HasNext \cup {"sStep", "sSame", "sMove"} => next[u] # Null
    BY DEF SRefs
  <2> QED BY <1>a, <2>1 DEF SRefs, Ref
<1>6. \A u \in Threads : pc'[u] \in Labels \cup SLabels
  BY SingletonFrame DEF Labels
<1> QED BY <1>1, <1>2, <1>3, <1>4, <1>5, <1>6, SingletonFrame DEF RefsAllocated

(* The facts about types that the cases below use.                         *)
LEMMA SingletonFacts ==
  ASSUME STypeInv
  PROVE  /\ m_key \in [AllNodes -> Nat] /\ m_val \in [AllNodes -> ValOrNone]
         /\ m_next \in [AllNodes -> NodeOrNull] /\ m_version_mask \in [AllNodes -> Word]
         /\ gvc \in Nat /\ allocated \subseteq AllNodes
         /\ pc = [u \in Threads |-> pc[u]]
         /\ task \in [Threads -> Task \cup {NoTask}] /\ pred \in [Threads -> AllNodes]
         /\ next \in [Threads -> NodeOrNull] /\ prev \in [Threads -> NodeOrNull]
         /\ writeVersion \in [Threads -> Nat] /\ lockedLNodes \in [Threads -> SUBSET AllNodes]
         /\ word \in [Threads -> Word] /\ consumed \in [Threads -> Nat]
         /\ node \in [Threads -> NodeOrNull] /\ ret \in [Threads -> ValOrNone]
         /\ head \in allocated /\ Null \notin AllNodes
         /\ \A n \in AllNodes : m_next[n] \in Ref
         /\ \A u \in Threads : /\ consumed[u] <= Len(Tasks[u])
                               /\ pred[u] \in allocated /\ next[u] \in Ref /\ node[u] \in Ref
                               /\ task[u].key \in Nat /\ task[u].val \in ValOrNone
BY TaskFields, NodesAssumption
DEF STypeInv, TypeInv, MemoryTypeOK, LNodeTypeOK, LocalsTypeOK, OpTypeOK, EndTypeOK, TasksLeft,
    RefsAllocated, HeapRefs, OpRefs, SRefs

(* A step that leaves the nodes alone keeps the heap well-typed.           *)
LEMMA SameHeap ==
  ASSUME STypeInv, UNCHANGED <<nodeVars, m_version_mask, gvc>>, crashed' \in Faults,
         index' \subseteq allocated, retired' \subseteq allocated
  PROVE  LNodeTypeOK' /\ HeapRefs'
BY DEF nodeVars, STypeInv, TypeInv, MemoryTypeOK, LNodeTypeOK, RefsAllocated, HeapRefs, Ref

(* The steps of find_node_singelton.                                       *)
LEMMA FindTypes ==
  ASSUME STypeInv, NEW t \in Threads, SingletonStep(t), UNCHANGED findVars,
         NEW p \in allocated, pred' = [pred EXCEPT ![t] = p],
         NEW q \in Ref, next' = [next EXCEPT ![t] = q],
         pc'[t] \notin HasNode \cup HasNext, pc'[t] \in {"sStep", "sSame", "sMove"} => q # Null
  PROVE  STypeInv'
<1>1. LNodeTypeOK' /\ HeapRefs'
  BY SameHeap DEF findVars, lnodeVars, STypeInv, TypeInv, MemoryTypeOK, LNodeTypeOK
<1>2. p \in AllNodes /\ q \in NodeOrNull
  BY SingletonFacts, RefFacts DEF STypeInv
<1>3. OpTypeOK'
  BY <1>2, SingletonFacts DEF findVars, OpTypeOK
<1>4. /\ UNCHANGED <<writeVersion, lockedLNodes, word, consumed, node, ret, allocated>>
      /\ pred'[t] = p /\ next'[t] = q
  BY SingletonFacts DEF findVars, lnodeVars, nodeVars, versVars, endVars, cliVars, sVars
<1> QED BY <1>1, <1>3, <1>4, SingletonFacts, SingletonTypes DEF Ref

(* A call that returns leaves an idle thread.                              *)
LEMMA SReturnTypes ==
  ASSUME STypeInv, NEW t \in Threads, SingletonStep(t), NEW r, SReturn(t, r),
         index' \subseteq allocated, retired' \subseteq allocated
  PROVE  STypeInv'
<1>1. LNodeTypeOK' /\ HeapRefs'
  BY SameHeap DEF SReturn, STypeInv, TypeInv, MemoryTypeOK, LNodeTypeOK
<1>2. OpTypeOK' /\ pred'[t] = head /\ next'[t] = Null
  BY SingletonFacts DEF SReturn, ForgetOp, OpTypeOK, NodeOrNull
<1>3. /\ writeVersion' \in [Threads -> Nat] /\ node' \in [Threads -> NodeOrNull] /\ node'[t] = Null
      /\ ret' \in [Threads -> ValOrNone] /\ pc'[t] = "idle"
  BY SingletonFacts DEF SReturn, Goto, NodeOrNull, ValOrNone
<1>4. UNCHANGED <<allocated, lockedLNodes, word, consumed>>
  BY DEF SReturn, nodeVars, endVars
<1> QED
  BY <1>1, <1>2, <1>3, <1>4, SingletonFacts, SingletonTypes
  DEF Ref, HasNode, HasNext, NodeLabels, BothLabels

(* A crash changes nothing else.                                           *)
LEMMA CrashTypes ==
  ASSUME STypeInv, NEW t \in Threads, SingletonStep(t), Crash(t, "null")
  PROVE  STypeInv'
<1>1. LNodeTypeOK' /\ HeapRefs'
  BY SameHeap DEF Crash, Faults, STypeInv, TypeInv, MemoryTypeOK, LNodeTypeOK
<1>2. UNCHANGED <<pc, task, pred, next, prev, writeVersion, lockedLNodes, word, consumed, node, ret, allocated>>
  BY DEF Crash, txVars, opVars, versVars, endVars, cliVars, sVars, nodeVars
<1>3. OpTypeOK'
  BY <1>2, SingletonFacts DEF OpTypeOK
<1> QED BY <1>1, <1>2, <1>3, SingletonFacts, SingletonTypes DEF Ref, STypeInv, SRefs

(* A step that changes one word at most, what it has locked or loaded, and *)
(* its position.                                                           *)
LEMMA WordTypes ==
  ASSUME STypeInv, NEW t \in Threads, SingletonStep(t),
         m_version_mask' \in [AllNodes -> Word], crashed' \in Faults,
         writeVersion' \in [Threads -> Nat], lockedLNodes' \in [Threads -> SUBSET AllNodes],
         word' \in [Threads -> Word],
         UNCHANGED <<nodeVars, index, retired, sVars, keepVars>>,
         pc'[t] \in HasNode => node[t] # Null,
         pc'[t] \notin {"sStep", "sSame", "sMove"},
         pc'[t] \in HasNext => next[t] # Null
  PROVE  STypeInv'
<1>1. LNodeTypeOK' /\ HeapRefs'
  BY DEF keepVars, nodeVars, STypeInv, TypeInv, MemoryTypeOK, LNodeTypeOK, RefsAllocated, HeapRefs, Ref
<1>2. UNCHANGED <<task, pred, next, prev, consumed, node, ret, allocated>>
  BY DEF keepVars, opVars, cliVars, sVars, nodeVars
<1>3. OpTypeOK'
  BY <1>2, SingletonFacts DEF OpTypeOK
<1> QED BY <1>1, <1>2, <1>3, SingletonFacts, SingletonTypes DEF Ref, STypeInv, SRefs

(* Where tryLock, unlock and the setters may lead.                         *)
CanGoTo(t, l) ==
  /\ l \in HasNode => node[t] # Null
  /\ l \in HasNext => next[t] # Null
  /\ l \notin {"sStep", "sSame", "sMove"}

(* A retry may always begin.                                               *)
LEMMA GoToFind ==
  ASSUME NEW t PROVE CanGoTo(t, "sFind")
BY DEF CanGoTo, HasNode, HasNext, NodeLabels, BothLabels

(* tryLock keeps the types.                                                *)
LEMMA TryLockTypes ==
  ASSUME STypeInv, NEW t \in Threads, SingletonStep(t), NEW n \in AllNodes, NEW l, CanGoTo(t, l),
         TryLock(t, n, l)
  PROVE  STypeInv'
<1>1. m_version_mask' \in [AllNodes -> Word] /\ lockedLNodes' \in [Threads -> SUBSET AllNodes]
  <2>1. CASE isLocked(n)
    BY <2>1, SingletonFacts DEF TryLock
  <2>2. CASE ~isLocked(n)
    <3>1. tryLock(n) /\ lockedLNodes' = [lockedLNodes EXCEPT ![t] = @ \cup {n}]
      BY <2>2 DEF TryLock
    <3>2. m_version_mask' \in [AllNodes -> Word]
      BY <3>1, SingletonFacts, tryLockType
    <3> QED BY <3>1, <3>2, SingletonFacts
  <2> QED BY <2>1, <2>2
<1>2. CanGoTo(t, pc'[t])
  BY SingletonFacts, GoToFind DEF TryLock, Retry, Goto
<1>3. UNCHANGED <<writeVersion, word, crashed, nodeVars, index, retired, sVars, keepVars>>
  BY DEF TryLock
<1>4. crashed' \in Faults
  BY <1>3 DEF STypeInv, TypeInv, MemoryTypeOK, LNodeTypeOK
<1> QED BY <1>1, <1>2, <1>3, <1>4, SingletonFacts, WordTypes DEF CanGoTo

(* unlock keeps the types.                                                 *)
LEMMA ReleaseTypes ==
  ASSUME STypeInv, NEW t \in Threads, SingletonStep(t), NEW n \in AllNodes, NEW l, CanGoTo(t, l),
         Release(t, n, l)
  PROVE  STypeInv'
<1>1. [m_version_mask[n] EXCEPT !.lock = FALSE] \in Word /\ crashed \in Faults
  BY SingletonFacts, WordFields DEF STypeInv, TypeInv, MemoryTypeOK, LNodeTypeOK
<1>2. m_version_mask' \in [AllNodes -> Word] /\ crashed' \in Faults
  BY <1>1, SingletonFacts, StoreLockedType DEF Release, unlock
<1>3. lockedLNodes' \in [Threads -> SUBSET AllNodes] /\ pc'[t] = l
  BY SingletonFacts DEF Release, Goto
<1>4. UNCHANGED <<writeVersion, word, nodeVars, index, retired, sVars, keepVars>>
  BY DEF Release
<1> QED BY <1>2, <1>3, <1>4, SingletonFacts, WordTypes DEF CanGoTo

(* A setter keeps the types.                                               *)
LEMMA StampTypes ==
  ASSUME STypeInv, NEW t \in Threads, SingletonStep(t), NEW n \in AllNodes, NEW w \in Word,
         NEW l, CanGoTo(t, l), Stamp(t, n, w, l)
  PROVE  STypeInv'
<1>1. crashed \in Faults
  BY DEF STypeInv, TypeInv, MemoryTypeOK, LNodeTypeOK
<1>2. m_version_mask' \in [AllNodes -> Word] /\ crashed' \in Faults
  BY <1>1, SingletonFacts, StoreLockedType DEF Stamp
<1>3. UNCHANGED <<lockedLNodes, writeVersion, word, nodeVars, index, retired, sVars, keepVars>> /\ pc'[t] = l
  BY SingletonFacts DEF Stamp, Goto
<1> QED BY <1>2, <1>3, SingletonFacts, WordTypes DEF CanGoTo

(* A check that passes keeps the types.                                    *)
LEMMA StayTypes ==
  ASSUME STypeInv, NEW t \in Threads, SingletonStep(t), NEW l, CanGoTo(t, l), Goto(t, l),
         UNCHANGED <<lnodeVars, lockedLNodes, word, writeVersion, sVars, keepVars>>
  PROVE  STypeInv'
<1>1. crashed' \in Faults
  BY DEF lnodeVars, STypeInv, TypeInv, MemoryTypeOK, LNodeTypeOK
<1>2. pc'[t] = l
  BY SingletonFacts DEF Goto
<1> QED BY <1>1, <1>2, SingletonFacts, WordTypes DEF CanGoTo, lnodeVars

(* The steps of find_node_singelton keep the types.                        *)
LEMMA SFindType ==
  ASSUME STypeInv, NEW t \in Threads, SingletonStep(t), SFindStep(t)
  PROVE  STypeInv'
<1> USE DEF HasNode, HasNext, NodeLabels, BothLabels
<1>0. /\ pred = [pred EXCEPT ![t] = pred[t]] /\ next = [next EXCEPT ![t] = next[t]]
      /\ pred[t] \in allocated /\ next[t] \in Ref /\ m_next[pred[t]] \in Ref /\ Null \in Ref
  BY SingletonFacts DEF Ref
<1>1. CASE SFind(t)
  <2>1. PICK n \in getPred(task[t].key) : pred' = [pred EXCEPT ![t] = n]
    BY <1>1 DEF SFind
  <2>2. n \in allocated
    BY SingletonFacts, getPredType DEF STypeInv
  <2>3. next' = [next EXCEPT ![t] = Null] /\ UNCHANGED findVars /\ pc'[t] = "sPred"
    BY <1>1, SingletonFacts DEF SFind, Goto
  <2> QED BY <1>0, <2>1, <2>2, <2>3, FindTypes
<1>2. CASE SStepBack(t)
  <2>1. PICK n \in allocated : pred' = [pred EXCEPT ![t] = n]
    <3>1. m_key[pred[t]] \in Nat
      BY SingletonFacts
    <3>2. \A n \in getPred(m_key[pred[t]]) : n \in allocated
      BY <3>1, getPredType DEF STypeInv
    <3> QED BY <1>0, <1>2, <3>2 DEF SStepBack
  <2>2. UNCHANGED <<findVars, next>> /\ pc'[t] \in {"sPred", "sRead"}
    BY <1>2, SingletonFacts DEF SStepBack, Goto
  <2> QED BY <1>0, <2>1, <2>2, FindTypes
<1>3. CASE SReadNext(t)
  <2>1. PICK q \in Ref : next' = [next EXCEPT ![t] = q]
    BY <1>0, <1>3 DEF SReadNext
  <2>2. UNCHANGED <<findVars, pred>> /\ pc'[t] \in {"sFind", "sAgain"}
    BY <1>3, SingletonFacts DEF SReadNext, Goto, Retry
  <2> QED BY <1>0, <2>1, <2>2, FindTypes
<1>4. CASE SCheckPred(t) \/ SCompare(t) \/ SStep(t) \/ SSame(t)
  <2>1. /\ UNCHANGED <<findVars, pred, next>>
        /\ \/ pc'[t] \in {"sFind", "sLoop", "sMiss", "sHit"}
           \/ pc'[t] \in {"sStep", "sSame", "sMove"} /\ next[t] # Null
    BY <1>4, SingletonFacts DEF SCheckPred, SCompare, SStep, SSame, Goto, Retry, STypeInv, SRefs
  <2> QED BY <1>0, <2>1, FindTypes
<1>5. CASE SHit(t) \/ SNext(t)
  <2>1. /\ next' = [next EXCEPT ![t] = m_next[pred[t]]] /\ UNCHANGED <<findVars, pred>>
        /\ pc'[t] \in {"sFound", "sAgain"}
    BY <1>5, SingletonFacts DEF SHit, SNext, Goto
  <2> QED BY <1>0, <2>1, FindTypes
<1>6. CASE SMove(t)
  <2>1. PICK p \in allocated : pred' = [pred EXCEPT ![t] = p]
    BY <1>0, <1>6 DEF SMove, Ref
  <2>2. UNCHANGED <<findVars, next>> /\ pc'[t] \in {"sFind", "sNext"}
    BY <1>6, SingletonFacts DEF SMove, Goto, Retry
  <2> QED BY <1>0, <2>1, <2>2, FindTypes
<1>7. CASE SGet(t) \/ SMiss(t)
  BY <1>7, CrashTypes, SReturnTypes DEF SGet, SMiss, STypeInv, TypeInv, MemoryTypeOK, LNodeTypeOK
<1> QED BY <1>1, <1>2, <1>3, <1>4, <1>5, <1>6, <1>7 DEF SFindStep

(* What the setters store is a word.                                       *)
LEMMA StampWords ==
  ASSUME NEW w \in Word, NEW v \in Nat
  PROVE  /\ [w EXCEPT !.sing = TRUE] \in Word
         /\ [w EXCEPT !.ver = v] \in Word
         /\ [w EXCEPT !.ver = v, !.sing = TRUE] \in Word
         /\ [w EXCEPT !.ver = v, !.del = TRUE, !.sing = TRUE] \in Word
BY DEF Word

(* The steps of putSingleton keep the types.                               *)
LEMMA SPutType ==
  ASSUME STypeInv, NEW t \in Threads, SingletonStep(t), SPutStep(t)
  PROVE  STypeInv'
<1> USE DEF HasNode, HasNext, NodeLabels, BothLabels, CanGoTo
<1>0. /\ pred[t] \in AllNodes /\ pred[t] \in allocated /\ m_next[pred[t]] \in Ref
      /\ m_next[pred[t]] \in NodeOrNull
      /\ pc[t] \in HasNode => node[t] # Null /\ node[t] \in AllNodes /\ node[t] \in allocated
      /\ node[t] # Null => node[t] \in AllNodes
      /\ crashed \in Faults /\ index \subseteq allocated /\ retired \subseteq allocated
  BY SingletonFacts DEF STypeInv, SRefs, Ref, NodeOrNull, TypeInv, MemoryTypeOK, LNodeTypeOK
<1>1. CASE SPutRead(t)
  <2>1. /\ node' = [node EXCEPT ![t] = m_next[pred[t]]] /\ pc'[t] = "sLockVal"
        /\ UNCHANGED <<nodeVars, m_version_mask, gvc, index, retired, crashed>>
        /\ UNCHANGED <<task, pred, next, prev, writeVersion, lockedLNodes, word, ret, consumed, allocated>>
    BY <1>1, SingletonFacts DEF SPutRead, Goto, keepVars, opVars, cliVars, nodeVars
  <2>2. LNodeTypeOK' /\ HeapRefs'
    BY <1>0, <2>1, SameHeap
  <2>3. OpTypeOK' BY <2>1, SingletonFacts DEF OpTypeOK
  <2>4. node' \in [Threads -> NodeOrNull] /\ node'[t] \in Ref
    BY <1>0, <2>1, SingletonFacts
  <2> QED BY <2>1, <2>2, <2>3, <2>4, SingletonFacts, SingletonTypes DEF Ref
<1>2. CASE SPutLock(t)
  BY <1>0, <1>2, CrashTypes, TryLockTypes DEF SPutLock
<1>3. CASE SPutCheck(t)
  <2>1. pc[t] = "sChkVal" /\ (\/ Crash(t, "null") \/ Release(t, node[t], "sFind")
                              \/ /\ Goto(t, "sPutVal")
                                 /\ UNCHANGED <<lnodeVars, lockedLNodes, word, writeVersion, sVars, keepVars>>)
    BY <1>3 DEF SPutCheck
  <2> QED BY <1>0, <2>1, CrashTypes, ReleaseTypes, StayTypes
<1>4. CASE SPutVal(t)
  <2>1. /\ ret' = [ret EXCEPT ![t] = m_val[node[t]]] /\ m_val' = [m_val EXCEPT ![node[t]] = task[t].val]
        /\ pc[t] = "sPutVal" /\ pc'[t] = "sSetSng"
        /\ UNCHANGED <<m_key, m_next, allocated, m_version_mask, gvc, index, retired, crashed>>
        /\ UNCHANGED <<task, pred, next, prev, writeVersion, lockedLNodes, word, node, consumed>>
    BY <1>4, SingletonFacts DEF SPutVal, Goto, keepVars, opVars, cliVars
  <2>2. m_val' \in [AllNodes -> ValOrNone] /\ ret' \in [Threads -> ValOrNone]
    BY <1>0, <2>1, SingletonFacts
  <2>3. LNodeTypeOK' /\ HeapRefs'
    BY <2>1, <2>2 DEF STypeInv, TypeInv, MemoryTypeOK, LNodeTypeOK, RefsAllocated, HeapRefs, Ref
  <2>4. OpTypeOK' BY <2>1, SingletonFacts DEF OpTypeOK
  <2> QED BY <1>0, <2>1, <2>2, <2>3, <2>4, SingletonFacts, SingletonTypes DEF Ref
<1>5. CASE SSetSingleton(t)
  <2>1. pc[t] = "sSetSng" /\ m_version_mask[node[t]] \in Word
    BY <1>0, <1>5, SingletonFacts DEF SSetSingleton
  <2>2. [m_version_mask[node[t]] EXCEPT !.sing = TRUE] \in Word
    BY <2>1, SingletonFacts, StampWords
  <2> QED BY <1>0, <1>5, <2>1, <2>2, StampTypes DEF SSetSingleton
<1>6. CASE SSetVersion(t)
  <2>1. pc[t] = "sSetVer" /\ m_version_mask[node[t]] \in Word
    BY <1>0, <1>6, SingletonFacts DEF SSetVersion
  <2>2. [m_version_mask[node[t]] EXCEPT !.ver = writeVersion[t]] \in Word
    BY <2>1, SingletonFacts, StampWords
  <2> QED BY <1>0, <1>6, <2>1, <2>2, StampTypes DEF SSetVersion
<1>7. CASE SPutUnlock(t)
  BY <1>0, <1>7, ReleaseTypes DEF SPutUnlock
<1>8. CASE SPutReturn(t)
  BY <1>0, <1>8, SReturnTypes DEF SPutReturn
<1>9. CASE SInsLock(t)
  BY <1>0, <1>9, TryLockTypes DEF SInsLock
<1>10. CASE SInsCheck(t)
  BY <1>0, <1>10, ReleaseTypes, StayTypes DEF SInsCheck
<1>11. CASE SLink(t)
  <2>1. PICK n \in Nodes \ allocated :
          /\ allocated' = allocated \cup {n}
          /\ m_key' = [m_key EXCEPT ![n] = task[t].key]
          /\ m_val' = [m_val EXCEPT ![n] = task[t].val]
          /\ m_next' = [m_next EXCEPT ![n] = m_next[pred[t]], ![pred[t]] = n]
          /\ node' = [node EXCEPT ![t] = n]
    BY <1>11 DEF SLink
  <2>2. /\ pc'[t] = "sVerIns"
        /\ UNCHANGED <<m_version_mask, gvc, index, retired, crashed>>
        /\ UNCHANGED <<task, pred, next, prev, writeVersion, lockedLNodes, word, ret, consumed>>
    BY <1>11, SingletonFacts DEF SLink, Goto, keepVars, opVars, cliVars
  <2>3. n \in AllNodes /\ n # Null
    BY SingletonFacts DEF AllNodes
  <2>4. /\ m_key' \in [AllNodes -> Nat] /\ m_val' \in [AllNodes -> ValOrNone]
    BY <2>1, <2>3, SingletonFacts
  <2>5. /\ m_next' \in [AllNodes -> NodeOrNull]
        /\ \A m \in AllNodes : m_next'[m] \in Ref \cup {n}
    BY <1>0, <2>1, <2>3, SingletonFacts DEF NodeOrNull
  <2>6. LNodeTypeOK'
    BY <2>1, <2>2, <2>3, <2>4, <2>5 DEF STypeInv, TypeInv, MemoryTypeOK, LNodeTypeOK
  <2>7. HeapRefs'
    BY <2>1, <2>5, SingletonFacts DEF HeapRefs, Ref
  <2>8. OpTypeOK' BY <2>2, SingletonFacts DEF OpTypeOK
  <2>9. node' \in [Threads -> NodeOrNull] /\ node'[t] = n
    BY <2>1, <2>3, SingletonFacts DEF NodeOrNull
  <2> QED BY <1>0, <2>1, <2>2, <2>3, <2>6, <2>7, <2>8, <2>9, SingletonFacts, SingletonTypes DEF Ref
<1>12. CASE SLoadWord(t)
  <2>1. /\ pc[t] = "sLoad" /\ pc'[t] = "sStore" /\ word' = [word EXCEPT ![t] = m_version_mask[node[t]]]
        /\ UNCHANGED <<m_version_mask, crashed, writeVersion, lockedLNodes>>
        /\ UNCHANGED <<nodeVars, index, retired, sVars, keepVars>>
    BY <1>12, SingletonFacts DEF SLoadWord, Goto
  <2> QED BY <1>0, <2>1, SingletonFacts, WordTypes
<1>13. CASE SStoreWord(t)
  <2> DEFINE w == [word[t] EXCEPT !.ver = writeVersion[t], !.sing = TRUE]
  <2>1. /\ pc[t] = "sStore" /\ pc'[t] = "sUnlockIns" /\ word' = [word EXCEPT ![t] = FreshWord]
        /\ m_version_mask' = [m_version_mask EXCEPT ![node[t]] = w]
        /\ UNCHANGED <<crashed, writeVersion, lockedLNodes>>
        /\ UNCHANGED <<nodeVars, index, retired, sVars, keepVars>>
    BY <1>13, SingletonFacts DEF SStoreWord, Goto
  <2>2. w \in Word /\ FreshWord \in Word
    <3>1. w \in Word BY SingletonFacts, StampWords
    <3>2. FreshWord \in Word BY DEF FreshWord, Word
    <3> QED BY <3>1, <3>2
  <2> HIDE DEF w
  <2>3. m_version_mask' \in [AllNodes -> Word] /\ word' \in [Threads -> Word]
    BY <1>0, <2>1, <2>2, SingletonFacts
  <2> QED BY <1>0, <2>1, <2>3, SingletonFacts, WordTypes
<1>14. CASE SInsUnlock(t)
  BY <1>0, <1>14, ReleaseTypes DEF SInsUnlock
<1>15. CASE SInsIndex(t)
  BY <1>0, <1>15, SReturnTypes DEF SInsIndex
<1> QED
  BY <1>1, <1>2, <1>3, <1>4, <1>5, <1>6, <1>7, <1>8, <1>9, <1>10, <1>11, <1>12, <1>13, <1>14, <1>15
  DEF SPutStep

(* The steps of removeSingleton keep the types.                            *)
LEMMA SRemoveType ==
  ASSUME STypeInv, NEW t \in Threads, SingletonStep(t), SRemoveStep(t)
  PROVE  STypeInv'
<1> USE DEF HasNode, HasNext, NodeLabels, BothLabels, CanGoTo
<1>0. /\ pred[t] \in AllNodes /\ m_next[pred[t]] \in Ref
      /\ pc[t] \in HasNext => next[t] # Null /\ next[t] \in AllNodes /\ next[t] \in allocated
      /\ next[t] # Null => next[t] \in AllNodes
      /\ crashed \in Faults /\ index \subseteq allocated /\ retired \subseteq allocated
  BY SingletonFacts DEF STypeInv, SRefs, Ref, NodeOrNull, TypeInv, MemoryTypeOK, LNodeTypeOK
<1>1. CASE SRemLock(t)
  BY <1>0, <1>1, TryLockTypes DEF SRemLock
<1>2. CASE SRemCheck(t)
  BY <1>0, <1>2, ReleaseTypes, StayTypes DEF SRemCheck
<1>3. CASE SRemLockVictim(t)
  <2>1. \/ Crash(t, "null") \/ Release(t, pred[t], "sFind")
        \/ next[t] # Null /\ TryLock(t, next[t], "sClear")
    BY <1>3 DEF SRemLockVictim
  <2> QED BY <1>0, <2>1, CrashTypes, ReleaseTypes, TryLockTypes
<1>4. CASE SRemClear(t)
  <2>1. /\ ret' = [ret EXCEPT ![t] = m_val[next[t]]] /\ m_val' = [m_val EXCEPT ![next[t]] = NoVal]
        /\ pc[t] = "sClear" /\ pc'[t] = "sUnlink"
        /\ UNCHANGED <<m_key, m_next, allocated, m_version_mask, gvc, index, retired, crashed>>
        /\ UNCHANGED <<task, pred, next, prev, writeVersion, lockedLNodes, word, node, consumed>>
    BY <1>4, SingletonFacts DEF SRemClear, Goto, keepVars, opVars, cliVars
  <2>2. m_val' \in [AllNodes -> ValOrNone] /\ ret' \in [Threads -> ValOrNone]
    BY <1>0, <2>1, SingletonFacts DEF ValOrNone
  <2>3. LNodeTypeOK' /\ HeapRefs'
    BY <2>1, <2>2 DEF STypeInv, TypeInv, MemoryTypeOK, LNodeTypeOK, RefsAllocated, HeapRefs, Ref
  <2>4. OpTypeOK' BY <2>1, SingletonFacts DEF OpTypeOK
  <2> QED BY <1>0, <2>1, <2>2, <2>3, <2>4, SingletonFacts, SingletonTypes DEF Ref
<1>5. CASE SRemUnlink(t)
  <2>1. CASE m_next[pred[t]] = Null
    BY <1>5, <2>1, CrashTypes DEF SRemUnlink
  <2>2. CASE m_next[pred[t]] # Null
    <3>1. /\ m_next' = [m_next EXCEPT ![pred[t]] = m_next[m_next[pred[t]]]]
          /\ pc[t] = "sUnlink" /\ pc'[t] = "sVerRem"
          /\ UNCHANGED <<m_key, m_val, allocated, m_version_mask, gvc, index, retired, crashed>>
          /\ UNCHANGED <<task, pred, next, prev, writeVersion, lockedLNodes, word, node, ret, consumed>>
      BY <1>5, <2>2, SingletonFacts DEF SRemUnlink, Goto, keepVars, opVars, cliVars, sVars
    <3>2. m_next[pred[t]] \in AllNodes
      BY <1>0, <2>2, SingletonFacts DEF Ref
    <3>3. m_next' \in [AllNodes -> NodeOrNull] /\ \A m \in AllNodes : m_next'[m] \in Ref
      BY <1>0, <3>1, <3>2, SingletonFacts
    <3>4. LNodeTypeOK' /\ HeapRefs'
      BY <3>1, <3>3 DEF STypeInv, TypeInv, MemoryTypeOK, LNodeTypeOK, RefsAllocated, HeapRefs, Ref
    <3>5. OpTypeOK' BY <3>1, SingletonFacts DEF OpTypeOK
    <3> QED BY <1>0, <3>1, <3>4, <3>5, SingletonFacts, SingletonTypes DEF Ref
  <2> QED BY <2>1, <2>2
<1>6. CASE SRemStampVictim(t)
  <2> DEFINE w == [m_version_mask[next[t]] EXCEPT !.ver = writeVersion[t], !.del = TRUE, !.sing = TRUE]
  <2>1. pc[t] = "sStampDel" /\ m_version_mask[next[t]] \in Word
    BY <1>0, <1>6, SingletonFacts DEF SRemStampVictim
  <2>2. w \in Word
    BY <2>1, SingletonFacts, StampWords
  <2>3. Stamp(t, next[t], w, "sStampPred")
    BY <1>6 DEF SRemStampVictim
  <2> HIDE DEF w
  <2> QED BY <1>0, <2>1, <2>2, <2>3, StampTypes
<1>7. CASE SRemStampPred(t)
  <2> DEFINE w == [m_version_mask[pred[t]] EXCEPT !.ver = writeVersion[t], !.sing = TRUE]
  <2>1. pc[t] = "sStampPred" /\ w \in Word
    BY <1>0, <1>7, SingletonFacts, StampWords DEF SRemStampPred
  <2>2. Stamp(t, pred[t], w, "sUnlockDel")
    BY <1>7 DEF SRemStampPred
  <2> HIDE DEF w
  <2> QED BY <1>0, <2>1, <2>2, StampTypes
<1>8. CASE SRemUnlockVictim(t)
  BY <1>0, <1>8, ReleaseTypes DEF SRemUnlockVictim
<1>9. CASE SRemUnlockPred(t)
  BY <1>0, <1>9, ReleaseTypes DEF SRemUnlockPred
<1>10. CASE SRemReturn(t)
  BY <1>0, <1>10, SReturnTypes DEF SRemReturn
<1> QED BY <1>1, <1>2, <1>3, <1>4, <1>5, <1>6, <1>7, <1>8, <1>9, <1>10 DEF SRemoveStep

(* The call of an operation and the load of the clock keep the types.      *)
LEMMA SCallType ==
  ASSUME STypeInv, NEW t \in Threads, SingletonStep(t), CallSingleton(t) \/ LoadClock(t)
  PROVE  STypeInv'
<1>1. CASE CallSingleton(t)
  <2>1. PICK k \in Tasks[t][consumed[t] + 1] : task' = [task EXCEPT ![t] = k]
    BY <1>1 DEF CallSingleton
  <2>2. /\ consumed' = [consumed EXCEPT ![t] = @ + 1] /\ consumed[t] < Len(Tasks[t]) /\ pc'[t] = "sFind"
        /\ UNCHANGED <<lnodeVars, pred, next, prev, writeVersion, lockedLNodes, word, node, ret>>
    BY <1>1, SingletonFacts DEF CallSingleton, Goto, versVars, endVars, sVars
  <2>3. Tasks[t] \in Seq(SUBSET Task) /\ Len(Tasks[t]) \in Nat
    BY TasksAssumption
  <2>4. k \in Task
    <3>1. Tasks[t][consumed[t] + 1] \in SUBSET Task
      BY <2>2, <2>3, SingletonFacts
    <3> QED BY <3>1
  <2>5. LNodeTypeOK' /\ HeapRefs'
    BY <2>2, SameHeap DEF lnodeVars, STypeInv, TypeInv, MemoryTypeOK, LNodeTypeOK
  <2>6. OpTypeOK' BY <2>1, <2>2, <2>4, SingletonFacts DEF OpTypeOK
  <2>7. /\ consumed' \in [Threads -> Nat]
        /\ \A u \in Threads : consumed'[u] <= Len(Tasks[u])
        /\ \A u \in Threads \ {t} : consumed'[u] = consumed[u]
    BY <2>2, <2>3, SingletonFacts
  <2> QED
    BY <2>2, <2>5, <2>6, <2>7, SingletonFacts, SingletonTypes
    DEF Ref, lnodeVars, nodeVars, HasNode, HasNext, NodeLabels, BothLabels
<1>2. CASE LoadClock(t)
  <2>1. /\ writeVersion' = [writeVersion EXCEPT ![t] = gvc]
        /\ UNCHANGED <<m_version_mask, crashed, lockedLNodes, word>>
        /\ UNCHANGED <<nodeVars, index, retired, sVars, keepVars>>
    BY <1>2 DEF LoadClock
  <2>2. \/ pc[t] = "sVerPut" /\ pc'[t] = "sSetVer"
        \/ pc[t] = "sVerIns" /\ pc'[t] = "sLoad"
        \/ pc[t] = "sVerRem" /\ pc'[t] = "sStampDel"
    BY <1>2, SingletonFacts DEF LoadClock, Goto
  <2>3. /\ pc'[t] \in HasNode => node[t] # Null
        /\ pc'[t] \notin {"sStep", "sSame", "sMove"}
        /\ pc'[t] \in HasNext => next[t] # Null
    BY <2>2 DEF STypeInv, SRefs, HasNode, HasNext, NodeLabels, BothLabels
  <2>4. crashed \in Faults
    BY DEF STypeInv, TypeInv, MemoryTypeOK, LNodeTypeOK
  <2> QED BY <2>1, <2>3, <2>4, SingletonFacts, WordTypes
<1> QED BY <1>1, <1>2

(* The list and the threads start well-typed.                              *)
LEMMA STypeInit == SInit => STypeInv
<1> SUFFICES ASSUME SInit PROVE STypeInv
  OBVIOUS
<1>1. TypeInv
  BY TypeInit DEF SInit
<1>2. \A t \in Threads : pc[t] = "idle" /\ node[t] = Null
  BY DEF SInit, TXInit
<1> QED
  BY <1>1, <1>2 DEF SInit, STypeInv, SRefs, Ref, NodeOrNull, ValOrNone, Labels, HasNode, HasNext,
     NodeLabels, BothLabels

(* Every step, inside or outside a transaction, keeps the types.           *)
LEMMA STypeNext == STypeInv /\ [Next]_allVars => STypeInv'
<1> SUFFICES ASSUME STypeInv, [Next]_allVars PROVE STypeInv'
  OBVIOUS
<1>1. ASSUME NEW t \in Threads, SingletonStep(t) PROVE STypeInv'
  BY <1>1, SFindType, SPutType, SRemoveType, SCallType DEF SingletonStep
<1>2. ASSUME NEW t \in Threads, TXStep(t), UNCHANGED sVars PROVE STypeInv'
  <2>1. TypeInv /\ TypeInv'
    BY <1>2, OpStepType, EndStepType DEF TXStep, STypeInv
  <2>2. \A u \in Threads : pc'[u] \in Labels \cup SLabels
    BY <1>2, <2>1, StepLabels DEF STypeInv
  <2>3. SRefs'
    <3>1. pc'[t] \notin HasNode \cup HasNext \cup {"sStep", "sSame", "sMove"}
      BY <1>2, <2>1, StepLabels DEF Labels, HasNode, HasNext, NodeLabels, BothLabels
    <3>2. /\ allocated \subseteq allocated'
          /\ \A u \in Threads \ {t} : pc'[u] = pc[u] /\ next'[u] = next[u]
      BY <1>2, <2>1, StepLabels, StepFrame
    <3>3. \A u \in Threads : /\ node[u] \in Ref
                             /\ pc[u] \in HasNode => node[u] # Null
                             /\ pc[u] \in HasNext \cup {"sStep", "sSame", "sMove"} => next[u] # Null
      BY DEF STypeInv, SRefs
    <3> QED BY <1>2, <3>1, <3>2, <3>3 DEF SRefs, Ref, sVars
  <2> QED BY <1>2, <2>1, <2>2, <2>3 DEF STypeInv, sVars
<1>3. CASE UNCHANGED allVars
  <2>1. UNCHANGED vars /\ UNCHANGED <<pc, next, allocated, node, ret>>
    BY <1>3 DEF allVars, vars, txVars, lnodeVars, nodeVars, opVars, sVars
  <2>2. TypeInv'
    BY <2>1, TypeNext DEF STypeInv
  <2> QED BY <2>1, <2>2 DEF STypeInv, SRefs, Ref
<1> QED BY <1>1, <1>2, <1>3 DEF Next, Step, Finished, allVars

(* Every variable keeps its type and every pointer a thread follows leads  *)
(* to an allocated node, whatever mix of transactions and singletons runs. *)
THEOREM CompositionTypes == Spec => [](TypeOK /\ RefsAllocated)
<1>1. STypeInv => TypeOK /\ RefsAllocated
  <2> SUFFICES ASSUME STypeInv PROVE TypeOK /\ RefsAllocated
    OBVIOUS
  <2>1. pc = [u \in Threads |-> pc[u]] BY DEF STypeInv, TypeInv, MemoryTypeOK
  <2>2. pc \in [Threads -> Labels \cup SLabels] BY <2>1 DEF STypeInv
  <2> QED BY <2>2 DEF STypeInv, TypeInv, MemoryTypeOK, TypeOK
<1> QED BY <1>1, STypeInit, STypeNext, PTL DEF Spec

-----------------------------------------------------------------------------
(* The clock *)

(* Where the versions of a state come from: each was in the state before,  *)
(* is zero, or is what the clock was read or moved to.                     *)
VersionStep(t) ==
  /\ gvc' \in {gvc, gvc + 1}
  /\ \A n \in AllNodes : m_version_mask'[n].ver \in {m_version_mask[n].ver, writeVersion[t], word[t].ver}
  /\ word'[t].ver \in {word[t].ver, 0} \cup {m_version_mask[n].ver : n \in AllNodes}
  /\ readVersion'[t] \in {readVersion[t], 0, gvc}
  /\ writeVersion'[t] \in {writeVersion[t], 0, gvc'}
  /\ pc'[t] \in {"write", "stamp"} =>
       /\ readVersion'[t] = readVersion[t]
       /\ \/ pc[t] \in {"write", "stamp"} /\ writeVersion'[t] = writeVersion[t]
          \/ writeVersion'[t] = gvc + 1

(* Such a step puts no version ahead of the clock.                         *)
LEMMA VersionStepClock ==
  ASSUME STypeInv, STypeInv', SClockInv, NEW t \in Threads, VersionStep(t),
         \A u \in Threads \ {t} : /\ pc'[u] = pc[u] /\ word'[u] = word[u]
                                  /\ readVersion'[u] = readVersion[u]
                                  /\ writeVersion'[u] = writeVersion[u]
  PROVE  SClockInv'
<1>1. /\ gvc \in Nat /\ \A n \in AllNodes : m_version_mask[n].ver \in Nat /\ m_version_mask[n].ver <= gvc
      /\ \A u \in Threads : /\ readVersion[u] \in Nat /\ readVersion[u] <= gvc
                            /\ writeVersion[u] \in Nat /\ writeVersion[u] <= gvc
                            /\ word[u].ver \in Nat /\ word[u].ver <= gvc
                            /\ pc[u] \in {"write", "stamp"} => readVersion[u] < writeVersion[u]
  BY DEF STypeInv, TypeInv, MemoryTypeOK, LNodeTypeOK, LocalsTypeOK, EndTypeOK, Word, SClockInv,
         ClockBound, getVersion
<1>2. gvc' \in Nat /\ gvc <= gvc'
  BY <1>1 DEF VersionStep
<1>3. \A n \in AllNodes : m_version_mask'[n].ver <= gvc'
  <2> TAKE n \in AllNodes
  <2>1. m_version_mask'[n].ver \in {m_version_mask[n].ver, writeVersion[t], word[t].ver}
    BY DEF VersionStep
  <2> QED BY <1>1, <1>2, <2>1
<1>4. word'[t].ver <= gvc' /\ readVersion'[t] <= gvc' /\ writeVersion'[t] <= gvc'
  BY <1>1, <1>2 DEF VersionStep
<1>5. pc'[t] \in {"write", "stamp"} => readVersion'[t] < writeVersion'[t]
  BY <1>1 DEF VersionStep
<1>6. \A u \in Threads \ {t} : /\ readVersion'[u] <= gvc' /\ writeVersion'[u] <= gvc' /\ word'[u].ver <= gvc'
                               /\ pc'[u] \in {"write", "stamp"} => readVersion'[u] < writeVersion'[u]
  BY <1>1, <1>2
<1> QED BY <1>3, <1>4, <1>5, <1>6 DEF SClockInv, ClockBound, getVersion

(* tryLock and unlock leave every version as it is.                        *)
LEMMA LockVersion ==
  ASSUME m_version_mask \in [AllNodes -> Word], NEW n \in AllNodes, tryLock(n) \/ unlock(n)
  PROVE  \A m \in AllNodes : m_version_mask'[m].ver = m_version_mask[m].ver
<1>1. m_version_mask[n] \in Word
  OBVIOUS
<1>2. PICK b \in BOOLEAN : \/ m_version_mask' = [m_version_mask EXCEPT ![n] = [m_version_mask[n] EXCEPT !.lock = b]]
                           \/ UNCHANGED m_version_mask
  BY tryLockType DEF unlock, StoreLocked
<1>3. [m_version_mask[n] EXCEPT !.lock = b].ver = m_version_mask[n].ver
  BY <1>1 DEF Word
<1> QED BY <1>2, <1>3

(* Every step of a transaction is one.                                     *)
LEMMA TxVersions ==
  ASSUME STypeInv, NEW t \in Threads, TXStep(t)
  PROVE  VersionStep(t)
<1>0. /\ gvc \in Nat /\ m_version_mask \in [AllNodes -> Word] /\ pc = [u \in Threads |-> pc[u]]
      /\ readVersion \in [Threads -> Nat] /\ writeVersion \in [Threads -> Nat]
      /\ word \in [Threads -> Word] /\ todo \in [Threads -> SUBSET AllNodes]
      /\ lockedLNodes \in [Threads -> SUBSET AllNodes]
      /\ pred \in [Threads -> AllNodes] /\ TypeInv
  BY DEF STypeInv, TypeInv, MemoryTypeOK, LNodeTypeOK, LocalsTypeOK, OpTypeOK, EndTypeOK
<1>a. ASSUME \A n \in AllNodes : m_version_mask'[n].ver \in {m_version_mask[n].ver, writeVersion[t], word[t].ver},
             gvc' \in {gvc, gvc + 1}, word'[t] \in {word[t], FreshWord},
             readVersion'[t] \in {readVersion[t], 0, gvc}, writeVersion'[t] \in {writeVersion[t], 0},
             pc'[t] \in {"write", "stamp"} => pc[t] \in {"write", "stamp"} /\ UNCHANGED <<readVersion, writeVersion>>
      PROVE  VersionStep(t)
  BY <1>0, <1>a DEF VersionStep, FreshWord
<1>1. CASE OpStep(t)
  <2>1. UNCHANGED m_version_mask /\ pc'[t] \notin {"write", "stamp"}
    BY <1>0, <1>1, OpStepFrame DEF EndLabels, Validating
  <2> DEFINE Goal == /\ gvc' \in {gvc, gvc + 1} /\ word' = word
                     /\ readVersion'[t] \in {readVersion[t], gvc, 0}
                     /\ writeVersion'[t] \in {writeVersion[t], 0}
  <2>2. ASSUME UNCHANGED <<gvc, word, readVersion, writeVersion>> PROVE Goal
    BY <1>0, <2>2
  <2>3. ASSUME AbortOp(t), gvc' \in {gvc, gvc + 1} PROVE Goal
    BY <1>0, <2>3 DEF AbortOp, ClearStorage, endVars
  <2>4. ASSUME TXbegin(t) PROVE Goal
    BY <1>0, <2>4 DEF TXbegin, lnodeVars, endVars
  <2>5. ASSUME CheckVersion(t) \/ CheckSingleton(t) \/ IncrementAndAbort(t) \/ ReadNext(t) PROVE Goal
    BY <2>2, <2>3, <2>5 DEF CheckVersion, CheckSingleton, IncrementAndAbort, ReadNext, lnodeVars, versVars, endVars
  <2>6. ASSUME Call(t) \/ SearchPred(t) \/ SkipDeleted(t) \/ Advance(t) \/ RemoveFound(t) PROVE Goal
    BY <2>2, <2>6 DEF Call, SearchPred, SkipDeleted, Advance, RemoveFound, lnodeVars, versVars, endVars
  <2>7. ASSUME PutFound(t) \/ PutNew(t) \/ Get(t) \/ RemoveAbsent(t) \/ RemoveFinish(t) PROVE Goal
    BY <2>2, <2>7 DEF PutFound, PutNew, Get, RemoveAbsent, RemoveFinish, lnodeVars, versVars, endVars
  <2>8. Goal
    BY <1>1, <2>4, <2>5, <2>6, <2>7 DEF OpStep
  <2> QED BY <1>0, <1>a, <2>1, <2>8
<1>2. CASE LockNode(t) \/ ReleaseNode(t)
  <2>1. \A m \in AllNodes : m_version_mask'[m].ver = m_version_mask[m].ver
    <3>1. CASE LockNode(t)
      BY <1>0, <3>1, LockVersion DEF LockNode, WriteNodes
    <3>2. CASE ReleaseNode(t)
      BY <1>0, <3>2, LockVersion DEF ReleaseNode
    <3> QED BY <1>2, <3>1, <3>2
  <2>2. UNCHANGED <<gvc, word, readVersion, writeVersion>> /\ pc'[t] \notin {"write", "stamp"}
    BY <1>0, <1>2 DEF LockNode, ReleaseNode, versVars, Goto
  <2> QED BY <1>0, <1>a, <2>1, <2>2
<1>3. CASE TakeVersion(t)
  <2>1. /\ gvc' = gvc + 1 /\ UNCHANGED <<m_version_mask, readVersion, word>>
        /\ writeVersion' = [writeVersion EXCEPT ![t] = gvc + 1]
    BY <1>3 DEF TakeVersion
  <2> QED BY <1>0, <2>1 DEF VersionStep
<1>4. CASE StampNode(t)
  <2> DEFINE n == pred[t]
             w == [m_version_mask[n] EXCEPT !.ver = writeVersion[t],
                     !.del = @ \/ writeSet[t][n].deleted, !.sing = FALSE]
  <2>1. /\ pc[t] = "stamp" /\ StoreLocked(n, w)
        /\ UNCHANGED <<gvc, readVersion, writeVersion, word>>
    BY <1>4 DEF StampNode, versVars, endVars
  <2>2. n \in AllNodes /\ w.ver = writeVersion[t]
    BY <1>0 DEF Word
  <2> HIDE DEF n, w
  <2>3. m_version_mask' = [m_version_mask EXCEPT ![n] = w] \/ UNCHANGED m_version_mask
    BY <2>1 DEF StoreLocked
  <2>4. \A m \in AllNodes : m_version_mask'[m].ver \in {m_version_mask[m].ver, writeVersion[t], word[t].ver}
    BY <1>0, <2>2, <2>3
  <2> QED BY <1>0, <1>a, <2>1, <2>4
<1>5a. CASE ValidateStep(t)
  <2>1. /\ UNCHANGED <<m_version_mask, word, readVersion, writeVersion>> /\ gvc' \in {gvc, gvc + 1}
        /\ pc'[t] \notin {"write", "stamp"}
    BY <1>0, <1>5a, ValidateFrame DEF versVars, Validating
  <2> QED BY <1>0, <1>a, <2>1
<1>5. CASE \/ LockedAll(t) \/ ValidatedReadOnly(t) \/ WriteNode(t) \/ WroteAll(t)
           \/ AbortEnd(t) \/ UpdateIndex(t) \/ AddToIndex(t) \/ RemoveFromIndex(t) \/ Commit(t)
  <2>1. UNCHANGED <<m_version_mask, word>> /\ gvc' \in {gvc, gvc + 1}
    BY <1>0, <1>5 DEF LockedAll, ValidatedReadOnly, WriteNode, WroteAll, AbortEnd, UpdateIndex,
             AddToIndex, RemoveFromIndex, Commit, lnodeVars, endVars
  <2>2. /\ readVersion'[t] \in {readVersion[t], 0} /\ writeVersion'[t] \in {writeVersion[t], 0}
        /\ pc'[t] \in {"write", "stamp"} => /\ pc[t] \in {"write", "stamp"}
                                            /\ UNCHANGED <<readVersion, writeVersion>>
    BY <1>0, <1>5 DEF LockedAll, ValidatedReadOnly, WriteNode, WroteAll, AbortEnd, UpdateIndex,
             AddToIndex, RemoveFromIndex, Commit, ClearStorage, Goto, versVars
  <2> QED BY <1>0, <1>a, <2>1, <2>2
<1>6. CASE setSingletonLoad(t)
  <2>1. /\ UNCHANGED <<m_version_mask, gvc, readVersion, writeVersion>> /\ pc'[t] \notin {"write", "stamp"}
        /\ \E n \in AllNodes : word'[t] \in {word[t], m_version_mask[n]}
    BY <1>0, <1>6 DEF setSingletonLoad, versVars, Goto
  <2> QED BY <1>0, <2>1 DEF VersionStep
<1>7. CASE setSingletonStore(t)
  <2> DEFINE w == [word[t] EXCEPT !.sing = FALSE]
  <2>1. PICK n \in AllNodes : m_version_mask' = [m_version_mask EXCEPT ![n] = w]
    BY <1>0, <1>7 DEF setSingletonStore
  <2>2. w \in Word /\ w.ver = word[t].ver
    BY <1>0 DEF Word
  <2> HIDE DEF w
  <2>3. \A m \in AllNodes : m_version_mask'[m].ver \in {m_version_mask[m].ver, writeVersion[t], word[t].ver}
    BY <1>0, <2>1, <2>2
  <2>4. /\ UNCHANGED <<gvc, readVersion, writeVersion>> /\ pc'[t] \notin {"write", "stamp"}
        /\ word'[t] = FreshWord
    BY <1>0, <1>7 DEF setSingletonStore, versVars, Goto
  <2> QED BY <1>0, <1>a, <2>3, <2>4
<1> QED BY <1>1, <1>2, <1>3, <1>4, <1>5, <1>5a, <1>6, <1>7 DEF TXStep, EndStep, ValidateStep

(* Such a step that keeps the clock, the snapshot and the loaded word.     *)
LEMMA QuietVersions ==
  ASSUME STypeInv, NEW t \in Threads, SingletonStep(t), UNCHANGED word,
         writeVersion'[t] \in {writeVersion[t], 0, gvc},
         \A n \in AllNodes : m_version_mask'[n].ver \in {m_version_mask[n].ver, writeVersion[t]}
  PROVE  VersionStep(t)
<1>1. UNCHANGED <<gvc, readVersion>> /\ pc'[t] \notin {"write", "stamp"}
  BY SingletonFrame DEF SLabels
<1> QED BY <1>1 DEF VersionStep

(* tryLock and unlock change no version.                                   *)
LEMMA LockVersions ==
  ASSUME STypeInv, NEW t \in Threads, SingletonStep(t), NEW n \in AllNodes, NEW l,
         TryLock(t, n, l) \/ Release(t, n, l)
  PROVE  VersionStep(t)
<1>1. UNCHANGED <<word, writeVersion>>
  BY DEF TryLock, Release
<1>2. tryLock(n) \/ unlock(n) \/ UNCHANGED m_version_mask
  BY DEF TryLock, Release
<1>3. \A m \in AllNodes : m_version_mask'[m].ver = m_version_mask[m].ver
  BY <1>2, SingletonFacts, LockVersion
<1> QED BY <1>1, <1>3, QuietVersions

(* A setter stores the version the thread took, or the one that is there.  *)
LEMMA StampVersions ==
  ASSUME STypeInv, NEW t \in Threads, SingletonStep(t), NEW n \in AllNodes, NEW w, NEW l,
         Stamp(t, n, w, l), w.ver \in {m_version_mask[n].ver, writeVersion[t]}
  PROVE  VersionStep(t)
<1>1. UNCHANGED <<word, writeVersion>>
  BY DEF Stamp
<1>2. m_version_mask' = [m_version_mask EXCEPT ![n] = w] \/ UNCHANGED m_version_mask
  BY DEF Stamp, StoreLocked
<1>3. \A m \in AllNodes : m_version_mask'[m].ver \in {m_version_mask[m].ver, writeVersion[t]}
  BY <1>2, SingletonFacts
<1> QED BY <1>1, <1>3, QuietVersions

(* Every step outside a transaction is one.                                *)
LEMMA SVersions ==
  ASSUME STypeInv, NEW t \in Threads, SingletonStep(t)
  PROVE  VersionStep(t)
<1>0. /\ pred[t] \in AllNodes /\ (pc[t] \in HasNode \cup {"sLockVal"} /\ node[t] # Null => node[t] \in AllNodes)
      /\ next[t] # Null => next[t] \in AllNodes
      /\ pc[t] \in HasNode => node[t] # Null
      /\ pc[t] \in HasNext => next[t] # Null
  BY SingletonFacts DEF STypeInv, SRefs, NodeOrNull
<1>1. ASSUME UNCHANGED <<m_version_mask, word>>, writeVersion'[t] \in {writeVersion[t], 0, gvc}
      PROVE  VersionStep(t)
  BY <1>1, QuietVersions
<1>2. ASSUME NEW r, SReturn(t, r) PROVE VersionStep(t)
  <2>1. UNCHANGED <<m_version_mask, word>> /\ writeVersion'[t] = 0
    BY <1>2, SingletonFacts DEF SReturn, endVars
  <2> QED BY <1>1, <2>1
<1>3. ASSUME Crash(t, "null") PROVE VersionStep(t)
  BY <1>1, <1>3 DEF Crash, txVars, endVars, versVars
<1>4. CASE CallSingleton(t)
  BY <1>1, <1>4 DEF CallSingleton, lnodeVars, versVars, endVars
<1>5. CASE LoadClock(t)
  <2>1. UNCHANGED <<m_version_mask, word>> /\ writeVersion'[t] = gvc
    BY <1>5, SingletonFacts DEF LoadClock
  <2> QED BY <1>1, <2>1
<1>6. CASE SFindStep(t)
  <2>1. UNCHANGED findVars \/ SGet(t) \/ SMiss(t)
    BY <1>6 DEF SFindStep, SFind, SStepBack, SReadNext, SCheckPred, SCompare, SHit, SStep, SSame, SMove, SNext
  <2>2. CASE UNCHANGED findVars
    BY <1>1, <2>2 DEF findVars, lnodeVars, versVars, endVars
  <2>3. CASE SGet(t) \/ SMiss(t)
    BY <1>2, <1>3, <2>3 DEF SGet, SMiss
  <2> QED BY <2>1, <2>2, <2>3
<1>7. CASE SPutRead(t) \/ SPutVal(t) \/ SLink(t) \/ SRemClear(t)
  BY <1>1, <1>7 DEF SPutRead, SPutVal, SLink, SRemClear
<1>8. CASE SPutCheck(t) \/ SInsCheck(t) \/ SRemCheck(t)
  <2>1. \/ Crash(t, "null")
        \/ UNCHANGED <<lnodeVars, word, writeVersion>>
        \/ pc[t] = "sChkVal" /\ Release(t, node[t], "sFind")
        \/ Release(t, pred[t], "sFind")
    BY <1>8 DEF SPutCheck, SInsCheck, SRemCheck
  <2>2. pc[t] = "sChkVal" => node[t] \in AllNodes
    BY <1>0 DEF HasNode, NodeLabels
  <2> QED BY <1>0, <1>1, <1>3, <2>1, <2>2, LockVersions DEF lnodeVars
<1>9. CASE SPutLock(t) \/ SInsLock(t) \/ SRemLock(t) \/ SRemLockVictim(t)
  <2>1. CASE SPutLock(t) BY <1>0, <1>3, <2>1, LockVersions DEF SPutLock
  <2>2. CASE SInsLock(t) \/ SRemLock(t) BY <1>0, <2>2, LockVersions DEF SInsLock, SRemLock
  <2>3. CASE SRemLockVictim(t) BY <1>0, <1>3, <2>3, LockVersions DEF SRemLockVictim
  <2> QED BY <1>9, <2>1, <2>2, <2>3
<1>10. CASE SPutUnlock(t) \/ SInsUnlock(t) \/ SRemUnlockVictim(t) \/ SRemUnlockPred(t)
  <2>1. CASE SPutUnlock(t)
    BY <1>0, <2>1, LockVersions DEF SPutUnlock, HasNode, NodeLabels
  <2>2. CASE SInsUnlock(t) \/ SRemUnlockPred(t)
    BY <1>0, <2>2, LockVersions DEF SInsUnlock, SRemUnlockPred
  <2>3. CASE SRemUnlockVictim(t)
    BY <1>0, <2>3, LockVersions DEF SRemUnlockVictim, HasNext, BothLabels
  <2> QED BY <1>10, <2>1, <2>2, <2>3
<1>11. CASE SSetSingleton(t) \/ SSetVersion(t)
  <2>1. node[t] \in AllNodes
    BY <1>0, <1>11 DEF SSetSingleton, SSetVersion, HasNode, NodeLabels
  <2>2. m_version_mask[node[t]] \in Word
    BY <2>1, SingletonFacts
  <2>3. /\ [m_version_mask[node[t]] EXCEPT !.sing = TRUE].ver = m_version_mask[node[t]].ver
        /\ [m_version_mask[node[t]] EXCEPT !.ver = writeVersion[t]].ver = writeVersion[t]
    BY <2>2 DEF Word
  <2> QED BY <1>11, <2>1, <2>3, StampVersions DEF SSetSingleton, SSetVersion
<1>12. CASE SRemStampVictim(t)
  <2> DEFINE w == [m_version_mask[next[t]] EXCEPT !.ver = writeVersion[t], !.del = TRUE, !.sing = TRUE]
  <2>1. next[t] \in AllNodes
    BY <1>0, <1>12 DEF SRemStampVictim, HasNext, BothLabels
  <2>2. w.ver = writeVersion[t]
    BY <2>1, SingletonFacts DEF Word
  <2>3. Stamp(t, next[t], w, "sStampPred")
    BY <1>12 DEF SRemStampVictim
  <2> HIDE DEF w
  <2> QED BY <2>1, <2>2, <2>3, StampVersions
<1>13. CASE SRemStampPred(t)
  <2> DEFINE w == [m_version_mask[pred[t]] EXCEPT !.ver = writeVersion[t], !.sing = TRUE]
  <2>1. w.ver = writeVersion[t]
    BY <1>0, SingletonFacts DEF Word
  <2>2. Stamp(t, pred[t], w, "sUnlockDel")
    BY <1>13 DEF SRemStampPred
  <2> HIDE DEF w
  <2> QED BY <1>0, <2>1, <2>2, StampVersions
<1>14. CASE SLoadWord(t)
  <2>1. UNCHANGED <<m_version_mask, writeVersion>> /\ word'[t] = m_version_mask[node[t]]
    BY <1>14, SingletonFacts DEF SLoadWord
  <2>2. node[t] \in AllNodes
    BY <1>0, <1>14 DEF SLoadWord, HasNode
  <2>3. UNCHANGED <<gvc, readVersion>> /\ pc'[t] \notin {"write", "stamp"}
    BY SingletonFrame DEF SLabels
  <2> QED BY <2>1, <2>2, <2>3 DEF VersionStep
<1>15. CASE SStoreWord(t)
  <2> DEFINE w == [word[t] EXCEPT !.ver = writeVersion[t], !.sing = TRUE]
  <2>1. /\ m_version_mask' = [m_version_mask EXCEPT ![node[t]] = w] /\ UNCHANGED writeVersion
        /\ word'[t] = FreshWord
    BY <1>15, SingletonFacts DEF SStoreWord
  <2>2. w.ver = writeVersion[t]
    BY SingletonFacts DEF Word
  <2>3. node[t] \in AllNodes
    BY <1>0, <1>15 DEF SStoreWord, HasNode
  <2>4. UNCHANGED <<gvc, readVersion>> /\ pc'[t] \notin {"write", "stamp"}
    BY SingletonFrame DEF SLabels
  <2> HIDE DEF w
  <2>5. \A m \in AllNodes : m_version_mask'[m].ver \in {m_version_mask[m].ver, writeVersion[t], word[t].ver}
    BY <2>1, <2>2, <2>3, SingletonFacts
  <2> QED BY <2>1, <2>4, <2>5 DEF VersionStep, FreshWord
<1>16. CASE SPutReturn(t) \/ SInsIndex(t) \/ SRemReturn(t)
  BY <1>2, <1>16 DEF SPutReturn, SInsIndex, SRemReturn
<1>17. CASE SRemUnlink(t)
  BY <1>1, <1>3, <1>17 DEF SRemUnlink
<1> QED
  BY <1>4, <1>5, <1>6, <1>7, <1>8, <1>9, <1>10, <1>11, <1>12, <1>13, <1>14, <1>15, <1>16, <1>17
  DEF SingletonStep, SPutStep, SRemoveStep

(* The clock starts at or above every version.                             *)
LEMMA SClockInit == SInit => SClockInv
<1> SUFFICES ASSUME SInit PROVE SClockInv
  OBVIOUS
<1>1. ClockInv
  BY ClockInit DEF SInit
<1>2. \A t \in Threads : word[t].ver = 0 /\ writeVersion[t] = 0
  BY DEF SInit, TXInit, FreshWord
<1>3. gvc \in Nat
  BY DEF SInit, TXInit, LNodeInit
<1> QED BY <1>1, <1>2, <1>3 DEF ClockInv, SClockInv

(* Every step keeps the versions behind the clock.                         *)
LEMMA SClockNext == STypeInv /\ STypeInv' /\ SClockInv /\ [Next]_allVars => SClockInv'
<1> SUFFICES ASSUME STypeInv, STypeInv', SClockInv, [Next]_allVars PROVE SClockInv'
  OBVIOUS
<1>1. ASSUME NEW t \in Threads, SingletonStep(t) PROVE SClockInv'
  <2>1. \A u \in Threads \ {t} : /\ pc'[u] = pc[u] /\ word'[u] = word[u]
                                 /\ readVersion'[u] = readVersion[u]
                                 /\ writeVersion'[u] = writeVersion[u]
    BY <1>1, SingletonFrame
  <2> QED BY <1>1, <2>1, SVersions, VersionStepClock
<1>2. ASSUME NEW t \in Threads, TXStep(t) PROVE SClockInv'
  <2>1. \A u \in Threads \ {t} : /\ pc'[u] = pc[u] /\ word'[u] = word[u]
                                 /\ readVersion'[u] = readVersion[u]
                                 /\ writeVersion'[u] = writeVersion[u]
    BY <1>2, StepFrame, StepLabels DEF STypeInv
  <2> QED BY <1>2, <2>1, TxVersions, VersionStepClock
<1>3. CASE UNCHANGED allVars
  BY <1>3 DEF allVars, vars, txVars, lnodeVars, versVars, endVars, SClockInv, ClockBound, getVersion
<1> QED BY <1>1, <1>2, <1>3 DEF Next, Step, Finished, allVars

(* No version in the heap and no snapshot is ahead of the clock, and       *)
(* TXend's assert(writeVersion > readVersion) never fails, whatever mix of *)
(* transactions and singletons runs.                                       *)
THEOREM CompositionClock == Spec => []ClockBound
<1>1. SClockInv => ClockBound BY DEF SClockInv
<1> QED BY <1>1, STypeInit, STypeNext, SClockInit, SClockNext, PTL DEF Spec

-----------------------------------------------------------------------------
(* Locks *)

(* What a step may do to the lock bits: nothing, take one, give one back.  *)
LockSame ==
  UNCHANGED lockedLNodes /\ \A m \in AllNodes : m_version_mask'[m].lock = m_version_mask[m].lock

LockTaken(t, n) ==
  /\ ~isLocked(n) /\ lockedLNodes' = [lockedLNodes EXCEPT ![t] = @ \cup {n}]
  /\ m_version_mask'[n].lock = TRUE
  /\ \A m \in AllNodes \ {n} : m_version_mask'[m].lock = m_version_mask[m].lock

LockDropped(t, n) ==
  /\ n \in lockedLNodes[t] /\ lockedLNodes' = [lockedLNodes EXCEPT ![t] = @ \ {n}]
  /\ m_version_mask'[n].lock = FALSE
  /\ \A m \in AllNodes \ {n} : m_version_mask'[m].lock = m_version_mask[m].lock

LockStep(t) == LockSame \/ \E n \in AllNodes : LockTaken(t, n) \/ LockDropped(t, n)

(* Each of the three keeps every lock with its one owner.                  *)
LEMMA OwnershipStep ==
  ASSUME STypeInv, LockOwnership, NEW t \in Threads, LockStep(t)
  PROVE  LockOwnership'
<1>0. lockedLNodes \in [Threads -> SUBSET AllNodes]
  BY SingletonFacts
<1>1. CASE LockSame
  BY <1>1 DEF LockSame, LockOwnership, isLocked
<1>2. ASSUME NEW n \in AllNodes, LockTaken(t, n) PROVE LockOwnership'
  BY <1>0, <1>2 DEF LockTaken, LockOwnership, isLocked
<1>3. ASSUME NEW n \in AllNodes, LockDropped(t, n) PROVE LockOwnership'
  BY <1>0, <1>3 DEF LockDropped, LockOwnership, isLocked
<1> QED BY <1>1, <1>2, <1>3 DEF LockStep

(* tryLock, unlock and the setters as such steps.                          *)
LEMMA tryLockBits ==
  ASSUME STypeInv, NEW t \in Threads, NEW n \in AllNodes, tryLock(n),
         lockedLNodes' = [lockedLNodes EXCEPT ![t] = @ \cup {n}]
  PROVE  LockTaken(t, n)
<1>1. /\ m_version_mask' = [m_version_mask EXCEPT ![n] = [m_version_mask[n] EXCEPT !.lock = TRUE]]
      /\ ~isLocked(n) /\ m_version_mask \in [AllNodes -> Word]
  BY SingletonFacts, tryLockType DEF tryLock
<1>2. m_version_mask'[n].lock = TRUE
  BY <1>1 DEF Word
<1> QED BY <1>1, <1>2 DEF LockTaken

(* unlock by the owner gives one lock back and never asserts.              *)
LEMMA unlockBits ==
  ASSUME STypeInv, LockOwnership, NEW t \in Threads, NEW n \in lockedLNodes[t], unlock(n),
         lockedLNodes' = [lockedLNodes EXCEPT ![t] = @ \ {n}]
  PROVE  LockDropped(t, n) /\ UNCHANGED crashed
<1>0. m_version_mask \in [AllNodes -> Word] /\ n \in AllNodes
  BY SingletonFacts
<1>1. isLocked(n)
  BY <1>0 DEF LockOwnership
<1>2. /\ m_version_mask' = [m_version_mask EXCEPT ![n] = [m_version_mask[n] EXCEPT !.lock = FALSE]]
      /\ UNCHANGED crashed
  BY <1>1 DEF unlock, StoreLocked
<1>3. m_version_mask'[n].lock = FALSE
  BY <1>0, <1>2 DEF Word
<1> QED BY <1>0, <1>2, <1>3 DEF LockDropped

(* A store that keeps the lock bit it finds keeps all of them.             *)
LEMMA StoreBits ==
  ASSUME STypeInv, NEW n \in AllNodes, NEW w, w.lock = m_version_mask[n].lock,
         m_version_mask' = [m_version_mask EXCEPT ![n] = w] \/ UNCHANGED m_version_mask,
         UNCHANGED lockedLNodes
  PROVE  LockSame
BY SingletonFacts DEF LockSame

(* A setter called by the owner does so and never asserts.                 *)
LEMMA StampBits ==
  ASSUME STypeInv, LockOwnership, NEW t \in Threads, NEW n \in lockedLNodes[t],
         NEW w, w.lock = m_version_mask[n].lock, StoreLocked(n, w), UNCHANGED lockedLNodes
  PROVE  LockSame /\ m_version_mask' = [m_version_mask EXCEPT ![n] = w] /\ UNCHANGED crashed
<1>0. n \in AllNodes
  BY SingletonFacts
<1>1. isLocked(n)
  BY <1>0 DEF LockOwnership
<1>2. m_version_mask' = [m_version_mask EXCEPT ![n] = w] /\ UNCHANGED crashed
  BY <1>1 DEF StoreLocked
<1> QED BY <1>0, <1>2, StoreBits

(* What a thread holds depends on its own locals only.                     *)
LEMMA HoldsFrame ==
  ASSUME NEW u \in Threads, SHolds(u), pc'[u] = pc[u], writeSet'[u] = writeSet[u],
         lockedLNodes'[u] = lockedLNodes[u], todo'[u] = todo[u], pred'[u] = pred[u],
         next'[u] = next[u], node'[u] = node[u]
  PROVE  SHolds(u)'
BY DEF SHolds, TxHolds, WriteNodes

(* A step of TXend by a thread: lock bits, positions, the write set.       *)
LEMMA EndStepLocks ==
  ASSUME STypeInv, SLockInv, StoresLikeCAS, NEW t \in Threads, EndStep(t), UNCHANGED sVars
  PROVE  LockStep(t) /\ SHolds(t)'
<1>0. /\ pc = [u \in Threads |-> pc[u]] /\ m_version_mask \in [AllNodes -> Word]
      /\ lockedLNodes \in [Threads -> SUBSET AllNodes] /\ pred \in [Threads -> AllNodes]
      /\ todo \in [Threads -> SUBSET AllNodes] /\ word \in [Threads -> Word]
      /\ writeSet \in [Threads -> [AllNodes -> Element]]
      /\ LockOwnership /\ SHolds(t) /\ TxHolds(t)
  BY DEF STypeInv, TypeInv, MemoryTypeOK, LNodeTypeOK, LocalsTypeOK, OpTypeOK, StoreTypeOK, EndTypeOK,
         SLockInv, SHolds
<1>a. ASSUME pc'[t] \in LockLabels, TxHolds(t)' PROVE SHolds(t)'
  BY <1>a DEF SHolds, LockLabels, Validating, NodeLabels, PredLabels, BothLabels
<1>b. ASSUME pc'[t] \in {"idle", "idxAdd", "idxRemove"}, lockedLNodes'[t] = {} PROVE SHolds(t)'
  BY <1>b DEF SHolds, TxHolds, LockLabels, NodeLabels, PredLabels, BothLabels, Validating
<1>c. ASSUME pc'[t] \in {"lock", "release"} PROVE SHolds(t)'
  BY <1>a, <1>c DEF TxHolds, LockLabels, Validating
<1>d. ASSUME UNCHANGED <<m_version_mask, lockedLNodes>> PROVE LockStep(t)
  BY <1>d DEF LockStep, LockSame
<1>1. CASE LockNode(t)
  <2>1. PICK n \in WriteNodes(t) \ lockedLNodes[t] :
          IF isLocked(n)
          THEN UNCHANGED <<m_version_mask, lockedLNodes>>
          ELSE /\ tryLock(n)
               /\ lockedLNodes' = [lockedLNodes EXCEPT ![t] = @ \cup {n}]
    BY <1>1 DEF LockNode
  <2>2. pc'[t] \in {"lock", "release"}
    BY <1>0, <1>1 DEF LockNode, Goto
  <2>3. n \in AllNodes
    BY DEF WriteNodes
  <2>4. LockStep(t)
    BY <1>d, <2>1, <2>3, tryLockBits DEF LockStep
  <2> QED BY <1>c, <2>2, <2>4
<1>2. CASE LockedAll(t)
  <2>1. /\ pc[t] = "lock" /\ pc'[t] = "validate" /\ WriteNodes(t) \subseteq lockedLNodes[t]
        /\ UNCHANGED <<m_version_mask, lockedLNodes, writeSet>>
    BY <1>0, <1>2 DEF LockedAll, Goto, lnodeVars, storeVars
  <2>2. TxHolds(t)'
    BY <2>1 DEF TxHolds, WriteNodes, Validating
  <2> QED BY <1>a, <1>d, <2>1, <2>2 DEF LockLabels, Validating
<1>3. CASE ValidateStep(t)
  <2>1. /\ pc[t] \in Validating /\ pc'[t] \in Validating \cup {"release", "loadSng"}
        /\ UNCHANGED <<m_version_mask, lockedLNodes, writeSet>>
    BY <1>0, <1>3, ValidateFrame DEF storeVars, STypeInv
  <2>2. TxHolds(t)'
    BY <1>0, <2>1 DEF TxHolds, WriteNodes, Validating
  <2> QED BY <1>a, <1>d, <2>1, <2>2 DEF LockLabels, Validating
<1>4. CASE setSingletonLoad(t)
  <2>1. /\ pc[t] = "loadSng" /\ pc'[t] \in {"loadSng", "storeSng"}
        /\ UNCHANGED <<m_version_mask, lockedLNodes, writeSet>>
    BY <1>0, <1>4 DEF setSingletonLoad, Goto, storeVars
  <2>2. TxHolds(t)'
    BY <1>0, <2>1 DEF TxHolds, WriteNodes, Validating
  <2> QED BY <1>a, <1>d, <2>1, <2>2 DEF LockLabels, Validating
<1>5. CASE setSingletonStore(t)
  <2> DEFINE w == [word[t] EXCEPT !.sing = FALSE]
  <2>1. PICK n \in todo[t] : m_version_mask' = [m_version_mask EXCEPT ![n] = w]
    BY <1>5 DEF setSingletonStore
  <2>2. pc'[t] = "release" /\ UNCHANGED lockedLNodes
    BY <1>0, <1>5 DEF setSingletonStore, Goto
  <2>3. word[t] = m_version_mask[n]
    BY <1>5 DEF StoresLikeCAS
  <2>4. n \in AllNodes /\ w.lock = m_version_mask[n].lock
    BY <1>0, <2>3 DEF Word
  <2> HIDE DEF w
  <2>5. LockSame
    BY <2>1, <2>2, <2>4, StoreBits
  <2> QED BY <1>c, <2>2, <2>5 DEF LockStep
<1>6. CASE TakeVersion(t)
  <2>1. /\ pc[t] = "validate" /\ pc'[t] = "write" /\ todo'[t] = WriteNodes(t)
        /\ UNCHANGED <<m_version_mask, lockedLNodes, writeSet>>
    BY <1>0, <1>6 DEF TakeVersion, Goto, storeVars
  <2>2. TxHolds(t)'
    BY <1>0, <2>1 DEF TxHolds, WriteNodes, Validating
  <2> QED BY <1>a, <1>d, <2>1, <2>2 DEF LockLabels, Validating
<1>7. CASE WriteNode(t)
  <2>1. PICK n \in todo[t] : todo' = [todo EXCEPT ![t] = @ \ {n}] /\ pred' = [pred EXCEPT ![t] = n]
    BY <1>7 DEF WriteNode
  <2>2. /\ pc[t] = "write" /\ pc'[t] = "stamp"
        /\ UNCHANGED <<m_version_mask, lockedLNodes, writeSet>>
    BY <1>0, <1>7 DEF WriteNode, Goto, storeVars
  <2>3. TxHolds(t)'
    BY <1>0, <2>1, <2>2 DEF TxHolds, WriteNodes, Validating
  <2> QED BY <1>a, <1>d, <2>2, <2>3 DEF LockLabels, Validating
<1>8. CASE StampNode(t)
  <2> DEFINE n == pred[t]
             w == [m_version_mask[n] EXCEPT !.ver = writeVersion[t],
                     !.del = @ \/ writeSet[t][n].deleted, !.sing = FALSE]
  <2>1. /\ pc[t] = "stamp" /\ StoreLocked(n, w) /\ pc'[t] = "write"
        /\ UNCHANGED <<lockedLNodes, writeSet, todo>>
    BY <1>0, <1>8 DEF StampNode, Goto, storeVars, endVars
  <2>2. n \in lockedLNodes[t]
    BY <1>0, <2>1 DEF TxHolds
  <2>3. w.lock = m_version_mask[n].lock
    BY <1>0 DEF Word
  <2> HIDE DEF n, w
  <2>4. LockSame
    BY <1>0, <2>1, <2>2, <2>3, StampBits
  <2>5. TxHolds(t)'
    BY <1>0, <2>1 DEF TxHolds, WriteNodes, Validating
  <2> QED BY <1>a, <2>1, <2>4, <2>5 DEF LockStep, LockLabels
<1>9. CASE ReleaseNode(t)
  <2>1. PICK n \in lockedLNodes[t] :
          unlock(n) /\ lockedLNodes' = [lockedLNodes EXCEPT ![t] = @ \ {n}]
    BY <1>9 DEF ReleaseNode
  <2>2. pc'[t] = "release"
    BY <1>9 DEF ReleaseNode
  <2>3. LockDropped(t, n) /\ n \in AllNodes
    BY <1>0, <2>1, unlockBits
  <2> QED BY <1>c, <2>2, <2>3 DEF LockStep
<1>10. CASE ValidatedReadOnly(t) \/ WroteAll(t)
  <2>1. pc'[t] = "release" /\ UNCHANGED <<m_version_mask, lockedLNodes>>
    BY <1>0, <1>10 DEF ValidatedReadOnly, WroteAll, Goto, lnodeVars, endVars
  <2> QED BY <1>c, <1>d, <2>1
<1>11. CASE AbortEnd(t) \/ UpdateIndex(t) \/ AddToIndex(t) \/ RemoveFromIndex(t) \/ Commit(t)
  <2>1. /\ pc'[t] \in {"idle", "idxAdd", "idxRemove"} /\ UNCHANGED <<m_version_mask, lockedLNodes>>
    BY <1>0, <1>11 DEF AbortEnd, UpdateIndex, AddToIndex, RemoveFromIndex, Commit, Goto, lnodeVars, endVars
  <2>2. (pc[t] = "release" /\ lockedLNodes[t] = {}) \/ pc[t] \in {"idxAdd", "idxRemove"}
    BY <1>11 DEF AbortEnd, UpdateIndex, AddToIndex, RemoveFromIndex, Commit
  <2>3. lockedLNodes[t] = {}
    BY <1>0, <2>2 DEF SHolds, LockLabels, Validating, NodeLabels, PredLabels, BothLabels
  <2> QED BY <1>b, <1>d, <2>1, <2>3
<1> QED
  BY <1>1, <1>2, <1>3, <1>4, <1>5, <1>6, <1>7, <1>8, <1>9, <1>10, <1>11 DEF EndStep, ValidateStep

(* So does a step of a transaction.                                        *)
LEMMA TxLocks ==
  ASSUME STypeInv, SLockInv, StoresLikeCAS, NEW t \in Threads, TXStep(t), UNCHANGED sVars
  PROVE  SLockInv'
<1>1. LockStep(t) /\ SHolds(t)'
  <2>1. CASE OpStep(t)
    <3>1. /\ UNCHANGED <<m_version_mask, lockedLNodes>> /\ pc[t] \notin EndLabels
          /\ pc'[t] \in (Labels \ EndLabels) \cup {"lock"} /\ pc[t] \in Labels
      BY <2>1, OpStepFrame, StepLabels DEF STypeInv
    <3>2. pc[t] \notin LockLabels \cup NodeLabels \cup PredLabels \cup BothLabels
      BY <3>1 DEF Labels, EndLabels, Validating, LockLabels, NodeLabels, PredLabels, BothLabels
    <3>3. lockedLNodes[t] = {}
      BY <3>2 DEF SLockInv, SHolds
    <3>4. SHolds(t)'
      BY <3>1, <3>3 DEF SHolds, TxHolds, Labels, EndLabels, Validating, LockLabels, NodeLabels, PredLabels, BothLabels
    <3> QED BY <3>1, <3>4 DEF LockStep, LockSame
  <2>2. CASE EndStep(t) BY <2>2, EndStepLocks
  <2> QED BY <2>1, <2>2 DEF TXStep
<1>2. \A u \in Threads \ {t} : SHolds(u)'
  <2> TAKE u \in Threads \ {t}
  <2>1. /\ pc'[u] = pc[u] /\ writeSet'[u] = writeSet[u] /\ lockedLNodes'[u] = lockedLNodes[u]
        /\ todo'[u] = todo[u] /\ pred'[u] = pred[u] /\ next'[u] = next[u] /\ node'[u] = node[u]
    BY StepFrame, StepLabels DEF STypeInv, sVars
  <2> QED BY <2>1, HoldsFrame DEF SLockInv
<1>3. LockOwnership'
  BY <1>1, OwnershipStep DEF SLockInv
<1> QED BY <1>1, <1>2, <1>3 DEF SLockInv

(* A singleton that retries holds no lock.                                 *)
LEMMA RetryHolds ==
  ASSUME NEW t \in Threads, pc'[t] \in {"sFind", "sRet", "sIndex", "sUnindex", "idle"},
         lockedLNodes'[t] = {}
  PROVE  SHolds(t)'
BY DEF SHolds, TxHolds, LockLabels, NodeLabels, PredLabels, BothLabels, Validating

(* A step outside a transaction that leaves words and locks alone, from    *)
(* one position to another at which the same nodes are held.               *)
LEMMA QuietLocks ==
  ASSUME STypeInv, SLockInv, NEW t \in Threads, UNCHANGED <<m_version_mask, lockedLNodes>>
  PROVE  LockStep(t)
BY DEF LockStep, LockSame

(* tryLock, or a retry.                                                    *)
LEMMA TryLockLocks ==
  ASSUME STypeInv, SLockInv, NEW t \in Threads, NEW n \in AllNodes, NEW l, TryLock(t, n, l)
  PROVE  /\ LockStep(t) /\ UNCHANGED <<pred, next, node, task, crashed>>
         /\ \/ pc'[t] = "sFind" /\ lockedLNodes'[t] = lockedLNodes[t] /\ isLocked(n)
            \/ pc'[t] = l /\ lockedLNodes'[t] = lockedLNodes[t] \cup {n} /\ n \notin lockedLNodes[t]
<1>1. UNCHANGED <<pred, next, node, task, crashed>>
  BY DEF TryLock, keepVars, opVars, sVars
<1>2. CASE isLocked(n)
  <2>1. UNCHANGED <<m_version_mask, lockedLNodes>> /\ pc'[t] = "sFind"
    BY <1>2, SingletonFacts DEF TryLock, Retry, Goto
  <2> QED BY <1>1, <1>2, <2>1, QuietLocks
<1>3. CASE ~isLocked(n)
  <2>1. /\ tryLock(n) /\ pc'[t] = l
        /\ lockedLNodes' = [lockedLNodes EXCEPT ![t] = @ \cup {n}]
    BY <1>3, SingletonFacts DEF TryLock, Goto
  <2>2. LockTaken(t, n) BY <2>1, tryLockBits
  <2>3. n \notin lockedLNodes[t] BY <1>3 DEF SLockInv, LockOwnership
  <2>4. lockedLNodes'[t] = lockedLNodes[t] \cup {n} BY <2>1, SingletonFacts
  <2> QED BY <1>1, <2>1, <2>2, <2>3, <2>4 DEF LockStep
<1> QED BY <1>2, <1>3

(* unlock by the owner.                                                    *)
LEMMA ReleaseLocks ==
  ASSUME STypeInv, SLockInv, NEW t \in Threads, NEW n \in lockedLNodes[t], NEW l, Release(t, n, l)
  PROVE  /\ LockStep(t) /\ UNCHANGED <<pred, next, node, task, crashed>>
         /\ pc'[t] = l /\ lockedLNodes'[t] = lockedLNodes[t] \ {n}
<1>1. UNCHANGED <<pred, next, node, task>>
  BY DEF Release, keepVars, opVars, sVars
<1>2. /\ unlock(n) /\ pc'[t] = l /\ n \in AllNodes
      /\ lockedLNodes' = [lockedLNodes EXCEPT ![t] = @ \ {n}]
  BY SingletonFacts DEF Release, Goto
<1>3. LockDropped(t, n) /\ UNCHANGED crashed
  BY <1>2, unlockBits DEF SLockInv
<1> QED BY <1>1, <1>2, <1>3, SingletonFacts DEF LockStep

(* A setter called by the owner.                                           *)
LEMMA StampLocks ==
  ASSUME STypeInv, SLockInv, NEW t \in Threads, NEW n \in lockedLNodes[t], NEW w, NEW l,
         Stamp(t, n, w, l), w.lock = m_version_mask[n].lock
  PROVE  /\ LockStep(t) /\ UNCHANGED <<pred, next, node, task, lockedLNodes, crashed>> /\ pc'[t] = l
         /\ m_version_mask' = [m_version_mask EXCEPT ![n] = w]
<1>1. UNCHANGED <<pred, next, node, task, lockedLNodes>> /\ StoreLocked(n, w) /\ pc'[t] = l
  BY SingletonFacts DEF Stamp, keepVars, opVars, sVars, Goto
<1>2. LockSame /\ m_version_mask' = [m_version_mask EXCEPT ![n] = w] /\ UNCHANGED crashed
  BY <1>1, StampBits DEF SLockInv
<1> QED BY <1>1, <1>2 DEF LockStep

(* A crash changes nothing else.                                           *)
LEMMA CrashLocks ==
  ASSUME STypeInv, SLockInv, NEW t \in Threads, Crash(t, "null")
  PROVE  LockStep(t) /\ SHolds(t)'
<1>1. UNCHANGED <<m_version_mask, pc, writeSet, lockedLNodes, todo, pred, next, node>>
  BY DEF Crash, txVars, storeVars, endVars, opVars, sVars
<1>2. SHolds(t)'
  BY <1>1, HoldsFrame DEF SLockInv
<1> QED BY <1>1, <1>2, QuietLocks

(* A call that returns holds nothing.                                      *)
LEMMA SReturnLocks ==
  ASSUME STypeInv, SLockInv, NEW t \in Threads, NEW r, SReturn(t, r), lockedLNodes[t] = {}
  PROVE  LockStep(t) /\ SHolds(t)'
<1>1. UNCHANGED <<m_version_mask, lockedLNodes>> /\ pc'[t] = "idle"
  BY SingletonFacts DEF SReturn, endVars, Goto
<1> QED BY <1>1, QuietLocks, RetryHolds

(* The search holds no lock.                                               *)
LEMMA SFindLocks ==
  ASSUME STypeInv, SLockInv, NEW t \in Threads, SFindStep(t) \/ CallSingleton(t)
  PROVE  LockStep(t) /\ SHolds(t)'
<1> USE DEF LockLabels, NodeLabels, PredLabels, BothLabels
<1>1. lockedLNodes[t] = {}
  <2>1. SHolds(t) BY DEF SLockInv
  <2>2. pc[t] \in {"idle", "sFind", "sPred", "sRead", "sAgain", "sLoop", "sHit", "sStep", "sSame", "sMove",
                   "sNext", "sFound", "sMiss"}
    BY DEF SFindStep, CallSingleton, SFind, SStepBack, SReadNext, SCheckPred, SCompare, SHit, SStep, SSame,
           SMove, SNext, SGet, SMiss
  <2> QED BY <2>1, <2>2 DEF SHolds, Validating
<1>2. CASE SGet(t) \/ SMiss(t)
  BY <1>1, <1>2, CrashLocks, SReturnLocks DEF SGet, SMiss
<1>3. CASE ~(SGet(t) \/ SMiss(t))
  <2>1. UNCHANGED <<m_version_mask, lockedLNodes>>
    BY <1>3 DEF SFindStep, CallSingleton, SFind, SStepBack, SReadNext, SCheckPred, SCompare, SHit, SStep,
           SSame, SMove, SNext, findVars, lnodeVars, endVars
  <2>2. pc'[t] \in {"sFind", "sPred", "sRead", "sAgain", "sLoop", "sHit", "sStep", "sSame", "sMove",
                   "sNext", "sFound", "sMiss"}
    BY <1>3, SingletonFacts DEF SFindStep, CallSingleton, SFind, SStepBack, SReadNext, SCheckPred, SCompare,
           SHit, SStep, SSame, SMove, SNext, Goto, Retry
  <2>3. SHolds(t)'
    BY <1>1, <2>1, <2>2 DEF SHolds, TxHolds, Validating
  <2> QED BY <2>1, <2>3, QuietLocks
<1> QED BY <1>2, <1>3

(* putSingleton respects the locks.                                        *)
LEMMA SPutLocks ==
  ASSUME STypeInv, SLockInv, StoresLikeCAS, NEW t \in Threads, SPutStep(t)
  PROVE  LockStep(t) /\ SHolds(t)'
<1> USE DEF LockLabels, NodeLabels, PredLabels, BothLabels
<1>0. /\ SHolds(t) /\ pred[t] \in AllNodes /\ (node[t] # Null => node[t] \in AllNodes)
      /\ pc[t] \in HasNode => node[t] \in AllNodes
  BY SingletonFacts DEF SLockInv, STypeInv, SRefs, NodeOrNull
<1>n. ASSUME pc'[t] \in NodeLabels, lockedLNodes'[t] = {node'[t]} PROVE SHolds(t)'
  BY <1>n DEF SHolds, TxHolds, Validating
<1>p. ASSUME pc'[t] \in PredLabels, lockedLNodes'[t] = {pred'[t]} PROVE SHolds(t)'
  BY <1>p DEF SHolds, TxHolds, Validating
<1>1. CASE SPutRead(t)
  <2>1. pc[t] = "sFound" /\ UNCHANGED <<m_version_mask, lockedLNodes>> /\ pc'[t] = "sLockVal"
    BY <1>1, SingletonFacts DEF SPutRead, Goto
  <2>2. SHolds(t)'
    BY <1>0, <2>1 DEF SHolds, TxHolds, Validating
  <2> QED BY <2>1, <2>2, QuietLocks
<1>2. CASE SPutLock(t)
  <2>1. CASE node[t] = Null
    BY <1>2, <2>1, CrashLocks DEF SPutLock
  <2>2. CASE node[t] # Null
    <3>1. pc[t] = "sLockVal" /\ TryLock(t, node[t], "sChkVal")
      BY <1>2, <2>2 DEF SPutLock
    <3>2. lockedLNodes[t] = {}
      BY <1>0, <3>1 DEF SHolds, Validating
    <3>3. LockStep(t) /\ UNCHANGED node
          /\ (\/ pc'[t] = "sFind" /\ lockedLNodes'[t] = {}
              \/ pc'[t] = "sChkVal" /\ lockedLNodes'[t] = {node[t]})
      BY <1>0, <2>2, <3>1, <3>2, TryLockLocks
    <3> QED BY <1>n, <3>3, RetryHolds
  <2> QED BY <2>1, <2>2
<1>3. CASE SPutCheck(t)
  <2>1. pc[t] = "sChkVal" /\ lockedLNodes[t] = {node[t]}
    BY <1>0, <1>3 DEF SPutCheck, SHolds
  <2>2. \/ Crash(t, "null") \/ Release(t, node[t], "sFind")
        \/ Goto(t, "sPutVal") /\ UNCHANGED <<lnodeVars, lockedLNodes, sVars>>
    BY <1>3 DEF SPutCheck
  <2>3. CASE Release(t, node[t], "sFind")
    BY <2>1, <2>3, ReleaseLocks, RetryHolds
  <2>4. CASE Goto(t, "sPutVal") /\ UNCHANGED <<lnodeVars, lockedLNodes, sVars>>
    <3>1. pc'[t] = "sPutVal" /\ UNCHANGED <<m_version_mask, lockedLNodes, node>>
      BY <2>4, SingletonFacts DEF Goto, lnodeVars, sVars
    <3> QED BY <1>n, <2>1, <3>1, QuietLocks
  <2> QED BY <2>2, <2>3, <2>4, CrashLocks
<1>4. CASE SPutVal(t)
  <2>1. pc[t] = "sPutVal" /\ pc'[t] = "sSetSng" /\ UNCHANGED <<m_version_mask, lockedLNodes, node>>
    BY <1>4, SingletonFacts DEF SPutVal, Goto
  <2>2. lockedLNodes[t] = {node[t]} BY <1>0, <2>1 DEF SHolds
  <2> QED BY <1>n, <2>1, <2>2, QuietLocks
<1>5. CASE SSetSingleton(t) \/ SSetVersion(t)
  <2>1. pc[t] \in {"sSetSng", "sSetVer"} /\ node[t] \in AllNodes
    BY <1>0, <1>5 DEF SSetSingleton, SSetVersion, HasNode
  <2>2. lockedLNodes[t] = {node[t]} BY <1>0, <2>1 DEF SHolds
  <2>3. m_version_mask[node[t]] \in Word BY <2>1, SingletonFacts
  <2>4. /\ [m_version_mask[node[t]] EXCEPT !.sing = TRUE].lock = m_version_mask[node[t]].lock
        /\ [m_version_mask[node[t]] EXCEPT !.ver = writeVersion[t]].lock = m_version_mask[node[t]].lock
    BY <2>3 DEF Word
  <2>5. PICK w, l : /\ Stamp(t, node[t], w, l) /\ w.lock = m_version_mask[node[t]].lock
                     /\ l \in {"sVerPut", "sUnlockVal"}
    BY <1>5, <2>4 DEF SSetSingleton, SSetVersion
  <2>6. LockStep(t) /\ UNCHANGED <<node, lockedLNodes>> /\ pc'[t] = l
    BY <2>2, <2>5, StampLocks
  <2> QED BY <1>n, <2>2, <2>5, <2>6
<1>6. CASE SPutUnlock(t)
  <2>1. pc[t] = "sUnlockVal" /\ Release(t, node[t], "sRet") BY <1>6 DEF SPutUnlock
  <2>2. lockedLNodes[t] = {node[t]} BY <1>0, <2>1 DEF SHolds
  <2> QED BY <2>1, <2>2, ReleaseLocks, RetryHolds
<1>7. CASE SPutReturn(t) \/ SInsIndex(t)
  <2>1. pc[t] \in {"sRet", "sIndex"} BY <1>7 DEF SPutReturn, SInsIndex
  <2>2. lockedLNodes[t] = {} BY <1>0, <2>1 DEF SHolds, Validating
  <2> QED BY <1>7, <2>2, SReturnLocks DEF SPutReturn, SInsIndex
<1>8. CASE SInsLock(t)
  <2>1. pc[t] = "sMiss" /\ TryLock(t, pred[t], "sChkIns") BY <1>8 DEF SInsLock
  <2>2. lockedLNodes[t] = {} BY <1>0, <2>1 DEF SHolds, Validating
  <2>3. LockStep(t) /\ UNCHANGED pred
        /\ (\/ pc'[t] = "sFind" /\ lockedLNodes'[t] = {}
            \/ pc'[t] = "sChkIns" /\ lockedLNodes'[t] = {pred[t]})
    BY <1>0, <2>1, <2>2, TryLockLocks
  <2> QED BY <1>p, <2>3, RetryHolds
<1>9. CASE SInsCheck(t)
  <2>1. pc[t] = "sChkIns" /\ lockedLNodes[t] = {pred[t]}
    BY <1>0, <1>9 DEF SInsCheck, SHolds
  <2>2. \/ Release(t, pred[t], "sFind")
        \/ Goto(t, "sLink") /\ UNCHANGED <<lnodeVars, lockedLNodes, keepVars>>
    BY <1>9 DEF SInsCheck
  <2>3. CASE Release(t, pred[t], "sFind")
    BY <2>1, <2>3, ReleaseLocks, RetryHolds
  <2>4. CASE Goto(t, "sLink") /\ UNCHANGED <<lnodeVars, lockedLNodes, keepVars>>
    <3>1. pc'[t] = "sLink" /\ UNCHANGED <<m_version_mask, lockedLNodes, pred>>
      BY <2>4, SingletonFacts DEF Goto, lnodeVars, keepVars, opVars
    <3> QED BY <1>p, <2>1, <3>1, QuietLocks
  <2> QED BY <2>2, <2>3, <2>4
<1>10. CASE SLink(t) \/ SLoadWord(t)
  <2>1. /\ pc[t] \in {"sLink", "sLoad"} /\ pc'[t] \in {"sVerIns", "sStore"}
        /\ UNCHANGED <<m_version_mask, lockedLNodes, pred>>
    BY <1>10, SingletonFacts DEF SLink, SLoadWord, Goto, keepVars, opVars
  <2>2. lockedLNodes[t] = {pred[t]} BY <1>0, <2>1 DEF SHolds
  <2> QED BY <1>p, <2>1, <2>2, QuietLocks
<1>11. CASE SStoreWord(t)
  <2> DEFINE w == [word[t] EXCEPT !.ver = writeVersion[t], !.sing = TRUE]
  <2>1. /\ m_version_mask' = [m_version_mask EXCEPT ![node[t]] = w] /\ pc[t] = "sStore"
        /\ pc'[t] = "sUnlockIns" /\ UNCHANGED <<lockedLNodes, pred>>
    BY <1>11, SingletonFacts DEF SStoreWord, Goto, keepVars, opVars
  <2>2. node[t] \in AllNodes BY <1>0, <2>1 DEF HasNode
  <2>3. word[t] = m_version_mask[node[t]] BY <1>11 DEF StoresLikeCAS
  <2>4. w.lock = m_version_mask[node[t]].lock
    BY <2>2, <2>3, SingletonFacts DEF Word
  <2>5. lockedLNodes[t] = {pred[t]} BY <1>0, <2>1 DEF SHolds
  <2> HIDE DEF w
  <2>6. LockStep(t) BY <2>1, <2>2, <2>4, StoreBits DEF LockStep
  <2> QED BY <1>p, <2>1, <2>5, <2>6
<1>12. CASE SInsUnlock(t)
  <2>1. pc[t] = "sUnlockIns" /\ Release(t, pred[t], "sIndex") BY <1>12 DEF SInsUnlock
  <2>2. lockedLNodes[t] = {pred[t]} BY <1>0, <2>1 DEF SHolds
  <2> QED BY <2>1, <2>2, ReleaseLocks, RetryHolds
<1> QED
  BY <1>1, <1>2, <1>3, <1>4, <1>5, <1>6, <1>7, <1>8, <1>9, <1>10, <1>11, <1>12 DEF SPutStep

(* removeSingleton respects the locks.                                     *)
LEMMA SRemoveLocks ==
  ASSUME STypeInv, SLockInv, NEW t \in Threads, SRemoveStep(t)
  PROVE  LockStep(t) /\ SHolds(t)'
<1> USE DEF LockLabels, NodeLabels, PredLabels, BothLabels
<1>0. /\ SHolds(t) /\ pred[t] \in AllNodes /\ (next[t] # Null => next[t] \in AllNodes)
      /\ pc[t] \in HasNext => next[t] \in AllNodes
  BY SingletonFacts DEF SLockInv, STypeInv, SRefs, NodeOrNull
<1>p. ASSUME pc'[t] \in PredLabels, lockedLNodes'[t] = {pred'[t]} PROVE SHolds(t)'
  BY <1>p DEF SHolds, TxHolds, Validating
<1>b. ASSUME pc'[t] \in BothLabels, lockedLNodes'[t] = {pred'[t], next'[t]}, pred'[t] # next'[t]
      PROVE  SHolds(t)'
  BY <1>b DEF SHolds, TxHolds, Validating
<1>1. CASE SRemLock(t)
  <2>1. pc[t] = "sFound" /\ TryLock(t, pred[t], "sChkRem") BY <1>1 DEF SRemLock
  <2>2. lockedLNodes[t] = {} BY <1>0, <2>1 DEF SHolds, Validating
  <2>3. LockStep(t) /\ UNCHANGED pred
        /\ (\/ pc'[t] = "sFind" /\ lockedLNodes'[t] = {}
            \/ pc'[t] = "sChkRem" /\ lockedLNodes'[t] = {pred[t]})
    BY <1>0, <2>1, <2>2, TryLockLocks
  <2> QED BY <1>p, <2>3, RetryHolds
<1>2. CASE SRemCheck(t)
  <2>1. pc[t] = "sChkRem" /\ lockedLNodes[t] = {pred[t]}
    BY <1>0, <1>2 DEF SRemCheck, SHolds
  <2>2. \/ Release(t, pred[t], "sFind")
        \/ Goto(t, "sLockDel") /\ UNCHANGED <<lnodeVars, lockedLNodes, keepVars>>
    BY <1>2 DEF SRemCheck
  <2>3. CASE Release(t, pred[t], "sFind")
    BY <2>1, <2>3, ReleaseLocks, RetryHolds
  <2>4. CASE Goto(t, "sLockDel") /\ UNCHANGED <<lnodeVars, lockedLNodes, keepVars>>
    <3>1. pc'[t] = "sLockDel" /\ UNCHANGED <<m_version_mask, lockedLNodes, pred>>
      BY <2>4, SingletonFacts DEF Goto, lnodeVars, keepVars, opVars
    <3> QED BY <1>p, <2>1, <3>1, QuietLocks
  <2> QED BY <2>2, <2>3, <2>4
<1>3. CASE SRemLockVictim(t)
  <2>1. pc[t] = "sLockDel" /\ lockedLNodes[t] = {pred[t]}
    BY <1>0, <1>3 DEF SRemLockVictim, SHolds
  <2>2. \/ Crash(t, "null") \/ Release(t, pred[t], "sFind")
        \/ next[t] # Null /\ ~isLocked(next[t]) /\ TryLock(t, next[t], "sClear")
    BY <1>3 DEF SRemLockVictim
  <2>3. CASE Release(t, pred[t], "sFind")
    BY <2>1, <2>3, ReleaseLocks, RetryHolds
  <2>4. CASE next[t] # Null /\ ~isLocked(next[t]) /\ TryLock(t, next[t], "sClear")
    <3>1. /\ LockStep(t) /\ UNCHANGED <<pred, next>> /\ pc'[t] = "sClear"
          /\ lockedLNodes'[t] = lockedLNodes[t] \cup {next[t]} /\ next[t] \notin lockedLNodes[t]
      BY <1>0, <2>4, TryLockLocks
    <3> QED BY <1>b, <2>1, <3>1
  <2> QED BY <2>2, <2>3, <2>4, CrashLocks
<1>4. CASE SRemClear(t)
  <2>1. pc[t] = "sClear" /\ pc'[t] = "sUnlink" /\ UNCHANGED <<m_version_mask, lockedLNodes, pred, next>>
    BY <1>4, SingletonFacts DEF SRemClear, Goto, keepVars, opVars
  <2>2. lockedLNodes[t] = {pred[t], next[t]} /\ pred[t] # next[t] BY <1>0, <2>1 DEF SHolds
  <2> QED BY <1>b, <2>1, <2>2, QuietLocks
<1>5. CASE SRemUnlink(t)
  <2>1. CASE m_next[pred[t]] = Null
    BY <1>5, <2>1, CrashLocks DEF SRemUnlink
  <2>2. CASE m_next[pred[t]] # Null
    <3>1. /\ pc[t] = "sUnlink" /\ pc'[t] = "sVerRem"
          /\ UNCHANGED <<m_version_mask, lockedLNodes, pred, next>>
      BY <1>5, <2>2, SingletonFacts DEF SRemUnlink, Goto, keepVars, opVars
    <3>2. lockedLNodes[t] = {pred[t], next[t]} /\ pred[t] # next[t] BY <1>0, <3>1 DEF SHolds
    <3> QED BY <1>b, <3>1, <3>2, QuietLocks
  <2> QED BY <2>1, <2>2
<1>6. CASE SRemStampVictim(t)
  <2> DEFINE w == [m_version_mask[next[t]] EXCEPT !.ver = writeVersion[t], !.del = TRUE, !.sing = TRUE]
  <2>1. pc[t] = "sStampDel" /\ Stamp(t, next[t], w, "sStampPred") BY <1>6 DEF SRemStampVictim
  <2>2. lockedLNodes[t] = {pred[t], next[t]} /\ pred[t] # next[t] BY <1>0, <2>1 DEF SHolds
  <2>3. next[t] \in AllNodes BY <1>0, <2>1 DEF HasNext
  <2>4. w.lock = m_version_mask[next[t]].lock BY <2>3, SingletonFacts DEF Word
  <2> HIDE DEF w
  <2>5. LockStep(t) /\ UNCHANGED <<pred, next, lockedLNodes>> /\ pc'[t] = "sStampPred"
    BY <2>1, <2>2, <2>4, StampLocks
  <2> QED BY <1>b, <2>2, <2>5
<1>7. CASE SRemStampPred(t)
  <2> DEFINE w == [m_version_mask[pred[t]] EXCEPT !.ver = writeVersion[t], !.sing = TRUE]
  <2>1. pc[t] = "sStampPred" /\ Stamp(t, pred[t], w, "sUnlockDel") BY <1>7 DEF SRemStampPred
  <2>2. lockedLNodes[t] = {pred[t], next[t]} /\ pred[t] # next[t] BY <1>0, <2>1 DEF SHolds
  <2>3. w.lock = m_version_mask[pred[t]].lock BY <1>0, SingletonFacts DEF Word
  <2> HIDE DEF w
  <2>4. LockStep(t) /\ UNCHANGED <<pred, next, lockedLNodes>> /\ pc'[t] = "sUnlockDel"
    BY <2>1, <2>2, <2>3, StampLocks
  <2> QED BY <1>b, <2>2, <2>4
<1>8. CASE SRemUnlockVictim(t)
  <2>1. pc[t] = "sUnlockDel" /\ Release(t, next[t], "sUnlockPred") BY <1>8 DEF SRemUnlockVictim
  <2>2. lockedLNodes[t] = {pred[t], next[t]} /\ pred[t] # next[t] BY <1>0, <2>1 DEF SHolds
  <2>3. /\ LockStep(t) /\ UNCHANGED pred /\ pc'[t] = "sUnlockPred"
        /\ lockedLNodes'[t] = lockedLNodes[t] \ {next[t]}
    BY <2>1, <2>2, ReleaseLocks
  <2>4. lockedLNodes'[t] = {pred[t]} BY <2>2, <2>3
  <2> QED BY <1>p, <2>3, <2>4
<1>9. CASE SRemUnlockPred(t)
  <2>1. pc[t] = "sUnlockPred" /\ Release(t, pred[t], "sUnindex") BY <1>9 DEF SRemUnlockPred
  <2>2. lockedLNodes[t] = {pred[t]} BY <1>0, <2>1 DEF SHolds
  <2> QED BY <2>1, <2>2, ReleaseLocks, RetryHolds
<1>10. CASE SRemReturn(t)
  <2>1. pc[t] = "sUnindex" BY <1>10 DEF SRemReturn
  <2>2. lockedLNodes[t] = {} BY <1>0, <2>1 DEF SHolds, Validating
  <2> QED BY <1>10, <2>2, SReturnLocks DEF SRemReturn
<1> QED BY <1>1, <1>2, <1>3, <1>4, <1>5, <1>6, <1>7, <1>8, <1>9, <1>10 DEF SRemoveStep

(* So does every step outside a transaction.                               *)
LEMMA SingletonLocks ==
  ASSUME STypeInv, SLockInv, StoresLikeCAS, NEW t \in Threads, SingletonStep(t)
  PROVE  SLockInv'
<1>1. LockStep(t) /\ SHolds(t)'
  <2>1. CASE LoadClock(t)
    <3>1. UNCHANGED <<m_version_mask, lockedLNodes, node, pred, next>>
      BY <2>1 DEF LoadClock, sVars, keepVars, opVars
    <3>2. \/ pc[t] = "sVerPut" /\ pc'[t] = "sSetVer"
          \/ pc[t] = "sVerIns" /\ pc'[t] = "sLoad"
          \/ pc[t] = "sVerRem" /\ pc'[t] = "sStampDel"
      BY <2>1, SingletonFacts DEF LoadClock, Goto
    <3>3. SHolds(t)'
      BY <3>1, <3>2 DEF SLockInv, SHolds, TxHolds, LockLabels, NodeLabels, PredLabels, BothLabels, Validating
    <3> QED BY <3>1, <3>3, QuietLocks
  <2> QED BY <2>1, SFindLocks, SPutLocks, SRemoveLocks DEF SingletonStep
<1>2. \A u \in Threads \ {t} : SHolds(u)'
  <2> TAKE u \in Threads \ {t}
  <2>1. /\ pc'[u] = pc[u] /\ writeSet'[u] = writeSet[u] /\ lockedLNodes'[u] = lockedLNodes[u]
        /\ todo'[u] = todo[u] /\ pred'[u] = pred[u] /\ next'[u] = next[u] /\ node'[u] = node[u]
    BY SingletonFrame DEF storeVars
  <2> QED BY <2>1, HoldsFrame DEF SLockInv
<1>3. LockOwnership'
  BY <1>1, OwnershipStep DEF SLockInv
<1> QED BY <1>1, <1>2, <1>3 DEF SLockInv

(* Nothing is locked at first.                                             *)
LEMMA SLockInit == SInit => SLockInv
<1> SUFFICES ASSUME SInit PROVE SLockInv
  OBVIOUS
<1>1. LockOwnership
  BY LockInit DEF SInit, LockInv
<1>2. \A t \in Threads : pc[t] = "idle" /\ lockedLNodes[t] = {}
  BY DEF SInit, TXInit
<1> QED BY <1>1, <1>2 DEF SLockInv, SHolds, TxHolds, NodeLabels, PredLabels, BothLabels, Validating

(* Every step that stores like a compare-and-swap respects the locks.      *)
LEMMA SLockNext == STypeInv /\ SLockInv /\ [Next]_allVars /\ [StoresLikeCAS]_allVars => SLockInv'
<1> SUFFICES ASSUME STypeInv, SLockInv, [Next]_allVars, [StoresLikeCAS]_allVars PROVE SLockInv'
  OBVIOUS
<1>1. CASE UNCHANGED allVars
  <2>1. UNCHANGED <<m_version_mask, pc, writeSet, lockedLNodes, todo, pred, next, node>>
    BY <1>1 DEF allVars, vars, txVars, lnodeVars, storeVars, endVars, opVars, sVars
  <2>2. \A u \in Threads : SHolds(u)' BY <2>1, HoldsFrame DEF SLockInv
  <2>3. LockOwnership' BY <2>1 DEF SLockInv, LockOwnership, isLocked
  <2> QED BY <2>2, <2>3 DEF SLockInv
<1>2. ASSUME NEW t \in Threads, Step(t), StoresLikeCAS PROVE SLockInv'
  BY <1>2, TxLocks, SingletonLocks DEF Step
<1> QED BY <1>1, <1>2 DEF Next, Finished, allVars

(* Mutual exclusion with singletons: if the two stores of a loaded word    *)
(* found the word they loaded, the lock bit of a node would be set exactly *)
(* while one thread is between its tryLock and its unlock.                 *)
LEMMA CompositionLocks == Spec /\ [][StoresLikeCAS]_allVars => []LockOwnership
<1>1. SLockInv => LockOwnership BY DEF SLockInv
<1> QED BY <1>1, STypeInit, STypeNext, SLockInit, SLockNext, PTL DEF Spec

-----------------------------------------------------------------------------
(* Nodes only change under their lock *)

(* What a step of t may do to the words: a version grows, and becomes the  *)
(* one t took if t owns the node or nobody does; a deletion stays.         *)
WordsStep(t) ==
  \A n \in AllNodes :
    /\ m_version_mask[n].ver <= m_version_mask'[n].ver
    /\ m_version_mask[n].del => m_version_mask'[n].del
    /\ \/ m_version_mask'[n].ver = m_version_mask[n].ver
       \/ m_version_mask'[n].ver = writeVersion[t] /\ (n \in lockedLNodes[t] \/ ~isLocked(n))

(* What it may do to the fields.                                           *)
FieldsStep ==
  \A n \in allocated :
    /\ isLocked(n) \/ (m_next'[n] = m_next[n] /\ m_val'[n] = m_val[n])
    /\ m_key'[n] = m_key[n]

(* A thread comes to stamp nodes with a version it has just taken.         *)
StampEntry(t) ==
  pc'[t] \in StampLabels =>
    \/ pc[t] \in StampLabels /\ writeVersion'[t] = writeVersion[t] /\ lockedLNodes'[t] = lockedLNodes[t]
    \/ UNCHANGED m_version_mask /\ gvc <= writeVersion'[t]

StableStep(t) == WordsStep(t) /\ FieldsStep /\ StampEntry(t)

(* Such a step leaves every node as NodeStep says.                         *)
LEMMA StableNode ==
  ASSUME STypeInv, NEW t \in Threads, StableStep(t)
  PROVE  NodeStep
<1>1. allocated \subseteq AllNodes
  BY SingletonFacts
<1> QED BY <1>1 DEF StableStep, WordsStep, FieldsStep, NodeStep, getVersion, isDeleted

(* And no node comes to be newer than the version its owner will stamp.    *)
LEMMA StableStamps ==
  ASSUME STypeInv, STypeInv', SLockInv, SClockInv, SStampInv, NEW t \in Threads, StableStep(t),
         \A u \in Threads \ {t} : /\ pc'[u] = pc[u] /\ lockedLNodes'[u] = lockedLNodes[u]
                                  /\ writeVersion'[u] = writeVersion[u]
  PROVE  SStampInv'
<1>0. /\ lockedLNodes \in [Threads -> SUBSET AllNodes] /\ gvc \in Nat
      /\ \A n \in AllNodes : m_version_mask[n].ver \in Nat /\ m_version_mask[n].ver <= gvc
      /\ lockedLNodes' \in [Threads -> SUBSET AllNodes] /\ writeVersion \in [Threads -> Nat]
      /\ \A u \in Threads : writeVersion'[u] \in Nat
  BY DEF STypeInv, TypeInv, MemoryTypeOK, LNodeTypeOK, LocalsTypeOK, EndTypeOK, Word, SClockInv,
         ClockBound, getVersion
<1>1. ASSUME NEW u \in Threads \ {t}, pc'[u] \in StampLabels, NEW n \in lockedLNodes'[u]
      PROVE  m_version_mask'[n].ver <= writeVersion'[u]
  <2>1. n \in lockedLNodes[u] /\ pc[u] \in StampLabels /\ n \in AllNodes
    BY <1>0, <1>1
  <2>2. isLocked(n) /\ n \notin lockedLNodes[t]
    BY <1>0, <2>1 DEF SLockInv, LockOwnership
  <2>3. m_version_mask'[n].ver = m_version_mask[n].ver
    BY <2>1, <2>2 DEF StableStep, WordsStep
  <2> QED BY <2>1, <2>3 DEF SStampInv, getVersion
<1>2. ASSUME pc'[t] \in StampLabels, NEW n \in lockedLNodes'[t]
      PROVE  m_version_mask'[n].ver <= writeVersion'[t]
  <2>0. n \in AllNodes
    BY <1>0, <1>2
  <2>1. CASE pc[t] \in StampLabels /\ writeVersion'[t] = writeVersion[t] /\ lockedLNodes'[t] = lockedLNodes[t]
    <3>1. m_version_mask[n].ver <= writeVersion[t]
      BY <1>2, <2>1 DEF SStampInv, getVersion
    <3>2. m_version_mask'[n].ver \in {m_version_mask[n].ver, writeVersion[t]}
      BY <2>0 DEF StableStep, WordsStep
    <3> QED BY <1>0, <2>1, <3>1, <3>2
  <2>2. CASE UNCHANGED m_version_mask /\ gvc <= writeVersion'[t]
    BY <1>0, <2>0, <2>2
  <2> QED BY <1>2, <2>1, <2>2 DEF StableStep, StampEntry
<1> QED BY <1>1, <1>2 DEF SStampInv, getVersion

(* A step that stores no word.                                             *)
LEMMA QuietWords ==
  ASSUME STypeInv, NEW t \in Threads, UNCHANGED m_version_mask
  PROVE  WordsStep(t)
BY SingletonFacts DEF WordsStep, Word

(* A step that stores one word.                                            *)
LEMMA OneWord ==
  ASSUME STypeInv, NEW t \in Threads, NEW n \in AllNodes, NEW w,
         m_version_mask' = [m_version_mask EXCEPT ![n] = w] \/ UNCHANGED m_version_mask,
         m_version_mask[n].ver <= w.ver, m_version_mask[n].del => w.del,
         \/ w.ver = m_version_mask[n].ver
         \/ w.ver = writeVersion[t] /\ (n \in lockedLNodes[t] \/ ~isLocked(n))
  PROVE  WordsStep(t)
<1>0. m_version_mask \in [AllNodes -> Word]
  BY SingletonFacts
<1>1. CASE UNCHANGED m_version_mask
  BY <1>1, QuietWords
<1>2. CASE m_version_mask' = [m_version_mask EXCEPT ![n] = w]
  <2>1. m_version_mask'[n] = w /\ \A m \in AllNodes \ {n} : m_version_mask'[m] = m_version_mask[m]
    BY <1>0, <1>2
  <2>2. \A m \in AllNodes : m_version_mask[m].ver <= m_version_mask[m].ver
    BY <1>0 DEF Word
  <2> QED BY <2>1, <2>2 DEF WordsStep
<1> QED BY <1>1, <1>2

(* tryLock and unlock change the lock bit only.                            *)
LEMMA LockWords ==
  ASSUME STypeInv, NEW t \in Threads, NEW n \in AllNodes,
         tryLock(n) \/ unlock(n) \/ UNCHANGED m_version_mask
  PROVE  WordsStep(t)
<1>0. m_version_mask \in [AllNodes -> Word]
  BY SingletonFacts
<1>1. PICK b \in BOOLEAN :
        \/ m_version_mask' = [m_version_mask EXCEPT ![n] = [m_version_mask[n] EXCEPT !.lock = b]]
        \/ UNCHANGED m_version_mask
  BY <1>0, tryLockType DEF unlock, StoreLocked
<1> DEFINE w == [m_version_mask[n] EXCEPT !.lock = b]
<1>2. w.ver = m_version_mask[n].ver /\ w.del = m_version_mask[n].del /\ m_version_mask[n].ver <= w.ver
  BY <1>0 DEF Word
<1> HIDE DEF w
<1>3. m_version_mask' = [m_version_mask EXCEPT ![n] = w] \/ UNCHANGED m_version_mask
  BY <1>1 DEF w
<1> QED BY <1>2, <1>3, OneWord

(* A step that leaves fields alone.                                        *)
LEMMA QuietFields ==
  ASSUME UNCHANGED <<m_key, m_val, m_next>>
  PROVE  FieldsStep
BY DEF FieldsStep

(* The steps of a transaction.                                             *)
LEMMA TxStable ==
  ASSUME STypeInv, SLockInv, SStampInv, StoresLikeCAS, NEW t \in Threads, TXStep(t)
  PROVE  StableStep(t)
<1>0. /\ m_version_mask \in [AllNodes -> Word] /\ allocated \subseteq AllNodes
      /\ m_key \in [AllNodes -> Nat] /\ gvc \in Nat
      /\ m_next \in [AllNodes -> NodeOrNull] /\ m_val \in [AllNodes -> ValOrNone]
      /\ lockedLNodes \in [Threads -> SUBSET AllNodes] /\ pred \in [Threads -> AllNodes]
      /\ todo \in [Threads -> SUBSET AllNodes] /\ word \in [Threads -> Word]
      /\ writeVersion \in [Threads -> Nat] /\ pc = [u \in Threads |-> pc[u]]
      /\ TypeInv /\ TxHolds(t) /\ LockOwnership
  BY DEF STypeInv, TypeInv, MemoryTypeOK, LNodeTypeOK, LocalsTypeOK, OpTypeOK, EndTypeOK, SLockInv, SHolds
<1>a. ASSUME pc'[t] \notin StampLabels PROVE StampEntry(t)
  BY <1>a DEF StampEntry
<1>b. \A n \in AllNodes : n \in lockedLNodes[t] => isLocked(n)
  BY <1>0 DEF LockOwnership
<1> USE DEF StableStep
<1>1. CASE OpStep(t)
  <2>1. UNCHANGED m_version_mask /\ pc'[t] \notin StampLabels
    BY <1>0, <1>1, OpStepFrame DEF EndLabels, Validating, Labels, StampLabels
  <2>2. FieldsStep
    <3>1. CASE UNCHANGED <<m_key, m_val, m_next>> BY <3>1, QuietFields
    <3>2. CASE PutNew(t)
      <4>1. \A n \in allocated : m_next'[n] = m_next[n] /\ m_val'[n] = m_val[n] /\ m_key'[n] = m_key[n]
        BY <1>0, <3>2 DEF PutNew
      <4> QED BY <4>1 DEF FieldsStep
    <3> QED BY <1>1, <3>1, <3>2, OpStepHeap
  <2> QED BY <1>a, <2>1, <2>2, QuietWords
<1>2. CASE LockNode(t) \/ ReleaseNode(t)
  <2>1. PICK n \in AllNodes : tryLock(n) \/ unlock(n) \/ UNCHANGED m_version_mask
    BY <1>0, <1>2 DEF LockNode, ReleaseNode, WriteNodes
  <2>2. UNCHANGED <<m_key, m_val, m_next>> /\ pc'[t] \notin StampLabels
    BY <1>0, <1>2 DEF LockNode, ReleaseNode, nodeVars, Goto, StampLabels
  <2> QED BY <1>a, <2>1, <2>2, LockWords, QuietFields
<1>3. CASE WriteNode(t)
  <2>1. PICK n \in todo[t] : /\ m_next' = [m_next EXCEPT ![n] = writeSet[t][n].next]
                             /\ m_val' = [m_val EXCEPT ![n] = writeSet[t][n].val]
    BY <1>3 DEF WriteNode
  <2>2. /\ UNCHANGED <<m_key, m_version_mask, lockedLNodes, writeVersion>> /\ pc[t] = "write"
    BY <1>3 DEF WriteNode, versVars
  <2>3. n \in AllNodes /\ isLocked(n)
    BY <1>0, <1>b, <2>2 DEF TxHolds
  <2>4. \A m \in AllNodes \ {n} : m_next'[m] = m_next[m] /\ m_val'[m] = m_val[m]
    BY <1>0, <2>1
  <2>5. FieldsStep BY <1>0, <2>2, <2>3, <2>4 DEF FieldsStep
  <2>6. StampEntry(t) BY <2>2 DEF StampEntry, StampLabels
  <2> QED BY <2>2, <2>5, <2>6, QuietWords
<1>4. CASE StampNode(t)
  <2> DEFINE n == pred[t]
             w == [m_version_mask[n] EXCEPT !.ver = writeVersion[t],
                     !.del = @ \/ writeSet[t][n].deleted, !.sing = FALSE]
  <2>1. /\ pc[t] = "stamp" /\ StoreLocked(n, w) /\ UNCHANGED <<m_key, m_next, lockedLNodes, writeVersion>>
        /\ m_val' = [m_val EXCEPT ![n] = IF writeSet[t][n].deleted THEN NoVal ELSE @]
    BY <1>4 DEF StampNode, versVars, endVars
  <2>2. n \in AllNodes /\ w.ver = writeVersion[t] /\ (m_version_mask[n].del => w.del)
    BY <1>0 DEF Word
  <2>3. n \in lockedLNodes[t] /\ isLocked(n)
    BY <1>0, <1>b, <2>1, <2>2 DEF TxHolds
  <2>4. m_version_mask[n].ver <= writeVersion[t]
    BY <2>1, <2>3 DEF SStampInv, StampLabels, getVersion
  <2> HIDE DEF n, w
  <2>5. m_version_mask' = [m_version_mask EXCEPT ![n] = w]
    BY <2>1, <2>3 DEF StoreLocked
  <2>6. WordsStep(t)
    BY <2>2, <2>3, <2>4, <2>5, OneWord
  <2>7. \A m \in AllNodes \ {n} : m_val'[m] = m_val[m]
    BY <1>0, <2>1
  <2>8. FieldsStep BY <1>0, <2>1, <2>3, <2>7 DEF FieldsStep
  <2>9. StampEntry(t) BY <2>1 DEF StampEntry, StampLabels
  <2> QED BY <2>6, <2>8, <2>9
<1>5. CASE TakeVersion(t)
  <2>1. /\ UNCHANGED <<m_key, m_val, m_next, m_version_mask>>
        /\ writeVersion' = [writeVersion EXCEPT ![t] = gvc + 1]
    BY <1>5 DEF TakeVersion, nodeVars
  <2>2. gvc <= writeVersion'[t] BY <1>0, <2>1
  <2> QED BY <2>1, <2>2, QuietWords, QuietFields DEF StampEntry
<1>6a. CASE ValidateStep(t)
  <2>1. UNCHANGED <<m_key, m_val, m_next, m_version_mask>> /\ pc'[t] \notin StampLabels
    BY <1>0, <1>6a, ValidateFrame DEF nodeVars, Validating, StampLabels
  <2> QED BY <1>a, <2>1, QuietWords, QuietFields
<1>6. CASE \/ LockedAll(t) \/ ValidatedReadOnly(t) \/ WroteAll(t) \/ setSingletonLoad(t)
           \/ AbortEnd(t) \/ UpdateIndex(t) \/ AddToIndex(t) \/ RemoveFromIndex(t) \/ Commit(t)
  <2>1. UNCHANGED <<m_key, m_val, m_next, m_version_mask>>
    BY <1>6 DEF LockedAll, ValidatedReadOnly, WroteAll, setSingletonLoad, AbortEnd, UpdateIndex,
           AddToIndex, RemoveFromIndex, Commit, lnodeVars, nodeVars
  <2>2. pc'[t] \notin StampLabels
    BY <1>0, <1>6 DEF LockedAll, ValidatedReadOnly, WroteAll, setSingletonLoad, AbortEnd, UpdateIndex,
           AddToIndex, RemoveFromIndex, Commit, Goto, StampLabels
  <2> QED BY <1>a, <2>1, <2>2, QuietWords, QuietFields
<1>7. CASE setSingletonStore(t)
  <2> DEFINE w == [word[t] EXCEPT !.sing = FALSE]
  <2>1. PICK n \in todo[t] : m_version_mask' = [m_version_mask EXCEPT ![n] = w]
    BY <1>7 DEF setSingletonStore
  <2>2. UNCHANGED <<m_key, m_val, m_next>> /\ pc'[t] \notin StampLabels
    BY <1>0, <1>7 DEF setSingletonStore, nodeVars, Goto, StampLabels
  <2>3. word[t] = m_version_mask[n]
    BY <1>7 DEF StoresLikeCAS
  <2>4. n \in AllNodes /\ w.ver = m_version_mask[n].ver /\ w.del = m_version_mask[n].del
        /\ m_version_mask[n].ver <= w.ver
    BY <1>0, <2>3 DEF Word
  <2> HIDE DEF w
  <2>5. WordsStep(t) BY <2>1, <2>4, OneWord
  <2> QED BY <1>a, <2>2, <2>5, QuietFields
<1> QED BY <1>1, <1>2, <1>3, <1>4, <1>5, <1>6, <1>6a, <1>7 DEF TXStep, EndStep, ValidateStep

(* A crash leaves every node alone.                                        *)
LEMMA CrashStable ==
  ASSUME STypeInv, NEW t \in Threads, Crash(t, "null")
  PROVE  StableStep(t)
<1>1. UNCHANGED <<m_key, m_val, m_next, m_version_mask, pc, lockedLNodes, writeVersion>>
  BY DEF Crash, nodeVars, txVars, versVars, endVars
<1> QED BY <1>1, QuietWords, QuietFields DEF StableStep, StampEntry

(* So does a return.                                                       *)
LEMMA SReturnStable ==
  ASSUME STypeInv, NEW t \in Threads, NEW r, SReturn(t, r)
  PROVE  StableStep(t)
<1>1. UNCHANGED <<m_key, m_val, m_next, m_version_mask>> /\ pc'[t] = "idle"
  BY SingletonFacts DEF SReturn, nodeVars, Goto
<1> QED BY <1>1, QuietWords, QuietFields DEF StableStep, StampEntry, StampLabels

(* tryLock and unlock change the lock bit only.                            *)
LEMMA LockStable ==
  ASSUME STypeInv, NEW t \in Threads, NEW n \in AllNodes, NEW l, l \notin StampLabels,
         TryLock(t, n, l) \/ Release(t, n, l)
  PROVE  StableStep(t)
<1>1. UNCHANGED <<m_key, m_val, m_next>> /\ pc'[t] \in {"sFind", l}
  BY SingletonFacts DEF TryLock, Release, Retry, Goto, nodeVars
<1>2. tryLock(n) \/ unlock(n) \/ UNCHANGED m_version_mask
  BY DEF TryLock, Release
<1> QED BY <1>1, <1>2, LockWords, QuietFields DEF StableStep, StampEntry, StampLabels

(* A setter called by the owner stamps a version that is no older.         *)
LEMMA StampStable ==
  ASSUME STypeInv, SLockInv, NEW t \in Threads, NEW n \in lockedLNodes[t], NEW w, NEW l,
         Stamp(t, n, w, l), w.lock = m_version_mask[n].lock,
         m_version_mask[n].ver <= w.ver, m_version_mask[n].del => w.del,
         w.ver \in {m_version_mask[n].ver, writeVersion[t]},
         l \in StampLabels => pc[t] \in StampLabels
  PROVE  StableStep(t)
<1>1. /\ UNCHANGED lockedLNodes /\ pc'[t] = l
      /\ m_version_mask' = [m_version_mask EXCEPT ![n] = w]
  BY StampLocks
<1>2. UNCHANGED <<m_key, m_val, m_next, writeVersion>> /\ n \in AllNodes
  BY SingletonFacts DEF Stamp, nodeVars
<1>3. WordsStep(t) BY <1>1, <1>2, OneWord
<1> QED BY <1>1, <1>2, <1>3, QuietFields DEF StableStep, StampEntry

(* A singleton that writes fields of nodes it has locked.                  *)
LEMMA WriteStable ==
  ASSUME STypeInv, SLockInv, NEW t \in Threads, UNCHANGED <<m_key, m_version_mask>>,
         \A n \in allocated \ lockedLNodes[t] : m_next'[n] = m_next[n] /\ m_val'[n] = m_val[n],
         pc'[t] \notin StampLabels
  PROVE  StableStep(t)
<1>1. \A n \in allocated : n \in lockedLNodes[t] => isLocked(n)
  BY SingletonFacts DEF SLockInv, LockOwnership
<1>2. FieldsStep BY <1>1 DEF FieldsStep
<1> QED BY <1>2, QuietWords DEF StableStep, StampEntry

(* The steps outside a transaction.                                        *)
LEMMA SingletonStable ==
  ASSUME STypeInv, SLockInv, SStampInv, StoresLikeCAS, StampsFresh, NEW t \in Threads, SingletonStep(t)
  PROVE  StableStep(t)
<1>0. /\ SHolds(t) /\ pred[t] \in AllNodes /\ (node[t] # Null => node[t] \in AllNodes)
      /\ next[t] # Null => next[t] \in AllNodes
      /\ pc[t] \in HasNode => node[t] \in AllNodes
      /\ pc[t] \in HasNext => next[t] \in AllNodes
      /\ m_version_mask \in [AllNodes -> Word]
  BY SingletonFacts DEF SLockInv, STypeInv, SRefs, NodeOrNull
<1>a. ASSUME UNCHANGED <<m_key, m_val, m_next, m_version_mask>>, pc'[t] \notin StampLabels
      PROVE  StableStep(t)
  BY <1>a, QuietWords, QuietFields DEF StableStep, StampEntry
<1>b. /\ pc[t] \in NodeLabels => lockedLNodes[t] = {node[t]}
      /\ pc[t] \in PredLabels => lockedLNodes[t] = {pred[t]}
      /\ pc[t] \in BothLabels => lockedLNodes[t] = {pred[t], next[t]}
  BY <1>0 DEF SHolds
<1> USE DEF StampLabels, NodeLabels, PredLabels, BothLabels, HasNode, HasNext
<1>1. CASE CallSingleton(t) \/ SPutRead(t) \/ SLoadWord(t)
  <2>1. UNCHANGED <<m_key, m_val, m_next, m_version_mask>> /\ pc'[t] \notin StampLabels
    BY <1>1, SingletonFacts DEF CallSingleton, SPutRead, SLoadWord, lnodeVars, nodeVars, Goto
  <2> QED BY <1>a, <2>1
<1>2. CASE SFindStep(t)
  <2>1. CASE SGet(t) \/ SMiss(t)
    BY <2>1, CrashStable, SReturnStable DEF SGet, SMiss
  <2>2. CASE ~(SGet(t) \/ SMiss(t))
    <3>1. UNCHANGED <<m_key, m_val, m_next, m_version_mask>>
      BY <1>2, <2>2 DEF SFindStep, SFind, SStepBack, SReadNext, SCheckPred, SCompare, SHit, SStep,
             SSame, SMove, SNext, findVars, lnodeVars, nodeVars
    <3>2. pc'[t] \notin StampLabels
      BY <1>2, <2>2, SingletonFacts DEF SFindStep, SFind, SStepBack, SReadNext, SCheckPred, SCompare,
             SHit, SStep, SSame, SMove, SNext, Goto, Retry
    <3> QED BY <1>a, <3>1, <3>2
  <2> QED BY <2>1, <2>2
<1>3. CASE LoadClock(t)
  <2>1. /\ UNCHANGED <<m_key, m_val, m_next, m_version_mask>>
        /\ writeVersion'[t] = gvc /\ gvc \in Nat
    BY <1>3, SingletonFacts DEF LoadClock, nodeVars
  <2> QED BY <2>1, QuietWords, QuietFields DEF StableStep, StampEntry
<1>4. CASE SPutCheck(t) \/ SInsCheck(t) \/ SRemCheck(t)
  <2>1. \/ Crash(t, "null")
        \/ pc'[t] \in {"sPutVal", "sLink", "sLockDel"} /\ UNCHANGED lnodeVars
        \/ pc[t] = "sChkVal" /\ Release(t, node[t], "sFind")
        \/ Release(t, pred[t], "sFind")
    BY <1>4, SingletonFacts DEF SPutCheck, SInsCheck, SRemCheck, Goto
  <2> QED BY <1>0, <1>a, <2>1, CrashStable, LockStable DEF lnodeVars, nodeVars
<1>5. CASE SPutLock(t) \/ SInsLock(t) \/ SRemLock(t) \/ SRemLockVictim(t)
  <2>1. CASE SPutLock(t) BY <1>0, <2>1, CrashStable, LockStable DEF SPutLock
  <2>2. CASE SInsLock(t) \/ SRemLock(t) BY <1>0, <2>2, LockStable DEF SInsLock, SRemLock
  <2>3. CASE SRemLockVictim(t) BY <1>0, <2>3, CrashStable, LockStable DEF SRemLockVictim
  <2> QED BY <1>5, <2>1, <2>2, <2>3
<1>6. CASE SPutUnlock(t) \/ SInsUnlock(t) \/ SRemUnlockVictim(t) \/ SRemUnlockPred(t)
  <2>1. CASE SPutUnlock(t) BY <1>0, <2>1, LockStable DEF SPutUnlock
  <2>2. CASE SInsUnlock(t) \/ SRemUnlockPred(t) BY <1>0, <2>2, LockStable DEF SInsUnlock, SRemUnlockPred
  <2>3. CASE SRemUnlockVictim(t) BY <1>0, <2>3, LockStable DEF SRemUnlockVictim
  <2> QED BY <1>6, <2>1, <2>2, <2>3
<1>7. CASE SPutReturn(t) \/ SInsIndex(t) \/ SRemReturn(t)
  BY <1>7, SReturnStable DEF SPutReturn, SInsIndex, SRemReturn
<1>8. CASE SPutVal(t)
  <2>1. /\ m_val' = [m_val EXCEPT ![node[t]] = task[t].val] /\ pc[t] = "sPutVal" /\ pc'[t] = "sSetSng"
        /\ UNCHANGED <<m_key, m_next, m_version_mask>>
    BY <1>8, SingletonFacts DEF SPutVal, Goto
  <2>2. \A n \in allocated \ lockedLNodes[t] : m_next'[n] = m_next[n] /\ m_val'[n] = m_val[n]
    BY <1>b, <2>1, SingletonFacts
  <2> QED BY <2>1, <2>2, WriteStable
<1>9. CASE SRemClear(t)
  <2>1. /\ m_val' = [m_val EXCEPT ![next[t]] = NoVal] /\ pc[t] = "sClear" /\ pc'[t] = "sUnlink"
        /\ UNCHANGED <<m_key, m_next, m_version_mask>>
    BY <1>9, SingletonFacts DEF SRemClear, Goto
  <2>2. \A n \in allocated \ lockedLNodes[t] : m_next'[n] = m_next[n] /\ m_val'[n] = m_val[n]
    BY <1>b, <2>1, SingletonFacts
  <2> QED BY <2>1, <2>2, WriteStable
<1>10. CASE SRemUnlink(t)
  <2>1. CASE Crash(t, "null") BY <2>1, CrashStable
  <2>2. CASE ~Crash(t, "null")
    <3>1. /\ m_next' = [m_next EXCEPT ![pred[t]] = m_next[m_next[pred[t]]]]
          /\ pc[t] = "sUnlink" /\ pc'[t] = "sVerRem" /\ UNCHANGED <<m_key, m_val, m_version_mask>>
      BY <1>10, <2>2, SingletonFacts DEF SRemUnlink, Goto
    <3>2. \A n \in allocated \ lockedLNodes[t] : m_next'[n] = m_next[n] /\ m_val'[n] = m_val[n]
      BY <1>b, <3>1, SingletonFacts
    <3> QED BY <3>1, <3>2, WriteStable
  <2> QED BY <2>1, <2>2
<1>11. CASE SLink(t)
  <2>1. PICK n \in Nodes \ allocated :
          /\ m_key' = [m_key EXCEPT ![n] = task[t].key]
          /\ m_val' = [m_val EXCEPT ![n] = task[t].val]
          /\ m_next' = [m_next EXCEPT ![n] = m_next[pred[t]], ![pred[t]] = n]
    BY <1>11 DEF SLink
  <2>2. pc[t] = "sLink" /\ pc'[t] = "sVerIns" /\ UNCHANGED m_version_mask
    BY <1>11, SingletonFacts DEF SLink, Goto
  <2>3. isLocked(pred[t])
    BY <1>0, <1>b, <2>2 DEF SLockInv, LockOwnership
  <2>4. \A m \in allocated : /\ m_key'[m] = m_key[m] /\ m_val'[m] = m_val[m]
                             /\ m = pred[t] \/ m_next'[m] = m_next[m]
    BY <2>1, SingletonFacts
  <2>5. FieldsStep BY <2>3, <2>4 DEF FieldsStep
  <2> QED BY <2>2, <2>5, QuietWords DEF StableStep, StampEntry
<1>12. CASE SSetSingleton(t)
  <2> DEFINE w == [m_version_mask[node[t]] EXCEPT !.sing = TRUE]
  <2>1. pc[t] = "sSetSng" /\ Stamp(t, node[t], w, "sVerPut") BY <1>12 DEF SSetSingleton
  <2>2. node[t] \in lockedLNodes[t] /\ node[t] \in AllNodes BY <1>0, <1>b, <2>1
  <2>3. /\ w.lock = m_version_mask[node[t]].lock /\ w.ver = m_version_mask[node[t]].ver
        /\ w.del = m_version_mask[node[t]].del /\ m_version_mask[node[t]].ver <= w.ver
    BY <1>0, <2>2 DEF Word
  <2> HIDE DEF w
  <2> QED BY <2>1, <2>2, <2>3, StampStable
<1>13. CASE SSetVersion(t)
  <2> DEFINE w == [m_version_mask[node[t]] EXCEPT !.ver = writeVersion[t]]
  <2>1. pc[t] = "sSetVer" /\ Stamp(t, node[t], w, "sUnlockVal") BY <1>13 DEF SSetVersion
  <2>2. node[t] \in lockedLNodes[t] /\ node[t] \in AllNodes BY <1>0, <1>b, <2>1
  <2>3. /\ w.lock = m_version_mask[node[t]].lock /\ w.ver = writeVersion[t]
        /\ w.del = m_version_mask[node[t]].del
    BY <1>0, <2>2 DEF Word
  <2>4. m_version_mask[node[t]].ver <= writeVersion[t]
    BY <2>1, <2>2 DEF SStampInv, getVersion
  <2> HIDE DEF w
  <2> QED BY <2>1, <2>2, <2>3, <2>4, StampStable
<1>14. CASE SRemStampVictim(t)
  <2> DEFINE w == [m_version_mask[next[t]] EXCEPT !.ver = writeVersion[t], !.del = TRUE, !.sing = TRUE]
  <2>1. pc[t] = "sStampDel" /\ Stamp(t, next[t], w, "sStampPred") BY <1>14 DEF SRemStampVictim
  <2>2. next[t] \in lockedLNodes[t] /\ next[t] \in AllNodes BY <1>0, <1>b, <2>1
  <2>3. w.lock = m_version_mask[next[t]].lock /\ w.ver = writeVersion[t] /\ w.del
    BY <1>0, <2>2 DEF Word
  <2>4. m_version_mask[next[t]].ver <= writeVersion[t]
    BY <2>1, <2>2 DEF SStampInv, getVersion
  <2> HIDE DEF w
  <2> QED BY <2>1, <2>2, <2>3, <2>4, StampStable
<1>15. CASE SRemStampPred(t)
  <2> DEFINE w == [m_version_mask[pred[t]] EXCEPT !.ver = writeVersion[t], !.sing = TRUE]
  <2>1. pc[t] = "sStampPred" /\ Stamp(t, pred[t], w, "sUnlockDel") BY <1>15 DEF SRemStampPred
  <2>2. pred[t] \in lockedLNodes[t] BY <1>b, <2>1
  <2>3. /\ w.lock = m_version_mask[pred[t]].lock /\ w.ver = writeVersion[t]
        /\ w.del = m_version_mask[pred[t]].del
    BY <1>0 DEF Word
  <2>4. m_version_mask[pred[t]].ver <= writeVersion[t]
    BY <2>1, <2>2 DEF SStampInv, getVersion
  <2> HIDE DEF w
  <2> QED BY <2>1, <2>2, <2>3, <2>4, StampStable
<1>16. CASE SStoreWord(t)
  <2> DEFINE w == [word[t] EXCEPT !.ver = writeVersion[t], !.sing = TRUE]
  <2>1. /\ m_version_mask' = [m_version_mask EXCEPT ![node[t]] = w] /\ pc[t] = "sStore"
        /\ pc'[t] = "sUnlockIns" /\ UNCHANGED <<m_key, m_val, m_next>>
    BY <1>16, SingletonFacts DEF SStoreWord, Goto, nodeVars
  <2>2. node[t] \in AllNodes BY <1>0, <2>1
  <2>3. m_version_mask[node[t]] = FreshWord BY <1>16 DEF StampsFresh
  <2>4. w.ver = writeVersion[t] /\ writeVersion[t] \in Nat
    BY SingletonFacts DEF Word
  <2>5. /\ m_version_mask[node[t]].ver <= w.ver /\ ~m_version_mask[node[t]].del /\ ~isLocked(node[t])
    BY <2>3, <2>4 DEF FreshWord, isLocked
  <2> HIDE DEF w
  <2>6. WordsStep(t) BY <2>1, <2>2, <2>4, <2>5, OneWord
  <2> QED BY <2>1, <2>6, QuietFields DEF StableStep, StampEntry
<1> QED
  BY <1>1, <1>2, <1>3, <1>4, <1>5, <1>6, <1>7, <1>8, <1>9, <1>10, <1>11, <1>12, <1>13, <1>14, <1>15, <1>16
  DEF SingletonStep, SPutStep, SRemoveStep

(* Nobody is about to stamp a node at first.                               *)
LEMMA SStampInit == SInit => SStampInv
BY DEF SInit, TXInit, SStampInv, StampLabels

(* Every step leaves the nodes as NodeStep says and keeps the versions to  *)
(* stamp new.                                                              *)
LEMMA SStampNext ==
  STypeInv /\ STypeInv' /\ SLockInv /\ SClockInv /\ SStampInv /\ [Next]_allVars
    /\ [StoresLikeCAS /\ StampsFresh]_allVars
  => SStampInv' /\ [NodeStep]_vars
<1> SUFFICES ASSUME STypeInv, STypeInv', SLockInv, SClockInv, SStampInv, [Next]_allVars,
                    [StoresLikeCAS /\ StampsFresh]_allVars
             PROVE  SStampInv' /\ [NodeStep]_vars
  OBVIOUS
<1>1. CASE UNCHANGED allVars
  <2>1. UNCHANGED <<m_version_mask, pc, lockedLNodes, writeVersion, vars>>
    BY <1>1 DEF allVars, vars, txVars, lnodeVars, versVars, endVars
  <2> QED BY <2>1 DEF SStampInv, getVersion
<1>2. ASSUME NEW t \in Threads, Step(t), StoresLikeCAS, StampsFresh PROVE SStampInv' /\ NodeStep
  <2>1. StableStep(t)
    BY <1>2, TxStable, SingletonStable DEF Step
  <2>2. \A u \in Threads \ {t} : /\ pc'[u] = pc[u] /\ lockedLNodes'[u] = lockedLNodes[u]
                                 /\ writeVersion'[u] = writeVersion[u]
    <3>1. CASE SingletonStep(t) BY <3>1, SingletonFrame
    <3>2. CASE TXStep(t) BY <3>2, StepFrame, StepLabels DEF STypeInv
    <3> QED BY <1>2, <3>1, <3>2 DEF Step
  <2> QED BY <2>1, <2>2, StableNode, StableStamps
<1> QED BY <1>1, <1>2 DEF Next, Finished, allVars

(* Isolation of the heap with singletons: if besides a new node were       *)
(* stamped before anyone else locks it, a node that is not locked would    *)
(* not change under a reader, versions would never go back, and a deletion *)
(* would be final.                                                         *)
LEMMA CompositionStable == Spec /\ [][StoresLikeCAS /\ StampsFresh]_allVars => NodeStable
<1>1. [StoresLikeCAS /\ StampsFresh]_allVars => [StoresLikeCAS]_allVars
  OBVIOUS
<1> QED
  BY <1>1, STypeInit, STypeNext, SLockInit, SLockNext, SClockInit, SClockNext, SStampInit, SStampNext, PTL
  DEF Spec, NodeStable

-----------------------------------------------------------------------------
(* The order of the list *)

(* What a step of t leaves of the keys and links other threads rely on.    *)
LinksStep(t) ==
  \A n \in allocated : m_key'[n] = m_key[n] /\ (m_next'[n] = m_next[n] \/ n \in lockedLNodes[t])

(* A put of another thread keeps its place: the predecessor it is about to *)
(* link to is locked by that thread.                                       *)
LEMMA PutFrame ==
  ASSUME STypeInv, SLockInv, NEW t \in Threads, LinksStep(t), NEW u \in Threads \ {t}, PutOrdered(u),
         pc'[u] = pc[u], task'[u] = task[u], pred'[u] = pred[u], next'[u] = next[u]
  PROVE  PutOrdered(u)'
<1>1. pred[u] \in allocated /\ (next[u] # Null => next[u] \in allocated)
  BY SingletonFacts DEF Ref
<1>2. pc[u] = "sLink" => m_next'[pred[u]] = m_next[pred[u]]
  <2>1. pc[u] = "sLink" => pred[u] \in lockedLNodes[u]
    BY DEF SLockInv, SHolds, PredLabels
  <2>2. pred[u] \in lockedLNodes[u] => pred[u] \notin lockedLNodes[t]
    BY DEF SLockInv, LockOwnership
  <2> QED BY <1>1, <2>1, <2>2 DEF LinksStep
<1>3. m_key'[pred[u]] = m_key[pred[u]] /\ (next[u] # Null => m_key'[next[u]] = m_key[next[u]])
  BY <1>1 DEF LinksStep
<1> QED BY <1>2, <1>3 DEF PutOrdered, Before

(* Outside a search of putSingleton nothing is claimed about it.           *)
LEMMA NotPutting ==
  ASSUME NEW t \in Threads, pc'[t] \notin PutLabels
  PROVE  PutOrdered(t)'
BY DEF PutOrdered, PutLabels

(* The steps of a transaction keep the order.                              *)
LEMMA TxOrder ==
  ASSUME STypeInv, SLockInv, SOrderInv, NEW t \in Threads, TXStep(t), UNCHANGED sVars
  PROVE  SOrderInv'
<1>0. /\ TypeInv /\ OrderInv /\ TxHolds(t)
      /\ m_key \in [AllNodes -> Nat] /\ m_next \in [AllNodes -> NodeOrNull] /\ allocated \subseteq AllNodes
  BY SingletonFacts DEF STypeInv, SOrderInv, SLockInv, SHolds
<1>1. OrderInv' /\ LinksStep(t)
  <2>1. CASE PutNew(t)
    <3>1. OrderInv' BY <1>0, <2>1, PutNewOrder
    <3>2. PICK n \in Nodes \ allocated : /\ m_key' = [m_key EXCEPT ![n] = task[t].key]
                                         /\ m_next' = [m_next EXCEPT ![n] = next[t]]
      BY <2>1 DEF PutNew
    <3> QED BY <1>0, <3>1, <3>2 DEF LinksStep
  <2>2. CASE OpStep(t) /\ ~PutNew(t)
    <3>1. UNCHANGED <<m_key, m_next>> BY <2>2, OpStepHeap
    <3>2. WriteOrdered(t)' /\ SearchOrdered(t)' BY <1>0, <2>2, OpStepOrder
    <3>3. OrderInv' BY <1>0, <2>2, <3>1, <3>2, OpStepFrame, OrderFrame
    <3> QED BY <3>1, <3>3 DEF LinksStep
  <2>3. CASE EndStep(t)
    <3>1. OrderInv' BY <1>0, <2>3, EndStepOrder DEF TxHolds
    <3>2. CASE WriteNode(t)
      <4>1. PICK n \in todo[t] : m_next' = [m_next EXCEPT ![n] = writeSet[t][n].next]
        BY <3>2 DEF WriteNode
      <4>2. n \in lockedLNodes[t] /\ UNCHANGED m_key
        BY <1>0, <3>2 DEF WriteNode, TxHolds
      <4> QED BY <1>0, <3>1, <4>1, <4>2 DEF LinksStep
    <3>3. CASE ~WriteNode(t)
      <4>1. UNCHANGED <<m_key, m_next>>
        BY <2>3, <3>3 DEF EndStep, LockNode, LockedAll, Validate, ValidateVersion, ValidateSingleton,
              IncrementAndClear, setSingletonLoad, setSingletonStore,
              ValidatedReadOnly, TakeVersion, StampNode, WroteAll, ReleaseNode, AbortEnd, UpdateIndex,
              AddToIndex, RemoveFromIndex, Commit, lnodeVars, nodeVars
      <4> QED BY <3>1, <4>1 DEF LinksStep
    <3> QED BY <3>2, <3>3
  <2> QED BY <2>1, <2>2, <2>3 DEF TXStep
<1>2. PutOrdered(t)'
  BY <1>0, StepLabels, NotPutting DEF Labels, PutLabels
<1>3. \A u \in Threads \ {t} : PutOrdered(u)'
  <2> TAKE u \in Threads \ {t}
  <2>1. pc'[u] = pc[u] /\ task'[u] = task[u] /\ pred'[u] = pred[u] /\ next'[u] = next[u]
    BY <1>0, StepFrame, StepLabels
  <2> QED BY <1>1, <2>1, PutFrame DEF SOrderInv
<1> QED BY <1>1, <1>2, <1>3 DEF SOrderInv

(* A link over a deleted successor is ascending.                           *)
LEMMA AscendingOver ==
  ASSUME STypeInv, NEW p \in AllNodes, NEW n \in AllNodes, NEW s \in NodeOrNull,
         Ascending(p, n), Ascending(n, s)
  PROVE  Ascending(p, s)
<1>1. m_key \in [AllNodes -> Nat] /\ Null \notin AllNodes
  BY SingletonFacts
<1>2. n # Null BY <1>1
<1>3. n # head /\ Before(p, m_key[n]) BY <1>2 DEF Ascending
<1>4. CASE s = Null BY <1>4 DEF Ascending
<1>5. CASE s # Null
  <2>1. s \in AllNodes BY <1>5 DEF NodeOrNull
  <2>2. s # head /\ m_key[n] < m_key[s] BY <1>3, <1>5 DEF Ascending, Before
  <2>3. m_key[s] \in Nat /\ m_key[n] \in Nat /\ m_key[p] \in Nat BY <1>1, <2>1
  <2> QED BY <1>3, <2>2, <2>3 DEF Ascending, Before
<1> QED BY <1>4, <1>5

(* Outside a transaction only the link of a new node and an unlinking      *)
(* change a successor, that of a node the thread has locked.               *)
LEMMA SingletonLinks ==
  ASSUME STypeInv, SLockInv, SOrderInv, NEW t \in Threads, SingletonStep(t), ~SLink(t)
  PROVE  /\ UNCHANGED m_key
         /\ \A n \in AllNodes : m_next'[n] = m_next[n] \/ (n \in lockedLNodes[t] /\ Ascending(n, m_next'[n]))
<1>1. CASE SRemUnlink(t) /\ m_next[pred[t]] # Null
  <2>1. /\ pc[t] = "sUnlink" /\ m_next' = [m_next EXCEPT ![pred[t]] = m_next[m_next[pred[t]]]]
        /\ UNCHANGED m_key
    BY <1>1 DEF SRemUnlink
  <2>2. /\ m_next \in [AllNodes -> NodeOrNull] /\ pred[t] \in AllNodes /\ m_next[pred[t]] \in AllNodes
    BY <1>1, SingletonFacts DEF NodeOrNull
  <2>3. Ascending(pred[t], m_next[pred[t]]) /\ Ascending(m_next[pred[t]], m_next[m_next[pred[t]]])
    BY <2>2 DEF SOrderInv, OrderInv
  <2>4. Ascending(pred[t], m_next[m_next[pred[t]]])
    <3>1. m_next[m_next[pred[t]]] \in NodeOrNull BY <2>2
    <3> QED BY <2>2, <2>3, <3>1, AscendingOver
  <2>5. pred[t] \in lockedLNodes[t]
    BY <2>1 DEF SLockInv, SHolds, BothLabels
  <2> QED BY <2>1, <2>2, <2>4, <2>5
<1>2. CASE ~(SRemUnlink(t) /\ m_next[pred[t]] # Null)
  <2> USE DEF lnodeVars, nodeVars
  <2>1. ASSUME NEW r, SReturn(t, r) PROVE UNCHANGED <<m_key, m_next>>
    BY <2>1 DEF SReturn
  <2>2. ASSUME Crash(t, "null") PROVE UNCHANGED <<m_key, m_next>>
    BY <2>2 DEF Crash
  <2>3. CASE SGet(t) \/ SMiss(t) \/ SPutReturn(t) \/ SInsIndex(t) \/ SRemReturn(t)
    BY <2>1, <2>2, <2>3 DEF SGet, SMiss, SPutReturn, SInsIndex, SRemReturn
  <2>4. CASE CallSingleton(t) \/ LoadClock(t)
    BY <2>4 DEF CallSingleton, LoadClock
  <2>5. CASE SFindStep(t) /\ ~(SGet(t) \/ SMiss(t))
    BY <2>5 DEF SFindStep, SFind, SStepBack, SReadNext, SCheckPred, SCompare, SHit, SStep, SSame, SMove,
           SNext, findVars
  <2>6. CASE \/ SPutRead(t) \/ SPutLock(t) \/ SPutCheck(t) \/ SPutVal(t) \/ SSetSingleton(t)
             \/ SSetVersion(t) \/ SPutUnlock(t) \/ SInsLock(t) \/ SInsCheck(t)
             \/ SLoadWord(t) \/ SStoreWord(t) \/ SInsUnlock(t)
    BY <2>2, <2>6 DEF SPutRead, SPutLock, SPutCheck, SPutVal, SSetSingleton, SSetVersion, SPutUnlock,
           SInsLock, SInsCheck, SLoadWord, SStoreWord, SInsUnlock, TryLock, Release, Stamp
  <2>7. CASE \/ SRemLock(t) \/ SRemCheck(t) \/ SRemLockVictim(t) \/ SRemClear(t)
             \/ SRemStampVictim(t) \/ SRemStampPred(t) \/ SRemUnlockVictim(t) \/ SRemUnlockPred(t)
    BY <2>2, <2>7 DEF SRemLock, SRemCheck, SRemLockVictim, SRemClear, SRemStampVictim, SRemStampPred,
           SRemUnlockVictim, SRemUnlockPred, TryLock, Release, Stamp
  <2>8. CASE SRemUnlink(t)
    BY <1>2, <2>2, <2>8 DEF SRemUnlink
  <2> QED
    BY <2>3, <2>4, <2>5, <2>6, <2>7, <2>8 DEF SingletonStep, SFindStep, SPutStep, SRemoveStep
<1> QED BY <1>1, <1>2

(* A search of putSingleton stays before its key.                          *)
LEMMA FindOrder ==
  ASSUME STypeInv, SOrderInv, MovesBefore, NEW t \in Threads, SingletonStep(t), SFindStep(t)
  PROVE  PutOrdered(t)'
<1>0. /\ pc = [u \in Threads |-> pc[u]] /\ pred \in [Threads -> AllNodes] /\ next \in [Threads -> NodeOrNull]
      /\ m_key \in [AllNodes -> Nat] /\ task[t].key \in Nat /\ PutOrdered(t)
      /\ TypeInv /\ OrderInv /\ head \in AllNodes /\ Null \notin AllNodes
  BY SingletonFacts DEF SOrderInv, STypeInv
<1>1. CASE SGet(t) \/ SMiss(t)
  <2>1. CASE Crash(t, "null")
    <3>1. UNCHANGED <<pc, task, pred, next, m_key, m_next>>
      BY <2>1 DEF Crash, txVars, opVars, nodeVars
    <3> QED BY <1>0, <3>1 DEF PutOrdered, Before
  <2>2. CASE ~Crash(t, "null")
    <3>1. pc'[t] = "idle"
      BY <1>0, <1>1, <2>2 DEF SGet, SMiss, SReturn, Goto
    <3> QED BY <3>1, NotPutting DEF PutLabels
  <2> QED BY <2>1, <2>2
<1>2. CASE ~(SGet(t) \/ SMiss(t))
  <2>0. UNCHANGED <<task, m_key, m_next>>
    BY <1>2 DEF SFindStep, SFind, SStepBack, SReadNext, SCheckPred, SCompare, SHit, SStep, SSame, SMove,
           SNext, findVars, lnodeVars, nodeVars
  <2>a. ASSUME pc'[t] \in PutLabels \ {"sMiss", "sChkIns", "sLink"},
               task[t].op = "put" => Before(pred'[t], task[t].key)
        PROVE  PutOrdered(t)'
    BY <2>0, <2>a DEF PutOrdered, Before
  <2>1. CASE SFind(t)
    <3>1. PICK n \in getPred(task[t].key) : pred' = [pred EXCEPT ![t] = n]
      BY <2>1 DEF SFind
    <3>2. Before(n, task[t].key) BY getPredBefore
    <3>3. pc'[t] = "sPred" /\ pred'[t] = n BY <1>0, <2>1, <3>1 DEF SFind, Goto
    <3> QED BY <2>a, <3>2, <3>3 DEF PutLabels
  <2>2. CASE SStepBack(t)
    <3>1. pc[t] = "sPred" /\ pc'[t] \in {"sPred", "sRead"}
      BY <1>0, <2>2 DEF SStepBack, Goto
    <3>2. CASE UNCHANGED pred
      BY <1>0, <2>a, <3>1, <3>2 DEF PutOrdered, PutLabels
    <3>3. CASE pred[t] # head /\ \E n \in getPred(m_key[pred[t]]) : pred' = [pred EXCEPT ![t] = n]
      <4>1. PICK n \in getPred(m_key[pred[t]]) : pred' = [pred EXCEPT ![t] = n]
        BY <3>3
      <4>2. Before(n, m_key[pred[t]]) /\ n \in AllNodes
        BY <1>0, getPredType
      <4>3. task[t].op = "put" => Before(n, task[t].key)
        <5>1. task[t].op = "put" => m_key[pred[t]] < task[t].key
          BY <1>0, <3>1, <3>3 DEF PutOrdered, PutLabels, Before
        <5>2. m_key[n] \in Nat /\ m_key[pred[t]] \in Nat BY <1>0, <4>2
        <5> QED BY <1>0, <4>2, <5>1, <5>2 DEF Before
      <4>4. pred'[t] = n BY <1>0, <4>1
      <4> QED BY <2>a, <3>1, <4>3, <4>4 DEF PutLabels
    <3> QED BY <2>2, <3>2, <3>3 DEF SStepBack
  <2>3. CASE SReadNext(t) \/ SCheckPred(t) \/ SHit(t) \/ SStep(t) \/ SSame(t) \/ SNext(t)
    <3>1. /\ pc[t] \in PutLabels /\ UNCHANGED pred
          /\ pc'[t] \in {"sFind", "sAgain", "sLoop", "sFound", "sSame", "sMove"}
      BY <1>0, <2>3 DEF SReadNext, SCheckPred, SHit, SStep, SSame, SNext, Goto, Retry, PutLabels
    <3>2. CASE pc'[t] = "sFind" BY <3>2, NotPutting DEF PutLabels
    <3>3. CASE pc'[t] # "sFind" BY <1>0, <2>a, <3>1, <3>3 DEF PutOrdered, PutLabels
    <3> QED BY <3>2, <3>3
  <2>4. CASE SCompare(t)
    <3>1. pc[t] = "sLoop" /\ UNCHANGED <<pred, next>>
      BY <2>4 DEF SCompare
    <3>2. \/ pc'[t] \in {"sFind", "sHit", "sStep"}
          \/ pc'[t] = "sMiss" /\ (next[t] = Null \/ (~Found(t) /\ ~Further(t)))
      BY <1>0, <2>4 DEF SCompare, Goto, Retry
    <3>3. CASE pc'[t] = "sFind" BY <3>3, NotPutting DEF PutLabels
    <3>4. CASE pc'[t] \in {"sHit", "sStep"} BY <1>0, <2>a, <3>1, <3>4 DEF PutOrdered, PutLabels
    <3>5. CASE pc'[t] = "sMiss" /\ (next[t] = Null \/ (~Found(t) /\ ~Further(t)))
      <4>1. task[t].op = "put" => Before(pred[t], task[t].key)
        BY <1>0, <3>1 DEF PutOrdered, PutLabels
      <4>2. next[t] # Null => task[t].key < m_key[next[t]]
        <5>1. next[t] # Null => m_key[next[t]] \in Nat
          <6>1. next[t] # Null => next[t] \in AllNodes BY <1>0 DEF NodeOrNull
          <6> QED BY <1>0, <6>1
        <5>2. next[t] # Null => m_key[next[t]] # task[t].key /\ ~(m_key[next[t]] < task[t].key)
          BY <3>5 DEF Found, Further
        <5>3. task[t].key \in Nat BY <1>0
        <5> QED BY <5>1, <5>2, <5>3
      <4> QED BY <2>0, <3>1, <3>5, <4>1, <4>2 DEF PutOrdered, Before
    <3> QED BY <3>2, <3>3, <3>4, <3>5
  <2>5. CASE SMove(t)
    <3>1. CASE m_next[pred[t]] = Null
      <4>1. pc'[t] = "sFind" BY <1>0, <2>5, <3>1 DEF SMove, Goto, Retry
      <4> QED BY <4>1, NotPutting DEF PutLabels
    <3>2. CASE m_next[pred[t]] # Null
      <4>1. pc'[t] = "sNext" /\ pred'[t] = m_next[pred[t]]
        BY <1>0, <2>5, <3>2 DEF SMove, Goto
      <4>2. task[t].op = "put" => Before(m_next[pred[t]], task[t].key)
        BY <2>5, <3>2 DEF MovesBefore
      <4> QED BY <2>a, <4>1, <4>2 DEF PutLabels
    <3> QED BY <3>1, <3>2
  <2> QED BY <1>2, <2>1, <2>2, <2>3, <2>4, <2>5 DEF SFindStep
<1> QED BY <1>1, <1>2

(* putSingleton keeps its place until it has linked the new node.          *)
LEMMA PutOrder ==
  ASSUME STypeInv, SOrderInv, NEW t \in Threads, SPutStep(t)
  PROVE  PutOrdered(t)'
<1>0. pc = [u \in Threads |-> pc[u]] /\ PutOrdered(t)
  BY SingletonFacts DEF SOrderInv
<1>1. CASE SInsLock(t)
  <2>1. /\ pc[t] = "sMiss" /\ task[t].op = "put" /\ pc'[t] \in {"sFind", "sChkIns"}
        /\ UNCHANGED <<task, pred, next, m_key, m_next>>
    BY <1>0, <1>1 DEF SInsLock, TryLock, Retry, Goto, nodeVars, keepVars, opVars
  <2> QED BY <1>0, <2>1 DEF PutOrdered, PutLabels, Before
<1>2. CASE SInsCheck(t)
  <2>1. CASE Release(t, pred[t], "sFind")
    <3>1. pc'[t] = "sFind" BY <1>0, <2>1 DEF Release, Goto
    <3> QED BY <3>1, NotPutting DEF PutLabels
  <2>2. CASE ~Release(t, pred[t], "sFind")
    <3>1. /\ pc[t] = "sChkIns" /\ pc'[t] = "sLink" /\ next[t] = m_next[pred[t]]
          /\ UNCHANGED <<task, pred, next, m_key, m_next>>
      BY <1>0, <1>2, <2>2 DEF SInsCheck, Goto, lnodeVars, nodeVars, keepVars, opVars
    <3> QED BY <1>0, <3>1 DEF PutOrdered, PutLabels, Before
  <2> QED BY <2>1, <2>2
<1>3. CASE Crash(t, "null")
  <2>1. UNCHANGED <<pc, task, pred, next, m_key, m_next>>
    BY <1>3 DEF Crash, txVars, opVars, nodeVars
  <2> QED BY <1>0, <2>1 DEF PutOrdered, Before
<1>4. CASE ~SInsLock(t) /\ ~SInsCheck(t) /\ ~Crash(t, "null")
  <2>1. pc'[t] \notin PutLabels
    <3> USE DEF Goto, Retry, TryLock, Release, Stamp, SReturn, PutLabels
    <3>1. CASE SPutRead(t) \/ SPutLock(t) \/ SPutCheck(t) \/ SPutVal(t) \/ SSetSingleton(t) \/ SSetVersion(t)
      BY <1>0, <1>4, <3>1 DEF SPutRead, SPutLock, SPutCheck, SPutVal, SSetSingleton, SSetVersion
    <3>2. CASE SPutUnlock(t) \/ SPutReturn(t) \/ SLink(t) \/ SLoadWord(t) \/ SStoreWord(t) \/ SInsUnlock(t)
               \/ SInsIndex(t)
      BY <1>0, <3>2 DEF SPutUnlock, SPutReturn, SLink, SLoadWord, SStoreWord, SInsUnlock, SInsIndex
    <3> QED BY <1>4, <3>1, <3>2 DEF SPutStep
  <2> QED BY <2>1, NotPutting
<1> QED BY <1>1, <1>2, <1>3, <1>4

(* putSingleton links its new node in order, and no one else has seen it.  *)
LEMMA LinkOrder ==
  ASSUME STypeInv, SLockInv, SOrderInv, NEW t \in Threads, SingletonStep(t), SLink(t)
  PROVE  OrderInv' /\ LinksStep(t) /\ PutOrdered(t)'
<1>0. /\ m_key \in [AllNodes -> Nat] /\ m_next \in [AllNodes -> NodeOrNull]
      /\ pc = [u \in Threads |-> pc[u]] /\ OrderInv
      /\ task[t].key \in Nat /\ allocated \subseteq AllNodes /\ pred[t] \in allocated
      /\ head \in allocated /\ Null \notin AllNodes
      /\ \A m \in AllNodes : m_next[m] \in allocated \cup {Null}
      /\ \A u \in Threads : /\ pred[u] \in allocated
                            /\ next[u] \in allocated \cup {Null}
                            /\ prev[u] \in allocated \cup {Null}
      /\ \A u \in Threads : \A m \in AllNodes : /\ writeSet[u][m].next \in allocated \cup {Null}
                                                /\ writeSet[u][m].in => m \in allocated
  BY SingletonFacts
  DEF SOrderInv, STypeInv, TypeInv, RefsAllocated, OpRefs, StoreRefs, Ref
<1>1. PICK n \in Nodes \ allocated :
        /\ m_key'  = [m_key EXCEPT ![n] = task[t].key]
        /\ m_next' = [m_next EXCEPT ![n] = m_next[pred[t]], ![pred[t]] = n]
  BY DEF SLink
<1>2. pc[t] = "sLink" /\ pc'[t] = "sVerIns" /\ UNCHANGED <<task, pred, next, prev, writeSet>>
  BY <1>0 DEF SLink, Goto, keepVars, opVars, storeVars
<1>3. n \in AllNodes /\ n # head /\ n # Null /\ n \notin allocated /\ n # pred[t]
  BY <1>0, <1>1 DEF AllNodes
<1>4. m_key'[n] = task[t].key /\ \A m \in AllNodes \ {n} : m_key'[m] = m_key[m]
  BY <1>0, <1>1, <1>3
<1>5. /\ m_next'[n] = m_next[pred[t]] /\ m_next'[pred[t]] = n
      /\ \A m \in AllNodes \ {n, pred[t]} : m_next'[m] = m_next[m]
  BY <1>0, <1>1, <1>3
<1>6. Before(pred[t], task[t].key) /\ (m_next[pred[t]] # Null => task[t].key < m_key[m_next[pred[t]]])
  BY <1>2 DEF SOrderInv, PutOrdered, PutLabels
<1>7. ASSUME NEW a \in AllNodes \ {n}, NEW s \in allocated \cup {Null}, Ascending(a, s)
      PROVE  s = Null \/ (s # head /\ (a = head \/ m_key'[a] < m_key'[s]))
  BY <1>0, <1>3, <1>4, <1>7 DEF Ascending, Before
<1>8. \A m \in AllNodes : Ascending(m, m_next[m])'
  <2> SUFFICES ASSUME NEW m \in AllNodes PROVE Ascending(m, m_next[m])'
    OBVIOUS
  <2>1. CASE m = n
    <3>1. m_next[pred[t]] # Null => m_next[pred[t]] # head /\ m_key'[n] < m_key'[m_next[pred[t]]]
      BY <1>0, <1>3, <1>4, <1>6 DEF OrderInv, Ascending
    <3> QED BY <1>5, <2>1, <3>1 DEF Ascending, Before
  <2>2. CASE m = pred[t]
    <3>1. m = head \/ m_key'[m] < m_key'[n]
      BY <1>0, <1>3, <1>4, <1>6, <2>2 DEF Before
    <3> QED BY <1>3, <1>5, <2>2, <3>1 DEF Ascending, Before
  <2>3. CASE m # n /\ m # pred[t]
    <3>1. Ascending(m, m_next[m]) /\ m_next[m] \in allocated \cup {Null} /\ m_next'[m] = m_next[m]
      BY <1>0, <1>5, <2>3 DEF OrderInv
    <3>2. m_next[m] = Null \/ (m_next[m] # head /\ (m = head \/ m_key'[m] < m_key'[m_next[m]]))
      BY <1>7, <2>3, <3>1
    <3> QED BY <3>1, <3>2 DEF Ascending, Before
  <2> QED BY <2>1, <2>2, <2>3
<1>9. (m_key[head] = HeadKey)'
  BY <1>0, <1>3, <1>4 DEF OrderInv, HeadKey
<1>10. \A u \in Threads : WriteOrdered(u)'
  <2> SUFFICES ASSUME NEW u \in Threads, NEW m \in AllNodes, writeSet'[u][m].in
               PROVE  Ascending(m, writeSet[u][m].next)'
    BY DEF WriteOrdered
  <2>1. /\ writeSet'[u][m].next = writeSet[u][m].next /\ m \in AllNodes \ {n}
        /\ writeSet[u][m].next \in allocated \cup {Null} /\ Ascending(m, writeSet[u][m].next)
    BY <1>0, <1>2, <1>3 DEF OrderInv, WriteOrdered
  <2>2. \/ writeSet[u][m].next = Null
        \/ writeSet[u][m].next # head /\ (m = head \/ m_key'[m] < m_key'[writeSet[u][m].next])
    BY <1>7, <2>1
  <2> QED BY <2>1, <2>2 DEF Ascending, Before
<1>11. SearchOrdered(t)'
  <2>1. prev'[t] = Null BY <1>0, <1>2, PrevNull DEF NextRead
  <2> QED BY <1>2, <2>1, NotSearching DEF PredFound, NextRead
<1>12. \A u \in Threads \ {t} : SearchOrdered(u)'
  <2> SUFFICES ASSUME NEW u \in Threads \ {t} PROVE SearchOrdered(u)'
    OBVIOUS
  <2>1. pc'[u] = pc[u] BY SingletonFrame
  <2>2. SearchOrdered(u) BY <1>0 DEF OrderInv
  <2>3. pred[u] \in AllNodes \ {n} /\ m_key'[pred[u]] = m_key[pred[u]]
    BY <1>0, <1>3, <1>4
  <2>4. pc[u] \in PredFound /\ prev[u] = Null => Before(pred[u], task[u].key)'
    BY <1>2, <2>2, <2>3 DEF SearchOrdered, Before
  <2>5. prev[u] # Null => pc[u] \in {"read", "bump"} \cup NextRead /\ Ascending(prev[u], pred[u])'
    <3>1. prev[u] # Null => prev[u] \in AllNodes \ {n} /\ pred[u] \in allocated \cup {Null}
      BY <1>0, <1>3
    <3> QED BY <1>2, <1>7, <2>2, <3>1 DEF SearchOrdered, Ascending, Before
  <2>6. pc[u] \in NextRead => Ascending(pred[u], next[u])'
    <3>1. next[u] \in allocated \cup {Null} BY <1>0
    <3> QED BY <1>2, <1>7, <2>2, <2>3, <3>1 DEF SearchOrdered, Ascending, Before
  <2> QED BY <1>2, <2>1, <2>4, <2>5, <2>6 DEF SearchOrdered
<1>13. LinksStep(t)
  <2>1. lockedLNodes[t] = {pred[t]}
    BY <1>2 DEF SLockInv, SHolds, PredLabels
  <2> QED BY <1>0, <1>3, <1>4, <1>5, <2>1 DEF LinksStep
<1>14. PutOrdered(t)'
  BY <1>2, NotPutting DEF PutLabels
<1> QED BY <1>8, <1>9, <1>10, <1>11, <1>12, <1>13, <1>14 DEF OrderInv

(* The other operations look for no place to insert.                       *)
LEMMA RemoveOrder ==
  ASSUME STypeInv, SOrderInv, NEW t \in Threads, CallSingleton(t) \/ LoadClock(t) \/ SRemoveStep(t)
  PROVE  PutOrdered(t)'
<1>0. pc = [u \in Threads |-> pc[u]] /\ PutOrdered(t)
  BY SingletonFacts DEF SOrderInv
<1>1. CASE Crash(t, "null")
  <2>1. UNCHANGED <<pc, task, pred, next, m_key, m_next>>
    BY <1>1 DEF Crash, txVars, opVars, nodeVars
  <2> QED BY <1>0, <2>1 DEF PutOrdered, Before
<1>2. CASE ~Crash(t, "null")
  <2>1. pc'[t] \notin PutLabels
    <3> USE DEF Goto, Retry, TryLock, Release, Stamp, SReturn, PutLabels
    <3>1. CASE CallSingleton(t) \/ LoadClock(t)
      BY <1>0, <3>1 DEF CallSingleton, LoadClock
    <3>2. CASE SRemLock(t) \/ SRemCheck(t) \/ SRemLockVictim(t) \/ SRemClear(t) \/ SRemUnlink(t)
      BY <1>0, <1>2, <3>2 DEF SRemLock, SRemCheck, SRemLockVictim, SRemClear, SRemUnlink
    <3>3. CASE \/ SRemStampVictim(t) \/ SRemStampPred(t) \/ SRemUnlockVictim(t) \/ SRemUnlockPred(t)
               \/ SRemReturn(t)
      BY <1>0, <3>3 DEF SRemStampVictim, SRemStampPred, SRemUnlockVictim, SRemUnlockPred, SRemReturn
    <3> QED BY <3>1, <3>2, <3>3 DEF SRemoveStep
  <2> QED BY <2>1, NotPutting
<1> QED BY <1>1, <1>2

(* The steps outside a transaction keep the order.                         *)
LEMMA SingletonOrder ==
  ASSUME STypeInv, SLockInv, SOrderInv, MovesBefore, NEW t \in Threads, SingletonStep(t)
  PROVE  SOrderInv'
<1>1. OrderInv' /\ LinksStep(t) /\ PutOrdered(t)'
  <2>1. CASE SLink(t) BY <2>1, LinkOrder
  <2>2. CASE ~SLink(t)
    <3>1. /\ UNCHANGED m_key
          /\ \A n \in AllNodes : m_next'[n] = m_next[n] \/ (n \in lockedLNodes[t] /\ Ascending(n, m_next'[n]))
      BY <2>2, SingletonLinks
    <3>2. TypeInv /\ OrderInv /\ allocated \subseteq AllNodes
      BY SingletonFacts DEF STypeInv, SOrderInv
    <3>3. /\ UNCHANGED writeSet /\ prev'[t] \in {prev[t], Null}
          /\ pc[t] \in SLabels \cup {"idle"} /\ pc'[t] \in SLabels \cup {"idle"}
      BY SingletonFrame DEF storeVars
    <3>4. WriteOrdered(t)'
      BY <3>1, <3>2, <3>3 DEF OrderInv, WriteOrdered, Ascending, Before
    <3>5. SearchOrdered(t)'
      <4>1. prev[t] = Null BY <3>2, <3>3, PrevNull DEF SLabels, NextRead
      <4> QED BY <3>3, <4>1, NotSearching DEF SLabels, PredFound, NextRead
    <3>6. \A u \in Threads \ {t} : /\ pc'[u] = pc[u] /\ writeSet'[u] = writeSet[u]
                                   /\ task'[u] = task[u] /\ pred'[u] = pred[u]
                                   /\ next'[u] = next[u] /\ prev'[u] = prev[u]
      BY <3>3, SingletonFrame
    <3>7. OrderInv'
      BY <3>1, <3>2, <3>4, <3>5, <3>6, OrderFrame
    <3>8. LinksStep(t) BY <3>1, <3>2 DEF LinksStep
    <3>9. PutOrdered(t)'
      BY FindOrder, PutOrder, RemoveOrder DEF SingletonStep
    <3> QED BY <3>7, <3>8, <3>9
  <2> QED BY <2>1, <2>2
<1>2. \A u \in Threads \ {t} : PutOrdered(u)'
  <2> TAKE u \in Threads \ {t}
  <2>1. pc'[u] = pc[u] /\ task'[u] = task[u] /\ pred'[u] = pred[u] /\ next'[u] = next[u]
    BY SingletonFrame
  <2> QED BY <1>1, <2>1, PutFrame DEF SOrderInv
<1> QED BY <1>1, <1>2 DEF SOrderInv

(* The preloaded list is sorted, and nobody searches it.                   *)
LEMMA SOrderInit == SInit => SOrderInv
<1> SUFFICES ASSUME SInit PROVE SOrderInv
  OBVIOUS
<1>1. OrderInv BY OrderInit DEF SInit
<1>2. \A t \in Threads : pc[t] = "idle" BY DEF SInit, TXInit
<1> QED BY <1>1, <1>2 DEF SOrderInv, PutOrdered, PutLabels

(* Every step keeps the order while searches move to nodes before the key. *)
LEMMA SOrderNext ==
  STypeInv /\ SLockInv /\ SOrderInv /\ [Next]_allVars /\ [MovesBefore]_allVars => SOrderInv'
<1> SUFFICES ASSUME STypeInv, SLockInv, SOrderInv, [Next]_allVars, [MovesBefore]_allVars
             PROVE  SOrderInv'
  OBVIOUS
<1>1. CASE UNCHANGED allVars
  <2>1. UNCHANGED <<m_key, m_next, pc, writeSet, task, pred, next, prev>>
    BY <1>1 DEF allVars, vars, txVars, lnodeVars, nodeVars, storeVars, opVars
  <2> QED
    BY <2>1 DEF SOrderInv, PutOrdered, OrderInv, WriteOrdered, SearchOrdered, Ascending, Before, HeadKey
<1>2. ASSUME NEW t \in Threads, Step(t), MovesBefore PROVE SOrderInv'
  BY <1>2, TxOrder, SingletonOrder DEF Step
<1> QED BY <1>1, <1>2 DEF Next, Finished, allVars

(* Order of the list with singletons: if the two stores of a loaded word   *)
(* found the word they loaded, and find_node_singelton went on only to     *)
(* nodes before the key it puts, the list, what is about to be written to  *)
(* it and every link of an unlinked node would stay strictly sorted.       *)
LEMMA CompositionSorted == Spec /\ [][StoresLikeCAS /\ MovesBefore]_allVars => []Sorted
<1>1. [StoresLikeCAS /\ MovesBefore]_allVars => [StoresLikeCAS]_allVars /\ [MovesBefore]_allVars
  OBVIOUS
<1>2. SOrderInv => Sorted
  BY DEF SOrderInv, OrderInv, Sorted, WriteOrdered, WriteNodes
<1> QED
  BY <1>1, <1>2, STypeInit, STypeNext, SLockInit, SLockNext, SOrderInit, SOrderNext, PTL DEF Spec

-----------------------------------------------------------------------------
(* Assertions *)

(* A step fails no assertion but that of setSingleton(false), which TXend  *)
(* calls on a node of the read set that nobody need have locked.           *)
OnlyClearingAsserts ==
  crashed' = "assert" => crashed = "assert" \/ \E t \in Threads : setSingletonLoad(t)

(* The other steps of a transaction store to nodes they have locked.       *)
LEMMA TxAsserts ==
  ASSUME STypeInv, SLockInv, NEW t \in Threads, TXStep(t), ~setSingletonLoad(t)
  PROVE  UNCHANGED crashed
<1>0. /\ TypeInv /\ TxHolds(t) /\ LockOwnership /\ m_version_mask \in [AllNodes -> Word]
      /\ lockedLNodes \in [Threads -> SUBSET AllNodes]
  BY SingletonFacts DEF STypeInv, SLockInv, SHolds
<1>1. CASE OpStep(t) BY <1>0, <1>1, OpStepFrame
<1>2. CASE StampNode(t)
  <2>1. pred[t] \in lockedLNodes[t]
    BY <1>0, <1>2 DEF StampNode, TxHolds
  <2>2. isLocked(pred[t]) BY <1>0, <2>1 DEF LockOwnership
  <2> QED BY <1>2, <2>2 DEF StampNode, StoreLocked
<1>3. CASE ReleaseNode(t)
  <2>1. PICK n \in lockedLNodes[t] : unlock(n) BY <1>3 DEF ReleaseNode
  <2>2. isLocked(n) BY <1>0, <2>1 DEF LockOwnership
  <2> QED BY <2>1, <2>2 DEF unlock, StoreLocked
<1>4. CASE EndStep(t) /\ ~StampNode(t) /\ ~ReleaseNode(t)
  BY <1>4 DEF EndStep, LockNode, LockedAll, Validate, ValidateVersion, ValidateSingleton, IncrementAndClear,
         setSingletonStore, ValidatedReadOnly, TakeVersion,
         WriteNode, WroteAll, AbortEnd, UpdateIndex, AddToIndex, RemoveFromIndex, Commit, lnodeVars
<1> QED BY <1>1, <1>2, <1>3, <1>4 DEF TXStep

(* So do the steps outside a transaction.                                  *)
LEMMA SingletonAsserts ==
  ASSUME STypeInv, SLockInv, NEW t \in Threads, SingletonStep(t)
  PROVE  crashed' \in {crashed, "null"}
<1> USE DEF NodeLabels, PredLabels, BothLabels
<1>0. SHolds(t) BY DEF SLockInv
<1>r. ASSUME NEW r, SReturn(t, r) PROVE UNCHANGED crashed
  BY <1>r DEF SReturn
<1>c. ASSUME Crash(t, "null") PROVE crashed' = "null"
  BY <1>c DEF Crash
<1>u. ASSUME NEW n \in lockedLNodes[t], NEW l, Release(t, n, l) PROVE UNCHANGED crashed
  BY <1>u, ReleaseLocks
<1>s. ASSUME NEW n \in lockedLNodes[t], NEW w, NEW l, Stamp(t, n, w, l) PROVE UNCHANGED crashed
  <2>1. isLocked(n) BY <1>s, SingletonFacts DEF SLockInv, LockOwnership
  <2> QED BY <1>s, <2>1 DEF Stamp, StoreLocked
<1>1. CASE CallSingleton(t) \/ LoadClock(t)
  BY <1>1 DEF CallSingleton, LoadClock, lnodeVars
<1>2. CASE SGet(t) \/ SMiss(t) \/ SPutReturn(t) \/ SInsIndex(t) \/ SRemReturn(t)
  BY <1>c, <1>r, <1>2 DEF SGet, SMiss, SPutReturn, SInsIndex, SRemReturn
<1>3. CASE SFindStep(t) /\ ~(SGet(t) \/ SMiss(t))
  BY <1>3 DEF SFindStep, SFind, SStepBack, SReadNext, SCheckPred, SCompare, SHit, SStep, SSame, SMove,
         SNext, findVars, lnodeVars
<1>4. CASE SPutRead(t) \/ SPutVal(t) \/ SLink(t) \/ SLoadWord(t) \/ SStoreWord(t) \/ SRemClear(t)
  BY <1>4 DEF SPutRead, SPutVal, SLink, SLoadWord, SStoreWord, SRemClear
<1>5. CASE SPutLock(t) \/ SInsLock(t) \/ SRemLock(t) \/ SRemUnlink(t)
  BY <1>c, <1>5 DEF SPutLock, SInsLock, SRemLock, SRemUnlink, TryLock
<1>6. CASE SPutCheck(t)
  <2>1. node[t] \in lockedLNodes[t] BY <1>0, <1>6 DEF SPutCheck, SHolds
  <2> QED BY <1>c, <1>u, <1>6, <2>1 DEF SPutCheck, lnodeVars
<1>7. CASE SInsCheck(t) \/ SRemCheck(t)
  <2>1. pred[t] \in lockedLNodes[t] BY <1>0, <1>7 DEF SInsCheck, SRemCheck, SHolds
  <2> QED BY <1>u, <1>7, <2>1 DEF SInsCheck, SRemCheck, lnodeVars
<1>8. CASE SRemLockVictim(t)
  <2>1. pred[t] \in lockedLNodes[t] BY <1>0, <1>8 DEF SRemLockVictim, SHolds
  <2> QED BY <1>c, <1>u, <1>8, <2>1 DEF SRemLockVictim, TryLock
<1>9. CASE SSetSingleton(t) \/ SSetVersion(t) \/ SPutUnlock(t)
  <2>1. node[t] \in lockedLNodes[t] BY <1>0, <1>9 DEF SSetSingleton, SSetVersion, SPutUnlock, SHolds
  <2> QED BY <1>s, <1>u, <1>9, <2>1 DEF SSetSingleton, SSetVersion, SPutUnlock
<1>10. CASE SInsUnlock(t) \/ SRemStampPred(t) \/ SRemUnlockPred(t)
  <2>1. pred[t] \in lockedLNodes[t] BY <1>0, <1>10 DEF SInsUnlock, SRemStampPred, SRemUnlockPred, SHolds
  <2> QED BY <1>s, <1>u, <1>10, <2>1 DEF SInsUnlock, SRemStampPred, SRemUnlockPred
<1>11. CASE SRemStampVictim(t) \/ SRemUnlockVictim(t)
  <2>1. next[t] \in lockedLNodes[t] BY <1>0, <1>11 DEF SRemStampVictim, SRemUnlockVictim, SHolds
  <2> QED BY <1>s, <1>u, <1>11, <2>1 DEF SRemStampVictim, SRemUnlockVictim
<1> QED
  BY <1>1, <1>2, <1>3, <1>4, <1>5, <1>6, <1>7, <1>8, <1>9, <1>10, <1>11
  DEF SingletonStep, SFindStep, SPutStep, SRemoveStep

(* Whoever unlocks or stamps a node has locked it.                         *)
LEMMA AssertsNext == STypeInv /\ SLockInv /\ [Next]_allVars => [OnlyClearingAsserts]_allVars
<1> SUFFICES ASSUME STypeInv, SLockInv, [Next]_allVars, ~UNCHANGED allVars, crashed' = "assert",
                    \A t \in Threads : ~setSingletonLoad(t)
             PROVE  crashed = "assert"
  BY DEF OnlyClearingAsserts
<1>1. PICK t \in Threads : Step(t) BY DEF Next, Finished, allVars
<1>2. CASE TXStep(t) BY <1>2, TxAsserts
<1>3. CASE SingletonStep(t) BY <1>3, SingletonAsserts
<1> QED BY <1>1, <1>2, <1>3 DEF Step

(* The assertions of LNode.h with singletons: if the two stores of a       *)
(* loaded word found the word they loaded, unlock and every setter but one *)
(* would only meet nodes their caller has locked.  The one is              *)
(* setSingleton(false) in TXend's validation (TX.h:124).                   *)
LEMMA CompositionAssertions ==
  Spec /\ [][StoresLikeCAS]_allVars => [][OnlyClearingAsserts]_allVars
BY STypeInit, STypeNext, SLockInit, SLockNext, AssertsNext, PTL DEF Spec

-----------------------------------------------------------------------------
(* Three ways to use the list in which nothing is missing *)

(* Threads that call the list outside transactions only look keys up.      *)
OnlyGets ==
  \A t \in Threads : "singleton" \in Modes[t] =>
    \A i \in 1..Len(Tasks[t]) : \A k \in Tasks[t][i] : k.op = "get"

(* No transactions, and nothing is put.                                    *)
OnlyRemoves ==
  \A t \in Threads :
    "tx" \notin Modes[t] /\ \A i \in 1..Len(Tasks[t]) : \A k \in Tasks[t][i] : k.op # "put"

SearchLabels == {"sFind", "sPred", "sRead", "sAgain", "sLoop", "sHit", "sStep", "sSame", "sMove",
                 "sNext", "sFound", "sMiss"}
RemoveLabels == {"sChkRem", "sLockDel", "sUnlockPred", "sUnindex"} \cup BothLabels

GetsInv ==
  LockInv /\ \A t \in Threads : pc[t] \in SLabels => pc[t] \in SearchLabels /\ task[t].op = "get"

RemovesInv ==
  \A t \in Threads :
    pc[t] = "idle" \/ (pc[t] \in SearchLabels \cup RemoveLabels /\ task[t].op # "put")

(* A step of the search stays in the search or returns, and leaves words   *)
(* and locks alone.                                                        *)
LEMMA SSearchStep ==
  ASSUME STypeInv, NEW t \in Threads, SFindStep(t)
  PROVE  /\ UNCHANGED <<m_version_mask, lockedLNodes>> /\ crashed' \in {crashed, "null"}
         /\ \/ pc'[t] \in SearchLabels /\ UNCHANGED task
            \/ pc'[t] = "idle"
<1> USE DEF SearchLabels
<1>1. CASE SGet(t) \/ SMiss(t)
  <2>1. CASE Crash(t, "null")
    <3>1. pc[t] \in SearchLabels BY <1>1 DEF SGet, SMiss
    <3>2. UNCHANGED <<m_version_mask, lockedLNodes, pc, task>> /\ crashed' = "null"
      BY <2>1 DEF Crash, txVars, opVars, endVars
    <3> QED BY <3>1, <3>2
  <2>2. CASE ~Crash(t, "null")
    BY <1>1, <2>2, SingletonFacts DEF SGet, SMiss, SReturn, Goto, endVars
  <2> QED BY <2>1, <2>2
<1>2. CASE ~(SGet(t) \/ SMiss(t))
  <2>1. UNCHANGED <<m_version_mask, lockedLNodes, crashed, task>>
    BY <1>2 DEF SFindStep, SFind, SStepBack, SReadNext, SCheckPred, SCompare, SHit, SStep, SSame, SMove,
           SNext, findVars, lnodeVars, endVars
  <2>2. pc'[t] \in SearchLabels
    BY <1>2, SingletonFacts DEF SFindStep, SFind, SStepBack, SReadNext, SCheckPred, SCompare, SHit, SStep,
           SSame, SMove, SNext, Goto, Retry
  <2> QED BY <2>1, <2>2
<1> QED BY <1>1, <1>2

(* What a thread calls outside a transaction is one of its tasks.          *)
LEMMA CalledTask ==
  ASSUME STypeInv, NEW t \in Threads, CallSingleton(t)
  PROVE  /\ pc'[t] = "sFind" /\ UNCHANGED <<m_version_mask, lockedLNodes, crashed>>
         /\ \E i \in 1..Len(Tasks[t]) : task'[t] \in Tasks[t][i]
<1>1. pc'[t] = "sFind" /\ UNCHANGED <<m_version_mask, lockedLNodes, crashed>>
  BY SingletonFacts DEF CallSingleton, Goto, lnodeVars, endVars
<1>2. consumed[t] \in Nat /\ consumed[t] < Len(Tasks[t]) /\ Len(Tasks[t]) \in Nat
  <2>1. Tasks[t] \in Seq(SUBSET Task) BY TasksAssumption
  <2>2. Len(Tasks[t]) \in Nat BY <2>1
  <2> QED BY <2>2, SingletonFacts DEF CallSingleton
<1>3. consumed[t] + 1 \in 1..Len(Tasks[t]) BY <1>2
<1>4. task'[t] \in Tasks[t][consumed[t] + 1] BY SingletonFacts DEF CallSingleton
<1> QED BY <1>1, <1>3, <1>4

(* With lookups only, transactions go on as if they were alone.            *)
LEMMA GetsNext == OnlyGets /\ STypeInv /\ GetsInv /\ [Next]_allVars => GetsInv'
<1> SUFFICES ASSUME OnlyGets, STypeInv, GetsInv, [Next]_allVars PROVE GetsInv'
  OBVIOUS
<1> USE DEF SearchLabels
<1>1. CASE UNCHANGED allVars
  <2>1. UNCHANGED <<m_version_mask, crashed, pc, writeSet, lockedLNodes, todo, pred, task>>
    BY <1>1 DEF allVars, vars, txVars, lnodeVars, storeVars, endVars, opVars
  <2> QED
    BY <2>1 DEF GetsInv, LockInv, LockOwnership, NoSingletons, WriteSetLocked, LocksInTXend, AssertionsHold,
           WriteNodes, isLocked, isSingleton
<1>2. ASSUME NEW t \in Threads, TXStep(t) PROVE GetsInv'
  <2>1. TypeInv /\ LockInv BY DEF STypeInv, GetsInv
  <2>2. LockInv' BY <1>2, <2>1, OpStepLock, EndStepLock DEF TXStep
  <2>3. /\ pc'[t] \in Labels
        /\ \A u \in Threads \ {t} : pc'[u] = pc[u] /\ task'[u] = task[u]
    BY <1>2, <2>1, StepLabels, StepFrame
  <2>4. pc'[t] \notin SLabels BY <2>3 DEF Labels, SLabels
  <2> QED BY <2>2, <2>3, <2>4 DEF GetsInv
<1>3. ASSUME NEW t \in Threads, SingletonStep(t) PROVE GetsInv'
  <2>1. \/ "singleton" \in Modes[t] /\ CallSingleton(t)
        \/ SFindStep(t)
    <3>1. ~LoadClock(t) /\ ~SRemoveStep(t) /\ ~SPutStep(t)
      <4>1. pc[t] \in SLabels => pc[t] \in SearchLabels /\ task[t].op = "get" BY DEF GetsInv
      <4>2. ~LoadClock(t) BY <4>1 DEF LoadClock, SLabels
      <4>3. ~SRemoveStep(t)
        BY <4>1 DEF SRemoveStep, SRemLock, SRemCheck, SRemLockVictim, SRemClear, SRemUnlink, SRemStampVictim,
               SRemStampPred, SRemUnlockVictim, SRemUnlockPred, SRemReturn, SLabels
      <4>4. ~SPutStep(t)
        BY <4>1 DEF SPutStep, SPutRead, SPutLock, SPutCheck, SPutVal, SSetSingleton, SSetVersion, SPutUnlock,
               SPutReturn, SInsLock, SInsCheck, SLink, SLoadWord, SStoreWord, SInsUnlock, SInsIndex, SLabels
      <4> QED BY <4>2, <4>3, <4>4
    <3> QED BY <1>3, <3>1 DEF SingletonStep
  <2>2. /\ UNCHANGED <<m_version_mask, lockedLNodes>> /\ crashed' \in {crashed, "null"}
        /\ pc'[t] = "idle" \/ (pc'[t] \in SearchLabels /\ task'[t].op = "get")
    <3>1. CASE CallSingleton(t) /\ "singleton" \in Modes[t]
      BY <3>1, CalledTask DEF OnlyGets
    <3>2. CASE SFindStep(t)
      <4>1. pc[t] \in SLabels
        BY <3>2 DEF SFindStep, SFind, SStepBack, SReadNext, SCheckPred, SCompare, SHit, SStep, SSame, SMove,
               SNext, SGet, SMiss, SLabels
      <4>2. task[t].op = "get" BY <4>1 DEF GetsInv
      <4> QED BY <3>2, <4>2, SSearchStep
    <3> QED BY <2>1, <3>1, <3>2
  <2>3. /\ UNCHANGED <<writeSet, todo>> /\ pc[t] \in SLabels \cup {"idle"}
        /\ \A u \in Threads \ {t} : pc'[u] = pc[u] /\ task'[u] = task[u] /\ pred'[u] = pred[u]
    BY <1>3, SingletonFrame DEF storeVars
  <2>4. pc[t] \notin Validating \cup {"lock", "write", "stamp", "release"}
    BY <2>3 DEF SLabels, Validating
  <2>5. LockOwnership' /\ AssertionsHold' /\ NoSingletons'
    BY <2>2, <2>3 DEF GetsInv, LockInv, LockOwnership, AssertionsHold, NoSingletons, isLocked, isSingleton
  <2>6. WriteSetLocked'
    BY <2>2, <2>3 DEF GetsInv, LockInv, WriteSetLocked, WriteNodes, Validating
  <2>7. LocksInTXend'
    <3>1. lockedLNodes[t] = {} BY <2>4 DEF GetsInv, LockInv, LocksInTXend
    <3> QED BY <2>2, <2>3, <3>1 DEF GetsInv, LockInv, LocksInTXend
  <2>8. \A u \in Threads : (pc[u] \in SLabels => pc[u] \in SearchLabels /\ task[u].op = "get")'
    BY <2>2, <2>3 DEF GetsInv, SLabels
  <2> QED BY <2>5, <2>6, <2>7, <2>8 DEF GetsInv, LockInv
<1> QED BY <1>1, <1>2, <1>3 DEF Next, Step, Finished, allVars

(* With removals and lookups only, no thread is in a transaction or in an  *)
(* insertion.                                                              *)
LEMMA RemovesNext == OnlyRemoves /\ STypeInv /\ RemovesInv /\ [Next]_allVars => RemovesInv'
<1> SUFFICES ASSUME OnlyRemoves, STypeInv, RemovesInv, [Next]_allVars PROVE RemovesInv'
  OBVIOUS
<1> USE DEF SearchLabels, RemoveLabels, BothLabels
<1>1. CASE UNCHANGED allVars
  <2>1. UNCHANGED <<pc, task>> BY <1>1 DEF allVars, vars, txVars, opVars
  <2> QED BY <2>1 DEF RemovesInv
<1>2. ASSUME NEW t \in Threads, TXStep(t), pc[t] # "idle" PROVE FALSE
  <2>1. pc[t] \in Labels BY <1>2, StepLabels DEF STypeInv
  <2> QED BY <1>2, <2>1 DEF RemovesInv, Labels
<1>3. ASSUME NEW t \in Threads, SingletonStep(t) PROVE RemovesInv'
  <2>0. pc = [u \in Threads |-> pc[u]] BY SingletonFacts
  <2>1. pc[t] = "idle" \/ (pc[t] \in SearchLabels \cup RemoveLabels /\ task[t].op # "put")
    BY DEF RemovesInv
  <2>2. pc'[t] = "idle" \/ (pc'[t] \in SearchLabels \cup RemoveLabels /\ task'[t].op # "put")
    <3>1. CASE CallSingleton(t) BY <3>1, CalledTask DEF OnlyRemoves
    <3>2. CASE SFindStep(t)
      <4>1. pc[t] # "idle"
        BY <3>2 DEF SFindStep, SFind, SStepBack, SReadNext, SCheckPred, SCompare, SHit, SStep, SSame, SMove,
               SNext, SGet, SMiss
      <4> QED BY <2>1, <3>2, <4>1, SSearchStep
    <3>3. CASE LoadClock(t)
      <4>1. pc'[t] = "sStampDel" /\ UNCHANGED task
        BY <2>0, <2>1, <3>3 DEF LoadClock, Goto, keepVars, opVars
      <4> QED BY <2>1, <3>3, <4>1 DEF LoadClock
    <3>4. CASE SPutStep(t)
      BY <2>1, <3>4 DEF SPutStep, SPutRead, SPutLock, SPutCheck, SPutVal, SSetSingleton, SSetVersion,
             SPutUnlock, SPutReturn, SInsLock, SInsCheck, SLink, SLoadWord, SStoreWord, SInsUnlock, SInsIndex
    <3>5. CASE SRemoveStep(t)
      <4>1. pc[t] # "idle"
        BY <3>5 DEF SRemoveStep, SRemLock, SRemCheck, SRemLockVictim, SRemClear, SRemUnlink, SRemStampVictim,
               SRemStampPred, SRemUnlockVictim, SRemUnlockPred, SRemReturn
      <4>2. CASE Crash(t, "null")
        BY <2>1, <4>1, <4>2 DEF Crash, txVars, opVars
      <4>3. CASE ~Crash(t, "null") /\ ~SRemReturn(t)
        <5>1. UNCHANGED task
          BY <3>5, <4>3 DEF SRemoveStep, SRemLock, SRemCheck, SRemLockVictim, SRemClear, SRemUnlink,
                 SRemStampVictim, SRemStampPred, SRemUnlockVictim, SRemUnlockPred, TryLock, Release, Stamp,
                 keepVars, opVars
        <5>2. pc'[t] \in SearchLabels \cup RemoveLabels
          BY <2>0, <3>5, <4>3 DEF SRemoveStep, SRemLock, SRemCheck, SRemLockVictim, SRemClear, SRemUnlink,
                 SRemStampVictim, SRemStampPred, SRemUnlockVictim, SRemUnlockPred, TryLock, Release, Stamp,
                 Goto, Retry
        <5> QED BY <2>1, <4>1, <5>1, <5>2
      <4>4. CASE SRemReturn(t) BY <2>0, <4>4 DEF SRemReturn, SReturn, Goto
      <4> QED BY <4>2, <4>3, <4>4
    <3> QED BY <1>3, <3>1, <3>2, <3>3, <3>4, <3>5 DEF SingletonStep
  <2>3. \A u \in Threads \ {t} : pc'[u] = pc[u] /\ task'[u] = task[u]
    BY <1>3, SingletonFrame
  <2> QED BY <2>2, <2>3 DEF RemovesInv
<1> QED BY <1>1, <1>2, <1>3 DEF OnlyRemoves, Next, Step, Finished, allVars

(* In both no thread ever comes to a store that lacks a check.             *)
LEMMA NothingMissing ==
  ASSUME GetsInv \/ RemovesInv
  PROVE  /\ StoresLikeCAS /\ StampsFresh /\ MovesBefore
         /\ \A t \in Threads : ~setSingletonLoad(t)
<1>1. \A t \in Threads : pc[t] \notin {"loadSng", "storeSng", "sStore"}
  BY DEF GetsInv, LockInv, NoSingletons, RemovesInv, SLabels, SearchLabels, RemoveLabels, BothLabels
<1>2. \A t \in Threads : pc[t] = "sMove" => task[t].op # "put"
  BY DEF GetsInv, RemovesInv, SLabels
<1> QED
  BY <1>1, <1>2
  DEF StoresLikeCAS, StampsFresh, MovesBefore, setSingletonLoad, setSingletonStore, SStoreWord, SMove

(* Transactions next to lookups outside transactions: the locks are        *)
(* exclusive, no assertion fails, the list stays sorted, and a node that   *)
(* is not locked does not change, for any number of threads.               *)
THEOREM GetsAreSafe ==
  ASSUME OnlyGets
  PROVE  Spec => [](LockOwnership /\ AssertionsHold /\ Sorted) /\ NodeStable
<1>1. SInit => GetsInv
  <2> SUFFICES ASSUME SInit PROVE GetsInv OBVIOUS
  <2>1. LockInv BY LockInit DEF SInit
  <2>2. \A t \in Threads : pc[t] = "idle" BY DEF SInit, TXInit
  <2> QED BY <2>1, <2>2 DEF GetsInv, SLabels
<1>2. STypeInv /\ GetsInv /\ [Next]_allVars => GetsInv'
  BY GetsNext
<1>3. GetsInv => AssertionsHold BY DEF GetsInv, LockInv
<1>4. Spec => []GetsInv BY <1>1, <1>2, STypeInit, STypeNext, PTL DEF Spec
<1>5. GetsInv => [StoresLikeCAS]_allVars /\ [StoresLikeCAS /\ StampsFresh]_allVars
                 /\ [StoresLikeCAS /\ MovesBefore]_allVars
  BY NothingMissing
<1> QED
  BY <1>3, <1>4, <1>5, CompositionLocks, CompositionSorted, CompositionStable, PTL

(* Removals and lookups outside transactions, without transactions: the    *)
(* same.                                                                   *)
THEOREM RemovesAreSafe ==
  ASSUME OnlyRemoves
  PROVE  Spec => [](LockOwnership /\ AssertionsHold /\ Sorted) /\ NodeStable
<1>1. SInit => RemovesInv /\ AssertionsHold
  BY DEF SInit, TXInit, LNodeInit, RemovesInv, AssertionsHold
<1>2. STypeInv /\ RemovesInv /\ [Next]_allVars => RemovesInv'
  BY RemovesNext
<1>3. Spec => []RemovesInv BY <1>1, <1>2, STypeInit, STypeNext, PTL DEF Spec
<1>4. RemovesInv => [StoresLikeCAS]_allVars /\ [StoresLikeCAS /\ StampsFresh]_allVars
                    /\ [StoresLikeCAS /\ MovesBefore]_allVars
  BY NothingMissing
<1>5. RemovesInv /\ AssertionsHold /\ [OnlyClearingAsserts]_allVars => AssertionsHold'
  <2> SUFFICES ASSUME RemovesInv, AssertionsHold, [OnlyClearingAsserts]_allVars PROVE AssertionsHold'
    OBVIOUS
  <2>1. CASE UNCHANGED allVars
    BY <2>1 DEF AssertionsHold, allVars, vars, lnodeVars
  <2> QED BY <2>1, NothingMissing DEF OnlyClearingAsserts, AssertionsHold
<1> QED
  BY <1>1, <1>3, <1>4, <1>5, CompositionLocks, CompositionSorted, CompositionStable, CompositionAssertions,
     PTL DEF Spec

-----------------------------------------------------------------------------
(* The third: one thread puts, removes and looks up outside transactions   *)
(* while the others look keys up.                                          *)

OneUpdater(u) ==
  /\ \A t \in Threads : "tx" \notin Modes[t]
  /\ \A t \in Threads \ {u} : \A i \in 1..Len(Tasks[t]) : \A k \in Tasks[t][i] : k.op = "get"

(* The updater's stores do meet its readers, and what they would have to   *)
(* check is true all the same: a node nobody has stamped has the word it   *)
(* was made with, and the successor that was compared still follows pred.  *)
UpdaterInv(u) ==
  /\ \A t \in Threads : pc[t] \in SLabels \cup {"idle"}
  /\ \A t \in Threads \ {u} : pc[t] = "idle" \/ (pc[t] \in SearchLabels /\ task[t].op = "get")
  /\ \A n \in AllNodes \ allocated : m_version_mask[n] = FreshWord
  /\ pc[u] \in {"sVerIns", "sLoad", "sStore"} => m_version_mask[node[u]] = FreshWord
  /\ pc[u] = "sStore" => word[u] = FreshWord
  /\ pc[u] \in {"sStep", "sSame", "sMove"} => Further(u)
  /\ pc[u] = "sMove" => m_next[pred[u]] = next[u]

(* A search leaves the nodes alone, and moves on with what it compared.    *)
LEMMA SearchKeeps ==
  ASSUME STypeInv, NEW t \in Threads, SFindStep(t) \/ CallSingleton(t)
  PROVE  /\ UNCHANGED <<nodeVars, m_version_mask>>
         /\ pc'[t] \in SearchLabels \cup {"idle"}
         /\ pc'[t] = "sStep" => Further(t)'
         /\ pc'[t] = "sSame" => pc[t] = "sStep" /\ UNCHANGED <<pred, next, task>>
         /\ pc'[t] = "sMove" => /\ pc[t] = "sSame" /\ UNCHANGED <<pred, next, task>>
                                /\ next[t] = m_next[pred[t]]
<1> USE DEF SearchLabels, lnodeVars, nodeVars
<1>1. CASE CallSingleton(t)
  BY <1>1, SingletonFacts DEF CallSingleton, Goto
<1>2. CASE SGet(t) \/ SMiss(t)
  <2>1. CASE Crash(t, "null")
    <3>1. pc[t] \in {"sFound", "sMiss"} BY <1>2 DEF SGet, SMiss
    <3>2. UNCHANGED <<nodeVars, m_version_mask, pc>>
      BY <2>1 DEF Crash, txVars
    <3> QED BY <3>1, <3>2
  <2>2. CASE ~Crash(t, "null")
    BY <1>2, <2>2, SingletonFacts DEF SGet, SMiss, SReturn, Goto
  <2> QED BY <2>1, <2>2
<1>3. CASE ~(SGet(t) \/ SMiss(t)) /\ SFindStep(t)
  <2>1. UNCHANGED <<nodeVars, m_version_mask, task>>
    BY <1>3 DEF SFindStep, SFind, SStepBack, SReadNext, SCheckPred, SCompare, SHit, SStep, SSame, SMove,
           SNext, findVars
  <2>2. CASE SCompare(t)
    <3>1. UNCHANGED <<pred, next>> BY <2>2 DEF SCompare
    <3>2. pc'[t] \in {"sMiss", "sFind", "sHit", "sStep"} /\ (pc'[t] = "sStep" => Further(t))
      BY <2>2, SingletonFacts DEF SCompare, Goto, Retry
    <3> QED BY <2>1, <3>1, <3>2 DEF Further
  <2>3. CASE ~SCompare(t)
    <3>1. pc'[t] \in {"sFind", "sPred", "sRead", "sAgain", "sLoop", "sFound", "sNext"}
          \/ (SStep(t) /\ pc'[t] = "sSame") \/ (SSame(t) /\ pc'[t] = "sMove")
      BY <1>3, <2>3, SingletonFacts DEF SFindStep, SFind, SStepBack, SReadNext, SCheckPred, SHit, SStep,
             SSame, SMove, SNext, Goto, Retry
    <3>2. CASE SStep(t) /\ pc'[t] = "sSame" BY <2>1, <3>2 DEF SStep
    <3>3. CASE SSame(t) /\ pc'[t] = "sMove"
      BY <2>1, <3>3, SingletonFacts DEF SSame, Goto, Retry
    <3> QED BY <2>1, <3>1, <3>2, <3>3
  <2> QED BY <2>2, <2>3
<1> QED BY <1>1, <1>2, <1>3

(* An update writes the words of nodes it has, and goes on to stamp a new  *)
(* node only with the word the node was made with.                         *)
LEMMA UpdateWords ==
  ASSUME STypeInv, NEW t \in Threads, LoadClock(t) \/ SPutStep(t) \/ SRemoveStep(t)
  PROVE  /\ \A n \in AllNodes \ allocated : m_version_mask'[n] = m_version_mask[n]
         /\ pc'[t] \notin {"sStep", "sSame", "sMove"}
         /\ pc'[t] = "sVerIns" => /\ node'[t] \in AllNodes \ allocated
                                  /\ UNCHANGED m_version_mask
         /\ pc'[t] = "sLoad" => pc[t] = "sVerIns" /\ UNCHANGED <<node, m_version_mask>>
         /\ pc'[t] = "sStore" => /\ pc[t] = "sLoad" /\ UNCHANGED <<node, m_version_mask>>
                                 /\ word'[t] = m_version_mask[node[t]]
<1> DEFINE Only(n) == \A m \in AllNodes \ {n} : m_version_mask'[m] = m_version_mask[m]
           Rest == {"sFind", "sLockVal", "sChkVal", "sPutVal", "sSetSng", "sVerPut", "sSetVer", "sUnlockVal",
                    "sRet", "sChkIns", "sLink", "sUnlockIns", "sIndex", "idle"} \cup RemoveLabels
           Marked == {"sStep", "sSame", "sMove", "sVerIns", "sLoad", "sStore"}
<1>0. /\ pred[t] \in allocated
      /\ node[t] # Null => node[t] \in allocated
      /\ next[t] # Null => next[t] \in allocated
      /\ pc[t] \in HasNode => node[t] # Null
      /\ pc[t] \in HasNext => next[t] # Null
      /\ m_version_mask \in [AllNodes -> Word]
  BY SingletonFacts DEF STypeInv, SRefs, Ref
<1>r. \A l \in Rest : l \notin Marked BY DEF RemoveLabels, BothLabels
<1>a. ASSUME NEW n, NEW l, TryLock(t, n, l)
      PROVE  Only(n) /\ pc'[t] \in {"sFind", l}
  BY <1>0, <1>a, SingletonFacts DEF TryLock, tryLock, Goto, Retry
<1>b. ASSUME NEW n, NEW l, Release(t, n, l)
      PROVE  Only(n) /\ pc'[t] = l
  BY <1>0, <1>b, SingletonFacts DEF Release, unlock, StoreLocked, Goto
<1>c. ASSUME NEW n, NEW w, NEW l, Stamp(t, n, w, l)
      PROVE  Only(n) /\ pc'[t] = l
  BY <1>0, <1>c, SingletonFacts DEF Stamp, StoreLocked, Goto
<1>d. ASSUME Crash(t, "null")
      PROVE  UNCHANGED <<m_version_mask, pc>>
  BY <1>d DEF Crash, txVars
<1>e. ASSUME NEW r, SReturn(t, r)
      PROVE  UNCHANGED m_version_mask /\ pc'[t] = "idle"
  BY <1>e, SingletonFacts DEF SReturn, Goto
<1>1. CASE LoadClock(t)
  <2>1. UNCHANGED <<m_version_mask, node>> BY <1>1 DEF LoadClock, sVars
  <2>2. \/ pc[t] = "sVerIns" /\ pc'[t] = "sLoad"
        \/ pc'[t] \in {"sSetVer", "sStampDel"}
    BY <1>1, SingletonFacts DEF LoadClock, Goto
  <2> QED BY <2>1, <2>2
<1>2. CASE SLink(t)
  <2>1. UNCHANGED m_version_mask /\ pc'[t] = "sVerIns" BY <1>2, SingletonFacts DEF SLink, Goto
  <2>2. node'[t] \in AllNodes \ allocated BY <1>2, SingletonFacts DEF SLink, AllNodes
  <2> QED BY <2>1, <2>2
<1>3. CASE SLoadWord(t)
  <2>1. UNCHANGED <<m_version_mask, node>> /\ pc[t] = "sLoad" /\ pc'[t] = "sStore"
    BY <1>3, SingletonFacts DEF SLoadWord, Goto, sVars
  <2>2. word'[t] = m_version_mask[node[t]] BY <1>3, SingletonFacts DEF SLoadWord
  <2> QED BY <2>1, <2>2
<1>4. CASE SStoreWord(t)
  <2>1. pc[t] = "sStore" /\ pc'[t] = "sUnlockIns" BY <1>4, SingletonFacts DEF SStoreWord, Goto
  <2>2. node[t] \in allocated BY <1>0, <2>1 DEF HasNode
  <2>3. Only(node[t]) BY <1>0, <1>4 DEF SStoreWord
  <2> QED BY <2>1, <2>2, <2>3
<1>5. CASE /\ ~SLink(t) /\ ~SLoadWord(t) /\ ~SStoreWord(t)
           /\ SPutStep(t) \/ SRemoveStep(t)
  <2> SUFFICES /\ pc'[t] \in Rest
               /\ UNCHANGED m_version_mask \/ \E n \in allocated : Only(n)
    BY <1>r
  <2> HIDE DEF Only
  <2> USE DEF RemoveLabels, BothLabels, HasNode, HasNext, NodeLabels
  <2>1. CASE SPutRead(t)
    BY <2>1, SingletonFacts DEF SPutRead, Goto
  <2>2. CASE SPutLock(t)
    BY <2>2, <1>0, <1>a, <1>d DEF SPutLock
  <2>3. CASE SPutCheck(t)
    <3>1. pc[t] = "sChkVal" /\ (\/ Crash(t, "null") \/ Release(t, node[t], "sFind")
                                \/ /\ Goto(t, "sPutVal")
                                   /\ UNCHANGED m_version_mask)
      BY <2>3 DEF SPutCheck, lnodeVars
    <3> QED BY <3>1, <1>0, <1>b, <1>d, SingletonFacts DEF Goto
  <2>4. CASE SPutVal(t)
    BY <2>4, SingletonFacts DEF SPutVal, Goto
  <2>5. CASE SSetSingleton(t) \/ SSetVersion(t) \/ SPutUnlock(t)
    BY <2>5, <1>0, <1>b, <1>c DEF SSetSingleton, SSetVersion, SPutUnlock
  <2>6. CASE SPutReturn(t) \/ SInsIndex(t) \/ SRemReturn(t)
    BY <2>6, <1>e DEF SPutReturn, SInsIndex, SRemReturn
  <2>7. CASE SInsLock(t) \/ SInsUnlock(t) \/ SRemLock(t)
    BY <2>7, <1>0, <1>a, <1>b DEF SInsLock, SInsUnlock, SRemLock
  <2>8. CASE SInsCheck(t) \/ SRemCheck(t)
    <3>1. \/ Release(t, pred[t], "sFind")
          \/ (Goto(t, "sLink") \/ Goto(t, "sLockDel")) /\ UNCHANGED m_version_mask
      BY <2>8 DEF SInsCheck, SRemCheck, lnodeVars
    <3> QED BY <3>1, <1>0, <1>b, SingletonFacts DEF Goto
  <2>9. CASE SRemLockVictim(t)
    <3>1. /\ pc[t] = "sLockDel"
          /\ \/ Crash(t, "null") \/ Release(t, pred[t], "sFind")
             \/ next[t] # Null /\ TryLock(t, next[t], "sClear")
      BY <2>9 DEF SRemLockVictim
    <3> QED BY <3>1, <1>0, <1>a, <1>b, <1>d
  <2>10. CASE SRemClear(t)
    BY <2>10, SingletonFacts DEF SRemClear, Goto
  <2>11. CASE SRemUnlink(t)
    <3>1. /\ pc[t] = "sUnlink"
          /\ \/ Crash(t, "null")
             \/ Goto(t, "sVerRem") /\ UNCHANGED m_version_mask
      BY <2>11 DEF SRemUnlink
    <3> QED BY <3>1, <1>d, SingletonFacts DEF Goto
  <2>12. CASE SRemStampVictim(t) \/ SRemStampPred(t) \/ SRemUnlockVictim(t) \/ SRemUnlockPred(t)
    BY <2>12, <1>0, <1>b, <1>c DEF SRemStampVictim, SRemStampPred, SRemUnlockVictim, SRemUnlockPred
  <2> QED
    BY <1>5, <2>1, <2>2, <2>3, <2>4, <2>5, <2>6, <2>7, <2>8, <2>9, <2>10, <2>11, <2>12
    DEF SPutStep, SRemoveStep
<1> QED BY <1>1, <1>2, <1>3, <1>4, <1>5 DEF SPutStep

(* The others only search, so that they change no node.                    *)
LEMMA UpdaterNext ==
  ASSUME NEW u \in Threads
  PROVE  OneUpdater(u) /\ STypeInv /\ UpdaterInv(u) /\ [Next]_allVars => UpdaterInv(u)'
<1> SUFFICES ASSUME OneUpdater(u), STypeInv, UpdaterInv(u), [Next]_allVars PROVE UpdaterInv(u)'
  OBVIOUS
<1>1. CASE UNCHANGED allVars
  <2>1. UNCHANGED <<pc, task, node, word, next, pred, m_next, m_key, m_version_mask, allocated>>
    BY <1>1 DEF allVars, vars, txVars, lnodeVars, nodeVars, opVars, endVars, sVars
  <2> QED BY <2>1 DEF UpdaterInv, Further
<1>2. ASSUME NEW t \in Threads, TXStep(t), pc[t] # "idle" PROVE FALSE
  <2>1. pc[t] \in Labels BY <1>2, StepLabels DEF STypeInv
  <2> QED BY <1>2, <2>1 DEF UpdaterInv, Labels, SLabels
<1>3. ASSUME NEW t \in Threads, SingletonStep(t) PROVE UpdaterInv(u)'
  <2>1. /\ allocated \subseteq allocated' /\ pc'[t] \in SLabels \cup {"idle"}
        /\ \A v \in Threads \ {t} : /\ pc'[v] = pc[v] /\ task'[v] = task[v] /\ pred'[v] = pred[v]
                                   /\ next'[v] = next[v] /\ node'[v] = node[v] /\ word'[v] = word[v]
    BY <1>3, SingletonFrame
  <2>2. \A v \in Threads : pc'[v] \in SLabels \cup {"idle"}
    BY <2>1 DEF UpdaterInv
  <2>3. CASE t # u
    <3>1. pc[t] = "idle" \/ (pc[t] \in SearchLabels /\ task[t].op = "get")
      BY <2>3 DEF UpdaterInv
    <3>2. ~LoadClock(t) BY <3>1 DEF LoadClock, SearchLabels
    <3>3. ~SRemoveStep(t)
      BY <3>1 DEF SRemoveStep, SRemLock, SRemCheck, SRemLockVictim, SRemClear, SRemUnlink, SRemStampVictim,
             SRemStampPred, SRemUnlockVictim, SRemUnlockPred, SRemReturn, SearchLabels
    <3>4. ~SPutStep(t)
      BY <3>1 DEF SPutStep, SPutRead, SPutLock, SPutCheck, SPutVal, SSetSingleton, SSetVersion, SPutUnlock,
             SPutReturn, SInsLock, SInsCheck, SLink, SLoadWord, SStoreWord, SInsUnlock, SInsIndex, SearchLabels
    <3>5. SFindStep(t) \/ CallSingleton(t) BY <1>3, <3>2, <3>3, <3>4 DEF SingletonStep
    <3>6. UNCHANGED <<m_version_mask, m_key, m_next, allocated>>
      BY <3>5, SearchKeeps DEF nodeVars
    <3>7. pc'[t] = "idle" \/ (pc'[t] \in SearchLabels /\ task'[t].op = "get")
      <4>1. CASE CallSingleton(t) BY <2>3, <4>1, CalledTask DEF OneUpdater, SearchLabels
      <4>2. CASE SFindStep(t)
        <5>1. pc[t] # "idle"
          BY <4>2 DEF SFindStep, SFind, SStepBack, SReadNext, SCheckPred, SCompare, SHit, SStep, SSame, SMove,
                 SNext, SGet, SMiss
        <5> QED BY <3>1, <4>2, <5>1, SSearchStep
      <4> QED BY <3>5, <4>1, <4>2
    <3>8. \A v \in Threads \ {u} : pc'[v] = "idle" \/ (pc'[v] \in SearchLabels /\ task'[v].op = "get")
      BY <2>1, <3>7 DEF UpdaterInv
    <3> QED BY <2>1, <2>2, <2>3, <3>6, <3>8 DEF UpdaterInv, Further
  <2>4. CASE t = u
    <3>1. \A v \in Threads \ {u} : pc'[v] = "idle" \/ (pc'[v] \in SearchLabels /\ task'[v].op = "get")
      BY <2>1, <2>4 DEF UpdaterInv
    <3>2. CASE SFindStep(u) \/ CallSingleton(u)
      <4>1. UNCHANGED <<m_version_mask, m_key, m_next, allocated>>
        BY <3>2, SearchKeeps DEF nodeVars
      <4>2. pc'[u] \in SearchLabels \cup {"idle"} BY <3>2, SearchKeeps
      <4>3. pc'[u] \in {"sStep", "sSame", "sMove"} => Further(u)'
        <5>1. CASE pc'[u] = "sStep" BY <3>2, <5>1, SearchKeeps
        <5>2. CASE pc'[u] \in {"sSame", "sMove"}
          <6>1. pc[u] \in {"sStep", "sSame"} /\ UNCHANGED <<pred, next, task>>
            BY <3>2, <5>2, SearchKeeps
          <6> QED BY <4>1, <6>1 DEF UpdaterInv, Further
        <5> QED BY <5>1, <5>2
      <4>4. pc'[u] = "sMove" => m_next'[pred'[u]] = next'[u]
        BY <3>2, <4>1, SearchKeeps
      <4> QED BY <2>2, <3>1, <4>1, <4>2, <4>3, <4>4 DEF UpdaterInv, SearchLabels
    <3>3. CASE LoadClock(u) \/ SPutStep(u) \/ SRemoveStep(u)
      <4>1. \A n \in AllNodes \ allocated' : m_version_mask'[n] = FreshWord
        BY <2>1, <3>3, UpdateWords DEF UpdaterInv
      <4>2. pc'[u] \notin {"sStep", "sSame", "sMove"} BY <3>3, UpdateWords
      <4>3. pc'[u] \in {"sVerIns", "sLoad", "sStore"} => m_version_mask'[node'[u]] = FreshWord
        BY <3>3, UpdateWords DEF UpdaterInv
      <4>4. pc'[u] = "sStore" => word'[u] = FreshWord
        BY <3>3, UpdateWords DEF UpdaterInv
      <4> QED BY <2>2, <3>1, <4>1, <4>2, <4>3, <4>4 DEF UpdaterInv
    <3> QED BY <1>3, <2>4, <3>2, <3>3 DEF SingletonStep
  <2> QED BY <2>3, <2>4
<1> QED BY <1>1, <1>2, <1>3 DEF OneUpdater, Next, Step, Finished, allVars

(* So each store finds what it has to.                                     *)
LEMMA UpdaterChecks ==
  ASSUME NEW u \in Threads, UpdaterInv(u)
  PROVE  /\ StoresLikeCAS /\ StampsFresh /\ MovesBefore
         /\ \A t \in Threads : ~setSingletonLoad(t)
<1>1. \A t \in Threads : pc[t] \notin {"loadSng", "storeSng"}
  BY DEF UpdaterInv, SLabels
<1>2. \A t \in Threads : pc[t] = "sStore" => t = u
  BY DEF UpdaterInv, SearchLabels
<1>3. pc[u] = "sStore" => m_version_mask[node[u]] = FreshWord /\ word[u] = FreshWord
  BY DEF UpdaterInv
<1>4. \A t \in Threads : pc[t] = "sMove" /\ task[t].op = "put" => t = u
  BY DEF UpdaterInv
<1>5. pc[u] = "sMove" => m_next[pred[u]] = next[u] /\ m_key[next[u]] < task[u].key
  BY DEF UpdaterInv, Further
<1> QED
  BY <1>1, <1>2, <1>3, <1>4, <1>5
  DEF StoresLikeCAS, StampsFresh, MovesBefore, setSingletonLoad, setSingletonStore, SStoreWord, SMove, Before

LEMMA UpdaterInit == ASSUME NEW u \in Threads PROVE SInit => UpdaterInv(u)
BY DEF SInit, TXInit, LNodeInit, UpdaterInv

(* One thread that puts, removes and looks up outside transactions, next   *)
(* to any number of threads that look keys up: the locks are exclusive, no *)
(* assertion fails, the list stays sorted, and a node that is not locked   *)
(* does not change.                                                        *)
THEOREM OneUpdaterIsSafe ==
  ASSUME NEW u \in Threads, OneUpdater(u)
  PROVE  Spec => [](LockOwnership /\ AssertionsHold /\ Sorted) /\ NodeStable
<1>1. SInit => UpdaterInv(u) /\ AssertionsHold
  BY UpdaterInit DEF SInit, TXInit, LNodeInit, AssertionsHold
<1>2. STypeInv /\ UpdaterInv(u) /\ [Next]_allVars => UpdaterInv(u)'
  BY UpdaterNext
<1>3. Spec => []UpdaterInv(u) BY <1>1, <1>2, STypeInit, STypeNext, PTL DEF Spec
<1>4. UpdaterInv(u) => [StoresLikeCAS]_allVars /\ [StoresLikeCAS /\ StampsFresh]_allVars
                       /\ [StoresLikeCAS /\ MovesBefore]_allVars
  BY UpdaterChecks
<1>5. UpdaterInv(u) /\ AssertionsHold /\ [OnlyClearingAsserts]_allVars => AssertionsHold'
  <2> SUFFICES ASSUME UpdaterInv(u), AssertionsHold, [OnlyClearingAsserts]_allVars PROVE AssertionsHold'
    OBVIOUS
  <2>1. CASE UNCHANGED allVars
    BY <2>1 DEF AssertionsHold, allVars, vars, lnodeVars
  <2> QED BY <2>1, UpdaterChecks DEF OnlyClearingAsserts, AssertionsHold
<1> QED
  BY <1>1, <1>3, <1>4, <1>5, CompositionLocks, CompositionSorted, CompositionStable, CompositionAssertions,
     PTL DEF Spec
=============================================================================
