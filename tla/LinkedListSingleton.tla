------------------------ MODULE LinkedListSingleton ------------------------
(***************************************************************************)
(* put, remove and get called outside a transaction (putSingleton,         *)
(* removeSingleton, getSingleton and find_node_singelton of                *)
(* datatypes/LinkedList.h), alone or together with transactions of other   *)
(* threads.                                                                *)
(*                                                                         *)
(* A singleton operation retries until it succeeds, takes node locks one   *)
(* at a time, and stamps what it writes with the current value of the      *)
(* global clock and the singleton flag.  It is recorded in hist as a       *)
(* transaction of one operation.                                           *)
(***************************************************************************)
EXTENDS LinkedListTX

CONSTANT Modes   \* Modes[t]: how thread t calls the list

ASSUME ModesAssumption == Modes \in [Threads -> SUBSET {"tx", "singleton"}]

VARIABLES
  node,   \* the node putSingleton updates or inserts
  ret     \* the value to return

sVars == <<node, ret>>
allVars == <<vars, sVars>>

SInit == /\ TXInit
         /\ node = [t \in Threads |-> Null]
         /\ ret = [t \in Threads |-> NoVal]

(* What the steps of find_node_singelton leave alone: everything but the   *)
(* program counter, pred and next.                                         *)
findVars == <<lnodeVars, task, prev, storeVars, versVars, endVars, cliVars, sVars>>
(* What the steps of an update leave alone besides what they name.         *)
keepVars == <<gvc, opVars, storeVars, readVersion, readOnly, todo, abort, cliVars>>

Retry(t) == Goto(t, "sFind")

Crash(t, fault) ==
  /\ crashed' = fault
  /\ UNCHANGED <<nodeVars, m_version_mask, gvc, index, retired, txVars, sVars>>

(* The call returns r to the client.                                       *)
SReturn(t, r) ==
  /\ hist' = Append(hist, [ops |-> <<[op |-> task[t].op, key |-> task[t].key,
                                      val |-> task[t].val, ret |-> r]>>,
                           after |-> begun[t]])
  /\ begun' = [begun EXCEPT ![t] = 0]
  /\ writeVersion' = [writeVersion EXCEPT ![t] = 0]
  /\ node' = [node EXCEPT ![t] = Null]
  /\ ret' = [ret EXCEPT ![t] = NoVal]
  /\ ForgetOp(t)
  /\ Goto(t, "idle")
  /\ UNCHANGED <<nodeVars, m_version_mask, gvc, crashed, storeVars, readVersion, readOnly,
                 endVars, consumed, log>>

CallSingleton(t) ==
  /\ pc[t] = "idle"
  /\ consumed[t] < Len(Tasks[t])
  /\ \E k \in Tasks[t][consumed[t] + 1] : task' = [task EXCEPT ![t] = k]
  /\ consumed' = [consumed EXCEPT ![t] = @ + 1]
  /\ begun' = [begun EXCEPT ![t] = Len(hist)]
  /\ Goto(t, "sFind")
  /\ UNCHANGED <<lnodeVars, pred, next, prev, storeVars, versVars, endVars, log, hist, sVars>>

-----------------------------------------------------------------------------
(* getPredSingleton and find_node_singelton *)

SFind(t) ==
  /\ pc[t] = "sFind"
  /\ \E n \in getPred(task[t].key) : pred' = [pred EXCEPT ![t] = n]
  /\ next' = [next EXCEPT ![t] = Null]
  /\ Goto(t, "sPred")
  /\ UNCHANGED findVars

(* Step back from a locked or deleted node; the head is taken as it is.    *)
SStepBack(t) ==
  /\ pc[t] = "sPred"
  /\ IF isLockedOrDeleted(pred[t]) /\ pred[t] # head
     THEN /\ \E n \in getPred(m_key[pred[t]]) : pred' = [pred EXCEPT ![t] = n]
          /\ UNCHANGED pc
     ELSE Goto(t, "sRead") /\ UNCHANGED pred
  /\ UNCHANGED <<findVars, next>>

SReadNext(t) ==
  /\ pc[t] = "sRead"
  /\ IF isLocked(pred[t])
     THEN Retry(t) /\ UNCHANGED next
     ELSE next' = [next EXCEPT ![t] = m_next[pred[t]]] /\ Goto(t, "sAgain")
  /\ UNCHANGED <<findVars, pred>>

SCheckPred(t) ==
  /\ pc[t] = "sAgain"
  /\ IF isLockedOrDeleted(pred[t]) THEN Retry(t) ELSE Goto(t, "sLoop")
  /\ UNCHANGED <<findVars, pred, next>>

SCompare(t) ==
  /\ pc[t] = "sLoop"
  /\ \/ next[t] = Null /\ Goto(t, "sMiss")
     \/ next[t] # Null /\ isLockedOrDeleted(next[t]) /\ Retry(t)
     \/ /\ next[t] # Null /\ ~isLockedOrDeleted(next[t])
        /\ Goto(t, IF Found(t) THEN "sHit" ELSE IF Further(t) THEN "sStep" ELSE "sMiss")
  /\ UNCHANGED <<findVars, pred, next>>

(* The key is found; the node to return is read from pred once more.       *)
SHit(t) ==
  /\ pc[t] = "sHit"
  /\ next' = [next EXCEPT ![t] = m_next[pred[t]]]
  /\ Goto(t, "sFound")
  /\ UNCHANGED <<findVars, pred>>

SStep(t) ==
  /\ pc[t] = "sStep"
  /\ IF isLocked(next[t]) THEN Retry(t) ELSE Goto(t, "sSame")
  /\ UNCHANGED <<findVars, pred, next>>

SSame(t) ==
  /\ pc[t] = "sSame"
  /\ IF next[t] # m_next[pred[t]] THEN Retry(t) ELSE Goto(t, "sMove")
  /\ UNCHANGED <<findVars, pred, next>>

(* pred moves to what is now its successor, which may be gone.             *)
SMove(t) ==
  /\ pc[t] = "sMove"
  /\ IF m_next[pred[t]] = Null
     THEN Retry(t) /\ UNCHANGED pred
     ELSE pred' = [pred EXCEPT ![t] = m_next[pred[t]]] /\ Goto(t, "sNext")
  /\ UNCHANGED <<findVars, next>>

SNext(t) ==
  /\ pc[t] = "sNext"
  /\ next' = [next EXCEPT ![t] = m_next[pred[t]]]
  /\ Goto(t, "sAgain")
  /\ UNCHANGED <<findVars, pred>>

-----------------------------------------------------------------------------
(* getSingleton, and removeSingleton of an absent key *)

SGet(t) ==
  /\ pc[t] = "sFound" /\ task[t].op = "get"
  /\ IF next[t] = Null THEN Crash(t, "null")
     ELSE SReturn(t, m_val[next[t]]) /\ UNCHANGED <<index, retired>>

SMiss(t) ==
  /\ pc[t] = "sMiss" /\ task[t].op # "put"
  /\ SReturn(t, NoVal)
  /\ UNCHANGED <<index, retired>>

-----------------------------------------------------------------------------
(* Locking, for all updates: tryLock, or start over.                       *)

TryLock(t, n, then) ==
  /\ IF isLocked(n)
     THEN Retry(t) /\ UNCHANGED <<m_version_mask, lockedLNodes>>
     ELSE /\ tryLock(n)
          /\ lockedLNodes' = [lockedLNodes EXCEPT ![t] = @ \cup {n}]
          /\ Goto(t, then)
  /\ UNCHANGED <<nodeVars, index, retired, crashed, writeVersion, word, sVars, keepVars>>

Release(t, n, then) ==
  /\ unlock(n)
  /\ lockedLNodes' = [lockedLNodes EXCEPT ![t] = @ \ {n}]
  /\ Goto(t, then)
  /\ UNCHANGED <<nodeVars, index, retired, writeVersion, word, sVars, keepVars>>

(* A store to the word of a node the thread has locked.                    *)
Stamp(t, n, w, then) ==
  /\ StoreLocked(n, w)
  /\ Goto(t, then)
  /\ UNCHANGED <<nodeVars, index, retired, writeVersion, lockedLNodes, word, sVars, keepVars>>

(* Mutant: stamps with a version the clock has not reached.                *)
LoadClockAhead(t) ==
  /\ pc[t] \in {"sVerPut", "sVerIns", "sVerRem"}
  /\ writeVersion' = [writeVersion EXCEPT ![t] = gvc + 1]
  /\ Goto(t, CASE pc[t] = "sVerPut" -> "sSetVer"
               [] pc[t] = "sVerIns" -> "sLoad"
               [] pc[t] = "sVerRem" -> "sStampDel")
  /\ UNCHANGED <<nodeVars, m_version_mask, index, retired, crashed, lockedLNodes, word,
                 sVars, keepVars>>

(* m_tx->getVersion(), once the locks are held.                            *)
LoadClock(t) ==
  /\ pc[t] \in {"sVerPut", "sVerIns", "sVerRem"}
  /\ writeVersion' = [writeVersion EXCEPT ![t] = gvc]
  /\ Goto(t, CASE pc[t] = "sVerPut" -> "sSetVer"
               [] pc[t] = "sVerIns" -> "sLoad"
               [] pc[t] = "sVerRem" -> "sStampDel")
  /\ UNCHANGED <<nodeVars, m_version_mask, index, retired, crashed, lockedLNodes, word,
                 sVars, keepVars>>

-----------------------------------------------------------------------------
(* putSingleton on a key that was found *)

SPutRead(t) ==
  /\ pc[t] = "sFound" /\ task[t].op = "put"
  /\ node' = [node EXCEPT ![t] = m_next[pred[t]]]
  /\ Goto(t, "sLockVal")
  /\ UNCHANGED <<nodeVars, m_version_mask, index, retired, crashed, writeVersion,
                 lockedLNodes, word, ret, keepVars>>

SPutLock(t) ==
  /\ pc[t] = "sLockVal"
  /\ IF node[t] = Null THEN Crash(t, "null") ELSE TryLock(t, node[t], "sChkVal")

SPutCheck(t) ==
  /\ pc[t] = "sChkVal"
  /\ CASE next[t] = Null -> Crash(t, "null")
       [] next[t] # Null /\ (~Found(t) \/ node[t] # next[t] \/ isDeleted(node[t])) ->
            Release(t, node[t], "sFind")
       [] OTHER -> /\ Goto(t, "sPutVal")
                   /\ UNCHANGED <<lnodeVars, lockedLNodes, word, writeVersion, sVars, keepVars>>

SPutVal(t) ==
  /\ pc[t] = "sPutVal"
  /\ ret' = [ret EXCEPT ![t] = m_val[node[t]]]
  /\ m_val' = [m_val EXCEPT ![node[t]] = task[t].val]
  /\ Goto(t, "sSetSng")
  /\ UNCHANGED <<m_key, m_next, allocated, m_version_mask, index, retired, crashed,
                 writeVersion, lockedLNodes, word, node, keepVars>>

SSetSingleton(t) ==
  /\ pc[t] = "sSetSng"
  /\ Stamp(t, node[t], [m_version_mask[node[t]] EXCEPT !.sing = TRUE], "sVerPut")

SSetVersion(t) ==
  /\ pc[t] = "sSetVer"
  /\ Stamp(t, node[t], [m_version_mask[node[t]] EXCEPT !.ver = writeVersion[t]], "sUnlockVal")

SPutUnlock(t) ==
  /\ pc[t] = "sUnlockVal"
  /\ Release(t, node[t], "sRet")

SPutReturn(t) ==
  /\ pc[t] = "sRet"
  /\ SReturn(t, ret[t])
  /\ UNCHANGED <<index, retired>>

-----------------------------------------------------------------------------
(* putSingleton on an absent key, in the middle or at the end              *)

SInsLock(t) ==
  /\ pc[t] = "sMiss" /\ task[t].op = "put"
  /\ TryLock(t, pred[t], "sChkIns")


SInsCheck(t) ==
  /\ pc[t] = "sChkIns"
  /\ IF isDeleted(pred[t]) \/ next[t] # m_next[pred[t]]
     THEN Release(t, pred[t], "sFind")
     ELSE /\ Goto(t, "sLink")
          /\ UNCHANGED <<lnodeVars, lockedLNodes, word, writeVersion, sVars, keepVars>>

SLink(t) ==
  /\ pc[t] = "sLink"
  /\ \E n \in Nodes \ allocated :
       /\ allocated' = allocated \cup {n}
       /\ m_key' = [m_key EXCEPT ![n] = task[t].key]
       /\ m_val' = [m_val EXCEPT ![n] = task[t].val]
       /\ m_next' = [m_next EXCEPT ![n] = m_next[pred[t]], ![pred[t]] = n]
       /\ node' = [node EXCEPT ![t] = n]
  /\ Goto(t, "sVerIns")
  /\ UNCHANGED <<m_version_mask, index, retired, crashed, writeVersion, lockedLNodes, word,
                 ret, keepVars>>

(* setVersionAndSingletonNoLockAssert: the node is linked and not locked,  *)
(* so its word may change between the load and the store.                  *)
SLoadWord(t) ==
  /\ pc[t] = "sLoad"
  /\ word' = [word EXCEPT ![t] = m_version_mask[node[t]]]
  /\ Goto(t, "sStore")
  /\ UNCHANGED <<nodeVars, m_version_mask, index, retired, crashed, writeVersion,
                 lockedLNodes, sVars, keepVars>>

SStoreWord(t) ==
  /\ pc[t] = "sStore"
  /\ m_version_mask' = [m_version_mask EXCEPT
       ![node[t]] = [word[t] EXCEPT !.ver = writeVersion[t], !.sing = TRUE]]
  /\ word' = [word EXCEPT ![t] = FreshWord]
  /\ Goto(t, "sUnlockIns")
  /\ UNCHANGED <<nodeVars, index, retired, crashed, writeVersion, lockedLNodes, sVars, keepVars>>

SInsUnlock(t) ==
  /\ pc[t] = "sUnlockIns"
  /\ Release(t, pred[t], "sIndex")

SInsIndex(t) ==
  /\ pc[t] = "sIndex"
  /\ index' = index \cup {node[t]}
  /\ SReturn(t, NoVal)
  /\ UNCHANGED retired

-----------------------------------------------------------------------------
(* removeSingleton on a key that was found *)

SRemLock(t) ==
  /\ pc[t] = "sFound" /\ task[t].op = "remove"
  /\ TryLock(t, pred[t], "sChkRem")

(* Mutants: half of the check that the victim still follows pred is lost.  *)
SRemCheckDeletedOnly(t) ==
  /\ pc[t] = "sChkRem"
  /\ IF isDeleted(pred[t])
     THEN Release(t, pred[t], "sFind")
     ELSE /\ Goto(t, "sLockDel")
          /\ UNCHANGED <<lnodeVars, lockedLNodes, word, writeVersion, sVars, keepVars>>

SRemCheckNextOnly(t) ==
  /\ pc[t] = "sChkRem"
  /\ IF next[t] # m_next[pred[t]]
     THEN Release(t, pred[t], "sFind")
     ELSE /\ Goto(t, "sLockDel")
          /\ UNCHANGED <<lnodeVars, lockedLNodes, word, writeVersion, sVars, keepVars>>

SRemCheck(t) ==
  /\ pc[t] = "sChkRem"
  /\ IF isDeleted(pred[t]) \/ next[t] # m_next[pred[t]]
     THEN Release(t, pred[t], "sFind")
     ELSE /\ Goto(t, "sLockDel")
          /\ UNCHANGED <<lnodeVars, lockedLNodes, word, writeVersion, sVars, keepVars>>

(* Mutant: pred stays locked when the victim cannot be locked.             *)
SRemLockVictimKeepPred(t) ==
  /\ pc[t] = "sLockDel"
  /\ IF next[t] = Null THEN Crash(t, "null") ELSE TryLock(t, next[t], "sClear")

SRemLockVictim(t) ==
  /\ pc[t] = "sLockDel"
  /\ CASE next[t] = Null -> Crash(t, "null")
       [] next[t] # Null /\ isLocked(next[t]) -> Release(t, pred[t], "sFind")
       [] OTHER -> TryLock(t, next[t], "sClear")

SRemClear(t) ==
  /\ pc[t] = "sClear"
  /\ ret' = [ret EXCEPT ![t] = m_val[next[t]]]
  /\ m_val' = [m_val EXCEPT ![next[t]] = NoVal]
  /\ Goto(t, "sUnlink")
  /\ UNCHANGED <<m_key, m_next, allocated, m_version_mask, index, retired, crashed,
                 writeVersion, lockedLNodes, word, node, keepVars>>

SRemUnlink(t) ==
  /\ pc[t] = "sUnlink"
  /\ IF m_next[pred[t]] = Null THEN Crash(t, "null")
     ELSE /\ m_next' = [m_next EXCEPT ![pred[t]] = m_next[m_next[pred[t]]]]
          /\ Goto(t, "sVerRem")
          /\ UNCHANGED <<m_key, m_val, allocated, m_version_mask, index, retired, crashed,
                         writeVersion, lockedLNodes, word, sVars, keepVars>>

SRemStampVictim(t) ==
  /\ pc[t] = "sStampDel"
  /\ Stamp(t, next[t], [m_version_mask[next[t]] EXCEPT !.ver = writeVersion[t],
                                                      !.del = TRUE, !.sing = TRUE], "sStampPred")

(* Mutant: pred gets the version and not the singleton flag.               *)
SRemStampPredPlain(t) ==
  /\ pc[t] = "sStampPred"
  /\ Stamp(t, pred[t], [m_version_mask[pred[t]] EXCEPT !.ver = writeVersion[t]], "sUnlockDel")

SRemStampPred(t) ==
  /\ pc[t] = "sStampPred"
  /\ Stamp(t, pred[t], [m_version_mask[pred[t]] EXCEPT !.ver = writeVersion[t],
                                                      !.sing = TRUE], "sUnlockDel")

SRemUnlockVictim(t) ==
  /\ pc[t] = "sUnlockDel"
  /\ Release(t, next[t], "sUnlockPred")

SRemUnlockPred(t) ==
  /\ pc[t] = "sUnlockPred"
  /\ Release(t, pred[t], "sUnindex")

(* Mutant: what pred leads to by now is taken for the victim.              *)
SRemReturnReread(t) ==
  /\ pc[t] = "sUnindex"
  /\ index' = index \ {m_next[pred[t]]}
  /\ retired' = retired \cup {m_next[pred[t]]}
  /\ SReturn(t, ret[t])

SRemReturn(t) ==
  /\ pc[t] = "sUnindex"
  /\ index' = index \ {next[t]}
  /\ retired' = retired \cup {next[t]}
  /\ SReturn(t, ret[t])

-----------------------------------------------------------------------------
SFindStep(t) ==
  \/ SFind(t) \/ SStepBack(t) \/ SReadNext(t) \/ SCheckPred(t) \/ SCompare(t)
  \/ SHit(t) \/ SStep(t) \/ SSame(t) \/ SMove(t) \/ SNext(t) \/ SGet(t) \/ SMiss(t)

SPutStep(t) ==
  \/ SPutRead(t) \/ SPutLock(t) \/ SPutCheck(t) \/ SPutVal(t) \/ SSetSingleton(t)
  \/ SSetVersion(t) \/ SPutUnlock(t) \/ SPutReturn(t) \/ SInsLock(t) \/ SInsCheck(t)
  \/ SLink(t) \/ SLoadWord(t) \/ SStoreWord(t) \/ SInsUnlock(t) \/ SInsIndex(t)

SRemoveStep(t) ==
  \/ SRemLock(t) \/ SRemCheck(t) \/ SRemLockVictim(t) \/ SRemClear(t) \/ SRemUnlink(t)
  \/ SRemStampVictim(t) \/ SRemStampPred(t) \/ SRemUnlockVictim(t) \/ SRemUnlockPred(t)
  \/ SRemReturn(t)

SingletonStep(t) ==
  /\ crashed = "none"
  /\ \/ "singleton" \in Modes[t] /\ CallSingleton(t)
     \/ SFindStep(t) \/ LoadClock(t) \/ SPutStep(t) \/ SRemoveStep(t)

(* A thread begins a transaction or calls an operation on its own.         *)
Step(t) ==
  \/ ("tx" \in Modes[t] \/ pc[t] # "idle") /\ TXStep(t) /\ UNCHANGED sVars
  \/ SingletonStep(t)

Next == (\E t \in Threads : Step(t)) \/ (Finished /\ UNCHANGED sVars)

Spec == SInit /\ [][Next]_allVars

FairSpec == Spec /\ \A t \in Threads : WF_allVars(Step(t))

-----------------------------------------------------------------------------
SLabels == {"sFind", "sPred", "sRead", "sAgain", "sLoop", "sHit", "sStep", "sSame", "sMove",
            "sNext", "sFound", "sMiss", "sLockVal", "sChkVal", "sPutVal", "sSetSng", "sVerPut",
            "sSetVer", "sUnlockVal", "sRet", "sChkIns", "sLink", "sVerIns", "sLoad", "sStore",
            "sUnlockIns", "sIndex", "sChkRem", "sLockDel", "sClear", "sUnlink", "sVerRem",
            "sStampDel", "sStampPred", "sUnlockDel", "sUnlockPred", "sUnindex"}

(* Every variable holds a value of the type the code declares for it.      *)
TypeOK ==
  /\ LNodeTypeOK
  /\ pc \in [Threads -> Labels \cup SLabels]
  /\ LocalsTypeOK
  /\ node \in [Threads -> NodeOrNull]
  /\ ret \in [Threads -> ValOrNone]
=============================================================================
