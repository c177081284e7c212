------------------------ MODULE SingletonList_proofs ------------------------
(***************************************************************************)
(* No insertion is lost and no retired node is linked when the list is     *)
(* used outside transactions only.                                         *)
(*                                                                         *)
(* A singleton takes effect in one store: the link of a new node, or the   *)
(* unlinking.  The nodes that are in the list are the ones handed out and  *)
(* neither deleted nor, for the moment, unlinked and not yet marked.  They *)
(* are a chain in memory at any time.  What a thread has checked under the *)
(* lock of pred, that pred is not deleted and next follows it, stays true  *)
(* as long as it holds the lock.                                           *)
(***************************************************************************)
EXTENDS LinkedListSingleton_proofs, CommittedList_proofs

(* Nobody begins a transaction.                                            *)
NoTransactions == \A t \in Threads : "tx" \notin Modes[t]

(* removeSingleton has unlinked next and is about to mark it deleted.      *)
CutLabels == {"sVerRem", "sStampDel"}
Cut(n) == \E t \in Threads : pc[t] \in CutLabels /\ next[t] = n

InList == {n \in allocated : ~isDeleted(n) /\ ~Cut(n)}

(* What the checks under pred's lock have established, and what becomes of *)
(* the node that was removed.                                              *)
AtWork(t) ==
  /\ pc[t] \in {"sLink", "sLockDel", "sClear", "sUnlink"} => ~isDeleted(pred[t])
  /\ pc[t] \in {"sLockDel", "sClear", "sUnlink"} => m_next[pred[t]] = next[t]
  /\ pc[t] \in {"sStampPred", "sUnlockDel", "sUnlockPred", "sUnindex"} => isDeleted(next[t])

SListInv ==
  /\ \A t \in Threads : pc[t] \in SLabels \cup {"idle"}
  /\ \A t \in Threads : AtWork(t)
  /\ Chain(InList, m_next)
  /\ \A n \in AllNodes \ allocated : ~isDeleted(n)
  /\ \A n \in retired : isDeleted(n)

SBase == STypeInv /\ SLockInv /\ SOrderInv

-----------------------------------------------------------------------------
(* The deleted bits *)

DelsSame == \A n \in AllNodes : m_version_mask'[n].del = m_version_mask[n].del

(* tryLock and unlock leave them alone.                                    *)
LEMMA LockDels ==
  ASSUME STypeInv, NEW n \in AllNodes, tryLock(n) \/ unlock(n) \/ UNCHANGED m_version_mask
  PROVE  DelsSame
<1>0. m_version_mask \in [AllNodes -> Word] BY SingletonFacts
<1>1. \/ \E b \in BOOLEAN :
           m_version_mask' = [m_version_mask EXCEPT ![n] = [m_version_mask[n] EXCEPT !.lock = b]]
      \/ UNCHANGED m_version_mask
  BY <1>0, tryLockType DEF unlock, StoreLocked
<1>2. \A b \in BOOLEAN : [m_version_mask[n] EXCEPT !.lock = b].del = m_version_mask[n].del
  BY <1>0 DEF Word
<1> QED BY <1>0, <1>1, <1>2 DEF DelsSame

(* So does a store of a word with the same bit.                            *)
LEMMA StoreDels ==
  ASSUME STypeInv, NEW n \in AllNodes, NEW w, w.del = m_version_mask[n].del,
         m_version_mask' = [m_version_mask EXCEPT ![n] = w] \/ UNCHANGED m_version_mask
  PROVE  DelsSame
BY SingletonFacts DEF DelsSame

(* Outside transactions a node is marked deleted by the removal that has   *)
(* it locked, and nothing else changes the bit.                            *)
LEMMA SingletonDels ==
  ASSUME STypeInv, SLockInv, StoresLikeCAS, NEW t \in Threads, SingletonStep(t), ~SRemStampVictim(t)
  PROVE  DelsSame
<1>0. /\ pred[t] \in AllNodes /\ m_version_mask \in [AllNodes -> Word]
      /\ next[t] # Null => next[t] \in AllNodes
      /\ node[t] # Null => node[t] \in AllNodes
      /\ pc[t] \in HasNode => node[t] # Null
      /\ pc[t] \in HasNext => next[t] # Null
  BY SingletonFacts DEF STypeInv, SRefs, NodeOrNull
<1>q. UNCHANGED m_version_mask => DelsSame BY DEF DelsSame
<1>r. ASSUME NEW r, SReturn(t, r) PROVE DelsSame BY <1>q, <1>r DEF SReturn
<1>c. ASSUME Crash(t, "null") PROVE DelsSame BY <1>q, <1>c DEF Crash
<1>l. ASSUME NEW n \in AllNodes, NEW l, TryLock(t, n, l) \/ Release(t, n, l) PROVE DelsSame
  BY <1>l, LockDels DEF TryLock, Release
<1>s. ASSUME NEW n \in AllNodes, NEW w, NEW l, Stamp(t, n, w, l), w.del = m_version_mask[n].del
      PROVE  DelsSame
  BY <1>s, StoreDels DEF Stamp, StoreLocked
<1>1. CASE CallSingleton(t) \/ LoadClock(t)
  BY <1>q, <1>1 DEF CallSingleton, LoadClock, lnodeVars
<1>2. CASE SGet(t) \/ SMiss(t) \/ SPutReturn(t) \/ SInsIndex(t) \/ SRemReturn(t)
  BY <1>c, <1>r, <1>2 DEF SGet, SMiss, SPutReturn, SInsIndex, SRemReturn
<1>3. CASE SFindStep(t) /\ ~(SGet(t) \/ SMiss(t))
  <2>1. UNCHANGED m_version_mask
    BY <1>3 DEF SFindStep, SFind, SStepBack, SReadNext, SCheckPred, SCompare, SHit, SStep, SSame, SMove,
           SNext, findVars, lnodeVars
  <2> QED BY <1>q, <2>1
<1>4. CASE SPutRead(t) \/ SPutVal(t) \/ SLink(t) \/ SLoadWord(t) \/ SRemClear(t)
  BY <1>q, <1>4 DEF SPutRead, SPutVal, SLink, SLoadWord, SRemClear
<1>5. CASE SPutLock(t) \/ SInsLock(t) \/ SRemLock(t) \/ SRemUnlink(t)
  BY <1>0, <1>q, <1>c, <1>l, <1>5 DEF SPutLock, SInsLock, SRemLock, SRemUnlink
<1>6. CASE SPutCheck(t)
  BY <1>0, <1>q, <1>c, <1>l, <1>6 DEF SPutCheck, lnodeVars, HasNode, NodeLabels
<1>7. CASE SInsCheck(t) \/ SRemCheck(t)
  BY <1>0, <1>q, <1>l, <1>7 DEF SInsCheck, SRemCheck, lnodeVars
<1>8. CASE SRemLockVictim(t)
  BY <1>0, <1>c, <1>l, <1>8 DEF SRemLockVictim
<1>9. CASE SPutUnlock(t) \/ SInsUnlock(t) \/ SRemUnlockVictim(t) \/ SRemUnlockPred(t)
  BY <1>0, <1>l, <1>9
  DEF SPutUnlock, SInsUnlock, SRemUnlockVictim, SRemUnlockPred, HasNode, NodeLabels, HasNext, BothLabels
<1>10. CASE SSetSingleton(t) \/ SSetVersion(t)
  <2>1. node[t] \in AllNodes BY <1>0, <1>10 DEF SSetSingleton, SSetVersion, HasNode, NodeLabels
  <2>2. /\ [m_version_mask[node[t]] EXCEPT !.sing = TRUE].del = m_version_mask[node[t]].del
        /\ [m_version_mask[node[t]] EXCEPT !.ver = writeVersion[t]].del = m_version_mask[node[t]].del
    BY <1>0, <2>1 DEF Word
  <2> QED BY <1>s, <1>10, <2>1, <2>2 DEF SSetSingleton, SSetVersion
<1>11. CASE SRemStampPred(t)
  <2>1. [m_version_mask[pred[t]] EXCEPT !.ver = writeVersion[t], !.sing = TRUE].del
          = m_version_mask[pred[t]].del
    BY <1>0 DEF Word
  <2> QED BY <1>0, <1>s, <1>11, <2>1 DEF SRemStampPred
<1>12. CASE SStoreWord(t)
  <2> DEFINE w == [word[t] EXCEPT !.ver = writeVersion[t], !.sing = TRUE]
  <2>1. node[t] \in AllNodes BY <1>0, <1>12 DEF SStoreWord, HasNode
  <2>2. word[t] = m_version_mask[node[t]] BY <1>12 DEF StoresLikeCAS
  <2>3. w.del = m_version_mask[node[t]].del BY <1>0, <2>1, <2>2 DEF Word
  <2>4. m_version_mask' = [m_version_mask EXCEPT ![node[t]] = w] BY <1>12 DEF SStoreWord
  <2> HIDE DEF w
  <2> QED BY <2>1, <2>3, <2>4, StoreDels
<1> QED
  BY <1>1, <1>2, <1>3, <1>4, <1>5, <1>6, <1>7, <1>8, <1>9, <1>10, <1>11, <1>12
  DEF SingletonStep, SFindStep, SPutStep, SRemoveStep
-----------------------------------------------------------------------------
(* Steps that leave the list alone *)

(* Whatever t does under its locks, the others rely on nodes of their own. *)
LEMMA OthersAtWork ==
  ASSUME SBase, SListInv, NEW t \in Threads, SingletonStep(t),
         \A n \in allocated \ lockedLNodes[t] : m_next'[n] = m_next[n],
         \A n \in AllNodes : isDeleted(n) => m_version_mask'[n].del,
         \A n \in AllNodes \ lockedLNodes[t] : m_version_mask'[n].del = isDeleted(n),
         NEW u \in Threads \ {t}
  PROVE  AtWork(u)' /\ pc'[u] \in SLabels \cup {"idle"}
<1>0. /\ pc'[u] = pc[u] /\ pred'[u] = pred[u] /\ next'[u] = next[u]
      /\ AtWork(u) /\ SHolds(u) /\ pc[u] \in SLabels \cup {"idle"}
  BY SingletonFrame DEF SBase, SListInv, SLockInv
<1>1. /\ pred[u] \in allocated /\ pred[u] \in AllNodes
      /\ next[u] # Null => next[u] \in AllNodes
      /\ pc[u] \in HasNext => next[u] # Null
  BY SingletonFacts DEF SBase, NodeOrNull, STypeInv, SRefs
<1>2. \A n \in lockedLNodes[u] : n \notin lockedLNodes[t]
  BY DEF SBase, SLockInv, LockOwnership
<1>3. pc[u] \in {"sLink", "sLockDel", "sClear", "sUnlink"} => pred[u] \in lockedLNodes[u]
  BY <1>0 DEF SHolds, PredLabels, BothLabels
<1>4. pc[u] \in {"sLink", "sLockDel", "sClear", "sUnlink"}
        => m_next'[pred[u]] = m_next[pred[u]] /\ m_version_mask'[pred[u]].del = isDeleted(pred[u])
  BY <1>1, <1>2, <1>3
<1>5. pc[u] \in {"sStampPred", "sUnlockDel", "sUnlockPred", "sUnindex"} => next[u] \in AllNodes
  BY <1>1 DEF HasNext, BothLabels
<1> QED BY <1>0, <1>4, <1>5 DEF AtWork, isDeleted

(* A step that changes no link and marks nothing keeps the list.           *)
LEMMA QuietList ==
  ASSUME SBase, SListInv, NEW t \in Threads, SingletonStep(t),
         UNCHANGED <<m_next, allocated>>, DelsSame, AtWork(t)',
         \/ pc[t] \notin CutLabels /\ pc'[t] \notin CutLabels
         \/ pc[t] \in CutLabels /\ pc'[t] \in CutLabels /\ next'[t] = next[t],
         \A n \in retired' : n \in retired \/ isDeleted(n)
  PROVE  SListInv'
<1>0. allocated \subseteq AllNodes /\ retired \subseteq allocated /\ retired' \subseteq AllNodes
  <2>1. allocated \subseteq AllNodes /\ retired \subseteq allocated
    BY DEF SBase, STypeInv, TypeInv, MemoryTypeOK, LNodeTypeOK
  <2>2. ASSUME NEW n \in retired' PROVE n \in AllNodes
    <3>1. STypeInv'
      BY SFindType, SPutType, SRemoveType, SCallType DEF SBase, SingletonStep
    <3> QED BY <2>2, <3>1 DEF STypeInv, TypeInv, MemoryTypeOK, LNodeTypeOK
  <2> QED BY <2>1, <2>2
<1>1. \A n \in AllNodes : m_version_mask'[n].del = isDeleted(n) BY DEF DelsSame, isDeleted
<1>2. \A u \in Threads : AtWork(u)' /\ pc'[u] \in SLabels \cup {"idle"}
  BY <1>1, OthersAtWork, SingletonFrame DEF SBase
<1>3. \A n : Cut(n)' <=> Cut(n)
  <2>1. \A u \in Threads \ {t} : pc'[u] = pc[u] /\ next'[u] = next[u]
    BY SingletonFrame DEF SBase
  <2> QED BY <2>1 DEF Cut
<1>4. InList' = InList BY <1>0, <1>1, <1>3 DEF InList, isDeleted
<1>5. Chain(InList, m_next)' BY <1>4 DEF SListInv, Chain
<1>6. \A n \in AllNodes \ allocated' : ~isDeleted(n)' BY <1>1 DEF SListInv, isDeleted
<1>7. \A n \in retired' : isDeleted(n)' BY <1>0, <1>1 DEF SListInv, isDeleted
<1> QED BY <1>2, <1>5, <1>6, <1>7 DEF SListInv

(* A thread that is nowhere near a link or a removal relies on nothing.    *)
WorkLabels == {"sLink", "sLockDel", "sClear", "sUnlink", "sStampPred", "sUnlockDel", "sUnlockPred",
               "sUnindex"} \cup CutLabels

LEMMA NotAtWork ==
  ASSUME NEW t \in Threads, pc'[t] \notin WorkLabels
  PROVE  AtWork(t)'
BY DEF AtWork, WorkLabels

LEMMA CrashList ==
  ASSUME SBase, SListInv, NEW t \in Threads, SingletonStep(t), Crash(t, "null")
  PROVE  SListInv'
<1>1. UNCHANGED <<m_next, allocated, m_version_mask, pc, pred, next, retired>>
  BY DEF Crash, nodeVars, txVars, opVars
<1>2. AtWork(t)' BY <1>1 DEF SListInv, AtWork, isDeleted
<1>3. DelsSame BY <1>1 DEF DelsSame
<1> QED BY <1>1, <1>2, <1>3, QuietList

LEMMA ReturnList ==
  ASSUME SBase, SListInv, NEW t \in Threads, SingletonStep(t), NEW r, SReturn(t, r),
         pc[t] \notin CutLabels, \A n \in retired' : n \in retired \/ isDeleted(n)
  PROVE  SListInv'
<1>1. UNCHANGED <<m_next, allocated, m_version_mask>> /\ pc'[t] = "idle"
  BY SingletonFacts DEF SBase, SReturn, nodeVars, Goto
<1>2. AtWork(t)' BY <1>1, NotAtWork DEF WorkLabels, CutLabels
<1>3. DelsSame BY <1>1 DEF DelsSame
<1> QED BY <1>1, <1>2, <1>3, QuietList DEF CutLabels

LEMMA TryLockList ==
  ASSUME SBase, SListInv, NEW t \in Threads, SingletonStep(t), NEW n \in AllNodes, NEW l, TryLock(t, n, l),
         pc[t] \notin CutLabels, l \notin WorkLabels
  PROVE  SListInv'
<1>1. /\ UNCHANGED <<m_next, allocated, retired>> /\ pc'[t] \in {"sFind", l}
      /\ tryLock(n) \/ UNCHANGED m_version_mask
  BY SingletonFacts DEF SBase, TryLock, nodeVars, Goto, Retry
<1>2. AtWork(t)' /\ pc'[t] \notin CutLabels BY <1>1, NotAtWork DEF WorkLabels, CutLabels
<1>3. DelsSame BY <1>1, LockDels DEF SBase
<1> QED BY <1>1, <1>2, <1>3, QuietList

LEMMA ReleaseList ==
  ASSUME SBase, SListInv, NEW t \in Threads, SingletonStep(t), NEW n \in AllNodes, NEW l, Release(t, n, l),
         pc[t] \notin CutLabels,
         \/ l \notin WorkLabels
         \/ l \in {"sUnlockPred", "sUnindex"} /\ isDeleted(next[t]) /\ next[t] # Null
  PROVE  SListInv'
<1>1. /\ UNCHANGED <<m_next, allocated, retired, next>> /\ pc'[t] = l
      /\ unlock(n)
  BY SingletonFacts DEF SBase, Release, nodeVars, Goto, keepVars, opVars
<1>2. DelsSame BY <1>1, LockDels DEF SBase
<1>3. next[t] # Null => next[t] \in AllNodes BY SingletonFacts DEF SBase, NodeOrNull
<1>4. AtWork(t)' /\ pc'[t] \notin CutLabels
  <2>1. CASE l \notin WorkLabels BY <1>1, <2>1, NotAtWork DEF WorkLabels
  <2>2. CASE l \in {"sUnlockPred", "sUnindex"} /\ isDeleted(next[t]) /\ next[t] # Null
    BY <1>1, <1>2, <1>3, <2>2 DEF AtWork, CutLabels, DelsSame, isDeleted
  <2> QED BY <2>1, <2>2
<1> QED BY <1>1, <1>2, <1>4, QuietList
(* Searches, calls and the steps that only move on.                        *)
LEMMA SearchList ==
  ASSUME SBase, SListInv, NEW t \in Threads, SingletonStep(t), SFindStep(t) \/ CallSingleton(t)
  PROVE  SListInv'
<1>0. pc = [u \in Threads |-> pc[u]] BY SingletonFacts DEF SBase
<1>1. CASE SGet(t) \/ SMiss(t)
  BY <1>1, CrashList, ReturnList DEF SGet, SMiss, CutLabels
<1>2. CASE ~(SGet(t) \/ SMiss(t))
  <2>1. UNCHANGED <<m_next, allocated, m_version_mask, retired>>
    BY <1>2 DEF SFindStep, SFind, SStepBack, SReadNext, SCheckPred, SCompare, SHit, SStep, SSame, SMove,
           SNext, CallSingleton, findVars, lnodeVars, nodeVars
  <2>2. /\ pc[t] \in SearchLabels \cup {"idle"}
        /\ pc'[t] \in SearchLabels
    BY <1>0, <1>2 DEF SFindStep, SFind, SStepBack, SReadNext, SCheckPred, SCompare, SHit, SStep, SSame, SMove,
           SNext, CallSingleton, Goto, Retry, SearchLabels
  <2>3. pc[t] \notin CutLabels /\ pc'[t] \notin WorkLabels BY <2>2 DEF SearchLabels, CutLabels, WorkLabels
  <2>4. AtWork(t)' /\ pc'[t] \notin CutLabels BY <2>3, NotAtWork DEF WorkLabels
  <2>5. DelsSame BY <2>1 DEF DelsSame
  <2> QED BY <2>1, <2>3, <2>4, <2>5, QuietList
<1> QED BY <1>1, <1>2

LEMMA LoadClockList ==
  ASSUME SBase, SListInv, NEW t \in Threads, SingletonStep(t), LoadClock(t)
  PROVE  SListInv'
<1>1. /\ UNCHANGED <<m_next, allocated, m_version_mask, retired, next>>
      /\ pc'[t] \in {"sSetVer", "sLoad", "sStampDel"}
      /\ pc[t] \in {"sVerPut", "sVerIns", "sVerRem"} /\ (pc[t] = "sVerRem" <=> pc'[t] = "sStampDel")
  BY SingletonFacts DEF SBase, LoadClock, nodeVars, keepVars, opVars, Goto
<1>2. AtWork(t)' BY <1>1 DEF AtWork
<1>3. DelsSame BY <1>1 DEF DelsSame
<1> QED BY <1>1, <1>2, <1>3, QuietList DEF CutLabels

(* The steps of putSingleton but the link.                                 *)
LEMMA PutList ==
  ASSUME SBase, SListInv, StoresLikeCAS, NEW t \in Threads, SingletonStep(t), SPutStep(t), ~SLink(t)
  PROVE  SListInv'
<1>0. /\ pc = [u \in Threads |-> pc[u]] /\ pred[t] \in AllNodes
      /\ node[t] # Null => node[t] \in AllNodes
      /\ pc[t] \in HasNode => node[t] # Null
  BY SingletonFacts DEF SBase, NodeOrNull, STypeInv, SRefs
<1>1. DelsSame
  <2>1. ~SRemStampVictim(t)
    BY DEF SPutStep, SPutRead, SPutLock, SPutCheck, SPutVal, SSetSingleton, SSetVersion, SPutUnlock, SPutReturn,
           SInsLock, SInsCheck, SLink, SLoadWord, SStoreWord, SInsUnlock, SInsIndex, SRemStampVictim
  <2> QED BY <2>1, SingletonDels DEF SBase
<1>2. pc[t] \notin CutLabels
  BY DEF SPutStep, SPutRead, SPutLock, SPutCheck, SPutVal, SSetSingleton, SSetVersion, SPutUnlock, SPutReturn,
         SInsLock, SInsCheck, SLink, SLoadWord, SStoreWord, SInsUnlock, SInsIndex, CutLabels
<1>3. CASE SPutReturn(t) \/ SInsIndex(t)
  BY <1>2, <1>3, ReturnList DEF SPutReturn, SInsIndex
<1>4. CASE SPutLock(t)
  BY <1>0, <1>2, <1>4, CrashList, TryLockList DEF SPutLock, WorkLabels, CutLabels
<1>5. CASE SInsLock(t)
  BY <1>0, <1>2, <1>5, TryLockList DEF SInsLock, WorkLabels, CutLabels
<1>6. CASE SPutUnlock(t) \/ SInsUnlock(t)
  BY <1>0, <1>2, <1>6, ReleaseList DEF SPutUnlock, SInsUnlock, WorkLabels, CutLabels, HasNode, NodeLabels
<1>7. CASE SPutRead(t) \/ SPutVal(t) \/ SLoadWord(t) \/ SStoreWord(t) \/ SSetSingleton(t) \/ SSetVersion(t)
  <2>1. UNCHANGED <<m_next, allocated, retired>> /\ pc'[t] \notin WorkLabels
    BY <1>0, <1>7 DEF SPutRead, SPutVal, SLoadWord, SStoreWord, SSetSingleton, SSetVersion, Stamp, nodeVars,
           Goto, WorkLabels, CutLabels
  <2>2. AtWork(t)' /\ pc'[t] \notin CutLabels BY <2>1, NotAtWork DEF WorkLabels
  <2> QED BY <1>1, <1>2, <2>1, <2>2, QuietList
<1>8. CASE SPutCheck(t)
  <2>1. CASE Crash(t, "null") BY <2>1, CrashList
  <2>2. CASE Release(t, node[t], "sFind")
    <3>1. node[t] \in AllNodes BY <1>0, <1>8 DEF SPutCheck, HasNode, NodeLabels
    <3> QED BY <1>2, <2>2, <3>1, ReleaseList DEF WorkLabels, CutLabels
  <2>3. CASE ~Crash(t, "null") /\ ~Release(t, node[t], "sFind")
    <3>1. UNCHANGED <<m_next, allocated, retired>> /\ pc'[t] = "sPutVal"
      BY <1>0, <1>8, <2>3 DEF SPutCheck, lnodeVars, nodeVars, Goto
    <3>2. AtWork(t)' /\ pc'[t] \notin CutLabels BY <3>1, NotAtWork DEF WorkLabels, CutLabels
    <3> QED BY <1>1, <1>2, <3>1, <3>2, QuietList
  <2> QED BY <2>1, <2>2, <2>3
<1>9. CASE SInsCheck(t)
  <2>1. CASE isDeleted(pred[t]) \/ next[t] # m_next[pred[t]]
    BY <1>0, <1>2, <1>9, <2>1, ReleaseList DEF SInsCheck, WorkLabels, CutLabels
  <2>2. CASE ~(isDeleted(pred[t]) \/ next[t] # m_next[pred[t]])
    <3>1. UNCHANGED <<m_next, allocated, retired, m_version_mask, pred>> /\ pc'[t] = "sLink"
      BY <1>0, <1>9, <2>2 DEF SInsCheck, lnodeVars, nodeVars, Goto, keepVars, opVars
    <3>2. AtWork(t)' /\ pc'[t] \notin CutLabels BY <2>2, <3>1 DEF AtWork, isDeleted, CutLabels
    <3> QED BY <1>1, <1>2, <3>1, <3>2, QuietList
  <2> QED BY <2>1, <2>2
<1> QED BY <1>3, <1>4, <1>5, <1>6, <1>7, <1>8, <1>9 DEF SPutStep

(* The steps of removeSingleton but the unlinking and the mark.            *)
LEMMA RemoveList ==
  ASSUME SBase, SListInv, StoresLikeCAS, NEW t \in Threads, SingletonStep(t), SRemoveStep(t),
         ~(SRemUnlink(t) /\ m_next[pred[t]] # Null), ~SRemStampVictim(t)
  PROVE  SListInv'
<1>0. /\ pc = [u \in Threads |-> pc[u]] /\ pred[t] \in AllNodes
      /\ next[t] # Null => next[t] \in AllNodes
      /\ pc[t] \in HasNext => next[t] # Null
      /\ AtWork(t)
  BY SingletonFacts DEF SBase, NodeOrNull, STypeInv, SRefs, SListInv
<1>1. DelsSame BY SingletonDels DEF SBase
<1>2. pc[t] \notin CutLabels
  BY DEF SRemoveStep, SRemLock, SRemCheck, SRemLockVictim, SRemClear, SRemUnlink, SRemStampVictim,
         SRemStampPred, SRemUnlockVictim, SRemUnlockPred, SRemReturn, CutLabels
<1>3. CASE SRemLock(t)
  BY <1>0, <1>2, <1>3, TryLockList DEF SRemLock, WorkLabels, CutLabels
<1>4. CASE SRemCheck(t)
  <2>1. CASE isDeleted(pred[t]) \/ next[t] # m_next[pred[t]]
    BY <1>0, <1>2, <1>4, <2>1, ReleaseList DEF SRemCheck, WorkLabels, CutLabels
  <2>2. CASE ~(isDeleted(pred[t]) \/ next[t] # m_next[pred[t]])
    <3>1. UNCHANGED <<m_next, allocated, retired, m_version_mask, pred, next>> /\ pc'[t] = "sLockDel"
      BY <1>0, <1>4, <2>2 DEF SRemCheck, lnodeVars, nodeVars, Goto, keepVars, opVars
    <3>2. AtWork(t)' /\ pc'[t] \notin CutLabels BY <2>2, <3>1 DEF AtWork, isDeleted, CutLabels
    <3> QED BY <1>1, <1>2, <3>1, <3>2, QuietList
  <2> QED BY <2>1, <2>2
<1>5. CASE SRemLockVictim(t)
  <2>1. CASE next[t] = Null BY <1>5, <2>1, CrashList DEF SRemLockVictim
  <2>2. CASE next[t] # Null /\ isLocked(next[t])
    BY <1>0, <1>2, <1>5, <2>2, ReleaseList DEF SRemLockVictim, WorkLabels, CutLabels
  <2>3. CASE next[t] # Null /\ ~isLocked(next[t])
    <3>1. UNCHANGED <<m_next, allocated, retired, pred, next>> /\ pc'[t] = "sClear" /\ pc[t] = "sLockDel"
      BY <1>0, <1>5, <2>3 DEF SRemLockVictim, TryLock, nodeVars, Goto, keepVars, opVars
    <3>2. AtWork(t)' /\ pc'[t] \notin CutLabels
      BY <1>0, <1>1, <3>1 DEF AtWork, DelsSame, isDeleted, CutLabels
    <3> QED BY <1>1, <1>2, <3>1, <3>2, QuietList
  <2> QED BY <2>1, <2>2, <2>3
<1>6. CASE SRemClear(t)
  <2>1. UNCHANGED <<m_next, allocated, retired, pred, next>> /\ pc'[t] = "sUnlink" /\ pc[t] = "sClear"
    BY <1>0, <1>6 DEF SRemClear, Goto, keepVars, opVars
  <2>2. AtWork(t)' /\ pc'[t] \notin CutLabels
    BY <1>0, <1>1, <2>1 DEF AtWork, DelsSame, isDeleted, CutLabels
  <2> QED BY <1>1, <1>2, <2>1, <2>2, QuietList
<1>7. CASE SRemUnlink(t)
  BY <1>7, CrashList DEF SRemUnlink
<1>8. CASE SRemStampPred(t)
  <2>1. UNCHANGED <<m_next, allocated, retired, pred, next>> /\ pc'[t] = "sUnlockDel" /\ pc[t] = "sStampPred"
    BY <1>0, <1>8 DEF SRemStampPred, Stamp, nodeVars, Goto, keepVars, opVars
  <2>2. next[t] \in AllNodes BY <1>0, <2>1 DEF HasNext, BothLabels
  <2>3. AtWork(t)' /\ pc'[t] \notin CutLabels
    BY <1>0, <1>1, <2>1, <2>2 DEF AtWork, DelsSame, isDeleted, CutLabels
  <2> QED BY <1>1, <1>2, <2>1, <2>3, QuietList
<1>9. CASE SRemUnlockVictim(t) \/ SRemUnlockPred(t)
  <2>1. /\ pc[t] \in {"sUnlockDel", "sUnlockPred"}
        /\ Release(t, next[t], "sUnlockPred") \/ Release(t, pred[t], "sUnindex")
    BY <1>9 DEF SRemUnlockVictim, SRemUnlockPred
  <2>2. next[t] # Null /\ next[t] \in AllNodes /\ isDeleted(next[t])
    BY <1>0, <2>1 DEF HasNext, BothLabels, AtWork
  <2> QED BY <1>0, <1>2, <2>1, <2>2, ReleaseList
<1>10. CASE SRemReturn(t)
  <2>1. pc[t] = "sUnindex" /\ retired' = retired \cup {next[t]} /\ SReturn(t, ret[t])
    BY <1>10 DEF SRemReturn
  <2>2. isDeleted(next[t]) BY <1>0, <2>1 DEF AtWork
  <2> QED BY <1>2, <2>1, <2>2, ReturnList
<1> QED BY <1>3, <1>4, <1>5, <1>6, <1>7, <1>8, <1>9, <1>10 DEF SRemoveStep
-----------------------------------------------------------------------------
(* Steps that change the list *)

(* The node under whose lock t links or unlinks is in the list.            *)
LEMMA PredInList ==
  ASSUME SBase, SListInv, NEW t \in Threads, pc[t] \in {"sLink", "sLockDel", "sClear", "sUnlink"}
  PROVE  pred[t] \in InList /\ pred[t] \in lockedLNodes[t]
<1>1. pred[t] \in lockedLNodes[t] /\ pred[t] \in allocated
  BY SingletonFacts DEF SBase, SLockInv, SHolds, PredLabels, BothLabels
<1>2. ~isDeleted(pred[t]) BY DEF SListInv, AtWork
<1>3. ASSUME NEW u \in Threads, pc[u] \in CutLabels, next[u] = pred[t] PROVE FALSE
  <2>1. u # t BY <1>3 DEF CutLabels
  <2>2. next[u] \in lockedLNodes[u] BY <1>3 DEF SBase, SLockInv, SHolds, BothLabels, CutLabels
  <2> QED BY <1>1, <1>3, <2>1, <2>2 DEF SBase, SLockInv, LockOwnership
<1> QED BY <1>1, <1>2, <1>3 DEF InList, Cut

(* putSingleton's link puts the new node behind pred.                      *)
LEMMA LinkList ==
  ASSUME SBase, SListInv, NEW t \in Threads, SingletonStep(t), SLink(t)
  PROVE  SListInv'
<1>0. /\ m_next \in [AllNodes -> NodeOrNull] /\ allocated \subseteq AllNodes /\ Null \notin AllNodes
      /\ pc = [u \in Threads |-> pc[u]] /\ retired \subseteq allocated
      /\ \A u \in Threads : next[u] \in allocated \cup {Null}
  BY SingletonFacts DEF SBase, Ref, STypeInv, TypeInv, MemoryTypeOK, LNodeTypeOK
<1>1. PICK n \in Nodes \ allocated :
        /\ allocated' = allocated \cup {n}
        /\ m_next' = [m_next EXCEPT ![n] = m_next[pred[t]], ![pred[t]] = n]
  BY DEF SLink
<1>2. /\ pc[t] = "sLink" /\ pc'[t] = "sVerIns" /\ UNCHANGED <<m_version_mask, retired>>
  BY <1>0 DEF SLink, Goto
<1>3. pred[t] \in InList /\ pred[t] \in lockedLNodes[t] /\ pred[t] \in allocated
  BY <1>2, PredInList DEF InList
<1>4. n \in AllNodes /\ n # Null /\ n \notin allocated /\ n # pred[t]
  BY <1>0, <1>1, <1>3 DEF AllNodes
<1>5. /\ m_next'[pred[t]] = n /\ m_next'[n] = m_next[pred[t]]
      /\ \A m \in AllNodes \ {n, pred[t]} : m_next'[m] = m_next[m]
  BY <1>0, <1>1, <1>3, <1>4
<1>6. \A u \in Threads : AtWork(u)' /\ pc'[u] \in SLabels \cup {"idle"}
  <2>1. AtWork(t)' /\ pc'[t] \in SLabels BY <1>2, NotAtWork DEF WorkLabels, CutLabels, SLabels
  <2>2. \A m \in allocated \ lockedLNodes[t] : m_next'[m] = m_next[m]
    BY <1>0, <1>3, <1>4, <1>5
  <2>3. \A m \in AllNodes : m_version_mask'[m].del = isDeleted(m) BY <1>2 DEF isDeleted
  <2> QED BY <2>1, <2>2, <2>3, OthersAtWork
<1>7. \A m : Cut(m)' <=> Cut(m)
  <2>1. \A u \in Threads \ {t} : pc'[u] = pc[u] /\ next'[u] = next[u]
    BY SingletonFrame DEF SBase
  <2> QED BY <1>2, <2>1 DEF Cut, CutLabels
<1>8. InList' = InList \cup {n}
  <2>1. ~isDeleted(n) BY <1>4 DEF SListInv
  <2>2. ~Cut(n)
    <3>1. \A u \in Threads : next[u] # n BY <1>0, <1>4
    <3> QED BY <3>1 DEF Cut
  <2> QED BY <1>1, <1>2, <1>4, <1>7, <2>1, <2>2 DEF InList, isDeleted
<1>9. Chain(InList \cup {n}, m_next')
  <2>1. InList \subseteq AllNodes /\ Null \notin InList /\ n \notin InList BY <1>0, <1>4 DEF InList
  <2>2. \A m \in InList \ {pred[t]} : m_next'[m] = m_next[m] BY <1>5, <2>1
  <2>3. Chain(InList, m_next) BY DEF SListInv
  <2> QED BY <1>3, <1>4, <1>5, <2>1, <2>2, <2>3, ChainInsert
<1>10. \A m \in AllNodes \ allocated' : ~isDeleted(m)'
  BY <1>1, <1>2 DEF SListInv, isDeleted
<1>11. \A m \in retired' : isDeleted(m)' BY <1>2 DEF SListInv, isDeleted
<1>12. Chain(InList, m_next)' BY <1>8, <1>9 DEF Chain
<1> QED BY <1>6, <1>10, <1>11, <1>12 DEF SListInv

(* removeSingleton's unlinking takes out the node behind pred.             *)
LEMMA UnlinkList ==
  ASSUME SBase, SListInv, NEW t \in Threads, SingletonStep(t), SRemUnlink(t), m_next[pred[t]] # Null
  PROVE  SListInv'
<1>0. /\ m_next \in [AllNodes -> NodeOrNull] /\ allocated \subseteq AllNodes /\ Null \notin AllNodes
      /\ pc = [u \in Threads |-> pc[u]]
  BY SingletonFacts DEF SBase
<1>1. /\ pc[t] = "sUnlink" /\ pc'[t] = "sVerRem" /\ UNCHANGED <<m_version_mask, retired, allocated, next>>
      /\ m_next' = [m_next EXCEPT ![pred[t]] = m_next[m_next[pred[t]]]]
  BY <1>0 DEF SRemUnlink, Goto, keepVars, opVars
<1>2. pred[t] \in InList /\ pred[t] \in lockedLNodes[t] /\ m_next[pred[t]] = next[t]
  BY <1>1, PredInList DEF SListInv, AtWork
<1>3. Chain(InList, m_next) /\ InList \subseteq AllNodes /\ Null \notin InList
  BY <1>0 DEF SListInv, InList
<1>4. next[t] \in InList BY <1>2, <1>3 DEF Chain
<1>5. pred[t] # next[t] BY <1>1 DEF SBase, SLockInv, SHolds, BothLabels
<1>6. /\ m_next'[pred[t]] = m_next[next[t]]
      /\ \A m \in AllNodes \ {pred[t]} : m_next'[m] = m_next[m]
  BY <1>0, <1>1, <1>2, <1>3
<1>7. Chain(InList \ {next[t]}, m_next')
  <2>1. \A m \in InList \ {pred[t], next[t]} : m_next'[m] = m_next[m] BY <1>3, <1>6
  <2> QED BY <1>2, <1>3, <1>4, <1>5, <1>6, <2>1, ChainRemove
<1>8. InList' = InList \ {next[t]}
  <2>1. \A u \in Threads \ {t} : pc'[u] = pc[u] /\ next'[u] = next[u]
    BY SingletonFrame DEF SBase
  <2>2. \A m : Cut(m)' <=> Cut(m) \/ m = next[t]
    BY <1>1, <2>1 DEF Cut, CutLabels
  <2> QED BY <1>1, <2>2 DEF InList, isDeleted
<1>9. \A u \in Threads : AtWork(u)' /\ pc'[u] \in SLabels \cup {"idle"}
  <2>1. AtWork(t)' /\ pc'[t] \in SLabels BY <1>1 DEF AtWork, SLabels
  <2>2. \A m \in allocated \ lockedLNodes[t] : m_next'[m] = m_next[m] BY <1>0, <1>2, <1>6
  <2>3. \A m \in AllNodes : m_version_mask'[m].del = isDeleted(m) BY <1>1 DEF isDeleted
  <2> QED BY <2>1, <2>2, <2>3, OthersAtWork
<1>10. Chain(InList, m_next)' BY <1>7, <1>8 DEF Chain
<1>11. /\ \A m \in AllNodes \ allocated' : ~isDeleted(m)'
       /\ \A m \in retired' : isDeleted(m)'
  BY <1>1 DEF SListInv, isDeleted
<1> QED BY <1>9, <1>10, <1>11 DEF SListInv

(* Marking the node it has unlinked changes nothing about the list.        *)
LEMMA MarkList ==
  ASSUME SBase, SListInv, NEW t \in Threads, SingletonStep(t), SRemStampVictim(t)
  PROVE  SListInv'
<1> DEFINE w == [m_version_mask[next[t]] EXCEPT !.ver = writeVersion[t], !.del = TRUE, !.sing = TRUE]
<1>0. /\ m_version_mask \in [AllNodes -> Word] /\ allocated \subseteq AllNodes
      /\ pc = [u \in Threads |-> pc[u]] /\ retired \subseteq allocated
      /\ lockedLNodes \in [Threads -> SUBSET AllNodes]
  BY SingletonFacts DEF SBase, STypeInv, TypeInv, MemoryTypeOK, LNodeTypeOK
<1>1. /\ pc[t] = "sStampDel" /\ pc'[t] = "sStampPred" /\ UNCHANGED <<m_next, retired, allocated, next>>
      /\ StoreLocked(next[t], w)
  BY <1>0 DEF SRemStampVictim, Stamp, nodeVars, Goto, keepVars, opVars
<1>2. next[t] \in lockedLNodes[t] /\ next[t] \in AllNodes
  BY <1>0, <1>1 DEF SBase, SLockInv, SHolds, BothLabels
<1>3. w.del BY <1>0, <1>2 DEF Word
<1>4. m_version_mask' = [m_version_mask EXCEPT ![next[t]] = w]
  <2>1. isLocked(next[t]) BY <1>2 DEF SBase, SLockInv, LockOwnership
  <2> QED BY <1>1, <2>1 DEF StoreLocked
<1> HIDE DEF w
<1>5. /\ m_version_mask'[next[t]].del
      /\ \A m \in AllNodes \ {next[t]} : m_version_mask'[m].del = isDeleted(m)
  BY <1>0, <1>2, <1>3, <1>4 DEF isDeleted
<1>6. \A u \in Threads : AtWork(u)' /\ pc'[u] \in SLabels \cup {"idle"}
  <2>1. AtWork(t)' /\ pc'[t] \in SLabels BY <1>1, <1>5 DEF AtWork, SLabels, isDeleted
  <2> QED BY <1>1, <1>2, <1>5, <2>1, OthersAtWork
<1>7. Cut(next[t]) BY <1>1 DEF Cut, CutLabels
<1>8. \A m : m # next[t] => (Cut(m)' <=> Cut(m))
  <2>1. \A u \in Threads \ {t} : pc'[u] = pc[u] /\ next'[u] = next[u]
    BY SingletonFrame DEF SBase
  <2> QED BY <1>1, <2>1 DEF Cut, CutLabels
<1>9. InList' = InList
  <2>1. \A m \in allocated : m \in InList' <=> m \in InList
    <3>1. next[t] \notin InList /\ next[t] \notin InList' BY <1>5, <1>7 DEF InList, isDeleted
    <3>2. \A m \in allocated \ {next[t]} : m \in InList' <=> m \in InList
      BY <1>0, <1>1, <1>5, <1>8 DEF InList, isDeleted
    <3> QED BY <3>1, <3>2
  <2> QED BY <1>1, <2>1 DEF InList
<1>10. Chain(InList, m_next)' BY <1>1, <1>9 DEF SListInv, Chain
<1>11. \A m \in AllNodes \ allocated' : ~isDeleted(m)'
  <2>1. next[t] \in allocated
    BY <1>2, SingletonFacts DEF SBase, Ref
  <2> QED BY <1>1, <1>5, <2>1 DEF SListInv, isDeleted
<1>12. \A m \in retired' : isDeleted(m)' BY <1>0, <1>1, <1>5 DEF SListInv, isDeleted
<1> QED BY <1>6, <1>10, <1>11, <1>12 DEF SListInv

-----------------------------------------------------------------------------
(* The theorems *)

LEMMA SListInit == SInit => SListInv
<1> SUFFICES ASSUME SInit PROVE SListInv OBVIOUS
<1>1. /\ \A n \in AllNodes : ~isDeleted(n)
      /\ \A n \in Preloaded \cup {head} : m_next[n] = InitNext(n)
      /\ allocated = Preloaded \cup {head} /\ retired = {}
      /\ Preloaded \subseteq AllNodes /\ head \notin Preloaded /\ head \in AllNodes
      /\ Null \notin Preloaded
  <2>1. \A n \in AllNodes : ~isDeleted(n)
    BY DEF SInit, TXInit, LNodeInit, FreshWord, isDeleted
  <2> QED BY <2>1, InitAssumption, NodesAssumption DEF SInit, TXInit, LNodeInit, Preloaded, AllNodes
<1>2. \A t \in Threads : pc[t] = "idle" BY DEF SInit, TXInit
<1>3. InList = Preloaded \cup {head} BY <1>1, <1>2 DEF InList, Cut, CutLabels
<1>4. \A n \in Preloaded \cup {head} : InitNext(n) = Null \/ InitNext(n) \in Preloaded
  BY <1>1, InitNextAbove
<1>5. Chain(InList, m_next)
  BY <1>1, <1>3, <1>4, InitNextOnto, InitNextInjective DEF Chain
<1>6. \A t \in Threads : AtWork(t) BY <1>2 DEF AtWork
<1> QED BY <1>1, <1>2, <1>5, <1>6 DEF SListInv

LEMMA SListNext ==
  NoTransactions /\ SBase /\ SListInv /\ [Next]_allVars /\ [StoresLikeCAS]_allVars => SListInv'
<1> SUFFICES ASSUME NoTransactions, SBase, SListInv, [Next]_allVars, [StoresLikeCAS]_allVars
             PROVE  SListInv'
  OBVIOUS
<1>1. CASE UNCHANGED allVars
  <2>1. UNCHANGED <<m_next, m_version_mask, allocated, retired, pc, pred, next>>
    BY <1>1 DEF allVars, vars, txVars, lnodeVars, nodeVars, opVars
  <2>2. InList' = InList BY <2>1 DEF InList, Cut, isDeleted
  <2>3. Chain(InList, m_next)' BY <2>1, <2>2 DEF SListInv, Chain
  <2> QED BY <2>1, <2>3 DEF SListInv, AtWork, isDeleted
<1>2. ASSUME NEW t \in Threads, TXStep(t), pc[t] # "idle" PROVE FALSE
  <2>1. pc[t] \in Labels BY <1>2, StepLabels DEF SBase, STypeInv
  <2>2. pc[t] \in SLabels BY <1>2 DEF SListInv
  <2> QED BY <2>1, <2>2 DEF Labels, SLabels
<1>3. ASSUME NEW t \in Threads, SingletonStep(t), StoresLikeCAS PROVE SListInv'
  <2>1. CASE SFindStep(t) \/ CallSingleton(t) BY <1>3, <2>1, SearchList
  <2>2. CASE LoadClock(t) BY <1>3, <2>2, LoadClockList
  <2>3. CASE SPutStep(t) BY <1>3, <2>3, PutList, LinkList
  <2>4. CASE SRemoveStep(t) BY <1>3, <2>4, RemoveList, UnlinkList, MarkList
  <2> QED BY <1>3, <2>1, <2>2, <2>3, <2>4 DEF SingletonStep
<1> QED BY <1>1, <1>2, <1>3 DEF NoTransactions, Next, Step, Finished, allVars

(* The nodes a walk from the head meets are those in the list.             *)
LEMMA WalkMeets ==
  ASSUME SBase, SListInv
  PROVE  Linked = InList
<1>0. /\ TypeInv /\ InList \subseteq AllNodes /\ Null \notin AllNodes /\ Chain(InList, m_next)
      /\ m_key \in [AllNodes -> Nat] /\ \A n \in AllNodes : Ascending(n, m_next[n])
  BY SingletonFacts DEF SBase, STypeInv, SListInv, InList, SOrderInv, OrderInv
<1> DEFINE Closed == {S \in SUBSET Nodes : \A n \in S \cup {head} : m_next[n] \in S \cup {head, Null}}
           Listed == InList \ {head}
<1>1. Listed \in Closed /\ head \in InList /\ Listed \subseteq Nodes
  BY <1>0 DEF Chain, AllNodes
<1>2. ASSUME NEW S \in Closed PROVE Listed \subseteq S
  <2>1. SUFFICES ASSUME Listed \ S # {} PROVE FALSE OBVIOUS
  <2>2. PICK n \in Listed \ S : \A m \in Listed \ S : m_key[n] <= m_key[m]
    BY <1>0, <2>1, SmallestNode
  <2>3. PICK p \in InList : m_next[p] = n BY <1>0, <2>2 DEF Chain
  <2>4. Ascending(p, n) BY <1>0, <2>3
  <2>5. p \in S \cup {head}
    <3>1. m_key[p] \in Nat /\ m_key[n] \in Nat BY <1>0, <2>2, <2>3
    <3> QED BY <1>0, <2>2, <2>3, <2>4, <3>1 DEF Ascending, Before
  <2> QED BY <1>0, <2>2, <2>3, <2>5
<1>3. Linked = {head} \cup {n \in Nodes : \A S \in Closed : n \in S} BY DEF Linked
<1> HIDE DEF Closed
<1> QED BY <1>1, <1>2, <1>3

(* So an insertion is not lost, and what is retired is out.                *)
LEMMA SListGood == SBase /\ SListInv => NoLostNode /\ RetiredUnlinked
<1> SUFFICES ASSUME SBase, SListInv PROVE NoLostNode /\ RetiredUnlinked OBVIOUS
<1>1. Linked = InList BY WalkMeets
<1>2. RetiredUnlinked BY <1>1 DEF RetiredUnlinked, InList, SListInv
<1>3. ASSUME \A n \in AllNodes : ~isLocked(n), NEW n \in index, ~isDeleted(n) PROVE n \in Linked
  <2>1. n \in allocated /\ allocated \subseteq AllNodes
    BY DEF SBase, STypeInv, TypeInv, MemoryTypeOK, LNodeTypeOK
  <2>2. ASSUME NEW t \in Threads, pc[t] \in CutLabels, next[t] = n PROVE FALSE
    <3>1. n \in lockedLNodes[t] BY <2>2 DEF SBase, SLockInv, SHolds, BothLabels, CutLabels
    <3> QED BY <1>3, <2>1, <3>1 DEF SBase, SLockInv, LockOwnership
  <2> QED BY <1>1, <1>3, <2>1, <2>2 DEF InList, Cut
<1> QED BY <1>2, <1>3 DEF NoLostNode

(* What the theorems below have in common: no insertion is lost and no     *)
(* retired node is linked as long as the stamp of a new node finds the     *)
(* word it loaded and a search for a place to put does not move past it.   *)
LEMMA SingletonsKept ==
  ASSUME NoTransactions
  PROVE  Spec /\ [][StoresLikeCAS /\ MovesBefore]_allVars => [](NoLostNode /\ RetiredUnlinked)
<1>1. [StoresLikeCAS /\ MovesBefore]_allVars => [StoresLikeCAS]_allVars /\ [MovesBefore]_allVars
  OBVIOUS
<1>2. Spec /\ [][StoresLikeCAS /\ MovesBefore]_allVars => [](STypeInv /\ SLockInv /\ SOrderInv)
  BY <1>1, STypeInit, STypeNext, SLockInit, SLockNext, SOrderInit, SOrderNext, PTL DEF Spec
<1>3. STypeInv /\ SLockInv /\ SOrderInv /\ SListInv /\ [Next]_allVars /\ [StoresLikeCAS]_allVars => SListInv'
  BY SListNext DEF SBase
<1>4. STypeInv /\ SLockInv /\ SOrderInv /\ SListInv => NoLostNode /\ RetiredUnlinked
  BY SListGood DEF SBase
<1> QED BY <1>1, <1>2, <1>3, <1>4, SListInit, PTL DEF Spec

(* removeSingleton and getSingleton of any number of threads, locking      *)
(* overlapping pairs of nodes and backing out of them, do so without any   *)
(* condition.                                                              *)
THEOREM RemovesKept ==
  ASSUME OnlyRemoves
  PROVE  Spec => [](NoLostNode /\ RetiredUnlinked)
<1>1. NoTransactions BY DEF OnlyRemoves, NoTransactions
<1>2. SInit => RemovesInv
  BY DEF SInit, TXInit, RemovesInv
<1>3. STypeInv /\ RemovesInv /\ [Next]_allVars => RemovesInv' BY RemovesNext
<1>4. Spec => []RemovesInv BY <1>2, <1>3, STypeInit, STypeNext, PTL DEF Spec
<1>5. RemovesInv => [StoresLikeCAS /\ MovesBefore]_allVars BY NothingMissing
<1>6. Spec /\ [][StoresLikeCAS /\ MovesBefore]_allVars => [](NoLostNode /\ RetiredUnlinked)
  BY <1>1, SingletonsKept
<1> QED BY <1>4, <1>5, <1>6, PTL

(* putSingleton, removeSingleton and getSingleton of one thread, next to   *)
(* any number of threads that look keys up: no insertion is lost and no    *)
(* retired node is linked, in any state and without any condition.         *)
THEOREM OneUpdaterKept ==
  ASSUME NEW u \in Threads, OneUpdater(u)
  PROVE  Spec => [](NoLostNode /\ RetiredUnlinked)
<1>1. NoTransactions BY DEF OneUpdater, NoTransactions
<1>2. SInit => UpdaterInv(u) BY UpdaterInit
<1>3. STypeInv /\ UpdaterInv(u) /\ [Next]_allVars => UpdaterInv(u)' BY UpdaterNext
<1>4. Spec => []UpdaterInv(u) BY <1>2, <1>3, STypeInit, STypeNext, PTL DEF Spec
<1>5. UpdaterInv(u) => [StoresLikeCAS /\ MovesBefore]_allVars BY UpdaterChecks
<1>6. Spec /\ [][StoresLikeCAS /\ MovesBefore]_allVars => [](NoLostNode /\ RetiredUnlinked)
  BY <1>1, SingletonsKept
<1> QED BY <1>4, <1>5, <1>6, PTL
=============================================================================
