------------------------ MODULE LinkedListTX_proofs ------------------------
(***************************************************************************)
(* Theorems about LinkedListTX, for any number of threads, nodes, keys and *)
(* tasks.  The inductive invariant comes in layers, each proved with the   *)
(* help of the ones before it: types and references, locks, the clock, and *)
(* the order of the list.                                                  *)
(***************************************************************************)
EXTENDS LinkedListTX, WellFoundedInduction, TLAPS

-----------------------------------------------------------------------------
(* Types and references *)

(* Every pointer, in the heap or local to a thread, is null or leads to a  *)
(* node the record manager handed out.                                     *)
Ref == allocated \cup {Null}

HeapRefs ==
  /\ head \in allocated
  /\ \A n \in AllNodes : m_next[n] \in Ref

OpRefs ==
  \A t \in Threads : pred[t] \in allocated /\ next[t] \in Ref /\ prev[t] \in Ref

StoreRefs ==
  \A t \in Threads :
    /\ readSet[t] \subseteq allocated
    /\ indexAdd[t] \subseteq allocated
    /\ indexRemove[t] \subseteq allocated
    /\ \A n \in AllNodes : /\ writeSet[t][n].next \in Ref
                           /\ writeSet[t][n].in => n \in allocated

RefsAllocated ==
  /\ HeapRefs
  /\ OpRefs
  /\ StoreRefs
  /\ \A t \in Threads : todo[t] \subseteq allocated

(* The worker never runs past the end of its share of the tasks.           *)
TasksLeft ==
  \A t \in Threads :
    /\ consumed[t] <= Len(Tasks[t])
    /\ pc[t] = "call" => consumed[t] < Len(Tasks[t])

(* TXTypeOK without the names of the labels: operations called outside a   *)
(* transaction have labels of their own, and the lemmas hold with them.    *)
MemoryTypeOK ==
  /\ LNodeTypeOK
  /\ pc = [u \in Threads |-> pc[u]]
  /\ LocalsTypeOK

TypeInv == MemoryTypeOK /\ RefsAllocated /\ TasksLeft

(* Locks *)

(* No transaction sets the singleton flag, so validation never comes to    *)
(* clear it on a node that is not locked.                                  *)
NoSingletons ==
  /\ \A n \in AllNodes : ~isSingleton(n)
  /\ \A t \in Threads : pc[t] \notin {"bumpVal", "loadSng", "storeSng"}

(* TXend is at a node of the read set, or between two of them. *)
Validating == {"validate", "verVal", "sngVal", "bumpVal"}

ValidateStep(t) ==
  Validate(t) \/ ValidateVersion(t) \/ ValidateSingleton(t) \/ IncrementAndClear(t)

(* From the end of the lock phase to the end of the write-back the whole   *)
(* write set is locked, and the write-back visits nothing else.            *)
WriteSetLocked ==
  \A t \in Threads :
    /\ pc[t] \in Validating \cup {"write", "stamp"} => WriteNodes(t) \subseteq lockedLNodes[t]
    /\ pc[t] \in {"write", "stamp"} => todo[t] \subseteq WriteNodes(t)
    /\ pc[t] = "stamp" => pred[t] \in WriteNodes(t)

(* Locks are held in TXend only. *)
LocksInTXend ==
  \A t \in Threads :
    lockedLNodes[t] # {} => pc[t] \in Validating \cup {"lock", "write", "stamp", "release"}

LockInv == LockOwnership /\ NoSingletons /\ WriteSetLocked /\ LocksInTXend /\ AssertionsHold

(* The clock *)

(* A version taken by a transaction is at least that of every node it has  *)
(* locked.                                                                 *)
WriteVersionNew ==
  \A t \in Threads :
    /\ writeVersion[t] <= gvc
    /\ pc[t] \in {"write", "stamp"} =>
         \A n \in lockedLNodes[t] : getVersion(n) <= writeVersion[t]

ClockInv == ClockBound /\ WriteVersionNew

(* The order of the list *)

NextRead == {"chkCur", "sngCur", "chkNext", "sngNext", "cmp"}
PredFound == {"chkPred", "sngPred", "delPred", "read"} \cup NextRead

(* What a search knows: pred is before the key, or is the victim of a      *)
(* remove and comes after prev; next comes after pred.                     *)
SearchOrdered(t) ==
  /\ pc[t] \in PredFound /\ prev[t] = Null => Before(pred[t], task[t].key)
  /\ prev[t] # Null => pc[t] \in {"read", "bump"} \cup NextRead /\ Ascending(prev[t], pred[t])
  /\ pc[t] \in NextRead => Ascending(pred[t], next[t])

(* What a transaction is going to write back. *)
WriteOrdered(t) ==
  \A n \in AllNodes : writeSet[t][n].in => Ascending(n, writeSet[t][n].next)

OrderInv ==
  /\ \A n \in AllNodes : Ascending(n, m_next[n])
  /\ m_key[head] = HeadKey
  /\ \A t \in Threads : WriteOrdered(t) /\ SearchOrdered(t)

-----------------------------------------------------------------------------
(* Lemmas about the words and the sets the actions build.                  *)

(* A store to one word of the heap keeps the heap well-typed.              *)
LEMMA StoreWordType ==
  ASSUME m_version_mask \in [AllNodes -> Word], NEW n \in AllNodes, NEW w \in Word
  PROVE  [m_version_mask EXCEPT ![n] = w] \in [AllNodes -> Word]
OBVIOUS

(* The flags and the version of a word may be set one by one.              *)
LEMMA WordFields ==
  ASSUME NEW w \in Word, NEW b \in BOOLEAN, NEW d \in BOOLEAN, NEW v \in Nat
  PROVE  /\ [w EXCEPT !.lock = b] \in Word
         /\ [w EXCEPT !.sing = b] \in Word
         /\ [w EXCEPT !.ver = v, !.del = d, !.sing = b] \in Word
BY DEF Word

(* tryLock sets the lock bit of one word and keeps the heap well-typed.    *)
LEMMA tryLockType ==
  ASSUME m_version_mask \in [AllNodes -> Word], NEW n \in AllNodes, tryLock(n)
  PROVE  /\ m_version_mask' \in [AllNodes -> Word]
         /\ m_version_mask' = [m_version_mask EXCEPT ![n] = [m_version_mask[n] EXCEPT !.lock = TRUE]]
<1>1. m_version_mask' = [m_version_mask EXCEPT ![n] = [m_version_mask[n] EXCEPT !.lock = TRUE]]
  BY DEF tryLock
<1>2. [m_version_mask[n] EXCEPT !.lock = TRUE] \in Word
  BY WordFields
<1> QED BY <1>1, <1>2, StoreWordType

(* So do unlock and the setters.                                           *)
LEMMA StoreLockedType ==
  ASSUME m_version_mask \in [AllNodes -> Word], crashed \in Faults,
         NEW n \in AllNodes, NEW w \in Word, StoreLocked(n, w)
  PROVE  m_version_mask' \in [AllNodes -> Word] /\ crashed' \in Faults
BY StoreWordType DEF StoreLocked, Faults

(* WriteElement builds an element of the write set.                        *)
LEMMA WriteElementType ==
  ASSUME NEW s \in NodeOrNull, NEW v \in ValOrNone, NEW d \in BOOLEAN
  PROVE  /\ WriteElement(s, v, d) \in Element
         /\ WriteElement(s, v, d).in = TRUE
         /\ WriteElement(s, v, d).next = s
         /\ WriteElement(s, v, d).val = v
         /\ WriteElement(s, v, d).deleted = d
BY DEF WriteElement, Element

(* What a transaction reads through its write set is well-typed.           *)
LEMMA ReadThroughType ==
  ASSUME TypeInv, NEW t \in Threads, NEW n \in AllNodes
  PROVE  /\ getVal(t, n) \in ValOrNone
         /\ nextOf(t, n) \in Ref
         /\ writeSet[t][n] \in Element
         /\ writeSet[t][n].deleted \in BOOLEAN
BY DEF TypeInv, MemoryTypeOK, LNodeTypeOK, LocalsTypeOK, StoreTypeOK, RefsAllocated, HeapRefs,
       StoreRefs, getVal, nextOf, Element

(* A predecessor the index returns is a node it holds, or the head.        *)
LEMMA getPredType ==
  ASSUME TypeInv, NEW k \in Nat, NEW n \in getPred(k)
  PROVE  n \in allocated /\ n \in AllNodes /\ Before(n, k)
BY DEF TypeInv, MemoryTypeOK, LNodeTypeOK, RefsAllocated, HeapRefs, getPred, Before

(* Nodes and keys as the rest of the proofs need them.                     *)
LEMMA RefFacts ==
  ASSUME TypeInv
  PROVE  /\ allocated \subseteq AllNodes
         /\ Ref \subseteq NodeOrNull
         /\ Null \notin AllNodes
         /\ \A t \in Threads : next[t] # Null => next[t] \in allocated
         /\ \A t \in Threads : prev[t] # Null => prev[t] \in allocated
BY NodesAssumption DEF TypeInv, MemoryTypeOK, LNodeTypeOK, RefsAllocated, OpRefs, Ref, NodeOrNull

(* The task at hand has a key and a value.                                 *)
LEMMA TaskFields ==
  ASSUME TypeInv, NEW t \in Threads
  PROVE  task[t].key \in Nat /\ task[t].val \in ValOrNone
<1>1. task[t] \in Task \/ task[t] = NoTask
  BY DEF TypeInv, MemoryTypeOK, LocalsTypeOK, OpTypeOK
<1>2. CASE task[t] \in Task BY <1>2, KeysAssumption DEF Task, ValOrNone
<1>3. CASE task[t] = NoTask BY <1>3 DEF NoTask, ValOrNone
<1> QED BY <1>1, <1>2, <1>3

(* putIntoWriteSet changes one element of one thread's write set.          *)
LEMMA PutElement ==
  ASSUME NEW ws \in [Threads -> [AllNodes -> Element]],
         NEW t \in Threads, NEW n \in AllNodes, NEW e \in Element
  PROVE  /\ [ws EXCEPT ![t][n] = e] \in [Threads -> [AllNodes -> Element]]
         /\ \A u \in Threads : \A m \in AllNodes :
              [ws EXCEPT ![t][n] = e][u][m] = IF u = t /\ m = n THEN e ELSE ws[u][m]
OBVIOUS

(* A write set with one more reference to an allocated node.               *)
LEMMA PutElementRefs ==
  ASSUME NEW ws \in [Threads -> [AllNodes -> Element]], NEW R, NEW A,
         \A u \in Threads : \A m \in AllNodes : ws[u][m].next \in R /\ (ws[u][m].in => m \in A),
         NEW t \in Threads, NEW n \in AllNodes, NEW e \in Element, e.next \in R, n \in A
  PROVE  \A u \in Threads : \A m \in AllNodes :
           /\ [ws EXCEPT ![t][n] = e][u][m].next \in R
           /\ [ws EXCEPT ![t][n] = e][u][m].in => m \in A
BY PutElement

-----------------------------------------------------------------------------
(* Types and references are preserved *)

(* An operation that aborts leaves a well-typed state.                     *)
LEMMA AbortOpType ==
  ASSUME TypeInv, NEW t \in Threads, AbortOp(t), gvc' \in Nat
  PROVE  TypeInv'
<1> USE DEF TypeInv, MemoryTypeOK, LocalsTypeOK
<1>1. LNodeTypeOK'
  BY DEF AbortOp, nodeVars, LNodeTypeOK, RefsAllocated, StoreRefs
<1>2. pc' = [u \in Threads |-> pc'[u]] /\ TasksLeft' /\ consumed' \in [Threads -> Nat]
  BY DEF AbortOp, Goto, Labels, TasksLeft
<1>3. OpTypeOK' /\ OpRefs'
  BY DEF AbortOp, ForgetOp, nodeVars, OpTypeOK, RefsAllocated, HeapRefs, OpRefs, Ref,
         AllNodes, NodeOrNull
<1>4. EmptyWriteSet \in [AllNodes -> Element]
  BY DEF EmptyWriteSet, NoElement, Element, NodeOrNull, ValOrNone
<1>5. StoreTypeOK'
  BY <1>4 DEF AbortOp, ClearStorage, StoreTypeOK
<1>6. EndTypeOK'
  BY DEF AbortOp, ClearStorage, endVars, EndTypeOK
<1>7. StoreRefs'
  BY DEF AbortOp, ClearStorage, nodeVars, StoreTypeOK, RefsAllocated, StoreRefs, Ref,
         EmptyWriteSet, NoElement
<1>8. HeapRefs' /\ \A u \in Threads : todo'[u] \subseteq allocated'
  BY DEF AbortOp, nodeVars, endVars, RefsAllocated, HeapRefs, Ref
<1> QED BY <1>1, <1>2, <1>3, <1>5, <1>6, <1>7, <1>8 DEF RefsAllocated

(* A step that only moves the program counter, or only changes the nodes   *)
(* TXend has yet to visit, leaves a well-typed state.                      *)
LEMMA MoveType ==
  ASSUME TypeInv, NEW t \in Threads,
         pc' = [u \in Threads |-> pc'[u]],
         \A u \in Threads : pc'[u] = "call" => pc[u] = "call",
         todo' \in [Threads -> SUBSET AllNodes],
         \A u \in Threads : todo'[u] \subseteq allocated,
         UNCHANGED <<lnodeVars, opVars, storeVars, versVars, lockedLNodes, abort, word, cliVars>>
  PROVE  TypeInv'
<1> USE DEF TypeInv, MemoryTypeOK, LocalsTypeOK, lnodeVars, nodeVars
<1>1. LNodeTypeOK' BY DEF LNodeTypeOK
<1>2. OpTypeOK' /\ StoreTypeOK' BY DEF opVars, OpTypeOK, storeVars, StoreTypeOK
<1>3. EndTypeOK' BY DEF versVars, EndTypeOK
<1>4. HeapRefs' /\ OpRefs' /\ StoreRefs'
  BY DEF opVars, storeVars, RefsAllocated, HeapRefs, OpRefs, StoreRefs, Ref
<1>5. TasksLeft' /\ consumed' \in [Threads -> Nat] BY DEF cliVars, TasksLeft
<1> QED BY <1>1, <1>2, <1>3, <1>4, <1>5 DEF RefsAllocated

(* What the return of an operation changes is well-typed.                  *)
LEMMA ReturnType ==
  ASSUME TypeInv, NEW t \in Threads, NEW r, Return(t, r), allocated \subseteq allocated'
  PROVE  /\ pc' = [u \in Threads |-> pc'[u]]
         /\ OpTypeOK' /\ OpRefs' /\ TasksLeft' /\ consumed' \in [Threads -> Nat]
<1> USE DEF TypeInv, MemoryTypeOK, LocalsTypeOK
<1>1. pc' = [u \in Threads |-> pc'[u]] BY DEF Return, Goto, Labels
<1>2. OpTypeOK' BY DEF Return, ForgetOp, OpTypeOK, AllNodes, NodeOrNull
<1>3. OpRefs'
  BY DEF Return, ForgetOp, OpTypeOK, RefsAllocated, HeapRefs, OpRefs, Ref
<1>4. TasksLeft' /\ consumed' \in [Threads -> Nat]
  BY TasksAssumption DEF Return, Goto, TasksLeft
<1> QED BY <1>1, <1>2, <1>3, <1>4

(* An operation that only adds to the read set and returns.                *)
LEMMA ReadReturnType ==
  ASSUME TypeInv, NEW t \in Threads, NEW r, Return(t, r),
         readSet' = [readSet EXCEPT ![t] = @ \cup {pred[t]}],
         UNCHANGED <<lnodeVars, writeSet, indexAdd, indexRemove, versVars, endVars>>
  PROVE  TypeInv'
<1> USE DEF TypeInv, MemoryTypeOK, LocalsTypeOK, lnodeVars, nodeVars
<1>1. pc' = [u \in Threads |-> pc'[u]] /\ OpTypeOK' /\ OpRefs' /\ TasksLeft' /\ consumed' \in [Threads -> Nat]
  BY ReturnType
<1>2. LNodeTypeOK' /\ HeapRefs' BY DEF LNodeTypeOK, RefsAllocated, HeapRefs, Ref
<1>3. StoreTypeOK' /\ StoreRefs'
  BY RefFacts DEF StoreTypeOK, OpTypeOK, RefsAllocated, OpRefs, StoreRefs, Ref
<1>4. EndTypeOK' /\ \A u \in Threads : todo'[u] \subseteq allocated'
  BY DEF versVars, endVars, EndTypeOK, RefsAllocated
<1> QED BY <1>1, <1>2, <1>3, <1>4 DEF RefsAllocated

(* The steps of the operations preserve types and references.              *)
LEMMA OpStepType ==
  ASSUME TypeInv, NEW t \in Threads, OpStep(t)
  PROVE  TypeInv'
<1> USE DEF TypeInv, MemoryTypeOK, LocalsTypeOK, lnodeVars, nodeVars
<1>1. CASE TXbegin(t)
  <2>1. pc' = [u \in Threads |-> pc'[u]] /\ TasksLeft' /\ consumed' \in [Threads -> Nat]
    BY <1>1, TasksAssumption DEF TXbegin, Goto, Labels, TasksLeft
  <2>2. LNodeTypeOK' /\ OpTypeOK' /\ StoreTypeOK'
    BY <1>1 DEF TXbegin, LNodeTypeOK, opVars, OpTypeOK, storeVars, StoreTypeOK
  <2>3. EndTypeOK'
    BY <1>1 DEF TXbegin, LNodeTypeOK, endVars, EndTypeOK
  <2>4. RefsAllocated'
    BY <1>1 DEF TXbegin, opVars, storeVars, endVars, RefsAllocated, HeapRefs, OpRefs, StoreRefs, Ref
  <2> QED BY <2>1, <2>2, <2>3, <2>4
<1>2. CASE Call(t)
  <2>1. PICK k \in Tasks[t][consumed[t] + 1] :
          /\ task' = [task EXCEPT ![t] = k]
          /\ readOnly' = [readOnly EXCEPT ![t] = @ /\ k.op = "get"]
    BY <1>2 DEF Call
  <2>2. k \in Task
    <3>1. Tasks[t] \in Seq(SUBSET Task)
      BY TasksAssumption
    <3>2. consumed[t] \in Nat /\ consumed[t] < Len(Tasks[t]) /\ Len(Tasks[t]) \in Nat
      BY <1>2, <3>1 DEF Call, TasksLeft
    <3>3. Tasks[t][consumed[t] + 1] \in SUBSET Task
      BY <3>1, <3>2
    <3> QED BY <2>1, <3>3
  <2>3. pc' = [u \in Threads |-> pc'[u]] /\ TasksLeft' /\ consumed' \in [Threads -> Nat]
    <3>1. pc' = [pc EXCEPT ![t] = "search"] /\ consumed' = [consumed EXCEPT ![t] = @ + 1]
      BY <1>2 DEF Call, Goto
    <3>2. pc' = [u \in Threads |-> pc'[u]] BY <3>1
    <3>3. TasksLeft' /\ consumed' \in [Threads -> Nat]
      BY <1>2, <3>1, TasksAssumption DEF Call, TasksLeft
    <3> QED BY <3>2, <3>3
  <2>4. LNodeTypeOK' /\ OpTypeOK' /\ StoreTypeOK'
    BY <1>2, <2>1, <2>2 DEF Call, LNodeTypeOK, OpTypeOK, storeVars, StoreTypeOK
  <2>5. EndTypeOK'
    BY <1>2, <2>1 DEF Call, endVars, EndTypeOK
  <2>6. RefsAllocated'
    BY <1>2 DEF Call, storeVars, endVars, RefsAllocated, HeapRefs, OpRefs, StoreRefs, Ref
  <2> QED BY <2>3, <2>4, <2>5, <2>6
<1>3. CASE SearchPred(t) \/ SkipDeleted(t)
  <2>1. pc' = [u \in Threads |-> pc'[u]] /\ TasksLeft' /\ consumed' \in [Threads -> Nat]
    BY <1>3 DEF SearchPred, SkipDeleted, Goto, Labels, cliVars, TasksLeft
  <2>2. LNodeTypeOK' /\ StoreTypeOK' /\ EndTypeOK'
    BY <1>3 DEF SearchPred, SkipDeleted, LNodeTypeOK, storeVars, StoreTypeOK, versVars, endVars,
                EndTypeOK
  <2>3. HeapRefs' /\ StoreRefs' /\ \A u \in Threads : todo'[u] \subseteq allocated'
    BY <1>3 DEF SearchPred, SkipDeleted, storeVars, endVars, RefsAllocated, HeapRefs, StoreRefs, Ref
  <2>4. task[t].key \in Nat /\ m_key[pred[t]] \in Nat
    BY TaskFields DEF LNodeTypeOK, OpTypeOK
  <2>5. \/ UNCHANGED pred
        \/ \E n \in allocated \cap AllNodes : pred' = [pred EXCEPT ![t] = n]
    <3>1. CASE SearchPred(t) BY <3>1, <2>4, getPredType DEF SearchPred
    <3>2. CASE SkipDeleted(t) BY <3>2, <2>4, getPredType DEF SkipDeleted
    <3> QED BY <1>3, <3>1, <3>2
  <2>6. UNCHANGED <<task, next, prev, allocated>>
    BY <1>3 DEF SearchPred, SkipDeleted
  <2>7. OpTypeOK' /\ OpRefs'
    BY <2>5, <2>6 DEF OpTypeOK, RefsAllocated, OpRefs, Ref
  <2> QED BY <2>1, <2>2, <2>3, <2>7 DEF RefsAllocated
<1>4. CASE CheckVersion(t) \/ CheckSingleton(t) \/ IncrementAndAbort(t)
  <2>1. CASE AbortOp(t) /\ gvc' \in Nat
    BY <2>1, AbortOpType
  <2>2. CASE /\ Goto(t, AfterCheck(t)) \/ Goto(t, "bump")
             /\ pc[t] \in {"chkPred", "chkCur", "chkNext", "sngPred", "sngCur", "sngNext"}
             /\ UNCHANGED <<lnodeVars, opVars, storeVars, versVars, endVars, cliVars>>
    <3>1. {AfterCheck(t), "bump"} \subseteq Labels \ {"call"}
      BY <2>2 DEF AfterCheck, Labels
    <3>2. pc' = [u \in Threads |-> pc'[u]] /\ \A u \in Threads : pc'[u] = "call" => pc[u] = "call"
      BY <2>2, <3>1 DEF Goto
    <3>3. todo' \in [Threads -> SUBSET AllNodes] /\ \A u \in Threads : todo'[u] \subseteq allocated
      BY <2>2 DEF endVars, EndTypeOK, RefsAllocated
    <3> QED BY <2>2, <3>2, <3>3, MoveType DEF endVars
  <2> QED BY <1>4, <2>1, <2>2 DEF CheckVersion, CheckSingleton, IncrementAndAbort, LNodeTypeOK
<1>5. CASE ReadNext(t)
  <2>1. CASE AbortOp(t) /\ UNCHANGED gvc
    BY <2>1, AbortOpType DEF LNodeTypeOK
  <2>2. CASE ~AbortOp(t)
    <3>1. /\ next' = [next EXCEPT ![t] = nextOf(t, pred[t])]
          /\ Goto(t, IF writeSet[t][pred[t]].in THEN "cmp" ELSE "chkCur")
          /\ UNCHANGED <<lnodeVars, task, pred, prev, storeVars, versVars, endVars, cliVars>>
      BY <1>5, <2>2 DEF ReadNext
    <3>2. pc' = [u \in Threads |-> pc'[u]] /\ TasksLeft' /\ consumed' \in [Threads -> Nat]
      BY <3>1 DEF Goto, Labels, cliVars, TasksLeft
    <3>3. LNodeTypeOK' /\ StoreTypeOK' /\ EndTypeOK'
      BY <3>1 DEF LNodeTypeOK, storeVars, StoreTypeOK, versVars, endVars, EndTypeOK
    <3>4. nextOf(t, pred[t]) \in Ref
      BY ReadThroughType DEF OpTypeOK
    <3>5. OpTypeOK' /\ OpRefs'
      BY <3>1, <3>4, RefFacts DEF OpTypeOK, RefsAllocated, OpRefs, Ref
    <3>6. HeapRefs' /\ StoreRefs' /\ \A u \in Threads : todo'[u] \subseteq allocated'
      BY <3>1 DEF storeVars, endVars, RefsAllocated, HeapRefs, StoreRefs, Ref
    <3> QED BY <3>2, <3>3, <3>5, <3>6 DEF RefsAllocated
  <2> QED BY <1>5, <2>1, <2>2 DEF ReadNext
<1>6. CASE Advance(t) \/ RemoveFound(t)
  <2>1. pc' = [u \in Threads |-> pc'[u]] /\ TasksLeft' /\ consumed' \in [Threads -> Nat]
    BY <1>6 DEF Advance, RemoveFound, Goto, Labels, cliVars, TasksLeft
  <2>2. next[t] \in allocated /\ next[t] \in AllNodes
    BY <1>6, RefFacts DEF Advance, RemoveFound, Further, Found
  <2>3. LNodeTypeOK' /\ EndTypeOK'
    BY <1>6 DEF Advance, RemoveFound, LNodeTypeOK, versVars, endVars, EndTypeOK
  <2>4. StoreTypeOK' /\ StoreRefs'
    <3>1. CASE Advance(t)
      BY <3>1 DEF Advance, storeVars, StoreTypeOK, RefsAllocated, StoreRefs, Ref
    <3>2. CASE RemoveFound(t)
      <4>1. pred[t] \in allocated /\ pred[t] \in AllNodes
        BY RefFacts DEF RefsAllocated, OpRefs
      <4>2. StoreTypeOK' BY <3>2, <4>1 DEF RemoveFound, StoreTypeOK
      <4>3. StoreRefs' BY <3>2, <4>1 DEF RemoveFound, StoreTypeOK, RefsAllocated, StoreRefs, Ref
      <4> QED BY <4>2, <4>3
    <3> QED BY <1>6, <3>1, <3>2
  <2>5. OpTypeOK' /\ OpRefs'
    BY <1>6, <2>2 DEF Advance, RemoveFound, OpTypeOK, RefsAllocated, OpRefs, Ref, NodeOrNull
  <2>6. HeapRefs' /\ \A u \in Threads : todo'[u] \subseteq allocated'
    BY <1>6 DEF Advance, RemoveFound, endVars, RefsAllocated, HeapRefs, Ref
  <2> QED BY <2>1, <2>3, <2>4, <2>5, <2>6 DEF RefsAllocated
<1>7. CASE PutFound(t)
  <2>1. pc' = [u \in Threads |-> pc'[u]] /\ OpTypeOK' /\ OpRefs' /\ TasksLeft' /\ consumed' \in [Threads -> Nat]
    BY <1>7, ReturnType DEF PutFound
  <2>2. next[t] \in allocated /\ next[t] \in AllNodes
    BY <1>7, RefFacts DEF PutFound, Found
  <2>3. /\ nextOf(t, next[t]) \in Ref /\ nextOf(t, next[t]) \in NodeOrNull
        /\ task[t].val \in ValOrNone /\ writeSet[t][next[t]].deleted \in BOOLEAN
    BY <2>2, ReadThroughType, TaskFields, RefFacts
  <2> DEFINE we == WriteElement(nextOf(t, next[t]), task[t].val, writeSet[t][next[t]].deleted)
  <2>4. we \in Element /\ we.next \in Ref
    BY <2>3, WriteElementType
  <2>5. writeSet' = [writeSet EXCEPT ![t][next[t]] = we]
    BY <1>7 DEF PutFound
  <2> HIDE DEF we
  <2>6. StoreTypeOK' /\ StoreRefs'
    <3>1. StoreTypeOK' BY <1>7, <2>2, <2>4, <2>5, PutElement DEF PutFound, StoreTypeOK
    <3>2. StoreRefs'
      BY <1>7, <2>2, <2>4, <2>5, PutElementRefs DEF PutFound, StoreTypeOK, RefsAllocated, StoreRefs, Ref
    <3> QED BY <3>1, <3>2
  <2>7. LNodeTypeOK' /\ EndTypeOK' /\ HeapRefs' /\ \A u \in Threads : todo'[u] \subseteq allocated'
    BY <1>7 DEF PutFound, LNodeTypeOK, versVars, endVars, EndTypeOK, RefsAllocated, HeapRefs, Ref
  <2> QED BY <2>1, <2>6, <2>7 DEF RefsAllocated
<1>8. CASE PutNew(t)
  <2>1. PICK n \in Nodes \ allocated :
          /\ allocated' = allocated \cup {n}
          /\ m_key'  = [m_key EXCEPT ![n] = task[t].key]
          /\ m_val'  = [m_val EXCEPT ![n] = task[t].val]
          /\ m_next' = [m_next EXCEPT ![n] = next[t]]
          /\ writeSet' = [writeSet EXCEPT ![t][pred[t]] =
                            WriteElement(n, getVal(t, pred[t]), FALSE)]
          /\ indexAdd' = [indexAdd EXCEPT ![t] = @ \cup {n}]
    BY <1>8 DEF PutNew
  <2>2. pc' = [u \in Threads |-> pc'[u]] /\ OpTypeOK' /\ OpRefs' /\ TasksLeft' /\ consumed' \in [Threads -> Nat]
    BY <1>8, <2>1, ReturnType DEF PutNew
  <2>3. n \in AllNodes /\ task[t].key \in Nat /\ task[t].val \in ValOrNone
    BY TaskFields DEF AllNodes
  <2>4. LNodeTypeOK'
    <3>1. m_key' \in [AllNodes -> Nat] /\ m_val' \in [AllNodes -> ValOrNone]
      BY <2>1, <2>3 DEF LNodeTypeOK
    <3>2. m_next' \in [AllNodes -> NodeOrNull]
      BY <2>1, <2>3 DEF LNodeTypeOK, OpTypeOK
    <3> QED BY <1>8, <2>1, <2>3, <3>1, <3>2 DEF PutNew, LNodeTypeOK
  <2> DEFINE we == WriteElement(n, getVal(t, pred[t]), FALSE)
  <2>5. we \in Element /\ we.next = n
    BY <2>3, ReadThroughType, WriteElementType, ZenonT(30) DEF OpTypeOK, NodeOrNull
  <2>6. writeSet' = [writeSet EXCEPT ![t][pred[t]] = we]
    BY <2>1
  <2> HIDE DEF we
  <2>a. pred[t] \in allocated /\ pred[t] \in AllNodes
    BY RefFacts DEF RefsAllocated, OpRefs
  <2>7. StoreTypeOK'
    <3>1. writeSet' \in [Threads -> [AllNodes -> Element]]
      BY <2>5, <2>6, <2>a, PutElement DEF StoreTypeOK
    <3> QED BY <1>8, <2>1, <2>a, <3>1, ZenonT(30) DEF PutNew, StoreTypeOK
  <2>8. StoreRefs'
    <3>1. \A u \in Threads : \A m \in AllNodes :
            writeSet[u][m].next \in Ref' /\ (writeSet[u][m].in => m \in allocated')
      BY <2>1 DEF RefsAllocated, StoreRefs, Ref
    <3>2. \A u \in Threads : \A m \in AllNodes :
            writeSet'[u][m].next \in Ref' /\ (writeSet'[u][m].in => m \in allocated')
      <4>1. we.next \in Ref' /\ pred[t] \in allocated'
        BY <2>1, <2>5, <2>a DEF Ref
      <4> QED BY <2>5, <2>6, <2>a, <3>1, <4>1, PutElementRefs DEF StoreTypeOK
    <3>3. \A u \in Threads : /\ readSet'[u] \subseteq allocated'
                             /\ indexAdd'[u] \subseteq allocated'
                             /\ indexRemove'[u] \subseteq allocated'
      BY <1>8, <2>1, <2>a DEF PutNew, StoreTypeOK, RefsAllocated, StoreRefs
    <3> QED BY <3>2, <3>3 DEF StoreRefs
  <2>9. HeapRefs'
    BY <2>1, <2>3 DEF LNodeTypeOK, RefsAllocated, HeapRefs, OpRefs, Ref
  <2>10. EndTypeOK' /\ \A u \in Threads : todo'[u] \subseteq allocated'
    BY <1>8, <2>1 DEF PutNew, versVars, endVars, EndTypeOK, RefsAllocated
  <2> QED BY <2>2, <2>4, <2>7, <2>8, <2>9, <2>10 DEF RefsAllocated
<1>9. CASE Get(t) \/ RemoveAbsent(t)
  BY <1>9, ReadReturnType DEF Get, RemoveAbsent
<1>10. CASE RemoveFinish(t)
  <2>1. pc' = [u \in Threads |-> pc'[u]] /\ OpTypeOK' /\ OpRefs' /\ TasksLeft' /\ consumed' \in [Threads -> Nat]
    BY <1>10, ReturnType DEF RemoveFinish
  <2>2. /\ prev[t] \in allocated /\ prev[t] \in AllNodes
        /\ pred[t] \in allocated /\ pred[t] \in AllNodes
    BY <1>10, RefFacts DEF RemoveFinish, RefsAllocated, OpRefs
  <2> DEFINE un == WriteElement(next[t], getVal(t, prev[t]), FALSE)
             rm == WriteElement(Null, getVal(t, pred[t]), TRUE)
  <2>3. un \in Element /\ rm \in Element /\ un.next \in Ref /\ rm.next \in Ref
    <3>1. next[t] \in Ref /\ Null \in Ref
      BY DEF RefsAllocated, OpRefs, Ref
    <3>2. next[t] \in NodeOrNull /\ Null \in NodeOrNull
      BY <3>1, RefFacts
    <3>3. getVal(t, prev[t]) \in ValOrNone /\ getVal(t, pred[t]) \in ValOrNone
      BY <2>2, ReadThroughType
    <3> QED BY <3>1, <3>2, <3>3, WriteElementType
  <2> DEFINE ws == [writeSet EXCEPT ![t][prev[t]] = un]
  <2>4. writeSet' = [ws EXCEPT ![t][pred[t]] = rm]
    BY <1>10 DEF RemoveFinish
  <2>b. ws \in [Threads -> [AllNodes -> Element]]
    BY <2>2, <2>3, PutElement DEF StoreTypeOK
  <2> HIDE DEF un, rm
  <2>c. \A u \in Threads : \A m \in AllNodes :
          ws[u][m].next \in Ref /\ (ws[u][m].in => m \in allocated)
    BY <2>2, <2>3, PutElementRefs DEF StoreTypeOK, RefsAllocated, StoreRefs
  <2> HIDE DEF ws
  <2>5. StoreTypeOK'
    <3>1. writeSet' \in [Threads -> [AllNodes -> Element]]
      BY <2>2, <2>3, <2>4, <2>b, PutElement
    <3> QED BY <1>10, <2>2, <3>1 DEF RemoveFinish, StoreTypeOK
  <2>6. StoreRefs'
    <3>1. \A u \in Threads : \A m \in AllNodes :
            writeSet'[u][m].next \in Ref /\ (writeSet'[u][m].in => m \in allocated)
      BY <2>2, <2>3, <2>4, <2>b, <2>c, PutElementRefs
    <3> QED BY <1>10, <2>2, <3>1 DEF RemoveFinish, StoreTypeOK, RefsAllocated, StoreRefs, Ref
  <2>7. LNodeTypeOK' /\ EndTypeOK' /\ HeapRefs' /\ \A u \in Threads : todo'[u] \subseteq allocated'
    BY <1>10 DEF RemoveFinish, LNodeTypeOK, versVars, endVars, EndTypeOK, RefsAllocated, HeapRefs, Ref
  <2> QED BY <2>1, <2>5, <2>6, <2>7 DEF RefsAllocated
<1> QED
  BY <1>1, <1>2, <1>3, <1>4, <1>5, <1>6, <1>7, <1>8, <1>9, <1>10 DEF OpStep

(* Validation moves from node to node, may move the clock and raise the    *)
(* abort flag, and writes nothing.                                         *)
LEMMA ValidateFrame ==
  ASSUME TypeInv, NEW t \in Threads, ValidateStep(t)
  PROVE  /\ pc[t] \in Validating
         /\ gvc' \in {gvc, gvc + 1}
         /\ UNCHANGED <<nodeVars, m_version_mask, index, retired, crashed, task, next, prev,
                        storeVars, versVars, lockedLNodes, word, cliVars>>
         /\ \E s \in SUBSET (todo[t] \cup {pred[t]}), n \in todo[t] \cup {pred[t], head},
                b \in BOOLEAN, l \in Validating \cup {"loadSng", "release"} :
              /\ todo' = [todo EXCEPT ![t] = s] /\ pred' = [pred EXCEPT ![t] = n]
              /\ abort' = [abort EXCEPT ![t] = b] /\ pc' = [pc EXCEPT ![t] = l]
<1> USE DEF Goto, Validating, lnodeVars, nodeVars, endVars
<1>0. /\ pc = [u \in Threads |-> pc[u]] /\ pred \in [Threads -> AllNodes]
      /\ todo \in [Threads -> SUBSET AllNodes] /\ abort \in [Threads -> BOOLEAN]
  BY DEF TypeInv, MemoryTypeOK, LocalsTypeOK, OpTypeOK, EndTypeOK
<1>1. /\ todo = [todo EXCEPT ![t] = todo[t]] /\ pred = [pred EXCEPT ![t] = pred[t]]
      /\ abort = [abort EXCEPT ![t] = abort[t]] /\ abort[t] \in BOOLEAN
  BY <1>0
<1>2. CASE Validate(t)
  <2> DEFINE Abandons == /\ abort' = [abort EXCEPT ![t] = TRUE] /\ todo' = [todo EXCEPT ![t] = {}]
                         /\ pc' = [pc EXCEPT ![t] = "release"] /\ pred' = [pred EXCEPT ![t] = pred[t]]
             Enters(n) == /\ todo' = [todo EXCEPT ![t] = todo[t] \ {n}] /\ pred' = [pred EXCEPT ![t] = n]
                          /\ pc' = [pc EXCEPT ![t] = "verVal"] /\ abort' = [abort EXCEPT ![t] = abort[t]]
  <2>1. Abandons \/ \E n \in todo[t] : Enters(n)
    BY <1>1, <1>2 DEF Validate
  <2>2. UNCHANGED gvc /\ pc[t] = "validate"
    BY <1>2 DEF Validate
  <2>3. ASSUME Abandons
        PROVE  \E s \in SUBSET (todo[t] \cup {pred[t]}), n \in todo[t] \cup {pred[t], head},
                  b \in BOOLEAN, l \in Validating \cup {"loadSng", "release"} :
                 /\ todo' = [todo EXCEPT ![t] = s] /\ pred' = [pred EXCEPT ![t] = n]
                 /\ abort' = [abort EXCEPT ![t] = b] /\ pc' = [pc EXCEPT ![t] = l]
    BY <2>3
  <2>4. ASSUME NEW m \in todo[t], Enters(m)
        PROVE  \E s \in SUBSET (todo[t] \cup {pred[t]}), n \in todo[t] \cup {pred[t], head},
                  b \in BOOLEAN, l \in Validating \cup {"loadSng", "release"} :
                 /\ todo' = [todo EXCEPT ![t] = s] /\ pred' = [pred EXCEPT ![t] = n]
                 /\ abort' = [abort EXCEPT ![t] = b] /\ pc' = [pc EXCEPT ![t] = l]
    BY <1>1, <2>4
  <2> HIDE DEF Abandons, Enters
  <2>5. UNCHANGED <<nodeVars, m_version_mask, index, retired, crashed, task, next, prev,
                    storeVars, versVars, lockedLNodes, word, cliVars>>
    BY <1>2 DEF Validate
  <2> QED BY <2>1, <2>2, <2>3, <2>4, <2>5
<1>3. CASE ValidateVersion(t) BY <1>1, <1>3 DEF ValidateVersion
<1>4. CASE ValidateSingleton(t) BY <1>1, <1>4 DEF ValidateSingleton
<1>5. CASE IncrementAndClear(t) BY <1>1, <1>5 DEF IncrementAndClear
<1> QED BY <1>2, <1>3, <1>4, <1>5 DEF ValidateStep

(* The steps of TXend preserve types and references.                       *)
LEMMA EndStepType ==
  ASSUME TypeInv, NEW t \in Threads, EndStep(t)
  PROVE  TypeInv'
<1> USE DEF TypeInv, MemoryTypeOK, LocalsTypeOK, lnodeVars, nodeVars
<1>0. /\ readSet[t] \subseteq allocated /\ todo[t] \subseteq allocated
      /\ indexAdd[t] \subseteq allocated /\ indexRemove[t] \subseteq allocated
      /\ WriteNodes(t) \subseteq allocated /\ allocated \subseteq AllNodes
  BY RefFacts DEF RefsAllocated, StoreRefs, WriteNodes
<1>1. CASE LockNode(t)
  <2>1. PICK n \in WriteNodes(t) \ lockedLNodes[t] :
          \/ /\ abort' = [abort EXCEPT ![t] = TRUE]
             /\ Goto(t, "release")
             /\ UNCHANGED <<m_version_mask, lockedLNodes>>
          \/ /\ tryLock(n)
             /\ lockedLNodes' = [lockedLNodes EXCEPT ![t] = @ \cup {n}]
             /\ UNCHANGED <<pc, abort>>
    BY <1>1 DEF LockNode
  <2>2. m_version_mask' \in [AllNodes -> Word]
    BY <2>1, <1>0, tryLockType DEF LNodeTypeOK
  <2>3. LNodeTypeOK'
    BY <1>1, <2>2 DEF LockNode, LNodeTypeOK
  <2>4. pc' = [u \in Threads |-> pc'[u]] /\ TasksLeft' /\ consumed' \in [Threads -> Nat]
    BY <1>1, <2>1 DEF LockNode, Goto, Labels, cliVars, TasksLeft
  <2>5. EndTypeOK'
    <3>1. n \in AllNodes BY <1>0
    <3>2. lockedLNodes \in [Threads -> SUBSET AllNodes] /\ abort \in [Threads -> BOOLEAN]
      BY DEF EndTypeOK
    <3>3. \/ lockedLNodes' = lockedLNodes
          \/ lockedLNodes' = [lockedLNodes EXCEPT ![t] = @ \cup {n}]
      BY ONLY <2>1
    <3>4. lockedLNodes' \in [Threads -> SUBSET AllNodes]
      BY ONLY <3>1, <3>2, <3>3
    <3>5. abort' = abort \/ abort' = [abort EXCEPT ![t] = TRUE]
      BY ONLY <2>1
    <3>6. abort' \in [Threads -> BOOLEAN]
      BY ONLY <3>2, <3>5
    <3> QED BY <1>1, <3>4, <3>6 DEF LockNode, versVars, EndTypeOK
  <2> QED
    BY <1>1, <2>3, <2>4, <2>5 DEF LockNode, opVars, OpTypeOK, storeVars, StoreTypeOK,
                                  RefsAllocated, HeapRefs, OpRefs, StoreRefs, Ref
<1>2. CASE LockedAll(t) \/ ValidatedReadOnly(t) \/ WroteAll(t) \/ UpdateIndex(t)
  <2>1. /\ pc' = [u \in Threads |-> pc'[u]]
        /\ \A u \in Threads : pc'[u] = "call" => pc[u] = "call"
    BY <1>2 DEF LockedAll, ValidatedReadOnly, WroteAll, UpdateIndex, Goto, Labels
  <2>2. /\ todo' \in [Threads -> SUBSET AllNodes]
        /\ \A u \in Threads : todo'[u] \subseteq allocated
    BY <1>0, <1>2 DEF LockedAll, ValidatedReadOnly, WroteAll, UpdateIndex, endVars, EndTypeOK,
                      RefsAllocated
  <2> QED
    BY <1>2, <2>1, <2>2, MoveType DEF LockedAll, ValidatedReadOnly, WroteAll, UpdateIndex, endVars
<1>3. CASE ValidateStep(t)
  <2>1. PICK s \in SUBSET (todo[t] \cup {pred[t]}), n \in todo[t] \cup {pred[t], head}, b \in BOOLEAN,
              l \in Validating \cup {"loadSng", "release"} :
          /\ todo' = [todo EXCEPT ![t] = s] /\ pred' = [pred EXCEPT ![t] = n]
          /\ abort' = [abort EXCEPT ![t] = b] /\ pc' = [pc EXCEPT ![t] = l]
    BY <1>3, ValidateFrame
  <2>2. /\ UNCHANGED <<nodeVars, m_version_mask, index, retired, crashed, task, next, prev, storeVars,
                       versVars, lockedLNodes, word, cliVars>>
        /\ gvc' \in Nat
    BY <1>3, ValidateFrame DEF LNodeTypeOK
  <2>3. todo[t] \cup {pred[t], head} \subseteq allocated
    BY <1>0 DEF RefsAllocated, HeapRefs, OpRefs
  <2>4. LNodeTypeOK' BY <2>2 DEF LNodeTypeOK
  <2>5. pc' = [u \in Threads |-> pc'[u]] /\ TasksLeft' /\ consumed' \in [Threads -> Nat]
    BY <2>1, <2>2 DEF cliVars, TasksLeft, Validating
  <2>6. EndTypeOK' /\ \A u \in Threads : todo'[u] \subseteq allocated'
    BY <1>0, <2>1, <2>2, <2>3 DEF versVars, EndTypeOK, RefsAllocated
  <2>7. OpTypeOK' /\ OpRefs'
    BY <1>0, <2>1, <2>2, <2>3 DEF OpTypeOK, RefsAllocated, OpRefs, Ref
  <2> QED
    BY <2>2, <2>4, <2>5, <2>6, <2>7 DEF storeVars, StoreTypeOK, RefsAllocated, HeapRefs, StoreRefs, Ref
<1>4. CASE setSingletonLoad(t)
  <2>1. LNodeTypeOK' BY <1>4 DEF setSingletonLoad, LNodeTypeOK, Faults
  <2>2. pc' = [u \in Threads |-> pc'[u]] /\ TasksLeft' /\ consumed' \in [Threads -> Nat]
    BY <1>4 DEF setSingletonLoad, Goto, Labels, cliVars, TasksLeft
  <2>3. EndTypeOK' BY <1>0, <1>4 DEF setSingletonLoad, versVars, EndTypeOK, LNodeTypeOK
  <2> QED
    BY <1>4, <2>1, <2>2, <2>3 DEF setSingletonLoad, opVars, OpTypeOK, storeVars, StoreTypeOK,
                                  RefsAllocated, HeapRefs, OpRefs, StoreRefs, Ref
<1>5. CASE setSingletonStore(t)
  <2>1. [word[t] EXCEPT !.sing = FALSE] \in Word
    BY WordFields DEF EndTypeOK
  <2>2. m_version_mask' \in [AllNodes -> Word]
    BY <1>0, <1>5, <2>1, StoreWordType DEF setSingletonStore, LNodeTypeOK
  <2>3. LNodeTypeOK' BY <1>5, <2>2 DEF setSingletonStore, LNodeTypeOK
  <2>4. pc' = [u \in Threads |-> pc'[u]] /\ TasksLeft' /\ consumed' \in [Threads -> Nat]
    BY <1>5 DEF setSingletonStore, Goto, Labels, cliVars, TasksLeft
  <2>5. EndTypeOK' /\ \A u \in Threads : todo'[u] \subseteq allocated'
    BY <1>5 DEF setSingletonStore, versVars, EndTypeOK, RefsAllocated, Word, FreshWord
  <2> QED
    BY <1>5, <2>3, <2>4, <2>5 DEF setSingletonStore, opVars, OpTypeOK, storeVars, StoreTypeOK,
                                  RefsAllocated, HeapRefs, OpRefs, StoreRefs, Ref
<1>6. CASE TakeVersion(t)
  <2>1. LNodeTypeOK' BY <1>6 DEF TakeVersion, LNodeTypeOK
  <2>2. pc' = [u \in Threads |-> pc'[u]] /\ TasksLeft' /\ consumed' \in [Threads -> Nat]
    BY <1>6 DEF TakeVersion, Goto, Labels, cliVars, TasksLeft
  <2>3. EndTypeOK' /\ \A u \in Threads : todo'[u] \subseteq allocated'
    BY <1>0, <1>6 DEF TakeVersion, EndTypeOK, LNodeTypeOK, RefsAllocated
  <2> QED
    BY <1>6, <2>1, <2>2, <2>3 DEF TakeVersion, opVars, OpTypeOK, storeVars, StoreTypeOK,
                                  RefsAllocated, HeapRefs, OpRefs, StoreRefs, Ref
<1>7. CASE WriteNode(t)
  <2>1. PICK n \in todo[t] :
          /\ m_next' = [m_next EXCEPT ![n] = writeSet[t][n].next]
          /\ m_val' = [m_val EXCEPT ![n] = writeSet[t][n].val]
          /\ todo' = [todo EXCEPT ![t] = @ \ {n}]
          /\ pred' = [pred EXCEPT ![t] = n]
    BY <1>7 DEF WriteNode
  <2>2. n \in allocated /\ n \in AllNodes /\ writeSet[t][n] \in Element /\ writeSet[t][n].next \in Ref
    BY <1>0 DEF StoreTypeOK, RefsAllocated, StoreRefs
  <2>3. LNodeTypeOK' BY <1>7, <2>1, <2>2 DEF WriteNode, LNodeTypeOK, Element
  <2>4. pc' = [u \in Threads |-> pc'[u]] /\ TasksLeft' /\ consumed' \in [Threads -> Nat]
    BY <1>7 DEF WriteNode, Goto, Labels, cliVars, TasksLeft
  <2>5. OpTypeOK' /\ OpRefs' BY <1>7, <2>1, <2>2 DEF WriteNode, OpTypeOK, RefsAllocated, OpRefs, Ref
  <2>6. EndTypeOK' /\ \A u \in Threads : todo'[u] \subseteq allocated'
    BY <1>7, <2>1 DEF WriteNode, versVars, EndTypeOK, RefsAllocated
  <2>7. HeapRefs' BY <1>7, <2>1, <2>2 DEF WriteNode, LNodeTypeOK, RefsAllocated, HeapRefs, Ref
  <2> QED
    BY <1>7, <2>3, <2>4, <2>5, <2>6, <2>7 DEF WriteNode, storeVars, StoreTypeOK, RefsAllocated,
                                              StoreRefs, Ref
<1>8. CASE StampNode(t)
  <2> DEFINE n == pred[t]
             d == writeSet[t][n].deleted
             w == [m_version_mask[n] EXCEPT !.ver = writeVersion[t], !.del = @ \/ d, !.sing = FALSE]
  <2>1. n \in AllNodes /\ d \in BOOLEAN
    BY DEF OpTypeOK, StoreTypeOK, Element
  <2>2. w \in Word
    <3>1. m_version_mask[n] \in Word /\ writeVersion[t] \in Nat /\ (m_version_mask[n].del \/ d) \in BOOLEAN
      BY <2>1 DEF LNodeTypeOK, EndTypeOK, Word
    <3> HIDE DEF d
    <3> QED BY <3>1, WordFields
  <2>3. StoreLocked(n, w) /\ m_val' = [m_val EXCEPT ![n] = IF d THEN NoVal ELSE @]
    BY <1>8 DEF StampNode
  <2> HIDE DEF n, d, w
  <2>4. m_version_mask' \in [AllNodes -> Word] /\ crashed' \in Faults
    BY <2>1, <2>2, <2>3, StoreLockedType DEF LNodeTypeOK
  <2>5. m_val' \in [AllNodes -> ValOrNone]
    BY <2>1, <2>3 DEF LNodeTypeOK, ValOrNone
  <2>6. LNodeTypeOK' BY <1>8, <2>4, <2>5 DEF StampNode, LNodeTypeOK
  <2>7. pc' = [u \in Threads |-> pc'[u]] /\ TasksLeft' /\ consumed' \in [Threads -> Nat]
    BY <1>8 DEF StampNode, Goto, Labels, cliVars, TasksLeft
  <2>8. OpTypeOK' /\ OpRefs'
    BY <1>8 DEF StampNode, OpTypeOK, RefsAllocated, HeapRefs, OpRefs, Ref, AllNodes
  <2> QED
    BY <1>8, <2>6, <2>7, <2>8 DEF StampNode, storeVars, StoreTypeOK, versVars, endVars, EndTypeOK,
                                  RefsAllocated, HeapRefs, StoreRefs, Ref
<1>9. CASE ReleaseNode(t)
  <2>1. PICK n \in lockedLNodes[t] :
          unlock(n) /\ lockedLNodes' = [lockedLNodes EXCEPT ![t] = @ \ {n}]
    BY <1>9 DEF ReleaseNode
  <2>2. n \in AllNodes /\ [m_version_mask[n] EXCEPT !.lock = FALSE] \in Word
    BY WordFields DEF EndTypeOK, LNodeTypeOK
  <2>3. m_version_mask' \in [AllNodes -> Word] /\ crashed' \in Faults
    BY <2>1, <2>2, StoreLockedType DEF unlock, LNodeTypeOK
  <2>4. LNodeTypeOK' BY <1>9, <2>3 DEF ReleaseNode, LNodeTypeOK
  <2>5. EndTypeOK' BY <1>9, <2>1 DEF ReleaseNode, versVars, EndTypeOK
  <2> QED
    BY <1>9, <2>4, <2>5 DEF ReleaseNode, opVars, OpTypeOK, storeVars, StoreTypeOK, RefsAllocated,
                            HeapRefs, OpRefs, StoreRefs, Ref, cliVars, TasksLeft
<1>10. CASE AbortEnd(t) \/ Commit(t)
  <2>1. LNodeTypeOK' /\ OpTypeOK' /\ HeapRefs' /\ OpRefs'
    BY <1>10 DEF AbortEnd, Commit, LNodeTypeOK, opVars, OpTypeOK, RefsAllocated, HeapRefs, OpRefs, Ref
  <2>2. pc' = [u \in Threads |-> pc'[u]] /\ TasksLeft' /\ consumed' \in [Threads -> Nat]
    BY <1>10 DEF AbortEnd, Commit, Goto, Labels, TasksLeft
  <2>3. ClearStorage(t) /\ UNCHANGED allocated
    BY <1>10 DEF AbortEnd, Commit
  <2>4. EmptyWriteSet \in [AllNodes -> Element]
    BY DEF EmptyWriteSet, NoElement, Element, NodeOrNull, ValOrNone
  <2>5. StoreTypeOK' BY <2>3, <2>4 DEF ClearStorage, StoreTypeOK
  <2>6. StoreRefs'
    BY <2>3 DEF ClearStorage, StoreTypeOK, RefsAllocated, StoreRefs, Ref, EmptyWriteSet, NoElement
  <2>7. EndTypeOK' /\ \A u \in Threads : todo'[u] \subseteq allocated'
    BY <1>10, <2>3 DEF AbortEnd, Commit, ClearStorage, endVars, EndTypeOK, RefsAllocated
  <2> QED BY <2>1, <2>2, <2>5, <2>6, <2>7 DEF RefsAllocated
<1>11. CASE AddToIndex(t) \/ RemoveFromIndex(t)
  <2>1. LNodeTypeOK'
    BY <1>0, <1>11 DEF AddToIndex, RemoveFromIndex, LNodeTypeOK
  <2>2. pc' = [u \in Threads |-> pc'[u]] /\ TasksLeft' /\ consumed' \in [Threads -> Nat]
    BY <1>11 DEF AddToIndex, RemoveFromIndex, Goto, Labels, cliVars, TasksLeft
  <2>3. \E s \in SUBSET allocated : todo' = [todo EXCEPT ![t] = s]
    BY <1>0, <1>11 DEF AddToIndex, RemoveFromIndex, EndTypeOK
  <2>4. EndTypeOK' /\ \A u \in Threads : todo'[u] \subseteq allocated'
    BY <1>0, <1>11, <2>3 DEF AddToIndex, RemoveFromIndex, versVars, EndTypeOK, RefsAllocated
  <2> QED
    BY <1>11, <2>1, <2>2, <2>4 DEF AddToIndex, RemoveFromIndex, opVars, OpTypeOK, storeVars,
                                   StoreTypeOK, RefsAllocated, HeapRefs, OpRefs, StoreRefs, Ref
<1> QED
  BY <1>1, <1>2, <1>3, <1>4, <1>5, <1>6, <1>7, <1>8, <1>9, <1>10, <1>11 DEF EndStep, ValidateStep

-----------------------------------------------------------------------------
(* The initial state *)

(* Among the preloaded nodes above a node there is a lowest one.           *)
LEMMA LowestAbove ==
  ASSUME NEW n \in AllNodes, NEW m \in Preloaded, Above(n, m)
  PROVE  \E p \in Preloaded : Above(n, p) /\ \A o \in Preloaded : Above(n, o) => InitKey[p] <= InitKey[o]
<1> DEFINE K == {InitKey[o] : o \in {o \in Preloaded : Above(n, o)}}
<1>1. K \subseteq Nat /\ K # {}
  BY InitAssumption DEF Preloaded
<1>2. PICK k \in K : \A j \in K : ~(<<j, k>> \in OpToRel(<, Nat))
  <2> HIDE DEF K
  <2> QED BY <1>1, NatLessThanWellFounded, WFMin
<1>3. \A j \in K : k <= j
  <2> HIDE DEF K
  <2> TAKE j \in K
  <2>1. j \in Nat /\ k \in Nat BY <1>1
  <2>2. ~(<<j, k>> \in OpToRel(<, Nat)) BY <1>2
  <2>3. ~(j < k) BY <2>1, <2>2 DEF OpToRel
  <2> QED BY <2>1, <2>3
<1>4. PICK p \in Preloaded : Above(n, p) /\ InitKey[p] = k
  OBVIOUS
<1> QED BY <1>3, <1>4

(* A preloaded node, or the head, is linked to a preloaded node above it   *)
(* or is the last one.                                                     *)
LEMMA InitNextAbove ==
  ASSUME NEW n \in AllNodes
  PROVE  InitNext(n) = Null \/ (InitNext(n) \in Preloaded /\ Above(n, InitNext(n)))
BY LowestAbove DEF InitNext

(* The preloaded list and the idle threads have the declared types.        *)
LEMMA TypeInit == TXInit => TypeInv
<1> SUFFICES ASSUME TXInit PROVE TypeInv
  OBVIOUS
<1>1. LNodeTypeOK
  <2>1. m_key \in [AllNodes -> Nat]
    BY InitAssumption DEF TXInit, LNodeInit, KeyOf, Preloaded, HeadKey
  <2>2. InitVal \in Vals
    BY ValsAssumption DEF InitVal
  <2>3. m_val \in [AllNodes -> ValOrNone]
    BY <2>2 DEF TXInit, LNodeInit, ValOrNone
  <2>4. m_next \in [AllNodes -> NodeOrNull]
    BY InitNextAbove, InitAssumption DEF TXInit, LNodeInit, NodeOrNull, AllNodes, Preloaded
  <2>5. gvc \in Nat
    BY DEF TXInit, LNodeInit
  <2>6. m_version_mask \in [AllNodes -> Word]
    <3>1. FreshWord \in Word /\ [FreshWord EXCEPT !.ver = gvc] \in Word
      BY <2>5 DEF FreshWord, Word
    <3> QED BY <3>1 DEF TXInit, LNodeInit
  <2> QED
    BY <2>1, <2>3, <2>4, <2>5, <2>6, InitAssumption
    DEF TXInit, LNodeInit, LNodeTypeOK, AllNodes, Preloaded, Faults
<1>2. OpTypeOK
  BY DEF TXInit, OpTypeOK, AllNodes, NodeOrNull
<1>3. StoreTypeOK
  <2>1. EmptyWriteSet \in [AllNodes -> Element]
    BY DEF EmptyWriteSet, NoElement, Element, NodeOrNull, ValOrNone
  <2> QED BY <2>1 DEF TXInit, StoreTypeOK
<1>4. EndTypeOK
  BY DEF TXInit, EndTypeOK, FreshWord, Word
<1>5. HeapRefs
  BY InitNextAbove DEF TXInit, LNodeInit, HeapRefs, Ref
<1>6. OpRefs /\ StoreRefs /\ \A t \in Threads : todo[t] \subseteq allocated
  BY DEF TXInit, LNodeInit, OpRefs, StoreRefs, Ref, EmptyWriteSet, NoElement
<1>7. TasksLeft /\ consumed \in [Threads -> Nat] /\ pc = [u \in Threads |-> pc[u]]
  BY TasksAssumption DEF TXInit, TasksLeft, Labels
<1> QED
  BY <1>1, <1>2, <1>3, <1>4, <1>5, <1>6, <1>7 DEF TypeInv, MemoryTypeOK, LocalsTypeOK, RefsAllocated

(* Every step preserves types and references.                              *)
LEMMA TypeNext == TypeInv /\ [TXNext]_vars => TypeInv'
<1> SUFFICES ASSUME TypeInv, [TXNext]_vars PROVE TypeInv'
  OBVIOUS
<1>1. ASSUME NEW t \in Threads, TXStep(t) PROVE TypeInv'
  BY <1>1, OpStepType, EndStepType DEF TXStep
<1>2. CASE UNCHANGED vars
  <2>1. UNCHANGED <<lnodeVars, pc, opVars, storeVars, versVars, endVars, cliVars>>
    BY <1>2 DEF vars, txVars
  <2> QED
    BY <2>1 DEF lnodeVars, nodeVars, opVars, storeVars, versVars, endVars, cliVars,
           TypeInv, MemoryTypeOK, LNodeTypeOK, LocalsTypeOK, OpTypeOK, StoreTypeOK, EndTypeOK,
           RefsAllocated, HeapRefs, OpRefs, StoreRefs, Ref, TasksLeft
<1> QED BY <1>1, <1>2 DEF TXNext, Finished

(* A step of a transaction goes from label to label of LinkedListTX and    *)
(* leaves the positions of the other threads alone.                        *)
LEMMA StepLabels ==
  ASSUME TypeInv, NEW t \in Threads, TXStep(t)
  PROVE  /\ pc[t] \in Labels /\ pc'[t] \in Labels
         /\ \A u \in Threads \ {t} : pc'[u] = pc[u]
<1> USE DEF Goto, Labels
<1>0. pc = [u \in Threads |-> pc[u]]
  BY DEF TypeInv, MemoryTypeOK
<1>0a. CASE IncrementAndAbort(t)
  BY <1>0, <1>0a DEF IncrementAndAbort, AbortOp
<1>1. CASE CheckVersion(t) \/ CheckSingleton(t)
  <2>1. pc[t] \in {"chkPred", "chkCur", "chkNext", "sngPred", "sngCur", "sngNext"}
    BY <1>1 DEF CheckVersion, CheckSingleton
  <2>2. AfterCheck(t) \in Labels
    BY <2>1 DEF AfterCheck
  <2>3. \E l \in Labels : pc' = [pc EXCEPT ![t] = l]
    BY <1>1, <2>2 DEF CheckVersion, CheckSingleton, AbortOp
  <2> QED BY <1>0, <2>1, <2>3
<1>2. CASE \/ TXbegin(t) \/ Call(t) \/ SearchPred(t) \/ SkipDeleted(t) \/ ReadNext(t) \/ Advance(t)
           \/ RemoveFound(t)
  BY <1>0, <1>2 DEF TXbegin, Call, SearchPred, SkipDeleted, ReadNext, AbortOp, Advance, RemoveFound,
     Searching
<1>3. CASE PutFound(t) \/ PutNew(t) \/ Get(t) \/ RemoveAbsent(t) \/ RemoveFinish(t)
  <2>1. PICK r : pc[t] = "cmp" /\ Return(t, r)
    BY <1>3 DEF PutFound, PutNew, Get, RemoveAbsent, RemoveFinish, Searching
  <2> QED BY <1>0, <2>1 DEF Return
<1>4. CASE \/ LockNode(t) \/ LockedAll(t) \/ ValidateStep(t) \/ setSingletonLoad(t) \/ setSingletonStore(t)
           \/ ValidatedReadOnly(t) \/ TakeVersion(t) \/ WriteNode(t)
  <2>1. CASE ValidateStep(t) BY <1>0, <2>1, ValidateFrame DEF Validating
  <2> QED
    BY <1>0, <1>4, <2>1 DEF LockNode, LockedAll, setSingletonLoad, setSingletonStore,
       ValidatedReadOnly, TakeVersion, WriteNode
<1>5. CASE \/ StampNode(t) \/ WroteAll(t) \/ ReleaseNode(t) \/ AbortEnd(t) \/ UpdateIndex(t)
           \/ AddToIndex(t) \/ RemoveFromIndex(t) \/ Commit(t)
  BY <1>0, <1>5 DEF StampNode, WroteAll, ReleaseNode, AbortEnd, UpdateIndex, AddToIndex,
     RemoveFromIndex, Commit
<1> QED BY <1>0a, <1>1, <1>2, <1>3, <1>4, <1>5 DEF TXStep, OpStep, EndStep, ValidateStep

(* Every variable keeps its type, whatever the threads do, and no thread   *)
(* ever follows a pointer to memory that was not allocated.                *)
THEOREM TypeCorrect == TXSpec => [](TXTypeOK /\ RefsAllocated)
<1> DEFINE Named == \A t \in Threads : pc[t] \in Labels
<1>1. TypeInv /\ Named => TXTypeOK /\ RefsAllocated
  <2> SUFFICES ASSUME TypeInv, Named PROVE TXTypeOK /\ RefsAllocated
    OBVIOUS
  <2>1. pc = [u \in Threads |-> pc[u]] BY DEF TypeInv, MemoryTypeOK
  <2>2. pc \in [Threads -> Labels] BY <2>1
  <2> QED BY <2>2 DEF TypeInv, MemoryTypeOK, TXTypeOK
<1>2. TXInit => Named
  BY DEF TXInit, Labels
<1>3. TypeInv /\ Named /\ [TXNext]_vars => Named'
  <2> SUFFICES ASSUME TypeInv, Named, [TXNext]_vars PROVE Named'
    OBVIOUS
  <2>1. CASE UNCHANGED vars BY <2>1 DEF vars, txVars
  <2>2. ASSUME NEW t \in Threads, TXStep(t) PROVE Named'
    BY <2>2, StepLabels
  <2> QED BY <2>1, <2>2 DEF TXNext, Finished
<1> QED BY <1>1, <1>2, <1>3, TypeInit, TypeNext, PTL DEF TXSpec

-----------------------------------------------------------------------------
(* Locks *)

EndLabels == Validating \cup {"lock", "loadSng", "storeSng", "write", "stamp", "release",
                               "idxAdd", "idxRemove"}

(* The operations of a transaction change no word, lock nothing and end    *)
(* at the first label of TXend at the latest; they leave the write sets    *)
(* and positions of the other threads alone.                               *)
LEMMA OpStepFrame ==
  ASSUME TypeInv, NEW t \in Threads, OpStep(t)
  PROVE  /\ UNCHANGED <<m_version_mask, lockedLNodes, todo, abort, crashed>>
         /\ pc[t] \notin EndLabels
         /\ pc'[t] \in (Labels \ EndLabels) \cup {"lock"}
         /\ \A u \in Threads \ {t} : /\ pc'[u] = pc[u]
                                    /\ writeSet'[u] = writeSet[u]
                                    /\ task'[u] = task[u] /\ pred'[u] = pred[u]
                                    /\ next'[u] = next[u] /\ prev'[u] = prev[u]
<1> USE DEF TypeInv, MemoryTypeOK, LocalsTypeOK, OpTypeOK, StoreTypeOK, lnodeVars, endVars, opVars, storeVars,
            EndLabels, Validating, Labels, Goto
<1>1. CASE TXbegin(t) BY <1>1 DEF TXbegin
<1>2. CASE Call(t) BY <1>2 DEF Call
<1>3. CASE SearchPred(t) BY <1>3 DEF SearchPred
<1>4. CASE CheckVersion(t)
  BY <1>4 DEF CheckVersion, AfterCheck, AbortOp, ClearStorage, ForgetOp
<1>5. CASE CheckSingleton(t)
  BY <1>5 DEF CheckSingleton, AfterCheck
<1>5a. CASE IncrementAndAbort(t)
  BY <1>5a DEF IncrementAndAbort, AbortOp, ClearStorage, ForgetOp
<1>6. CASE SkipDeleted(t) BY <1>6 DEF SkipDeleted
<1>7. CASE ReadNext(t) BY <1>7 DEF ReadNext, AbortOp, ClearStorage, ForgetOp
<1>8. CASE Advance(t) BY <1>8 DEF Advance, Searching
<1>9. CASE PutFound(t) BY <1>9 DEF PutFound, Searching, Return, ForgetOp
<1>10. CASE PutNew(t) BY <1>10 DEF PutNew, Searching, Return, ForgetOp
<1>11. CASE Get(t) BY <1>11 DEF Get, Searching, Return, ForgetOp
<1>12. CASE RemoveAbsent(t) BY <1>12 DEF RemoveAbsent, Searching, Return, ForgetOp
<1>13. CASE RemoveFound(t) BY <1>13 DEF RemoveFound, Searching
<1>14. CASE RemoveFinish(t) BY <1>14 DEF RemoveFinish, Return, ForgetOp
<1> QED
  BY <1>1, <1>2, <1>3, <1>4, <1>5, <1>5a, <1>6, <1>7, <1>8, <1>9, <1>10, <1>11, <1>12, <1>13, <1>14
  DEF OpStep

(* The operations of a transaction respect the locks.                      *)
LEMMA OpStepLock ==
  ASSUME TypeInv, LockInv, NEW t \in Threads, OpStep(t)
  PROVE  LockInv'
<1>1. LockOwnership' /\ AssertionsHold'
  BY OpStepFrame DEF LockInv, LockOwnership, AssertionsHold, isLocked
<1>2. NoSingletons'
  BY OpStepFrame DEF LockInv, NoSingletons, isSingleton, EndLabels, Validating
<1>3. WriteSetLocked'
  BY OpStepFrame DEF LockInv, WriteSetLocked, WriteNodes, EndLabels, Validating
<1>4. LocksInTXend'
  BY OpStepFrame DEF LockInv, LocksInTXend, EndLabels, Validating
<1> QED BY <1>1, <1>2, <1>3, <1>4 DEF LockInv

(* The steps of TXend respect the locks.                                   *)
LEMMA EndStepLock ==
  ASSUME TypeInv, LockInv, NEW t \in Threads, EndStep(t)
  PROVE  LockInv'
<1> USE DEF LockInv, Validating
<1>0. /\ pc = [u \in Threads |-> pc[u]] /\ m_version_mask \in [AllNodes -> Word]
      /\ lockedLNodes \in [Threads -> SUBSET AllNodes] /\ pred \in [Threads -> AllNodes]
      /\ todo \in [Threads -> SUBSET AllNodes]
      /\ writeSet \in [Threads -> [AllNodes -> Element]]
  BY DEF TypeInv, MemoryTypeOK, LNodeTypeOK, LocalsTypeOK, OpTypeOK, StoreTypeOK, EndTypeOK
<1>1. CASE LockNode(t)
  <2>1. PICK n \in WriteNodes(t) \ lockedLNodes[t] :
          IF isLocked(n)
          THEN /\ Goto(t, "release")
               /\ UNCHANGED <<m_version_mask, lockedLNodes>>
          ELSE /\ tryLock(n)
               /\ lockedLNodes' = [lockedLNodes EXCEPT ![t] = @ \cup {n}]
               /\ UNCHANGED pc
    BY <1>1 DEF LockNode
  <2>2. pc[t] = "lock" /\ UNCHANGED <<crashed, writeSet, pred, todo>>
    BY <1>1 DEF LockNode, opVars, storeVars
  <2>3. CASE isLocked(n)
    <3>1. /\ pc' = [pc EXCEPT ![t] = "release"]
          /\ UNCHANGED <<m_version_mask, lockedLNodes>>
      BY <2>1, <2>3 DEF Goto
    <3>2. LockOwnership' /\ AssertionsHold'
      BY <2>2, <3>1 DEF LockOwnership, AssertionsHold, isLocked
    <3>3. NoSingletons' /\ LocksInTXend' /\ WriteSetLocked'
      BY <1>0, <2>2, <3>1 DEF NoSingletons, isSingleton, LocksInTXend, WriteSetLocked, WriteNodes
    <3> QED BY <3>2, <3>3
  <2>4. CASE ~isLocked(n)
    <3>1. /\ m_version_mask' = [m_version_mask EXCEPT ![n] = [m_version_mask[n] EXCEPT !.lock = TRUE]]
          /\ lockedLNodes' = [lockedLNodes EXCEPT ![t] = @ \cup {n}]
          /\ UNCHANGED pc
          /\ n \in AllNodes
      BY <1>0, <2>1, <2>4, tryLockType DEF WriteNodes
    <3>2. m_version_mask'[n].lock = TRUE /\ m_version_mask'[n].sing = m_version_mask[n].sing
      BY <1>0, <3>1 DEF Word
    <3>3. \A m \in AllNodes \ {n} : m_version_mask'[m] = m_version_mask[m]
      BY <1>0, <3>1
    <3>4. LockOwnership'
      BY <1>0, <2>4, <3>1, <3>2, <3>3 DEF LockOwnership, isLocked
    <3>5. NoSingletons' /\ AssertionsHold'
      BY <2>2, <3>1, <3>2, <3>3 DEF NoSingletons, isSingleton, AssertionsHold
    <3>6. WriteSetLocked' /\ LocksInTXend'
      BY <1>0, <2>2, <3>1 DEF WriteSetLocked, WriteNodes, LocksInTXend
    <3> QED BY <3>4, <3>5, <3>6
  <2> QED BY <2>3, <2>4
<1>2. CASE LockedAll(t)
  <2>1. LockOwnership' /\ AssertionsHold'
    BY <1>2 DEF LockedAll, lnodeVars, LockOwnership, AssertionsHold, isLocked
  <2>2. NoSingletons' /\ LocksInTXend'
    BY <1>0, <1>2 DEF LockedAll, Goto, lnodeVars, NoSingletons, isSingleton, LocksInTXend
  <2>3. WriteSetLocked'
    BY <1>0, <1>2 DEF LockedAll, Goto, opVars, storeVars, WriteSetLocked, WriteNodes
  <2> QED BY <2>1, <2>2, <2>3
<1>3. CASE ValidateStep(t)
  <2>1. PICK s \in SUBSET (todo[t] \cup {pred[t]}), n \in todo[t] \cup {pred[t], head},
              l \in Validating \cup {"loadSng", "release"} :
          /\ todo' = [todo EXCEPT ![t] = s] /\ pred' = [pred EXCEPT ![t] = n]
          /\ pc' = [pc EXCEPT ![t] = l]
    BY <1>3, ValidateFrame
  <2>a. pc[t] \in {"validate", "verVal", "sngVal"} /\ l \notin {"bumpVal", "loadSng"}
    <3>1. pc[t] \in Validating \ {"bumpVal"}
      BY <1>3, ValidateFrame DEF NoSingletons
    <3>2. pc'[t] \notin {"bumpVal", "loadSng"}
      BY <1>0, <1>3, <3>1 DEF ValidateStep, Validate, ValidateVersion, ValidateSingleton,
         IncrementAndClear, Goto, NoSingletons
    <3> QED BY <1>0, <2>1, <3>1, <3>2
  <2>2. UNCHANGED <<m_version_mask, lockedLNodes, crashed, writeSet>>
    BY <1>3, ValidateFrame DEF storeVars
  <2>3. LockOwnership' /\ AssertionsHold'
    BY <2>2 DEF LockOwnership, AssertionsHold, isLocked
  <2>4. NoSingletons' /\ LocksInTXend'
    BY <1>0, <2>1, <2>a, <2>2 DEF NoSingletons, isSingleton, LocksInTXend
  <2>5. WriteSetLocked'
    BY <1>0, <2>1, <2>a, <2>2 DEF WriteSetLocked, WriteNodes
  <2> QED BY <2>3, <2>4, <2>5
<1>4. CASE setSingletonLoad(t) \/ setSingletonStore(t)
  BY <1>4 DEF setSingletonLoad, setSingletonStore, NoSingletons
<1>5. CASE TakeVersion(t)
  <2>1. LockOwnership' /\ AssertionsHold'
    BY <1>5 DEF TakeVersion, LockOwnership, AssertionsHold, isLocked
  <2>2. NoSingletons' /\ LocksInTXend'
    BY <1>0, <1>5 DEF TakeVersion, Goto, NoSingletons, isSingleton, LocksInTXend
  <2>3. WriteSetLocked'
    BY <1>0, <1>5 DEF TakeVersion, Goto, opVars, storeVars, WriteSetLocked, WriteNodes
  <2> QED BY <2>1, <2>2, <2>3
<1>6. CASE WriteNode(t)
  <2>1. LockOwnership' /\ AssertionsHold'
    BY <1>6 DEF WriteNode, LockOwnership, AssertionsHold, isLocked
  <2>2. NoSingletons' /\ LocksInTXend'
    BY <1>0, <1>6 DEF WriteNode, Goto, NoSingletons, isSingleton, LocksInTXend
  <2>3. WriteSetLocked'
    BY <1>0, <1>6 DEF WriteNode, Goto, storeVars, WriteSetLocked, WriteNodes
  <2> QED BY <2>1, <2>2, <2>3
<1>7. CASE StampNode(t)
  <2> DEFINE n == pred[t]
             w == [m_version_mask[n] EXCEPT !.ver = writeVersion[t],
                     !.del = @ \/ writeSet[t][n].deleted, !.sing = FALSE]
  <2>1. /\ pc[t] = "stamp" /\ StoreLocked(n, w)
        /\ pc' = [pc EXCEPT ![t] = "write"] /\ pred' = [pred EXCEPT ![t] = head]
        /\ UNCHANGED <<lockedLNodes, writeSet, todo>>
    BY <1>7 DEF StampNode, Goto, storeVars, endVars
  <2>2. n \in AllNodes /\ w.lock = m_version_mask[n].lock /\ w.sing = FALSE
    BY <1>0 DEF Word
  <2>3. isLocked(n)
    BY <1>0, <2>1, <2>2 DEF WriteSetLocked, LockOwnership
  <2> HIDE DEF n, w
  <2>4. m_version_mask' = [m_version_mask EXCEPT ![n] = w] /\ UNCHANGED crashed
    BY <2>1, <2>3 DEF StoreLocked
  <2>5. \A m \in AllNodes : m_version_mask'[m].lock = m_version_mask[m].lock
    BY <1>0, <2>2, <2>4
  <2>6. LockOwnership' /\ AssertionsHold'
    BY <2>1, <2>4, <2>5 DEF LockOwnership, AssertionsHold, isLocked
  <2>7. NoSingletons' /\ LocksInTXend'
    BY <1>0, <2>1, <2>2, <2>4 DEF NoSingletons, isSingleton, LocksInTXend
  <2>8. WriteSetLocked'
    BY <1>0, <2>1 DEF WriteSetLocked, WriteNodes
  <2> QED BY <2>6, <2>7, <2>8
<1>8. CASE ReleaseNode(t)
  <2>1. PICK n \in lockedLNodes[t] :
          unlock(n) /\ lockedLNodes' = [lockedLNodes EXCEPT ![t] = @ \ {n}]
    BY <1>8 DEF ReleaseNode
  <2>2. pc[t] = "release" /\ UNCHANGED <<pc, writeSet, pred, todo>>
    BY <1>8 DEF ReleaseNode, opVars, storeVars
  <2>3. n \in AllNodes /\ isLocked(n)
    BY <1>0 DEF LockOwnership
  <2>4. /\ m_version_mask' = [m_version_mask EXCEPT ![n] = [m_version_mask[n] EXCEPT !.lock = FALSE]]
        /\ UNCHANGED crashed
    BY <2>1, <2>3 DEF unlock, StoreLocked
  <2>5. m_version_mask'[n].lock = FALSE /\ m_version_mask'[n].sing = m_version_mask[n].sing
    BY <1>0, <2>3, <2>4 DEF Word
  <2>6. \A m \in AllNodes \ {n} : m_version_mask'[m] = m_version_mask[m]
    BY <1>0, <2>4
  <2>7. LockOwnership'
    BY <1>0, <2>1, <2>3, <2>5, <2>6 DEF LockOwnership, isLocked
  <2>8. NoSingletons' /\ AssertionsHold'
    BY <2>2, <2>4, <2>5, <2>6 DEF NoSingletons, isSingleton, AssertionsHold
  <2>9. WriteSetLocked' /\ LocksInTXend'
    BY <1>0, <2>1, <2>2 DEF WriteSetLocked, WriteNodes, LocksInTXend
  <2> QED BY <2>7, <2>8, <2>9
<1>9. CASE \/ ValidatedReadOnly(t) \/ WroteAll(t) \/ AbortEnd(t) \/ UpdateIndex(t)
           \/ AddToIndex(t) \/ RemoveFromIndex(t) \/ Commit(t)
  <2>1. /\ UNCHANGED <<m_version_mask, lockedLNodes, crashed>>
        /\ \A u \in Threads \ {t} : /\ pc'[u] = pc[u] /\ writeSet'[u] = writeSet[u]
                                   /\ todo'[u] = todo[u] /\ pred'[u] = pred[u]
    BY <1>0, <1>9 DEF ValidatedReadOnly, WroteAll, AbortEnd, UpdateIndex, AddToIndex, RemoveFromIndex,
                 Commit, ClearStorage, Goto, lnodeVars, opVars, storeVars, endVars
  <2>2. \/ pc'[t] = "release"
        \/ lockedLNodes[t] = {} /\ pc'[t] \in {"idle", "idxAdd", "idxRemove"}
    BY <1>0, <1>9 DEF ValidatedReadOnly, WroteAll, AbortEnd, UpdateIndex, AddToIndex, RemoveFromIndex,
                 Commit, Goto, LocksInTXend
  <2>3. LockOwnership' /\ AssertionsHold'
    BY <2>1 DEF LockOwnership, AssertionsHold, isLocked
  <2>4. NoSingletons' /\ LocksInTXend'
    BY <2>1, <2>2 DEF NoSingletons, isSingleton, LocksInTXend
  <2>5. WriteSetLocked'
    BY <2>1, <2>2 DEF WriteSetLocked, WriteNodes
  <2> QED BY <2>3, <2>4, <2>5
<1> QED BY <1>1, <1>2, <1>3, <1>4, <1>5, <1>6, <1>7, <1>8, <1>9 DEF EndStep, ValidateStep

(* Nothing is locked at first.                                             *)
LEMMA LockInit == TXInit => LockInv
<1> SUFFICES ASSUME TXInit PROVE LockInv
  OBVIOUS
<1>1. \A n \in AllNodes : ~m_version_mask[n].lock /\ ~m_version_mask[n].sing
  BY DEF TXInit, LNodeInit, FreshWord
<1>2. LockOwnership /\ NoSingletons
  BY <1>1 DEF TXInit, LockOwnership, NoSingletons, isLocked, isSingleton
<1>3. WriteSetLocked /\ LocksInTXend /\ AssertionsHold
  BY DEF TXInit, LNodeInit, WriteSetLocked, LocksInTXend, AssertionsHold, Validating
<1> QED BY <1>2, <1>3 DEF LockInv

(* Every step respects the locks.                                          *)
LEMMA LockNext == TypeInv /\ LockInv /\ [TXNext]_vars => LockInv'
<1> SUFFICES ASSUME TypeInv, LockInv, [TXNext]_vars PROVE LockInv'
  OBVIOUS
<1>1. ASSUME NEW t \in Threads, TXStep(t) PROVE LockInv'
  BY <1>1, OpStepLock, EndStepLock DEF TXStep
<1>2. CASE UNCHANGED vars
  BY <1>2 DEF vars, txVars, lnodeVars, opVars, storeVars, endVars, LockInv, LockOwnership,
         NoSingletons, WriteSetLocked, LocksInTXend, AssertionsHold, WriteNodes, isLocked, isSingleton
<1> QED BY <1>1, <1>2 DEF TXNext, Finished

(* Mutual exclusion: the lock bit of a node is set exactly while one       *)
(* thread is between its tryLock and its unlock, so no lock is lost, held  *)
(* twice, or leaked by an abort.                                           *)
THEOREM LockSafety == TXSpec => []LockOwnership
<1>1. LockInv => LockOwnership BY DEF LockInv
<1> QED BY <1>1, TypeInit, TypeNext, LockInit, LockNext, PTL DEF TXSpec

(* No assertion of LNode.h fails in a program that only uses transactions. *)
THEOREM NoFailedAssertion == TXSpec => []AssertionsHold
<1>1. LockInv => AssertionsHold BY DEF LockInv
<1> QED BY <1>1, TypeInit, TypeNext, LockInit, LockNext, PTL DEF TXSpec

-----------------------------------------------------------------------------
(* The clock *)

(* What the steps that take no version do to versions: nothing, while the  *)
(* clock may move on.                                                      *)
LEMMA ClockFrame ==
  ASSUME TypeInv, ClockInv, NEW t \in Threads,
         gvc' \in Nat, gvc <= gvc',
         \A n \in AllNodes : getVersion(n)' = getVersion(n),
         \A u \in Threads : /\ readVersion'[u] \in {readVersion[u], gvc, 0}
                            /\ writeVersion'[u] \in {writeVersion[u], 0}
                            /\ pc'[u] \in {"write", "stamp"} =>
                                 /\ pc[u] \in {"write", "stamp"}
                                 /\ readVersion'[u] = readVersion[u]
                                 /\ writeVersion'[u] = writeVersion[u]
                                 /\ lockedLNodes'[u] \subseteq lockedLNodes[u]
  PROVE  ClockInv'
<1>0. /\ gvc \in Nat /\ m_version_mask \in [AllNodes -> Word]
      /\ readVersion \in [Threads -> Nat] /\ writeVersion \in [Threads -> Nat]
      /\ lockedLNodes \in [Threads -> SUBSET AllNodes]
  BY DEF TypeInv, MemoryTypeOK, LNodeTypeOK, LocalsTypeOK, EndTypeOK
<1>1. \A n \in AllNodes : getVersion(n) \in Nat
  BY <1>0 DEF getVersion, Word
<1>2. ClockBound'
  BY <1>0, <1>1 DEF ClockInv, ClockBound
<1>3. WriteVersionNew'
  BY <1>0, <1>1 DEF ClockInv, WriteVersionNew
<1> QED BY <1>2, <1>3 DEF ClockInv

(* No step puts a version ahead of the clock.                              *)
LEMMA StepClock ==
  ASSUME TypeInv, LockInv, ClockInv, NEW t \in Threads, TXStep(t)
  PROVE  ClockInv'
<1>0. /\ gvc \in Nat /\ m_version_mask \in [AllNodes -> Word] /\ pc = [u \in Threads |-> pc[u]]
      /\ readVersion \in [Threads -> Nat] /\ writeVersion \in [Threads -> Nat]
      /\ lockedLNodes \in [Threads -> SUBSET AllNodes] /\ pred \in [Threads -> AllNodes]
      /\ todo \in [Threads -> SUBSET AllNodes]
  BY DEF TypeInv, MemoryTypeOK, LNodeTypeOK, LocalsTypeOK, OpTypeOK, EndTypeOK
<1>1. CASE OpStep(t)
  <2>1. /\ UNCHANGED <<m_version_mask, lockedLNodes>>
        /\ pc'[t] \notin {"write", "stamp"}
        /\ \A u \in Threads \ {t} : pc'[u] = pc[u]
    BY <1>1, OpStepFrame DEF EndLabels, Validating
  <2> DEFINE Goal == /\ gvc' \in Nat /\ gvc <= gvc'
                     /\ \A u \in Threads \ {t} : /\ readVersion'[u] = readVersion[u]
                                                   /\ writeVersion'[u] = writeVersion[u]
                     /\ readVersion'[t] \in {readVersion[t], gvc, 0}
                     /\ writeVersion'[t] \in {writeVersion[t], 0}
  <2>2. ASSUME UNCHANGED <<gvc, readVersion, writeVersion>> PROVE Goal
    BY <1>0, <2>2
  <2>3. ASSUME AbortOp(t), gvc' \in {gvc, gvc + 1} PROVE Goal
    BY <1>0, <2>3 DEF AbortOp, ClearStorage
  <2>4. ASSUME TXbegin(t) PROVE Goal
    BY <1>0, <2>4 DEF TXbegin, lnodeVars
  <2>5. ASSUME CheckVersion(t) PROVE Goal
    BY <2>2, <2>3, <2>5 DEF CheckVersion, lnodeVars, versVars
  <2>6. ASSUME CheckSingleton(t) PROVE Goal
    BY <2>2, <2>6 DEF CheckSingleton, lnodeVars, versVars
  <2>6a. ASSUME IncrementAndAbort(t) PROVE Goal
    BY <2>3, <2>6a DEF IncrementAndAbort
  <2>7. ASSUME ReadNext(t) PROVE Goal
    BY <2>2, <2>3, <2>7 DEF ReadNext, lnodeVars, versVars
  <2>8. ASSUME Call(t) PROVE Goal
    BY <2>2, <2>8 DEF Call, lnodeVars
  <2>9. ASSUME SearchPred(t) \/ SkipDeleted(t) \/ Advance(t) \/ RemoveFound(t) PROVE Goal
    BY <2>2, <2>9 DEF SearchPred, SkipDeleted, Advance, RemoveFound, lnodeVars, versVars
  <2>10. ASSUME PutFound(t) \/ PutNew(t) \/ Get(t) \/ RemoveAbsent(t) \/ RemoveFinish(t) PROVE Goal
    BY <2>2, <2>10 DEF PutFound, PutNew, Get, RemoveAbsent, RemoveFinish, lnodeVars, versVars
  <2>11. Goal
    BY <1>1, <2>4, <2>5, <2>6, <2>6a, <2>7, <2>8, <2>9, <2>10 DEF OpStep
  <2> QED BY <2>1, <2>11, ClockFrame DEF getVersion
<1>2. CASE LockNode(t)
  <2>1. \A n \in AllNodes : getVersion(n)' = getVersion(n)
    BY <1>0, <1>2 DEF LockNode, tryLock, getVersion, Word
  <2>2. /\ UNCHANGED <<gvc, readVersion, writeVersion>>
        /\ pc'[t] \notin {"write", "stamp"}
        /\ \A u \in Threads \ {t} : pc'[u] = pc[u] /\ lockedLNodes'[u] = lockedLNodes[u]
    BY <1>0, <1>2 DEF LockNode, Goto, versVars
  <2> QED BY <1>0, <2>1, <2>2, ClockFrame
<1>3. CASE ReleaseNode(t)
  <2>0. PICK n \in lockedLNodes[t] : unlock(n)
    BY <1>3 DEF ReleaseNode
  <2>a. n \in AllNodes /\ isLocked(n)
    BY <1>0 DEF LockInv, LockOwnership
  <2>b. m_version_mask' = [m_version_mask EXCEPT ![n] = [m_version_mask[n] EXCEPT !.lock = FALSE]]
    BY <2>0, <2>a DEF unlock, StoreLocked
  <2>1. \A m \in AllNodes : getVersion(m)' = getVersion(m)
    BY <1>0, <2>a, <2>b DEF getVersion, Word
  <2>2. /\ UNCHANGED <<gvc, readVersion, writeVersion, pc>>
        /\ \A u \in Threads : lockedLNodes'[u] \subseteq lockedLNodes[u]
    BY <1>0, <1>3 DEF ReleaseNode, versVars
  <2> QED BY <1>0, <2>1, <2>2, ClockFrame
<1>4. CASE TakeVersion(t)
  <2>1. /\ gvc' = gvc + 1 /\ UNCHANGED <<m_version_mask, readVersion, lockedLNodes>>
        /\ writeVersion' = [writeVersion EXCEPT ![t] = gvc + 1]
        /\ pc' = [pc EXCEPT ![t] = "write"]
    BY <1>4 DEF TakeVersion, Goto
  <2>2. \A n \in AllNodes : getVersion(n) \in Nat /\ getVersion(n)' = getVersion(n)
    BY <1>0, <2>1 DEF getVersion, Word
  <2>3. ClockBound'
    BY <1>0, <2>1, <2>2 DEF ClockInv, ClockBound
  <2>4. WriteVersionNew'
    BY <1>0, <2>1, <2>2 DEF ClockInv, ClockBound, WriteVersionNew
  <2> QED BY <2>3, <2>4 DEF ClockInv
<1>5. CASE StampNode(t)
  <2> DEFINE n == pred[t]
             w == [m_version_mask[n] EXCEPT !.ver = writeVersion[t],
                     !.del = @ \/ writeSet[t][n].deleted, !.sing = FALSE]
  <2>1. /\ pc[t] = "stamp" /\ StoreLocked(n, w)
        /\ pc' = [pc EXCEPT ![t] = "write"]
        /\ UNCHANGED <<gvc, readVersion, writeVersion, lockedLNodes>>
    BY <1>5 DEF StampNode, Goto, versVars, endVars
  <2>2. n \in AllNodes /\ w.ver = writeVersion[t]
    BY <1>0 DEF Word
  <2>3. \A u \in Threads \ {t} : n \notin lockedLNodes[u]
    BY <2>1 DEF LockInv, WriteSetLocked, LockOwnership
  <2>a. isLocked(n) /\ n \in lockedLNodes[t]
    BY <1>0, <2>1, <2>2 DEF LockInv, WriteSetLocked, LockOwnership
  <2> HIDE DEF n, w
  <2>b. m_version_mask' = [m_version_mask EXCEPT ![n] = w]
    BY <2>1, <2>a DEF StoreLocked
  <2>4. \A m \in AllNodes :
          \/ m_version_mask'[m].ver = m_version_mask[m].ver
          \/ m = n /\ m_version_mask'[m].ver = writeVersion[t]
    BY <1>0, <2>b, <2>2
  <2>5. \A m \in AllNodes : m_version_mask[m].ver \in Nat
    BY <1>0 DEF Word
  <2>6. ClockBound'
    BY <1>0, <2>1, <2>2, <2>4, <2>5 DEF ClockInv, ClockBound, WriteVersionNew, getVersion
  <2>7. WriteVersionNew'
    BY <1>0, <2>1, <2>2, <2>3, <2>4, <2>5 DEF ClockInv, WriteVersionNew, getVersion
  <2> QED BY <2>6, <2>7 DEF ClockInv
<1>6a. CASE ValidateStep(t)
  <2>1. /\ UNCHANGED <<m_version_mask, lockedLNodes, readVersion, writeVersion>>
        /\ gvc' \in Nat /\ gvc <= gvc'
    BY <1>0, <1>6a, ValidateFrame DEF versVars
  <2>2. pc'[t] \notin {"write", "stamp"} /\ \A u \in Threads \ {t} : pc'[u] = pc[u]
    BY <1>0, <1>6a, ValidateFrame DEF Validating
  <2> QED BY <2>1, <2>2, ClockFrame DEF getVersion
<1>6. CASE \/ LockedAll(t) \/ ValidatedReadOnly(t) \/ WriteNode(t) \/ WroteAll(t)
           \/ AbortEnd(t) \/ UpdateIndex(t) \/ AddToIndex(t) \/ RemoveFromIndex(t) \/ Commit(t)
  <2>1. UNCHANGED <<m_version_mask, lockedLNodes>> /\ gvc' \in Nat /\ gvc <= gvc'
    BY <1>0, <1>6 DEF LockedAll, ValidatedReadOnly, WriteNode, WroteAll, AbortEnd, UpdateIndex,
             AddToIndex, RemoveFromIndex, Commit, lnodeVars, endVars
  <2>2. \A u \in Threads \ {t} : /\ pc'[u] = pc[u] /\ readVersion'[u] = readVersion[u]
                                /\ writeVersion'[u] = writeVersion[u]
    BY <1>0, <1>6 DEF LockedAll, ValidatedReadOnly, WriteNode, WroteAll, AbortEnd, UpdateIndex,
             AddToIndex, RemoveFromIndex, Commit, ClearStorage, Goto, versVars
  <2>3. /\ readVersion'[t] \in {readVersion[t], 0} /\ writeVersion'[t] \in {writeVersion[t], 0}
        /\ pc'[t] \in {"write", "stamp"} => /\ pc[t] \in {"write", "stamp"}
                                            /\ readVersion'[t] = readVersion[t]
                                            /\ writeVersion'[t] = writeVersion[t]
    BY <1>0, <1>6 DEF LockedAll, ValidatedReadOnly, WriteNode, WroteAll, AbortEnd, UpdateIndex,
             AddToIndex, RemoveFromIndex, Commit, ClearStorage, Goto, versVars
  <2> QED BY <2>1, <2>2, <2>3, ClockFrame DEF getVersion
<1>7. CASE setSingletonLoad(t) \/ setSingletonStore(t)
  BY <1>7 DEF setSingletonLoad, setSingletonStore, LockInv, NoSingletons
<1> QED BY <1>1, <1>2, <1>3, <1>4, <1>5, <1>6, <1>6a, <1>7 DEF TXStep, EndStep, ValidateStep

(* The list starts with the version the preloading transaction took.       *)
LEMMA ClockInit == TXInit => ClockInv
<1> SUFFICES ASSUME TXInit PROVE ClockInv
  OBVIOUS
<1>0. gvc \in Nat /\ \A n \in AllNodes : m_version_mask[n].ver \in {0, gvc}
  BY DEF TXInit, LNodeInit, FreshWord
<1>1. gvc \in Nat /\ \A n \in AllNodes : getVersion(n) <= gvc
  BY <1>0 DEF getVersion
<1>2. \A t \in Threads : readVersion[t] = 0 /\ writeVersion[t] = 0 /\ pc[t] = "idle"
  BY DEF TXInit
<1> QED BY <1>1, <1>2 DEF ClockInv, ClockBound, WriteVersionNew

(* Every step of every thread keeps versions within the clock.             *)
LEMMA ClockNext == TypeInv /\ LockInv /\ ClockInv /\ [TXNext]_vars => ClockInv'
<1> SUFFICES ASSUME TypeInv, LockInv, ClockInv, [TXNext]_vars PROVE ClockInv'
  OBVIOUS
<1>1. ASSUME NEW t \in Threads, TXStep(t) PROVE ClockInv'
  BY <1>1, StepClock
<1>2. CASE UNCHANGED vars
  BY <1>2 DEF vars, txVars, lnodeVars, versVars, endVars, ClockInv, ClockBound, WriteVersionNew, getVersion
<1> QED BY <1>1, <1>2 DEF TXNext, Finished

(* No version in the heap and no snapshot is ahead of the global clock,    *)
(* and a transaction writes back with a version newer than its snapshot.   *)
THEOREM ClockSafety == TXSpec => []ClockBound
<1>1. ClockInv => ClockBound BY DEF ClockInv
<1> QED BY <1>1, TypeInit, TypeNext, LockInit, LockNext, ClockInit, ClockNext, PTL DEF TXSpec

-----------------------------------------------------------------------------
(* Nodes only change under their lock *)

(* An operation changes no node but the one put allocates.                 *)
LEMMA OpStepHeap ==
  ASSUME NEW t \in Threads, OpStep(t)
  PROVE  PutNew(t) \/ UNCHANGED <<m_key, m_val, m_next>>
<1> USE DEF lnodeVars, nodeVars
<1>1. CASE CheckVersion(t) \/ CheckSingleton(t) \/ IncrementAndAbort(t) \/ ReadNext(t)
  BY <1>1 DEF CheckVersion, CheckSingleton, IncrementAndAbort, ReadNext, AbortOp
<1>2. CASE TXbegin(t) \/ Call(t) \/ SearchPred(t) \/ SkipDeleted(t) \/ Advance(t) \/ RemoveFound(t)
  BY <1>2 DEF TXbegin, Call, SearchPred, SkipDeleted, Advance, RemoveFound
<1>3. CASE PutFound(t) \/ Get(t) \/ RemoveAbsent(t) \/ RemoveFinish(t)
  BY <1>3 DEF PutFound, Get, RemoveAbsent, RemoveFinish
<1> QED BY <1>1, <1>2, <1>3 DEF OpStep

(* Each step of a thread leaves the nodes locked by others alone.          *)
LEMMA StepStable ==
  ASSUME TypeInv, LockInv, ClockInv, NEW t \in Threads, TXStep(t)
  PROVE  NodeStep
<1>0. /\ m_version_mask \in [AllNodes -> Word] /\ allocated \subseteq AllNodes
      /\ m_next \in [AllNodes -> NodeOrNull] /\ m_val \in [AllNodes -> ValOrNone]
      /\ lockedLNodes \in [Threads -> SUBSET AllNodes] /\ pred \in [Threads -> AllNodes]
      /\ todo \in [Threads -> SUBSET AllNodes]
  BY DEF TypeInv, MemoryTypeOK, LNodeTypeOK, LocalsTypeOK, OpTypeOK, EndTypeOK
<1>a. \A n \in AllNodes : m_version_mask[n].ver \in Nat /\ m_version_mask[n].ver <= m_version_mask[n].ver
  BY <1>0 DEF Word
<1>b. ASSUME UNCHANGED <<m_key, m_version_mask>>,
             \A n \in allocated : isLocked(n) \/ (m_next'[n] = m_next[n] /\ m_val'[n] = m_val[n])
      PROVE  NodeStep
  BY <1>0, <1>a, <1>b DEF NodeStep, getVersion, isDeleted
<1>c. ASSUME UNCHANGED <<m_key, m_val, m_next>>, NEW n \in AllNodes, NEW w \in Word,
             m_version_mask' = [m_version_mask EXCEPT ![n] = w],
             w.ver = m_version_mask[n].ver, w.del = m_version_mask[n].del
      PROVE  NodeStep
  <2>1. \A m \in AllNodes : /\ m_version_mask'[m].ver = m_version_mask[m].ver
                            /\ m_version_mask'[m].del = m_version_mask[m].del
    BY <1>0, <1>c
  <2> QED BY <1>0, <1>a, <1>c, <2>1 DEF NodeStep, getVersion, isDeleted
<1>1. CASE OpStep(t)
  <2>1. UNCHANGED m_version_mask
    BY <1>1, OpStepFrame
  <2>2. CASE UNCHANGED <<m_key, m_val, m_next>>
    BY <1>b, <2>1, <2>2
  <2>3. CASE PutNew(t)
    <3>1. \A n \in allocated : m_next'[n] = m_next[n] /\ m_val'[n] = m_val[n] /\ m_key'[n] = m_key[n]
      BY <2>3 DEF PutNew, TypeInv, MemoryTypeOK, LNodeTypeOK
    <3> QED BY <1>0, <1>a, <2>1, <3>1 DEF NodeStep, getVersion, isDeleted
  <2> QED BY <1>1, <2>2, <2>3, OpStepHeap
<1>2. CASE LockNode(t)
  <2>1. PICK n \in AllNodes : UNCHANGED m_version_mask \/ tryLock(n)
    BY <1>2 DEF LockNode, WriteNodes
  <2>2. UNCHANGED <<m_key, m_val, m_next>>
    BY <1>2 DEF LockNode, nodeVars
  <2>3. CASE UNCHANGED m_version_mask
    BY <1>b, <2>2, <2>3
  <2>4. CASE tryLock(n)
    <3> DEFINE w == [m_version_mask[n] EXCEPT !.lock = TRUE]
    <3>1. m_version_mask' = [m_version_mask EXCEPT ![n] = w]
      BY <1>0, <2>4, tryLockType
    <3>2. w \in Word /\ w.ver = m_version_mask[n].ver /\ w.del = m_version_mask[n].del
      BY <1>0 DEF Word
    <3> QED BY <1>c, <2>2, <3>1, <3>2
  <2> QED BY <2>1, <2>3, <2>4
<1>3. CASE ReleaseNode(t)
  <2>1. PICK n \in lockedLNodes[t] : unlock(n)
    BY <1>3 DEF ReleaseNode
  <2> DEFINE w == [m_version_mask[n] EXCEPT !.lock = FALSE]
  <2>2. n \in AllNodes /\ isLocked(n)
    BY <1>0 DEF LockInv, LockOwnership
  <2>3. m_version_mask' = [m_version_mask EXCEPT ![n] = w]
    BY <2>1, <2>2 DEF unlock, StoreLocked
  <2>4. w \in Word /\ w.ver = m_version_mask[n].ver /\ w.del = m_version_mask[n].del
    BY <1>0, <2>2 DEF Word
  <2>5. UNCHANGED <<m_key, m_val, m_next>>
    BY <1>3 DEF ReleaseNode, nodeVars
  <2> QED BY <1>c, <2>2, <2>3, <2>4, <2>5
<1>4. CASE WriteNode(t)
  <2>1. PICK n \in todo[t] : /\ m_next' = [m_next EXCEPT ![n] = writeSet[t][n].next]
                             /\ m_val' = [m_val EXCEPT ![n] = writeSet[t][n].val]
    BY <1>4 DEF WriteNode
  <2>2. UNCHANGED <<m_key, m_version_mask>> /\ pc[t] = "write"
    BY <1>4 DEF WriteNode
  <2>3. n \in AllNodes /\ isLocked(n)
    BY <1>0, <2>2 DEF LockInv, LockOwnership, WriteSetLocked
  <2>4. \A m \in AllNodes \ {n} : m_next'[m] = m_next[m] /\ m_val'[m] = m_val[m]
    BY <1>0, <2>1
  <2> QED BY <1>0, <1>b, <2>2, <2>3, <2>4
<1>5. CASE StampNode(t)
  <2> DEFINE n == pred[t]
             w == [m_version_mask[n] EXCEPT !.ver = writeVersion[t],
                     !.del = @ \/ writeSet[t][n].deleted, !.sing = FALSE]
  <2>1. /\ pc[t] = "stamp" /\ StoreLocked(n, w) /\ UNCHANGED <<m_key, m_next>>
        /\ m_val' = [m_val EXCEPT ![n] = IF writeSet[t][n].deleted THEN NoVal ELSE @]
    BY <1>5 DEF StampNode
  <2>2. n \in AllNodes /\ w.ver = writeVersion[t] /\ (m_version_mask[n].del => w.del)
    BY <1>0 DEF Word
  <2>3. n \in lockedLNodes[t] /\ isLocked(n)
    BY <1>0, <2>1, <2>2 DEF LockInv, WriteSetLocked, LockOwnership
  <2>4. m_version_mask[n].ver <= writeVersion[t]
    BY <2>1, <2>3 DEF ClockInv, WriteVersionNew, getVersion
  <2> HIDE DEF n, w
  <2>5. m_version_mask' = [m_version_mask EXCEPT ![n] = w]
    BY <2>1, <2>3 DEF StoreLocked
  <2>6. \A m \in AllNodes \ {n} : m_version_mask'[m] = m_version_mask[m] /\ m_val'[m] = m_val[m]
    BY <1>0, <2>1, <2>5
  <2>7. m_version_mask'[n] = w
    BY <1>0, <2>2, <2>5
  <2> QED BY <1>0, <1>a, <2>1, <2>2, <2>3, <2>4, <2>6, <2>7 DEF NodeStep, getVersion, isDeleted
<1>6a. CASE ValidateStep(t)
  <2>1. UNCHANGED <<m_key, m_val, m_next, m_version_mask>>
    BY <1>6a, ValidateFrame DEF nodeVars
  <2> QED BY <1>b, <2>1
<1>6. CASE \/ LockedAll(t) \/ ValidatedReadOnly(t) \/ TakeVersion(t) \/ WroteAll(t)
           \/ AbortEnd(t) \/ UpdateIndex(t) \/ AddToIndex(t) \/ RemoveFromIndex(t) \/ Commit(t)
  <2>1. UNCHANGED <<m_key, m_val, m_next, m_version_mask>>
    BY <1>6 DEF LockedAll, ValidatedReadOnly, TakeVersion, WroteAll, AbortEnd, UpdateIndex,
           AddToIndex, RemoveFromIndex, Commit, lnodeVars, nodeVars
  <2> QED BY <1>b, <2>1
<1>7. CASE setSingletonLoad(t) \/ setSingletonStore(t)
  BY <1>7 DEF setSingletonLoad, setSingletonStore, LockInv, NoSingletons
<1> QED BY <1>1, <1>2, <1>3, <1>4, <1>5, <1>6, <1>6a, <1>7 DEF TXStep, EndStep, ValidateStep

(* Isolation of the heap: a node that is not locked does not change under  *)
(* a reader, versions never go back, and a deletion is final.              *)
THEOREM HeapStable == TXSpec => NodeStable
<1>1. TypeInv /\ LockInv /\ ClockInv /\ [TXNext]_vars => [NodeStep]_vars
  BY StepStable DEF TXNext, Finished
<1> QED
  BY <1>1, TypeInit, TypeNext, LockInit, LockNext, ClockInit, ClockNext, PTL DEF TXSpec, NodeStable

-----------------------------------------------------------------------------
(* The order of the list *)

(* A step of t that changes no key and no local variable of another thread *)
(* has to answer for the links it writes and for its own search.           *)
LEMMA OrderFrame ==
  ASSUME TypeInv, OrderInv, NEW t \in Threads, UNCHANGED m_key,
         \A n \in AllNodes : m_next'[n] = m_next[n] \/ Ascending(n, m_next'[n]),
         \A u \in Threads \ {t} : /\ pc'[u] = pc[u] /\ writeSet'[u] = writeSet[u]
                                  /\ task'[u] = task[u] /\ pred'[u] = pred[u]
                                  /\ next'[u] = next[u] /\ prev'[u] = prev[u],
         WriteOrdered(t)', SearchOrdered(t)'
  PROVE  OrderInv'
<1>1. \A n \in AllNodes : Ascending(n, m_next[n])'
  BY DEF OrderInv, Ascending, Before
<1>2. (m_key[head] = HeadKey)'
  BY DEF OrderInv, HeadKey
<1>3. \A u \in Threads \ {t} : WriteOrdered(u)'
  BY DEF OrderInv, WriteOrdered, Ascending, Before
<1>4. \A u \in Threads \ {t} : SearchOrdered(u)'
  BY DEF OrderInv, SearchOrdered, Ascending, Before
<1> QED BY <1>1, <1>2, <1>3, <1>4 DEF OrderInv

(* Outside a search nothing is claimed about the search.                   *)
LEMMA NotSearching ==
  ASSUME NEW t \in Threads, pc'[t] \notin PredFound, prev'[t] = Null
  PROVE  SearchOrdered(t)'
BY DEF SearchOrdered, PredFound, NextRead

(* prev is only set in the second half of remove.                          *)
LEMMA PrevNull ==
  ASSUME OrderInv, NEW t \in Threads, pc[t] \notin {"read", "bump"} \cup NextRead
  PROVE  prev[t] = Null
BY DEF OrderInv, SearchOrdered

(* The link a transaction sees, through its write set, is ascending.       *)
LEMMA nextOfAscending ==
  ASSUME OrderInv, NEW t \in Threads, NEW n \in AllNodes
  PROVE  Ascending(n, nextOf(t, n))
BY DEF OrderInv, WriteOrdered, nextOf

(* An operation that throws has stopped searching and forgot what it meant *)
(* to write.                                                               *)
LEMMA AbortOpOrder ==
  ASSUME TypeInv, OrderInv, NEW t \in Threads, AbortOp(t)
  PROVE  WriteOrdered(t)' /\ SearchOrdered(t)'
<1>0. /\ pc = [u \in Threads |-> pc[u]] /\ prev \in [Threads -> NodeOrNull]
      /\ writeSet \in [Threads -> [AllNodes -> Element]]
  BY DEF TypeInv, MemoryTypeOK, LocalsTypeOK, OpTypeOK, StoreTypeOK
<1>1. pc'[t] = "idle" /\ prev'[t] = Null /\ writeSet'[t] = EmptyWriteSet
  BY <1>0 DEF AbortOp, Goto, ForgetOp, ClearStorage
<1>2. SearchOrdered(t)'
  BY <1>1, NotSearching DEF PredFound, NextRead
<1>3. WriteOrdered(t)'
  BY <1>1 DEF WriteOrdered, EmptyWriteSet, NoElement
<1> QED BY <1>2, <1>3

(* An operation that returns has stopped searching.                        *)
LEMMA ReturnOrder ==
  ASSUME TypeInv, NEW t \in Threads, NEW r, Return(t, r)
  PROVE  SearchOrdered(t)'
<1>0. pc = [u \in Threads |-> pc[u]] /\ prev \in [Threads -> NodeOrNull]
  BY DEF TypeInv, MemoryTypeOK, LocalsTypeOK, OpTypeOK
<1>1. pc'[t] \in {"lock", "call"} /\ prev'[t] = Null
  BY <1>0 DEF Return, Goto, ForgetOp
<1> QED BY <1>1, NotSearching DEF PredFound, NextRead

(* A node of the index that getPred may return comes before the key.       *)
LEMMA getPredBefore ==
  ASSUME NEW k, NEW n \in getPred(k)
  PROVE  Before(n, k)
BY DEF getPred, Before

(* A step of an operation that allocates nothing keeps the order.          *)
LEMMA OpStepOrder ==
  ASSUME TypeInv, OrderInv, NEW t \in Threads, OpStep(t), ~PutNew(t)
  PROVE  WriteOrdered(t)' /\ SearchOrdered(t)'
<1>0. /\ pc = [u \in Threads |-> pc[u]] /\ task \in [Threads -> Task \cup {NoTask}]
      /\ pred \in [Threads -> AllNodes] /\ next \in [Threads -> NodeOrNull]
      /\ prev \in [Threads -> NodeOrNull] /\ m_key \in [AllNodes -> Nat]
      /\ writeSet \in [Threads -> [AllNodes -> Element]]
      /\ task[t].key \in Nat
  BY TaskFields DEF TypeInv, MemoryTypeOK, LNodeTypeOK, LocalsTypeOK, OpTypeOK, StoreTypeOK
<1>a. WriteOrdered(t) /\ SearchOrdered(t)
  BY DEF OrderInv
<1>d. UNCHANGED <<m_key, m_next>>
  BY OpStepHeap
<1>b. ASSUME writeSet' = writeSet PROVE WriteOrdered(t)'
  BY <1>a, <1>b, <1>d DEF WriteOrdered, Ascending, Before
<1>c. Null \notin AllNodes /\ head \in AllNodes
  BY NodesAssumption DEF AllNodes
<1>1. CASE TXbegin(t) \/ Call(t)
  <2>1. writeSet' = writeSet /\ prev' = prev /\ pc'[t] \in {"call", "search"} /\ pc[t] \in {"idle", "call"}
    BY <1>0, <1>1 DEF TXbegin, Call, Goto, opVars, storeVars
  <2>2. prev'[t] = Null
    BY <2>1, PrevNull DEF NextRead
  <2> QED BY <1>b, <2>1, <2>2, NotSearching DEF PredFound, NextRead
<1>2. CASE SearchPred(t)
  <2>1. PICK n \in getPred(task[t].key) : pred' = [pred EXCEPT ![t] = n]
    BY <1>2 DEF SearchPred
  <2>2. /\ pc[t] = "search" /\ pc' = [pc EXCEPT ![t] = "chkPred"]
        /\ UNCHANGED <<writeSet, task, next, prev>>
    BY <1>2 DEF SearchPred, Goto, storeVars
  <2>3. Before(n, task[t].key)
    BY getPredBefore
  <2>4. SearchOrdered(t)'
    BY <1>0, <2>1, <2>2, <2>3, PrevNull, <1>d DEF SearchOrdered, NextRead, Before
  <2> QED BY <1>b, <2>2, <2>4
<1>2a. CASE CheckSingleton(t) /\ pc'[t] = "bump"
  <2>1. pc[t] \in PredFound /\ UNCHANGED <<task, pred, next, prev, writeSet>>
    BY <1>2a DEF CheckSingleton, opVars, storeVars, PredFound, NextRead
  <2>2. SearchOrdered(t)'
    BY <1>0, <1>a, <1>2a, <2>1, <1>d DEF SearchOrdered, PredFound, NextRead, Ascending, Before
  <2> QED BY <1>b, <2>1, <2>2
<1>2b. CASE IncrementAndAbort(t)
  BY <1>2b, AbortOpOrder DEF IncrementAndAbort
<1>3. CASE CheckVersion(t) \/ (CheckSingleton(t) /\ pc'[t] # "bump")
  <2>1. CASE AbortOp(t)
    BY <2>1, AbortOpOrder
  <2>2. CASE ~AbortOp(t)
    <3>1. /\ pc[t] \in {"chkPred", "chkCur", "chkNext", "sngPred", "sngCur", "sngNext"}
          /\ pc' = [pc EXCEPT ![t] = AfterCheck(t)]
          /\ UNCHANGED <<task, pred, next, prev, writeSet>>
      BY <1>0, <1>3, <2>2 DEF CheckVersion, CheckSingleton, Goto, opVars, storeVars
    <3>2. /\ AfterCheck(t) \in {"sngPred", "delPred"} => pc[t] \in {"chkPred", "sngPred"}
          /\ AfterCheck(t) \in {"sngCur", "cmp", "chkNext", "sngNext"} => pc[t] \in NextRead
          /\ AfterCheck(t) \in {"sngPred", "delPred", "sngCur", "cmp", "chkNext", "sngNext"}
      BY <3>1 DEF AfterCheck, NextRead
    <3>3. SearchOrdered(t)'
      BY <1>0, <1>a, <3>1, <3>2, <1>d DEF SearchOrdered, PredFound, NextRead, Ascending, Before
    <3> QED BY <1>b, <3>1, <3>3
  <2> QED BY <2>1, <2>2
<1>4. CASE SkipDeleted(t)
  <2>1. /\ pc[t] = "delPred" /\ UNCHANGED <<task, next, prev, writeSet>> /\ prev[t] = Null
    BY <1>4, PrevNull DEF SkipDeleted, storeVars, NextRead
  <2>2. Before(pred[t], task[t].key)
    BY <1>a, <2>1 DEF SearchOrdered, PredFound
  <2>3. CASE \E n \in getPred(m_key[pred[t]]) : pred' = [pred EXCEPT ![t] = n] /\ pc' = [pc EXCEPT ![t] = "chkPred"]
    <3>1. PICK n \in getPred(m_key[pred[t]]) :
            pred' = [pred EXCEPT ![t] = n] /\ pc' = [pc EXCEPT ![t] = "chkPred"]
      BY <2>3
    <3>2. Before(n, m_key[pred[t]]) /\ (n = head \/ n \in AllNodes)
      BY getPredBefore DEF getPred, TypeInv, MemoryTypeOK, LNodeTypeOK
    <3>3. Before(n, task[t].key)
      BY <1>0, <1>c, <2>2, <3>2 DEF Before, OrderInv, HeadKey
    <3>4. SearchOrdered(t)'
      BY <1>0, <2>1, <3>1, <3>3, <1>d DEF SearchOrdered, NextRead, Before
    <3> QED BY <1>b, <2>1, <3>4
  <2>4. CASE pc' = [pc EXCEPT ![t] = "read"] /\ UNCHANGED pred
    <3>1. SearchOrdered(t)'
      BY <1>0, <2>1, <2>2, <2>4, <1>d DEF SearchOrdered, NextRead, Before
    <3> QED BY <1>b, <2>1, <3>1
  <2> QED BY <1>4, <2>3, <2>4 DEF SkipDeleted, Goto
<1>5. CASE ReadNext(t)
  <2>1. CASE AbortOp(t)
    BY <2>1, AbortOpOrder
  <2>2. CASE ~AbortOp(t)
    <3>1. /\ pc[t] = "read" /\ next' = [next EXCEPT ![t] = nextOf(t, pred[t])]
          /\ pc'[t] \in NextRead /\ UNCHANGED <<task, pred, prev, writeSet>>
      BY <1>0, <1>5, <2>2 DEF ReadNext, Goto, storeVars, NextRead
    <3>2. Ascending(pred[t], nextOf(t, pred[t]))
      BY <1>0, nextOfAscending
    <3>3. SearchOrdered(t)'
      BY <1>0, <1>a, <3>1, <3>2, <1>d DEF SearchOrdered, PredFound, Ascending, Before
    <3> QED BY <1>b, <3>1, <3>3
  <2> QED BY <2>1, <2>2
<1>6. CASE Advance(t)
  <2>1. /\ pc' = [pc EXCEPT ![t] = "read"] /\ pred' = [pred EXCEPT ![t] = next[t]]
        /\ UNCHANGED <<task, prev, writeSet>> /\ prev[t] = Null /\ m_key[next[t]] < task[t].key
    BY <1>6 DEF Advance, Searching, Further, Goto, storeVars
  <2>2. SearchOrdered(t)'
    BY <1>0, <2>1, <1>d DEF SearchOrdered, NextRead, Before
  <2> QED BY <1>b, <2>1, <2>2
<1>7. CASE PutFound(t)
  <2>1. SearchOrdered(t)'
    BY <1>7, ReturnOrder DEF PutFound
  <2>2. next[t] \in AllNodes
    BY <1>0, <1>7 DEF PutFound, Found, NodeOrNull
  <2> DEFINE e == WriteElement(nextOf(t, next[t]), task[t].val, writeSet[t][next[t]].deleted)
  <2>3. writeSet' = [writeSet EXCEPT ![t][next[t]] = e]
    BY <1>7 DEF PutFound
  <2>4. e.next = nextOf(t, next[t])
    BY DEF WriteElement
  <2>5. Ascending(next[t], e.next)
    BY <2>2, <2>4, nextOfAscending
  <2> HIDE DEF e
  <2>6. WriteOrdered(t)'
    BY <1>0, <1>a, <2>2, <2>3, <2>5, <1>d DEF WriteOrdered, Ascending, Before
  <2> QED BY <2>1, <2>6
<1>8. CASE Get(t) \/ RemoveAbsent(t)
  BY <1>8, <1>b, ReturnOrder DEF Get, RemoveAbsent
<1>9. CASE RemoveFound(t)
  <2>1. /\ pc[t] = "cmp" /\ pc' = [pc EXCEPT ![t] = "read"]
        /\ prev' = [prev EXCEPT ![t] = pred[t]] /\ pred' = [pred EXCEPT ![t] = next[t]]
        /\ UNCHANGED <<task, writeSet>>
    BY <1>9 DEF RemoveFound, Searching, Goto
  <2>2. Ascending(pred[t], next[t])
    BY <1>a, <2>1 DEF SearchOrdered, NextRead
  <2>3. SearchOrdered(t)'
    BY <1>0, <1>c, <2>1, <2>2, <1>d DEF SearchOrdered, NextRead, Ascending, Before
  <2> QED BY <1>b, <2>1, <2>3
<1>10. CASE RemoveFinish(t)
  <2>1. SearchOrdered(t)'
    BY <1>10, ReturnOrder DEF RemoveFinish
  <2>2. /\ pc[t] = "cmp" /\ prev[t] # Null /\ prev[t] \in AllNodes /\ pred[t] \in AllNodes
    BY <1>0, <1>10 DEF RemoveFinish, NodeOrNull
  <2> DEFINE e == WriteElement(next[t], getVal(t, prev[t]), FALSE)
             f == WriteElement(Null, getVal(t, pred[t]), TRUE)
  <2>3. writeSet' = [writeSet EXCEPT ![t][prev[t]] = e, ![t][pred[t]] = f]
    BY <1>10 DEF RemoveFinish
  <2>4. e.next = next[t] /\ f.next = Null
    BY DEF WriteElement
  <2> HIDE DEF e, f
  <2>5. Ascending(prev[t], pred[t]) /\ Ascending(pred[t], next[t])
    BY <1>a, <2>2 DEF SearchOrdered, NextRead
  <2>6. Ascending(prev[t], next[t])
    BY <1>0, <1>c, <2>2, <2>5 DEF Ascending, Before, NodeOrNull
  <2>7. \A m \in AllNodes : \/ writeSet'[t][m] = writeSet[t][m]
                            \/ m = prev[t] /\ writeSet'[t][m] = e
                            \/ writeSet'[t][m] = f
    BY <1>0, <2>2, <2>3
  <2>8. WriteOrdered(t)'
    BY <1>a, <2>4, <2>6, <2>7, <1>d DEF WriteOrdered, Ascending, Before
  <2> QED BY <2>1, <2>8
<1> QED BY <1>1, <1>2, <1>2a, <1>2b, <1>3, <1>4, <1>5, <1>6, <1>7, <1>8, <1>9, <1>10 DEF OpStep

(* put links its new node in order, and no one else has seen the node.     *)
LEMMA PutNewOrder ==
  ASSUME TypeInv, OrderInv, NEW t \in Threads, PutNew(t)
  PROVE  OrderInv'
<1>0. /\ pred \in [Threads -> AllNodes] /\ next \in [Threads -> NodeOrNull]
      /\ m_key \in [AllNodes -> Nat] /\ m_next \in [AllNodes -> NodeOrNull]
      /\ writeSet \in [Threads -> [AllNodes -> Element]]
      /\ task[t].key \in Nat /\ allocated \subseteq AllNodes
      /\ head \in allocated /\ Null \notin AllNodes
      /\ \A n \in AllNodes : m_next[n] \in allocated \cup {Null}
      /\ \A u \in Threads : /\ pred[u] \in allocated
                            /\ next[u] \in allocated \cup {Null}
                            /\ prev[u] \in allocated \cup {Null}
      /\ \A u \in Threads : \A n \in AllNodes : /\ writeSet[u][n].next \in allocated \cup {Null}
                                                /\ writeSet[u][n].in => n \in allocated
  BY TaskFields, NodesAssumption
  DEF TypeInv, MemoryTypeOK, LNodeTypeOK, LocalsTypeOK, OpTypeOK, StoreTypeOK, RefsAllocated,
      HeapRefs, OpRefs, StoreRefs, Ref, AllNodes
<1>1. PICK n \in Nodes \ allocated :
        /\ m_key'  = [m_key EXCEPT ![n] = task[t].key]
        /\ m_next' = [m_next EXCEPT ![n] = next[t]]
        /\ writeSet' = [writeSet EXCEPT ![t][pred[t]] = WriteElement(n, getVal(t, pred[t]), FALSE)]
  BY DEF PutNew
<1> DEFINE e == WriteElement(n, getVal(t, pred[t]), FALSE)
<1>2. e.next = n
  BY DEF WriteElement
<1> HIDE DEF e
<1>3. writeSet' = [writeSet EXCEPT ![t][pred[t]] = e]
  BY <1>1 DEF e
<1>4. n \in AllNodes /\ n # head /\ n # Null /\ n \notin allocated
  BY <1>0, <1>1 DEF AllNodes
<1>5. m_key'[n] = task[t].key /\ \A m \in AllNodes \ {n} : m_key'[m] = m_key[m]
  BY <1>0, <1>1, <1>4
<1>6. /\ Before(pred[t], task[t].key) /\ Ascending(pred[t], next[t])
      /\ next[t] # Null => task[t].key < m_key[next[t]]
  <2>1. pc[t] = "cmp" /\ prev[t] = Null /\ Absent(t)
    BY DEF PutNew, Searching
  <2>2. next[t] # Null => m_key[next[t]] \in Nat
    BY <1>0
  <2>3. next[t] # Null => task[t].key < m_key[next[t]]
    <3>1. task[t].key \in Nat BY <1>0
    <3>2. next[t] # Null => m_key[next[t]] # task[t].key /\ ~(m_key[next[t]] < task[t].key)
      BY <2>1 DEF Absent, Found, Further
    <3> QED BY <2>2, <3>1, <3>2
  <2>4. Before(pred[t], task[t].key) /\ Ascending(pred[t], next[t])
    BY <2>1 DEF OrderInv, SearchOrdered, PredFound, NextRead
  <2> QED BY <2>3, <2>4
<1>a. \A a \in AllNodes \ {n} : \A s \in allocated :
        /\ m_key'[a] = m_key[a] /\ m_key'[s] = m_key[s]
        /\ s # head /\ (a = head \/ m_key[a] < m_key[s])
             => s # head /\ (a = head \/ m_key'[a] < m_key'[s])
  BY <1>0, <1>4, <1>5
<1>7. \A m \in AllNodes : Ascending(m, m_next[m])'
  <2>1. CASE next[t] = Null
    BY <1>0, <1>1, <1>4, <1>5, <2>1 DEF OrderInv, Ascending, Before
  <2>2. CASE next[t] # Null
    <3>1. m_key'[n] < m_key'[next[t]] /\ next[t] # head
      BY <1>0, <1>4, <1>5, <1>6, <2>2 DEF Ascending
    <3>2. \A m \in AllNodes \ {n} : m_next'[m] = m_next[m]
      BY <1>0, <1>1
    <3>3. m_next'[n] = next[t]
      BY <1>0, <1>1, <1>4
    <3>4. \A m \in AllNodes \ {n} : Ascending(m, m_next[m])'
      BY <1>0, <1>4, <1>5, <3>2 DEF OrderInv, Ascending, Before
    <3> QED BY <3>1, <3>3, <3>4 DEF Ascending, Before
  <2> QED BY <2>1, <2>2
<1>8. (m_key[head] = HeadKey)'
  BY <1>0, <1>4, <1>5 DEF OrderInv, HeadKey
<1>9. \A u \in Threads : WriteOrdered(u)'
  <2>1. \A m \in AllNodes \ {pred[t]} : writeSet'[t][m] = writeSet[t][m]
    BY <1>0, <1>3
  <2>2. writeSet'[t][pred[t]] = e
    BY <1>0, <1>3
  <2>3. \A u \in Threads \ {t} : writeSet'[u] = writeSet[u]
    BY <1>0, <1>3
  <2>4. ASSUME NEW u \in Threads, NEW m \in AllNodes, writeSet'[u][m] = writeSet[u][m],
               writeSet'[u][m].in
        PROVE  Ascending(m, writeSet[u][m].next)'
    <3>1. Ascending(m, writeSet[u][m].next) /\ m # n
      BY <1>0, <1>4, <2>4 DEF OrderInv, WriteOrdered
    <3>2. writeSet[u][m].next \in allocated \cup {Null}
      BY <1>0
    <3> QED BY <1>a, <2>4, <3>1, <3>2 DEF Ascending, Before
  <2>5. pred[t] = head \/ m_key'[pred[t]] < m_key'[n]
    BY <1>0, <1>4, <1>5, <1>6 DEF Before
  <2>6. \A m \in AllNodes : writeSet'[t][m].in => Ascending(m, writeSet[t][m].next)'
    <3> TAKE m \in AllNodes
    <3>1. CASE m = pred[t]
      BY <1>2, <1>4, <2>2, <2>5, <3>1 DEF Ascending, Before
    <3>2. CASE m # pred[t]
      BY <2>1, <2>4, <3>2
    <3> QED BY <3>1, <3>2
  <2>7. \A u \in Threads \ {t} : \A m \in AllNodes :
          writeSet'[u][m].in => Ascending(m, writeSet[u][m].next)'
    BY <2>3, <2>4
  <2> QED BY <2>6, <2>7 DEF WriteOrdered
<1>10. SearchOrdered(t)'
  BY ReturnOrder DEF PutNew
<1>11. \A u \in Threads \ {t} : SearchOrdered(u)'
  <2> SUFFICES ASSUME NEW u \in Threads \ {t} PROVE SearchOrdered(u)'
    OBVIOUS
  <2>1. /\ pc'[u] = pc[u] /\ task'[u] = task[u] /\ pred'[u] = pred[u]
        /\ next'[u] = next[u] /\ prev'[u] = prev[u]
    BY OpStepFrame DEF OpStep
  <2>2. SearchOrdered(u) /\ pred[u] \in allocated /\ next[u] \in allocated \cup {Null}
        /\ prev[u] \in allocated \cup {Null}
    BY <1>0 DEF OrderInv
  <2>3. \A a \in allocated : a \in AllNodes \ {n} /\ m_key'[a] = m_key[a]
    BY <1>0, <1>4, <1>5
  <2>4. Before(pred[u], task[u].key)' <=> Before(pred[u], task[u].key)
    BY <2>1, <2>2, <2>3 DEF Before
  <2>5. prev[u] # Null => (Ascending(prev[u], pred[u])' <=> Ascending(prev[u], pred[u]))
    BY <2>1, <2>2, <2>3 DEF Ascending, Before
  <2>6. Ascending(pred[u], next[u])' <=> Ascending(pred[u], next[u])
    BY <2>1, <2>2, <2>3 DEF Ascending, Before
  <2> QED BY <2>1, <2>2, <2>4, <2>5, <2>6 DEF SearchOrdered
<1> QED BY <1>7, <1>8, <1>9, <1>10, <1>11 DEF OrderInv

(* TXend searches nothing and writes back the links it was given.          *)
LEMMA EndStepOrder ==
  ASSUME TypeInv, OrderInv, NEW t \in Threads, EndStep(t),
         pc[t] = "write" => todo[t] \subseteq WriteNodes(t)
  PROVE  OrderInv'
<1>0. /\ pc = [u \in Threads |-> pc[u]] /\ pred \in [Threads -> AllNodes]
      /\ m_next \in [AllNodes -> NodeOrNull] /\ todo \in [Threads -> SUBSET AllNodes]
      /\ writeSet \in [Threads -> [AllNodes -> Element]]
  BY DEF TypeInv, MemoryTypeOK, LNodeTypeOK, LocalsTypeOK, OpTypeOK, StoreTypeOK, EndTypeOK
<1>1. /\ UNCHANGED <<m_key, task, next, prev>>
      /\ \A u \in Threads \ {t} : pc'[u] = pc[u] /\ pred'[u] = pred[u] /\ writeSet'[u] = writeSet[u]
      /\ writeSet'[t] \in {writeSet[t], EmptyWriteSet}
      /\ pc[t] \notin PredFound \cup {"bump"} /\ pc'[t] \notin PredFound
  <2> USE DEF PredFound, NextRead, Goto, lnodeVars, nodeVars, opVars, storeVars
  <2>1. CASE LockNode(t) BY <1>0, <2>1 DEF LockNode
  <2>2. CASE LockedAll(t) BY <1>0, <2>2 DEF LockedAll
  <2>3. CASE ValidateStep(t) BY <1>0, <2>3, ValidateFrame DEF Validating
  <2>4. CASE setSingletonLoad(t) \/ setSingletonStore(t)
    BY <1>0, <2>4 DEF setSingletonLoad, setSingletonStore
  <2>5. CASE ValidatedReadOnly(t) BY <1>0, <2>5 DEF ValidatedReadOnly
  <2>6. CASE TakeVersion(t) BY <1>0, <2>6 DEF TakeVersion
  <2>7. CASE WriteNode(t) BY <1>0, <2>7 DEF WriteNode
  <2>8. CASE StampNode(t) BY <1>0, <2>8 DEF StampNode
  <2>9. CASE WroteAll(t) BY <1>0, <2>9 DEF WroteAll
  <2>10. CASE ReleaseNode(t) BY <1>0, <2>10 DEF ReleaseNode
  <2>11. CASE AbortEnd(t) BY <1>0, <2>11 DEF AbortEnd, ClearStorage
  <2>12. CASE UpdateIndex(t) BY <1>0, <2>12 DEF UpdateIndex
  <2>13. CASE AddToIndex(t) BY <1>0, <2>13 DEF AddToIndex
  <2>14. CASE RemoveFromIndex(t) BY <1>0, <2>14 DEF RemoveFromIndex
  <2>15. CASE Commit(t) BY <1>0, <2>15 DEF Commit, ClearStorage
  <2> QED
    BY <2>1, <2>2, <2>3, <2>4, <2>5, <2>6, <2>7, <2>8, <2>9, <2>10, <2>11, <2>12, <2>13, <2>14, <2>15
    DEF EndStep, ValidateStep
<1>2. \A n \in AllNodes : m_next'[n] = m_next[n] \/ Ascending(n, m_next'[n])
  <2>1. CASE WriteNode(t)
    <3>1. PICK n \in todo[t] : m_next' = [m_next EXCEPT ![n] = writeSet[t][n].next]
      BY <2>1 DEF WriteNode
    <3>2. n \in AllNodes /\ writeSet[t][n].in
      BY <1>0, <2>1 DEF WriteNode, WriteNodes
    <3>3. Ascending(n, writeSet[t][n].next)
      BY <3>2 DEF OrderInv, WriteOrdered
    <3>4. m_next'[n] = writeSet[t][n].next /\ \A m \in AllNodes \ {n} : m_next'[m] = m_next[m]
      BY <1>0, <3>1, <3>2
    <3> QED BY <3>3, <3>4
  <2>2. CASE ~WriteNode(t)
    <3>1. UNCHANGED m_next
      BY <2>2 DEF EndStep, LockNode, LockedAll, Validate, ValidateVersion, ValidateSingleton,
              IncrementAndClear, setSingletonLoad, setSingletonStore,
              ValidatedReadOnly, TakeVersion, StampNode, WroteAll, ReleaseNode, AbortEnd, UpdateIndex,
              AddToIndex, RemoveFromIndex, Commit, lnodeVars, nodeVars
    <3> QED BY <3>1
  <2> QED BY <2>1, <2>2
<1>3. WriteOrdered(t)'
  BY <1>0, <1>1 DEF OrderInv, WriteOrdered, Ascending, Before, EmptyWriteSet, NoElement
<1>4. SearchOrdered(t)'
  BY <1>1, PrevNull, NotSearching DEF PredFound, NextRead
<1> QED BY <1>1, <1>2, <1>3, <1>4, OrderFrame

(* The preloaded list is sorted.                                           *)
LEMMA OrderInit == TXInit => OrderInv
<1> SUFFICES ASSUME TXInit PROVE OrderInv
  OBVIOUS
<1>1. \A n \in AllNodes : Ascending(n, m_next[n])
  <2> SUFFICES ASSUME NEW n \in AllNodes, m_next[n] # Null PROVE Ascending(n, m_next[n])
    BY DEF Ascending
  <2>1. /\ n \in Preloaded \cup {head} /\ m_next[n] = InitNext(n)
        /\ InitNext(n) \in Preloaded /\ Above(n, InitNext(n))
    BY InitNextAbove DEF TXInit, LNodeInit
  <2>2. Preloaded \subseteq AllNodes /\ head \notin Preloaded
    BY InitAssumption, NodesAssumption DEF Preloaded, AllNodes
  <2>3. m_key = [m \in AllNodes |-> KeyOf(m)]
    BY DEF TXInit, LNodeInit
  <2> QED BY <2>1, <2>2, <2>3 DEF Ascending, Before, KeyOf, Above
<1>2. m_key[head] = HeadKey
  BY InitAssumption, NodesAssumption DEF TXInit, LNodeInit, KeyOf, Preloaded, AllNodes
<1>3. \A t \in Threads : WriteOrdered(t) /\ SearchOrdered(t)
  BY DEF TXInit, WriteOrdered, SearchOrdered, EmptyWriteSet, NoElement, PredFound, NextRead
<1> QED BY <1>1, <1>2, <1>3 DEF OrderInv

(* Every step keeps every link, in the heap and in write sets, ascending.  *)
LEMMA OrderNext == TypeInv /\ LockInv /\ OrderInv /\ [TXNext]_vars => OrderInv'
<1> SUFFICES ASSUME TypeInv, LockInv, OrderInv, [TXNext]_vars PROVE OrderInv'
  OBVIOUS
<1>1. ASSUME NEW t \in Threads, OpStep(t) PROVE OrderInv'
  <2>1. CASE PutNew(t) BY <2>1, PutNewOrder
  <2>2. CASE ~PutNew(t)
    <3>1. UNCHANGED <<m_key, m_next>> BY <1>1, <2>2, OpStepHeap
    <3>2. WriteOrdered(t)' /\ SearchOrdered(t)' BY <1>1, <2>2, OpStepOrder
    <3> QED BY <1>1, <3>1, <3>2, OpStepFrame, OrderFrame
  <2> QED BY <2>1, <2>2
<1>2. ASSUME NEW t \in Threads, EndStep(t) PROVE OrderInv'
  BY <1>2, EndStepOrder DEF LockInv, WriteSetLocked
<1>3. CASE UNCHANGED vars
  <2>1. \A n \in AllNodes : Ascending(n, m_next[n])'
    BY <1>3 DEF vars, lnodeVars, nodeVars, OrderInv, Ascending, Before
  <2>2. \A t \in Threads : WriteOrdered(t)' /\ SearchOrdered(t)'
    BY <1>3 DEF vars, lnodeVars, nodeVars, txVars, opVars, storeVars, OrderInv, WriteOrdered,
           SearchOrdered, Ascending, Before
  <2> QED BY <1>3, <2>1, <2>2 DEF vars, lnodeVars, nodeVars, OrderInv, HeadKey
<1> QED BY <1>1, <1>2, <1>3 DEF TXNext, Finished, TXStep

(* Every link in the heap or waiting in a write set leads to a larger key: *)
(* whatever the threads do, the list stays strictly sorted, so it has no   *)
(* cycle and no duplicate key, and find_node terminates.                   *)
THEOREM ListSorted == TXSpec => []Sorted
<1>1. OrderInv => Sorted
  BY DEF OrderInv, WriteOrdered, Sorted, WriteNodes
<1> QED BY <1>1, TypeInit, TypeNext, LockInit, LockNext, OrderInit, OrderNext, PTL DEF TXSpec
=============================================================================
