---------------------------- MODULE LinkedListTX ----------------------------
(***************************************************************************)
(* Transactions on the sorted list: TXbegin, TXend and handle_abort of     *)
(* TX.h, the transactional put, remove and get (containsKey) of            *)
(* datatypes/LinkedList.h, the thread-local LocalStorage and               *)
(* LocalTransaction, and the client, Worker::work of main.cpp.             *)
(*                                                                         *)
(* A step is at most one access to a shared word or field, with these      *)
(* exceptions: isLocked and the first getVersion of one node (the version  *)
(* only grows, so the two loads pass or fail together), isLocked(n) and    *)
(* the read of n's next (a stale next is caught by the check after it),    *)
(* the fields put and remove copy from nodes of their read set (TXend      *)
(* validates them all at once), and the read-modify-writes of a word whose *)
(* lock the thread holds.                                                  *)
(***************************************************************************)
EXTENDS LNode, Sequences

CONSTANTS
  Tasks,      \* Tasks[t]: thread t's share of the task list; Tasks[t][i] is the
              \* set of tasks its i-th one is drawn from
  OpsPerTx    \* ops_per_transc, the operations of one transaction

Task == [op : {"put", "remove", "get"}, key : Keys, val : Vals]

ASSUME TasksAssumption == Tasks \in [Threads -> Seq(SUBSET Task)]
ASSUME OpsAssumption   == OpsPerTx \in Nat \ {0}

VARIABLES
  pc,            \* where the thread is
  task,          \* the task at hand
  consumed,      \* tasks taken so far (index_task - tasks_index_begin)
  pred, next,    \* the two nodes find_node works on
  prev,          \* remove, second getNext: the predecessor of the victim
  readVersion,   \* LocalTransaction::readVersion
  writeVersion,  \* LocalTransaction::writeVersion
  readOnly,      \* LocalTransaction::readOnly
  readSet,       \* LocalStorage::readSet
  writeSet,      \* LocalStorage::writeSet, a map: .in tells if n is a key
  indexAdd,      \* LocalStorage::indexAdd
  indexRemove,   \* LocalStorage::indexRemove
  lockedLNodes,  \* TXend: the locks taken and not yet released
  todo,          \* TXend: the nodes its current loop has yet to visit
  abort,         \* TXend: the abort flag
  word,          \* setSingleton: the word it loaded
  log,           \* the calls of this transaction and their results
  begun,         \* Len(hist) when this transaction began
  hist           \* the committed transactions

opVars    == <<task, pred, next, prev>>
storeVars == <<readSet, writeSet, indexAdd, indexRemove>>
versVars  == <<readVersion, writeVersion, readOnly>>
endVars   == <<lockedLNodes, todo, abort, word>>
cliVars   == <<consumed, log, begun, hist>>
txVars    == <<pc, opVars, storeVars, versVars, endVars, cliVars>>
vars      == <<lnodeVars, txVars>>

-----------------------------------------------------------------------------
(* LocalStorage.h and WriteElement.h *)

WriteElement(s, v, d) == [in |-> TRUE, next |-> s, val |-> v, deleted |-> d]
NoElement == [in |-> FALSE, next |-> Null, val |-> NoVal, deleted |-> FALSE]
Element   == [in : BOOLEAN, next : NodeOrNull, val : ValOrNone, deleted : BOOLEAN]
EmptyWriteSet == [n \in AllNodes |-> NoElement]

WriteNodes(t) == {n \in AllNodes : writeSet[t][n].in}

(* LinkedList::getVal, and put's choice of the successor to write back *)
getVal(t, n)  == IF writeSet[t][n].in THEN writeSet[t][n].val ELSE m_val[n]
nextOf(t, n)  == IF writeSet[t][n].in THEN writeSet[t][n].next ELSE m_next[n]

NoTask == [op |-> "none", key |-> 0, val |-> NoVal]

-----------------------------------------------------------------------------
TXInit ==
  /\ LNodeInit
  /\ pc           = [t \in Threads |-> "idle"]
  /\ task         = [t \in Threads |-> NoTask]
  /\ consumed     = [t \in Threads |-> 0]
  /\ pred         = [t \in Threads |-> head]
  /\ next         = [t \in Threads |-> Null]
  /\ prev         = [t \in Threads |-> Null]
  /\ readVersion  = [t \in Threads |-> 0]
  /\ writeVersion = [t \in Threads |-> 0]
  /\ readOnly     = [t \in Threads |-> TRUE]
  /\ readSet      = [t \in Threads |-> {}]
  /\ writeSet     = [t \in Threads |-> EmptyWriteSet]
  /\ indexAdd     = [t \in Threads |-> {}]
  /\ indexRemove  = [t \in Threads |-> {}]
  /\ lockedLNodes = [t \in Threads |-> {}]
  /\ todo         = [t \in Threads |-> {}]
  /\ abort        = [t \in Threads |-> FALSE]
  /\ word         = [t \in Threads |-> FreshWord]
  /\ log          = [t \in Threads |-> <<>>]
  /\ begun        = [t \in Threads |-> 0]
  /\ hist         = <<>>

Goto(t, l) == pc' = [pc EXCEPT ![t] = l]

(* The clean-up at the end of TXend and of handle_abort.  The two versions *)
(* and the log, which nobody reads before the next TXbegin, are reset as   *)
(* well, to keep equivalent states equal.                                  *)
ClearStorage(t) ==
  /\ readSet'      = [readSet EXCEPT ![t] = {}]
  /\ writeSet'     = [writeSet EXCEPT ![t] = EmptyWriteSet]
  /\ indexAdd'     = [indexAdd EXCEPT ![t] = {}]
  /\ indexRemove'  = [indexRemove EXCEPT ![t] = {}]
  /\ readOnly'     = [readOnly EXCEPT ![t] = TRUE]
  /\ log'          = [log EXCEPT ![t] = <<>>]
  /\ readVersion'  = [readVersion EXCEPT ![t] = 0]
  /\ writeVersion' = [writeVersion EXCEPT ![t] = 0]
  /\ begun'        = [begun EXCEPT ![t] = 0]

(* The locals of an operation go out of scope.                             *)
ForgetOp(t) ==
  /\ task' = [task EXCEPT ![t] = NoTask]
  /\ pred' = [pred EXCEPT ![t] = head]
  /\ next' = [next EXCEPT ![t] = Null]
  /\ prev' = [prev EXCEPT ![t] = Null]

(* Mutant: handle_abort retires the nodes that were to be removed.         *)
AbortOpRetireRemoved(t) ==
  /\ Goto(t, "idle")
  /\ retired' = retired \cup indexRemove[t]
  /\ ClearStorage(t)
  /\ ForgetOp(t)
  /\ UNCHANGED <<nodeVars, m_version_mask, index, crashed, endVars, consumed, hist>>

(* An operation throws TxAbortException and the worker's catch block runs  *)
(* handle_abort: the nodes the transaction meant to add are retired.       *)
AbortOp(t) ==
  /\ Goto(t, "idle")
  /\ retired' = retired \cup indexAdd[t]
  /\ ClearStorage(t)
  /\ ForgetOp(t)
  /\ UNCHANGED <<nodeVars, m_version_mask, index, crashed, endVars, consumed, hist>>

(* An operation returns r; the worker goes on with the next task or, after *)
(* OpsPerTx of them or the last one, calls TXend.                          *)
Return(t, r) ==
  LET done == Append(log[t], [op |-> task[t].op, key |-> task[t].key,
                              val |-> task[t].val, ret |-> r])
  IN  /\ log' = [log EXCEPT ![t] = done]
      /\ ForgetOp(t)
      /\ IF Len(done) = OpsPerTx \/ consumed[t] = Len(Tasks[t])
         THEN Goto(t, "lock") ELSE Goto(t, "call")
      /\ UNCHANGED <<consumed, begun, hist>>

-----------------------------------------------------------------------------
(* The client: a transaction begins, and is given its next task. *)

TXbegin(t) ==
  /\ pc[t] = "idle"
  /\ consumed[t] < Len(Tasks[t])
  /\ Goto(t, "call")
  /\ readVersion' = [readVersion EXCEPT ![t] = gvc]
  /\ begun' = [begun EXCEPT ![t] = Len(hist)]
  /\ UNCHANGED <<lnodeVars, opVars, storeVars, writeVersion, readOnly, endVars,
                 consumed, log, hist>>

Call(t) ==
  /\ pc[t] = "call"
  /\ \E k \in Tasks[t][consumed[t] + 1] :
       /\ task' = [task EXCEPT ![t] = k]
       /\ readOnly' = [readOnly EXCEPT ![t] = @ /\ k.op = "get"]
  /\ consumed' = [consumed EXCEPT ![t] = @ + 1]
  /\ Goto(t, "search")
  /\ UNCHANGED <<lnodeVars, pred, next, prev, storeVars, readVersion, writeVersion,
                 endVars, log, begun, hist>>

-----------------------------------------------------------------------------
(* LinkedList::getPred: search the index, validate, step back over nodes   *)
(* this transaction or another one deleted.                                *)

SearchPred(t) ==
  /\ pc[t] = "search"
  /\ \E n \in getPred(task[t].key) : pred' = [pred EXCEPT ![t] = n]
  /\ Goto(t, "chkPred")
  /\ UNCHANGED <<lnodeVars, task, next, prev, storeVars, versVars, endVars, cliVars>>

(* The node under validation, and where the thread goes when it is valid.  *)
Subject(t) == IF pc[t] \in {"chkNext", "sngNext"} THEN next[t] ELSE pred[t]

AfterCheck(t) == CASE pc[t] = "chkPred" -> "sngPred"
                   [] pc[t] = "sngPred" -> "delPred"
                   [] pc[t] = "chkCur"  -> "sngCur"
                   [] pc[t] = "sngCur"  -> IF next[t] = Null THEN "cmp" ELSE "chkNext"
                   [] pc[t] = "chkNext" -> "sngNext"
                   [] pc[t] = "sngNext" -> "cmp"

(* The node must be unlocked and no newer than the transaction's snapshot. *)
Unreadable(t, n) == isLocked(n) \/ getVersion(n) > readVersion[t]

CheckVersion(t) ==
  /\ pc[t] \in {"chkPred", "chkCur", "chkNext"}
  /\ IF Unreadable(t, Subject(t))
     THEN AbortOp(t) /\ UNCHANGED gvc
     ELSE Goto(t, AfterCheck(t)) /\ UNCHANGED <<lnodeVars, opVars, storeVars, versVars,
                                                endVars, cliVars>>

(* A singleton wrote the node at the snapshot's own version: move the      *)
(* clock on, so that the next attempt can see it, and abort.               *)
CheckSingleton(t) ==
  /\ pc[t] \in {"sngPred", "sngCur", "sngNext"}
  /\ IF isSameVersionAndSingleton(Subject(t), readVersion[t])
     THEN Goto(t, "bump")
     ELSE Goto(t, AfterCheck(t))
  /\ UNCHANGED <<lnodeVars, opVars, storeVars, versVars, endVars, cliVars>>

IncrementAndAbort(t) ==
  /\ pc[t] = "bump"
  /\ gvc' = gvc + 1
  /\ AbortOp(t)

(* Mutant: it asks the index for the key it looks for once more.           *)
SkipDeletedSameKey(t) ==
  /\ pc[t] = "delPred"
  /\ IF writeSet[t][pred[t]].deleted \/ isDeleted(pred[t])
     THEN /\ \E n \in getPred(task[t].key) : pred' = [pred EXCEPT ![t] = n]
          /\ Goto(t, "chkPred")
     ELSE Goto(t, "read") /\ UNCHANGED pred
  /\ UNCHANGED <<lnodeVars, task, next, prev, storeVars, versVars, endVars, cliVars>>

(* A deleted node stays deleted, so the search that steps back is one step *)
(* with the test.                                                          *)
SkipDeleted(t) ==
  /\ pc[t] = "delPred"
  /\ IF writeSet[t][pred[t]].deleted \/ isDeleted(pred[t])
     THEN /\ \E n \in getPred(m_key[pred[t]]) : pred' = [pred EXCEPT ![t] = n]
          /\ Goto(t, "chkPred")
     ELSE Goto(t, "read") /\ UNCHANGED pred
  /\ UNCHANGED <<lnodeVars, task, next, prev, storeVars, versVars, endVars, cliVars>>

(* LinkedList::getNext up to the read of m_next; what the transaction      *)
(* wrote itself needs no validation.                                       *)
ReadNext(t) ==
  /\ pc[t] = "read"
  /\ IF ~writeSet[t][pred[t]].in /\ isLocked(pred[t])
     THEN AbortOp(t) /\ UNCHANGED gvc
     ELSE /\ next' = [next EXCEPT ![t] = nextOf(t, pred[t])]
          /\ Goto(t, IF writeSet[t][pred[t]].in THEN "cmp" ELSE "chkCur")
          /\ UNCHANGED <<lnodeVars, task, pred, prev, storeVars, versVars, endVars, cliVars>>

-----------------------------------------------------------------------------
(* find_node's loop body, and what each operation does when it ends.       *)

Searching(t) == pc[t] = "cmp" /\ prev[t] = Null
Found(t)     == next[t] # Null /\ m_key[next[t]] = task[t].key
(* Mutant: find_node walks past the key itself.                            *)
FurtherOrEqual(t) == next[t] # Null /\ m_key[next[t]] <= task[t].key
Further(t)   == next[t] # Null /\ m_key[next[t]] < task[t].key
Absent(t)    == ~Found(t) /\ ~Further(t)

Advance(t) ==
  /\ Searching(t) /\ Further(t)
  /\ pred' = [pred EXCEPT ![t] = next[t]]
  /\ next' = [next EXCEPT ![t] = Null]
  /\ Goto(t, "read")
  /\ UNCHANGED <<lnodeVars, task, prev, storeVars, versVars, endVars, cliVars>>

(* put on a key that is there: the new value waits in the write set.       *)
PutFound(t) ==
  /\ Searching(t) /\ Found(t) /\ task[t].op = "put"
  /\ writeSet' = [writeSet EXCEPT ![t][next[t]] =
       WriteElement(nextOf(t, next[t]), task[t].val, writeSet[t][next[t]].deleted)]
  /\ readSet' = [readSet EXCEPT ![t] = @ \cup {next[t]}]
  /\ Return(t, m_val[next[t]])
  /\ UNCHANGED <<lnodeVars, indexAdd, indexRemove, versVars, endVars>>

(* put on an absent key: a private node whose link waits in the write set  *)
(* of the predecessor.                                                     *)
PutNew(t) ==
  /\ Searching(t) /\ Absent(t) /\ task[t].op = "put"
  /\ \E n \in Nodes \ allocated :
       /\ allocated' = allocated \cup {n}
       /\ m_key'  = [m_key EXCEPT ![n] = task[t].key]
       /\ m_val'  = [m_val EXCEPT ![n] = task[t].val]
       /\ m_next' = [m_next EXCEPT ![n] = next[t]]
       /\ writeSet' = [writeSet EXCEPT ![t][pred[t]] =
                         WriteElement(n, getVal(t, pred[t]), FALSE)]
       /\ indexAdd' = [indexAdd EXCEPT ![t] = @ \cup {n}]
  /\ readSet' = [readSet EXCEPT ![t] = @ \cup {pred[t]}]
  /\ Return(t, NoVal)
  /\ UNCHANGED <<m_version_mask, gvc, index, retired, crashed, indexRemove, versVars, endVars>>

(* get puts the predecessor in the read set, and nothing else.             *)
Get(t) ==
  /\ Searching(t) /\ ~Further(t) /\ task[t].op = "get"
  /\ readSet' = [readSet EXCEPT ![t] = @ \cup {pred[t]}]
  /\ Return(t, IF Found(t) THEN getVal(t, next[t]) ELSE NoVal)
  /\ UNCHANGED <<lnodeVars, writeSet, indexAdd, indexRemove, versVars, endVars>>

RemoveAbsent(t) ==
  /\ Searching(t) /\ Absent(t) /\ task[t].op = "remove"
  /\ readSet' = [readSet EXCEPT ![t] = @ \cup {pred[t]}]
  /\ Return(t, NoVal)
  /\ UNCHANGED <<lnodeVars, writeSet, indexAdd, indexRemove, versVars, endVars>>

(* remove reads the victim's successor with a second getNext ...           *)
RemoveFound(t) ==
  /\ Searching(t) /\ Found(t) /\ task[t].op = "remove"
  /\ readSet' = [readSet EXCEPT ![t] = @ \cup {pred[t]}]
  /\ prev' = [prev EXCEPT ![t] = pred[t]]
  /\ pred' = [pred EXCEPT ![t] = next[t]]
  /\ next' = [next EXCEPT ![t] = Null]
  /\ Goto(t, "read")
  /\ UNCHANGED <<lnodeVars, task, writeSet, indexAdd, indexRemove, versVars, endVars, cliVars>>

(* Mutant: the index is to forget the node behind the victim.              *)
RemoveFinishBehind(t) ==
  LET victim == pred[t]
  IN  /\ pc[t] = "cmp" /\ prev[t] # Null
      /\ writeSet' = [writeSet EXCEPT
           ![t][prev[t]] = WriteElement(next[t], getVal(t, prev[t]), FALSE),
           ![t][victim]  = WriteElement(Null, getVal(t, victim), TRUE)]
      /\ readSet' = [readSet EXCEPT ![t] = @ \cup {victim}]
      /\ indexRemove' = [indexRemove EXCEPT ![t] = @ \cup {next[t]}]
      /\ Return(t, getVal(t, victim))
      /\ UNCHANGED <<lnodeVars, indexAdd, versVars, endVars>>

(* ... and then writes the unlinking and the deletion to the write set.    *)
RemoveFinish(t) ==
  LET victim == pred[t]
  IN  /\ pc[t] = "cmp" /\ prev[t] # Null
      /\ writeSet' = [writeSet EXCEPT
           ![t][prev[t]] = WriteElement(next[t], getVal(t, prev[t]), FALSE),
           ![t][victim]  = WriteElement(Null, getVal(t, victim), TRUE)]
      /\ readSet' = [readSet EXCEPT ![t] = @ \cup {victim}]
      /\ indexRemove' = [indexRemove EXCEPT ![t] = @ \cup {victim}]
      /\ Return(t, getVal(t, victim))
      /\ UNCHANGED <<lnodeVars, indexAdd, versVars, endVars>>
-----------------------------------------------------------------------------
(* TXend *)

(* tryLock the nodes of the write set, in the order of an unordered_map.   *)
LockNode(t) ==
  /\ pc[t] = "lock"
  /\ \E n \in WriteNodes(t) \ lockedLNodes[t] :
       IF isLocked(n)
       THEN /\ abort' = [abort EXCEPT ![t] = TRUE]
            /\ Goto(t, "release")
            /\ UNCHANGED <<m_version_mask, lockedLNodes>>
       ELSE /\ tryLock(n)
            /\ lockedLNodes' = [lockedLNodes EXCEPT ![t] = @ \cup {n}]
            /\ UNCHANGED <<pc, abort>>
  /\ UNCHANGED <<nodeVars, gvc, index, retired, crashed, opVars, storeVars, versVars,
                 todo, word, cliVars>>

(* Mutant: the loop stops after its first lock.                            *)
LockedSome(t) ==
  /\ pc[t] = "lock"
  /\ WriteNodes(t) = {} \/ lockedLNodes[t] # {}
  /\ todo' = [todo EXCEPT ![t] = readSet[t]]
  /\ Goto(t, "validate")
  /\ UNCHANGED <<lnodeVars, opVars, storeVars, versVars, lockedLNodes, abort, word, cliVars>>

LockedAll(t) ==
  /\ pc[t] = "lock"
  /\ WriteNodes(t) \subseteq lockedLNodes[t]
  /\ todo' = [todo EXCEPT ![t] = readSet[t]]
  /\ Goto(t, "validate")
  /\ UNCHANGED <<lnodeVars, opVars, storeVars, versVars, lockedLNodes, abort, word, cliVars>>

(* Mutants: only the version, or only the lock, is looked at.              *)
StaleVersionOnly(t, n) == getVersion(n) > readVersion[t]
StaleLockOnly(t, n) == n \notin lockedLNodes[t] /\ isLocked(n)

(* A read-set node is stale when another thread has it locked or it is     *)
(* newer than the snapshot.                                                *)
Stale(t, n) == \/ n \notin lockedLNodes[t] /\ isLocked(n)
               \/ getVersion(n) > readVersion[t]

Validate(t) ==
  /\ pc[t] = "validate"
  /\ \E n \in todo[t] :
       IF Stale(t, n)
       THEN /\ abort' = [abort EXCEPT ![t] = TRUE]
            /\ todo' = [todo EXCEPT ![t] = {}]
            /\ Goto(t, "release")
            /\ UNCHANGED pred
       ELSE /\ todo' = [todo EXCEPT ![t] = @ \ {n}]
            /\ pred' = [pred EXCEPT ![t] = n]
            /\ Goto(t, "verVal")
            /\ UNCHANGED abort
  /\ UNCHANGED <<lnodeVars, task, next, prev, storeVars, versVars, lockedLNodes, word,
                 cliVars>>

(* Then getVersion() == readVersion and isSingleton(), each with a load of *)
(* its own; the loop goes on unless both hold.                             *)
ValidateVersion(t) ==
  /\ pc[t] = "verVal"
  /\ IF getVersion(pred[t]) = readVersion[t]
     THEN Goto(t, "sngVal") /\ UNCHANGED pred
     ELSE Goto(t, "validate") /\ pred' = [pred EXCEPT ![t] = head]
  /\ UNCHANGED <<lnodeVars, task, next, prev, storeVars, versVars, endVars, cliVars>>

ValidateSingleton(t) ==
  /\ pc[t] = "sngVal"
  /\ IF isSingleton(pred[t])
     THEN Goto(t, "bumpVal") /\ UNCHANGED pred
     ELSE Goto(t, "validate") /\ pred' = [pred EXCEPT ![t] = head]
  /\ UNCHANGED <<lnodeVars, task, next, prev, storeVars, versVars, endVars, cliVars>>

IncrementAndClear(t) ==
  /\ pc[t] = "bumpVal"
  /\ gvc' = gvc + 1
  /\ todo' = [todo EXCEPT ![t] = {pred[t]}]
  /\ pred' = [pred EXCEPT ![t] = head]
  /\ Goto(t, "loadSng")
  /\ UNCHANGED <<nodeVars, m_version_mask, index, retired, crashed, task, next, prev,
                 storeVars, versVars, lockedLNodes, abort, word, cliVars>>

(* The validation loop clears the singleton flag of the node it stopped at *)
(* with setSingleton(false): load, assert(locked), store.                  *)
setSingletonLoad(t) ==
  /\ pc[t] = "loadSng"
  /\ \E n \in todo[t] :
       IF isLocked(n)
       THEN /\ word' = [word EXCEPT ![t] = m_version_mask[n]]
            /\ Goto(t, "storeSng")
            /\ UNCHANGED crashed
       ELSE crashed' = "assert" /\ UNCHANGED <<pc, word>>
  /\ UNCHANGED <<nodeVars, m_version_mask, gvc, index, retired, opVars, storeVars, versVars,
                 lockedLNodes, todo, abort, cliVars>>

setSingletonStore(t) ==
  /\ pc[t] = "storeSng"
  /\ \E n \in todo[t] :
       m_version_mask' = [m_version_mask EXCEPT ![n] = [word[t] EXCEPT !.sing = FALSE]]
  /\ word' = [word EXCEPT ![t] = FreshWord]
  /\ todo' = [todo EXCEPT ![t] = {}]
  /\ abort' = [abort EXCEPT ![t] = TRUE]
  /\ Goto(t, "release")
  /\ UNCHANGED <<nodeVars, gvc, index, retired, crashed, opVars, storeVars, versVars,
                 lockedLNodes, cliVars>>

(* The read set is valid.  A transaction that called put or remove takes a *)
(* new version; the others have nothing to write back.                     *)
ValidatedReadOnly(t) ==
  /\ pc[t] = "validate" /\ todo[t] = {} /\ readOnly[t]
  /\ Goto(t, "release")
  /\ UNCHANGED <<lnodeVars, opVars, storeVars, versVars, endVars, cliVars>>

(* Mutant: the version is the one from before the increment.               *)
TakeOldVersion(t) ==
  /\ pc[t] = "validate" /\ todo[t] = {} /\ ~readOnly[t]
  /\ gvc' = gvc + 1
  /\ writeVersion' = [writeVersion EXCEPT ![t] = gvc]
  /\ todo' = [todo EXCEPT ![t] = WriteNodes(t)]
  /\ Goto(t, "write")
  /\ UNCHANGED <<nodeVars, m_version_mask, index, retired, crashed, opVars, storeVars,
                 readVersion, readOnly, lockedLNodes, abort, word, cliVars>>

TakeVersion(t) ==
  /\ pc[t] = "validate" /\ todo[t] = {} /\ ~readOnly[t]
  /\ gvc' = gvc + 1
  /\ writeVersion' = [writeVersion EXCEPT ![t] = gvc + 1]
  /\ todo' = [todo EXCEPT ![t] = WriteNodes(t)]
  /\ Goto(t, "write")
  /\ UNCHANGED <<nodeVars, m_version_mask, index, retired, crashed, opVars, storeVars,
                 readVersion, readOnly, lockedLNodes, abort, word, cliVars>>

(* Write back one node: its fields, then its word.                         *)
WriteNode(t) ==
  /\ pc[t] = "write"
  /\ \E n \in todo[t] :
       /\ m_next' = [m_next EXCEPT ![n] = writeSet[t][n].next]
       /\ m_val' = [m_val EXCEPT ![n] = writeSet[t][n].val]
       /\ todo' = [todo EXCEPT ![t] = @ \ {n}]
       /\ pred' = [pred EXCEPT ![t] = n]
  /\ Goto(t, "stamp")
  /\ UNCHANGED <<m_key, allocated, m_version_mask, gvc, index, retired, crashed, task, next,
                 prev, storeVars, versVars, lockedLNodes, abort, word, cliVars>>

StampNode(t) ==
  LET n == pred[t]
      d == writeSet[t][n].deleted
  IN  /\ pc[t] = "stamp"
      /\ StoreLocked(n, [m_version_mask[n] EXCEPT !.ver = writeVersion[t],
                                                  !.del = @ \/ d, !.sing = FALSE])
      /\ m_val' = [m_val EXCEPT ![n] = IF d THEN NoVal ELSE @]
      /\ pred' = [pred EXCEPT ![t] = head]
      /\ Goto(t, "write")
      /\ UNCHANGED <<m_key, m_next, allocated, gvc, index, retired, task, next, prev,
                     storeVars, versVars, endVars, cliVars>>

WroteAll(t) ==
  /\ pc[t] = "write" /\ todo[t] = {}
  /\ Goto(t, "release")
  /\ UNCHANGED <<lnodeVars, opVars, storeVars, versVars, endVars, cliVars>>

(* Locks are released whether the transaction commits or aborts.           *)
ReleaseNode(t) ==
  /\ pc[t] = "release"
  /\ \E n \in lockedLNodes[t] :
       /\ unlock(n)
       /\ lockedLNodes' = [lockedLNodes EXCEPT ![t] = @ \ {n}]
  /\ UNCHANGED <<nodeVars, gvc, index, retired, pc, opVars, storeVars, versVars,
                 todo, abort, word, cliVars>>

(* Abort: TXend clears the storage and throws, and handle_abort finds      *)
(* nothing left to retire.                                                 *)
AbortEnd(t) ==
  /\ pc[t] = "release" /\ lockedLNodes[t] = {} /\ abort[t]
  /\ abort' = [abort EXCEPT ![t] = FALSE]
  /\ ClearStorage(t)
  /\ Goto(t, "idle")
  /\ UNCHANGED <<lnodeVars, opVars, lockedLNodes, todo, word, consumed, hist>>

(* Commit: the index learns of the new nodes, then of the removed ones,    *)
(* which are retired.                                                      *)
UpdateIndex(t) ==
  /\ pc[t] = "release" /\ lockedLNodes[t] = {} /\ ~abort[t]
  /\ todo' = [todo EXCEPT ![t] = indexAdd[t]]
  /\ Goto(t, "idxAdd")
  /\ UNCHANGED <<lnodeVars, opVars, storeVars, versVars, lockedLNodes, abort, word, cliVars>>

AddToIndex(t) ==
  /\ pc[t] = "idxAdd"
  /\ IF todo[t] = {}
     THEN /\ todo' = [todo EXCEPT ![t] = indexRemove[t]]
          /\ Goto(t, "idxRemove")
          /\ UNCHANGED index
     ELSE /\ \E n \in todo[t] : index' = index \cup {n} /\ todo' = [todo EXCEPT ![t] = @ \ {n}]
          /\ UNCHANGED pc
  /\ UNCHANGED <<nodeVars, m_version_mask, gvc, retired, crashed, opVars, storeVars, versVars,
                 lockedLNodes, abort, word, cliVars>>

RemoveFromIndex(t) ==
  /\ pc[t] = "idxRemove"
  /\ \E n \in todo[t] :
       /\ index' = index \ {n}
       /\ retired' = retired \cup {n}
       /\ todo' = [todo EXCEPT ![t] = @ \ {n}]
  /\ UNCHANGED <<nodeVars, m_version_mask, gvc, crashed, pc, opVars, storeVars, versVars,
                 lockedLNodes, abort, word, cliVars>>

Commit(t) ==
  /\ pc[t] = "idxRemove" /\ todo[t] = {}
  /\ hist' = Append(hist, [ops |-> log[t], after |-> begun[t]])
  /\ ClearStorage(t)
  /\ Goto(t, "idle")
  /\ UNCHANGED <<lnodeVars, opVars, endVars, consumed>>

-----------------------------------------------------------------------------
OpStep(t) ==
  \/ TXbegin(t) \/ Call(t) \/ SearchPred(t) \/ CheckVersion(t) \/ CheckSingleton(t)
  \/ IncrementAndAbort(t) \/ SkipDeleted(t) \/ ReadNext(t) \/ Advance(t) \/ PutFound(t) \/ PutNew(t) \/ Get(t)
  \/ RemoveAbsent(t) \/ RemoveFound(t) \/ RemoveFinish(t)

EndStep(t) ==
  \/ LockNode(t) \/ LockedAll(t) \/ Validate(t) \/ ValidateVersion(t) \/ ValidateSingleton(t)
  \/ IncrementAndClear(t) \/ setSingletonLoad(t) \/ setSingletonStore(t)
  \/ ValidatedReadOnly(t) \/ TakeVersion(t) \/ WriteNode(t) \/ StampNode(t) \/ WroteAll(t)
  \/ ReleaseNode(t) \/ AbortEnd(t) \/ UpdateIndex(t) \/ AddToIndex(t) \/ RemoveFromIndex(t) \/ Commit(t)

TXStep(t) == crashed = "none" /\ (OpStep(t) \/ EndStep(t))

Done(t) == pc[t] = "idle" /\ consumed[t] = Len(Tasks[t])

(* The process ends when every worker has been through its share, or by a  *)
(* failed assertion or a null dereference.                                 *)
Finished == (crashed # "none" \/ \A t \in Threads : Done(t)) /\ UNCHANGED vars

TXNext == (\E t \in Threads : TXStep(t)) \/ Finished

TXSpec == TXInit /\ [][TXNext]_vars

(* Every worker is a thread the operating system schedules, and no step of *)
(* the library waits for another thread.                                   *)
TXFairSpec == TXSpec /\ \A t \in Threads : WF_vars(TXStep(t))
-----------------------------------------------------------------------------
(* Invariants *)

Labels == {"idle", "call", "search", "chkPred", "sngPred", "bump", "delPred", "read", "chkCur",
           "sngCur", "chkNext", "sngNext", "cmp", "lock", "validate", "verVal", "sngVal",
           "bumpVal", "loadSng", "storeSng", "write", "stamp", "release", "idxAdd", "idxRemove"}

OpTypeOK ==
  /\ task \in [Threads -> Task \cup {NoTask}]
  /\ pred \in [Threads -> AllNodes]
  /\ next \in [Threads -> NodeOrNull]
  /\ prev \in [Threads -> NodeOrNull]

StoreTypeOK ==
  /\ readSet \in [Threads -> SUBSET AllNodes]
  /\ writeSet \in [Threads -> [AllNodes -> Element]]
  /\ indexAdd \in [Threads -> SUBSET Nodes]
  /\ indexRemove \in [Threads -> SUBSET AllNodes]

EndTypeOK ==
  /\ readVersion \in [Threads -> Nat]
  /\ writeVersion \in [Threads -> Nat]
  /\ readOnly \in [Threads -> BOOLEAN]
  /\ lockedLNodes \in [Threads -> SUBSET AllNodes]
  /\ todo \in [Threads -> SUBSET AllNodes]
  /\ abort \in [Threads -> BOOLEAN]
  /\ word \in [Threads -> Word]

LocalsTypeOK ==
  /\ OpTypeOK
  /\ StoreTypeOK
  /\ EndTypeOK
  /\ consumed \in [Threads -> Nat]

(* Every variable holds a value of the type the code declares for it.      *)
TXTypeOK ==
  /\ LNodeTypeOK
  /\ pc \in [Threads -> Labels]
  /\ LocalsTypeOK

(* The lock bit of a node is set exactly while one thread, and no other,   *)
(* is between the tryLock that set it and its unlock in TXend: no lock is  *)
(* lost, leaked by an abort, or held twice.                                *)
LockOwnership ==
  /\ \A n \in AllNodes : isLocked(n) <=> \E t \in Threads : n \in lockedLNodes[t]
  /\ \A t, u \in Threads : t # u => lockedLNodes[t] \cap lockedLNodes[u] = {}

(* Every link in the heap or waiting in a write set goes to a larger key,  *)
(* while transactions of all threads insert, unlink and write back: the    *)
(* list has no duplicate key and no cycle, and find_node terminates.       *)
Sorted ==
  /\ \A n \in AllNodes : Ascending(n, m_next[n])
  /\ \A t \in Threads : \A n \in WriteNodes(t) : Ascending(n, writeSet[t][n].next)

(* No version in the heap, and no snapshot, is ahead of the global clock,  *)
(* and TXend's assert(writeVersion > readVersion) never fails.             *)
ClockBound ==
  /\ \A n \in AllNodes : getVersion(n) <= gvc
  /\ \A t \in Threads :
       /\ readVersion[t] <= gvc
       /\ pc[t] \in {"write", "stamp"} => readVersion[t] < writeVersion[t]

(* A node the index leads to is linked or deleted whenever no node is      *)
(* locked: no committed insertion is lost to another update that had read  *)
(* the same predecessor.                                                   *)
NoLostNode ==
  (\A n \in AllNodes : ~isLocked(n))
    => {n \in index : ~isDeleted(n)} \subseteq Linked

(* What the record manager was told to reclaim is out of the list for good.*)
RetiredUnlinked == \A n \in retired : n \notin Linked

(* What a step leaves of the nodes that were handed out.                   *)
NodeStep ==
  \A n \in allocated :
    /\ isLocked(n) \/ (m_next'[n] = m_next[n] /\ m_val'[n] = m_val[n])
    /\ m_key'[n] = m_key[n]
    /\ getVersion(n) <= m_version_mask'[n].ver
    /\ isDeleted(n) => m_version_mask'[n].del

(* Outside its lock a node never changes; its version never goes back, and *)
(* a deletion is never undone.                                             *)
NodeStable == [][NodeStep]_vars

(* No assertion on a version word fails: unlock and the setters only meet  *)
(* locked nodes.                                                           *)
AssertionsHold == crashed # "assert"

(* Every worker gets through its tasks: no one waits for a lock that is    *)
(* never released, no search loops, and the process does not end before by *)
(* a failed assertion or a null dereference.                               *)
Termination == <>(\A t \in Threads : Done(t))
=============================================================================
