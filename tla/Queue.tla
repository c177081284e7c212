-------------------------------- MODULE Queue --------------------------------
(***************************************************************************)
(* The transactional queues of the Java library (Queue.java, LocalQueue,   *)
(* LockQueue, and the queue part of TX.java), used as its README shows: a  *)
(* transaction ends with TXend whatever happened in it and is tried again  *)
(* until it commits.  Calls outside a transaction act at once under the    *)
(* lock of the queue.                                                      *)
(*                                                                         *)
(* In a transaction enqueue waits in the thread's LocalQueue, while        *)
(* dequeue and isEmpty take the lock of the queue and keep it for TXend.   *)
(*                                                                         *)
(* A step has one access to what others may see: the clock, the version    *)
(* word, size (which isEmpty reads without the lock) or the lock.  What    *)
(* the lock protects is used in the step that takes or holds the lock.     *)
(***************************************************************************)
EXTENDS Integers, Sequences, SequencesExt, TLC

CONSTANTS
  Threads, Queues, Vals,
  Null, Empty,     \* no node, no owner; the answer QueueIsEmptyException
  Contents,        \* Contents[q], what q holds at the start
  Tasks            \* Tasks[t]: [tx |-> BOOLEAN, ops |-> sequence of operations]

(* The operations of a client; put is the one on a list: see put below.    *)
enq(q, v)  == [op |-> "enqueue", q |-> q, val |-> v]
deq(q)     == [op |-> "dequeue", q |-> q, val |-> Empty]
empty(q)   == [op |-> "isEmpty", q |-> q, val |-> Empty]
listPut(q) == [op |-> "put", q |-> q, val |-> Empty]

Operation == {enq(q, v) : q \in Queues, v \in Vals}
             \cup UNION {{deq(q), empty(q), listPut(q)} : q \in Queues}

(* Nodes are numbered in order of creation; a singleton is one operation   *)
(* on a queue.                                                             *)
ASSUME NullAssumption     == Null \notin Nat /\ Null \notin Threads
ASSUME ContentsAssumption == Contents \in [Queues -> Seq(Vals)]
ASSUME TasksAssumption    ==
  /\ Tasks \in [Threads -> Seq([tx : BOOLEAN, ops : Seq(Operation)])]
  /\ \A t \in Threads : \A i \in DOMAIN Tasks[t] :
       /\ Len(Tasks[t][i].ops) > 0
       /\ Tasks[t][i].tx \/ (Len(Tasks[t][i].ops) = 1 /\ Tasks[t][i].ops[1].op # "put")

VARIABLES
  GVC,
  head, tail, size,           \* of every queue
  word,                       \* versionAndFlags: [version, singleton]
  lock,                       \* the owner of qLock
  nodes,                      \* its QNodes in order of creation: [val, next]
  pc, task, op,               \* where a thread is; its task and operation
  TX, readVersion, readOnly,  \* of LocalStorage
  queueMap,                   \* queueMap[t][q], the LocalQueue
  abort, writeVersion,        \* of TXend
  todo, cur,                  \* queues its loops have left; the one in hand
  clock, ret,                 \* of singletons: the clock and size they read
  log, begun, hist,           \* history: answers, and committed transactions
  crashed                     \* an assertion failed

queues  == <<head, tail, size, nodes>>
storage == <<TX, readVersion, readOnly, queueMap>>
ending  == <<abort, writeVersion, todo, cur>>
history == <<log, begun, hist>>
vars == <<GVC, queues, word, lock, pc, task, op, storage, ending, clock, ret, history,
          crashed>>

(* LocalQueue; in tells whether queueMap has it.                           *)
NewLocalQueue == [in |-> FALSE, elems |-> <<>>, firstDeq |-> TRUE, nodeToDeq |-> Null,
                  isLockedByMe |-> FALSE]

Preload(q) == [i \in DOMAIN Contents[q] |->
                 [val |-> Contents[q][i], next |-> IF i < Len(Contents[q]) THEN i + 1 ELSE Null]]

Init ==
  /\ GVC = 0
  /\ nodes = [q \in Queues |-> Preload(q)]
  /\ head = [q \in Queues |-> IF Contents[q] = <<>> THEN Null ELSE 1]
  /\ tail = [q \in Queues |-> IF Contents[q] = <<>> THEN Null ELSE Len(Contents[q])]
  /\ size = [q \in Queues |-> Len(Contents[q])]
  /\ word = [q \in Queues |-> [version |-> 0, singleton |-> FALSE]]
  /\ lock = [q \in Queues |-> Null]
  /\ pc = [t \in Threads |-> "idle"]
  /\ task = [t \in Threads |-> 1]
  /\ op = [t \in Threads |-> 1]
  /\ TX = [t \in Threads |-> FALSE]
  /\ readVersion = [t \in Threads |-> 0]
  /\ readOnly = [t \in Threads |-> TRUE]
  /\ queueMap = [t \in Threads |-> [q \in Queues |-> NewLocalQueue]]
  /\ abort = [t \in Threads |-> FALSE]
  /\ writeVersion = [t \in Threads |-> 0]
  /\ todo = [t \in Threads |-> {}]
  /\ cur = [t \in Threads |-> Null]
  /\ clock = [t \in Threads |-> 0]
  /\ ret = [t \in Threads |-> 0]
  /\ log = [t \in Threads |-> <<>>]
  /\ begun = [t \in Threads |-> 0]
  /\ hist = <<>>
  /\ crashed = FALSE

At(t, l)   == ~crashed /\ pc[t] = l
Goto(t, l) == pc' = [pc EXCEPT ![t] = l]

Busy(t)  == task[t] <= Len(Tasks[t])
Task(t)  == Tasks[t][task[t]]
Op(t)    == Task(t).ops[op[t]]
Map(t)   == {q \in Queues : queueMap[t][q].in}

CanLock(t, q) == lock[q] \in {Null, t}

(* The thread answers its operation and goes on to the next one.           *)
Answer(t, r) == log' = [log EXCEPT ![t] = Append(@, [op |-> Op(t).op, q |-> Op(t).q,
                                                    val |-> Op(t).val, ret |-> r])]
GoOn(t) == /\ op' = [op EXCEPT ![t] = @ + 1]
           /\ Goto(t, IF op[t] = Len(Task(t).ops) THEN "TXend" ELSE "op")

-----------------------------------------------------------------------------
(* Operations in a transaction.                                            *)
TXbegin(t) ==
  /\ At(t, "idle")
  /\ Busy(t) /\ Task(t).tx
  /\ TX' = [TX EXCEPT ![t] = TRUE]
  /\ readVersion' = [readVersion EXCEPT ![t] = GVC]
  /\ op' = [op EXCEPT ![t] = 1]
  /\ begun' = [begun EXCEPT ![t] = Len(hist)]
  /\ log' = [log EXCEPT ![t] = <<>>]
  /\ Goto(t, "op")
  /\ UNCHANGED <<GVC, queues, word, lock, task, readOnly, queueMap, ending, clock, ret,
                 hist, crashed>>

(* LinkedList.put, as far as the queues notice: the transaction is no      *)
(* longer read-only.  The list is one that nobody else uses.               *)
put(t) ==
  /\ At(t, "op")
  /\ Op(t).op = "put"
  /\ readOnly' = [readOnly EXCEPT ![t] = FALSE]
  /\ GoOn(t)
  /\ UNCHANGED <<GVC, queues, word, lock, task, TX, readVersion, queueMap, ending, clock,
                 ret, history, crashed>>

(* AbortException; the client's finally block calls TXend.                 *)
Abort(t) == /\ TX' = [TX EXCEPT ![t] = FALSE]
            /\ Goto(t, "TXend")

(* The three looks at the version word every operation begins with.        *)
CheckNewer(t) ==
  /\ At(t, "op")
  /\ Op(t).op # "put"
  /\ IF readVersion[t] < word[Op(t).q].version
     THEN Abort(t)
     ELSE Goto(t, "checkSame") /\ UNCHANGED TX
  /\ UNCHANGED <<GVC, queues, word, lock, task, op, readVersion, readOnly, queueMap,
                 ending, clock, ret, history, crashed>>

CheckSame(t) ==
  /\ At(t, "checkSame")
  /\ Goto(t, IF readVersion[t] = word[Op(t).q].version THEN "checkFlag" ELSE Op(t).op)
  /\ UNCHANGED <<GVC, queues, word, lock, task, op, storage, ending, clock, ret, history,
                 crashed>>

CheckSingleton(t) ==
  /\ At(t, "checkFlag")
  /\ Goto(t, IF word[Op(t).q].singleton THEN "increment" ELSE Op(t).op)
  /\ UNCHANGED <<GVC, queues, word, lock, task, op, storage, ending, clock, ret, history,
                 crashed>>

(* Mutant: the clock stays where it is.                                    *)
ClockUnmoved == GVC

(* incrementAndGetVersion.                                                 *)
NextVersion == GVC + 1

IncrementAndAbort(t) ==
  /\ At(t, "increment")
  /\ GVC' = NextVersion
  /\ Abort(t)
  /\ UNCHANGED <<queues, word, lock, task, op, readVersion, readOnly, queueMap,
                 ending, clock, ret, history, crashed>>

enqueue(t) ==
  /\ At(t, "enqueue")
  /\ queueMap' = [queueMap EXCEPT ![t][Op(t).q].in = TRUE,
                                  ![t][Op(t).q].elems = Append(@, Op(t).val)]
  /\ Answer(t, Empty)
  /\ GoOn(t)
  /\ UNCHANGED <<GVC, queues, word, lock, task, TX, readVersion, readOnly, ending, clock,
                 ret, begun, hist, crashed>>

(* dequeue and isEmpty of a queue another thread has locked.               *)
LockedByOther(t) ==
  /\ At(t, "dequeue") \/ At(t, "isEmpty")
  /\ ~CanLock(t, Op(t).q)
  /\ Abort(t)
  /\ UNCHANGED <<GVC, queues, word, lock, task, op, readVersion, readOnly, queueMap,
                 ending, clock, ret, history, crashed>>

(* The node after those that the transaction has dequeued, then what it    *)
(* has enqueued itself, then QueueIsEmptyException: the client calls       *)
(* TXend.                                                                  *)
dequeue(t) ==
  LET q  == Op(t).q
      lq == queueMap[t][q]
      n  == IF lq.firstDeq THEN head[q]
            ELSE IF lq.nodeToDeq # Null THEN nodes[q][lq.nodeToDeq].next ELSE Null
      took == [lq EXCEPT !.in = TRUE, !.firstDeq = FALSE, !.nodeToDeq = n]
  IN  /\ At(t, "dequeue")
      /\ CanLock(t, q)
      /\ lock' = [lock EXCEPT ![q] = t]
      /\ \/ /\ n # Null
            /\ queueMap' = [queueMap EXCEPT ![t][q] = took]
            /\ Answer(t, nodes[q][n].val)
            /\ GoOn(t)
         \/ /\ n = Null /\ lq.elems # <<>>
            /\ queueMap' = [queueMap EXCEPT ![t][q] = [took EXCEPT !.elems = Tail(@)]]
            /\ Answer(t, Head(lq.elems))
            /\ GoOn(t)
         \/ /\ n = Null /\ lq.elems = <<>>
            /\ queueMap' = [queueMap EXCEPT ![t][q] = took]
            /\ Answer(t, Empty)
            /\ Goto(t, "TXend")
            /\ UNCHANGED op
      /\ UNCHANGED <<GVC, queues, word, task, TX, readVersion, readOnly, ending, clock, ret,
                     begun, hist, crashed>>

(* A queue that is not empty is locked and yet not put into queueMap.      *)
isEmpty(t) ==
  LET q == Op(t).q
  IN  /\ At(t, "isEmpty")
      /\ CanLock(t, q)
      /\ lock' = [lock EXCEPT ![q] = t]
      /\ \/ /\ size[q] > 0
            /\ Answer(t, FALSE)
            /\ UNCHANGED queueMap
         \/ /\ size[q] <= 0
            /\ Answer(t, queueMap[t][q].elems = <<>>)
            /\ queueMap' = [queueMap EXCEPT ![t][q].in = TRUE]
      /\ GoOn(t)
      /\ UNCHANGED <<GVC, queues, word, task, TX, readVersion, readOnly, ending, clock, ret,
                     begun, hist, crashed>>

-----------------------------------------------------------------------------
(* TXend.  Its loops go over queueMap in the order of a HashMap, any order *)
(* here.                                                                   *)
TXend(t) ==
  /\ At(t, "TXend")
  /\ abort' = [abort EXCEPT ![t] = ~TX[t]]
  /\ todo' = [todo EXCEPT ![t] = Map(t)]
  /\ Goto(t, IF TX[t] THEN "lock" ELSE "release")
  /\ UNCHANGED <<GVC, queues, word, lock, task, op, storage, writeVersion, cur, clock, ret,
                 history, crashed>>

(* Mutant: isLockedByMe is set before tryLock has succeeded.               *)
LockQueueNoteFirst(t) ==
  /\ At(t, "lock")
  /\ \/ \E q \in todo[t] :
          /\ CanLock(t, q)
          /\ lock' = [lock EXCEPT ![q] = t]
          /\ queueMap' = [queueMap EXCEPT ![t][q].isLockedByMe = TRUE]
          /\ todo' = [todo EXCEPT ![t] = @ \ {q}]
          /\ UNCHANGED <<abort, pc>>
     \/ \E q \in todo[t] :
          /\ ~CanLock(t, q)
          /\ queueMap' = [queueMap EXCEPT ![t][q].isLockedByMe = TRUE]
          /\ abort' = [abort EXCEPT ![t] = TRUE]
          /\ todo' = [todo EXCEPT ![t] = Map(t)]
          /\ Goto(t, "release")
          /\ UNCHANGED lock
     \/ /\ todo[t] = {}
        /\ todo' = [todo EXCEPT ![t] = Map(t)]
        /\ Goto(t, "validate")
        /\ UNCHANGED <<lock, queueMap, abort>>
  /\ UNCHANGED <<GVC, queues, word, task, op, TX, readVersion, readOnly, writeVersion, cur,
                 clock, ret, history, crashed>>

LockQueue(t) ==
  /\ At(t, "lock")
  /\ \/ \E q \in todo[t] :
          /\ CanLock(t, q)
          /\ lock' = [lock EXCEPT ![q] = t]
          /\ queueMap' = [queueMap EXCEPT ![t][q].isLockedByMe = TRUE]
          /\ todo' = [todo EXCEPT ![t] = @ \ {q}]
          /\ UNCHANGED <<abort, pc>>
     \/ \E q \in todo[t] :
          /\ ~CanLock(t, q)
          /\ abort' = [abort EXCEPT ![t] = TRUE]
          /\ todo' = [todo EXCEPT ![t] = Map(t)]
          /\ Goto(t, "release")
          /\ UNCHANGED <<lock, queueMap>>
     \/ /\ todo[t] = {}
        /\ todo' = [todo EXCEPT ![t] = Map(t)]
        /\ Goto(t, "validate")
        /\ UNCHANGED <<lock, queueMap, abort>>
  /\ UNCHANGED <<GVC, queues, word, task, op, TX, readVersion, readOnly, writeVersion, cur,
                 clock, ret, history, crashed>>

(* Nobody else stores to the word of a locked queue.                       *)
Invalid(t, q) == word[q].version > readVersion[t]
Touched(t, q) == word[q].version = readVersion[t] /\ word[q].singleton

ValidateQueue(t) ==
  /\ At(t, "validate")
  /\ \/ \E q \in todo[t] :
          /\ ~Invalid(t, q) /\ ~Touched(t, q)
          /\ todo' = [todo EXCEPT ![t] = @ \ {q}]
          /\ UNCHANGED <<GVC, abort, pc>>
     \/ \E q \in todo[t] :
          /\ Invalid(t, q) \/ Touched(t, q)
          /\ GVC' = IF Touched(t, q) THEN NextVersion ELSE GVC
          /\ abort' = [abort EXCEPT ![t] = TRUE]
          /\ todo' = [todo EXCEPT ![t] = Map(t)]
          /\ Goto(t, "release")
     \/ /\ todo[t] = {}
        /\ Goto(t, "version")
        /\ UNCHANGED <<GVC, todo, abort>>
  /\ UNCHANGED <<queues, word, lock, task, op, storage, writeVersion, cur, clock, ret,
                 history, crashed>>

(* A transaction that only used queues is read-only and gets version 0.    *)
TakeVersion(t) ==
  /\ At(t, "version")
  /\ GVC' = IF readOnly[t] THEN GVC ELSE NextVersion
  /\ writeVersion' = [writeVersion EXCEPT ![t] = IF readOnly[t] THEN 0 ELSE NextVersion]
  /\ crashed' = (~readOnly[t] /\ NextVersion <= readVersion[t])
  /\ todo' = [todo EXCEPT ![t] = Map(t)]
  /\ Goto(t, "dequeueNodes")
  /\ UNCHANGED <<queues, word, lock, task, op, storage, abort, cur, clock, ret, history>>

(* Where a walk from the head of q is after i steps; Null past the end.    *)
Walk(q) ==
  LET at[i \in 0 .. Len(nodes[q])] ==
        IF i = 0 THEN head[q]
        ELSE IF at[i - 1] = Null THEN Null ELSE nodes[q][at[i - 1]].next
  IN  at

(* How many steps a walk through q makes before it meets stop or the end.  *)
Steps(q, stop) == Min({i \in 0 .. Len(nodes[q]) : Walk(q)[i] \in {Null, stop}})

(* Mutant: the tail is not reset.                                          *)
TailKept(q, n) == tail[q]

(* The tail of q when n becomes its head.                                  *)
TailAfter(q, n) == IF n = Null THEN Null ELSE tail[q]

dequeueNodes(t) ==
  /\ At(t, "dequeueNodes")
  /\ \E q \in todo[t] :
       LET upToNode == queueMap[t][q].nodeToDeq
           steps    == Steps(q, nodes[q][upToNode].next)
           curr     == Walk(q)[steps]
       IN  /\ cur' = [cur EXCEPT ![t] = q]
           /\ \/ upToNode = Null /\ UNCHANGED <<head, tail, size, crashed>>
              \/ /\ upToNode # Null
                 /\ head' = [head EXCEPT ![q] = curr]
                 /\ size' = [size EXCEPT ![q] = @ - steps]
                 /\ tail' = [tail EXCEPT ![q] = TailAfter(q, curr)]
                 /\ crashed' = (curr = Null /\ size'[q] # 0)
  /\ Goto(t, "enqueueNodes")
  /\ UNCHANGED <<GVC, word, lock, nodes, task, op, storage, abort, writeVersion, todo, clock,
                 ret, history>>

(* Nodes for the values vs behind the tail of q.                           *)
Link(q, vs) ==
  LET n   == Len(nodes[q])
      new == [i \in DOMAIN vs |->
                [val |-> vs[i], next |-> IF i < Len(vs) THEN n + i + 1 ELSE Null]]
      old == IF tail[q] = Null THEN nodes[q] ELSE [nodes[q] EXCEPT ![tail[q]].next = n + 1]
  IN  /\ nodes' = [nodes EXCEPT ![q] = old \o new]
      /\ tail' = [tail EXCEPT ![q] = n + Len(vs)]
      /\ head' = IF tail[q] = Null THEN [head EXCEPT ![q] = n + 1] ELSE head
      /\ size' = [size EXCEPT ![q] = @ + Len(vs)]

enqueueNodes(t) ==
  LET lq == queueMap[t][cur[t]]
  IN  /\ At(t, "enqueueNodes")
      /\ \/ lq.elems = <<>> /\ UNCHANGED queues
         \/ lq.elems # <<>> /\ Link(cur[t], lq.elems)
      /\ queueMap' = [queueMap EXCEPT ![t][cur[t]].elems = <<>>]
      /\ Goto(t, "setVersion")
      /\ UNCHANGED <<GVC, word, lock, task, op, TX, readVersion, readOnly, ending, clock, ret,
                     history, crashed>>

setVersion(t) ==
  /\ At(t, "setVersion")
  /\ word' = [word EXCEPT ![cur[t]].version = writeVersion[t]]
  /\ Goto(t, "setSingleton")
  /\ UNCHANGED <<GVC, queues, lock, task, op, storage, ending, clock, ret, history, crashed>>

setSingleton(t) ==
  /\ At(t, "setSingleton")
  /\ word' = [word EXCEPT ![cur[t]].singleton = FALSE]
  /\ todo' = [todo EXCEPT ![t] = @ \ {cur[t]}]
  /\ Goto(t, "dequeueNodes")
  /\ UNCHANGED <<GVC, queues, lock, task, op, storage, abort, writeVersion, cur, clock, ret,
                 history, crashed>>

CommittedAll(t) ==
  /\ At(t, "dequeueNodes")
  /\ todo[t] = {}
  /\ todo' = [todo EXCEPT ![t] = Map(t)]
  /\ Goto(t, "release")
  /\ UNCHANGED <<GVC, queues, word, lock, task, op, storage, abort, writeVersion, cur, clock,
                 ret, history, crashed>>

(* Only a lock noted in isLockedByMe is given back; unlock asserts that    *)
(* the thread owns it.                                                     *)
ReleaseQueue(t) ==
  /\ At(t, "release")
  /\ \E q \in todo[t] :
       /\ todo' = [todo EXCEPT ![t] = @ \ {q}]
       /\ \/ /\ queueMap[t][q].isLockedByMe
             /\ crashed' = (lock[q] # t)
             /\ lock' = [lock EXCEPT ![q] = Null]
             /\ queueMap' = [queueMap EXCEPT ![t][q].isLockedByMe = FALSE]
          \/ /\ ~queueMap[t][q].isLockedByMe
             /\ UNCHANGED <<lock, queueMap, crashed>>
  /\ UNCHANGED <<GVC, queues, word, pc, task, op, TX, readVersion, readOnly, abort,
                 writeVersion, cur, clock, ret, history>>

(* Mutant: queueMap is not cleared.                                        *)
Uncleared(t) == queueMap[t]

Cleared(t) == [q \in Queues |-> NewLocalQueue]

(* The end of TXend: the client goes on, or tries again.                   *)
Cleanup(t) ==
  /\ At(t, "release")
  /\ todo[t] = {}
  /\ queueMap' = [queueMap EXCEPT ![t] = Cleared(t)]
  /\ TX' = [TX EXCEPT ![t] = FALSE]
  /\ readOnly' = [readOnly EXCEPT ![t] = TRUE]
  /\ \/ /\ abort[t]
        /\ UNCHANGED <<task, hist>>
     \/ /\ ~abort[t]
        /\ task' = [task EXCEPT ![t] = @ + 1]
        /\ hist' = Append(hist, [ops |-> log[t], after |-> begun[t]])
  /\ abort' = [abort EXCEPT ![t] = FALSE]
  /\ writeVersion' = [writeVersion EXCEPT ![t] = 0]
  /\ readVersion' = [readVersion EXCEPT ![t] = 0]
  /\ cur' = [cur EXCEPT ![t] = Null]
  /\ op' = [op EXCEPT ![t] = 1]
  /\ log' = [log EXCEPT ![t] = <<>>]
  /\ begun' = [begun EXCEPT ![t] = 0]
  /\ Goto(t, "idle")
  /\ UNCHANGED <<GVC, queues, word, lock, todo, clock, ret, crashed>>

-----------------------------------------------------------------------------
(* Operations outside a transaction.                                       *)
CallSingleton(t) ==
  /\ At(t, "idle")
  /\ Busy(t) /\ ~Task(t).tx
  /\ begun' = [begun EXCEPT ![t] = Len(hist)]
  /\ Goto(t, IF Op(t).op = "isEmpty" THEN "sSize" ELSE "sLock")
  /\ UNCHANGED <<GVC, queues, word, lock, task, op, storage, ending, clock, ret, log, hist,
                 crashed>>

(* isEmpty reads size before it locks.                                     *)
SReadSize(t) ==
  /\ At(t, "sSize")
  /\ ret' = [ret EXCEPT ![t] = size[Op(t).q]]
  /\ Goto(t, "sLock")
  /\ UNCHANGED <<GVC, queues, word, lock, task, op, storage, ending, clock, history, crashed>>

(* lock waits for the lock; the operation is done under it.                *)
SEnqueue(t) ==
  /\ At(t, "sLock") /\ Op(t).op = "enqueue"
  /\ CanLock(t, Op(t).q)
  /\ lock' = [lock EXCEPT ![Op(t).q] = t]
  /\ Link(Op(t).q, <<Op(t).val>>)
  /\ Answer(t, Empty)
  /\ Goto(t, "sClock")
  /\ UNCHANGED <<GVC, word, task, op, storage, ending, clock, ret, begun, hist, crashed>>

SDequeue(t) ==
  LET q == Op(t).q
      n == head[q]
  IN  /\ At(t, "sLock") /\ Op(t).op = "dequeue"
      /\ CanLock(t, q)
      /\ lock' = [lock EXCEPT ![q] = t]
      /\ \/ /\ n = Null
            /\ Answer(t, Empty)
            /\ Goto(t, "sUnlock")
            /\ UNCHANGED <<head, tail, size>>
         \/ /\ n # Null
            /\ head' = [head EXCEPT ![q] = nodes[q][n].next]
            /\ tail' = [tail EXCEPT ![q] = TailAfter(q, nodes[q][n].next)]
            /\ size' = [size EXCEPT ![q] = @ - 1]
            /\ Answer(t, nodes[q][n].val)
            /\ Goto(t, "sClock")
      /\ UNCHANGED <<GVC, word, nodes, task, op, storage, ending, clock, ret, begun, hist,
                     crashed>>

SIsEmpty(t) ==
  /\ At(t, "sLock") /\ Op(t).op = "isEmpty"
  /\ CanLock(t, Op(t).q)
  /\ lock' = [lock EXCEPT ![Op(t).q] = t]
  /\ Answer(t, ret[t] <= 0)
  /\ ret' = [ret EXCEPT ![t] = 0]
  /\ Goto(t, "sClock")
  /\ UNCHANGED <<GVC, queues, word, task, op, storage, ending, clock, begun, hist, crashed>>

(* setVersion(TX.getVersion()) is two steps, setSingleton(true) a third.   *)
SReadClock(t) ==
  /\ At(t, "sClock")
  /\ clock' = [clock EXCEPT ![t] = GVC]
  /\ Goto(t, "sVersion")
  /\ UNCHANGED <<GVC, queues, word, lock, task, op, storage, ending, ret, history, crashed>>

SSetVersion(t) ==
  /\ At(t, "sVersion")
  /\ word' = [word EXCEPT ![Op(t).q].version = clock[t]]
  /\ clock' = [clock EXCEPT ![t] = 0]
  /\ Goto(t, "sFlag")
  /\ UNCHANGED <<GVC, queues, lock, task, op, storage, ending, ret, history, crashed>>

SSetSingleton(t) ==
  /\ At(t, "sFlag")
  /\ word' = [word EXCEPT ![Op(t).q].singleton = TRUE]
  /\ Goto(t, "sUnlock")
  /\ UNCHANGED <<GVC, queues, lock, task, op, storage, ending, clock, ret, history, crashed>>

SUnlock(t) ==
  /\ At(t, "sUnlock")
  /\ crashed' = (lock[Op(t).q] # t)
  /\ lock' = [lock EXCEPT ![Op(t).q] = Null]
  /\ task' = [task EXCEPT ![t] = @ + 1]
  /\ hist' = Append(hist, [ops |-> log[t], after |-> begun[t]])
  /\ log' = [log EXCEPT ![t] = <<>>]
  /\ begun' = [begun EXCEPT ![t] = 0]
  /\ Goto(t, "idle")
  /\ UNCHANGED <<GVC, queues, word, op, storage, ending, clock, ret>>

-----------------------------------------------------------------------------
Step(t) ==
  \/ TXbegin(t) \/ put(t) \/ CheckNewer(t) \/ CheckSame(t) \/ CheckSingleton(t)
  \/ IncrementAndAbort(t) \/ enqueue(t) \/ LockedByOther(t) \/ dequeue(t) \/ isEmpty(t)
  \/ TXend(t) \/ LockQueue(t) \/ ValidateQueue(t) \/ TakeVersion(t) \/ dequeueNodes(t)
  \/ enqueueNodes(t) \/ setVersion(t) \/ setSingleton(t) \/ CommittedAll(t)
  \/ ReleaseQueue(t) \/ Cleanup(t)
  \/ CallSingleton(t) \/ SReadSize(t) \/ SEnqueue(t) \/ SDequeue(t) \/ SIsEmpty(t)
  \/ SReadClock(t) \/ SSetVersion(t) \/ SSetSingleton(t) \/ SUnlock(t)

Done == \A t \in Threads : At(t, "idle") /\ ~Busy(t)

Finished == (Done \/ crashed) /\ UNCHANGED vars

Next == (\E t \in Threads : Step(t)) \/ Finished

Spec == Init /\ [][Next]_vars

FairSpec == Spec /\ \A t \in Threads : WF_vars(Step(t))

-----------------------------------------------------------------------------
(* What a serial queue holds after o, and what it answers.                 *)
After(c, o) ==
  CASE o.op = "enqueue" -> [c EXCEPT ![o.q] = Append(@, o.val)]
    [] o.op = "dequeue" /\ c[o.q] # <<>> -> [c EXCEPT ![o.q] = Tail(@)]
    [] OTHER -> c
Right(c, o) ==
  CASE o.op = "enqueue" -> TRUE
    [] o.op = "dequeue" -> o.ret = (IF c[o.q] = <<>> THEN Empty ELSE Head(c[o.q]))
    [] o.op = "isEmpty" -> o.ret = (c[o.q] = <<>>)

Serial(p) ==
  FoldLeft(LAMBDA acc, o : [ok |-> acc.ok /\ Right(acc.c, o), c |-> After(acc.c, o)],
           [ok |-> TRUE, c |-> Contents],
           FlattenSeq([i \in DOMAIN hist |-> hist[p[i]].ops]))

(* What q holds, from head on.                                             *)
Length(q) == Steps(q, Null)
Held(q)   == [i \in 1 .. Length(q) |-> nodes[q][Walk(q)[i - 1]].val]

(* Whenever nobody is busy, the committed transactions and the singletons  *)
(* have an order, compatible with real time, in which first-in-first-out   *)
(* queues give the answers they got and end with what the queues hold:     *)
(* README.md of the Java library, "atomicity of sequences of data          *)
(* structure operations".                                                  *)
FifoSerializable ==
  (\A t \in Threads : At(t, "idle")) =>
    \E p \in Permutations(DOMAIN hist) :
      /\ \A a, b \in DOMAIN p : p[a] <= hist[p[b]].after => a < b
      /\ LET end == Serial(p) IN end.ok /\ \A q \in Queues : end.c[q] = Held(q)

(* A queue nobody has locked is well formed: size nodes from head to tail, *)
(* after any mixture of dequeueNodes, enqueueNodes and singletons.         *)
Linked ==
  \A q \in Queues : lock[q] = Null =>
    /\ Length(q) = size[q]
    /\ tail[q] = IF size[q] = 0 THEN Null ELSE Walk(q)[size[q] - 1]

(* The assertions of dequeueNodes, TXend and LockQueue.unlock hold.        *)
NoFailedAssert == ~crashed

(* TXend gives back the locks of the queues, "even if abort" (TX.java):    *)
(* a thread outside its transactions and operations has none.              *)
LocksReleased ==
  \A t \in Threads, q \in Queues : At(t, "idle") => lock[q] # t

(* Everybody gets done: a transaction that met a singleton's version, a    *)
(* newer version or a lock is not aborted for ever, and nobody waits for   *)
(* ever for a lock.                                                        *)
Termination == <>Done
=============================================================================
