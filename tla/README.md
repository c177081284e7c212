# A verification development for TransactionalDataStructures

TransactionalDataStructures is a C++ library of transactional containers for
threads of one process, a port of a Java library. A client brackets a group of
map operations with `TXbegin` and `TXend`; the group takes effect atomically or
`TxAbortException` is thrown. Operations called outside a transaction are
"singletons": they act at once and retry until they succeed.

This directory holds TLA+ modules that model the library (the sorted linked list,
the commit protocol, the singleton operations, the skip list above the list, the
reclamation of its nodes, the benchmark client, and the queues of the Java
original), TLC configurations that check them on small instances, and TLAPS proofs
about the list, with transactions alone and mixed with singletons, the skip list,
reclamation and the queues for every size of instance.
Source paths below are relative to the repository root.

## 1. Inventory

| Component | State | Operations | Talks to |
|---|---|---|---|
| `nodes/LNode.h` | key, value, next, and `m_version_mask`: one atomic 64-bit word packing a version, a lock bit, a deleted bit and a singleton bit | `tryLock`, `unlock`, tests, setters (all setters but the `NoLockAssert` ones assert the lock) | read and written by everything below |
| `TX.h` | `gvc`, the global version clock; per thread a `LocalStorage` and a `LocalTransaction` | `TXbegin`, `TXend`, `handle_abort` | locks and stamps nodes, updates the index, retires nodes |
| `LocalStorage.h`, `LocalTransaction.h`, `WriteElement.h` | read set, write set, `indexAdd`, `indexRemove`, read and write version, `readOnly` | insertion, lookup, clearing | thread-local |
| `datatypes/LinkedList.h`, in a transaction | the nodes from `head` | `put`, `remove`, `get`, `containsKey` over `getPred`, `getNext`, `find_node` | reads nodes optimistically, writes only the local storage |
| `datatypes/LinkedList.h`, singletons | the same nodes | `putSingleton`, `removeSingleton`, `getSingleton` over `getPredSingleton`, `find_node_singelton` | lock one or two nodes, stamp them with `gvc` and the singleton flag |
| `nodes/Index.h` | levels of index nodes linked to the right, `HeadIndex` objects linked up and down, `m_head_top`; a mutex per index node and one for the heads | `add`, `remove`, `getPred` | gives every search its starting point; reads the values of list nodes |
| `nodes/record_mgr.h` over `common/recordmgr/` (`record_manager`, `reclaimer_debra`, `pool_none`, `allocator_new`) | a global epoch; per thread an announcement, nine bags, a scan position | `get_new_node`, `retire_node`, guards (`startOp`, `endOp`) | allocates and frees list nodes |
| `nodes/LNodeWrapper.h` | a raw, shared or counted pointer | copying, `is_null`, `safe_get_next` | - |
| `main.cpp` | the task list and its shares | `Worker::work`, `init_linked_list` | the client |
| `banchmark/src/main/Queue.java`, `LocalQueue.java`, `LockQueue.java` and the queue part of `TX.java` | a linked queue, its size, a version word, a reentrant lock; per thread a `LocalQueue` for each queue | `enqueue`, `dequeue`, `isEmpty` in and outside transactions; `TXbegin`, `TXend` | share the clock with the list |
| `datatypes/Queue.h`, `LocalQueue.h`, `nodes/QNode.h` | - | - | the C++ port of the queue: does not compile when instantiated, and its part of `TXend` is commented out |
| `common/`, the rest | - | - | vendored, not reached by the program |

What is hard here:

* **Optimistic reads against in-place commits.** Searches walk without locks
  through nodes another thread is writing back one at a time. What a search has
  read is protected only by the version and lock checks around each read, by the
  read set validated in `TXend`, and by the order in which `TXend` locks,
  validates, takes a version, writes and releases.
* **Partial failure.** The k-th `tryLock` fails, validation fails half-way, an
  operation throws in the middle of a transaction: locks and allocated nodes must
  be given back.
* **Two protocols on one heap.** Singletons do not advance the clock. They stamp
  a node with the *current* clock value, which is also the snapshot of running
  transactions, and rely on the singleton flag to be noticed.
* **Late index updates.** The index is updated after the locks are released, in no
  particular order with other threads' updates.
* **A lock-free reader above the lock-free reader.** The skip list is changed by
  compare-and-swaps under tiny mutexes while searches walk it, come down through
  nodes that die under them, and tidy up as they go; levels open, close and are put
  back by threads that read `m_head_top` long before.
* **Memory that goes away.** A node may be freed only when no guard can reach it. A
  guard announces an epoch it read earlier, with a relaxed store.
* **Locks that outlive an operation.** A transactional `dequeue` locks its queue until
  `TXend`, and the transaction may abort before it gets there.
* **Retries.** Singletons loop until they succeed, and both kinds of search step
  back over deleted nodes. Something has to make them stop.

Each hazard, with its line and the properties that would notice it going wrong, is
in `PROJECT.json`.

## 2. Modules

| Module | Models | Role |
|---|---|---|
| `LNode` | `nodes/LNode.h`, the clock, and the contracts of `Index` and `RecordMgr` | shared memory and the operators on a version word |
| `LinkedListTX` | `TX.h`, `LocalStorage.h`, the transactional half of `LinkedList.h`, `Worker::work` | one action per step of a transaction; the invariants |
| `LinkedListSingleton` | the singleton half of `LinkedList.h` | extends `LinkedListTX`; a thread may call either way, as `Modes` says |
| `Serializability` | the sequential map the comments of `LinkedList.h` describe | the abstract promise: strict serializability of the recorded history |
| `IndexSpec` | what `LinkedList.h` relies on in `Index` | the abstract promise of a search: the head or a live node to the left; every call returns |
| `Index` | `nodes/Index.h` | the skip list; refines `IndexSpec` |
| `Debra` | `reclaimer_debra.h` as `record_mgr.h` uses it | guards, epochs, bags, with store buffers |
| `Queue` | the Java queues and their part of `TX.java` | transactions and singletons on queues, retried until they commit |
| `MCTransactions`, `MCSingleton`, `MCIndex`, `MCDebra`, `MCQueue` | - | the instances TLC checks |
| `LinkedListTX_proofs` | - | theorems about one transaction among others: types, locks, the clock, order |
| `CommittedList_proofs` | - | extends it: what the committed transactions together leave in the list |
| `LinkedListSingleton_proofs` | - | extends `LinkedListTX_proofs`: transactions and singletons on one list |
| `SingletonList_proofs` | - | extends both: what singletons together leave in the list |
| `Index_proofs` | - | theorems about `Index`, and that it implements `IndexSpec` |
| `IndexPurged_proofs` | - | extends it: deleted nodes leave the skip list |
| `Debra_proofs`, `Queue_proofs` | - | theorems about `Debra` and `Queue` |

The list above is modelled with a set `index` in place of the skip list and with memory
that is never reused. `Index` and `Debra` are the other side of those two
interfaces: `IndexSpec` is what `getPred` in `LNode` assumes, and `Debra`'s client is any
program that reaches a node only under a guard that began while the node was in use.
`DebraTx` shows where the list is not such a client.

Some definitions are called mutants in their comment: they are the plausible bugs
each property was tried against, and no specification uses them.

### State

The four fields of `m_version_mask` are a record. Every operation of `LNode.h`
loads the word once and stores it at most once, so what threads can tell apart is
whole words. Where load and store are separate in the code and the node is not
locked (`setSingleton` called by validation, `setVersionAndSingletonNoLockAssert`)
they are separate actions, with the loaded word in the thread's variable `word`.

The write set is a function from nodes to elements, the field `in` telling whether
the `unordered_map` has an entry. `index` is the set of nodes the skip list leads
to; `getPred(k)` may return any of them with a smaller key and a value, or the head:
the list does not need the closest one, and the walk through the levels is not
atomic. `allocated` and `retired` are what `get_new_node` and `retire_node` were
called for; memory is not reused. `crashed` records a failed assertion (asserts are
compiled in) or a null dereference, after which nothing happens.

`log`, `begun` and `hist` are history variables: the calls of the running
transaction with their answers, how many transactions had committed when it began,
and the committed transactions in order of commit.

### Actions and the size of a step

`pc[t]` says where a thread is.

| Labels | Code | Actions |
|---|---|---|
| `idle`, `call` | `Worker::work`, `TXbegin` | `TXbegin`, `Call`, `Return` (inside the last step of each operation) |
| `search`, `chkPred`, `sngPred`, `delPred` | `LinkedList::getPred` | `SearchPred`, `CheckVersion`, `CheckSingleton`, `IncrementAndAbort`, `SkipDeleted` |
| `read`, `chkCur`, `sngCur`, `chkNext`, `sngNext` | `LinkedList::getNext` | `ReadNext`, `CheckVersion`, `CheckSingleton`, `IncrementAndAbort` |
| `cmp` | `find_node`'s loop and the bodies of `put`, `remove`, `get` | `Advance`, `PutFound`, `PutNew`, `Get`, `RemoveAbsent`, `RemoveFound`, `RemoveFinish` |
| `lock` ... `release` | `TXend` up to the release of the locks | `LockNode`, `LockedAll`, `Validate`, `ValidateVersion`, `ValidateSingleton`, `IncrementAndClear`, `setSingletonLoad`, `setSingletonStore`, `ValidatedReadOnly`, `TakeVersion`, `WriteNode`, `StampNode`, `WroteAll`, `ReleaseNode` |
| `release`, `idxAdd`, `idxRemove` | the rest of `TXend`, and `handle_abort` | `AbortEnd`, `UpdateIndex`, `AddToIndex`, `RemoveFromIndex`, `Commit` |
| `s...` | singleton operations | `CallSingleton` and the actions named `S...`, in the order of the code |

A step reads or writes at most one shared word or field, with these exceptions:

* `isLocked(n)` and the first `getVersion(n)` (`CheckVersion`, `Validate`), two loads. Versions
  only grow. If the node is unlocked at the first load and its version old at the second, it was
  old and unlocked at the first: one look at that moment passes too. If the check
  fails, one look at the moment of the load that failed it fails too. The second `getVersion(n)`
  and `isSingleton(n)` of a validation (`TX.h:122`), and the increment of the clock that
  follows them, are steps of their own, and so is the increment in `getPred` and `getNext`.
* `isLocked(n)` followed by the read of `n`'s successor. If a transaction or a singleton
  removal rewrites the node in between, the check that follows finds it locked or
  newer. If a singleton insert does, which changes no version, the successor that was
  read is the one an unlocked node has after the insert, and the step is taken then.
* The fields `put` and `remove` copy from a node of the read set into the write set.
  `TXend` validates them all against one snapshot.
* Read-modify-writes of a word by the thread that holds its lock.
* `tryLock`: load, test and compare-and-swap. Words change under the lock, so a swap
  that fails because the word changed after the load is a `tryLock` that met the other
  thread's lock bit. (The two unlocked stores above can make a swap fail without a
  lock. The caller then starts over or aborts without having changed anything; this
  extra abort is not in the model.)
* `putSingleton` creates the new node and links it in one step: the node is private
  before the link.

The clean-up of `TXend` and `handle_abort` also resets variables nobody reads before
the next `TXbegin`, so that states that differ only in garbage are equal.

**Index.** One step per shared access: a right link, a node's value, `m_head_top`, or a
whole `casRight` or `casHead`, which compare and store under a mutex. An index node is
named by its list node and level, a `HeadIndex` by its number; `loc[t]` holds the local
variables of the call. The client's change of the list (a node gets or loses its value)
is one step with the call that follows it. Two history variables serve `Purged`: `overlap`,
the nodes deleted while `add` was busy with them, and `raced`, whether a bottom-level `casRight`
of `link` or `unlink` has succeeded although what was checked before it (the value of the left
node, the right link of the unlinked entry) had changed. Three things in the code are read the way
they are meant: `is_deleted()` of a wrapper is always false, so the value alone tells
(`Alive`); `levelUp` and `levelDown` are declared to return a `bool` and return nothing,
which the callers ignore; and the `shared_ptr` links are read without synchronisation
while they may be stored to, which the model gives the old or the new value.

**Debra.** `announcedEpoch` is stored relaxed and `epoch` is a plain volatile. On the
machines the code supports (it uses x86 primitives) a store waits in the thread's
store buffer: `Store` puts it there, `Flush` lets it out, and the compare-and-swap and
the fence of `RecordManagerSet::startOp` wait until the buffer is empty. Objects stand for list
nodes. A guard may reach what was in use when it began (`refs`). With `InTransaction` an
operation that ends may leave what it reached in the sets of its transaction (`kept`), for the
next guard to use. What retires ends the transaction: `TXend` and `handle_abort` clear the sets, so
`retire` empties `kept`, and a guard that has retired keeps nothing. Retiring outside a guard is
allowed to a thread that has had one, which is what `handle_abort` does, of nodes nobody else knows.
`deinitThread` does nothing in this reclaimer.

**Queue.** Each look at the version word, at the clock, and at `size` without the lock is a
step; what the lock protects is used in the step that takes it or while it is held. The
stores `setVersion` and `setSingleton` are separate. `prev` links are written and never
read, and are left out. Assertions count as with `java -ea`. `put` is a list operation on a
list nobody else uses: all the queues see of it is `readOnly`. The client is the one
`banchmark/README.md` shows: `TXend` in a `finally` block and a loop until it commits.

## 3. Checks

Bounds: the number of nodes (allocations), the tasks of each thread and with them
the clock and the history. There is no state constraint: every run explores its
whole state space. Two threads suffice for every conflict the code has to resolve,
since each is between one thread and the rest. Two operations to a transaction reach
every way entries of one write set can meet (same node, adjacent nodes, a node the
transaction inserted or deleted itself). Neighbouring keys and a preloaded node
make all of them fight for the same predecessors. Preloaded nodes are given in
descending order of insertion, the way that leaves them with version 0. Fresh nodes
are symmetric: `InitKey` and the tasks never mention them, and no property tells
them apart. The runs with liveness use no symmetry.

In `IndexRace` four levels are the least at which `tryReduceLevel` acts, and the start
states reach it within one removal; two nodes share a key, so a node is replaced by
another one under it, and the calls let the second `add` start while the entry of the
first node is still linked. `MaxHeads` is enough for every level the calls can open.
`DebraGuard` has two threads, one object (objects do not influence each other, and bags are
sets) and epochs up to 14: an object is freed six rotations after it was retired, so all of its
life fits in, whichever thread retires it. Every second guard scans
(`MIN_OPS_BEFORE_READ` is 2 where the code has 20, or 1 under `RAPID_RECLAMATION`); the theorems
hold for every value. In `QueueFifo` two queues, one of them empty, and two threads, one
with two transactions and one with transactions and singletons, reach an aborted `dequeue`, a
commit of two queues, an emptied and a refilled queue.

| Run | What it checks |
|---|---|
| `TxRace` | Two workers on two neighbouring keys, one with a transaction of two operations, the other with one of two and one of one: inserts, removes, and a read-only transaction over both keys, which takes no lock and is validated node by node. A transaction that removed the smaller key searches past the node it deleted. `TXTypeOK`; `LockOwnership`; `Sorted`, of the heap and of every write set; `ClockBound`; `NoLostNode`; `RetiredUnlinked`; `AssertionsHold`; `PresenceSerializable`; the action property `NodeStable`; `Termination` of both workers under weak fairness. |
| `SingletonInsert` | Singleton inserts, updates and lookups are linearizable as to presence and keep the list sorted. |
| `SingletonRemove` | Singleton removals that lock overlapping pairs of nodes, with updates and lookups: lock ownership, no node lost, nothing retired that is still linked, nodes stable outside their lock, and `Termination` under weak fairness: every call returns. The last of the four nodes is never asked for, see section 4 (`LinkedList.h:156`). |
| `Mixed` | Transactions of lookups and an insert against a thread of singleton removals: `PresenceSerializable` across both kinds, `ClockBound`, and the type invariant of the composition. |
| `IndexRace` | Adds, removals and searches of neighbouring nodes by two threads. `LevelsSorted` (links go to larger keys; to an equal one only from the entry of a deleted node); `HeadsLinked`; the code's `Assertions`; `Purged` (no deleted node is reachable at rest, except one deleted while `add` was busy with it, unless a link and an unlink raced, which `IndexLost` exhibits); and `Promise`: the skip list implements `IndexSpec`, the return of every call included. |
| `DebraGuard` | `GuardProtects`: no guard meets a freed object. `ScanInBounds`, `Accounted` (no leak, no double free), `HasBag`. |
| `QueueFifo` | `FifoSerializable`: committed transactions and singletons have an order compatible with real time in which first-in-first-out queues give their answers and end with what the queues hold. `Linked` (size, head and tail agree whenever the queue is unlocked), `NoFailedAssert`, and `Termination` under weak fairness. |

`PresenceSerializable` is the central one. Whenever no operation is under way there is an
order of the committed transactions that respects real time (a transaction that
began after another one committed comes later), in which a sequential map gives
every operation the answer it got, as to whether the key was there, and which
leaves exactly the keys that the list holds. Values are left out of it because of the
disagreement `TxValues` shows.

Deadlock checking is on in every run; the explicit `Finished` step stands for a
process that has ended.

**Fairness.** Weak fairness of each thread's step as a whole: the operating system
schedules every thread, and no step of the library blocks. Nothing is assumed about
which branch a thread takes or about who wins a lock. Aborted transactions are not
retried by `Worker::work`, so two transactions cannot abort each other for ever.
Singletons do retry, and `Termination` holds for them because a retry is
always due to another thread's finite work. In `Index` a thread inside a call is fairly
scheduled; whether it makes another call is up to the client. In `Queue` a thread may wait
for a lock (`lock()` of a singleton); weak fairness of its step is enough in the run,
since a lock that is free stays free or is taken by one of finitely many operations. The
queue client does retry aborted transactions, so that `Termination` says that two of
them do not abort each other for ever, and that a singleton's version, equal to every new
snapshot, is overcome by moving the clock.

## 4. Disagreements

Runs that are expected to end in a violation. Each states what a document, comment
or assertion of the repository says, and TLC's counterexample is an execution of
the code that contradicts it. `PROJECT.json` quotes the lines.

| Run | The code |
|---|---|
| `TxValues` | `get` puts the predecessor in the read set but not the node it found. `put` on an existing key changes only that node, so a reader of the value is not invalidated: a committed transaction can get one key twice with different answers. |
| `TxLost` | `getNext` returns a successor that it found in the write set without the checks it makes on one read from the heap, and `put` copies the link of that node. If another transaction has locked the node and is writing it back, the link is the old one. The version the node is about to get may equal the snapshot, so validation passes, and the write-back unlinks what the other transaction inserted. |
| `IndexLost` | `findPredecessor` "also unlinks indexes to deleted nodes found along the way. Callers rely on this side-effect of clearing indices to deleted nodes" (`Index.h:261`), but a deleted node can stay in the index for ever (`Cleared` is what the comment says). `link` looks at the value of the left node ("so there won't be a race with anyone trying to unlink this", `Index.h:65`) and `unlink` reads the right link of the entry (`Index.h:86`) before `casRight` takes the mutex, and `casRight` compares only the one link. With nodes 1 and 3 in the index, `remove(1)` reads that 3 follows, `add(2)` is linked behind the dying entry of 1, and the unlink makes the head lead to 3: 2 is lost from the bottom level but is in level 1. `remove(3)` comes down through it and unlinks 3 behind 2; the head's link to the deleted 3 stays. |
| `DebraTx` | Each list operation, and `TXend`, takes a guard of its own. Between them the thread is quiescent, and a node of its read or write set that another thread retires in its `TXend` is freed six epochs later, before the transaction looks at it again. |
| `QueueLocks` | `dequeue` and `isEmpty` lock the queue, but `TXend` releases what `isLockedByMe` says, which only its own lock phase sets. A transaction that aborts in an operation leaves the lock taken until the thread runs another transaction on that queue. |

Others met while modelling and described here only. In the C++ library:

* `putSingleton` does not stamp the predecessor whose link it changes (`LinkedList.h:242`).
  A transaction that had read the predecessor validates and overwrites the link: the
  singleton's node is lost.
* `TXend` adds new nodes to the index after it released its locks (`TX.h:223`). A remover can
  commit, take the node out of the index and retire it first; the late add makes the
  retired node reachable again. `Purged` excepts these nodes (`overlap`), and the calls of
  `IndexLost` do not need it: there no node is deleted while it is being added.
* A transaction that fails in `TXend` clears `indexAdd` before it throws (`TX.h:242`);
  `handle_abort` has nothing left to retire and the nodes it allocated are leaked.
* `find_node_singelton` compares the key of `next` but returns `pred->m_next` read again
  (`LinkedList.h:156`). `removeSingleton` removes a node inserted in between, or, when the compared
  node was removed in between, the one behind it. Removals alone also make it null, which
  `getSingleton` dereferences (`LinkedList.h:523`): on a list 2, 3, 4, one thread's `remove(3)` has
  compared 3 and not read again, another one removes 3, and looks up 4 up to the same point; the
  first reads again, removes 4, and the lookup reads null.
* `putSingleton` stores the version of the new node after linking it, without its lock
  (`LinkedList.h:241`): the store erases a lock bit set in between, and the owner's
  `unlock` fails its assertion.
* A singleton search that races a transactional removal misses a key that is there: the
  node it steps to is read again after the check (`LinkedList.h:167`). `Mixed` therefore
  has no transactional removals.
* `insert_in_level` returns when the node has a value (`Index.h:138`), where its comment
  (`Index.h:140`) says "node is exactly being deleted, abort": a live node that meets a
  concurrent link or unlink is left out of the index, and a dead one is tried again.
* `put` returns `m_val` of the node (`LinkedList.h:303`) although the comment at
  `LinkedList.h:271` promises the previous value: the second of two puts of one
  transaction returns the value from before the first.
* `TXend` stamps the nodes of the write set, and an inserted node is not one of them:
  it keeps version 0 (`TX.h:163`) and passes the version check of any older snapshot.
  Only the version of its predecessor protects the reader.
* `find_node_singelton` reads `pred->m_next` again when it moves on
  (`LinkedList.h:167`): with the compared successor removed in between, pred may pass the key
  (an insert in between only makes the step shorter) and a duplicate of it is inserted further on.
* Validation calls `setSingleton(false)` on a read-set node that the thread has not
  locked (`TX.h:124`), and `setSingleton` asserts the lock (`LNode.h:81`).

In the Java queues:

* A transactional `isEmpty` on a queue that is not empty takes the lock and does not enter
  `queueMap` (`Queue.java:427`): `TXend` does not know of it.
* `dequeue` past the last node sets `nodeToDeq` back to null (`Queue.java:355`), so `TXend`
  removes nothing: values that were dequeued stay in the queue.
* `isEmpty` looks at `size` and ignores what the transaction has dequeued itself.
* Queue operations leave `readOnly` set, so a transaction of queue operations only
  stamps its queues with version 0 (`TX.java:144`): a later reader does not see that the
  queue changed, and only the locks order such transactions.
* The singleton `isEmpty` reads `size` without the lock (`Queue.java:385`) and can see the
  moment between `dequeueNodes` and `enqueueNodes` of a commit.

`QueueFifo` keeps clear of these: at most one `dequeue` to a transaction and queue, `isEmpty`
before a `dequeue` of the same queue, transactions over several queues only enqueue, and
the singleton `isEmpty` meets only commits that enqueue. Inside that, everything is
interleaved.

The list flaws shape the passing singleton runs. Insertions and removals of two threads are
separate, because of `LinkedList.h:167` and `LinkedList.h:241`: with both `Sorted` and
`LockOwnership` are false of the code. Separating them does not keep out the null of
`LinkedList.h:156`; that nobody asks for the last node in `SingletonRemove` does, and removing a wrong
node is possible there and breaks none of its properties. `Mixed` has no singleton inserts because
of `LinkedList.h:242`.

## 5. Proofs

`LinkedListTX_proofs` proves, for any sets of threads, nodes, keys and values, any
preloaded list with distinct keys, any tasks and any transaction length (the named
`ASSUME`s of `LNode` and `LinkedListTX`, which TLC evaluates in every run):

| Theorem | Statement |
|---|---|
| `TypeCorrect` | `TXSpec => [](TXTypeOK /\ RefsAllocated)` |
| `LockSafety` | `TXSpec => []LockOwnership` |
| `NoFailedAssertion` | `TXSpec => []AssertionsHold` |
| `ClockSafety` | `TXSpec => []ClockBound` |
| `HeapStable` | `TXSpec => NodeStable` (an action property) |
| `ListSorted` | `TXSpec => []Sorted` |

The inductive invariant comes in layers, each preserved given the ones before it.

1. `TypeInv`: types; every pointer anywhere leads to an allocated node (without it
   the node that `put` allocates could already be linked somewhere, and setting its
   key would break the order); a worker asks for a task only while it has one.
2. `LockInv`: `LockOwnership` is not inductive, because `StampNode` writes the word of
   `pred[t]` and `ReleaseNode` that of a locked node. It needs to be known that from
   the end of the lock phase to the end of the write-back the write set is locked and
   the write-back stays inside it (`WriteSetLocked`), that locks are held in `TXend`
   only (`LocksInTXend`), and that no node has the singleton flag (`NoSingletons`), which
   is what keeps validation from storing to unlocked words.
3. `ClockInv`: a version that was taken is at least that of every node its owner has
   locked (`WriteVersionNew`), so that stamping never takes a version back.
4. `OrderInv`: the links in the heap *and* those waiting in write sets ascend, and so does
   what each search has found (`SearchOrdered`): `pred` is before the key, `next` after
   `pred`, and in the second half of `remove` the victim after its predecessor, which
   gives the unlinking `prev -> next` by transitivity.

`OrderInv` does not rest on `ClockInv`: the list stays sorted even among
transactions that are going to abort, because keys never change and every link
that is written was justified by keys alone. What versions and validation are for
is the next module.

`CommittedList_proofs` is about transactions together, from the same assumptions:

| Theorem | Statement |
|---|---|
| `InsertsKept` | `TXSpec /\ [][NoBlindPut]_vars => []NoLostNode` |
| `SingleOpsKept` | `OpsPerTx = 1` implies `TXSpec => []NoLostNode` |
| `RetiredForGood` | `TXSpec /\ [][NoBlindPut]_vars => []((no node is locked) => RetiredUnlinked)` |

`NoLostNode` without a proviso is false of the code, which is how `TxLost` was found:
the proof of the step `PutFound` left over the case in which the link comes from a node
that nobody has checked. `NoBlindPut` excludes exactly that step: a `put` whose predecessor is
in the write set and whose node is not, while the node is locked. A transaction of one operation
never takes it, hence `SingleOpsKept`; `TxRace` reaches no state in which it does harm.

1. A transaction takes effect when it takes its write version, although the write-back takes
   many steps more. The *committed list* (`NextC`, `LiveC`) is the heap with every write-back
   under way completed. It changes in one step, `TakeVersion`.
2. The *view* of a running transaction (`NextS`, `LiveS`) is the committed list with its write
   set on top. Each view is a `Chain`: live nodes lead to live nodes, no two to the same one, and
   each but the head has a predecessor; or the transaction is `Lost`: its write set has a node
   that is `Doomed`, one that has or is about to get a version newer than the snapshot, so
   that validation will fail.
3. What a search knows (`SearchKnows`) is therefore a disjunction: the node it stands on is in
   its view and the next one follows it there, or the node is doomed, or the transaction
   is lost. The checks of `getPred` and `getNext` make sure that the write-back of the node was not
   already under way when the transaction began (`Clean`).
4. When a transaction commits, the new committed list is its view, and it must be a
   chain under everybody else's write set too (`ChainsCompose`). For that it is enough that the
   write sets of transactions that are not lost are disjoint from what was written; no
   argument about the kinds of operations is needed.
5. With no node locked no write-back is under way, the committed list is the heap, and a chain
   that ascends reaches every live node: the least unreached key would have a
   predecessor with a smaller key.

`RetiredUnlinked` during somebody's write-back is stronger than `RetiredForGood` (a removed
node may be reachable in the heap half-way through another commit only by links that are about
to change) and is model-checked.

`LinkedListSingleton_proofs` is about transactions and singletons on one list, from the same
assumptions (any thread may call either way):

| Theorem | Statement |
|---|---|
| `CompositionTypes` | `Spec => [](TypeOK /\ RefsAllocated)` |
| `CompositionClock` | `Spec => []ClockBound` |
| `GetsAreSafe` | `OnlyGets` implies `Spec => [](LockOwnership /\ AssertionsHold /\ Sorted) /\ NodeStable` |
| `RemovesAreSafe` | `OnlyRemoves` implies the same |
| `OneUpdaterIsSafe` | `OneUpdater(u)`, for a thread `u`, implies the same |

Types and the clock hold as they are. The rest is false of the code for an arbitrary mix
(section 4), so the other theorems are about a way to use the list:

* `OnlyGets`: transactions, and threads that only look keys up outside them;
* `OnlyRemoves`: no transactions and no puts, any number of threads;
* `OneUpdater(u)`: no transactions, `u` puts, removes and looks up, all other threads look up.

They rest on lemmas (`CompositionLocks`, `CompositionStable`, `CompositionSorted`,
`CompositionAssertions`) that say what three stores of the code, which act on a value read or
compared before, have to find:

* `StoresLikeCAS`: the two stores to the word of a node that is not locked, `setSingleton(false)` in
  validation (`TX.h:124`) and the stamp of a new node that is already linked (`LinkedList.h:241`),
  find the word they loaded. A compare-and-swap would make sure; the plain store erases a lock or a
  deletion.
* `StampsFresh`: the new node is stamped before another thread has locked it. The version was
  taken before the word was loaded, so a compare-and-swap would not be enough: the stamp could
  take a version back.
* `MovesBefore`: the node `find_node_singelton` moves to (`LinkedList.h:167`), a second read of
  `pred->m_next`, is still before the key to put.

These are not assumptions about the code but obligations of the theorems. With `OnlyGets` and
`OnlyRemoves` the steps in question do not occur. With `OneUpdater` they do, and `UpdaterInv` shows that
each finds what it must: searches of other threads change no node; a node nobody has stamped has
the word it was made with; and the successor the updater compared still follows `pred` when it moves on.
TLC checked `UpdaterInv` and the conclusions with a thread of three puts, removes or lookups next to a
reader (630,064 states) before they were proved. `CompositionAssertions` leaves one call that could
fail an assertion, `setSingleton(false)` in validation, which none of the three uses reaches.

The layers are those of `LinkedListTX_proofs` with what a singleton knows at each label:
`STypeInv` adds its pointers; `SClockInv` its version and the loaded word; `SLockInv`, in place of
`LockInv`, says exactly which nodes a thread has locked from where it is (`SHolds`: pred, the
victim, both, or none), since `NoSingletons` is no longer true; `SStampInv` that the version about to be
stamped is no older than that of the locked nodes; `SOrderInv` that `pred` of a singleton put is before
its key, and the successor it has checked under the lock behind it. A singleton removal needs no such
knowledge: it links `pred` to the successor of its successor, and both links ascend.
The lemmas about the steps of a transaction are those of `LinkedListTX_proofs`, used without the
assumption that no node has the singleton flag.

`SingletonList_proofs` is about a list that is used outside transactions only:

| Theorem | Statement |
|---|---|
| `RemovesKept` | `OnlyRemoves` implies `Spec => [](NoLostNode /\ RetiredUnlinked)` |
| `OneUpdaterKept` | `OneUpdater(u)` implies the same |

Both follow from the lemma `SingletonsKept`, whose two hypotheses (`StoresLikeCAS`, of which only the
stamp of a new node is left without transactions, and `MovesBefore`) the invariants of the last
module discharge. Unlike `RetiredForGood`, the theorems speak of every state: a singleton takes effect in one store, so there is no half-written list.
`SListInv` says so. The nodes in the list, `InList`, are those handed out and not deleted, less
the ones that a removal has unlinked and not yet marked (`Cut`), and they are a chain in memory
at any time; what was checked under the lock of `pred`, that it is not deleted and that `next`
follows it, stays true until the lock is released (`AtWork`). A link adds a node to the chain and
an unlinking takes one out, which are the lemmas `ChainInsert` and `ChainRemove` of
`CommittedList_proofs`; all other steps leave chain and set alone. The walk along a chain that
ascends meets exactly `InList`, a node that nobody has locked is not cut, and a retired one
is deleted. TLC checked the parts of `SListInv` under the two hypotheses of the lemma on a mix of puts and
removals (682,161 states) before they were proved.

`Index_proofs` proves, for any threads, nodes, keys, numbers of levels and heads, start
states and calls (`KeyAssumption`, `BoundAssumption`, `StartAssumption`, `CallsAssumption`):

| Theorem | Statement |
|---|---|
| `IndexTypes` | `Spec => []IndexTypeOK` |
| `LevelsStaySorted` | `Spec => []LevelsSorted` |
| `HeadsStayLinked` | `Spec => []HeadsLinked` |
| `AssertionsHold` | `Spec => []Assertions` |
| `IndexKeepsPromise` | `Spec => spec!Init /\ [][spec!Next]_(spec!vars)`, the safety half of `Promise` |

`IndexInv` rests on what cannot become false. Level and key of an index node never change and
a node that was deleted is not added again, so that what a search carries (`prev` left of the
key at its level, `next` right of it, and the same for all entries of `prevs` and `nexts`) stays
true however old it is (`ThreadInv`). A level gets the entry of a node only from the
call of `add` for it; before that nobody knows the entry (`KnownInv`), so `next` is never the
entry `add` is about to link. For the heads, `HeadInv` orders them by creation and `ChainInv`
says that those in use are a chain; a head that `tryReduceLevel` has dropped belongs to the one
call that dropped it until it restores it (`DropInv`), so that a level opened
meanwhile and the restored one cannot both be on top. `ClientInv` and `OfferedInv` are the client's
side: one call of `add` per node, for a live node.

The first form of `LevelsSorted` asked for strictly larger keys, and the attempt to prove it
failed for a reason: the entry of a deleted node is passed by searches for its own key, so
the entry of a new node with that key is linked behind it. The invariant
now says so, and the calls of `IndexRace` reach the case.

`IndexPurged_proofs` proves, from the same assumptions:

| Theorem | Statement |
|---|---|
| `IndexPurged` | `Spec => []Purged` |

`Purged` has two exceptions, and the code meets both: the late `add` of a node that is being deleted
(`overlap`), and a bottom-level `casRight` that went through although what was checked before it had
changed (`raced`), which the run `IndexLost` exhibits. The theorem says that there is no third way to
leave a deleted node behind. It is about states in which nothing happens, so that all of the argument is in `PurgeInv`. As
long as no bottom link was lost to a race, a live node that a link or a search has come across is
reachable at the bottom level (`Reached`). For that, `add` must link the bottom level first and
nobody may know its node before (`BottomFirst`), and only deleted nodes may be unlinked
(`UnlinksDead`; values do not come back). Therefore the walk of a removal along the bottom level, whenever
the node it stands at is live, is in the reachable part, and as keys ascend there it
cannot pass its node without meeting it (`WalkFinds`): a deleted node that is reachable has a removal that is
still searching (`Swept`), and none is when nobody is in a call. What is reachable is the least set
closed under the links, so that the lemmas about it (what an unlink takes away, what a link adds) need no
induction. TLC has checked the parts of `PurgeInv` on `IndexRace` and on an instance
in which races do occur.

`Debra_proofs` proves, for any number of threads, any objects, any scan frequency and any
bound on the epoch (`DebraAssumption`):

| Theorem | Statement |
|---|---|
| `GuardSafety` | `Spec => []GuardProtects` |
| `ScanSafety` | `Spec => []ScanInBounds` |
| `BagSafety` | `Spec => []Accounted` |
| `RetireReady` | `Spec => []HasBag` |

`GuardProtects` is far from inductive: it says nothing of epochs. The inductive
invariant `IInv` adds:

1. `DebraTypeOK`, `EpochInv` (epochs are even, a thread's copy is one it has read, and
   until it has read one it has no bag and has retired nothing), `RetiredInv`.
2. `AnnounceInv`: the announcement of the running operation is the youngest store of
   its thread, and inside a guard it is in memory. This is what the fence is for.
3. `ScanInv`: a thread whose copy is the current epoch has not yet checked everyone. Together
   with the reset at a new epoch it keeps the scan in bounds.
4. `GuardInv`: the guard of `t` holds back the epoch. It is at most one increment ahead of
   the epoch in which `t` entered, and when it is, no scan of that epoch has got past `t`,
   because `t`'s announcement is older and not quiescent. It does not matter how stale the
   announcement is: an older one stops a scan just as well.
5. `BagInv`: an object that `t` may reach was retired after `t` entered, and a thread rotates
   its bags only on a new epoch. So if the bag that holds it was rotated `k` times since, its
   owner has read an epoch `k - 1` increments ahead of the one `t` entered in. The
   rotation that frees the bag is the sixth and would need five increments; `GuardInv`
   allows one.

The prover is not told a memory model: the store buffer is part of the specification,
and total store order the assumption it stands for. `endOp`'s store is relaxed as well; on a
machine that may reorder it with the reads of the guard before it, the theorem would
not apply.

`Queue_proofs` proves, for any threads, queues, contents and tasks (`NullAssumption`,
`ContentsAssumption`, `TasksAssumption`: a task has an operation, and a singleton is one operation on
a queue). The limits `QueueFifo` keeps to do not apply: transactions that leak locks or dequeue
past the end are included.

| Theorem | Statement |
|---|---|
| `QueueAssertions` | `Spec => []NoFailedAssert` |
| `QueueWellFormed` | `Spec => []Linked` |

`QueueInv` says of every queue that it is a run of consecutive nodes up to the last one made
(`Shape`: nodes are numbered in the order of their creation and enqueued at the end), and of every
thread which locks it relies on (`LockOK`) and that the last node it has dequeued but not yet
removed is still in a queue it has locked (`DeqOK`). The second needs the first: a dequeued node stays where it is because the transaction holds the lock, from
`dequeue` through the lock phase of `TXend`, which finds the lock its own. `isLockedByMe` implies
the lock until the release loop has come to the queue; that the converse fails is what `QueueLocks`
shows, and no assertion depends on it. What the walk from `head` meets is a recursive function; that
it goes from node `h` to `h + i` in `i` steps is proved by the least-number principle (a least `i`
for which it does not), which `WFMin` and `NatLessThanWellFounded` give without an
operator parameter.

Only model-checked:

* liveness, the liveness half of `Promise` included: fairness and `ENABLED` are outside the
  prover's reach;
* `PresenceSerializable` and `FifoSerializable`, which speak about permutations of a history;
* `RetiredUnlinked` while a transaction has a node locked;
* `NoLostNode` and `RetiredUnlinked` when transactions and singletons share a list.

## 6. Not modelled

* The composition of list, skip list and reclamation in one state space: the list is
  checked against the promise of the skip list (`IndexSpec`, the set `index`) and with
  memory that is not reused, each of the other two against its own client.
* The C++ `Queue`, `LocalQueue`, `QNode`: they do not compile when instantiated (Java
  leftovers in the templates) and are not wired into the library. `putIfAbsent` does not compile
  when instantiated either. `dummyIndex.h` is included (`LinkedList.h:10`) and not used.
* The Java list and index: the C++ code is their port and is modelled instead.
* `deinit_list`, `get_sum_key`, printing, option parsing, timing: single-threaded.
* `common/` apart from the reclaimer in use. It makes up nine tenths of the lines
  in the repository (atomic primitives, RLU, range-query providers, the other
  reclaimers, pools and allocators, statistics) and is third-party. The library and its
  benchmark reach none of it, so that no behaviour of this system would be modelled by
  it. `blockbag`, which the reclaimer does use, is a bag of pointers of one thread and
  appears as a set.
* The bit layout of the version words and their widths.
* Weaker memory than total store order. `m_version_mask` and `gvc` are sequentially
  consistent atomics; `m_next`, `m_val`, the links of the skip list and the Java fields read
  without the lock are plain and may be read while they are written. The model gives such a
  read the old or the new value, which is what the supported builds produce for
  word-sized fields.

## 7. Plan

1. `RetiredUnlinked` in every state: what may still link a removed node is a node that the
   remover, or a later writer, has locked and not yet written.
2. The version word at bit level: the masks and setters of `LNode.h` against the record.
