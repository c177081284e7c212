---------------------------- MODULE Queue_proofs ----------------------------
(***************************************************************************)
(* The queues stay well formed and no assertion of them fails, whatever    *)
(* transactions and singletons do with them.                               *)
(*                                                                         *)
(* Nodes are numbered in order of creation and enqueued at the end, so     *)
(* that a queue is always a run of consecutive nodes up to the last one    *)
(* made (Shape).  The nodes that a transaction has dequeued stay where     *)
(* they are until TXend, because the transaction has the lock (DeqOK).     *)
(***************************************************************************)
EXTENDS Queue, WellFoundedInduction, NaturalsInduction, TLAPS

-----------------------------------------------------------------------------
Items == Vals \cup {Empty}
Node  == [val : Items, next : Nat \cup {Null}]

LocalQueue == [in : BOOLEAN, elems : Seq(Items), firstDeq : BOOLEAN, nodeToDeq : Nat \cup {Null},
               isLockedByMe : BOOLEAN]

InOp       == {"op", "checkSame", "checkFlag", "increment", "enqueue", "dequeue", "isEmpty"}
SBefore    == {"sSize", "sLock"}
SLocked    == {"sClock", "sVersion", "sFlag", "sUnlock"}
CommitLoop == {"enqueueNodes", "setVersion", "setSingleton"}
AllLocked  == {"validate", "version", "dequeueNodes"} \cup CommitLoop
EndLabels  == {"lock", "release"} \cup AllLocked
Labels     == {"idle", "TXend"} \cup InOp \cup SBefore \cup SLocked \cup EndLabels

(* The types of the variables the argument is about.                       *)
QueueTypeOK ==
  /\ GVC \in Nat
  /\ head \in [Queues -> Nat \cup {Null}]
  /\ tail \in [Queues -> Nat \cup {Null}]
  /\ size \in [Queues -> Int]
  /\ nodes \in [Queues -> Seq(Node)]
  /\ lock \in [Queues -> Threads \cup {Null}]
  /\ pc \in [Threads -> Labels]
  /\ task \in [Threads -> Nat \ {0}]
  /\ op \in [Threads -> Nat \ {0}]
  /\ readVersion \in [Threads -> Nat]
  /\ queueMap \in [Threads -> [Queues -> LocalQueue]]
  /\ todo \in [Threads -> SUBSET Queues]
  /\ cur \in [Threads -> Queues \cup {Null}]
  /\ crashed \in BOOLEAN

(* A thread in an operation has one to do.                                 *)
OpOK(t) ==
  /\ pc[t] \in InOp \cup SBefore \cup SLocked => Busy(t) /\ op[t] \in DOMAIN Task(t).ops
  /\ pc[t] \in {"idle"} \cup SBefore \cup SLocked => op[t] = 1
  /\ pc[t] \in {"checkSame", "checkFlag"} => Op(t).op # "put"

(* The locks a thread relies on: those of a singleton, and in TXend those  *)
(* of the queues its loops have dealt with.  What isLockedByMe notes is    *)
(* locked until the loop that releases has come to it.                     *)
LockOK(t) ==
  /\ pc[t] \in SLocked => lock[Op(t).q] = t
  /\ pc[t] \in AllLocked => \A q \in Map(t) : lock[q] = t
  /\ pc[t] \in EndLabels => todo[t] \subseteq Map(t)
  /\ pc[t] \in CommitLoop => cur[t] \in todo[t]
  /\ pc[t] = "lock" => \A q \in Map(t) \ todo[t] : lock[q] = t
  /\ \A q \in Queues : queueMap[t][q].isLockedByMe =>
       /\ pc[t] \in EndLabels
       /\ pc[t] # "release" \/ q \in todo[t] => lock[q] = t

(* The node t has dequeued last, as long as it has not left the queue.     *)
Waiting(t, q) ==
  /\ queueMap[t][q].nodeToDeq # Null
  /\ pc[t] # "release"
  /\ pc[t] = "dequeueNodes" => q \in todo[t]
  /\ pc[t] \in CommitLoop => q \in todo[t] \ {cur[t]}

DeqOK(t) ==
  /\ pc[t] \in {"idle"} \cup SBefore \cup SLocked => \A q \in Queues : queueMap[t][q].nodeToDeq = Null
  /\ \A q \in Queues : Waiting(t, q) =>
       /\ lock[q] = t
       /\ head[q] # Null
       /\ queueMap[t][q].nodeToDeq \in head[q] .. Len(nodes[q])

(* A queue is empty, or the nodes from head to the last one made.          *)
Shape(q) ==
  \/ head[q] = Null /\ tail[q] = Null /\ size[q] = 0
  \/ /\ head[q] \in 1 .. Len(nodes[q])
     /\ tail[q] = Len(nodes[q])
     /\ size[q] = Len(nodes[q]) - head[q] + 1
     /\ \A i \in head[q] .. Len(nodes[q]) :
          nodes[q][i].next = IF i < Len(nodes[q]) THEN i + 1 ELSE Null

ThreadOK(t) == OpOK(t) /\ LockOK(t) /\ DeqOK(t) /\ readVersion[t] <= GVC

QueueInv ==
  /\ QueueTypeOK
  /\ \A t \in Threads : ThreadOK(t)
  /\ \A q \in Queues : Shape(q)
  /\ ~crashed

-----------------------------------------------------------------------------
(* Walks *)

(* A set of natural numbers has a smallest element.                        *)
LEMMA LeastNatural ==
  ASSUME NEW S \in SUBSET Nat, S # {}
  PROVE  \E n \in S : \A m \in S : n <= m
<1> DEFINE R == OpToRel(<, Nat)
<1>1. PICK n \in S : \A m \in S : ~(<<m, n>> \in R)
  <2>1. IsWellFoundedOn(R, Nat) BY NatLessThanWellFounded
  <2> HIDE DEF R
  <2> QED BY <2>1, WFMin
<1>2. \A m \in S : ~(m < n) BY <1>1 DEF OpToRel
<1> QED BY <1>2

(* A walk through a well-formed queue counts its nodes up.                 *)
LEMMA WalkOf ==
  ASSUME QueueTypeOK, NEW q \in Queues, Shape(q)
  PROVE  \A i \in 0 .. Len(nodes[q]) :
           Walk(q)[i] = IF head[q] # Null /\ head[q] + i <= Len(nodes[q]) THEN head[q] + i ELSE Null
<1> DEFINE N    == Len(nodes[q])
           g    == [i \in 0 .. N |-> IF head[q] # Null /\ head[q] + i <= N THEN head[q] + i ELSE Null]
           Is(f) == f = [i \in 0 .. N |-> IF i = 0 THEN head[q]
                                          ELSE IF f[i - 1] = Null THEN Null ELSE nodes[q][f[i - 1]].next]
<1>1. N \in Nat BY DEF QueueTypeOK
<1>2. Is(g)
  <2>1. CASE head[q] = Null BY <1>1, <2>1
  <2>2. CASE head[q] # Null
    <3>1. /\ head[q] \in 1 .. N
          /\ \A i \in head[q] .. N : nodes[q][i].next = IF i < N THEN i + 1 ELSE Null
      BY <2>2 DEF Shape
    <3>2. Null \notin Nat BY NullAssumption
    <3>3. ASSUME NEW i \in 0 .. N
          PROVE  g[i] = IF i = 0 THEN head[q]
                        ELSE IF g[i - 1] = Null THEN Null ELSE nodes[q][g[i - 1]].next
      <4>1. CASE i = 0 BY <1>1, <3>1, <3>2, <4>1
      <4>2. CASE i # 0 /\ head[q] + i - 1 <= N
        <5>1. i - 1 \in 0 .. N /\ g[i - 1] = head[q] + i - 1 BY <1>1, <2>2, <3>1, <4>2
        <5>2. g[i - 1] \in head[q] .. N /\ g[i - 1] # Null BY <1>1, <3>1, <3>2, <4>2, <5>1
        <5>3. nodes[q][g[i - 1]].next = IF head[q] + i <= N THEN head[q] + i ELSE Null
          <6>1. nodes[q][g[i - 1]].next = IF g[i - 1] < N THEN g[i - 1] + 1 ELSE Null BY <3>1, <5>2
          <6> QED BY <1>1, <3>1, <5>1, <6>1
        <5>4. g[i] = IF head[q] + i <= N THEN head[q] + i ELSE Null BY <2>2
        <5> QED BY <4>2, <5>2, <5>3, <5>4
      <4>3. CASE i # 0 /\ head[q] + i - 1 > N
        <5>1. i - 1 \in 0 .. N /\ g[i - 1] = Null BY <1>1, <3>1, <4>3
        <5> QED BY <1>1, <3>1, <4>3, <5>1
      <4> QED BY <1>1, <3>1, <4>1, <4>2, <4>3
    <3> QED BY <3>3
  <2> QED BY <2>1, <2>2
<1>3. Walk(q) = CHOOSE f : Is(f) BY DEF Walk
<1>4. Is(Walk(q))
  <2> HIDE DEF g, Is
  <2> QED BY <1>2, <1>3
<1>5. SUFFICES \A i \in 0 .. N : Walk(q)[i] = g[i] OBVIOUS
<1>6. SUFFICES ASSUME {i \in 0 .. N : Walk(q)[i] # g[i]} # {} PROVE FALSE OBVIOUS
<1>7. PICK i \in 0 .. N : Walk(q)[i] # g[i] /\ \A j \in 0 .. N : Walk(q)[j] # g[j] => i <= j
  <2> DEFINE S == {i \in 0 .. N : Walk(q)[i] # g[i]}
  <2>1. S \in SUBSET Nat /\ S # {} BY <1>1, <1>6
  <2>2. PICK n \in S : \A m \in S : n <= m
    <3> HIDE DEF S
    <3> QED BY <2>1, LeastNatural
  <2> QED BY <2>2
<1>8. /\ Walk(q)[i] = IF i = 0 THEN head[q]
                      ELSE IF Walk(q)[i - 1] = Null THEN Null ELSE nodes[q][Walk(q)[i - 1]].next
      /\ g[i] = IF i = 0 THEN head[q]
                ELSE IF g[i - 1] = Null THEN Null ELSE nodes[q][g[i - 1]].next
  <2> HIDE DEF g
  <2> QED BY <1>2, <1>4
<1>9. i # 0 => i - 1 \in 0 .. N /\ ~(i <= i - 1) BY <1>1
<1> HIDE DEF g, Is
<1> QED BY <1>7, <1>8, <1>9

(* In a well-formed queue the walk of dequeueNodes up to the successor of  *)
(* node u makes a step for every node from the head to u, and a walk to    *)
(* the end one for every node.                                             *)
LEMMA StepsOf ==
  ASSUME QueueTypeOK, NEW q \in Queues, Shape(q)
  PROVE  /\ Steps(q, Null) = size[q]
         /\ head[q] # Null => \A u \in head[q] .. Len(nodes[q]) :
              LET k == Steps(q, nodes[q][u].next)
              IN  k = u - head[q] + 1 /\ Walk(q)[k] = nodes[q][u].next
<1> DEFINE N == Len(nodes[q])
<1>1. N \in Nat /\ Null \notin Nat BY NullAssumption DEF QueueTypeOK
<1>2. \A i \in 0 .. N : Walk(q)[i] = IF head[q] # Null /\ head[q] + i <= N THEN head[q] + i ELSE Null
  BY WalkOf
<1>3. ASSUME NEW k \in 0 .. N, NEW stop, Walk(q)[k] \in {Null, stop},
             \A j \in 0 .. N : Walk(q)[j] \in {Null, stop} => k <= j
      PROVE  Steps(q, stop) = k
  <2> DEFINE S == {i \in 0 .. N : Walk(q)[i] \in {Null, stop}}
  <2>1. k \in S /\ \A j \in S : k <= j BY <1>3
  <2>2. S \subseteq Nat BY <1>1
  <2>3. Steps(q, stop) = CHOOSE x \in S : \A y \in S : x <= y BY DEF Steps, Min
  <2> HIDE DEF S
  <2>4. PICK x \in S : x = Steps(q, stop) /\ \A y \in S : x <= y BY <2>1, <2>3
  <2>5. x <= k /\ k <= x BY <2>1, <2>4
  <2> QED BY <2>1, <2>2, <2>4, <2>5
<1>4. CASE head[q] = Null
  <2>1. size[q] = 0 BY <1>1, <1>4 DEF Shape
  <2>2. Walk(q)[0] = Null BY <1>1, <1>2, <1>4
  <2> QED BY <1>1, <1>3, <1>4, <2>1, <2>2
<1>5. CASE head[q] # Null
  <2>1. /\ head[q] \in 1 .. N /\ size[q] = N - head[q] + 1
        /\ \A i \in head[q] .. N : nodes[q][i].next = IF i < N THEN i + 1 ELSE Null
    BY <1>5 DEF Shape
  <2>2. ASSUME NEW u \in head[q] .. N, NEW stop, stop = IF u < N THEN u + 1 ELSE Null
        PROVE  Steps(q, stop) = u - head[q] + 1 /\ Walk(q)[u - head[q] + 1] = stop
    <3> DEFINE k == u - head[q] + 1
    <3>1. k \in 0 .. N /\ head[q] + k = u + 1 BY <1>1, <2>1
    <3>2. Walk(q)[k] = stop BY <1>1, <1>2, <1>5, <2>1, <2>2, <3>1, SMTT(30)
    <3>3. \A j \in 0 .. N : Walk(q)[j] \in {Null, stop} => k <= j
      <4> SUFFICES ASSUME NEW j \in 0 .. N, j < k PROVE Walk(q)[j] \notin {Null, stop}
        BY <1>1, <3>1
      <4>1. Walk(q)[j] = head[q] + j /\ head[q] + j \in Nat /\ head[q] + j <= u BY <1>1, <1>2, <1>5, <2>1, SMTT(30)
      <4> QED BY <1>1, <2>1, <2>2, <4>1
    <3> HIDE DEF k
    <3>4. Steps(q, stop) = k BY <1>3, <3>1, <3>2, <3>3
    <3> QED BY <3>2, <3>4 DEF k
  <2>3. Steps(q, Null) = size[q] BY <1>1, <2>1, <2>2
  <2> QED BY <1>5, <2>1, <2>2, <2>3
<1> QED BY <1>4, <1>5

-----------------------------------------------------------------------------
(* Operations *)

(* A thread with an operation knows its queue.                             *)
LEMMA OpFacts ==
  ASSUME QueueTypeOK, NEW t \in Threads, Busy(t)
  PROVE  /\ Task(t).ops \in Seq(Operation) /\ Len(Task(t).ops) \in Nat /\ Len(Task(t).ops) > 0
         /\ ~Task(t).tx => Len(Task(t).ops) = 1
         /\ \A i \in DOMAIN Task(t).ops :
              /\ Task(t).ops[i] \in Operation
              /\ Task(t).ops[i].q \in Queues
              /\ Task(t).ops[i].val \in Items
              /\ Task(t).ops[i].op \in {"enqueue", "dequeue", "isEmpty", "put"}
<1>1. Tasks[t] \in Seq([tx : BOOLEAN, ops : Seq(Operation)]) BY TasksAssumption
<1>2. task[t] \in DOMAIN Tasks[t] BY <1>1 DEF QueueTypeOK, Busy
<1>3. Task(t) \in [tx : BOOLEAN, ops : Seq(Operation)]
  <2> DEFINE T == [tx : BOOLEAN, ops : Seq(Operation)]
  <2>1. Tasks[t] \in Seq(T) BY <1>1
  <2> HIDE DEF T
  <2>2. Task(t) \in T BY <1>2, <2>1 DEF Task
  <2> QED BY <2>2 DEF T
<1>4. Task(t).ops \in Seq(Operation) BY <1>3
<1>5. Len(Task(t).ops) > 0 /\ (~Task(t).tx => Len(Task(t).ops) = 1) BY <1>2, TasksAssumption DEF Task
<1>6. \A o \in Operation : o.q \in Queues /\ o.val \in Items
                           /\ o.op \in {"enqueue", "dequeue", "isEmpty", "put"}
  BY DEF Operation, enq, deq, empty, listPut, Items
<1>7. \A i \in DOMAIN Task(t).ops : Task(t).ops[i] \in Operation BY <1>4
<1> QED BY <1>4, <1>5, <1>6, <1>7

(* The operation a thread is at.                                           *)
LEMMA AtOp ==
  ASSUME QueueInv, NEW t \in Threads, pc[t] \in InOp \cup SBefore \cup SLocked
  PROVE  Busy(t) /\ Op(t).q \in Queues /\ Op(t).val \in Items
         /\ Op(t).op \in {"enqueue", "dequeue", "isEmpty", "put"}
<1>1. QueueTypeOK /\ Busy(t) /\ op[t] \in DOMAIN Task(t).ops BY DEF QueueInv, ThreadOK, OpOK
<1> QED BY <1>1, OpFacts DEF Op

(* GoOn leads to an operation or to TXend.                                 *)
LEMMA GoesOn ==
  ASSUME QueueInv, NEW t \in Threads, pc[t] \in InOp, GoOn(t), task' = task
  PROVE  /\ pc' = [pc EXCEPT ![t] = pc'[t]] /\ pc'[t] \in {"TXend", "op"}
         /\ pc'[t] = "op" => Busy(t)' /\ op'[t] \in DOMAIN Task(t)'.ops
         /\ op' = [op EXCEPT ![t] = op[t] + 1]
         /\ pc' \in [Threads -> Labels] /\ op' \in [Threads -> Nat \ {0}]
<1>1. QueueTypeOK /\ Busy(t) /\ op[t] \in DOMAIN Task(t).ops BY DEF QueueInv, ThreadOK, OpOK
<1>2. Task(t)' = Task(t) /\ (Busy(t)' <=> Busy(t)) BY DEF Task, Busy
<1>3. DOMAIN Task(t).ops = 1 .. Len(Task(t).ops) /\ Len(Task(t).ops) \in Nat BY <1>1, OpFacts
<1>4. pc \in [Threads -> Labels] /\ op \in [Threads -> Nat \ {0}] BY <1>1 DEF QueueTypeOK
<1>5. pc'[t] = IF op[t] = Len(Task(t).ops) THEN "TXend" ELSE "op" BY <1>4 DEF GoOn, Goto
<1>6. op' = [op EXCEPT ![t] = op[t] + 1] /\ op'[t] = op[t] + 1 BY <1>4 DEF GoOn
<1>7. pc' = [pc EXCEPT ![t] = pc'[t]] BY <1>4, <1>5 DEF GoOn, Goto
<1>8. pc'[t] = "op" => op'[t] \in 1 .. Len(Task(t).ops) BY <1>1, <1>3, <1>5, <1>6
<1>9. op' \in [Threads -> Nat \ {0}] BY <1>4, <1>6
<1>10. pc' \in [Threads -> Labels] BY <1>4 DEF GoOn, Goto, Labels, InOp
<1> QED BY <1>1, <1>2, <1>3, <1>5, <1>6, <1>7, <1>8, <1>9, <1>10

-----------------------------------------------------------------------------
(* Types *)

(* A step that touches no queue but q, and leaves q well formed.           *)
Changes(q) ==
  /\ nodes' \in [Queues -> Seq(Node)] /\ head' \in [Queues -> Nat \cup {Null}]
  /\ tail' \in [Queues -> Nat \cup {Null}] /\ size' \in [Queues -> Int]
  /\ \A r \in Queues \ {q} : /\ nodes'[r] = nodes[r] /\ head'[r] = head[r]
                             /\ tail'[r] = tail[r] /\ size'[r] = size[r]
  /\ Shape(q)'

(* The queue after Link: the old nodes with the last one linked on, then   *)
(* the new ones, each linked to the next.                                  *)
LEMMA LinkFacts ==
  ASSUME QueueTypeOK, NEW q \in Queues, Shape(q), NEW vs \in Seq(Items), vs # <<>>, Link(q, vs)
  PROVE  Changes(q)
<1> DEFINE n   == Len(nodes[q])
           k   == Len(vs)
           new == [i \in DOMAIN vs |-> [val |-> vs[i], next |-> IF i < k THEN n + i + 1 ELSE Null]]
           old == IF tail[q] = Null THEN nodes[q] ELSE [nodes[q] EXCEPT ![tail[q]].next = n + 1]
<1>1. n \in Nat /\ k \in Nat /\ k > 0 /\ DOMAIN vs = 1 .. k /\ Null \notin Nat /\ nodes[q] \in Seq(Node)
  BY NullAssumption DEF QueueTypeOK
<1>2. new \in Seq(Node) /\ Len(new) = k
  <2>1. \A i \in 1 .. k : new[i] \in Node
    <3> SUFFICES ASSUME NEW i \in 1 .. k PROVE new[i] \in Node OBVIOUS
    <3>1. vs[i] \in Items BY <1>1
    <3>2. (IF i < k THEN n + i + 1 ELSE Null) \in Nat \cup {Null} BY <1>1
    <3> QED BY <1>1, <3>1, <3>2 DEF Node
  <2>2. new \in [1 .. k -> Node] BY <1>1, <2>1
  <2> HIDE DEF new
  <2> QED BY <1>1, <2>2
<1>3. \A i \in 1 .. k : new[i].next = IF i < k THEN n + i + 1 ELSE Null BY <1>1
<1>4. /\ old \in Seq(Node) /\ Len(old) = n
      /\ \A i \in 1 .. n : old[i].next = IF tail[q] # Null /\ i = tail[q] THEN n + 1 ELSE nodes[q][i].next
  <2>1. CASE tail[q] = Null BY <1>1, <2>1
  <2>2. CASE tail[q] # Null
    <3>1. tail[q] \in 1 .. n BY <1>1, <2>2 DEF Shape
    <3>2. \A i \in 1 .. n : nodes[q][i] \in Node BY <1>1
    <3>3. \A i \in 1 .. n : old[i] = IF i = tail[q] THEN [nodes[q][i] EXCEPT !.next = n + 1] ELSE nodes[q][i]
      BY <1>1, <2>2, <3>1
    <3>4. \A i \in 1 .. n : old[i] \in Node /\ old[i].next = IF i = tail[q] THEN n + 1 ELSE nodes[q][i].next
      BY <1>1, <3>2, <3>3 DEF Node
    <3>5. old \in [1 .. n -> Node]
      <4>1. DOMAIN old = 1 .. n /\ old = [i \in DOMAIN old |-> old[i]] BY <1>1, <2>2, SMTT(30)
      <4> HIDE DEF old
      <4> QED BY <3>4, <4>1
    <3> HIDE DEF old
    <3> QED BY <1>1, <2>2, <3>4, <3>5
  <2> QED BY <2>1, <2>2
<1>5. nodes' = [nodes EXCEPT ![q] = old \o new] BY DEF Link
<1> HIDE DEF new, old
<1>6. /\ old \o new \in Seq(Node) /\ Len(old \o new) = n + k
      /\ \A i \in 1 .. n + k : (old \o new)[i] = IF i <= n THEN old[i] ELSE new[i - n]
  <2>1. old \in Seq(Node) /\ new \in Seq(Node) /\ Len(old) = n /\ Len(new) = k BY <1>2, <1>4
  <2> HIDE DEF n, k
  <2>2. Len(old \o new) = n + k BY <2>1
  <2>3. old \o new \in Seq(Node) BY <2>1
  <2>4. \A i \in 1 .. n + k : (old \o new)[i] = IF i <= n THEN old[i] ELSE new[i - n] BY <1>1, <2>1
  <2> QED BY <2>2, <2>3, <2>4
<1>7. nodes' \in [Queues -> Seq(Node)] /\ nodes'[q] = old \o new /\ \A r \in Queues \ {q} : nodes'[r] = nodes[r]
  BY <1>5, <1>6 DEF QueueTypeOK
<1>8. /\ tail' = [tail EXCEPT ![q] = n + k] /\ size' = [size EXCEPT ![q] = @ + k]
      /\ head' = IF tail[q] = Null THEN [head EXCEPT ![q] = n + 1] ELSE head
  BY DEF Link
<1>9. /\ tail' \in [Queues -> Nat \cup {Null}] /\ size' \in [Queues -> Int]
      /\ head' \in [Queues -> Nat \cup {Null}]
      /\ tail'[q] = n + k /\ size'[q] = size[q] + k
      /\ head'[q] = IF tail[q] = Null THEN n + 1 ELSE head[q]
      /\ \A r \in Queues \ {q} : head'[r] = head[r] /\ tail'[r] = tail[r] /\ size'[r] = size[r]
  BY <1>1, <1>8 DEF QueueTypeOK
<1>10. Shape(q)'
  <2>1. \A i \in 1 .. n + k : nodes'[q][i].next =
          IF i > n THEN (IF i < n + k THEN i + 1 ELSE Null)
          ELSE IF tail[q] # Null /\ i = tail[q] THEN n + 1 ELSE nodes[q][i].next
    <3> SUFFICES ASSUME NEW i \in 1 .. n + k
                 PROVE  nodes'[q][i].next = IF i > n THEN (IF i < n + k THEN i + 1 ELSE Null)
                          ELSE IF tail[q] # Null /\ i = tail[q] THEN n + 1 ELSE nodes[q][i].next
      OBVIOUS
    <3>1. CASE i > n
      <4>1. i - n \in 1 .. k /\ nodes'[q][i] = new[i - n] BY <1>1, <1>6, <1>7, <3>1
      <4>2. new[i - n].next = IF i - n < k THEN n + (i - n) + 1 ELSE Null BY <1>3, <4>1
      <4> QED BY <1>1, <3>1, <4>1, <4>2
    <3>2. CASE ~(i > n) BY <1>1, <1>4, <1>6, <1>7, <3>2
    <3> QED BY <3>1, <3>2
  <2>2. Len(nodes'[q]) = n + k BY <1>6, <1>7
  <2>3. CASE tail[q] = Null
    <3>1. size[q] = 0 BY <1>1, <2>3 DEF Shape
    <3>2. head'[q] = n + 1 /\ size'[q] = k BY <1>1, <1>9, <2>3, <3>1
    <3>3. \A i \in n + 1 .. n + k : nodes'[q][i].next = IF i < n + k THEN i + 1 ELSE Null BY <1>1, <2>1
    <3> QED BY <1>1, <1>9, <2>2, <3>2, <3>3 DEF Shape
  <2>4. CASE tail[q] # Null
    <3>1. /\ head[q] \in 1 .. n /\ tail[q] = n /\ size[q] = n - head[q] + 1
          /\ \A i \in head[q] .. n : nodes[q][i].next = IF i < n THEN i + 1 ELSE Null
      BY <2>4 DEF Shape
    <3>2. head'[q] = head[q] /\ size'[q] = n + k - head[q] + 1 BY <1>1, <1>9, <2>4, <3>1
    <3>3. ASSUME NEW i \in head[q] .. n + k
          PROVE  nodes'[q][i].next = IF i < n + k THEN i + 1 ELSE Null
      <4>1. i \in 1 .. n + k BY <1>1, <3>1
      <4>2. CASE i > n BY <2>1, <4>1, <4>2
      <4>3. CASE i = n BY <1>1, <2>1, <2>4, <3>1, <4>1, <4>3
      <4>4. CASE i < n
        <5>1. i \in head[q] .. n /\ i # tail[q] BY <1>1, <3>1, <4>4
        <5>2. nodes'[q][i].next = nodes[q][i].next BY <1>1, <2>1, <4>1, <4>4, <5>1
        <5> QED BY <1>1, <3>1, <4>4, <5>1, <5>2
      <4> QED BY <1>1, <4>1, <4>2, <4>3, <4>4
    <3> QED BY <1>1, <1>9, <2>2, <3>1, <3>2, <3>3 DEF Shape
  <2> QED BY <2>3, <2>4
<1> QED BY <1>7, <1>9, <1>10 DEF Changes

(* dequeue takes the lock and notes a node of the queue, or none.          *)
LEMMA DequeueFacts ==
  ASSUME QueueInv, NEW t \in Threads, dequeue(t)
  PROVE  \E q \in Queues, r \in LocalQueue :
           /\ q = Op(t).q /\ CanLock(t, q)
           /\ lock' = [lock EXCEPT ![q] = t]
           /\ queueMap' = [queueMap EXCEPT ![t][q] = r]
           /\ r.isLockedByMe = queueMap[t][q].isLockedByMe
           /\ r.nodeToDeq # Null => head[q] # Null /\ r.nodeToDeq \in head[q] .. Len(nodes[q])
<1>0. QueueTypeOK /\ ThreadOK(t) /\ pc[t] = "dequeue" BY DEF QueueInv, dequeue, At
<1>1. PICK q \in Queues : q = Op(t).q BY <1>0, AtOp DEF InOp
<1>2. PICK lq \in LocalQueue : lq = queueMap[t][q] BY <1>0 DEF QueueTypeOK
<1>3. PICK n : n = IF lq.firstDeq THEN head[q]
                   ELSE IF lq.nodeToDeq # Null THEN nodes[q][lq.nodeToDeq].next ELSE Null
  OBVIOUS
<1>4. Shape(q) /\ Len(nodes[q]) \in Nat /\ Null \notin Nat BY <1>0, NullAssumption DEF QueueInv, QueueTypeOK
<1>5. n # Null => head[q] # Null /\ n \in head[q] .. Len(nodes[q]) /\ n \in Nat
  <2>1. CASE lq.firstDeq BY <1>3, <1>4, <2>1 DEF Shape
  <2>2. CASE ~lq.firstDeq /\ lq.nodeToDeq # Null
    <3>1. Waiting(t, q) BY <1>0, <1>2, <2>2 DEF Waiting, CommitLoop
    <3>2. head[q] # Null /\ lq.nodeToDeq \in head[q] .. Len(nodes[q])
      BY <1>0, <1>2, <3>1 DEF ThreadOK, DeqOK
    <3> QED BY <1>3, <1>4, <2>2, <3>2, SMTT(30) DEF Shape
  <2> QED BY <1>3, <2>1, <2>2
<1>6. lq.elems \in Seq(Items) /\ lq.in \in BOOLEAN /\ lq.isLockedByMe \in BOOLEAN BY <1>2 DEF LocalQueue
<1> DEFINE took == [lq EXCEPT !.in = TRUE, !.firstDeq = FALSE, !.nodeToDeq = n]
<1>7. took \in LocalQueue /\ took.isLockedByMe = lq.isLockedByMe /\ took.nodeToDeq = n
  BY <1>2, <1>5, <1>6 DEF LocalQueue
<1>8. ASSUME lq.elems # <<>> PROVE LET r == [took EXCEPT !.elems = Tail(@)]
                                   IN  r \in LocalQueue /\ r.isLockedByMe = lq.isLockedByMe /\ r.nodeToDeq = n
  <2>1. Tail(lq.elems) \in Seq(Items) BY <1>6, <1>8
  <2> QED BY <1>2, <1>5, <1>6, <2>1 DEF LocalQueue
<1>9. /\ CanLock(t, q) /\ lock' = [lock EXCEPT ![q] = t]
      /\ \/ queueMap' = [queueMap EXCEPT ![t][q] = took]
         \/ lq.elems # <<>> /\ queueMap' = [queueMap EXCEPT ![t][q] = [took EXCEPT !.elems = Tail(@)]]
  BY <1>1, <1>2, <1>3 DEF dequeue
<1>10. CASE queueMap' = [queueMap EXCEPT ![t][q] = took]
  <2> HIDE DEF took
  <2> QED BY <1>1, <1>2, <1>5, <1>7, <1>9, <1>10
<1>11. CASE lq.elems # <<>> /\ queueMap' = [queueMap EXCEPT ![t][q] = [took EXCEPT !.elems = Tail(@)]]
  <2> DEFINE r == [took EXCEPT !.elems = Tail(@)]
  <2>1. r \in LocalQueue /\ r.isLockedByMe = lq.isLockedByMe /\ r.nodeToDeq = n BY <1>8, <1>11
  <2>2. queueMap' = [queueMap EXCEPT ![t][q] = r] BY <1>11
  <2> HIDE DEF r
  <2> QED BY <1>1, <1>2, <1>5, <1>9, <2>1, <2>2
<1> QED BY <1>9, <1>10, <1>11

(* Types are kept by the steps of an operation in a transaction ...        *)
LEMMA OpTypes ==
  ASSUME QueueInv, NEW t \in Threads,
         \/ TXbegin(t) \/ put(t) \/ CheckNewer(t) \/ CheckSame(t) \/ CheckSingleton(t)
         \/ IncrementAndAbort(t) \/ enqueue(t) \/ LockedByOther(t) \/ dequeue(t) \/ isEmpty(t)
  PROVE  QueueTypeOK'
<1>0. QueueTypeOK /\ ThreadOK(t) BY DEF QueueInv
<1> USE DEF QueueTypeOK, queues, ending, history, storage, At, Goto
<1>1. CASE TXbegin(t) BY <1>0, <1>1 DEF TXbegin, Labels, InOp
<1>2. CASE put(t)
  <2>1. pc[t] \in InOp /\ GoOn(t) /\ task' = task BY <1>2 DEF put, InOp
  <2>2. pc' \in [Threads -> Labels] /\ op' \in [Threads -> Nat \ {0}] BY <2>1, GoesOn
  <2> QED BY <1>0, <1>2, <2>2 DEF put
<1>3. CASE CheckNewer(t) BY <1>0, <1>3 DEF CheckNewer, Abort, Labels, InOp
<1>4. CASE CheckSame(t) \/ CheckSingleton(t)
  <2>1. pc[t] \in InOp /\ Op(t).op # "put" BY <1>0, <1>4 DEF CheckSame, CheckSingleton, InOp, ThreadOK, OpOK
  <2>2. Op(t).op \in Labels BY <2>1, AtOp DEF Labels, InOp
  <2> QED BY <1>0, <1>4, <2>2 DEF CheckSame, CheckSingleton, Labels, InOp
<1>5. CASE IncrementAndAbort(t) BY <1>0, <1>5 DEF IncrementAndAbort, Abort, NextVersion, Labels
<1>6. CASE enqueue(t)
  <2>1. pc[t] \in InOp /\ GoOn(t) /\ task' = task BY <1>6 DEF enqueue, InOp
  <2>2. pc' \in [Threads -> Labels] /\ op' \in [Threads -> Nat \ {0}] BY <2>1, GoesOn
  <2>3. Op(t).q \in Queues /\ Op(t).val \in Items BY <2>1, AtOp
  <2>4. queueMap' \in [Threads -> [Queues -> LocalQueue]]
    <3>1. queueMap[t][Op(t).q] \in LocalQueue BY <1>0, <2>3
    <3>2. Append(queueMap[t][Op(t).q].elems, Op(t).val) \in Seq(Items) BY <2>3, <3>1 DEF LocalQueue
    <3>3. [queueMap[t][Op(t).q] EXCEPT !.in = TRUE, !.elems = Append(@, Op(t).val)] \in LocalQueue
      BY <3>1, <3>2 DEF LocalQueue
    <3> QED BY <1>0, <1>6, <2>3, <3>3, ZenonT(30) DEF enqueue
  <2> QED BY <1>0, <1>6, <2>2, <2>4 DEF enqueue
<1>7. CASE LockedByOther(t) BY <1>0, <1>7 DEF LockedByOther, Abort, Labels
<1>8. CASE dequeue(t)
  <2>1. pc[t] \in InOp /\ task' = task BY <1>8 DEF dequeue, InOp
  <2>2. PICK q \in Queues, r \in LocalQueue :
          lock' = [lock EXCEPT ![q] = t] /\ queueMap' = [queueMap EXCEPT ![t][q] = r]
    BY <1>8, DequeueFacts
  <2>7. pc' \in [Threads -> Labels] /\ op' \in [Threads -> Nat \ {0}]
    <3>1. CASE GoOn(t) BY <2>1, <3>1, GoesOn
    <3>2. CASE pc' = [pc EXCEPT ![t] = "TXend"] /\ op' = op BY <1>0, <3>2 DEF Labels
    <3> QED BY <1>8, <3>1, <3>2 DEF dequeue
  <2>8. queueMap' \in [Threads -> [Queues -> LocalQueue]] BY <1>0, <2>2
  <2>9. /\ GVC' = GVC /\ head' = head /\ tail' = tail /\ size' = size /\ nodes' = nodes /\ task' = task
        /\ readVersion' = readVersion /\ todo' = todo /\ cur' = cur /\ crashed' = crashed
    BY <1>8 DEF dequeue
  <2>10. lock' \in [Queues -> Threads \cup {Null}] BY <1>0, <2>2
  <2> QED BY <1>0, <2>7, <2>8, <2>9, <2>10
<1>9. CASE isEmpty(t)
  <2>1. pc[t] \in InOp /\ GoOn(t) /\ task' = task BY <1>9 DEF isEmpty, InOp
  <2>2. pc' \in [Threads -> Labels] /\ op' \in [Threads -> Nat \ {0}] BY <2>1, GoesOn
  <2>3. Op(t).q \in Queues BY <2>1, AtOp
  <2>4. queueMap' \in [Threads -> [Queues -> LocalQueue]]
    <3>1. queueMap[t][Op(t).q] \in LocalQueue BY <1>0, <2>3
    <3>2. [queueMap[t][Op(t).q] EXCEPT !.in = TRUE] \in LocalQueue BY <3>1 DEF LocalQueue
    <3>3. \/ queueMap' = queueMap
          \/ queueMap' = [queueMap EXCEPT ![t][Op(t).q] = [queueMap[t][Op(t).q] EXCEPT !.in = TRUE]]
      BY <1>9 DEF isEmpty
    <3>4. PICK r \in LocalQueue : r = [queueMap[t][Op(t).q] EXCEPT !.in = TRUE] BY <3>2
    <3>5. PICK q \in Queues : q = Op(t).q BY <2>3
    <3>6. queueMap' = queueMap \/ queueMap' = [queueMap EXCEPT ![t][q] = r] BY <3>3, <3>4, <3>5
    <3>7. CASE queueMap' = queueMap BY <1>0, <3>7
    <3>8. CASE queueMap' = [queueMap EXCEPT ![t][q] = r] BY <1>0, <3>8
    <3> QED BY <3>6, <3>7, <3>8
  <2> QED BY <1>0, <1>9, <2>2, <2>3, <2>4 DEF isEmpty
<1> QED BY <1>1, <1>2, <1>3, <1>4, <1>5, <1>6, <1>7, <1>8, <1>9

(* dequeueNodes takes the nodes up to the one noted from a locked queue,   *)
(* and its assertion holds.                                                *)
LEMMA DequeueNodesFacts ==
  ASSUME QueueInv, NEW t \in Threads, dequeueNodes(t)
  PROVE  \E q \in todo[t] : q \in Queues /\ cur' = [cur EXCEPT ![t] = q] /\ lock[q] = t
                            /\ Changes(q) /\ ~crashed'
<1>0. QueueTypeOK /\ ThreadOK(t) /\ pc[t] = "dequeueNodes" /\ nodes' = nodes /\ crashed = FALSE
  BY DEF QueueInv, dequeueNodes, At
<1>1. PICK q \in todo[t] :
        LET upToNode == queueMap[t][q].nodeToDeq
            steps    == Steps(q, nodes[q][upToNode].next)
            curr     == Walk(q)[steps]
        IN  /\ cur' = [cur EXCEPT ![t] = q]
            /\ \/ upToNode = Null /\ UNCHANGED <<head, tail, size, crashed>>
               \/ /\ upToNode # Null
                  /\ head' = [head EXCEPT ![q] = curr]
                  /\ size' = [size EXCEPT ![q] = @ - steps]
                  /\ tail' = [tail EXCEPT ![q] = TailAfter(q, curr)]
                  /\ crashed' = (curr = Null /\ size'[q] # 0)
  BY DEF dequeueNodes
<1>2. q \in Queues /\ cur' = [cur EXCEPT ![t] = q] BY <1>0, <1>1 DEF QueueTypeOK
<1>3. lock[q] = t BY <1>0, <1>1 DEF ThreadOK, LockOK, EndLabels, AllLocked
<1>4. Shape(q) BY <1>2 DEF QueueInv
<1>5. CASE queueMap[t][q].nodeToDeq = Null
  <2>1. UNCHANGED <<head, tail, size, crashed>> BY <1>1, <1>5
  <2>2. Shape(q)' BY <1>0, <1>4, <2>1 DEF Shape
  <2>3. Changes(q) BY <1>0, <2>1, <2>2 DEF Changes, QueueTypeOK
  <2> QED BY <1>0, <1>2, <1>3, <2>1, <2>3
<1>6. CASE queueMap[t][q].nodeToDeq # Null
  <2>1. PICK u : u = queueMap[t][q].nodeToDeq OBVIOUS
  <2>2. PICK steps : steps = Steps(q, nodes[q][u].next) OBVIOUS
  <2>3. PICK curr : curr = Walk(q)[steps] OBVIOUS
  <2>4. /\ head' = [head EXCEPT ![q] = curr] /\ size' = [size EXCEPT ![q] = @ - steps]
        /\ tail' = [tail EXCEPT ![q] = TailAfter(q, curr)] /\ crashed' = (curr = Null /\ size'[q] # 0)
    BY <1>1, <1>6, <2>1, <2>2, <2>3
  <2>5. Waiting(t, q) BY <1>0, <1>1, <1>6 DEF Waiting, CommitLoop
  <2>6. head[q] # Null /\ u \in head[q] .. Len(nodes[q]) BY <1>0, <1>2, <2>1, <2>5 DEF ThreadOK, DeqOK
  <2>7. steps = u - head[q] + 1 /\ curr = nodes[q][u].next BY <1>0, <1>2, <1>4, <2>2, <2>3, <2>6, StepsOf
  <2> DEFINE N == Len(nodes[q])
  <2>8. /\ N \in Nat /\ Null \notin Nat /\ head[q] \in 1 .. N /\ tail[q] = N /\ size[q] = N - head[q] + 1
        /\ \A i \in head[q] .. N : nodes[q][i].next = IF i < N THEN i + 1 ELSE Null
    <3>1. N \in Nat /\ Null \notin Nat BY <1>0, NullAssumption DEF QueueTypeOK
    <3> QED BY <1>4, <2>6, <3>1 DEF Shape
  <2>9. curr = IF u < N THEN u + 1 ELSE Null BY <2>6, <2>7, <2>8
  <2>10. u \in Nat /\ curr \in Nat \cup {Null} BY <2>6, <2>8, <2>9
  <2>11. /\ head'[q] = curr /\ size'[q] = size[q] - steps /\ tail'[q] = TailAfter(q, curr)
         /\ \A r \in Queues \ {q} : head'[r] = head[r] /\ size'[r] = size[r] /\ tail'[r] = tail[r]
    BY <1>0, <1>2, <2>4 DEF QueueTypeOK
  <2>12. /\ head' \in [Queues -> Nat \cup {Null}] /\ tail' \in [Queues -> Nat \cup {Null}]
         /\ size' \in [Queues -> Int]
    <3>1. TailAfter(q, curr) \in Nat \cup {Null} BY <2>8 DEF TailAfter
    <3>2. size[q] - steps \in Int BY <2>7, <2>8, <2>10
    <3> QED BY <1>0, <1>2, <2>4, <2>10, <3>1, <3>2 DEF QueueTypeOK
  <2>13. Shape(q)' /\ ~crashed'
    <3>1. CASE u < N
      <4>1. head'[q] = u + 1 /\ tail'[q] = N /\ size'[q] = N - (u + 1) + 1 /\ u + 1 \in 1 .. N
        BY <2>6, <2>7, <2>8, <2>9, <2>10, <2>11, <3>1, SMTT(30) DEF TailAfter
      <4>2. \A i \in u + 1 .. N : i \in head[q] .. N BY <2>6, <2>8, <2>10
      <4>3. Shape(q)' BY <1>0, <2>8, <4>1, <4>2 DEF Shape
      <4>4. curr # Null BY <2>8, <2>9, <2>10, <3>1
      <4>5. ~crashed' BY <2>4, <4>4
      <4> QED BY <4>3, <4>5
    <3>2. CASE ~(u < N)
      <4>1. curr = Null /\ u = N BY <2>6, <2>8, <2>9, <2>10, <3>2
      <4>2. head'[q] = Null /\ tail'[q] = Null /\ size'[q] = 0
        BY <2>7, <2>8, <2>11, <4>1 DEF TailAfter
      <4> QED BY <2>4, <4>2 DEF Shape
    <3> QED BY <3>1, <3>2
  <2>14. Changes(q) BY <1>0, <2>11, <2>12, <2>13 DEF Changes, QueueTypeOK
  <2> QED BY <1>2, <1>3, <2>13, <2>14
<1> QED BY <1>5, <1>6

(* enqueueNodes links what the transaction enqueued behind a locked queue. *)
LEMMA EnqueueNodesFacts ==
  ASSUME QueueInv, NEW t \in Threads, enqueueNodes(t)
  PROVE  /\ cur[t] \in Queues /\ cur[t] \in todo[t] /\ lock[cur[t]] = t /\ Changes(cur[t])
         /\ queueMap' \in [Threads -> [Queues -> LocalQueue]]
         /\ \A u \in Threads, q \in Queues :
              /\ queueMap'[u][q].in = queueMap[u][q].in
              /\ queueMap'[u][q].nodeToDeq = queueMap[u][q].nodeToDeq
              /\ queueMap'[u][q].isLockedByMe = queueMap[u][q].isLockedByMe
         /\ \A u \in Threads \ {t} : queueMap'[u] = queueMap[u]
<1>0. QueueTypeOK /\ ThreadOK(t) /\ pc[t] = "enqueueNodes" BY DEF QueueInv, enqueueNodes, At
<1>1. cur[t] \in todo[t] /\ todo[t] \subseteq Map(t) /\ \A q \in Map(t) : lock[q] = t
  BY <1>0 DEF ThreadOK, LockOK, EndLabels, AllLocked, CommitLoop
<1>2. PICK q \in Queues : q = cur[t] BY <1>0, <1>1 DEF QueueTypeOK
<1>3. PICK lq \in LocalQueue : lq = queueMap[t][q] BY <1>0 DEF QueueTypeOK
<1>4. lq.elems \in Seq(Items) BY <1>3 DEF LocalQueue
<1>5. Shape(q) BY DEF QueueInv
<1>6. Changes(q)
  <2>1. CASE lq.elems # <<>> /\ Link(q, lq.elems) BY <1>0, <1>4, <1>5, <2>1, LinkFacts
  <2>2. CASE UNCHANGED queues
    <3>1. head' = head /\ tail' = tail /\ size' = size /\ nodes' = nodes BY <2>2 DEF queues
    <3> QED BY <1>0, <1>5, <3>1 DEF Changes, Shape, QueueTypeOK
  <2> QED BY <1>2, <1>3, <2>1, <2>2 DEF enqueueNodes
<1>7. PICK r \in LocalQueue : /\ queueMap' = [queueMap EXCEPT ![t][q] = r] /\ r.in = lq.in
                              /\ r.nodeToDeq = lq.nodeToDeq /\ r.isLockedByMe = lq.isLockedByMe
  <2>0. <<>> \in Seq(Items) OBVIOUS
  <2>1. [lq EXCEPT !.elems = <<>>] \in LocalQueue BY <1>3, <2>0 DEF LocalQueue
  <2>2. queueMap' = [queueMap EXCEPT ![t][q] = [lq EXCEPT !.elems = <<>>]]
    BY <1>2, <1>3 DEF enqueueNodes
  <2>3. PICK r : r = [lq EXCEPT !.elems = <<>>] OBVIOUS
  <2>4. r.in = lq.in /\ r.nodeToDeq = lq.nodeToDeq /\ r.isLockedByMe = lq.isLockedByMe
    BY <1>3, <2>3 DEF LocalQueue
  <2> QED BY <2>1, <2>2, <2>3, <2>4
<1>8. queueMap' \in [Threads -> [Queues -> LocalQueue]] BY <1>0, <1>7 DEF QueueTypeOK
<1>9. \A u \in Threads, p \in Queues : queueMap'[u][p] = IF u = t /\ p = q THEN r ELSE queueMap[u][p]
  BY <1>0, <1>7 DEF QueueTypeOK
<1>10. \A u \in Threads \ {t} : queueMap'[u] = queueMap[u] BY <1>0, <1>7 DEF QueueTypeOK
<1> QED BY <1>1, <1>2, <1>3, <1>6, <1>7, <1>8, <1>9, <1>10

(* ... by the steps of TXend ...                                           *)
LEMMA EndTypes ==
  ASSUME QueueInv, NEW t \in Threads,
         \/ TXend(t) \/ LockQueue(t) \/ ValidateQueue(t) \/ TakeVersion(t) \/ dequeueNodes(t)
         \/ enqueueNodes(t) \/ setVersion(t) \/ setSingleton(t) \/ CommittedAll(t)
         \/ ReleaseQueue(t) \/ Cleanup(t)
  PROVE  QueueTypeOK'
<1>0. QueueTypeOK /\ ThreadOK(t) BY DEF QueueInv
<1>00. Map(t) \in SUBSET Queues BY DEF Map
<1> USE DEF QueueTypeOK, queues, ending, history, storage, At, Goto, Labels, EndLabels, AllLocked, CommitLoop
<1>1. CASE TXend(t) BY <1>0, <1>00, <1>1 DEF TXend
<1>2. CASE LockQueue(t)
  <2>0. pc' \in [Threads -> Labels] BY <1>0, <1>2 DEF LockQueue
  <2>1. lock' \in [Queues -> Threads \cup {Null}]
    <3>1. lock' = lock \/ \E q \in Queues : lock' = [lock EXCEPT ![q] = t] BY <1>0, <1>2 DEF LockQueue
    <3> QED BY <1>0, <3>1
  <2>3. todo' \in [Threads -> SUBSET Queues]
    <3>1. todo[t] \in SUBSET Queues BY <1>0
    <3>2. \E S \in SUBSET Queues : todo' = [todo EXCEPT ![t] = S] BY <1>00, <1>2, <3>1 DEF LockQueue
    <3> QED BY <1>0, <3>2
  <2>2. queueMap' \in [Threads -> [Queues -> LocalQueue]]
    <3>1. CASE queueMap' = queueMap BY <1>0, <3>1
    <3>2. CASE \E q \in todo[t] : queueMap' = [queueMap EXCEPT ![t][q].isLockedByMe = TRUE]
      <4>1. PICK q \in Queues : queueMap' = [queueMap EXCEPT ![t][q].isLockedByMe = TRUE] BY <1>0, <3>2
      <4>2. queueMap[t][q] \in LocalQueue BY <1>0
      <4>3. [queueMap[t][q] EXCEPT !.isLockedByMe = TRUE] \in LocalQueue BY <4>2 DEF LocalQueue
      <4>4. PICK r \in LocalQueue : queueMap' = [queueMap EXCEPT ![t][q] = r] BY <4>1, <4>3
      <4> QED BY <1>0, <4>4
    <3> QED BY <1>2, <3>1, <3>2 DEF LockQueue
  <2> QED BY <1>0, <1>2, <2>0, <2>1, <2>2, <2>3 DEF LockQueue
<1>3. CASE ValidateQueue(t)
  <2>1. GVC' \in Nat BY <1>0, <1>3 DEF ValidateQueue, NextVersion
  <2>2. pc' \in [Threads -> Labels] BY <1>0, <1>3 DEF ValidateQueue
  <2>3. todo' \in [Threads -> SUBSET Queues]
    <3>1. todo[t] \in SUBSET Queues BY <1>0
    <3>2. todo' = todo \/ \E S \in SUBSET Queues : todo' = [todo EXCEPT ![t] = S]
      BY <1>00, <1>3, <3>1 DEF ValidateQueue
    <3> QED BY <1>0, <3>2
  <2> QED BY <1>0, <1>3, <2>1, <2>2, <2>3 DEF ValidateQueue
<1>4. CASE TakeVersion(t)
  <2>1. GVC' \in Nat /\ todo' \in [Threads -> SUBSET Queues] /\ pc' \in [Threads -> Labels] /\ crashed' \in BOOLEAN
    BY <1>0, <1>00, <1>4 DEF TakeVersion, NextVersion
  <2> QED BY <1>0, <1>4, <2>1 DEF TakeVersion
<1>5. CASE dequeueNodes(t)
  <2>1. PICK q \in todo[t] : q \in Queues /\ cur' = [cur EXCEPT ![t] = q] /\ Changes(q) /\ ~crashed'
    BY <1>5, DequeueNodesFacts
  <2>2. crashed' \in BOOLEAN BY <1>0, <1>5 DEF dequeueNodes
  <2>3. /\ GVC' = GVC /\ lock' = lock /\ nodes' = nodes /\ task' = task /\ op' = op /\ readVersion' = readVersion
        /\ queueMap' = queueMap /\ todo' = todo /\ pc' = [pc EXCEPT ![t] = "enqueueNodes"]
    BY <1>5 DEF dequeueNodes
  <2> QED BY <1>0, <2>1, <2>2, <2>3 DEF Changes
<1>6. CASE enqueueNodes(t)
  <2>1. Changes(cur[t]) /\ queueMap' \in [Threads -> [Queues -> LocalQueue]] BY <1>6, EnqueueNodesFacts
  <2>2. /\ GVC' = GVC /\ lock' = lock /\ task' = task /\ op' = op /\ readVersion' = readVersion
        /\ todo' = todo /\ cur' = cur /\ crashed' = crashed /\ pc' = [pc EXCEPT ![t] = "setVersion"]
    BY <1>6 DEF enqueueNodes
  <2> QED BY <1>0, <2>1, <2>2 DEF Changes
<1>7. CASE setVersion(t) BY <1>0, <1>7 DEF setVersion
<1>8. CASE setSingleton(t) BY <1>0, <1>8 DEF setSingleton
<1>9. CASE CommittedAll(t) BY <1>0, <1>00, <1>9 DEF CommittedAll
<1>10. CASE ReleaseQueue(t)
  <2>1. /\ lock' \in [Queues -> Threads \cup {Null}] /\ todo' \in [Threads -> SUBSET Queues]
        /\ crashed' \in BOOLEAN
    BY <1>0, <1>10, ZenonT(30) DEF ReleaseQueue
  <2>2. queueMap' \in [Threads -> [Queues -> LocalQueue]]
    <3>1. CASE queueMap' = queueMap BY <1>0, <3>1
    <3>2. CASE \E q \in todo[t] : queueMap' = [queueMap EXCEPT ![t][q].isLockedByMe = FALSE]
      <4>1. PICK q \in Queues : queueMap' = [queueMap EXCEPT ![t][q].isLockedByMe = FALSE] BY <1>0, <3>2
      <4>2. queueMap[t][q] \in LocalQueue BY <1>0
      <4>3. [queueMap[t][q] EXCEPT !.isLockedByMe = FALSE] \in LocalQueue BY <4>2 DEF LocalQueue
      <4>4. PICK r \in LocalQueue : queueMap' = [queueMap EXCEPT ![t][q] = r] BY <4>1, <4>3
      <4> QED BY <1>0, <4>4
    <3> QED BY <1>10, <3>1, <3>2 DEF ReleaseQueue
  <2> QED BY <1>0, <1>10, <2>1, <2>2 DEF ReleaseQueue
<1>11. CASE Cleanup(t)
  <2>1. Cleared(t) \in [Queues -> LocalQueue]
    BY DEF Cleared, NewLocalQueue, LocalQueue
  <2>2. queueMap' \in [Threads -> [Queues -> LocalQueue]] BY <1>0, <1>11, <2>1 DEF Cleanup
  <2>3. task' \in [Threads -> Nat \ {0}] BY <1>0, <1>11 DEF Cleanup
  <2>4. /\ cur' \in [Threads -> Queues \cup {Null}] /\ op' \in [Threads -> Nat \ {0}]
        /\ pc' \in [Threads -> Labels] /\ readVersion' \in [Threads -> Nat]
    BY <1>0, <1>11 DEF Cleanup
  <2> QED BY <1>0, <1>11, <2>2, <2>3, <2>4 DEF Cleanup
<1> QED BY <1>1, <1>2, <1>3, <1>4, <1>5, <1>6, <1>7, <1>8, <1>9, <1>10, <1>11

(* A singleton that enqueues or dequeues changes the queue it locks.       *)
LEMMA SingletonFacts ==
  ASSUME QueueInv, NEW t \in Threads, SEnqueue(t) \/ SDequeue(t)
  PROVE  /\ Op(t).q \in Queues /\ CanLock(t, Op(t).q) /\ lock' = [lock EXCEPT ![Op(t).q] = t]
         /\ Changes(Op(t).q)
<1>0. QueueTypeOK /\ pc[t] = "sLock" BY DEF QueueInv, SEnqueue, SDequeue, At
<1>1. PICK q \in Queues : q = Op(t).q /\ Op(t).val \in Items BY <1>0, AtOp DEF SBefore
<1>2. Shape(q) BY DEF QueueInv
<1>3. CanLock(t, q) /\ lock' = [lock EXCEPT ![q] = t] BY <1>1 DEF SEnqueue, SDequeue
<1>4. CASE SEnqueue(t)
  <2>1. Link(q, <<Op(t).val>>) BY <1>1, <1>4 DEF SEnqueue
  <2>2. <<Op(t).val>> \in Seq(Items) /\ <<Op(t).val>> # <<>> BY <1>1
  <2>3. Changes(q) BY <1>0, <1>2, <2>1, <2>2, LinkFacts
  <2> QED BY <1>1, <1>3, <2>3
<1>5. CASE SDequeue(t) /\ head[q] = Null
  <2>1. head' = head /\ tail' = tail /\ size' = size /\ nodes' = nodes BY <1>1, <1>5 DEF SDequeue
  <2>2. Changes(q) BY <1>0, <1>2, <2>1 DEF Changes, Shape, QueueTypeOK
  <2> QED BY <1>1, <1>3, <2>2
<1>6. CASE SDequeue(t) /\ head[q] # Null
  <2> DEFINE N == Len(nodes[q])
  <2>1. PICK n : n = nodes[q][head[q]].next OBVIOUS
  <2>2. /\ head' = [head EXCEPT ![q] = n] /\ tail' = [tail EXCEPT ![q] = TailAfter(q, n)]
        /\ size' = [size EXCEPT ![q] = @ - 1] /\ nodes' = nodes
    BY <1>1, <1>6, <2>1 DEF SDequeue
  <2>3. N \in Nat /\ Null \notin Nat BY <1>0, NullAssumption DEF QueueTypeOK
  <2>4. /\ head[q] \in 1 .. N /\ tail[q] = N /\ size[q] = N - head[q] + 1
        /\ \A i \in head[q] .. N : nodes[q][i].next = IF i < N THEN i + 1 ELSE Null
    BY <1>2, <1>6, <2>3 DEF Shape
  <2>5. n = IF head[q] < N THEN head[q] + 1 ELSE Null
    <3>1. head[q] \in head[q] .. N BY <2>3, <2>4
    <3> QED BY <2>1, <2>4, <3>1
  <2>6. /\ head'[q] = n /\ tail'[q] = TailAfter(q, n) /\ size'[q] = size[q] - 1
        /\ \A r \in Queues \ {q} : head'[r] = head[r] /\ size'[r] = size[r] /\ tail'[r] = tail[r]
    BY <1>0, <2>2 DEF QueueTypeOK
  <2>7. /\ head' \in [Queues -> Nat \cup {Null}] /\ tail' \in [Queues -> Nat \cup {Null}]
        /\ size' \in [Queues -> Int]
    <3>1. TailAfter(q, n) \in Nat \cup {Null} BY <2>3, <2>4 DEF TailAfter
    <3>2. n \in Nat \cup {Null} /\ size[q] - 1 \in Int BY <2>3, <2>4, <2>5
    <3> QED BY <1>0, <2>2, <3>1, <3>2 DEF QueueTypeOK
  <2>8. Shape(q)'
    <3>1. CASE head[q] < N
      <4>1. head'[q] = head[q] + 1 /\ tail'[q] = N /\ size'[q] = N - (head[q] + 1) + 1 /\ head[q] + 1 \in 1 .. N
        BY <2>3, <2>4, <2>5, <2>6, <3>1 DEF TailAfter
      <4>2. \A i \in head[q] + 1 .. N : i \in head[q] .. N BY <2>3, <2>4
      <4> QED BY <2>2, <2>4, <4>1, <4>2 DEF Shape
    <3>2. CASE ~(head[q] < N)
      <4>1. head'[q] = Null /\ tail'[q] = Null /\ size'[q] = 0 BY <2>3, <2>4, <2>5, <2>6, <3>2 DEF TailAfter
      <4> QED BY <4>1 DEF Shape
    <3> QED BY <3>1, <3>2
  <2>9. Changes(q) BY <1>0, <2>2, <2>6, <2>7, <2>8 DEF Changes, QueueTypeOK
  <2> QED BY <1>1, <1>3, <2>9
<1> QED BY <1>4, <1>5, <1>6

(* ... and by singletons.                                                  *)
LEMMA SingletonTypes ==
  ASSUME QueueInv, NEW t \in Threads,
         \/ CallSingleton(t) \/ SReadSize(t) \/ SEnqueue(t) \/ SDequeue(t) \/ SIsEmpty(t)
         \/ SReadClock(t) \/ SSetVersion(t) \/ SSetSingleton(t) \/ SUnlock(t)
  PROVE  QueueTypeOK'
<1>0. QueueTypeOK /\ ThreadOK(t) BY DEF QueueInv
<1> USE DEF QueueTypeOK, queues, ending, history, storage, At, Goto, Labels, SBefore, SLocked
<1>1. CASE CallSingleton(t) \/ SReadSize(t) BY <1>0, <1>1 DEF CallSingleton, SReadSize
<1>2. CASE SEnqueue(t) \/ SDequeue(t)
  <2>1. PICK q \in Queues : lock' = [lock EXCEPT ![q] = t] /\ Changes(q) BY <1>2, SingletonFacts
  <2>2. pc' \in [Threads -> Labels] BY <1>0, <1>2 DEF SEnqueue, SDequeue
  <2>3. /\ GVC' = GVC /\ task' = task /\ op' = op /\ readVersion' = readVersion /\ queueMap' = queueMap
        /\ todo' = todo /\ cur' = cur /\ crashed' = crashed
    BY <1>2 DEF SEnqueue, SDequeue
  <2>4. lock' \in [Queues -> Threads \cup {Null}] BY <1>0, <2>1
  <2> QED BY <1>0, <2>1, <2>2, <2>3, <2>4 DEF Changes
<1>3. CASE SIsEmpty(t)
  <2>1. Op(t).q \in Queues BY <1>3, AtOp DEF SIsEmpty
  <2> QED BY <1>0, <1>3, <2>1 DEF SIsEmpty
<1>4. CASE SReadClock(t) \/ SSetVersion(t) \/ SSetSingleton(t)
  BY <1>0, <1>4 DEF SReadClock, SSetVersion, SSetSingleton
<1>5. CASE SUnlock(t)
  <2>1. Op(t).q \in Queues BY <1>5, AtOp DEF SUnlock
  <2>2. lock' \in [Queues -> Threads \cup {Null}] BY <1>0, <1>5, <2>1 DEF SUnlock
  <2> QED BY <1>0, <1>5, <2>2 DEF SUnlock
<1> QED BY <1>1, <1>2, <1>3, <1>4, <1>5

(* A step keeps the types.                                                 *)
LEMMA TypeStep ==
  ASSUME QueueInv, NEW t \in Threads, Step(t)
  PROVE  QueueTypeOK'
BY OpTypes, EndTypes, SingletonTypes DEF Step

-----------------------------------------------------------------------------
(* What a step of t leaves alone *)

Unmoved(u) ==
  /\ pc'[u] = pc[u] /\ task'[u] = task[u] /\ op'[u] = op[u] /\ queueMap'[u] = queueMap[u]
  /\ todo'[u] = todo[u] /\ cur'[u] = cur[u] /\ readVersion'[u] = readVersion[u]

(* Nothing of the other threads moves, nor a queue that one of them has    *)
(* locked; and the clock does not go back.                                 *)
Respects(t) ==
  /\ \A u \in Threads \ {t} : Unmoved(u)
  /\ \A q \in Queues : lock[q] \notin {Null, t} =>
       lock'[q] = lock[q] /\ head'[q] = head[q] /\ nodes'[q] = nodes[q]
  /\ GVC <= GVC'

(* What t holds true of others stays true.                                 *)
LEMMA OthersKeep ==
  ASSUME QueueInv, QueueTypeOK', NEW t \in Threads, Respects(t), NEW u \in Threads \ {t}
  PROVE  ThreadOK(u)'
<1>0. QueueTypeOK /\ ThreadOK(u) /\ Unmoved(u) /\ u # Null BY NullAssumption DEF QueueInv, Respects
<1>1. Task(u)' = Task(u) /\ Op(u)' = Op(u) /\ (Busy(u)' <=> Busy(u)) /\ Map(u)' = Map(u)
  BY <1>0 DEF Unmoved, Task, Op, Busy, Map
<1>2. \A q \in Queues : lock[q] = u => lock'[q] = u /\ head'[q] = head[q] /\ nodes'[q] = nodes[q]
  BY <1>0 DEF Respects
<1>3. OpOK(u)' BY <1>0, <1>1 DEF ThreadOK, OpOK, Unmoved
<1>4. LockOK(u)'
  <2>1. pc[u] \in SLocked => Op(u).q \in Queues BY AtOp
  <2>2. Map(u) \subseteq Queues BY DEF Map
  <2>3. LockOK(u) BY <1>0 DEF ThreadOK
  <2> QED BY <1>0, <1>1, <1>2, <2>1, <2>2, <2>3 DEF LockOK, Unmoved
<1>5. DeqOK(u)'
  <2>1. \A q \in Queues : Waiting(u, q)' <=> Waiting(u, q) BY <1>0 DEF Waiting, Unmoved
  <2>2. DeqOK(u) BY <1>0 DEF ThreadOK
  <2> QED BY <1>0, <1>2, <2>1, <2>2 DEF DeqOK, Unmoved
<1>6. readVersion'[u] <= GVC' BY <1>0 DEF ThreadOK, Unmoved, Respects, QueueTypeOK
<1> QED BY <1>3, <1>4, <1>5, <1>6 DEF ThreadOK

(* The steps that change no lock and no queue.                             *)
LEMMA QuietSteps ==
  ASSUME QueueInv, NEW t \in Threads,
         \/ TXbegin(t) \/ put(t) \/ CheckNewer(t) \/ CheckSame(t) \/ CheckSingleton(t)
         \/ IncrementAndAbort(t) \/ enqueue(t) \/ LockedByOther(t)
         \/ TXend(t) \/ ValidateQueue(t) \/ TakeVersion(t) \/ setVersion(t) \/ setSingleton(t)
         \/ CommittedAll(t) \/ Cleanup(t)
         \/ CallSingleton(t) \/ SReadSize(t) \/ SReadClock(t) \/ SSetVersion(t) \/ SSetSingleton(t)
  PROVE  /\ head' = head /\ tail' = tail /\ size' = size /\ nodes' = nodes /\ lock' = lock
         /\ Respects(t) /\ ~crashed'
<1>0. QueueTypeOK /\ ThreadOK(t) /\ crashed = FALSE BY DEF QueueInv
<1>1. head' = head /\ tail' = tail /\ size' = size /\ nodes' = nodes /\ lock' = lock
  BY DEF TXbegin, put, CheckNewer, CheckSame, CheckSingleton, IncrementAndAbort, enqueue, LockedByOther,
     TXend, ValidateQueue, TakeVersion, setVersion, setSingleton, CommittedAll, Cleanup, CallSingleton,
     SReadSize, SReadClock, SSetVersion, SSetSingleton, queues
<1> USE DEF QueueTypeOK, Unmoved, storage, ending, Goto, Abort, GoOn
<1>2. (\A u \in Threads \ {t} : Unmoved(u)) /\ GVC <= GVC' /\ ~crashed'
  <2>1. CASE TXbegin(t) \/ CheckNewer(t) \/ CheckSame(t) \/ CheckSingleton(t)
    BY <1>0, <2>1 DEF TXbegin, CheckNewer, CheckSame, CheckSingleton
  <2>2. CASE put(t) \/ LockedByOther(t) BY <1>0, <2>2 DEF put, LockedByOther
  <2>3. CASE IncrementAndAbort(t) BY <1>0, <2>3 DEF IncrementAndAbort, NextVersion
  <2>4. CASE enqueue(t)
    <3>1. \A u \in Threads \ {t} : queueMap'[u] = queueMap[u] BY <1>0, <2>4 DEF enqueue
    <3> QED BY <1>0, <2>4, <3>1 DEF enqueue
  <2>5. CASE TXend(t) \/ setVersion(t) \/ setSingleton(t) \/ CommittedAll(t)
    BY <1>0, <2>5 DEF TXend, setVersion, setSingleton, CommittedAll
  <2>6. CASE ValidateQueue(t)
    <3>1. \A u \in Threads \ {t} : todo'[u] = todo[u] /\ pc'[u] = pc[u] BY <1>0, <2>6 DEF ValidateQueue
    <3>2. GVC <= GVC' BY <1>0, <2>6 DEF ValidateQueue, NextVersion
    <3> QED BY <1>0, <2>6, <3>1, <3>2 DEF ValidateQueue
  <2>7. CASE TakeVersion(t)
    <3>1. ~crashed' /\ GVC <= GVC' BY <1>0, <2>7 DEF TakeVersion, NextVersion, ThreadOK
    <3> QED BY <1>0, <2>7, <3>1 DEF TakeVersion
  <2>8. CASE Cleanup(t)
    <3>1. \A u \in Threads \ {t} : task'[u] = task[u] BY <1>0, <2>8 DEF Cleanup
    <3> QED BY <1>0, <2>8, <3>1 DEF Cleanup
  <2>9. CASE CallSingleton(t) \/ SReadSize(t) \/ SReadClock(t) \/ SSetVersion(t) \/ SSetSingleton(t)
    BY <1>0, <2>9 DEF CallSingleton, SReadSize, SReadClock, SSetVersion, SSetSingleton
  <2> QED BY <2>1, <2>2, <2>3, <2>4, <2>5, <2>6, <2>7, <2>8, <2>9
<1> QED BY <1>1, <1>2 DEF Respects

(* A quiet step keeps what t relies on, if it does so for t's own          *)
(* variables.                                                              *)
LEMMA QuietThread ==
  ASSUME QueueInv, NEW t \in Threads,
         \/ TXbegin(t) \/ put(t) \/ CheckNewer(t) \/ CheckSame(t) \/ CheckSingleton(t)
         \/ IncrementAndAbort(t) \/ enqueue(t) \/ LockedByOther(t)
         \/ TXend(t) \/ ValidateQueue(t) \/ TakeVersion(t) \/ setVersion(t) \/ setSingleton(t)
         \/ CommittedAll(t) \/ Cleanup(t)
         \/ CallSingleton(t) \/ SReadSize(t) \/ SReadClock(t) \/ SSetVersion(t) \/ SSetSingleton(t)
  PROVE  ThreadOK(t)'
<1>0. QueueTypeOK /\ OpOK(t) /\ LockOK(t) /\ DeqOK(t) /\ readVersion[t] <= GVC BY DEF QueueInv, ThreadOK
<1>1. head' = head /\ nodes' = nodes /\ lock' = lock /\ GVC <= GVC' BY QuietSteps DEF Respects
<1>2. QueueTypeOK' BY OpTypes, EndTypes, SingletonTypes
<1> USE DEF At, Goto, InOp, SBefore, SLocked, CommitLoop, AllLocked, EndLabels
\* Steps that move t to another label of its operation.
<1>3. ASSUME pc[t] \in InOp, pc'[t] \in InOp \cup {"TXend"}, OpOK(t)', readVersion' = readVersion,
             \A q \in Queues : /\ queueMap'[t][q].nodeToDeq = queueMap[t][q].nodeToDeq
                               /\ queueMap'[t][q].isLockedByMe = queueMap[t][q].isLockedByMe
      PROVE  ThreadOK(t)'
  <2>1. LockOK(t)' BY <1>0, <1>3 DEF LockOK
  <2>2. \A q \in Queues : Waiting(t, q)' => Waiting(t, q) BY <1>0, <1>3 DEF Waiting
  <2>3. DeqOK(t)' BY <1>0, <1>1, <1>3, <2>2 DEF DeqOK
  <2>4. readVersion'[t] <= GVC' BY <1>0, <1>1, <1>2, <1>3 DEF QueueTypeOK
  <2> QED BY <1>3, <2>1, <2>3, <2>4 DEF ThreadOK
<1>4. CASE put(t) \/ enqueue(t)
  <2>1. GoOn(t) /\ task' = task /\ pc[t] \in InOp /\ readVersion' = readVersion
    BY <1>4 DEF put, enqueue
  <2>2. OpOK(t)' BY <2>1, GoesOn DEF OpOK
  <2>3. \A q \in Queues : /\ queueMap'[t][q].nodeToDeq = queueMap[t][q].nodeToDeq
                          /\ queueMap'[t][q].isLockedByMe = queueMap[t][q].isLockedByMe
    <3>1. CASE put(t) BY <3>1 DEF put
    <3>2. CASE enqueue(t)
      <4>1. PICK q \in Queues : q = Op(t).q BY <2>1, AtOp
      <4>2. queueMap[t][q] \in LocalQueue BY <1>0 DEF QueueTypeOK
      <4>3. PICK r : r = [queueMap[t][q] EXCEPT !.in = TRUE, !.elems = Append(@, Op(t).val)] OBVIOUS
      <4>4. r.nodeToDeq = queueMap[t][q].nodeToDeq /\ r.isLockedByMe = queueMap[t][q].isLockedByMe
        BY <4>2, <4>3 DEF LocalQueue
      <4>5. queueMap' = [queueMap EXCEPT ![t][q] = r] BY <3>2, <4>1, <4>3 DEF enqueue
      <4>6. \A p \in Queues : queueMap'[t][p] = IF p = q THEN r ELSE queueMap[t][p]
        BY <1>0, <4>5 DEF QueueTypeOK
      <4> QED BY <4>4, <4>6
    <3> QED BY <1>4, <3>1, <3>2
  <2> QED BY <1>3, <2>1, <2>2, <2>3, GoesOn
<1>5. CASE CheckNewer(t) \/ CheckSame(t) \/ CheckSingleton(t) \/ IncrementAndAbort(t) \/ LockedByOther(t)
  <2>1. /\ pc[t] \in InOp /\ task' = task /\ op' = op /\ readVersion' = readVersion /\ queueMap' = queueMap
    BY <1>5 DEF CheckNewer, CheckSame, CheckSingleton, IncrementAndAbort, LockedByOther, storage
  <2>2. Op(t)' = Op(t) /\ Task(t)' = Task(t) /\ (Busy(t)' <=> Busy(t)) BY <2>1 DEF Op, Task, Busy
  <2>3. Op(t).op \in {"enqueue", "dequeue", "isEmpty", "put"} BY <2>1, AtOp
  <2>4. /\ pc'[t] \in InOp \cup {"TXend"}
        /\ pc'[t] \in {"checkSame", "checkFlag"} => Op(t).op # "put"
    <3>1. CASE CheckNewer(t) BY <1>0, <3>1 DEF CheckNewer, Abort, QueueTypeOK
    <3>2. CASE CheckSame(t) \/ CheckSingleton(t)
      BY <1>0, <2>3, <3>2 DEF CheckSame, CheckSingleton, QueueTypeOK, OpOK
    <3>3. CASE IncrementAndAbort(t) \/ LockedByOther(t)
      BY <1>0, <3>3 DEF IncrementAndAbort, LockedByOther, Abort, QueueTypeOK
    <3> QED BY <1>5, <3>1, <3>2, <3>3
  <2>5. OpOK(t)' BY <1>0, <2>1, <2>2, <2>4 DEF OpOK
  <2> QED BY <1>3, <2>1, <2>4, <2>5
<1>6. CASE TXbegin(t)
  <2>1. /\ pc[t] = "idle" /\ pc'[t] = "op" /\ task' = task /\ op'[t] = 1 /\ readVersion'[t] = GVC
        /\ queueMap' = queueMap /\ GVC' = GVC /\ Busy(t)
    BY <1>0, <1>6 DEF TXbegin, QueueTypeOK
  <2>2. Task(t)' = Task(t) /\ Busy(t)' BY <2>1 DEF Task, Busy
  <2>3. 1 \in DOMAIN Task(t).ops BY <1>0, <2>1, OpFacts
  <2>4. OpOK(t)' BY <2>1, <2>2, <2>3 DEF OpOK
  <2>5. LockOK(t)' BY <1>0, <2>1 DEF LockOK
  <2>6. DeqOK(t)' BY <1>0, <2>1 DEF DeqOK, Waiting
  <2> QED BY <1>0, <2>1, <2>4, <2>5, <2>6 DEF ThreadOK, QueueTypeOK
<1>7. CASE TXend(t)
  <2>1. /\ pc[t] = "TXend" /\ pc'[t] \in {"lock", "release"} /\ todo'[t] = Map(t)
        /\ task' = task /\ op' = op /\ readVersion' = readVersion /\ queueMap' = queueMap /\ GVC' = GVC
    BY <1>0, <1>7 DEF TXend, QueueTypeOK, storage
  <2>2. Map(t)' = Map(t) BY <2>1 DEF Map
  <2>3. OpOK(t)' BY <2>1 DEF OpOK
  <2>4. LockOK(t)' BY <1>0, <2>1, <2>2 DEF LockOK
  <2>5. DeqOK(t)' BY <1>0, <1>1, <2>1 DEF DeqOK, Waiting
  <2> QED BY <1>0, <2>1, <2>3, <2>4, <2>5 DEF ThreadOK
<1>8. CASE ValidateQueue(t) \/ TakeVersion(t) \/ setVersion(t) \/ setSingleton(t) \/ CommittedAll(t)
  <2>1. /\ task' = task /\ op' = op /\ readVersion' = readVersion /\ queueMap' = queueMap
        /\ pc[t] \in AllLocked
    BY <1>8 DEF ValidateQueue, TakeVersion, setVersion, setSingleton, CommittedAll, storage
  <2>2. Map(t)' = Map(t) /\ Map(t) \subseteq Queues BY <2>1 DEF Map
  <2>3. /\ pc'[t] \in AllLocked \cup {"release"} /\ todo'[t] \subseteq Map(t)
        /\ pc'[t] \in CommitLoop => pc[t] \in CommitLoop /\ cur' = cur /\ todo' = todo
        /\ pc'[t] = "release" => todo'[t] = Map(t)
        /\ pc'[t] = "dequeueNodes" /\ pc[t] \in CommitLoop => todo'[t] = todo[t] \ {cur[t]}
        /\ pc[t] = "dequeueNodes" => pc'[t] = "release"
        /\ pc'[t] \in {"validate", "version"} => pc[t] = "validate"
    <3>1. todo[t] \subseteq Map(t) BY <1>0, <2>1 DEF LockOK
    <3>2. CASE ValidateQueue(t)
      <4>1. pc[t] = "validate" /\ pc'[t] \in {"validate", "version", "release"} BY <1>0, <3>2 DEF ValidateQueue, QueueTypeOK
      <4>2. todo'[t] \subseteq Map(t) /\ (pc'[t] = "release" => todo'[t] = Map(t))
        BY <1>0, <3>1, <3>2 DEF ValidateQueue, QueueTypeOK
      <4> QED BY <4>1, <4>2
    <3>3. CASE TakeVersion(t) \/ CommittedAll(t) BY <1>0, <3>3 DEF TakeVersion, CommittedAll, QueueTypeOK
    <3>4. CASE setVersion(t) BY <1>0, <3>1, <3>4 DEF setVersion, QueueTypeOK, ending
    <3>5. CASE setSingleton(t) BY <1>0, <3>1, <3>5 DEF setSingleton, QueueTypeOK
    <3> QED BY <1>8, <3>2, <3>3, <3>4, <3>5
  <2>4. OpOK(t)' BY <2>3 DEF OpOK
  <2>5. LockOK(t)' BY <1>0, <1>1, <2>1, <2>2, <2>3 DEF LockOK
  <2>6. \A q \in Queues : Waiting(t, q)' => Waiting(t, q) BY <1>0, <2>1, <2>3 DEF Waiting
  <2>7. DeqOK(t)' BY <1>0, <1>1, <2>1, <2>3, <2>6 DEF DeqOK
  <2>8. readVersion'[t] <= GVC' BY <1>0, <1>1, <1>2, <2>1 DEF QueueTypeOK
  <2> QED BY <2>4, <2>5, <2>7, <2>8 DEF ThreadOK
<1>9. CASE Cleanup(t)
  <2>1. /\ pc'[t] = "idle" /\ op'[t] = 1 /\ readVersion'[t] = 0 /\ queueMap'[t] = Cleared(t)
    BY <1>0, <1>9 DEF Cleanup, QueueTypeOK
  <2>2. \A q \in Queues : /\ queueMap'[t][q].nodeToDeq = Null /\ queueMap'[t][q].isLockedByMe = FALSE
    BY <2>1 DEF Cleared, NewLocalQueue
  <2>3. OpOK(t)' BY <2>1 DEF OpOK
  <2>4. LockOK(t)' BY <2>1, <2>2 DEF LockOK
  <2>5. DeqOK(t)' BY <2>1, <2>2 DEF DeqOK, Waiting
  <2> QED BY <1>2, <2>1, <2>3, <2>4, <2>5 DEF ThreadOK, QueueTypeOK
<1>10. CASE CallSingleton(t) \/ SReadSize(t) \/ SReadClock(t) \/ SSetVersion(t) \/ SSetSingleton(t)
  <2>1. /\ task' = task /\ op' = op /\ readVersion' = readVersion /\ queueMap' = queueMap /\ GVC' = GVC
        /\ todo' = todo
    BY <1>10 DEF CallSingleton, SReadSize, SReadClock, SSetVersion, SSetSingleton, storage, ending
  <2>2. Op(t)' = Op(t) /\ Task(t)' = Task(t) /\ (Busy(t)' <=> Busy(t)) BY <2>1 DEF Op, Task, Busy
  <2>3. \/ pc[t] = "idle" /\ Busy(t) /\ pc'[t] \in SBefore
        \/ pc[t] \in SBefore /\ pc'[t] \in SBefore
        \/ pc[t] \in SLocked /\ pc'[t] \in SLocked
    BY <1>0, <1>10 DEF CallSingleton, SReadSize, SReadClock, SSetVersion, SSetSingleton, QueueTypeOK
  <2>4. OpOK(t)'
    <3>1. Busy(t) => 1 \in DOMAIN Task(t).ops BY <1>0, OpFacts
    <3> QED BY <1>0, <2>1, <2>2, <2>3, <3>1 DEF OpOK
  <2>5. LockOK(t)' BY <1>0, <1>1, <2>1, <2>2, <2>3 DEF LockOK
  <2>6. DeqOK(t)' BY <1>0, <2>1, <2>3 DEF DeqOK, Waiting
  <2> QED BY <1>0, <2>1, <2>4, <2>5, <2>6 DEF ThreadOK
<1> QED BY <1>4, <1>5, <1>6, <1>7, <1>8, <1>9, <1>10

-----------------------------------------------------------------------------
(* The steps that change locks or queues *)

(* A step of t keeps the invariant when it keeps the types, respects the   *)
(* other threads, keeps what t relies on and leaves well-formed queues.    *)
Safe(t) == /\ Respects(t) /\ ThreadOK(t)' /\ ~crashed'
           /\ \A q \in Queues : Shape(q)'

(* A change of a queue that t has locked or may lock respects the others.  *)
LEMMA ChangeRespects ==
  ASSUME QueueInv, NEW t \in Threads, NEW q \in Queues, Changes(q), CanLock(t, q),
         lock' = lock \/ lock' = [lock EXCEPT ![q] = t], GVC' = GVC,
         \A u \in Threads \ {t} : Unmoved(u)
  PROVE  Respects(t) /\ \A r \in Queues : Shape(r)'
<1>0. QueueTypeOK /\ \A r \in Queues : Shape(r) BY DEF QueueInv
<1>1. \A r \in Queues : r # q => lock'[r] = lock[r] /\ head'[r] = head[r] /\ nodes'[r] = nodes[r]
                                 /\ tail'[r] = tail[r] /\ size'[r] = size[r]
  BY <1>0 DEF Changes, QueueTypeOK
<1>2. ASSUME NEW r \in Queues PROVE Shape(r)'
  <2>1. CASE r = q BY <2>1 DEF Changes
  <2>2. CASE r # q
    <3>1. Shape(r) BY <1>0
    <3>2. head'[r] = head[r] /\ tail'[r] = tail[r] /\ size'[r] = size[r] /\ nodes'[r] = nodes[r]
      BY <1>1, <2>2
    <3> QED BY <3>1, <3>2 DEF Shape
  <2> QED BY <2>1, <2>2
<1>3. lock[q] \in {Null, t} BY DEF CanLock
<1>4. GVC <= GVC' BY <1>0 DEF QueueTypeOK
<1> QED BY <1>1, <1>2, <1>3, <1>4 DEF Respects

(* dequeue and isEmpty take the lock.                                      *)
LEMMA LockingOps ==
  ASSUME QueueInv, NEW t \in Threads, dequeue(t) \/ isEmpty(t)
  PROVE  Safe(t)
<1>0. /\ QueueTypeOK /\ OpOK(t) /\ LockOK(t) /\ DeqOK(t) /\ readVersion[t] <= GVC /\ crashed = FALSE
      /\ pc[t] \in {"dequeue", "isEmpty"}
  <2>1. pc[t] \in {"dequeue", "isEmpty"} BY DEF dequeue, isEmpty, At
  <2> QED BY <2>1 DEF QueueInv, ThreadOK
<1>1. /\ GVC' = GVC /\ head' = head /\ tail' = tail /\ size' = size /\ nodes' = nodes /\ task' = task
      /\ readVersion' = readVersion /\ todo' = todo /\ cur' = cur /\ crashed' = crashed
  BY DEF dequeue, isEmpty, queues, ending
<1>2. PICK q \in Queues, r \in LocalQueue :
        /\ CanLock(t, q) /\ lock' = [lock EXCEPT ![q] = t]
        /\ queueMap' = [queueMap EXCEPT ![t][q] = r]
        /\ r.isLockedByMe = queueMap[t][q].isLockedByMe
        /\ \/ r.nodeToDeq = queueMap[t][q].nodeToDeq
           \/ r.nodeToDeq # Null => head[q] # Null /\ r.nodeToDeq \in head[q] .. Len(nodes[q])
  <2>1. CASE dequeue(t) BY <2>1, DequeueFacts
  <2>2. CASE isEmpty(t)
    <3>1. PICK q \in Queues : q = Op(t).q BY <1>0, AtOp DEF InOp
    <3>2. CanLock(t, q) /\ lock' = [lock EXCEPT ![q] = t] BY <2>2, <3>1 DEF isEmpty
    <3>3. PICK lq \in LocalQueue : lq = queueMap[t][q] BY <1>0 DEF QueueTypeOK
    <3>4. PICK r : r = [lq EXCEPT !.in = TRUE] OBVIOUS
    <3>5. r \in LocalQueue /\ r.isLockedByMe = lq.isLockedByMe /\ r.nodeToDeq = lq.nodeToDeq
      BY <3>3, <3>4 DEF LocalQueue
    <3>6. \/ queueMap' = [queueMap EXCEPT ![t][q] = r]
          \/ queueMap' = queueMap
      BY <2>2, <3>1, <3>3, <3>4 DEF isEmpty
    <3>7. queueMap = [queueMap EXCEPT ![t][q] = lq] BY <1>0, <3>3 DEF QueueTypeOK
    <3>8. CASE queueMap' = [queueMap EXCEPT ![t][q] = r] BY <3>2, <3>3, <3>5, <3>8
    <3>9. CASE queueMap' = queueMap BY <3>2, <3>3, <3>7, <3>9
    <3> QED BY <3>6, <3>8, <3>9
  <2> QED BY <2>1, <2>2
<1>3. \A p \in Queues : /\ queueMap'[t][p] = IF p = q THEN r ELSE queueMap[t][p]
                        /\ lock'[p] = IF p = q THEN t ELSE lock[p]
  BY <1>0, <1>2 DEF QueueTypeOK
<1>4. /\ pc'[t] \in {"TXend", "op"} /\ \A u \in Threads \ {t} : pc'[u] = pc[u] /\ op'[u] = op[u]
      /\ OpOK(t)'
  <2>1. CASE GoOn(t)
    <3>1. pc[t] \in InOp BY <1>0 DEF InOp
    <3>2. /\ pc' = [pc EXCEPT ![t] = pc'[t]] /\ pc'[t] \in {"TXend", "op"}
          /\ pc'[t] = "op" => Busy(t)' /\ op'[t] \in DOMAIN Task(t)'.ops
          /\ op' = [op EXCEPT ![t] = op[t] + 1]
      BY <1>1, <2>1, <3>1, GoesOn
    <3>3. \A u \in Threads \ {t} : pc'[u] = pc[u] /\ op'[u] = op[u]
      BY <1>0, <2>1 DEF GoOn, Goto, QueueTypeOK
    <3>4. OpOK(t)' BY <3>2 DEF OpOK, InOp, SBefore, SLocked
    <3> QED BY <3>2, <3>3, <3>4
  <2>2. CASE Goto(t, "TXend") /\ op' = op
    <3>1. pc'[t] = "TXend" /\ \A u \in Threads \ {t} : pc'[u] = pc[u]
      BY <1>0, <2>2 DEF Goto, QueueTypeOK
    <3>2. OpOK(t)' BY <3>1 DEF OpOK, InOp, SBefore, SLocked
    <3> QED BY <2>2, <3>1, <3>2
  <2> QED BY <2>1, <2>2 DEF dequeue, isEmpty
<1>5. \A u \in Threads \ {t} : Unmoved(u)
  <2>1. \A u \in Threads \ {t} : queueMap'[u] = queueMap[u] BY <1>0, <1>2 DEF QueueTypeOK
  <2> QED BY <1>1, <1>4, <2>1 DEF Unmoved
<1>6. Respects(t) /\ \A p \in Queues : Shape(p)'
  <2>1. Changes(q) BY <1>1 DEF QueueInv, Changes, Shape, QueueTypeOK
  <2> QED BY <1>1, <1>2, <1>5, <2>1, ChangeRespects
<1>7. LockOK(t)'
  <2>1. \A p \in Queues : queueMap'[t][p].isLockedByMe = queueMap[t][p].isLockedByMe BY <1>2, <1>3
  <2>2. \A p \in Queues : ~queueMap[t][p].isLockedByMe
    BY <1>0 DEF LockOK, EndLabels, AllLocked, CommitLoop
  <2> QED BY <1>4, <2>1, <2>2 DEF LockOK, SLocked, EndLabels, AllLocked, CommitLoop
<1>8. DeqOK(t)'
  <2>1. ASSUME NEW p \in Queues, queueMap'[t][p].nodeToDeq # Null
        PROVE  /\ lock'[p] = t /\ head[p] # Null
               /\ queueMap'[t][p].nodeToDeq \in head[p] .. Len(nodes[p])
    <3>1. queueMap[t][p].nodeToDeq # Null =>
            /\ lock[p] = t /\ head[p] # Null
            /\ queueMap[t][p].nodeToDeq \in head[p] .. Len(nodes[p])
      BY <1>0 DEF DeqOK, Waiting, CommitLoop
    <3>2. CASE p = q BY <1>2, <1>3, <2>1, <3>1, <3>2
    <3>3. CASE p # q BY <1>3, <2>1, <3>1, <3>3
    <3> QED BY <3>2, <3>3
  <2> QED BY <1>1, <1>4, <2>1 DEF DeqOK, Waiting, SBefore, SLocked
<1> QED BY <1>0, <1>1, <1>4, <1>6, <1>7, <1>8 DEF Safe, ThreadOK

(* The lock phase of TXend.                                                *)
LEMMA LockPhase ==
  ASSUME QueueInv, NEW t \in Threads, LockQueue(t)
  PROVE  Safe(t)
<1>0. /\ QueueTypeOK /\ OpOK(t) /\ LockOK(t) /\ DeqOK(t) /\ readVersion[t] <= GVC /\ crashed = FALSE
      /\ t # Null /\ \A q \in Queues : Shape(q)
  BY NullAssumption DEF QueueInv, ThreadOK
<1>1. /\ pc[t] = "lock" /\ GVC' = GVC /\ head' = head /\ tail' = tail /\ size' = size /\ nodes' = nodes
      /\ task' = task /\ op' = op /\ readVersion' = readVersion /\ cur' = cur /\ crashed' = crashed
  BY DEF LockQueue, At, queues
<1>2. \A q \in Queues : Shape(q)' BY <1>0, <1>1 DEF Shape
<1>3. todo[t] \subseteq Map(t) /\ Map(t) \subseteq Queues BY <1>0, <1>1 DEF LockOK, EndLabels, Map
<1> USE DEF SLocked, SBefore, InOp, EndLabels, AllLocked, CommitLoop
<1>4. ASSUME NEW q \in todo[t], CanLock(t, q), lock' = [lock EXCEPT ![q] = t],
             queueMap' = [queueMap EXCEPT ![t][q].isLockedByMe = TRUE],
             todo' = [todo EXCEPT ![t] = @ \ {q}], pc' = pc
      PROVE  Safe(t)
  <2>0. q \in Queues BY <1>3, <1>4
  <2>1. PICK lq \in LocalQueue : lq = queueMap[t][q] BY <1>0, <2>0 DEF QueueTypeOK
  <2>2. PICK r : r = [lq EXCEPT !.isLockedByMe = TRUE] OBVIOUS
  <2>3. r.in = lq.in /\ r.nodeToDeq = lq.nodeToDeq BY <2>1, <2>2 DEF LocalQueue
  <2>4. queueMap' = [queueMap EXCEPT ![t][q] = r] BY <1>4, <2>1, <2>2
  <2>5. \A p \in Queues : /\ queueMap'[t][p] = IF p = q THEN r ELSE queueMap[t][p]
                          /\ lock'[p] = IF p = q THEN t ELSE lock[p]
    <3>1. \A p \in Queues : queueMap'[t][p] = IF p = q THEN r ELSE queueMap[t][p]
      BY <1>0, <2>0, <2>4 DEF QueueTypeOK
    <3>2. \A p \in Queues : lock'[p] = IF p = q THEN t ELSE lock[p] BY <1>0, <1>4, <2>0 DEF QueueTypeOK
    <3> QED BY <3>1, <3>2
  <2>6. Map(t)' = Map(t) BY <2>1, <2>3, <2>5 DEF Map
  <2>7. todo'[t] = todo[t] \ {q} /\ \A u \in Threads \ {t} : todo'[u] = todo[u] /\ queueMap'[u] = queueMap[u]
    BY <1>0, <1>4, <2>4 DEF QueueTypeOK
  <2>8. Respects(t)
    <3>1. \A p \in Queues : lock[p] \notin {Null, t} => lock'[p] = lock[p] BY <1>4, <2>5 DEF CanLock
    <3> QED BY <1>0, <1>1, <1>4, <2>7, <3>1 DEF Respects, Unmoved, QueueTypeOK
  <2>9. OpOK(t)' BY <1>1, <1>4 DEF OpOK
  <2>10. LockOK(t)'
    <3>1. \A p \in Map(t) \ todo'[t] : lock'[p] = t
      <4>1. \A p \in Map(t) \ todo[t] : lock[p] = t BY <1>0, <1>1 DEF LockOK
      <4> QED BY <1>3, <2>5, <2>7, <4>1
    <3>2. \A p \in Queues : queueMap'[t][p].isLockedByMe => lock'[p] = t
      <4>1. \A p \in Queues : queueMap[t][p].isLockedByMe => lock[p] = t BY <1>0, <1>1 DEF LockOK
      <4> QED BY <2>5, <4>1
    <3> QED BY <1>1, <1>3, <1>4, <2>6, <2>7, <3>1, <3>2 DEF LockOK
  <2>11. DeqOK(t)'
    <3>1. \A p \in Queues : queueMap'[t][p].nodeToDeq = queueMap[t][p].nodeToDeq BY <2>1, <2>3, <2>5
    <3>2. \A p \in Queues : Waiting(t, p)' => Waiting(t, p) BY <1>1, <3>1 DEF Waiting
    <3>3. \A p \in Queues : lock[p] = t => lock'[p] = t BY <2>5
    <3> QED BY <1>0, <1>1, <1>4, <3>1, <3>2, <3>3 DEF DeqOK
  <2> QED BY <1>0, <1>1, <1>2, <2>8, <2>9, <2>10, <2>11 DEF Safe, ThreadOK
<1>5. ASSUME lock' = lock, queueMap' = queueMap, todo' = [todo EXCEPT ![t] = Map(t)],
             \E l \in {"release", "validate"} : Goto(t, l) /\ (l = "validate" => todo[t] = {})
      PROVE  Safe(t)
  <2>1. /\ pc'[t] \in {"release", "validate"} /\ (pc'[t] = "validate" => todo[t] = {})
        /\ \A u \in Threads \ {t} : pc'[u] = pc[u]
    BY <1>0, <1>5 DEF Goto, QueueTypeOK
  <2>2. todo'[t] = Map(t) /\ \A u \in Threads \ {t} : todo'[u] = todo[u] BY <1>0, <1>5 DEF QueueTypeOK
  <2>3. Map(t)' = Map(t) BY <1>5 DEF Map
  <2>4. Respects(t) BY <1>0, <1>1, <1>5, <2>1, <2>2 DEF Respects, Unmoved, QueueTypeOK
  <2>5. OpOK(t)' BY <2>1 DEF OpOK
  <2>6. LockOK(t)' BY <1>0, <1>1, <1>3, <1>5, <2>1, <2>2, <2>3 DEF LockOK
  <2>7. DeqOK(t)' BY <1>0, <1>1, <1>5, <2>1 DEF DeqOK, Waiting
  <2> QED BY <1>0, <1>1, <1>2, <2>4, <2>5, <2>6, <2>7 DEF Safe, ThreadOK
<1> QED BY <1>4, <1>5 DEF LockQueue

(* The write-back of one queue.                                            *)
LEMMA WriteBack ==
  ASSUME QueueInv, NEW t \in Threads, dequeueNodes(t) \/ enqueueNodes(t)
  PROVE  Safe(t)
<1>0. /\ QueueTypeOK /\ OpOK(t) /\ LockOK(t) /\ DeqOK(t) /\ readVersion[t] <= GVC /\ crashed = FALSE
  BY DEF QueueInv, ThreadOK
<1>1. /\ pc[t] \in {"dequeueNodes", "enqueueNodes"} /\ GVC' = GVC /\ lock' = lock /\ task' = task /\ op' = op
      /\ readVersion' = readVersion /\ todo' = todo
  BY DEF dequeueNodes, enqueueNodes, At, storage, ending
<1>2. /\ pc'[t] \in {"enqueueNodes", "setVersion"} /\ \A u \in Threads \ {t} : pc'[u] = pc[u]
  BY <1>0 DEF dequeueNodes, enqueueNodes, Goto, QueueTypeOK
<1>3. PICK q \in Queues :
        /\ ~crashed' /\ cur'[t] = q /\ q \in todo[t] /\ lock[q] = t /\ Changes(q)
        /\ pc[t] = "enqueueNodes" => q = cur[t]
        /\ \A u \in Threads \ {t} : cur'[u] = cur[u] /\ queueMap'[u] = queueMap[u]
        /\ \A p \in Queues : /\ queueMap'[t][p].in = queueMap[t][p].in
                             /\ queueMap'[t][p].nodeToDeq = queueMap[t][p].nodeToDeq
                             /\ queueMap'[t][p].isLockedByMe = queueMap[t][p].isLockedByMe
  <2>1. CASE dequeueNodes(t)
    <3>1. queueMap' = queueMap /\ pc[t] = "dequeueNodes" BY <2>1 DEF dequeueNodes, storage, At
    <3>2. PICK q \in todo[t] : q \in Queues /\ cur' = [cur EXCEPT ![t] = q] /\ lock[q] = t
                               /\ Changes(q) /\ ~crashed'
      BY <2>1, DequeueNodesFacts
    <3>3. cur'[t] = q /\ \A u \in Threads \ {t} : cur'[u] = cur[u] BY <1>0, <3>2 DEF QueueTypeOK
    <3> QED BY <3>1, <3>2, <3>3
  <2>2. CASE enqueueNodes(t)
    <3>1. cur' = cur /\ crashed' = crashed BY <2>2 DEF enqueueNodes, ending
    <3> QED BY <1>0, <2>2, <3>1, EnqueueNodesFacts
  <2> QED BY <2>1, <2>2
<1>4. \A u \in Threads \ {t} : Unmoved(u) BY <1>1, <1>2, <1>3 DEF Unmoved
<1>6. Respects(t) /\ \A p \in Queues : Shape(p)'
  BY <1>1, <1>3, <1>4, ChangeRespects DEF CanLock
<1> USE DEF SLocked, SBefore, InOp, EndLabels, AllLocked, CommitLoop
<1>7. Map(t)' = Map(t) /\ Map(t) \subseteq Queues BY <1>3 DEF Map
<1>8. OpOK(t)' BY <1>2 DEF OpOK
<1>9. LockOK(t)' BY <1>0, <1>1, <1>2, <1>3, <1>7 DEF LockOK
<1>10. DeqOK(t)'
  <2>1. ASSUME NEW p \in Queues, Waiting(t, p)' PROVE Waiting(t, p) /\ p # q
    BY <1>1, <1>2, <1>3, <2>1 DEF Waiting
  <2>2. \A p \in Queues : p # q => head'[p] = head[p] /\ nodes'[p] = nodes[p] BY <1>3 DEF Changes
  <2> QED BY <1>0, <1>1, <1>2, <1>3, <2>1, <2>2 DEF DeqOK
<1> QED BY <1>0, <1>1, <1>3, <1>6, <1>8, <1>9, <1>10 DEF Safe, ThreadOK

(* unlock meets a lock of the thread.                                      *)
LEMMA ReleasePhase ==
  ASSUME QueueInv, NEW t \in Threads, ReleaseQueue(t)
  PROVE  Safe(t)
<1>0. /\ QueueTypeOK /\ OpOK(t) /\ LockOK(t) /\ DeqOK(t) /\ readVersion[t] <= GVC /\ crashed = FALSE
      /\ t # Null /\ \A q \in Queues : Shape(q)
  BY NullAssumption DEF QueueInv, ThreadOK
<1>1. /\ pc[t] = "release" /\ GVC' = GVC /\ head' = head /\ tail' = tail /\ size' = size /\ nodes' = nodes
      /\ task' = task /\ op' = op /\ readVersion' = readVersion /\ cur' = cur /\ pc' = pc
  BY DEF ReleaseQueue, At, queues
<1>2. PICK q \in todo[t] :
        /\ todo' = [todo EXCEPT ![t] = @ \ {q}]
        /\ \/ /\ queueMap[t][q].isLockedByMe
              /\ crashed' = (lock[q] # t)
              /\ lock' = [lock EXCEPT ![q] = Null]
              /\ queueMap' = [queueMap EXCEPT ![t][q].isLockedByMe = FALSE]
           \/ /\ ~queueMap[t][q].isLockedByMe
              /\ UNCHANGED <<lock, queueMap, crashed>>
  BY DEF ReleaseQueue
<1>3. q \in Queues /\ (queueMap[t][q].isLockedByMe => lock[q] = t)
  BY <1>0, <1>2 DEF QueueTypeOK, LockOK
<1>4. ~crashed' BY <1>0, <1>2, <1>3
<1>5. \A p \in Queues : lock'[p] = lock[p] \/ (p = q /\ lock[q] = t) BY <1>0, <1>2, <1>3 DEF QueueTypeOK
<1>6. todo'[t] = todo[t] \ {q} /\ \A u \in Threads \ {t} : todo'[u] = todo[u] BY <1>0, <1>2 DEF QueueTypeOK
<1>7. \A p \in Queues : Shape(p)' BY <1>0, <1>1 DEF Shape
<1>8. /\ \A p \in Queues : /\ queueMap'[t][p].in = queueMap[t][p].in
                           /\ queueMap'[t][p].nodeToDeq = queueMap[t][p].nodeToDeq
                           /\ queueMap'[t][p].isLockedByMe => queueMap[t][p].isLockedByMe
      /\ \A u \in Threads \ {t} : queueMap'[u] = queueMap[u]
  <2>1. CASE queueMap' = queueMap BY <2>1
  <2>2. CASE queueMap' = [queueMap EXCEPT ![t][q].isLockedByMe = FALSE]
    <3>1. PICK lq \in LocalQueue : lq = queueMap[t][q] BY <1>0, <1>3 DEF QueueTypeOK
    <3>2. PICK r : r = [lq EXCEPT !.isLockedByMe = FALSE] OBVIOUS
    <3>3. r.in = lq.in /\ r.nodeToDeq = lq.nodeToDeq /\ ~r.isLockedByMe BY <3>1, <3>2 DEF LocalQueue
    <3>4. queueMap' = [queueMap EXCEPT ![t][q] = r] BY <2>2, <3>1, <3>2
    <3>5. \A p \in Queues : queueMap'[t][p] = IF p = q THEN r ELSE queueMap[t][p]
      BY <1>0, <1>3, <3>4 DEF QueueTypeOK
    <3>6. \A u \in Threads \ {t} : queueMap'[u] = queueMap[u] BY <1>0, <3>4 DEF QueueTypeOK
    <3> QED BY <3>1, <3>3, <3>5, <3>6
  <2> QED BY <1>2, <2>1, <2>2
<1>9. Respects(t) BY <1>0, <1>1, <1>5, <1>6, <1>8 DEF Respects, Unmoved, QueueTypeOK
<1> USE DEF SLocked, SBefore, InOp, EndLabels, AllLocked, CommitLoop
<1>10. OpOK(t)' BY <1>0, <1>1 DEF OpOK, Busy, Task, Op
<1>11. LockOK(t)'
  <2>1. Map(t)' = Map(t) BY <1>8 DEF Map
  <2> QED BY <1>0, <1>1, <1>5, <1>6, <1>8, <2>1 DEF LockOK
<1>12. DeqOK(t)' BY <1>0, <1>1, <1>8 DEF DeqOK, Waiting
<1> QED BY <1>0, <1>1, <1>4, <1>7, <1>9, <1>10, <1>11, <1>12 DEF Safe, ThreadOK

(* Singletons under the lock.                                              *)
LEMMA SingletonLocked ==
  ASSUME QueueInv, NEW t \in Threads, SEnqueue(t) \/ SDequeue(t) \/ SIsEmpty(t)
  PROVE  Safe(t)
<1>0. /\ QueueTypeOK /\ OpOK(t) /\ LockOK(t) /\ DeqOK(t) /\ readVersion[t] <= GVC /\ crashed = FALSE
  BY DEF QueueInv, ThreadOK
<1>1. /\ pc[t] = "sLock" /\ GVC' = GVC /\ task' = task /\ op' = op /\ readVersion' = readVersion
      /\ todo' = todo /\ cur' = cur /\ queueMap' = queueMap /\ crashed' = crashed
  BY DEF SEnqueue, SDequeue, SIsEmpty, At, storage, ending
<1>2. /\ pc'[t] \in SLocked /\ \A u \in Threads \ {t} : pc'[u] = pc[u]
  BY <1>0 DEF SEnqueue, SDequeue, SIsEmpty, Goto, QueueTypeOK, SLocked
<1>3. PICK q \in Queues : /\ q = Op(t).q /\ CanLock(t, q) /\ lock' = [lock EXCEPT ![q] = t]
                          /\ Changes(q)
  <2>1. CASE SEnqueue(t) \/ SDequeue(t) BY <2>1, SingletonFacts
  <2>2. CASE SIsEmpty(t)
    <3>1. PICK q \in Queues : q = Op(t).q BY <1>1, AtOp DEF SBefore
    <3>2. head' = head /\ tail' = tail /\ size' = size /\ nodes' = nodes BY <2>2 DEF SIsEmpty, queues
    <3>3. Changes(q) BY <3>2 DEF QueueInv, Changes, Shape, QueueTypeOK
    <3> QED BY <2>2, <3>1, <3>3 DEF SIsEmpty
  <2> QED BY <2>1, <2>2
<1>4. \A u \in Threads \ {t} : Unmoved(u) BY <1>1, <1>2 DEF Unmoved
<1>5. Respects(t) /\ \A p \in Queues : Shape(p)' BY <1>1, <1>3, <1>4, ChangeRespects
<1>6. Op(t)' = Op(t) /\ Task(t)' = Task(t) /\ (Busy(t)' <=> Busy(t)) BY <1>1 DEF Op, Task, Busy
<1>7. lock'[q] = t BY <1>0, <1>3 DEF QueueTypeOK
<1> USE DEF SLocked, SBefore, InOp, EndLabels, AllLocked, CommitLoop
<1>8. OpOK(t)' BY <1>0, <1>1, <1>2, <1>6 DEF OpOK
<1>9. LockOK(t)' BY <1>0, <1>1, <1>2, <1>3, <1>6, <1>7 DEF LockOK
<1>10. DeqOK(t)' BY <1>0, <1>1, <1>2 DEF DeqOK, Waiting
<1> QED BY <1>0, <1>1, <1>5, <1>8, <1>9, <1>10 DEF Safe, ThreadOK

(* The end of a singleton.                                                 *)
LEMMA SingletonUnlocks ==
  ASSUME QueueInv, NEW t \in Threads, SUnlock(t)
  PROVE  Safe(t)
<1>0. /\ QueueTypeOK /\ OpOK(t) /\ LockOK(t) /\ DeqOK(t) /\ readVersion[t] <= GVC /\ crashed = FALSE
      /\ \A q \in Queues : Shape(q)
  BY DEF QueueInv, ThreadOK
<1>1. /\ pc[t] = "sUnlock" /\ GVC' = GVC /\ head' = head /\ tail' = tail /\ size' = size /\ nodes' = nodes
      /\ op' = op /\ readVersion' = readVersion /\ todo' = todo /\ cur' = cur /\ queueMap' = queueMap
  BY DEF SUnlock, At, queues, storage, ending
<1>2. PICK q \in Queues : q = Op(t).q BY <1>1, AtOp DEF SLocked
<1>3. lock[q] = t BY <1>0, <1>1, <1>2 DEF LockOK, SLocked
<1>4. ~crashed' /\ lock' = [lock EXCEPT ![q] = Null] BY <1>2, <1>3 DEF SUnlock
<1>5. pc'[t] = "idle" /\ \A u \in Threads \ {t} : pc'[u] = pc[u] /\ task'[u] = task[u]
  BY <1>0 DEF SUnlock, Goto, QueueTypeOK
<1>6. \A p \in Queues : p # q => lock'[p] = lock[p] BY <1>0, <1>4 DEF QueueTypeOK
<1>7. \A p \in Queues : Shape(p)' BY <1>0, <1>1 DEF Shape
<1>8. Respects(t) BY <1>0, <1>1, <1>3, <1>5, <1>6 DEF Respects, Unmoved, QueueTypeOK
<1> USE DEF SLocked, SBefore, InOp, EndLabels, AllLocked, CommitLoop
<1>9. OpOK(t)' BY <1>0, <1>1, <1>5 DEF OpOK
<1>10. LockOK(t)' BY <1>0, <1>1, <1>5 DEF LockOK
<1>11. DeqOK(t)' BY <1>0, <1>1, <1>5 DEF DeqOK, Waiting
<1> QED BY <1>0, <1>1, <1>4, <1>7, <1>8, <1>9, <1>10, <1>11 DEF Safe, ThreadOK

-----------------------------------------------------------------------------
(* The theorems *)

(* The start: preloaded queues, and nobody busy.                           *)
LEMMA QueueInit == Init => QueueInv
<1> SUFFICES ASSUME Init PROVE QueueInv OBVIOUS
<1> USE DEF Init
<1>1. \A q \in Queues : Contents[q] \in Seq(Vals) BY ContentsAssumption
<1>2. ASSUME NEW q \in Queues
      PROVE  /\ Preload(q) \in Seq(Node) /\ Len(Preload(q)) = Len(Contents[q])
             /\ \A i \in 1 .. Len(Contents[q]) :
                  Preload(q)[i].next = IF i < Len(Contents[q]) THEN i + 1 ELSE Null
  <2> DEFINE N == Len(Contents[q])
  <2>1. N \in Nat /\ DOMAIN Contents[q] = 1 .. N BY <1>1
  <2>2. \A i \in 1 .. N : /\ Preload(q)[i] \in Node
                          /\ Preload(q)[i].next = IF i < N THEN i + 1 ELSE Null
    <3> SUFFICES ASSUME NEW i \in 1 .. N
                 PROVE  /\ Preload(q)[i] \in Node
                        /\ Preload(q)[i].next = IF i < N THEN i + 1 ELSE Null
      OBVIOUS
    <3>1. Contents[q][i] \in Items BY <1>1 DEF Items
    <3>2. (IF i < N THEN i + 1 ELSE Null) \in Nat \cup {Null} BY <2>1
    <3>3. Preload(q)[i] = [val |-> Contents[q][i], next |-> IF i < N THEN i + 1 ELSE Null]
      BY <2>1 DEF Preload
    <3> QED BY <3>1, <3>2, <3>3 DEF Node
  <2>3. Preload(q) \in [1 .. N -> Node] BY <2>1, <2>2 DEF Preload
  <2>4. Preload(q) \in Seq(Node) /\ Len(Preload(q)) = N
    <3> HIDE DEF N
    <3> QED BY <2>1, <2>3
  <2> QED BY <2>2, <2>4
<1>3. \A q \in Queues : Len(Contents[q]) \in Nat /\ (Contents[q] = <<>> <=> Len(Contents[q]) = 0) BY <1>1
<1>4. ASSUME NEW q \in Queues PROVE Shape(q)
  <2>1. /\ head[q] = IF Contents[q] = <<>> THEN Null ELSE 1
        /\ tail[q] = IF Contents[q] = <<>> THEN Null ELSE Len(Contents[q])
        /\ size[q] = Len(Contents[q]) /\ nodes[q] = Preload(q)
    OBVIOUS
  <2>2. CASE Contents[q] = <<>> BY <1>3, <2>1, <2>2 DEF Shape
  <2>3. CASE Contents[q] # <<>> BY <1>2, <1>3, <2>1, <2>3 DEF Shape
  <2> QED BY <2>2, <2>3
<1>5. QueueTypeOK
  <2>1. nodes \in [Queues -> Seq(Node)] BY <1>2
  <2>2. head \in [Queues -> Nat \cup {Null}] /\ tail \in [Queues -> Nat \cup {Null}] /\ size \in [Queues -> Int]
    BY <1>3
  <2>3. NewLocalQueue \in LocalQueue
    <3>1. <<>> \in Seq(Items) OBVIOUS
    <3> QED BY <3>1 DEF NewLocalQueue, LocalQueue
  <2>4. queueMap \in [Threads -> [Queues -> LocalQueue]] BY <2>3
  <2>5. /\ GVC \in Nat /\ lock \in [Queues -> Threads \cup {Null}] /\ pc \in [Threads -> Labels]
        /\ task \in [Threads -> Nat \ {0}] /\ op \in [Threads -> Nat \ {0}]
        /\ readVersion \in [Threads -> Nat]
    BY DEF Labels
  <2>6. todo \in [Threads -> SUBSET Queues] /\ cur \in [Threads -> Queues \cup {Null}] /\ crashed \in BOOLEAN
    OBVIOUS
  <2> HIDE DEF Init
  <2> QED BY <2>1, <2>2, <2>4, <2>5, <2>6 DEF QueueTypeOK
<1>6. ASSUME NEW t \in Threads PROVE ThreadOK(t)
  <2>1. \A q \in Queues : queueMap[t][q].nodeToDeq = Null /\ queueMap[t][q].isLockedByMe = FALSE
    BY DEF NewLocalQueue
  <2> USE DEF SLocked, SBefore, InOp, EndLabels, AllLocked, CommitLoop
  <2>2. OpOK(t) /\ LockOK(t) BY <2>1 DEF OpOK, LockOK
  <2>3. DeqOK(t) BY <2>1 DEF DeqOK, Waiting
  <2> QED BY <2>2, <2>3 DEF ThreadOK
<1> QED BY <1>4, <1>5, <1>6 DEF QueueInv

(* Every step keeps the invariant.                                         *)
LEMMA QueueNext == QueueInv /\ [Next]_vars => QueueInv'
<1> SUFFICES ASSUME QueueInv, [Next]_vars PROVE QueueInv' OBVIOUS
<1>1. ASSUME NEW t \in Threads, Step(t) PROVE QueueInv'
  <2>1. QueueTypeOK' BY <1>1, TypeStep
  <2>2. Safe(t)
    <3>1. CASE dequeue(t) \/ isEmpty(t) BY <3>1, LockingOps
    <3>2. CASE LockQueue(t) BY <3>2, LockPhase
    <3>3. CASE dequeueNodes(t) \/ enqueueNodes(t) BY <3>3, WriteBack
    <3>4. CASE ReleaseQueue(t) BY <3>4, ReleasePhase
    <3>5. CASE SEnqueue(t) \/ SDequeue(t) \/ SIsEmpty(t) BY <3>5, SingletonLocked
    <3>6. CASE SUnlock(t) BY <3>6, SingletonUnlocks
    <3>7. CASE \/ TXbegin(t) \/ put(t) \/ CheckNewer(t) \/ CheckSame(t) \/ CheckSingleton(t)
               \/ IncrementAndAbort(t) \/ enqueue(t) \/ LockedByOther(t)
               \/ TXend(t) \/ ValidateQueue(t) \/ TakeVersion(t) \/ setVersion(t) \/ setSingleton(t)
               \/ CommittedAll(t) \/ Cleanup(t)
               \/ CallSingleton(t) \/ SReadSize(t) \/ SReadClock(t) \/ SSetVersion(t) \/ SSetSingleton(t)
      <4>1. /\ head' = head /\ tail' = tail /\ size' = size /\ nodes' = nodes
            /\ Respects(t) /\ ~crashed'
        BY <3>7, QuietSteps
      <4>2. ThreadOK(t)' BY <3>7, QuietThread
      <4>3. \A q \in Queues : Shape(q)' BY <4>1 DEF QueueInv, Shape
      <4> QED BY <4>1, <4>2, <4>3 DEF Safe
    <3> QED BY <1>1, <3>1, <3>2, <3>3, <3>4, <3>5, <3>6, <3>7 DEF Step
  <2>3. \A u \in Threads \ {t} : ThreadOK(u)' BY <2>1, <2>2, OthersKeep DEF Safe
  <2> QED BY <2>1, <2>2, <2>3 DEF Safe, QueueInv
<1>2. CASE UNCHANGED vars
  BY <1>2 DEF vars, queues, storage, ending, QueueInv, QueueTypeOK, ThreadOK, OpOK, LockOK, DeqOK,
     Waiting, Shape, Busy, Task, Op, Map
<1> QED BY <1>1, <1>2 DEF Next, Finished

(* Queue.java and TX.java: no assertion fails.  dequeueNodes finds size 0  *)
(* when it runs to the end, TXend's version is newer than its snapshot,    *)
(* and LockQueue.unlock is called by the owner only, whatever operations   *)
(* abort or leave their lock behind.                                       *)
THEOREM QueueAssertions == Spec => []NoFailedAssert
<1>1. QueueInv => NoFailedAssert BY DEF QueueInv, NoFailedAssert
<1> QED BY <1>1, QueueInit, QueueNext, PTL DEF Spec

(* Queue.java: a queue that nobody has locked holds size nodes from head   *)
(* to tail, after any mixture of commits and singletons.                   *)
THEOREM QueueWellFormed == Spec => []Linked
<1>1. QueueInv => Linked
  <2> SUFFICES ASSUME QueueInv, NEW q \in Queues
               PROVE  /\ Length(q) = size[q]
                      /\ tail[q] = IF size[q] = 0 THEN Null ELSE Walk(q)[size[q] - 1]
    BY DEF Linked
  <2>0. QueueTypeOK /\ Shape(q) /\ Null \notin Nat /\ Len(nodes[q]) \in Nat
    BY NullAssumption DEF QueueInv, QueueTypeOK
  <2>1. Length(q) = size[q] BY <2>0, StepsOf DEF Length
  <2>2. CASE head[q] = Null BY <2>0, <2>1, <2>2 DEF Shape
  <2>3. CASE head[q] # Null
    <3>1. head[q] \in 1 .. Len(nodes[q]) /\ tail[q] = Len(nodes[q]) /\ size[q] = Len(nodes[q]) - head[q] + 1
      BY <2>0, <2>3 DEF Shape
    <3>2. size[q] - 1 \in 0 .. Len(nodes[q]) /\ head[q] + (size[q] - 1) = Len(nodes[q]) /\ size[q] # 0
      <4>1. PICK h \in 1 .. Len(nodes[q]) : h = head[q] BY <3>1
      <4>2. PICK N \in Nat : N = Len(nodes[q]) BY <2>0
      <4>3. size[q] = N - h + 1 /\ h \in 1 .. N BY <3>1, <4>1, <4>2
      <4>4. size[q] - 1 \in 0 .. N /\ h + (size[q] - 1) = N /\ size[q] # 0 BY <4>2, <4>3
      <4> QED BY <4>1, <4>2, <4>4
    <3>3. Walk(q)[size[q] - 1] = Len(nodes[q]) BY <2>0, <2>3, <3>2, WalkOf
    <3> QED BY <2>1, <3>1, <3>2, <3>3
  <2> QED BY <2>2, <2>3
<1> QED BY <1>1, QueueInit, QueueNext, PTL DEF Spec

=============================================================================
