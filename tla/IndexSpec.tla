------------------------------ MODULE IndexSpec ------------------------------
(***************************************************************************)
(* What the list relies on when it searches the index (nodes/Index.h): a   *)
(* call of getPred(k) returns the head or a node that was handed to add,   *)
(* has a smaller key than k and held a value when the call ended.  Which   *)
(* of them is not promised: the list walks on from there.  Every call      *)
(* returns.                                                                *)
(***************************************************************************)
EXTENDS Integers

CONSTANTS Threads, Nodes, head,
          Key,         \* Key[n]
          SearchKeys   \* the keys getPred is called with

VARIABLES
  live,     \* the nodes whose m_val is present
  offered,  \* the nodes add was called for
  call,     \* the call a thread is in
  answer    \* what the thread's last getPred returned

vars == <<live, offered, call, answer>>

NoCall  == [op |-> "none"]
add(n)     == [op |-> "add", node |-> n]
remove(n)  == [op |-> "remove", node |-> n]
getPred(k) == [op |-> "getPred", key |-> k]

Init ==
  /\ live \subseteq Nodes
  /\ offered = live
  /\ call = [t \in Threads |-> NoCall]
  /\ answer = [t \in Threads |-> head]

(* A node is linked into the list and offered to the index.                *)
CallAdd(t, n) ==
  /\ call[t] = NoCall
  /\ n \notin offered
  /\ live' = live \cup {n}
  /\ offered' = offered \cup {n}
  /\ call' = [call EXCEPT ![t] = add(n)]
  /\ UNCHANGED answer

(* A node is deleted, which clears its value, and taken out of the index.  *)
CallRemove(t, n) ==
  /\ call[t] = NoCall
  /\ n \in live
  /\ live' = live \ {n}
  /\ call' = [call EXCEPT ![t] = remove(n)]
  /\ UNCHANGED <<offered, answer>>

CallGetPred(t, k) ==
  /\ call[t] = NoCall
  /\ call' = [call EXCEPT ![t] = getPred(k)]
  /\ UNCHANGED <<live, offered, answer>>

Predecessors(k) == {head} \cup {n \in live \cap offered : Key[n] < k}

Return(t) ==
  /\ call[t] # NoCall
  /\ call' = [call EXCEPT ![t] = NoCall]
  /\ IF call[t].op = "getPred"
     THEN \E n \in Predecessors(call[t].key) : answer' = [answer EXCEPT ![t] = n]
     ELSE UNCHANGED answer
  /\ UNCHANGED <<live, offered>>

Next == \E t \in Threads :
          \/ \E n \in Nodes : CallAdd(t, n) \/ CallRemove(t, n)
          \/ \E k \in SearchKeys : CallGetPred(t, k)
          \/ Return(t)

Spec == Init /\ [][Next]_vars /\ \A t \in Threads : WF_vars(Return(t))
=============================================================================
