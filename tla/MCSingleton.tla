---------------------------- MODULE MCSingleton ----------------------------
(* Threads that call the list outside transactions, next to each other and *)
(* next to transactions.                                                   *)
EXTENDS LinkedListSingleton, Serializability

CONSTANTS t1, t2, n1, n2, n3, n4, v1

TaskOf(op, k) == [op |-> op, key |-> k, val |-> v1]

(* Fresh nodes are interchangeable. *)
FreshNodes == Permutations(Nodes \ Preloaded)

InitOne == (n1 :> 3)
InitTwo == (n1 :> 2) @@ (n2 :> 3)
InitFour == (n1 :> 2) @@ (n2 :> 3) @@ (n3 :> 4) @@ (n4 :> 5)

ModesSingleton == [t \in Threads |-> {"singleton"}]
ModesMixed     == (t1 :> {"tx"}) @@ (t2 :> {"singleton"})

(* Inserts, updates and lookups around one node.                           *)
TasksInsert == LET a == {TaskOf("put", 2), TaskOf("put", 3), TaskOf("put", 4)}
                   b == {TaskOf("put", 2), TaskOf("get", 3), TaskOf("get", 2)}
               IN  (t1 :> <<a, a>>) @@ (t2 :> <<b, b>>)

(* Removals that lock overlapping pairs of nodes, and updates and lookups  *)
(* between them.  Nothing is inserted, and the last node is never asked    *)
(* for: a successor that is read again is another node or the same, never  *)
(* null.                                                                   *)
TasksRemove == LET a == {TaskOf("put", 2), TaskOf("remove", 3)}
                   b == {TaskOf("remove", 3), TaskOf("remove", 4), TaskOf("get", 4)}
               IN  (t1 :> <<a, a>>) @@ (t2 :> <<b, b>>)

(* A transaction of lookups, or one that inserts, against removals.        *)
TasksDetect == LET a == {TaskOf("put", 4), TaskOf("get", 2), TaskOf("get", 3)}
                   b == {TaskOf("remove", 2), TaskOf("remove", 3)}
               IN  (t1 :> <<a, a, a>>) @@ (t2 :> <<b, b>>)
=============================================================================
