--------------------------- MODULE MCTransactions ---------------------------
(* Workers that run transactions on a list of two keys.                    *)
EXTENDS Serializability

CONSTANTS t1, t2, n1, n2, n3, n4, v1, v2

TaskOf(op, k) == [op |-> op, key |-> k, val |-> v1]
PutOf(k)      == [op : {"put"}, key : {k}, val : Vals]

(* Fresh nodes are interchangeable. *)
FreshNodes == Permutations(Nodes \ Preloaded)

InitOne == (n1 :> 2)
InitTwo == (n1 :> 1) @@ (n2 :> 2)

(* Inserts and removes of neighbouring keys by two workers, the second of  *)
(* which may also run a transaction of lookups, over both keys.  One that  *)
(* removed the smaller key searches behind the node it removed.            *)
TasksRace == LET a == {TaskOf("remove", 2), TaskOf("put", 3)}
                 b == {TaskOf("put", 2), TaskOf("remove", 3)}
                 g == {TaskOf("get", 2), TaskOf("get", 3)}
             IN  (t1 :> <<a, a>>) @@ (t2 :> <<b \cup g, b \cup g, {TaskOf("remove", 3)}>>)

(* One key and two values: a reader of the key, a writer of it.            *)
TasksValues == (t1 :> <<{TaskOf("get", 2)}, {TaskOf("get", 2)}>>) @@ (t2 :> <<PutOf(2)>>)

(* An insert behind the second of two nodes, and a transaction that        *)
(* updates both nodes: its write set has the first, and leads to the       *)
(* second.                                                                 *)
TasksLost == (t1 :> <<{TaskOf("put", 3)}>>) @@ (t2 :> <<{TaskOf("put", 1)}, {TaskOf("put", 2)}>>)
=============================================================================
