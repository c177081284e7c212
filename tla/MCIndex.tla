------------------------------ MODULE MCIndex ------------------------------
(* Threads that change and search a small skip list.                       *)
EXTENDS Index, TLC

CONSTANTS t1, t2, n1, n2, n3

Keys1 == (head :> 0) @@ (n1 :> 1) @@ (n2 :> 2) @@ (n3 :> 2)

Tower(a, b, c) == (n1 :> a) @@ (n2 :> b) @@ (n3 :> c)
(* Two levels, and four levels with nothing but one node in them.          *)
StartsRace == {[top |-> 1, tower |-> Tower(1, -1, -1)],
               [top |-> 3, tower |-> Tower(3, -1, -1)]}

(* Nodes are added and deleted next to each other, n2 and n3 under one key,*)
(* while their neighbourhood is searched.                                  *)
CallsRace == (t1 :> <<{add(n2), remove(n1)}, {getPred(3), remove(n2)}>>)
          @@ (t2 :> <<{add(n3), remove(n1), remove(n2)}, {getPred(2), remove(n3), add(n3)}>>)

(* A node is added between two others, which are deleted one after the     *)
(* other; no node is deleted while it is being added.                      *)
Keys2     == (head :> 0) @@ (n1 :> 1) @@ (n2 :> 2) @@ (n3 :> 3)
StartsLost == {[top |-> 1, tower |-> Tower(0, -1, 1)]}
CallsLost  == (t1 :> <<{add(n2)}>>) @@ (t2 :> <<{remove(n1)}, {remove(n3)}>>)
=============================================================================
