------------------------ MODULE CommittedList_proofs ------------------------
(***************************************************************************)
(* No committed insertion is lost.  The argument follows the list as the   *)
(* transactions mean it, not as it lies in memory: a transaction takes     *)
(* effect as a whole when TXend takes its write version, although its      *)
(* write-back goes on, node by node, for some time after that.             *)
(*                                                                         *)
(* The committed list is the heap with every write-back that is under way  *)
(* completed; the view of a transaction is the committed list with the     *)
(* transaction's own write set on top.  Both are chains from the head to   *)
(* every live node, except that the view of a transaction that can no      *)
(* longer commit may be anything.                                          *)
(***************************************************************************)
EXTENDS LinkedListTX_proofs

-----------------------------------------------------------------------------
(* getNext validates the successor it reads from the heap and returns the  *)
(* one it reads from the write set as it is.  When put finds its key in    *)
(* such a successor it copies a link nobody validated.  NoBlindPut holds   *)
(* of a step unless it is a put that does so while the node is locked.     *)
NoBlindPut ==
  \A t \in Threads :
    PutFound(t) /\ writeSet[t][pred[t]].in /\ ~writeSet[t][next[t]].in => ~isLocked(next[t])

-----------------------------------------------------------------------------
(* The committed list *)

(* The transaction has taken its write version, or had nothing to write.   *)
Committed(t) ==
  \/ pc[t] \in {"write", "stamp", "idxAdd", "idxRemove"}
  \/ pc[t] = "release" /\ ~abort[t]

(* t is going to write n back, or has written its fields but not its word. *)
Writing(t, n) ==
  \/ pc[t] \in {"write", "stamp"} /\ n \in todo[t]
  \/ pc[t] = "stamp" /\ n = pred[t]

Written(n) == \E t \in Threads : Writing(t, n)
Writer(n)  == CHOOSE t \in Threads : Writing(t, n)

NextC == [n \in AllNodes |-> IF Written(n) THEN writeSet[Writer(n)][n].next ELSE m_next[n]]

DeadC == {n \in AllNodes : isDeleted(n) \/ \E t \in Threads : Writing(t, n) /\ writeSet[t][n].deleted}

Added == {n \in AllNodes : \E t \in Threads : Committed(t) /\ n \in indexAdd[t]}

(* The nodes that are, or have been, in the committed list. *)
Public == index \cup DeadC \cup Added
LiveC  == Public \ DeadC

(* The view of t, as long as t has not committed *)
NextS(t) == [n \in AllNodes |-> IF writeSet[t][n].in THEN writeSet[t][n].next ELSE NextC[n]]
LiveS(t) == {n \in LiveC \cup indexAdd[t] : ~writeSet[t][n].deleted}

(* A chain: from every live node to a live one, never to the same one from *)
(* two nodes, and to each but the head from some node.                     *)
Chain(L, nx) ==
  /\ head \in L
  /\ \A n \in L : nx[n] # Null => nx[n] \in L /\ nx[n] # head
  /\ \A m, n \in L : nx[m] = nx[n] /\ nx[m] # Null => m = n
  /\ \A n \in L : n # head => \E p \in L : nx[p] = n

-----------------------------------------------------------------------------
(* What a transaction knows *)

(* n has been, or is about to be, given a version newer than t's snapshot. *)
Doomed(t, n) ==
  \/ getVersion(n) > readVersion[t]
  \/ \E u \in Threads : Writing(u, n) /\ writeVersion[u] > readVersion[t]

(* No write-back of n was already under way when t began. *)
Clean(t, n) == \A u \in Threads : Writing(u, n) => writeVersion[u] > readVersion[t]

(* Validation is going to fail. *)
Lost(t) == \E n \in WriteNodes(t) : Doomed(t, n)

(* The node is in t's view, or t must not write it.                        *)
Fine(t, n) == n \in LiveS(t) \/ Doomed(t, n) \/ Lost(t)

(* In t's view s comes next after n, or t must not write n.                *)
Follows(t, n, s) == s = NextS(t)[n] \/ Doomed(t, n) \/ Lost(t)

Reading == {"read"} \cup NextRead

SearchKnows(t) ==
  /\ pc[t] \in {"sngPred", "delPred"} => Clean(t, pred[t])
  /\ pc[t] \in Reading => Fine(t, pred[t])
  /\ pc[t] \in NextRead => Follows(t, pred[t], next[t])
  /\ pc[t] \in NextRead \ {"chkCur"} /\ next[t] # Null => Fine(t, next[t])
  /\ pc[t] \in {"sngNext", "cmp"} /\ next[t] # Null /\ ~writeSet[t][pred[t]].in
       => Clean(t, next[t])
  /\ prev[t] # Null => Fine(t, prev[t]) /\ Follows(t, prev[t], pred[t])

(* The invariant *)

(* Validation has moved on to the node pred of the read set.               *)
AtNode == {"verVal", "sngVal"}

(* The locals of an operation are reset between operations, the abort flag *)
(* is set in the release phase only, and a transaction that is still       *)
(* read-only has nothing to write.                                         *)
Resets(t) ==
  /\ pc[t] \notin PredFound \cup AtNode \cup {"bump", "stamp"} => pred[t] = head
  /\ pc[t] \notin NextRead \cup {"bump"} => next[t] = Null
  /\ abort[t] => pc[t] = "release"
  /\ readOnly[t] \/ pc[t] = "idle"
       => WriteNodes(t) = {} /\ indexAdd[t] = {} /\ indexRemove[t] = {}
  /\ pc[t] \in PredFound \cup {"search"} /\ task[t].op # "get" => ~readOnly[t]
  /\ prev[t] # Null => ~readOnly[t] /\ prev[t] \in readSet[t]
  /\ \A n \in AllNodes : writeSet[t][n].deleted => writeSet[t][n].in
  /\ WriteNodes(t) \subseteq readSet[t]

(* A thread holds no node but public ones and those it made itself.        *)
Holds(t, n) == n \in Public \cup indexAdd[t] \cup {Null}

Holdings(t) ==
  /\ pc[t] \notin AtNode => Holds(t, pred[t])
  /\ Holds(t, next[t]) /\ Holds(t, prev[t])
  /\ \A n \in WriteNodes(t) : Holds(t, n) /\ Holds(t, writeSet[t][n].next)
  /\ ~Committed(t) => \A n \in indexAdd[t] : Holds(t, m_next[n])

(* The index learns of every new node and forgets only deleted ones.       *)
IndexKnows(t) ==
  /\ pc[t] = "idxAdd" => /\ todo[t] \subseteq indexAdd[t]
                         /\ indexAdd[t] \subseteq todo[t] \cup index \cup DeadC
  /\ pc[t] = "idxRemove" => /\ todo[t] \subseteq indexRemove[t]
                            /\ indexAdd[t] \subseteq index \cup DeadC
  /\ Committed(t) => indexRemove[t] \subseteq DeadC
  /\ ~Committed(t) => Lost(t) \/ \A n \in indexRemove[t] : writeSet[t][n].deleted

(* What TXend has validated, and what it has written back.                 *)
Validated(t) ==
  /\ pc[t] \in {"validate"} \cup AtNode => \A n \in WriteNodes(t) \ todo[t] : ~Doomed(t, n)
  /\ pc[t] = "stamp" => m_next[pred[t]] = writeSet[t][pred[t]].next

(* The view of a transaction that may still commit is a chain.             *)
View(t) == Committed(t) \/ Lost(t) \/ Chain(LiveS(t), NextS(t))

Knows(t) == Resets(t) /\ Holdings(t) /\ IndexKnows(t) /\ Validated(t) /\ SearchKnows(t) /\ View(t)

(* A new node is known to the transaction that made it until that commits. *)
Fresh ==
  /\ \A n \in AllNodes \ allocated : ~isDeleted(n)
  /\ \A t, u \in Threads : t # u => indexAdd[t] \cap indexAdd[u] = {}
  /\ \A t \in Threads : ~Committed(t) => indexAdd[t] \cap (index \cup DeadC) = {}

(* No link of a public node leads to a private one.                        *)
PublicLinks == \A n \in Public : m_next[n] \in Public \cup {Null}

ListInv ==
  /\ Fresh
  /\ PublicLinks
  /\ \A t \in Threads : Knows(t)
  /\ Chain(LiveC, NextC)

-----------------------------------------------------------------------------
(* Lemmas about chains *)

(* A chain depends on the links of its own nodes only.                     *)
LEMMA ChainSame ==
  ASSUME NEW L, NEW f, NEW g, Chain(L, f), \A n \in L : g[n] = f[n]
  PROVE  Chain(L, g)
BY DEF Chain

(* Two transactions that start from the chain L with the links f: each     *)
(* adds A, writes W, deletes D and has the links f of its own; fc is what  *)
(* the two of them write together.                                         *)
Disjoint(L, f, At, Wt, Dt, ft, Au, Wu, Du, fu, fc) ==
  /\ Dt \subseteq Wt /\ Du \subseteq Wu
  /\ Null \notin L \cup At \cup Au
  /\ At \cap Au = {} /\ At \cap L = {} /\ Au \cap L = {}
  /\ Wt \cap Wu = {} /\ Wt \cap Au = {} /\ Wu \cap At = {}
  /\ \A n \in L \cup At \cup Au :
       /\ n \notin Wt => ft[n] = f[n]
       /\ n \notin Wu => fu[n] = f[n]
       /\ fc[n] = IF n \in Wu THEN fu[n] ELSE ft[n]
  /\ Chain(L, f)
  /\ Chain((L \cup At) \ Dt, ft)
  /\ Chain((L \cup Au) \ Du, fu)

(* Two transactions that write disjoint sets of nodes and that would each  *)
(* leave a chain behind leave one together.                                *)
LEMMA ChainsCompose ==
  ASSUME NEW L, NEW f, NEW At, NEW Wt, NEW Dt, NEW ft, NEW Au, NEW Wu, NEW Du, NEW fu, NEW fc,
         Disjoint(L, f, At, Wt, Dt, ft, Au, Wu, Du, fu, fc)
  PROVE  Chain((((L \cup At) \ Dt) \cup Au) \ Du, fc)
<1> SUFFICES ASSUME Dt \in SUBSET Wt, Du \in SUBSET Wu,
                 Null \notin L \cup At \cup Au,
                 At \cap Au = {}, At \cap L = {}, Au \cap L = {},
                 Wt \cap Wu = {}, Wt \cap Au = {}, Wu \cap At = {},
                 \A n \in L \cup At \cup Au :
                   /\ n \notin Wt => ft[n] = f[n]
                   /\ n \notin Wu => fu[n] = f[n]
                   /\ fc[n] = IF n \in Wu THEN fu[n] ELSE ft[n],
                 Chain(L, f),
                 Chain((L \cup At) \ Dt, ft),
                 Chain((L \cup Au) \ Du, fu)
           PROVE  Chain((((L \cup At) \ Dt) \cup Au) \ Du, fc)
  BY DEF Disjoint
<1> DEFINE Lt == (L \cup At) \ Dt
           Lu == (L \cup Au) \ Du
           Lc == (Lt \cup Au) \ Du
<1> HIDE DEF Lt, Lu, Lc
<1>0. /\ Chain(Lt, ft) /\ Chain(Lu, fu)
      /\ \A n \in L : n \notin Wt => n \in Lt /\ ft[n] = f[n]
      /\ \A n \in L : n \notin Wu => n \in Lu /\ fu[n] = f[n]
      /\ Lc \subseteq L \cup At \cup Au
      /\ \A n \in Lc : /\ fc[n] = IF n \in Wu THEN fu[n] ELSE ft[n]
                       /\ n \in Wu => n \in Lu
                       /\ n \in Au => n \in Lu
                       /\ n \notin Au => n \in Lt
                       /\ n \notin Wu => (n \in Au => fu[n] = f[n] /\ ft[n] = f[n])
      /\ \A n : n \in Lu /\ n \notin Dt => n \in Lc
      /\ \A n : n \in Lt /\ n \notin Du => n \in Lc
  BY DEF Lt, Lu, Lc
(* A node of the result comes from one of the two views, and keeps the     *)
(* link it has there.                                                      *)
<1>1. \A n \in Lc : \/ n \in Lu /\ fc[n] = fu[n] /\ n \notin Wt
                    \/ n \in Lt /\ fc[n] = ft[n] /\ n \notin Wu
  BY <1>0
(* The predecessor of a node that is taken out is one that is written.     *)
<1>2. \A m \in L : m \in Dt /\ m # head => \E p \in L : p \in Wt /\ f[p] = m
  <2>1. SUFFICES ASSUME NEW m \in L, m \in Dt, m # head
                 PROVE  \E p \in L : p \in Wt /\ f[p] = m
    OBVIOUS
  <2>2. m \notin Lt /\ m # Null BY <2>1 DEF Lt
  <2>3. PICK p \in L : f[p] = m BY <2>1 DEF Chain
  <2>4. p \in Lt /\ ft[p] = m => m \in Lt BY <1>0, <2>2 DEF Chain
  <2> QED BY <1>0, <2>2, <2>3, <2>4
<1>3. \A m \in L : m \in Du /\ m # head => \E p \in L : p \in Wu /\ f[p] = m
  <2>1. SUFFICES ASSUME NEW m \in L, m \in Du, m # head
                 PROVE  \E p \in L : p \in Wu /\ f[p] = m
    OBVIOUS
  <2>2. m \notin Lu /\ m # Null BY <2>1 DEF Lu
  <2>3. PICK p \in L : f[p] = m BY <2>1 DEF Chain
  <2>4. p \in Lu /\ fu[p] = m => m \in Lu BY <1>0, <2>2 DEF Chain
  <2> QED BY <1>0, <2>2, <2>3, <2>4
<1>4. head \in Lc
  <2>1. head \in Lt /\ head \in Lu /\ head \in L BY <1>0 DEF Chain
  <2> QED BY <2>1 DEF Lt, Lu, Lc
<1>5. ASSUME NEW n \in Lc, fc[n] # Null
      PROVE  fc[n] \in Lc /\ fc[n] # head
  <2> DEFINE m == fc[n]
  <2>1. CASE n \in Lu /\ m = fu[n] /\ n \notin Wt
    <3>1. m \in Lu /\ m # head BY <1>5, <2>1, <1>0 DEF Chain
    <3>2. m \notin Dt
      <4>1. SUFFICES ASSUME m \in Dt PROVE FALSE OBVIOUS
      <4>2. m \in L BY <3>1, <4>1 DEF Lu
      <4>3. PICK p \in L : p \in Wt /\ f[p] = m BY <1>2, <3>1, <4>1, <4>2
      <4>4. p \in Lu /\ fu[p] = m BY <4>3, <1>0
      <4>5. p = n BY <4>4, <2>1, <1>5, <1>0 DEF Chain
      <4> QED BY <4>5, <4>3, <2>1
    <3> QED BY <3>1, <3>2, <1>0
  <2>2. CASE n \in Lt /\ m = ft[n] /\ n \notin Wu
    <3>1. m \in Lt /\ m # head BY <1>5, <2>2, <1>0 DEF Chain
    <3>2. m \notin Du
      <4>1. SUFFICES ASSUME m \in Du PROVE FALSE OBVIOUS
      <4>2. m \in L BY <3>1, <4>1 DEF Lt
      <4>3. PICK p \in L : p \in Wu /\ f[p] = m BY <1>3, <3>1, <4>1, <4>2
      <4>4. p \in Lt /\ ft[p] = m BY <4>3, <1>0
      <4>5. p = n BY <4>4, <2>2, <1>5, <1>0 DEF Chain
      <4> QED BY <4>5, <4>3, <2>2
    <3> QED BY <3>1, <3>2, <1>0
  <2> QED BY <1>1, <2>1, <2>2
<1>6. ASSUME NEW n1 \in Lc, NEW n2 \in Lc, fc[n1] = fc[n2], fc[n1] # Null
      PROVE  n1 = n2
  <2>1. SUFFICES ASSUME NEW a \in Lu, NEW b \in Lt, fu[a] = ft[b], fu[a] # Null,
                        a \in Lc, b \in Lc, a \notin Wt, b \notin Wu,
                        fc[a] = fu[a], fc[b] = ft[b]
                 PROVE  a = b
    <3>1. CASE n1 \in Lu /\ fc[n1] = fu[n1] /\ n2 \in Lu /\ fc[n2] = fu[n2]
      BY <3>1, <1>6, <1>0 DEF Chain
    <3>2. CASE n1 \in Lt /\ fc[n1] = ft[n1] /\ n2 \in Lt /\ fc[n2] = ft[n2]
      BY <3>2, <1>6, <1>0 DEF Chain
    <3> QED BY <1>1, <1>6, <2>1, <3>1, <3>2
  <2> DEFINE m == fu[a]
  <2>2. m \in Lu /\ m \in Lt /\ m # head BY <2>1, <1>0 DEF Chain
  <2>3. m \in L BY <2>2 DEF Lu, Lt
  <2>4. PICK p \in L : f[p] = m BY <2>2, <2>3 DEF Chain
  <2>5. p \notin Wu => p = a BY <2>4, <2>1, <1>0 DEF Chain
  <2>6. p \notin Wt => p = b BY <2>4, <2>1, <1>0 DEF Chain
  <2> QED BY <2>1, <2>5, <2>6
<1>7. ASSUME NEW n \in Lc, n # head
      PROVE  \E p \in Lc : fc[p] = n
  <2>0. n # Null BY <1>0
  <2>1. CASE n \in Au
    <3>1. PICK p \in Lu : fu[p] = n BY <1>0, <1>7, <2>1 DEF Chain
    <3>2. p \notin Wt
      <4>1. SUFFICES ASSUME p \in Wt PROVE FALSE OBVIOUS
      <4>2. p \in L /\ f[p] = n BY <3>1, <4>1 DEF Lu
      <4> QED BY <4>2, <2>0, <2>1 DEF Chain
    <3>3. p \in Lc /\ fc[p] = n
      <4>1. p \in Lc BY <3>2, <1>0
      <4>2. CASE p \in Wu BY <4>1, <4>2, <3>1, <1>0
      <4>3. CASE p \in Au BY <4>1, <4>3, <3>1, <1>0
      <4>4. CASE p \in L /\ p \notin Wu BY <4>1, <4>4, <3>1, <3>2, <1>0
      <4> QED BY <4>2, <4>3, <4>4, <3>1 DEF Lu
    <3> QED BY <3>3
  <2>2. CASE n \in At
    <3>1. n \in Lt BY <2>2, <1>0
    <3>2. PICK p \in Lt : ft[p] = n BY <1>0, <1>7, <3>1 DEF Chain
    <3>3. p \notin Wu
      <4>1. SUFFICES ASSUME p \in Wu PROVE FALSE OBVIOUS
      <4>2. p \in L /\ f[p] = n BY <3>2, <4>1 DEF Lt
      <4> QED BY <4>2, <2>0, <2>2 DEF Chain
    <3>4. p \in Lc /\ fc[p] = n BY <3>2, <3>3, <1>0
    <3> QED BY <3>4
  <2>3. CASE n \in L
    <3>1. n \in Lt /\ n \in Lu BY <2>3, <1>0 DEF Lc, Lt, Lu
    <3>2. PICK p \in L : f[p] = n BY <1>7, <2>3 DEF Chain
    <3>3. CASE p \notin Wt
      <4>1. PICK q \in Lu : fu[q] = n BY <1>0, <1>7, <3>1 DEF Chain
      <4>2. q \notin Wt
        <5>1. SUFFICES ASSUME q \in Wt PROVE FALSE OBVIOUS
        <5>2. q \in L /\ f[q] = n BY <4>1, <5>1 DEF Lu
        <5>3. q = p BY <5>2, <3>2, <2>0 DEF Chain
        <5> QED BY <5>1, <5>3, <3>3
      <4>3. q \in Lc BY <4>1, <4>2, <1>0
      <4>4. fc[q] = fu[q]
        <5>1. CASE q \in Wu BY <5>1, <4>3, <1>0
        <5>2. CASE q \in Au BY <5>2, <4>3, <1>0
        <5>3. CASE q \in L /\ q \notin Wu BY <5>3, <4>3, <4>2, <1>0
        <5> QED BY <5>1, <5>2, <5>3, <4>1 DEF Lu
      <4> QED BY <4>1, <4>3, <4>4
    <3>4. CASE p \notin Wu
      <4>1. PICK q \in Lt : ft[q] = n BY <1>0, <1>7, <3>1 DEF Chain
      <4>2. q \notin Wu
        <5>1. SUFFICES ASSUME q \in Wu PROVE FALSE OBVIOUS
        <5>2. q \in L /\ f[q] = n BY <4>1, <5>1 DEF Lt
        <5>3. q = p BY <5>2, <3>2, <2>0 DEF Chain
        <5> QED BY <5>1, <5>3, <3>4
      <4> QED BY <4>1, <4>2, <1>0
    <3> QED BY <3>3, <3>4
  <2> QED BY <1>0, <2>1, <2>2, <2>3
<1>8. Chain(Lc, fc) BY <1>4, <1>5, <1>6, <1>7 DEF Chain
<1> QED BY <1>8 DEF Lc, Lt

(* put: a new node between p and the node after it.                        *)
LEMMA ChainInsert ==
  ASSUME NEW L, NEW f, NEW g, Chain(L, f), Null \notin L, NEW p \in L,
         NEW n, n \notin L, n # Null,
         g[p] = n, g[n] = f[p], \A m \in L \ {p} : g[m] = f[m]
  PROVE  Chain(L \cup {n}, g)
<1> DEFINE M == L \cup {n}
<1>1. head \in M /\ n # head BY DEF Chain
<1>2. \A m \in M : g[m] # Null => g[m] \in M /\ g[m] # head BY <1>1 DEF Chain
<1>3. ASSUME NEW a \in M, NEW b \in M, g[a] = g[b], g[a] # Null PROVE a = b
  <2>1. CASE a \in L /\ b \in L BY <1>3, <2>1 DEF Chain
  <2>2. CASE a = n /\ b \in L BY <1>3, <2>2 DEF Chain
  <2>3. CASE b = n /\ a \in L BY <1>3, <2>3 DEF Chain
  <2> QED BY <2>1, <2>2, <2>3
<1>4. ASSUME NEW m \in M, m # head PROVE \E q \in M : g[q] = m
  <2>1. CASE m = n BY <2>1
  <2>2. CASE m \in L
    <3>1. PICK q \in L : f[q] = m BY <2>2, <1>4 DEF Chain
    <3>2. CASE q = p BY <3>1, <3>2
    <3>3. CASE q # p BY <3>1, <3>3
    <3> QED BY <3>2, <3>3
  <2> QED BY <2>1, <2>2
<1> QED BY <1>1, <1>2, <1>3, <1>4 DEF Chain

(* remove: the node after p is taken out.                                  *)
LEMMA ChainRemove ==
  ASSUME NEW L, NEW f, NEW g, Chain(L, f), Null \notin L, NEW p \in L, NEW v \in L,
         f[p] = v, p # v, g[p] = f[v], \A m \in L \ {p, v} : g[m] = f[m]
  PROVE  Chain(L \ {v}, g)
<1> DEFINE M == L \ {v}
<1>0. v # Null /\ v # head /\ f[v] # v BY DEF Chain
<1>1. head \in M BY <1>0 DEF Chain
<1>2. \A m \in M : g[m] # Null => g[m] \in M /\ g[m] # head BY <1>0 DEF Chain
<1>3. \A a, b \in M : g[a] = g[b] /\ g[a] # Null => a = b BY <1>0 DEF Chain
<1>4. ASSUME NEW m \in M, m # head PROVE \E q \in M : g[q] = m
  <2>1. PICK q \in L : f[q] = m BY <1>4 DEF Chain
  <2>2. CASE q = v BY <2>1, <2>2
  <2>3. CASE q # v
    <3>1. q # p BY <2>1, <1>4
    <3> QED BY <3>1, <2>1, <2>3
  <2> QED BY <2>2, <2>3
<1> QED BY <1>1, <1>2, <1>3, <1>4 DEF Chain

-----------------------------------------------------------------------------
(* Lemmas about the committed list *)

Base == TypeInv /\ LockInv /\ ClockInv /\ OrderInv

(* Only the owner of its lock writes a node back.                          *)
LEMMA WritingLocked ==
  ASSUME Base, NEW t \in Threads, NEW n, Writing(t, n)
  PROVE  /\ Committed(t)
         /\ n \in WriteNodes(t) /\ n \in lockedLNodes[t]
         /\ n \in AllNodes /\ n \in allocated
         /\ isLocked(n)
<1>1. n \in WriteNodes(t) /\ n \in lockedLNodes[t]
  BY DEF Writing, Base, LockInv, WriteSetLocked
<1>2. n \in AllNodes /\ n \in allocated
  BY <1>1 DEF WriteNodes, Base, TypeInv, RefsAllocated, StoreRefs
<1>3. isLocked(n) BY <1>1, <1>2 DEF Base, LockInv, LockOwnership
<1> QED BY <1>1, <1>2, <1>3 DEF Writing, Committed

(* Two threads never write the same node back.                             *)
LEMMA WriterOf ==
  ASSUME Base, NEW t \in Threads, NEW n, Writing(t, n)
  PROVE  Writer(n) = t /\ \A u \in Threads : Writing(u, n) => u = t
<1>1. \A u \in Threads : Writing(u, n) => u = t
  BY WritingLocked DEF Base, LockInv, LockOwnership
<1>2. Writer(n) \in Threads /\ Writing(Writer(n), n) BY DEF Writer
<1> QED BY <1>1, <1>2

(* The committed list, node by node.                                       *)
LEMMA NextCOf ==
  ASSUME Base, NEW n \in AllNodes
  PROVE  /\ \A t \in Threads : Writing(t, n) => NextC[n] = writeSet[t][n].next
         /\ ~Written(n) => NextC[n] = m_next[n]
         /\ ~isLocked(n) => ~Written(n)
<1>1. \A t \in Threads : Writing(t, n) => NextC[n] = writeSet[t][n].next
  BY WriterOf DEF NextC, Written
<1>2. ~Written(n) => NextC[n] = m_next[n] BY DEF NextC
<1>3. ~isLocked(n) => ~Written(n) BY WritingLocked DEF Written
<1> QED BY <1>1, <1>2, <1>3

(* Live and dead nodes have all been handed out.                           *)
LEMMA PublicAllocated ==
  ASSUME Base, Fresh
  PROVE  /\ Public \subseteq allocated /\ DeadC \subseteq allocated
         /\ LiveC \subseteq allocated
         /\ \A t \in Threads : indexAdd[t] \subseteq allocated /\ LiveS(t) \subseteq allocated
         /\ allocated \subseteq AllNodes /\ Null \notin allocated
<1>1. DeadC \subseteq allocated BY WritingLocked DEF DeadC, Fresh
<1>2. \A t \in Threads : indexAdd[t] \subseteq allocated
  BY DEF Base, TypeInv, RefsAllocated, StoreRefs
<1>3. Public \subseteq allocated
  BY <1>1, <1>2 DEF Public, Added, Base, TypeInv, MemoryTypeOK, LNodeTypeOK
<1>4. allocated \subseteq AllNodes /\ Null \notin allocated
  BY NodesAssumption DEF Base, TypeInv, MemoryTypeOK, LNodeTypeOK
<1> QED BY <1>1, <1>2, <1>3, <1>4 DEF LiveC, LiveS

-----------------------------------------------------------------------------
(* Steps that leave the committed list as it is *)

OthersSame(t) ==
  \A u \in Threads \ {t} :
    /\ pc'[u] = pc[u] /\ task'[u] = task[u]
    /\ pred'[u] = pred[u] /\ next'[u] = next[u] /\ prev'[u] = prev[u]
    /\ readSet'[u] = readSet[u] /\ writeSet'[u] = writeSet[u]
    /\ indexAdd'[u] = indexAdd[u] /\ indexRemove'[u] = indexRemove[u]
    /\ readVersion'[u] = readVersion[u] /\ writeVersion'[u] = writeVersion[u]
    /\ readOnly'[u] = readOnly[u] /\ abort'[u] = abort[u]
    /\ todo'[u] = todo[u] /\ lockedLNodes'[u] = lockedLNodes[u]

(* Links, deletions and the reasons to abort stay what they were.          *)
SameLinks ==
  /\ \A n \in allocated : NextC'[n] = NextC[n]
  /\ DeadC' = DeadC
  /\ \A u \in Threads : \A n \in AllNodes :
       readVersion'[u] = readVersion[u] =>
         /\ Doomed(u, n)' <=> Doomed(u, n)
         /\ Clean(u, n) => Clean(u, n)'

SameList == SameLinks /\ Public' = Public

(* A step of an operation changes the locals of its own thread only.       *)
LEMMA OpStepOthers ==
  ASSUME TypeInv, NEW t \in Threads, OpStep(t)
  PROVE  OthersSame(t)
<1> USE DEF TypeInv, MemoryTypeOK, LocalsTypeOK, OpTypeOK, StoreTypeOK, EndTypeOK, OthersSame,
            endVars, opVars, storeVars, versVars, Goto
<1>1. CASE TXbegin(t) BY <1>1 DEF TXbegin
<1>2. CASE Call(t) BY <1>2 DEF Call
<1>3. CASE SearchPred(t) BY <1>3 DEF SearchPred
<1>a. CASE AbortOp(t) BY <1>a DEF AbortOp, ClearStorage, ForgetOp
<1>4. CASE CheckVersion(t) BY <1>4, <1>a DEF CheckVersion
<1>5. CASE CheckSingleton(t) BY <1>5 DEF CheckSingleton
<1>5a. CASE IncrementAndAbort(t) BY <1>5a, <1>a DEF IncrementAndAbort
<1>6. CASE SkipDeleted(t) BY <1>6 DEF SkipDeleted
<1>7. CASE ReadNext(t) BY <1>7, <1>a DEF ReadNext
<1>8. CASE Advance(t) BY <1>8 DEF Advance
<1>9. CASE PutFound(t) BY <1>9 DEF PutFound, Return, ForgetOp
<1>10. CASE PutNew(t) BY <1>10 DEF PutNew, Return, ForgetOp
<1>11. CASE Get(t) BY <1>11 DEF Get, Return, ForgetOp
<1>12. CASE RemoveAbsent(t) BY <1>12 DEF RemoveAbsent, Return, ForgetOp
<1>13. CASE RemoveFound(t) BY <1>13 DEF RemoveFound
<1>14. CASE RemoveFinish(t) BY <1>14 DEF RemoveFinish, Return, ForgetOp
<1> QED
  BY <1>1, <1>2, <1>3, <1>4, <1>5, <1>5a, <1>6, <1>7, <1>8, <1>9, <1>10, <1>11, <1>12, <1>13, <1>14
  DEF OpStep

(* So does a step of TXend.                                                *)
LEMMA EndStepOthers ==
  ASSUME TypeInv, NEW t \in Threads, EndStep(t)
  PROVE  OthersSame(t)
<1> USE DEF TypeInv, MemoryTypeOK, LocalsTypeOK, OpTypeOK, StoreTypeOK, EndTypeOK, OthersSame,
            endVars, opVars, storeVars, versVars, Goto
<1>1. CASE LockNode(t) BY <1>1 DEF LockNode
<1>2. CASE LockedAll(t) \/ ValidatedReadOnly(t) BY <1>2 DEF LockedAll, ValidatedReadOnly
<1>3. CASE ValidateStep(t) BY <1>3, ValidateFrame
<1>4. CASE setSingletonLoad(t) BY <1>4 DEF setSingletonLoad
<1>5. CASE setSingletonStore(t) BY <1>5 DEF setSingletonStore
<1>6. CASE TakeVersion(t) BY <1>6 DEF TakeVersion
<1>7. CASE WriteNode(t) BY <1>7 DEF WriteNode
<1>8. CASE StampNode(t) BY <1>8 DEF StampNode
<1>9. CASE WroteAll(t) \/ UpdateIndex(t) BY <1>9 DEF WroteAll, UpdateIndex
<1>10. CASE ReleaseNode(t) BY <1>10 DEF ReleaseNode
<1>11. CASE AbortEnd(t) BY <1>11 DEF AbortEnd, ClearStorage
<1>12. CASE AddToIndex(t) BY <1>12 DEF AddToIndex
<1>13. CASE RemoveFromIndex(t) BY <1>13 DEF RemoveFromIndex
<1>14. CASE Commit(t) BY <1>14 DEF Commit, ClearStorage
<1> QED
  BY <1>1, <1>2, <1>3, <1>4, <1>5, <1>6, <1>7, <1>8, <1>9, <1>10, <1>11, <1>12, <1>13, <1>14
  DEF EndStep, ValidateStep

(* While the same nodes are being written back and nothing else is         *)
(* written, links and deletions are the same.                              *)
LEMMA LinksKept ==
  ASSUME Base, Base', NEW t \in Threads, OthersSame(t),
         \A n \in AllNodes : /\ m_version_mask'[n].ver = m_version_mask[n].ver
                             /\ m_version_mask'[n].del = m_version_mask[n].del,
         \A n \in AllNodes : Writing(t, n)' <=> Writing(t, n),
         \A n \in AllNodes : Writing(t, n) => writeSet'[t][n] = writeSet[t][n],
         (\E n \in AllNodes : Writing(t, n)) => writeVersion'[t] = writeVersion[t],
         \A n \in allocated : m_next'[n] = m_next[n] \/ Writing(t, n)
  PROVE  SameLinks
<1>1. \A u \in Threads : \A n \in AllNodes :
        /\ Writing(u, n)' <=> Writing(u, n)
        /\ Writing(u, n) => writeSet'[u][n] = writeSet[u][n] /\ writeVersion'[u] = writeVersion[u]
  <2>1. ASSUME NEW u \in Threads \ {t}, NEW n \in AllNodes
        PROVE /\ Writing(u, n)' <=> Writing(u, n)
              /\ writeSet'[u][n] = writeSet[u][n] /\ writeVersion'[u] = writeVersion[u]
    BY DEF OthersSame, Writing
  <2> QED BY <2>1
<1>2. \A n \in AllNodes : Written(n)' <=> Written(n) BY <1>1 DEF Written
<1>3. DeadC' = DeadC BY <1>1 DEF DeadC, isDeleted
<1>4. ASSUME NEW n \in allocated PROVE NextC'[n] = NextC[n]
  <2>1. n \in AllNodes BY DEF Base, TypeInv, MemoryTypeOK, LNodeTypeOK
  <2>2. CASE Written(n)
    <3>1. PICK u \in Threads : Writing(u, n) BY <2>2 DEF Written
    <3>2. Writing(u, n)' /\ writeSet'[u][n] = writeSet[u][n] BY <3>1, <1>1, <2>1
    <3>3. NextC[n] = writeSet[u][n].next BY <3>1, <2>1, NextCOf
    <3>4. NextC'[n] = writeSet'[u][n].next
      <4>1. \A v \in Threads : Writing(v, n)' => v = u BY <3>1, <1>1, <2>1, WriterOf
      <4>2. (\E v \in Threads : Writing(v, n)') => Writer(n)' \in Threads /\ Writing(Writer(n), n)'
        BY DEF Writer
      <4>3. Writer(n)' = u BY <3>2, <4>1, <4>2
      <4> QED BY <3>2, <4>3, <2>1, <2>2, <1>2 DEF NextC
    <3> QED BY <3>2, <3>3, <3>4
  <2>3. CASE ~Written(n)
    <3>1. m_next'[n] = m_next[n] BY <2>3 DEF Written
    <3> QED BY <2>1, <2>3, <3>1, <1>2 DEF NextC
  <2> QED BY <2>2, <2>3
<1>5. ASSUME NEW u \in Threads, NEW n \in AllNodes, readVersion'[u] = readVersion[u]
      PROVE  /\ Doomed(u, n)' <=> Doomed(u, n)
             /\ Clean(u, n) => Clean(u, n)'
  BY <1>1, <1>5 DEF Doomed, Clean, getVersion
<1> QED BY <1>3, <1>4, <1>5 DEF SameLinks

(* A step that changes neither the committed list nor what u is going to   *)
(* write leaves u's view as it is.                                         *)
LEMMA ViewKept ==
  ASSUME Base, Fresh, SameList, NEW u \in Threads,
         writeSet'[u] = writeSet[u], indexAdd'[u] = indexAdd[u], readVersion'[u] = readVersion[u]
  PROVE  /\ LiveS(u)' = LiveS(u)
         /\ \A n \in allocated : NextS(u)'[n] = NextS(u)[n]
         /\ Lost(u)' <=> Lost(u)
         /\ \A n \in AllNodes : Doomed(u, n)' <=> Doomed(u, n)
         /\ \A n \in AllNodes : Clean(u, n) => Clean(u, n)'
         /\ \A n \in AllNodes : Fine(u, n)' <=> Fine(u, n)
         /\ \A n \in allocated : \A s \in Ref : Follows(u, n, s)' <=> Follows(u, n, s)
         /\ \A n \in Ref : Holds(u, n)' <=> Holds(u, n)
         /\ Chain(LiveS(u), NextS(u)) => Chain(LiveS(u), NextS(u))'
<1>1. LiveC' = LiveC BY DEF SameList, SameLinks, LiveC
<1>2. LiveS(u)' = LiveS(u) BY <1>1 DEF LiveS
<1>3. allocated \subseteq AllNodes BY PublicAllocated
<1>4. \A n \in allocated : NextS(u)'[n] = NextS(u)[n]
  BY <1>3 DEF NextS, SameList, SameLinks
<1>5. /\ \A n \in AllNodes : Doomed(u, n)' <=> Doomed(u, n)
      /\ \A n \in AllNodes : Clean(u, n) => Clean(u, n)'
  BY DEF SameList, SameLinks
<1>6. Lost(u)' <=> Lost(u)
  <2>1. WriteNodes(u)' = WriteNodes(u) /\ WriteNodes(u) \subseteq AllNodes BY DEF WriteNodes
  <2> QED BY <2>1, <1>5 DEF Lost
<1>7. \A n \in AllNodes : Fine(u, n)' <=> Fine(u, n) BY <1>2, <1>5, <1>6 DEF Fine
<1>8. \A n \in allocated : \A s \in Ref : Follows(u, n, s)' <=> Follows(u, n, s)
  BY <1>3, <1>4, <1>5, <1>6 DEF Follows
<1>9. \A n \in Ref : Holds(u, n)' <=> Holds(u, n) BY DEF Holds, SameList
<1>10. ASSUME Chain(LiveS(u), NextS(u)) PROVE Chain(LiveS(u), NextS(u))'
  <2>1. LiveS(u) \subseteq allocated BY PublicAllocated
  <2>2. Chain(LiveS(u)', NextS(u)') BY <1>2, <1>4, <1>10, <2>1, ChainSame
  <2> QED BY <2>2 DEF Chain
<1> QED BY <1>2, <1>4, <1>5, <1>6, <1>7, <1>8, <1>9, <1>10

(* The committed list stays a chain when it stays what it is.              *)
LEMMA ListKept ==
  ASSUME Base, Fresh, SameList, Chain(LiveC, NextC)
  PROVE  Chain(LiveC, NextC)'
<1>1. LiveC' = LiveC BY DEF SameList, SameLinks, LiveC
<1>2. LiveC \subseteq allocated BY PublicAllocated
<1>3. Chain(LiveC', NextC') BY <1>1, <1>2, ChainSame DEF SameList, SameLinks
<1> QED BY <1>3 DEF Chain

(* What the references of a thread are.                                    *)
LEMMA Refs ==
  ASSUME Base, NEW t \in Threads
  PROVE  /\ pred[t] \in allocated /\ pred[t] \in AllNodes /\ pred[t] \in Ref
         /\ next[t] \in Ref /\ prev[t] \in Ref
         /\ next[t] # Null => next[t] \in allocated /\ next[t] \in AllNodes
         /\ prev[t] # Null => prev[t] \in allocated /\ prev[t] \in AllNodes
         /\ WriteNodes(t) \subseteq allocated /\ WriteNodes(t) \subseteq Ref
         /\ \A n \in AllNodes : writeSet[t][n].next \in Ref /\ m_next[n] \in Ref
         /\ allocated \subseteq Ref /\ allocated \subseteq AllNodes
         /\ Null \notin AllNodes
BY RefFacts DEF Base, TypeInv, RefsAllocated, HeapRefs, OpRefs, StoreRefs, Ref, WriteNodes

(* What a transaction makes is not public before it commits, and what it   *)
(* writes is public after.                                                 *)
LEMMA PrivateUnwritten ==
  ASSUME Base, Fresh, NEW t \in Threads, Knows(t), NEW u \in Threads, ~Committed(u),
         NEW n \in indexAdd[u]
  PROVE  n \notin Public /\ ~Writing(t, n)
<1>1. n \notin Public BY DEF Fresh, Public, Added
<1>2. ASSUME Writing(t, n) PROVE FALSE
  <2>1. Committed(t) /\ n \in WriteNodes(t) /\ n \in AllNodes /\ n # Null
    BY <1>2, WritingLocked, NodesAssumption
  <2>2. n \in Public \cup indexAdd[t] BY <2>1 DEF Knows, Holdings, Holds
  <2> QED BY <1>1, <2>1, <2>2 DEF Public, Added
<1> QED BY <1>1, <1>2

(* The other threads know what they knew.                                  *)
LEMMA OthersKnow ==
  ASSUME Base, Fresh, SameList, NEW t \in Threads, OthersSame(t),
         index \subseteq index' \cup DeadC,
         \A n \in allocated : m_next'[n] = m_next[n] \/ Writing(t, n),
         Knows(t), NEW u \in Threads \ {t}, Knows(u)
  PROVE  Knows(u)'
<1>1. /\ pc'[u] = pc[u] /\ task'[u] = task[u]
      /\ pred'[u] = pred[u] /\ next'[u] = next[u] /\ prev'[u] = prev[u]
      /\ readSet'[u] = readSet[u] /\ writeSet'[u] = writeSet[u]
      /\ indexAdd'[u] = indexAdd[u] /\ indexRemove'[u] = indexRemove[u]
      /\ readVersion'[u] = readVersion[u] /\ readOnly'[u] = readOnly[u] /\ abort'[u] = abort[u]
      /\ todo'[u] = todo[u]
  BY DEF OthersSame
<1>2. /\ WriteNodes(u)' = WriteNodes(u) /\ WriteNodes(u) \subseteq AllNodes
      /\ Committed(u)' <=> Committed(u)
  BY <1>1 DEF WriteNodes, Committed
<1>3. Resets(u)' BY <1>1, <1>2 DEF Knows, Resets
<1>4. Holdings(u)'
  <2>1. /\ (pc[u] \notin AtNode => Holds(u, pred[u]))' /\ Holds(u, next[u])' /\ Holds(u, prev[u])'
        /\ (\A n \in WriteNodes(u) : Holds(u, n) /\ Holds(u, writeSet[u][n].next))'
    BY <1>1, <1>2, ViewKept, Refs DEF Knows, Holdings
  <2>2. ASSUME ~Committed(u), NEW n \in indexAdd[u]
        PROVE  Holds(u, m_next[n])'
    <3>1. n \in allocated BY PublicAllocated
    <3>2. ~Writing(t, n) BY <2>2, PrivateUnwritten
    <3>3. m_next'[n] = m_next[n] /\ Holds(u, m_next[n]) /\ m_next[n] \in Ref
      BY <2>2, <3>1, <3>2, Refs DEF Knows, Holdings, Base, TypeInv, RefsAllocated, HeapRefs
    <3> QED BY <1>1, <3>3, ViewKept
  <2> QED BY <1>1, <1>2, <2>1, <2>2 DEF Holdings
<1>5. IndexKnows(u)'
  <2>1. DeadC' = DeadC /\ index \cup DeadC \subseteq index' \cup DeadC'
    BY DEF SameList, SameLinks
  <2>2. Lost(u)' <=> Lost(u) BY <1>1, ViewKept
  <2> QED BY <1>1, <1>2, <2>1, <2>2 DEF Knows, IndexKnows
<1>6. Validated(u)'
  <2>1. pc[u] = "stamp" => m_next'[pred[u]] = m_next[pred[u]]
    <3>1. pc[u] = "stamp" => Writing(u, pred[u]) BY DEF Writing
    <3> QED BY <3>1, WriterOf, Refs
  <2>2. \A n \in WriteNodes(u) : Doomed(u, n)' <=> Doomed(u, n)
    BY <1>1, <1>2, ViewKept
  <2> QED BY <1>1, <1>2, <2>1, <2>2 DEF Knows, Validated
<1>7. SearchKnows(u)'
  BY <1>1, ViewKept, Refs DEF Knows, SearchKnows
<1>8. View(u)'
  BY <1>1, <1>2, ViewKept DEF Knows, View
<1> QED BY <1>3, <1>4, <1>5, <1>6, <1>7, <1>8 DEF Knows

-----------------------------------------------------------------------------
(* The operations *)

(* An operation does not touch the index.                                  *)
LEMMA OpStepIndex ==
  ASSUME NEW t \in Threads, OpStep(t)
  PROVE  /\ index' = index
         /\ allocated \subseteq allocated'
<1> USE DEF lnodeVars, nodeVars
<1>1. CASE CheckVersion(t) \/ CheckSingleton(t) \/ IncrementAndAbort(t) \/ ReadNext(t)
  BY <1>1 DEF CheckVersion, CheckSingleton, IncrementAndAbort, ReadNext, AbortOp
<1>2. CASE TXbegin(t) \/ Call(t) \/ SearchPred(t) \/ SkipDeleted(t) \/ Advance(t) \/ RemoveFound(t)
  BY <1>2 DEF TXbegin, Call, SearchPred, SkipDeleted, Advance, RemoveFound
<1>3. CASE PutFound(t) \/ Get(t) \/ RemoveAbsent(t) \/ RemoveFinish(t)
  BY <1>3 DEF PutFound, Get, RemoveAbsent, RemoveFinish
<1>4. CASE PutNew(t) BY <1>4 DEF PutNew
<1> QED BY <1>1, <1>2, <1>3, <1>4 DEF OpStep

(* An operation leaves the committed list as it is.                        *)
LEMMA OpStepList ==
  ASSUME Base, Base', Fresh, NEW t \in Threads, OpStep(t)
  PROVE  /\ SameList
         /\ ~Committed(t) /\ ~Committed(t)'
         /\ \A n \in allocated : m_next'[n] = m_next[n]
<1>0. TypeInv BY DEF Base
<1>1. OthersSame(t) BY <1>0, OpStepOthers
<1>2. /\ m_version_mask' = m_version_mask /\ abort' = abort /\ pc[t] \notin EndLabels
      /\ pc'[t] \in (Labels \ EndLabels) \cup {"lock"}
  BY <1>0, OpStepFrame
<1>3. /\ ~Committed(t) /\ ~Committed(t)'
      /\ \A n \in AllNodes : ~Writing(t, n) /\ ~Writing(t, n)'
  BY <1>2 DEF Committed, Writing, EndLabels, Validating
<1>4. \A n \in allocated : m_next'[n] = m_next[n]
  <2>1. CASE PutNew(t)
    <3>1. PICK n \in Nodes \ allocated : m_next' = [m_next EXCEPT ![n] = next[t]]
      BY <2>1 DEF PutNew
    <3>2. m_next \in [AllNodes -> NodeOrNull] /\ allocated \subseteq AllNodes
      BY <1>0 DEF TypeInv, MemoryTypeOK, LNodeTypeOK
    <3> QED BY <3>1, <3>2
  <2>2. CASE UNCHANGED <<m_key, m_val, m_next>> BY <2>2
  <2> QED BY <2>1, <2>2, OpStepHeap
<1>5. SameLinks BY <1>1, <1>2, <1>3, <1>4, LinksKept
<1>6. Added' = Added
  BY <1>1, <1>3 DEF Added, OthersSame, Committed
<1>7. Public' = Public BY <1>5, <1>6, OpStepIndex DEF Public, SameLinks
<1> QED BY <1>3, <1>4, <1>5, <1>7 DEF SameList

(* New nodes stay private when an operation adds none or one that was      *)
(* never handed out.                                                       *)
LEMMA OpStepFresh ==
  ASSUME Base, Base', Fresh, NEW t \in Threads, OpStep(t),
         indexAdd'[t] \subseteq indexAdd[t] \cup (AllNodes \ allocated)
  PROVE  Fresh'
<1>1. OthersSame(t) BY OpStepOthers DEF Base
<1>2. SameList /\ ~Committed(t) /\ ~Committed(t)' BY OpStepList
<1>3. m_version_mask' = m_version_mask /\ index' = index /\ allocated \subseteq allocated'
  BY OpStepFrame, OpStepIndex DEF Base
<1>4. \A u \in Threads \ {t} : indexAdd'[u] = indexAdd[u] /\ (Committed(u)' <=> Committed(u))
  BY <1>1 DEF OthersSame, Committed
<1>5. (\A n \in AllNodes \ allocated : ~isDeleted(n))'
  BY <1>3 DEF Fresh, isDeleted
<1>6. (\A v, u \in Threads : v # u => indexAdd[v] \cap indexAdd[u] = {})'
  <2>1. \A u \in Threads : indexAdd[u] \subseteq allocated BY PublicAllocated
  <2> QED BY <1>4, <2>1 DEF Fresh
<1>7. (\A u \in Threads : ~Committed(u) => indexAdd[u] \cap (index \cup DeadC) = {})'
  <2>1. index \cup DeadC \subseteq allocated
    BY PublicAllocated DEF Base, TypeInv, MemoryTypeOK, LNodeTypeOK
  <2>2. index' \cup DeadC' = index \cup DeadC BY <1>2, <1>3 DEF SameList, SameLinks
  <2> QED BY <1>2, <1>4, <2>1, <2>2 DEF Fresh
<1> QED BY <1>5, <1>6, <1>7 DEF Fresh

(* A step of a search: what it writes later on is what it knows now.       *)
LEMMA SearchStep ==
  ASSUME Base, Fresh, SameList, NEW t \in Threads, Knows(t), ~Committed(t), ~Committed(t)',
         pc[t] \notin EndLabels, pc'[t] \in (Labels \ EndLabels) \cup {"lock"},
         writeSet'[t] = writeSet[t], indexAdd'[t] = indexAdd[t],
         indexRemove'[t] = indexRemove[t], readVersion'[t] = readVersion[t],
         readSet[t] \subseteq readSet'[t], abort'[t] = abort[t],
         \A n \in allocated : m_next'[n] = m_next[n],
         pc'[t] # "idle", readOnly'[t] => readOnly[t],
         pc'[t] \in PredFound \cup {"search"} /\ task'[t].op # "get" => ~readOnly'[t],
         NEW p \in allocated, NEW s \in Ref, NEW v \in Ref,
         pred'[t] = p, next'[t] = s, prev'[t] = v,
         pc'[t] \notin PredFound \cup {"bump"} => p = head,
         pc'[t] \notin NextRead \cup {"bump"} => s = Null,
         Holds(t, p), Holds(t, s), Holds(t, v),
         pc'[t] \in {"sngPred", "delPred"} => Clean(t, p),
         pc'[t] \in Reading => Fine(t, p),
         pc'[t] \in NextRead => Follows(t, p, s),
         pc'[t] \in NextRead \ {"chkCur"} /\ s # Null => Fine(t, s),
         pc'[t] \in {"sngNext", "cmp"} /\ s # Null /\ ~writeSet[t][p].in => Clean(t, s),
         v # Null => Fine(t, v) /\ Follows(t, v, p) /\ ~readOnly'[t] /\ v \in readSet'[t]
  PROVE  Knows(t)'
<1>0. /\ allocated \subseteq AllNodes /\ allocated \subseteq Ref
      /\ s # Null => s \in allocated
      /\ v # Null => v \in allocated
  BY RefFacts DEF Base, Ref, TypeInv, MemoryTypeOK, LNodeTypeOK
<1>1. WriteNodes(t)' = WriteNodes(t) /\ WriteNodes(t) \subseteq Ref
  BY Refs DEF WriteNodes
<1>2. Resets(t)'
  <2>1. ~abort'[t] BY DEF Knows, Resets, EndLabels, Validating
  <2>2. pc'[t] \notin PredFound \cup {"bump", "stamp"} => pred'[t] = head OBVIOUS
  <2> QED BY <1>1, <2>1, <2>2 DEF Knows, Resets
<1>3. Holdings(t)'
  <2>1. /\ Holds(t, pred[t])' /\ Holds(t, next[t])' /\ Holds(t, prev[t])'
        /\ (\A n \in WriteNodes(t) : Holds(t, n) /\ Holds(t, writeSet[t][n].next))'
    BY <1>0, <1>1, ViewKept, Refs DEF Knows, Holdings
  <2>2. (\A n \in indexAdd[t] : Holds(t, m_next[n]))'
    BY <1>0, ViewKept, Refs, PublicAllocated DEF Knows, Holdings
  <2> QED BY <2>1, <2>2 DEF Holdings
<1>4. IndexKnows(t)'
  BY <1>1, ViewKept DEF Knows, IndexKnows, EndLabels, Validating
<1>5. Validated(t)' BY DEF Validated, AtNode, EndLabels, Validating
<1>6. SearchKnows(t)'
  BY <1>0, ViewKept DEF SearchKnows
<1>7. View(t)' BY ViewKept DEF Knows, View
<1> QED BY <1>2, <1>3, <1>4, <1>5, <1>6, <1>7 DEF Knows

(* A transaction that has written nothing sees the committed list.         *)
LEMMA ClearKnows ==
  ASSUME Base', Chain(LiveC, NextC)', NEW t \in Threads, pc'[t] \in {"idle", "call"},
         \A n \in AllNodes : ~writeSet'[t][n].in /\ ~writeSet'[t][n].deleted,
         indexAdd'[t] = {}, indexRemove'[t] = {},
         pred'[t] = head, next'[t] = Null, prev'[t] = Null, ~abort'[t]
  PROVE  Knows(t)'
<1>1. WriteNodes(t)' = {} /\ ~Committed(t)' /\ pc'[t] \notin PredFound
  BY DEF WriteNodes, Committed, PredFound, NextRead
<1>2. Resets(t)' BY <1>1 DEF Resets
<1>3. head \in Public' BY DEF Chain, LiveC
<1>4. Holdings(t)' BY <1>1, <1>3 DEF Holdings, Holds
<1>5. IndexKnows(t)' BY <1>1 DEF IndexKnows
<1>6. Validated(t)' BY DEF Validated, AtNode
<1>7. SearchKnows(t)' BY <1>1 DEF SearchKnows, Reading, PredFound
<1>8. View(t)'
  <2>1. LiveC' \subseteq AllNodes
    BY DEF Base, TypeInv, MemoryTypeOK, LNodeTypeOK, LiveC, Public, DeadC, Added
  <2>2. LiveS(t)' = LiveC' BY <2>1 DEF LiveS
  <2>3. \A n \in LiveC' : NextS(t)'[n] = NextC'[n] BY <2>1 DEF NextS
  <2>4. Chain(LiveC', NextC') BY DEF Chain
  <2>5. Chain(LiveS(t)', NextS(t)') BY <2>2, <2>3, <2>4, ChainSame
  <2> QED BY <2>5 DEF View, Chain
<1> QED BY <1>2, <1>4, <1>5, <1>6, <1>7, <1>8 DEF Knows

(* A thread that is about to look for a predecessor.                       *)
LEMMA Searched ==
  ASSUME Base, Fresh, Chain(LiveC, NextC), NEW t \in Threads, Knows(t), ~Committed(t)
  PROVE  /\ head \in allocated /\ Holds(t, head)
         /\ \A k \in Nat : \A n \in getPred(k) : n \in allocated /\ Holds(t, n)
         /\ \A n \in AllNodes : ~isLocked(n) => Clean(t, n)
         /\ \A n \in AllNodes : ~Unreadable(t, n) => ~Doomed(t, n)
         /\ \A n \in AllNodes :
              n # Null /\ Holds(t, n) /\ Clean(t, n) /\ ~isDeleted(n) /\ ~writeSet[t][n].deleted
                => Fine(t, n)
<1>1. head \in Public BY DEF Chain, LiveC
<1>2. head \in allocated /\ Holds(t, head) BY <1>1, PublicAllocated DEF Holds
<1>3. \A k \in Nat : \A n \in getPred(k) : n \in allocated /\ Holds(t, n)
  BY <1>1, <1>2, getPredType DEF Base, getPred, Holds, Public
<1>4. \A n \in AllNodes : ~isLocked(n) => \A u \in Threads : ~Writing(u, n)
  BY WritingLocked
<1>5. \A n \in AllNodes : ~isLocked(n) => Clean(t, n) BY <1>4 DEF Clean
<1>6. \A n \in AllNodes : ~Unreadable(t, n) => ~Doomed(t, n) BY <1>4 DEF Unreadable, Doomed
<1>7. ASSUME NEW n \in AllNodes, n # Null, Holds(t, n), Clean(t, n), ~isDeleted(n),
             ~writeSet[t][n].deleted
      PROVE  Fine(t, n)
  <2>1. CASE n \in DeadC
    <3>1. PICK u \in Threads : Writing(u, n) BY <1>7, <2>1 DEF DeadC
    <3> QED BY <1>7, <3>1 DEF Clean, Doomed, Fine
  <2>2. CASE n \notin DeadC BY <1>7, <2>2 DEF Holds, LiveC, LiveS, Fine
  <2> QED BY <2>1, <2>2
<1> QED BY <1>2, <1>3, <1>5, <1>6, <1>7

(* What comes after a node of the view is in the view.                     *)
LEMMA NextFine ==
  ASSUME Base, Fresh, NEW t \in Threads, Knows(t), ~Committed(t),
         NEW p \in allocated, NEW s \in Ref, Fine(t, p), Follows(t, p, s),
         ~Doomed(t, p), s # Null
  PROVE  Fine(t, s)
<1>1. SUFFICES ASSUME ~Lost(t) PROVE s \in LiveS(t) BY DEF Fine
<1>2. p \in LiveS(t) /\ s = NextS(t)[p] BY <1>1 DEF Fine, Follows
<1> QED BY <1>1, <1>2 DEF Knows, View, Chain

(* getNext reads the link the view has, or the node is locked.             *)
LEMMA ReadFollows ==
  ASSUME Base, Fresh, PublicLinks, NEW t \in Threads, Knows(t), ~Committed(t),
         NEW p \in allocated, Holds(t, p)
  PROVE  /\ nextOf(t, p) \in Ref /\ Holds(t, nextOf(t, p))
         /\ writeSet[t][p].in \/ Clean(t, p) => Follows(t, p, nextOf(t, p))
<1>0. p \in AllNodes /\ p # Null /\ nextOf(t, p) \in Ref BY Refs, ReadThroughType DEF Base
<1>1. CASE writeSet[t][p].in
  <2>1. p \in WriteNodes(t) BY <1>0, <1>1 DEF WriteNodes
  <2> QED BY <1>0, <1>1, <2>1 DEF nextOf, Knows, Holdings, Follows, NextS
<1>2. CASE ~writeSet[t][p].in
  <2>1. nextOf(t, p) = m_next[p] /\ NextS(t)[p] = NextC[p] BY <1>0, <1>2 DEF nextOf, NextS
  <2>2. Holds(t, m_next[p])
    <3>1. CASE p \in Public BY <3>1 DEF PublicLinks, Holds
    <3>2. CASE p \in indexAdd[t] BY <3>2 DEF Knows, Holdings
    <3> QED BY <1>0, <3>1, <3>2 DEF Holds
  <2>3. ASSUME Clean(t, p) PROVE Follows(t, p, m_next[p])
    <3>1. CASE Written(p) BY <2>3, <3>1 DEF Written, Clean, Doomed, Follows
    <3>2. CASE ~Written(p) BY <1>0, <2>1, <3>2, NextCOf DEF Follows
    <3> QED BY <3>1, <3>2
  <2> QED BY <1>0, <1>2, <2>1, <2>2, <2>3
<1> QED BY <1>1, <1>2

(* The locals of a thread are functions of the thread.                     *)
LEMMA LocalFunctions ==
  ASSUME TypeInv
  PROVE  /\ pc = [u \in Threads |-> pc[u]] /\ task \in [Threads -> Task \cup {NoTask}]
         /\ pred \in [Threads -> AllNodes] /\ next \in [Threads -> NodeOrNull]
         /\ prev \in [Threads -> NodeOrNull]
         /\ readSet \in [Threads -> SUBSET AllNodes]
         /\ writeSet \in [Threads -> [AllNodes -> Element]]
         /\ indexAdd \in [Threads -> SUBSET Nodes] /\ indexRemove \in [Threads -> SUBSET AllNodes]
         /\ readVersion \in [Threads -> Nat] /\ writeVersion \in [Threads -> Nat]
         /\ readOnly \in [Threads -> BOOLEAN] /\ lockedLNodes \in [Threads -> SUBSET AllNodes]
         /\ todo \in [Threads -> SUBSET AllNodes] /\ abort \in [Threads -> BOOLEAN]
BY DEF TypeInv, MemoryTypeOK, LocalsTypeOK, OpTypeOK, StoreTypeOK, EndTypeOK

(* A transaction begins, or an operation throws.                           *)
LEMMA BeginAbortKnows ==
  ASSUME Base, Base', ListInv, NEW t \in Threads, OpStep(t), TXbegin(t) \/ AbortOp(t)
  PROVE  Knows(t)' /\ indexAdd'[t] \subseteq indexAdd[t]
<1>0. TypeInv BY DEF Base
<1>1. Chain(LiveC, NextC)' BY OpStepList, ListKept DEF ListInv
<1>2. ~abort'[t]
  BY <1>0, OpStepFrame DEF ListInv, Knows, Resets, EndLabels
<1>3. CASE TXbegin(t)
  <2>1. /\ pc[t] = "idle" /\ pc'[t] = "call"
        /\ writeSet' = writeSet /\ indexAdd' = indexAdd /\ indexRemove' = indexRemove
        /\ pred' = pred /\ next' = next /\ prev' = prev
    BY <1>0, <1>3, LocalFunctions DEF TXbegin, Goto, opVars, storeVars
  <2>2. /\ \A n \in AllNodes : ~writeSet'[t][n].in /\ ~writeSet'[t][n].deleted
        /\ indexAdd'[t] = {} /\ indexRemove'[t] = {}
        /\ pred'[t] = head /\ next'[t] = Null
    BY <2>1 DEF ListInv, Knows, Resets, WriteNodes, PredFound, NextRead, AtNode, Validating
  <2>3. prev'[t] = Null BY <2>1, PrevNull DEF Base, NextRead
  <2> QED BY <1>1, <1>2, <2>1, <2>2, <2>3, ClearKnows
<1>4. CASE AbortOp(t)
  <2>1. /\ pc'[t] = "idle" /\ writeSet'[t] = EmptyWriteSet
        /\ indexAdd'[t] = {} /\ indexRemove'[t] = {}
        /\ pred'[t] = head /\ next'[t] = Null /\ prev'[t] = Null
    BY <1>0, <1>4, LocalFunctions DEF AbortOp, ClearStorage, ForgetOp, Goto
  <2>2. \A n \in AllNodes : ~writeSet'[t][n].in /\ ~writeSet'[t][n].deleted
    BY <2>1 DEF EmptyWriteSet, NoElement
  <2> QED BY <1>1, <1>2, <2>1, <2>2, ClearKnows
<1> QED BY <1>3, <1>4

(* The steps of getPred and of find_node's loop.                           *)
LEMMA SearchKnowsStep ==
  ASSUME Base, Base', ListInv, NEW t \in Threads, OpStep(t), ~AbortOp(t),
         \/ Call(t) \/ SearchPred(t) \/ CheckVersion(t) \/ CheckSingleton(t)
         \/ SkipDeleted(t) \/ ReadNext(t) \/ Advance(t)
  PROVE  Knows(t)' /\ indexAdd'[t] \subseteq indexAdd[t]
<1>0. TypeInv /\ Fresh /\ Knows(t) /\ PublicLinks /\ Chain(LiveC, NextC) BY DEF Base, ListInv
<1> DEFINE p == pred'[t]
           s == next'[t]
           v == prev'[t]
<1>1. /\ SameList /\ ~Committed(t) /\ ~Committed(t)'
      /\ \A n \in allocated : m_next'[n] = m_next[n]
  BY <1>0, OpStepList
<1>2. /\ pc[t] \notin EndLabels /\ pc'[t] \in (Labels \ EndLabels) \cup {"lock"} /\ abort'[t] = abort[t]
  BY <1>0, OpStepFrame
<1>3. /\ writeSet' = writeSet /\ indexAdd' = indexAdd /\ indexRemove' = indexRemove
      /\ readVersion' = readVersion /\ readSet' = readSet /\ pc'[t] # "idle"
      /\ pc[t] # "idle"
  <2> USE <1>0, LocalFunctions DEF storeVars, versVars, Goto
  <2>1. CASE Call(t) BY <2>1 DEF Call
  <2>2. CASE SearchPred(t) BY <2>2 DEF SearchPred
  <2>3. CASE CheckVersion(t) BY <2>3 DEF CheckVersion, AfterCheck
  <2>4. CASE CheckSingleton(t) BY <2>4 DEF CheckSingleton, AfterCheck
  <2>5. CASE SkipDeleted(t) BY <2>5 DEF SkipDeleted
  <2>6. CASE ReadNext(t) BY <2>6 DEF ReadNext
  <2>7. CASE Advance(t) BY <2>7 DEF Advance, Searching
  <2> QED BY <2>1, <2>2, <2>3, <2>4, <2>5, <2>6, <2>7
<1>4. SUFFICES Knows(t)' BY <1>3
<1>5. /\ pred[t] \in allocated /\ next[t] \in Ref /\ prev[t] \in Ref
      /\ Holds(t, pred[t]) /\ Holds(t, next[t]) /\ Holds(t, prev[t])
      /\ allocated \subseteq AllNodes /\ Null \in Ref /\ Holds(t, Null)
      /\ next[t] # Null => next[t] \in allocated
      /\ Null \notin allocated
  BY <1>0, <1>2, Refs, PublicAllocated DEF Knows, Holdings, Ref, Holds, EndLabels, Validating, AtNode
<1>6. CASE Call(t)
  <2>1. PICK k \in Tasks[t][consumed[t] + 1] :
          /\ task' = [task EXCEPT ![t] = k]
          /\ readOnly' = [readOnly EXCEPT ![t] = @ /\ k.op = "get"]
    BY <1>6 DEF Call
  <2>2. /\ pc[t] = "call" /\ pc'[t] = "search" /\ task'[t] = k
        /\ readOnly'[t] = (readOnly[t] /\ k.op = "get")
        /\ p = pred[t] /\ s = next[t] /\ v = prev[t]
    BY <1>0, <1>6, <2>1, LocalFunctions DEF Call, Goto
  <2>3. p = head /\ s = Null /\ v = Null
    BY <1>0, <2>2, PrevNull DEF Knows, Resets, PredFound, NextRead, Base, AtNode, Validating
  <2> QED BY <1>0, <1>1, <1>2, <1>3, <1>5, <2>2, <2>3, SearchStep DEF PredFound, NextRead, Reading
<1>7. CASE ~Call(t)
  <2>1. /\ task' = task /\ readOnly' = readOnly
        /\ pc[t] \in {"search"} \cup PredFound /\ pc'[t] \in {"search", "bump"} \cup PredFound
    <3> USE <1>0, LocalFunctions DEF opVars, versVars, Goto, PredFound, NextRead
    <3>2. CASE SearchPred(t) BY <3>2 DEF SearchPred
    <3>3. CASE CheckVersion(t) BY <3>3 DEF CheckVersion, AfterCheck
    <3>4. CASE CheckSingleton(t) BY <3>4 DEF CheckSingleton, AfterCheck
    <3>5. CASE SkipDeleted(t) BY <3>5 DEF SkipDeleted
    <3>6. CASE ReadNext(t) BY <3>6 DEF ReadNext
    <3>7. CASE Advance(t) BY <3>7 DEF Advance, Searching
    <3> QED BY <1>7, <3>2, <3>3, <3>4, <3>5, <3>6, <3>7
  <2>2. /\ task'[t].op # "get" => ~readOnly'[t]
        /\ prev[t] # Null => ~readOnly'[t] /\ prev[t] \in readSet'[t]
    BY <1>0, <1>3, <2>1 DEF Knows, Resets
  <2>3. CASE SearchPred(t)
    <3>1. PICK n \in getPred(task[t].key) : pred' = [pred EXCEPT ![t] = n]
      BY <2>3 DEF SearchPred
    <3>2. n \in allocated /\ Holds(t, n) BY <1>0, <1>1, <3>1, Searched, TaskFields
    <3>3. /\ pc[t] = "search" /\ pc'[t] = "chkPred"
          /\ p = n /\ s = next[t] /\ v = prev[t]
      BY <1>0, <2>3, <3>1, LocalFunctions DEF SearchPred, Goto
    <3>4. s = Null /\ v = Null
      BY <1>0, <3>3, PrevNull DEF Knows, Resets, NextRead, Base
    <3> QED BY <1>0, <1>1, <1>2, <1>3, <1>5, <2>1, <2>2, <3>2, <3>3, <3>4, SearchStep
            DEF PredFound, NextRead, Reading
  <2>4. CASE SkipDeleted(t)
    <3>0. /\ pc[t] = "delPred" /\ s = next[t] /\ v = prev[t] BY <2>4 DEF SkipDeleted
    <3>1. s = Null /\ v = Null
      BY <1>0, <3>0, PrevNull DEF Knows, Resets, NextRead, Base
    <3>2. Clean(t, pred[t]) BY <1>0, <3>0 DEF Knows, SearchKnows
    <3>3. CASE writeSet[t][pred[t]].deleted \/ isDeleted(pred[t])
      <4>1. PICK n \in getPred(m_key[pred[t]]) : pred' = [pred EXCEPT ![t] = n]
        BY <2>4, <3>3 DEF SkipDeleted
      <4>2. m_key[pred[t]] \in Nat BY <1>0, <1>5 DEF TypeInv, MemoryTypeOK, LNodeTypeOK
      <4>3. n \in allocated /\ Holds(t, n) BY <1>0, <1>1, <4>1, <4>2, Searched
      <4>4. pc'[t] = "chkPred" /\ p = n
        BY <1>0, <2>4, <3>3, <4>1, LocalFunctions DEF SkipDeleted, Goto
      <4> QED BY <1>0, <1>1, <1>2, <1>3, <1>5, <2>1, <2>2, <3>1, <4>3, <4>4, SearchStep
              DEF PredFound, NextRead, Reading
    <3>4. CASE ~writeSet[t][pred[t]].deleted /\ ~isDeleted(pred[t])
      <4>1. pc'[t] = "read" /\ p = pred[t]
        BY <1>0, <2>4, <3>4, LocalFunctions DEF SkipDeleted, Goto
      <4>2. Fine(t, p) BY <1>0, <1>1, <1>5, <3>2, <3>4, <4>1, Searched
      <4> QED BY <1>0, <1>1, <1>2, <1>3, <1>5, <2>1, <2>2, <3>1, <4>1, <4>2, SearchStep
              DEF PredFound, NextRead, Reading
    <3> QED BY <3>3, <3>4
  <2>5. CASE ReadNext(t)
    <3>1. /\ pc[t] = "read" /\ next' = [next EXCEPT ![t] = nextOf(t, pred[t])]
          /\ ~(~writeSet[t][pred[t]].in /\ isLocked(pred[t]))
          /\ Goto(t, IF writeSet[t][pred[t]].in THEN "cmp" ELSE "chkCur")
          /\ pred' = pred /\ prev' = prev
      BY <2>5 DEF ReadNext
    <3>2. /\ pc'[t] = IF writeSet[t][pred[t]].in THEN "cmp" ELSE "chkCur"
          /\ p = pred[t] /\ s = nextOf(t, pred[t]) /\ v = prev[t]
      BY <1>0, <3>1, LocalFunctions DEF Goto
    <3>3. s \in Ref /\ Holds(t, s) BY <1>0, <1>1, <1>5, <3>2, ReadFollows
    <3>4. Follows(t, p, s)
      <4>1. writeSet[t][p].in \/ Clean(t, p) BY <1>0, <1>1, <1>5, <3>1, <3>2, Searched
      <4> QED BY <1>0, <1>1, <1>5, <3>2, <4>1, ReadFollows
    <3>5. Fine(t, p) BY <1>0, <3>1, <3>2 DEF Knows, SearchKnows, Reading
    <3>6. pc'[t] = "cmp" /\ s # Null => Fine(t, s)
      <4>1. SUFFICES ASSUME writeSet[t][p].in, s # Null PROVE Fine(t, s) BY <3>2
      <4>2. p \in WriteNodes(t) BY <4>1, <3>2, <1>5 DEF WriteNodes
      <4>3. CASE Doomed(t, p) BY <4>2, <4>3 DEF Lost, Fine
      <4>4. CASE ~Doomed(t, p)
        BY <1>0, <1>1, <1>5, <3>2, <3>3, <3>4, <3>5, <4>1, <4>4, NextFine
      <4> QED BY <4>3, <4>4
    <3>7. v # Null => Fine(t, v) /\ Follows(t, v, p) BY <1>0, <3>2 DEF Knows, SearchKnows
    <3> HIDE DEF p, s, v
    <3> QED BY <1>0, <1>1, <1>2, <1>3, <1>5, <2>1, <2>2, <3>2, <3>3, <3>4, <3>5, <3>6, <3>7, SearchStep
            DEF PredFound, NextRead, Reading, p, s, v
  <2>6. CASE Advance(t)
    <3>1. /\ pc[t] = "cmp" /\ prev[t] = Null /\ next[t] # Null
          /\ pc'[t] = "read" /\ p = next[t] /\ s = Null /\ v = prev[t]
      BY <1>0, <2>6, LocalFunctions DEF Advance, Searching, Further, Goto
    <3>2. Fine(t, next[t]) BY <1>0, <3>1 DEF Knows, SearchKnows, NextRead
    <3> QED BY <1>0, <1>1, <1>2, <1>3, <1>5, <2>1, <2>2, <3>1, <3>2, SearchStep
            DEF PredFound, NextRead, Reading
  <2>8. CASE CheckSingleton(t) /\ pc'[t] = "bump"
    <3>1. /\ pc[t] \in {"sngPred", "sngCur", "sngNext"}
          /\ p = pred[t] /\ s = next[t] /\ v = prev[t]
      BY <2>8 DEF CheckSingleton, opVars
    <3>2. v # Null => Fine(t, v) /\ Follows(t, v, p)
      BY <1>0, <3>1 DEF Knows, SearchKnows
    <3> QED BY <1>0, <1>1, <1>2, <1>3, <1>5, <2>1, <2>2, <2>8, <3>1, <3>2, SearchStep
            DEF PredFound, NextRead, Reading
  <2>7. CASE CheckVersion(t) \/ (CheckSingleton(t) /\ pc'[t] # "bump")
    <3>1. /\ pc[t] \in {"chkPred", "chkCur", "chkNext", "sngPred", "sngCur", "sngNext"}
          /\ pc'[t] = AfterCheck(t)
          /\ p = pred[t] /\ s = next[t] /\ v = prev[t]
          /\ pc[t] \in {"chkPred", "chkCur", "chkNext"} => ~Unreadable(t, Subject(t))
      BY <1>0, <2>7, LocalFunctions DEF CheckVersion, CheckSingleton, Goto, opVars
    <3>2. Knows(t) BY <1>0
    <3> USE <1>0, <1>1, <1>2, <1>3, <1>5, <2>1, <2>2, SearchStep DEF PredFound, NextRead, Reading
    <3>3. CASE pc[t] = "chkPred"
      <4>1. pc'[t] = "sngPred" BY <3>1, <3>3 DEF AfterCheck
      <4>2. ~isLocked(p) BY <3>1, <3>3 DEF Subject, Unreadable
      <4>3. Clean(t, p) BY <4>2, <3>1, Searched
      <4>4. s = Null /\ v = Null BY <3>1, <3>3, PrevNull DEF Knows, Resets, Base
      <4> QED BY <3>1, <4>1, <4>3, <4>4
    <3>4. CASE pc[t] = "sngPred"
      <4>1. pc'[t] = "delPred" BY <3>1, <3>4 DEF AfterCheck
      <4>2. Clean(t, p) BY <3>1, <3>4 DEF Knows, SearchKnows
      <4>3. s = Null /\ v = Null BY <3>1, <3>4, PrevNull DEF Knows, Resets, Base
      <4> QED BY <3>1, <4>1, <4>2, <4>3
    <3>5. ASSUME pc[t] \in NextRead
          PROVE  Fine(t, p) /\ Follows(t, p, s) /\ (v # Null => Fine(t, v) /\ Follows(t, v, p))
      BY <3>1, <3>5 DEF Knows, SearchKnows
    <3>6. CASE pc[t] = "chkCur"
      <4>1. pc'[t] = "sngCur" BY <3>1, <3>6 DEF AfterCheck
      <4>2. ~Doomed(t, p) BY <3>1, <3>6, Searched DEF Subject
      <4>3. s # Null => Fine(t, s) BY <3>1, <3>5, <3>6, <4>2, NextFine
      <4> QED BY <3>1, <3>5, <3>6, <4>1, <4>3
    <3>7. CASE pc[t] = "sngCur"
      <4>1. pc'[t] = IF s = Null THEN "cmp" ELSE "chkNext" BY <3>1, <3>7 DEF AfterCheck
      <4>2. s # Null => Fine(t, s) BY <3>1, <3>7 DEF Knows, SearchKnows
      <4> QED BY <3>1, <3>5, <3>7, <4>1, <4>2
    <3>8. CASE pc[t] = "chkNext"
      <4>1. pc'[t] = "sngNext" BY <3>1, <3>8 DEF AfterCheck
      <4>2. s # Null => Fine(t, s) BY <3>1, <3>8 DEF Knows, SearchKnows
      <4>3. s # Null => ~isLocked(s) BY <3>1, <3>8 DEF Subject, Unreadable
      <4>4. s # Null => Clean(t, s) BY <4>3, <3>1, Searched
      <4> QED BY <3>1, <3>5, <3>8, <4>1, <4>2, <4>4
    <3>9. CASE pc[t] = "sngNext"
      <4>1. pc'[t] = "cmp" BY <3>1, <3>9 DEF AfterCheck
      <4>2. s # Null => Fine(t, s) BY <3>1, <3>9 DEF Knows, SearchKnows
      <4>3. s # Null /\ ~writeSet[t][p].in => Clean(t, s) BY <3>1, <3>9 DEF Knows, SearchKnows
      <4> QED BY <3>1, <3>5, <3>9, <4>1, <4>2, <4>3
    <3> QED BY <3>1, <3>3, <3>4, <3>6, <3>7, <3>8, <3>9
  <2> QED BY <1>7, <2>3, <2>4, <2>5, <2>6, <2>7, <2>8
<1> QED BY <1>6, <1>7

(* The operations that only read, and the first half of remove.            *)
LEMMA ReadKnows ==
  ASSUME Base, Base', ListInv, NEW t \in Threads, OpStep(t),
         Get(t) \/ RemoveAbsent(t) \/ RemoveFound(t)
  PROVE  Knows(t)' /\ indexAdd'[t] \subseteq indexAdd[t]
<1>0. TypeInv /\ Fresh /\ Knows(t) /\ PublicLinks /\ Chain(LiveC, NextC) BY DEF Base, ListInv
<1>1. /\ SameList /\ ~Committed(t) /\ ~Committed(t)'
      /\ \A n \in allocated : m_next'[n] = m_next[n]
  BY <1>0, OpStepList
<1>2. /\ pc[t] \notin EndLabels /\ pc'[t] \in (Labels \ EndLabels) \cup {"lock"} /\ abort'[t] = abort[t]
  BY <1>0, OpStepFrame
<1>3. /\ writeSet' = writeSet /\ indexAdd' = indexAdd /\ indexRemove' = indexRemove
      /\ readVersion' = readVersion /\ readOnly' = readOnly
      /\ readSet'[t] = readSet[t] \cup {pred[t]}
      /\ pc[t] = "cmp" /\ prev[t] = Null
  BY <1>0, LocalFunctions DEF Get, RemoveAbsent, RemoveFound, Searching, versVars
<1>4. SUFFICES Knows(t)' BY <1>3
<1>5. /\ pred[t] \in allocated /\ next[t] \in Ref
      /\ Holds(t, pred[t]) /\ Holds(t, next[t])
      /\ allocated \subseteq AllNodes /\ allocated \subseteq Ref /\ Null \in Ref /\ Holds(t, Null)
      /\ next[t] # Null => next[t] \in allocated
      /\ head \in allocated /\ Holds(t, head)
  BY <1>0, <1>2, <1>1, Refs, Searched DEF Knows, Holdings, Ref, Holds, EndLabels, Validating, AtNode
<1>6. CASE Get(t) \/ RemoveAbsent(t)
  <2>1. pc'[t] \in {"lock", "call"} /\ pred'[t] = head /\ next'[t] = Null /\ prev'[t] = Null
    BY <1>0, <1>6, LocalFunctions DEF Get, RemoveAbsent, Return, ForgetOp, Goto
  <2> QED BY <1>0, <1>1, <1>2, <1>3, <1>5, <2>1, SearchStep DEF PredFound, NextRead, Reading
<1>7. CASE RemoveFound(t)
  <2>1. /\ pc'[t] = "read" /\ pred'[t] = next[t] /\ next'[t] = Null /\ prev'[t] = pred[t]
        /\ next[t] # Null /\ task'[t] = task[t] /\ task[t].op = "remove"
    BY <1>0, <1>7, LocalFunctions DEF RemoveFound, Found, Goto
  <2>2. ~readOnly[t] BY <1>0, <1>3, <2>1 DEF Knows, Resets, PredFound, NextRead
  <2>3. Fine(t, pred[t]) /\ Fine(t, next[t]) /\ Follows(t, pred[t], next[t])
    BY <1>0, <1>3, <2>1 DEF Knows, SearchKnows, NextRead, Reading
  <2> QED BY <1>0, <1>1, <1>2, <1>3, <1>5, <2>1, <2>2, <2>3, SearchStep DEF PredFound, NextRead, Reading
<1> QED BY <1>6, <1>7

(* An operation that wrote to the write set has returned.                  *)
LEMMA WriteReturnKnows ==
  ASSUME Base, Base', ListInv, SameList, NEW t \in Threads,
         ~Committed(t)', pc'[t] \in {"lock", "call"}, ~abort'[t], ~readOnly'[t],
         pred'[t] = head, next'[t] = Null, prev'[t] = Null,
         \A n \in AllNodes : writeSet'[t][n].deleted => writeSet'[t][n].in,
         WriteNodes(t)' \subseteq readSet'[t],
         \A n \in WriteNodes(t)' : Holds(t, n)' /\ Holds(t, writeSet[t][n].next)',
         \A n \in indexAdd'[t] : Holds(t, m_next[n])',
         Lost(t)' \/ (Chain(LiveS(t), NextS(t))'
                      /\ \A n \in indexRemove'[t] : writeSet'[t][n].deleted)
  PROVE  Knows(t)'
<1>1. pc'[t] \notin PredFound \cup AtNode \cup {"search", "stamp", "idle", "idxAdd", "idxRemove", "validate"}
  BY DEF PredFound, NextRead, AtNode, Validating
<1>2. Resets(t)' BY <1>1 DEF Resets
<1>3. head \in Public' BY DEF ListInv, Chain, LiveC, SameList
<1>4. Holdings(t)' BY <1>3 DEF Holdings, Holds
<1>5. IndexKnows(t)' BY <1>1 DEF IndexKnows
<1>6. Validated(t)' BY <1>1 DEF Validated
<1>7. SearchKnows(t)' BY <1>1 DEF SearchKnows, Reading, PredFound
<1>8. View(t)' BY DEF View
<1> QED BY <1>2, <1>4, <1>5, <1>6, <1>7, <1>8 DEF Knows

(* What the three writing operations start from.                           *)
LEMMA WriteStart ==
  ASSUME Base, Base', ListInv, NEW t \in Threads, OpStep(t),
         PutFound(t) \/ PutNew(t) \/ RemoveFinish(t)
  PROVE  /\ SameList /\ ~Committed(t) /\ ~Committed(t)'
         /\ \A n \in allocated : m_next'[n] = m_next[n]
         /\ pc[t] = "cmp" /\ ~abort'[t] /\ ~readOnly'[t]
         /\ pc'[t] \in {"lock", "call"}
         /\ pred'[t] = head /\ next'[t] = Null /\ prev'[t] = Null
         /\ \A n \in AllNodes : Doomed(t, n)' <=> Doomed(t, n)
         /\ indexAdd[t] \subseteq indexAdd'[t]
         /\ \A n : Holds(t, n) => Holds(t, n)'
<1>0. TypeInv /\ Fresh /\ Knows(t) BY DEF Base, ListInv
<1>1. /\ SameList /\ ~Committed(t) /\ ~Committed(t)'
      /\ \A n \in allocated : m_next'[n] = m_next[n]
  BY <1>0, OpStepList
<1>2. pc[t] = "cmp" /\ readVersion' = readVersion /\ readOnly' = readOnly /\ abort' = abort
  BY DEF PutFound, PutNew, RemoveFinish, Searching, versVars, endVars
<1>3. /\ pc'[t] \in {"lock", "call"}
      /\ pred'[t] = head /\ next'[t] = Null /\ prev'[t] = Null
  BY <1>0, LocalFunctions DEF PutFound, PutNew, RemoveFinish, Return, ForgetOp, Goto
<1>4. ~abort'[t] /\ ~readOnly'[t]
  BY <1>0, <1>2 DEF PutFound, PutNew, RemoveFinish, Searching, Knows, Resets, PredFound, NextRead
<1>5. indexAdd[t] \subseteq indexAdd'[t]
  <2>1. CASE PutFound(t) \/ RemoveFinish(t) BY <2>1 DEF PutFound, RemoveFinish
  <2>2. CASE PutNew(t)
    <3>1. PICK n \in Nodes : indexAdd' = [indexAdd EXCEPT ![t] = @ \cup {n}] BY <2>2 DEF PutNew
    <3>2. indexAdd \in [Threads -> SUBSET Nodes] BY <1>0, LocalFunctions
    <3> QED BY <3>1, <3>2
  <2> QED BY <2>1, <2>2
<1>6. \A n \in AllNodes : Doomed(t, n)' <=> Doomed(t, n)
  BY <1>1, <1>2 DEF SameList, SameLinks
<1>7. \A n : Holds(t, n) => Holds(t, n)' BY <1>1, <1>5 DEF Holds, SameList
<1> QED BY <1>1, <1>2, <1>3, <1>4, <1>5, <1>6, <1>7

(* put on a key that is there does not change the view.                    *)
LEMMA PutFoundKnows ==
  ASSUME Base, Base', ListInv, NEW t \in Threads, OpStep(t), PutFound(t), NoBlindPut
  PROVE  Knows(t)' /\ indexAdd'[t] \subseteq indexAdd[t]
<1>0. TypeInv /\ Fresh /\ Knows(t) /\ PublicLinks /\ Chain(LiveC, NextC) BY DEF Base, ListInv
<1> DEFINE z == next[t]
           e == WriteElement(nextOf(t, z), task[t].val, writeSet[t][z].deleted)
<1>1. /\ SameList /\ ~Committed(t) /\ ~Committed(t)'
      /\ \A n \in allocated : m_next'[n] = m_next[n]
      /\ pc[t] = "cmp" /\ ~abort'[t] /\ ~readOnly'[t]
      /\ pc'[t] \in {"lock", "call"}
      /\ pred'[t] = head /\ next'[t] = Null /\ prev'[t] = Null
      /\ \A n \in AllNodes : Doomed(t, n)' <=> Doomed(t, n)
      /\ \A n : Holds(t, n) => Holds(t, n)'
  BY WriteStart
<1>2. z # Null /\ z \in allocated /\ z \in AllNodes /\ Holds(t, z)
  BY <1>0, Refs DEF PutFound, Found, Knows, Holdings
<1>3. e.in = TRUE /\ e.next = nextOf(t, z) /\ e.deleted = writeSet[t][z].deleted
  BY DEF WriteElement
<1>4. /\ writeSet' = [writeSet EXCEPT ![t][z] = e]
      /\ readSet' = [readSet EXCEPT ![t] = @ \cup {z}]
      /\ indexAdd' = indexAdd /\ indexRemove' = indexRemove
  BY DEF PutFound
<1> HIDE DEF e
<1>5. /\ writeSet'[t][z] = e /\ \A n \in AllNodes \ {z} : writeSet'[t][n] = writeSet[t][n]
      /\ readSet'[t] = readSet[t] \cup {z}
  BY <1>0, <1>2, <1>4, LocalFunctions
<1>6. WriteNodes(t)' = WriteNodes(t) \cup {z}
  BY <1>2, <1>3, <1>5 DEF WriteNodes
<1>7. \A n \in AllNodes : writeSet'[t][n].deleted = writeSet[t][n].deleted
  BY <1>3, <1>5
<1>8. LiveS(t)' = LiveS(t)
  <2>1. LiveC \cup indexAdd[t] \subseteq AllNodes BY <1>0, PublicAllocated
  <2>2. LiveC' = LiveC BY <1>1 DEF SameList, SameLinks, LiveC
  <2> QED BY <1>4, <1>7, <2>1, <2>2 DEF LiveS
<1>9. Follows(t, z, nextOf(t, z)) /\ Holds(t, nextOf(t, z))
  <2>1. writeSet[t][z].in \/ Clean(t, z)
    <3>1. CASE ~writeSet[t][pred[t]].in
      BY <1>0, <1>1, <1>2, <3>1 DEF Knows, SearchKnows
    <3>2. CASE writeSet[t][pred[t]].in /\ ~writeSet[t][z].in
      <4>1. ~isLocked(z) BY <3>2 DEF NoBlindPut
      <4> QED BY <1>0, <1>1, <1>2, <4>1, Searched
    <3> QED BY <3>1, <3>2
  <2> QED BY <1>0, <1>1, <1>2, <2>1, ReadFollows
<1>10. Lost(t)' \/ (Chain(LiveS(t), NextS(t))' /\ \A n \in indexRemove'[t] : writeSet'[t][n].deleted)
  <2>1. SUFFICES ASSUME ~Lost(t)'
                 PROVE  Chain(LiveS(t), NextS(t))' /\ \A n \in indexRemove'[t] : writeSet'[t][n].deleted
    OBVIOUS
  <2>2. ~Doomed(t, z) /\ ~Lost(t)
    <3>1. WriteNodes(t) \subseteq AllNodes BY DEF WriteNodes
    <3> QED BY <2>1, <1>1, <1>2, <1>6, <3>1 DEF Lost
  <2>3. \A n \in allocated : NextS(t)'[n] = NextS(t)[n]
    <3>1. nextOf(t, z) = NextS(t)[z] BY <1>9, <2>2 DEF Follows
    <3>2. ASSUME NEW n \in allocated PROVE NextS(t)'[n] = NextS(t)[n]
      <4>1. n \in AllNodes BY <1>0, PublicAllocated
      <4>2. CASE n = z BY <1>3, <1>5, <3>1, <4>1, <4>2 DEF NextS
      <4>3. CASE n # z BY <1>1, <1>5, <4>1, <4>3 DEF NextS, SameList, SameLinks
      <4> QED BY <4>2, <4>3
    <3> QED BY <3>2
  <2>4. Chain(LiveS(t), NextS(t)) BY <1>0, <1>1, <2>2 DEF Knows, View
  <2>5. LiveS(t) \subseteq allocated BY <1>0, PublicAllocated
  <2>6. Chain(LiveS(t)', NextS(t)') BY <1>8, <2>3, <2>4, <2>5, ChainSame
  <2>7. \A n \in indexRemove[t] : writeSet[t][n].deleted /\ n \in AllNodes
    BY <1>0, <1>1, <2>2, LocalFunctions DEF Knows, IndexKnows
  <2> QED BY <1>4, <1>7, <2>6, <2>7 DEF Chain
<1>11. \A n \in WriteNodes(t)' : Holds(t, n)' /\ Holds(t, writeSet[t][n].next)'
  <2>1. ASSUME NEW n \in WriteNodes(t)' PROVE Holds(t, n) /\ Holds(t, writeSet'[t][n].next)
    <3>1. CASE n = z BY <3>1, <1>2, <1>3, <1>5, <1>9
    <3>2. CASE n # z BY <3>2, <2>1, <1>0, <1>5, <1>6 DEF Knows, Holdings, WriteNodes
    <3> QED BY <3>1, <3>2
  <2> QED BY <2>1, <1>1
<1>12. \A n \in indexAdd'[t] : Holds(t, m_next[n])'
  BY <1>0, <1>1, <1>4, PublicAllocated DEF Knows, Holdings
<1>13. /\ \A n \in AllNodes : writeSet'[t][n].deleted => writeSet'[t][n].in
       /\ WriteNodes(t)' \subseteq readSet'[t]
  BY <1>0, <1>3, <1>5, <1>6 DEF Knows, Resets
<1> QED BY <1>1, <1>4, <1>10, <1>11, <1>12, <1>13, WriteReturnKnows

(* put on an absent key adds a node to the view, and to no other.          *)
LEMMA PutNewKnows ==
  ASSUME Base, Base', ListInv, NEW t \in Threads, OpStep(t), PutNew(t)
  PROVE  Knows(t)' /\ indexAdd'[t] \subseteq indexAdd[t] \cup (AllNodes \ allocated)
<1>0. TypeInv /\ Fresh /\ Knows(t) /\ PublicLinks /\ Chain(LiveC, NextC) BY DEF Base, ListInv
<1> DEFINE p == pred[t]
<1>1. /\ SameList /\ ~Committed(t) /\ ~Committed(t)'
      /\ \A n \in allocated : m_next'[n] = m_next[n]
      /\ pc[t] = "cmp" /\ ~abort'[t] /\ ~readOnly'[t]
      /\ pc'[t] \in {"lock", "call"}
      /\ pred'[t] = head /\ next'[t] = Null /\ prev'[t] = Null
      /\ \A n \in AllNodes : Doomed(t, n)' <=> Doomed(t, n)
      /\ \A n : Holds(t, n) => Holds(t, n)'
  BY WriteStart
<1>2. p \in allocated /\ p \in AllNodes /\ Holds(t, p) /\ Holds(t, next[t]) /\ p # Null
  BY <1>0, <1>1, Refs DEF Knows, Holdings, AtNode
<1>3. PICK n \in Nodes \ allocated :
        /\ m_next' = [m_next EXCEPT ![n] = next[t]]
        /\ writeSet' = [writeSet EXCEPT ![t][pred[t]] = WriteElement(n, getVal(t, pred[t]), FALSE)]
        /\ indexAdd' = [indexAdd EXCEPT ![t] = @ \cup {n}]
  BY DEF PutNew
<1> DEFINE e == WriteElement(n, getVal(t, p), FALSE)
<1>4. e.in = TRUE /\ e.next = n /\ e.deleted = FALSE
  BY DEF WriteElement
<1>5. /\ writeSet' = [writeSet EXCEPT ![t][p] = e]
      /\ readSet' = [readSet EXCEPT ![t] = @ \cup {p}]
      /\ indexRemove' = indexRemove
  BY <1>3 DEF PutNew
<1> HIDE DEF e
<1>6. n \in AllNodes /\ n # p /\ n # Null /\ n # head
  BY <1>2, <1>3, NodesAssumption DEF AllNodes
<1>7. /\ writeSet'[t][p] = e /\ \A m \in AllNodes \ {p} : writeSet'[t][m] = writeSet[t][m]
      /\ readSet'[t] = readSet[t] \cup {p}
      /\ indexAdd'[t] = indexAdd[t] \cup {n}
      /\ m_next'[n] = next[t]
  <2>1. m_next \in [AllNodes -> NodeOrNull] BY <1>0 DEF TypeInv, MemoryTypeOK, LNodeTypeOK
  <2>2. /\ writeSet \in [Threads -> [AllNodes -> Element]] /\ readSet \in [Threads -> SUBSET AllNodes]
        /\ indexAdd \in [Threads -> SUBSET Nodes]
    BY <1>0, LocalFunctions
  <2>3. writeSet'[t][p] = e /\ \A m \in AllNodes \ {p} : writeSet'[t][m] = writeSet[t][m]
    BY <1>2, <1>5, <2>2
  <2>4. readSet'[t] = readSet[t] \cup {p} BY <1>5, <2>2
  <2>5. indexAdd'[t] = indexAdd[t] \cup {n} BY <1>3, <2>2
  <2>6. m_next'[n] = next[t] BY <1>3, <1>6, <2>1
  <2> QED BY <2>3, <2>4, <2>5, <2>6
<1>8. WriteNodes(t)' = WriteNodes(t) \cup {p}
  BY <1>2, <1>4, <1>7 DEF WriteNodes
<1>9. ~writeSet[t][n].in /\ ~writeSet[t][n].deleted
  <2>1. WriteNodes(t) \subseteq allocated BY Refs
  <2> QED BY <1>0, <1>3, <1>6, <2>1 DEF WriteNodes, Knows, Resets
<1>10. Lost(t)' \/ (Chain(LiveS(t), NextS(t))' /\ \A m \in indexRemove'[t] : writeSet'[t][m].deleted)
  <2>1. SUFFICES ASSUME ~Lost(t)'
                 PROVE  Chain(LiveS(t), NextS(t))' /\ \A m \in indexRemove'[t] : writeSet'[t][m].deleted
    OBVIOUS
  <2>2. ~Doomed(t, p) /\ ~Lost(t)
    <3>1. WriteNodes(t) \subseteq AllNodes BY DEF WriteNodes
    <3> QED BY <2>1, <1>1, <1>2, <1>8, <3>1 DEF Lost
  <2>3. p \in LiveS(t) /\ next[t] = NextS(t)[p]
    BY <1>0, <1>1, <2>2 DEF Knows, SearchKnows, Fine, Follows, Reading, NextRead
  <2>4. ~writeSet[t][p].deleted BY <2>3 DEF LiveS
  <2>5. LiveS(t)' = LiveS(t) \cup {n}
    <3>1. LiveC \cup indexAdd[t] \subseteq AllNodes BY <1>0, PublicAllocated
    <3>2. LiveC' = LiveC BY <1>1 DEF SameList, SameLinks, LiveC
    <3>3. \A m \in AllNodes : writeSet'[t][m].deleted <=> writeSet[t][m].deleted
      BY <1>4, <1>7, <2>4
    <3>4. ~writeSet'[t][n].deleted BY <1>6, <1>9, <3>3
    <3> QED BY <1>6, <1>7, <3>1, <3>2, <3>3, <3>4 DEF LiveS
  <2>6. LiveS(t) \subseteq allocated /\ allocated \subseteq AllNodes /\ Null \notin allocated
    BY <1>0, PublicAllocated
  <2>7. NextS(t)'[n] = next[t]
    <3>1. ~Written(n)'
      <4>1. SUFFICES ASSUME NEW u \in Threads, Writing(u, n)' PROVE FALSE BY DEF Written
      <4>2. u # t BY <4>1, <1>1 DEF Writing
      <4>3. Writing(u, n)
        <5>1. OthersSame(t) BY <1>0, OpStepOthers
        <5> QED BY <4>1, <4>2, <5>1 DEF OthersSame, Writing
      <4> QED BY <4>3, <1>3, WritingLocked
    <3>2. NextC'[n] = m_next'[n] BY <1>6, <3>1 DEF NextC
    <3> QED BY <1>6, <1>7, <1>9, <3>2 DEF NextS
  <2>8. NextS(t)'[p] = n BY <1>2, <1>4, <1>7 DEF NextS
  <2>9. \A m \in LiveS(t) \ {p} : NextS(t)'[m] = NextS(t)[m]
    BY <1>1, <1>7, <2>6 DEF NextS, SameList, SameLinks
  <2>10. Chain(LiveS(t), NextS(t)) BY <1>0, <1>1, <2>2 DEF Knows, View
  <2>11. Chain(LiveS(t) \cup {n}, NextS(t)')
    <3>1. n \notin LiveS(t) /\ Null \notin LiveS(t) BY <1>3, <2>6
    <3> QED BY <1>6, <2>3, <2>7, <2>8, <2>9, <2>10, <3>1, ChainInsert
  <2>12. \A m \in indexRemove[t] : writeSet[t][m].deleted /\ m \in AllNodes
    BY <1>0, <1>1, <2>2, LocalFunctions DEF Knows, IndexKnows
  <2>13. \A m \in indexRemove'[t] : writeSet'[t][m].deleted
    BY <1>5, <1>7, <2>4, <2>12
  <2> QED BY <2>5, <2>11, <2>13 DEF Chain
<1>11. \A m \in WriteNodes(t)' : Holds(t, m)' /\ Holds(t, writeSet[t][m].next)'
  <2>1. Holds(t, n)' BY <1>7 DEF Holds
  <2>2. ASSUME NEW m \in WriteNodes(t)', m # p PROVE Holds(t, m) /\ Holds(t, writeSet'[t][m].next)
    BY <2>2, <1>0, <1>7, <1>8 DEF Knows, Holdings, WriteNodes
  <2> QED BY <2>1, <2>2, <1>1, <1>2, <1>4, <1>7
<1>12. \A m \in indexAdd'[t] : Holds(t, m_next[m])'
  <2>1. ASSUME NEW m \in indexAdd[t] PROVE Holds(t, m_next'[m])
    BY <1>0, <1>1, PublicAllocated DEF Knows, Holdings
  <2> QED BY <2>1, <1>1, <1>2, <1>7
<1>13. /\ \A m \in AllNodes : writeSet'[t][m].deleted => writeSet'[t][m].in
       /\ WriteNodes(t)' \subseteq readSet'[t]
  BY <1>0, <1>4, <1>7, <1>8 DEF Knows, Resets
<1>14. indexAdd'[t] \subseteq indexAdd[t] \cup (AllNodes \ allocated) BY <1>3, <1>6, <1>7
<1> QED BY <1>1, <1>10, <1>11, <1>12, <1>13, <1>14, WriteReturnKnows

(* remove takes a node out of the view.                                    *)
LEMMA RemoveFinishKnows ==
  ASSUME Base, Base', ListInv, NEW t \in Threads, OpStep(t), RemoveFinish(t)
  PROVE  Knows(t)' /\ indexAdd'[t] \subseteq indexAdd[t]
<1>0. TypeInv /\ Fresh /\ Knows(t) /\ PublicLinks /\ Chain(LiveC, NextC) BY DEF Base, ListInv
<1> DEFINE p == prev[t]
           v == pred[t]
           s == next[t]
           e == WriteElement(s, getVal(t, p), FALSE)
           d == WriteElement(Null, getVal(t, v), TRUE)
<1>1. /\ SameList /\ ~Committed(t) /\ ~Committed(t)'
      /\ \A n \in allocated : m_next'[n] = m_next[n]
      /\ pc[t] = "cmp" /\ ~abort'[t] /\ ~readOnly'[t]
      /\ pc'[t] \in {"lock", "call"}
      /\ pred'[t] = head /\ next'[t] = Null /\ prev'[t] = Null
      /\ \A n \in AllNodes : Doomed(t, n)' <=> Doomed(t, n)
      /\ \A n : Holds(t, n) => Holds(t, n)'
  BY WriteStart
<1>2. /\ p \in allocated /\ p \in AllNodes /\ Holds(t, p) /\ p # Null
      /\ v \in allocated /\ v \in AllNodes /\ Holds(t, v) /\ Holds(t, s)
  BY <1>0, <1>1, Refs DEF RemoveFinish, Knows, Holdings, AtNode
<1>3. p # v
  <2>1. Ascending(p, v) /\ v # Null BY <1>2, Refs DEF Base, OrderInv, SearchOrdered
  <2>2. m_key[p] \in Nat BY <1>0, <1>2 DEF TypeInv, MemoryTypeOK, LNodeTypeOK
  <2> QED BY <2>1, <2>2 DEF Ascending, Before
<1>4. /\ e.in = TRUE /\ e.next = s /\ e.deleted = FALSE
      /\ d.in = TRUE /\ d.next = Null /\ d.deleted = TRUE
  BY DEF WriteElement
<1>5. /\ writeSet' = [writeSet EXCEPT ![t][p] = e, ![t][v] = d]
      /\ readSet' = [readSet EXCEPT ![t] = @ \cup {v}]
      /\ indexRemove' = [indexRemove EXCEPT ![t] = @ \cup {v}]
      /\ indexAdd' = indexAdd
  BY DEF RemoveFinish
<1> HIDE DEF e, d
<1>6. /\ writeSet'[t][p] = e /\ writeSet'[t][v] = d
      /\ \A m \in AllNodes \ {p, v} : writeSet'[t][m] = writeSet[t][m]
      /\ readSet'[t] = readSet[t] \cup {v}
      /\ indexRemove'[t] = indexRemove[t] \cup {v}
  <2>1. /\ writeSet \in [Threads -> [AllNodes -> Element]] /\ readSet \in [Threads -> SUBSET AllNodes]
        /\ indexRemove \in [Threads -> SUBSET AllNodes]
    BY <1>0, LocalFunctions
  <2>2. /\ writeSet'[t][p] = e /\ writeSet'[t][v] = d
        /\ \A m \in AllNodes \ {p, v} : writeSet'[t][m] = writeSet[t][m]
    BY <1>2, <1>3, <1>5, <2>1
  <2>3. readSet'[t] = readSet[t] \cup {v} BY <1>5, <2>1
  <2>4. indexRemove'[t] = indexRemove[t] \cup {v} BY <1>5, <2>1
  <2> QED BY <2>2, <2>3, <2>4
<1>7. WriteNodes(t)' = WriteNodes(t) \cup {p, v}
  BY <1>2, <1>4, <1>6 DEF WriteNodes
<1>8. Lost(t)' \/ (Chain(LiveS(t), NextS(t))' /\ \A m \in indexRemove'[t] : writeSet'[t][m].deleted)
  <2>1. SUFFICES ASSUME ~Lost(t)'
                 PROVE  Chain(LiveS(t), NextS(t))' /\ \A m \in indexRemove'[t] : writeSet'[t][m].deleted
    OBVIOUS
  <2>2. ~Doomed(t, p) /\ ~Doomed(t, v) /\ ~Lost(t)
    <3>1. WriteNodes(t) \subseteq AllNodes BY DEF WriteNodes
    <3> QED BY <2>1, <1>1, <1>2, <1>7, <3>1 DEF Lost
  <2>3. /\ p \in LiveS(t) /\ v = NextS(t)[p]
        /\ v \in LiveS(t) /\ s = NextS(t)[v]
    BY <1>0, <1>1, <1>2, <2>2 DEF Knows, SearchKnows, Fine, Follows, Reading, NextRead
  <2>4. ~writeSet[t][p].deleted BY <2>3 DEF LiveS
  <2>5. LiveS(t)' = LiveS(t) \ {v}
    <3>1. LiveC \cup indexAdd[t] \subseteq AllNodes BY <1>0, PublicAllocated
    <3>2. LiveC' = LiveC BY <1>1 DEF SameList, SameLinks, LiveC
    <3>3. \A m \in AllNodes \ {v} : writeSet'[t][m].deleted <=> writeSet[t][m].deleted
      BY <1>4, <1>6, <2>4
    <3> QED BY <1>2, <1>4, <1>5, <1>6, <3>1, <3>2, <3>3 DEF LiveS
  <2>6. LiveS(t) \subseteq allocated /\ allocated \subseteq AllNodes /\ Null \notin allocated
    BY <1>0, PublicAllocated
  <2>7. NextS(t)'[p] = NextS(t)[v] BY <1>2, <1>4, <1>6, <2>3 DEF NextS
  <2>8. \A m \in LiveS(t) \ {p, v} : NextS(t)'[m] = NextS(t)[m]
    BY <1>1, <1>6, <2>6 DEF NextS, SameList, SameLinks
  <2>9. Chain(LiveS(t), NextS(t)) BY <1>0, <1>1, <2>2 DEF Knows, View
  <2>10. Chain(LiveS(t) \ {v}, NextS(t)')
    <3>1. Null \notin LiveS(t) BY <2>6
    <3> QED BY <1>3, <2>3, <2>7, <2>8, <2>9, <3>1, ChainRemove
  <2>11. \A m \in indexRemove[t] : writeSet[t][m].deleted /\ m \in AllNodes
    BY <1>0, <1>1, <2>2, LocalFunctions DEF Knows, IndexKnows
  <2>12. \A m \in indexRemove'[t] : writeSet'[t][m].deleted
    BY <1>4, <1>6, <2>4, <2>11
  <2> QED BY <2>5, <2>10, <2>12 DEF Chain
<1>9. \A m \in WriteNodes(t)' : Holds(t, m)' /\ Holds(t, writeSet[t][m].next)'
  <2>1. Holds(t, Null) BY DEF Holds
  <2>2. ASSUME NEW m \in WriteNodes(t)', m # p, m # v
        PROVE  Holds(t, m) /\ Holds(t, writeSet'[t][m].next)
    BY <2>2, <1>0, <1>6, <1>7 DEF Knows, Holdings, WriteNodes
  <2> QED BY <2>1, <2>2, <1>1, <1>2, <1>4, <1>6
<1>10. \A m \in indexAdd'[t] : Holds(t, m_next[m])'
  <2>1. ASSUME NEW m \in indexAdd[t] PROVE Holds(t, m_next'[m])
    BY <1>0, <1>1, PublicAllocated DEF Knows, Holdings
  <2> QED BY <2>1, <1>1, <1>5
<1>11. /\ \A m \in AllNodes : writeSet'[t][m].deleted => writeSet'[t][m].in
       /\ WriteNodes(t)' \subseteq readSet'[t]
  <2>1. p \in readSet[t] BY <1>0, <1>2 DEF Knows, Resets
  <2> QED BY <1>0, <1>4, <1>6, <1>7, <2>1 DEF Knows, Resets
<1> QED BY <1>1, <1>5, <1>8, <1>9, <1>10, <1>11, WriteReturnKnows

(* A step of an operation keeps the invariant.                             *)
LEMMA OpStepKeeps ==
  ASSUME Base, Base', ListInv, NEW t \in Threads, OpStep(t), NoBlindPut
  PROVE  /\ ListInv' /\ LiveC' = LiveC
         /\ indexAdd'[t] \subseteq indexAdd[t] \cup (AllNodes \ allocated)
<1>0. TypeInv /\ Fresh /\ Knows(t) /\ PublicLinks /\ Chain(LiveC, NextC) BY DEF Base, ListInv
<1>1. /\ SameList
      /\ \A n \in allocated : m_next'[n] = m_next[n]
  BY <1>0, OpStepList
<1>2. Knows(t)' /\ indexAdd'[t] \subseteq indexAdd[t] \cup (AllNodes \ allocated)
  <2>1. CASE TXbegin(t) \/ AbortOp(t) BY <2>1, BeginAbortKnows
  <2>2. CASE ~AbortOp(t) /\ ( \/ Call(t) \/ SearchPred(t) \/ CheckVersion(t) \/ CheckSingleton(t)
                              \/ SkipDeleted(t) \/ ReadNext(t) \/ Advance(t) )
    BY <2>2, SearchKnowsStep
  <2>3. CASE PutFound(t) BY <2>3, PutFoundKnows
  <2>4. CASE PutNew(t) BY <2>4, PutNewKnows
  <2>5. CASE Get(t) \/ RemoveAbsent(t) \/ RemoveFound(t) BY <2>5, ReadKnows
  <2>6. CASE RemoveFinish(t) BY <2>6, RemoveFinishKnows
  <2> QED BY <2>1, <2>2, <2>3, <2>4, <2>5, <2>6 DEF OpStep, IncrementAndAbort
<1>3. Fresh' BY <1>0, <1>2, OpStepFresh
<1>4. PublicLinks'
  BY <1>0, <1>1, PublicAllocated DEF PublicLinks, SameList
<1>5. ASSUME NEW u \in Threads \ {t} PROVE Knows(u)'
  <2>1. OthersSame(t) /\ index' = index BY <1>0, OpStepOthers, OpStepIndex
  <2> QED BY <1>0, <1>1, <2>1, OthersKnow DEF ListInv
<1>6. Chain(LiveC, NextC)' BY <1>0, <1>1, ListKept
<1>7. LiveC' = LiveC BY <1>1 DEF LiveC, SameList, SameLinks
<1> QED BY <1>2, <1>3, <1>4, <1>5, <1>6, <1>7 DEF ListInv

-----------------------------------------------------------------------------
(* TXend: the steps that leave the committed list as it is *)

(* What is left to show of such a step.                                    *)
LEMMA EndKeeps ==
  ASSUME Base, Base', ListInv, NEW t \in Threads, EndStep(t), SameLinks, Public' = Public, Knows(t)',
         index \subseteq index' \cup DeadC, index' \subseteq index \cup indexAdd[t],
         indexAdd'[t] \subseteq indexAdd[t],
         ~Committed(t)' => indexAdd'[t] = {} \/ (~Committed(t) /\ index' \subseteq index),
         \A n \in allocated : \/ m_next'[n] = m_next[n]
                              \/ Writing(t, n) /\ m_next'[n] = writeSet[t][n].next,
         allocated' = allocated,
         \A n \in AllNodes \ allocated : m_version_mask'[n].del = m_version_mask[n].del
  PROVE  ListInv' /\ LiveC' = LiveC
<1>0. TypeInv /\ Fresh /\ Knows(t) /\ PublicLinks /\ Chain(LiveC, NextC) /\ SameList
  BY DEF Base, ListInv, SameList
<1>1. OthersSame(t) BY <1>0, EndStepOthers
<1>2. \A u \in Threads \ {t} : indexAdd'[u] = indexAdd[u] /\ (Committed(u)' <=> Committed(u))
  BY <1>1 DEF OthersSame, Committed
<1>3. Fresh'
  <2>1. (\A n \in AllNodes \ allocated : ~isDeleted(n))' BY <1>0 DEF Fresh, isDeleted
  <2>2. (\A v, u \in Threads : v # u => indexAdd[v] \cap indexAdd[u] = {})'
    BY <1>0, <1>2 DEF Fresh
  <2>3. (\A u \in Threads : ~Committed(u) => indexAdd[u] \cap (index \cup DeadC) = {})'
    BY <1>0, <1>2 DEF Fresh, SameLinks
  <2> QED BY <2>1, <2>2, <2>3 DEF Fresh
<1>4. PublicLinks'
  <2>1. Public \subseteq allocated BY <1>0, PublicAllocated
  <2>2. ASSUME NEW n \in Public, Writing(t, n) PROVE writeSet[t][n].next \in Public \cup {Null}
    <3>1. Committed(t) /\ n \in WriteNodes(t) BY <2>2, WritingLocked
    <3>2. indexAdd[t] \subseteq Public
      BY <1>0, <3>1, PublicAllocated DEF Public, Added
    <3> QED BY <1>0, <3>1, <3>2 DEF Knows, Holdings, Holds
  <2> QED BY <1>0, <2>1, <2>2 DEF PublicLinks
<1>5. ASSUME NEW u \in Threads \ {t} PROVE Knows(u)'
  BY <1>0, <1>1, OthersKnow DEF ListInv
<1>6. Chain(LiveC, NextC)' BY <1>0, ListKept
<1>7. LiveC' = LiveC BY DEF LiveC, SameLinks
<1> QED BY <1>0, <1>3, <1>4, <1>5, <1>6, <1>7 DEF ListInv

(* A thread in TXend keeps its storage until the end.                      *)
LEMMA EndKnows ==
  ASSUME Base, Base', ListInv, SameList, NEW t \in Threads, pc[t] \in EndLabels, pc'[t] \in EndLabels,
         writeSet'[t] = writeSet[t], readSet'[t] = readSet[t], indexAdd'[t] = indexAdd[t],
         indexRemove'[t] = indexRemove[t], readVersion'[t] = readVersion[t],
         readOnly'[t] = readOnly[t], next'[t] = next[t], prev'[t] = prev[t],
         pc'[t] \notin AtNode \cup {"stamp"} => pred'[t] = head,
         pc'[t] = "stamp" => pred'[t] \in WriteNodes(t),
         abort'[t] => pc'[t] = "release",
         Committed(t) => Committed(t)',
         Committed(t)' /\ ~Committed(t) => indexRemove[t] = {},
         ~Committed(t)' => \A n \in indexAdd[t] : m_next'[n] = m_next[n],
         pc'[t] = "idxAdd" => /\ todo'[t] \subseteq indexAdd[t]
                              /\ indexAdd[t] \subseteq todo'[t] \cup index' \cup DeadC,
         pc'[t] = "idxRemove" => /\ todo'[t] \subseteq indexRemove[t]
                                 /\ indexAdd[t] \subseteq index' \cup DeadC,
         Validated(t)'
  PROVE  Knows(t)'
<1>0. TypeInv /\ Fresh /\ Knows(t) /\ Chain(LiveC, NextC) BY DEF Base, ListInv
<1>1. /\ pc[t] \notin PredFound \cup {"search", "bump", "idle"} /\ pc'[t] \notin PredFound \cup {"search", "bump", "idle"}
      /\ pc[t] \notin NextRead /\ pc'[t] \notin NextRead
  BY DEF EndLabels, Validating, PredFound, NextRead
<1>2. next[t] = Null /\ prev[t] = Null
  <2>1. next[t] = Null BY <1>0, <1>1 DEF Knows, Resets
  <2>2. prev[t] = Null BY <1>0, <1>1 DEF Base, OrderInv, SearchOrdered, PredFound
  <2> QED BY <2>1, <2>2
<1>3. WriteNodes(t)' = WriteNodes(t) /\ WriteNodes(t) \subseteq AllNodes BY DEF WriteNodes
<1>4. Resets(t)' BY <1>0, <1>1, <1>2, <1>3 DEF Knows, Resets
<1>5. DeadC' = DeadC /\ Public' = Public BY DEF SameList, SameLinks
<1>6. \A n : Holds(t, n) => Holds(t, n)' BY <1>5 DEF Holds
<1>7. Holdings(t)'
  <2>1. head \in Public BY <1>0 DEF Chain, LiveC
  <2>2. (pc[t] \notin AtNode => Holds(t, pred[t]))' BY <1>0, <1>6, <2>1 DEF Knows, Holdings, Holds
  <2>3. Holds(t, next[t])' /\ Holds(t, prev[t])' BY <1>2 DEF Holds
  <2>4. (\A n \in WriteNodes(t) : Holds(t, n) /\ Holds(t, writeSet[t][n].next))'
    BY <1>0, <1>3, <1>6 DEF Knows, Holdings
  <2>5. (~Committed(t) => \A n \in indexAdd[t] : Holds(t, m_next[n]))'
    BY <1>0, <1>6 DEF Knows, Holdings
  <2> QED BY <2>2, <2>3, <2>4, <2>5 DEF Holdings
<1>8. IndexKnows(t)'
  <2>1. Lost(t)' <=> Lost(t) BY <1>0, ViewKept
  <2> QED BY <1>0, <1>5, <2>1 DEF Knows, IndexKnows
<1>9. SearchKnows(t)' BY <1>1, <1>2 DEF SearchKnows, Reading, PredFound
<1>10. View(t)' BY <1>0, ViewKept DEF Knows, View
<1> QED BY <1>4, <1>7, <1>8, <1>9, <1>10 DEF Knows

(* The publication of t's nodes depends on whether it has committed.       *)
LEMMA AddedKept ==
  ASSUME NEW t \in Threads, OthersSame(t), indexAdd'[t] = indexAdd[t],
         (Committed(t)' <=> Committed(t)) \/ indexAdd[t] = {}
  PROVE  Added' = Added
<1>1. \A u \in Threads \ {t} : indexAdd'[u] = indexAdd[u] /\ (Committed(u)' <=> Committed(u))
  BY DEF OthersSame, Committed
<1> QED BY <1>1 DEF Added

(* The steps of TXend that change locks and control only.                  *)
LEMMA QuietStep ==
  ASSUME Base, Base', ListInv, NEW t \in Threads, EndStep(t),
         UNCHANGED <<nodeVars, index, task, next, prev, storeVars, versVars>>,
         \/ pc[t] \notin AtNode /\ UNCHANGED pred
         \/ pc'[t] \in AtNode
         \/ pred'[t] = head,
         \A n \in AllNodes : /\ m_version_mask'[n].ver = m_version_mask[n].ver
                             /\ m_version_mask'[n].del = m_version_mask[n].del,
         pc[t] \in EndLabels, pc'[t] \in EndLabels, pc[t] # "stamp", pc'[t] \notin {"stamp", "idxRemove"},
         \A n \in AllNodes : ~Writing(t, n) /\ ~Writing(t, n)',
         abort'[t] => pc'[t] = "release",
         (Committed(t)' <=> Committed(t)) \/ (readOnly[t] /\ Committed(t)'),
         pc'[t] = "idxAdd" => todo'[t] = indexAdd[t],
         pc'[t] \in {"validate"} \cup AtNode => \A n \in WriteNodes(t) \ todo'[t] : ~Doomed(t, n)
  PROVE  ListInv' /\ LiveC' = LiveC
<1>0. TypeInv /\ Fresh /\ Knows(t) /\ PublicLinks /\ Chain(LiveC, NextC) BY DEF Base, ListInv
<1>1. OthersSame(t) BY <1>0, EndStepOthers
<1>2. /\ m_next' = m_next /\ allocated' = allocated /\ index' = index
      /\ next' = next /\ prev' = prev
      /\ readSet' = readSet /\ writeSet' = writeSet
      /\ indexAdd' = indexAdd /\ indexRemove' = indexRemove
      /\ readVersion' = readVersion /\ writeVersion' = writeVersion /\ readOnly' = readOnly
  BY DEF nodeVars, storeVars, versVars
<1>3. SameLinks BY <1>1, <1>2, LinksKept
<1>4. readOnly[t] => indexAdd[t] = {} /\ indexRemove[t] = {} BY <1>0 DEF Knows, Resets
<1>5. Added' = Added BY <1>1, <1>2, <1>4, AddedKept
<1>6. Public' = Public BY <1>2, <1>3, <1>5 DEF Public, SameLinks
<1>7. SameList BY <1>3, <1>6 DEF SameList
<1>8. pc'[t] \notin AtNode => pred'[t] = head
  BY <1>0 DEF Knows, Resets, EndLabels, Validating, AtNode, PredFound, NextRead
<1>9. Validated(t)'
  <2>1. WriteNodes(t)' = WriteNodes(t) /\ WriteNodes(t) \subseteq AllNodes BY <1>2 DEF WriteNodes
  <2>2. \A n \in AllNodes : Doomed(t, n)' <=> Doomed(t, n) BY <1>2, <1>3 DEF SameLinks
  <2> QED BY <2>1, <2>2 DEF Validated
<1>10. Knows(t)' BY <1>2, <1>4, <1>7, <1>8, <1>9, EndKnows
<1> QED BY <1>2, <1>3, <1>6, <1>10, EndKeeps

(* A node that passes validation is not going to be newer.                 *)
LEMMA NotStale ==
  ASSUME Base, NEW t \in Threads, pc[t] = "validate", NEW n \in AllNodes, ~Stale(t, n)
  PROVE  ~Doomed(t, n)
<1>1. \A u \in Threads : ~Writing(u, n)
  <2>1. ASSUME NEW u \in Threads, Writing(u, n) PROVE FALSE
    <3>1. n \in lockedLNodes[u] /\ isLocked(n) BY <2>1, WritingLocked
    <3>2. n \in lockedLNodes[t] BY <3>1 DEF Stale
    <3>3. u = t BY <3>1, <3>2 DEF Base, LockInv, LockOwnership
    <3> QED BY <2>1, <3>3 DEF Writing
  <2> QED BY <2>1
<1> QED BY <1>1 DEF Stale, Doomed

(* Locking, validation, release and the start of the index update.         *)
LEMMA QuietEnd ==
  ASSUME Base, Base', ListInv, NEW t \in Threads, EndStep(t),
         \/ LockNode(t) \/ LockedAll(t) \/ ValidateStep(t) \/ setSingletonLoad(t)
         \/ setSingletonStore(t) \/ ValidatedReadOnly(t) \/ WroteAll(t) \/ ReleaseNode(t)
         \/ UpdateIndex(t)
  PROVE  ListInv' /\ LiveC' = LiveC
<1>0. TypeInv /\ Knows(t) /\ m_version_mask \in [AllNodes -> Word]
  BY DEF Base, ListInv, TypeInv, MemoryTypeOK, LNodeTypeOK
<1>1. /\ pc = [u \in Threads |-> pc[u]] /\ todo \in [Threads -> SUBSET AllNodes]
      /\ abort \in [Threads -> BOOLEAN] /\ WriteNodes(t) \subseteq AllNodes
  BY <1>0, LocalFunctions DEF WriteNodes
<1>2. abort[t] => pc[t] = "release" BY <1>0 DEF Knows, Resets
<1> USE DEF Goto, lnodeVars
<1>3. CASE LockNode(t)
  <2>1. PICK n \in WriteNodes(t) \ lockedLNodes[t] :
          IF isLocked(n)
          THEN /\ abort' = [abort EXCEPT ![t] = TRUE]
               /\ pc' = [pc EXCEPT ![t] = "release"]
               /\ m_version_mask' = m_version_mask
          ELSE /\ m_version_mask' = [m_version_mask EXCEPT ![n].lock = TRUE]
               /\ pc' = pc /\ abort' = abort
    BY <1>3 DEF LockNode, tryLock
  <2>2. \A m \in AllNodes : /\ m_version_mask'[m].ver = m_version_mask[m].ver
                            /\ m_version_mask'[m].del = m_version_mask[m].del
    BY <1>0, <1>1, <2>1 DEF Word
  <2>3. /\ pc[t] = "lock"
        /\ \/ pc'[t] = "lock" /\ abort'[t] = abort[t]
           \/ pc'[t] = "release" /\ abort'[t]
        /\ UNCHANGED <<nodeVars, index, opVars, storeVars, versVars>>
    BY <1>1, <1>3, <2>1 DEF LockNode
  <2> QED BY <1>2, <2>2, <2>3, QuietStep DEF Writing, Committed, EndLabels, AtNode, opVars
<1>4. CASE LockedAll(t)
  <2>1. /\ pc[t] = "lock" /\ pc'[t] = "validate" /\ abort' = abort /\ todo'[t] = readSet[t]
        /\ m_version_mask' = m_version_mask
        /\ UNCHANGED <<nodeVars, index, opVars, storeVars, versVars>>
    BY <1>1, <1>4 DEF LockedAll
  <2>2. WriteNodes(t) \subseteq readSet[t] BY <1>0 DEF Knows, Resets
  <2> QED BY <1>2, <2>1, <2>2, QuietStep DEF Writing, Committed, EndLabels, AtNode, opVars, Validating
<1>5. CASE Validate(t)
  <2>1. PICK n \in todo[t] :
          \/ /\ abort' = [abort EXCEPT ![t] = TRUE]
             /\ pc' = [pc EXCEPT ![t] = "release"]
             /\ UNCHANGED pred
          \/ /\ ~Stale(t, n)
             /\ todo' = [todo EXCEPT ![t] = @ \ {n}]
             /\ pc' = [pc EXCEPT ![t] = "verVal"]
             /\ UNCHANGED abort
    BY <1>5 DEF Validate
  <2>2. n \in AllNodes BY <1>1, <2>1
  <2>4. /\ pc[t] = "validate" /\ m_version_mask' = m_version_mask
        /\ UNCHANGED <<nodeVars, index, task, next, prev, storeVars, versVars>>
    BY <1>5 DEF Validate
  <2>5. \/ pc'[t] = "release" /\ abort'[t] /\ UNCHANGED pred
        \/ pc'[t] = "verVal" /\ abort' = abort /\ ~Stale(t, n) /\ todo'[t] = todo[t] \ {n}
    BY <1>1, <2>1, <2>4
  <2>6. pc'[t] = "verVal" => \A m \in WriteNodes(t) \ todo'[t] : ~Doomed(t, m)
    <3>1. SUFFICES ASSUME pc'[t] = "verVal", NEW m \in WriteNodes(t) \ todo'[t]
                   PROVE  ~Doomed(t, m)
      OBVIOUS
    <3>2. CASE m = n BY <2>2, <2>4, <2>5, <3>1, <3>2, NotStale
    <3>3. CASE m # n BY <1>0, <2>4, <2>5, <3>1, <3>3 DEF Knows, Validated
    <3> QED BY <3>2, <3>3
  <2> QED BY <1>2, <2>4, <2>5, <2>6, QuietStep DEF Writing, Committed, EndLabels, Validating, AtNode
<1>5a. CASE ValidateVersion(t) \/ ValidateSingleton(t)
  <2>1. pred \in [Threads -> AllNodes]
    BY <1>0 DEF TypeInv, MemoryTypeOK, LocalsTypeOK, OpTypeOK
  <2>2. /\ pc[t] \in AtNode /\ m_version_mask' = m_version_mask /\ abort' = abort /\ todo' = todo
        /\ UNCHANGED <<nodeVars, index, task, next, prev, storeVars, versVars>>
    BY <1>5a DEF ValidateVersion, ValidateSingleton, endVars, AtNode
  <2>3. pc'[t] \in AtNode \/ (pc'[t] = "validate" /\ pred'[t] = head)
    <3>1. pc'[t] # "bumpVal" BY DEF Base, LockInv, NoSingletons
    <3> QED BY <1>1, <1>5a, <2>1, <3>1 DEF ValidateVersion, ValidateSingleton, AtNode
  <2>4. \A n \in WriteNodes(t) \ todo'[t] : ~Doomed(t, n)
    BY <1>0, <2>2 DEF Knows, Validated
  <2> QED BY <1>2, <2>2, <2>3, <2>4, QuietStep DEF Writing, Committed, EndLabels, Validating, AtNode
<1>5b. CASE IncrementAndClear(t)
  BY <1>5b DEF IncrementAndClear, Base, LockInv, NoSingletons
<1>6. CASE setSingletonLoad(t) \/ setSingletonStore(t)
  BY <1>6 DEF setSingletonLoad, setSingletonStore, Base, LockInv, NoSingletons
<1>7. CASE ValidatedReadOnly(t)
  <2>1. /\ pc[t] = "validate" /\ pc'[t] = "release" /\ abort' = abort /\ readOnly[t]
        /\ m_version_mask' = m_version_mask
        /\ UNCHANGED <<nodeVars, index, opVars, storeVars, versVars>>
    BY <1>1, <1>7 DEF ValidatedReadOnly, endVars
  <2> QED BY <1>2, <2>1, QuietStep DEF Writing, Committed, EndLabels, AtNode, opVars, Validating
<1>8. CASE WroteAll(t)
  <2>1. /\ pc[t] = "write" /\ todo[t] = {} /\ pc'[t] = "release" /\ abort' = abort
        /\ m_version_mask' = m_version_mask
        /\ UNCHANGED <<nodeVars, index, opVars, storeVars, versVars>>
    BY <1>1, <1>8 DEF WroteAll, endVars
  <2> QED BY <1>2, <2>1, QuietStep DEF Writing, Committed, EndLabels, AtNode, opVars
<1>9. CASE ReleaseNode(t)
  <2>1. PICK n \in lockedLNodes[t] : unlock(n) BY <1>9 DEF ReleaseNode
  <2>2. n \in AllNodes BY <1>0, <2>1, LocalFunctions
  <2>3. \A m \in AllNodes : /\ m_version_mask'[m].ver = m_version_mask[m].ver
                            /\ m_version_mask'[m].del = m_version_mask[m].del
    BY <1>0, <2>1, <2>2 DEF Word, unlock, StoreLocked
  <2>4. /\ pc[t] = "release" /\ pc' = pc /\ abort' = abort
        /\ UNCHANGED <<nodeVars, index, opVars, storeVars, versVars>>
    BY <1>9 DEF ReleaseNode
  <2> QED BY <1>2, <2>3, <2>4, QuietStep DEF Writing, Committed, EndLabels, AtNode, opVars
<1>10. CASE UpdateIndex(t)
  <2>1. /\ pc[t] = "release" /\ ~abort[t] /\ pc'[t] = "idxAdd" /\ abort' = abort
        /\ todo'[t] = indexAdd[t] /\ m_version_mask' = m_version_mask
        /\ UNCHANGED <<nodeVars, index, opVars, storeVars, versVars>>
    BY <1>1, <1>10 DEF UpdateIndex
  <2> QED BY <1>2, <2>1, QuietStep DEF Writing, Committed, EndLabels, AtNode, opVars
<1> QED BY <1>3, <1>4, <1>5, <1>5a, <1>5b, <1>6, <1>7, <1>8, <1>9, <1>10 DEF ValidateStep

(* The index is told of nodes that are public, and told to forget nodes    *)
(* that are deleted.                                                       *)
LEMMA IndexSteps ==
  ASSUME Base, Base', ListInv, NEW t \in Threads, EndStep(t), AddToIndex(t) \/ RemoveFromIndex(t)
  PROVE  ListInv' /\ LiveC' = LiveC
<1>0. TypeInv /\ Fresh /\ Knows(t) BY DEF Base, ListInv
<1>1. OthersSame(t) BY <1>0, EndStepOthers
<1>2. /\ m_next' = m_next /\ allocated' = allocated /\ m_version_mask' = m_version_mask
      /\ pred' = pred /\ next' = next /\ prev' = prev
      /\ readSet' = readSet /\ writeSet' = writeSet
      /\ indexAdd' = indexAdd /\ indexRemove' = indexRemove
      /\ readVersion' = readVersion /\ writeVersion' = writeVersion /\ readOnly' = readOnly
      /\ abort' = abort
  BY DEF AddToIndex, RemoveFromIndex, nodeVars, opVars, storeVars, versVars
<1>3. pc[t] \in {"idxAdd", "idxRemove"} /\ pc'[t] \in {"idxAdd", "idxRemove"}
  BY <1>0, LocalFunctions DEF AddToIndex, RemoveFromIndex, Goto
<1>4. /\ Committed(t) /\ Committed(t)' /\ \A n \in AllNodes : ~Writing(t, n) /\ ~Writing(t, n)'
  BY <1>3 DEF Committed, Writing
<1>5. SameLinks BY <1>1, <1>2, <1>4, LinksKept
<1>6. Added' = Added BY <1>1, <1>2, <1>4, AddedKept
<1>7. pred[t] = head /\ ~abort[t] BY <1>0, <1>3 DEF Knows, Resets, PredFound, NextRead, AtNode, Validating
<1>8. Validated(t)' BY <1>3 DEF Validated, AtNode, Validating
<1>9. indexAdd[t] \subseteq Added /\ indexRemove[t] \subseteq DeadC
  BY <1>0, <1>4, PublicAllocated DEF Added, Knows, IndexKnows
<1>10. todo \in [Threads -> SUBSET AllNodes] BY <1>0, LocalFunctions
<1>11. /\ index \subseteq index' \cup DeadC /\ index' \subseteq index \cup indexAdd[t]
       /\ pc'[t] = "idxAdd" => /\ todo'[t] \subseteq indexAdd[t]
                               /\ indexAdd[t] \subseteq todo'[t] \cup index' \cup DeadC
       /\ pc'[t] = "idxRemove" => /\ todo'[t] \subseteq indexRemove[t]
                                  /\ indexAdd[t] \subseteq index' \cup DeadC
  <2>1. CASE AddToIndex(t) /\ todo[t] = {}
    <3>1. pc[t] = "idxAdd" /\ pc'[t] = "idxRemove" /\ todo'[t] = indexRemove[t] /\ index' = index
      BY <1>0, <1>10, <2>1, LocalFunctions DEF AddToIndex, Goto
    <3> QED BY <1>0, <2>1, <3>1 DEF Knows, IndexKnows
  <2>2. CASE AddToIndex(t) /\ todo[t] # {}
    <3>1. PICK n \in todo[t] : index' = index \cup {n} /\ todo' = [todo EXCEPT ![t] = @ \ {n}]
      BY <2>2 DEF AddToIndex
    <3>2. pc[t] = "idxAdd" /\ pc'[t] = "idxAdd" /\ todo'[t] = todo[t] \ {n}
      BY <1>10, <2>2, <3>1 DEF AddToIndex
    <3>3. todo[t] \subseteq indexAdd[t] /\ indexAdd[t] \subseteq todo[t] \cup index \cup DeadC
      BY <1>0, <3>2 DEF Knows, IndexKnows
    <3> QED BY <3>1, <3>2, <3>3
  <2>3. CASE RemoveFromIndex(t)
    <3>1. PICK n \in todo[t] : index' = index \ {n} /\ todo' = [todo EXCEPT ![t] = @ \ {n}]
      BY <2>3 DEF RemoveFromIndex
    <3>2. pc[t] = "idxRemove" /\ pc'[t] = "idxRemove" /\ todo'[t] = todo[t] \ {n}
      BY <1>10, <2>3, <3>1 DEF RemoveFromIndex
    <3>3. todo[t] \subseteq indexRemove[t] /\ indexAdd[t] \subseteq index \cup DeadC
      BY <1>0, <3>2 DEF Knows, IndexKnows
    <3> QED BY <1>9, <3>1, <3>2, <3>3
  <2> QED BY <2>1, <2>2, <2>3
<1>12. Public' = Public
  BY <1>5, <1>6, <1>9, <1>11 DEF Public, SameLinks
<1>13. SameList BY <1>5, <1>12 DEF SameList
<1>14. Knows(t)'
  BY <1>2, <1>3, <1>4, <1>7, <1>8, <1>11, <1>13, EndKnows DEF EndLabels
<1> QED BY <1>2, <1>4, <1>5, <1>11, <1>12, <1>14, EndKeeps

(* The end of a transaction, after an abort or a commit.                   *)
LEMMA EndOfTx ==
  ASSUME Base, Base', ListInv, NEW t \in Threads, EndStep(t), AbortEnd(t) \/ Commit(t)
  PROVE  ListInv' /\ LiveC' = LiveC
<1>0. TypeInv /\ Fresh /\ Knows(t) /\ Chain(LiveC, NextC) BY DEF Base, ListInv
<1>1. OthersSame(t) BY <1>0, EndStepOthers
<1>2. /\ m_next' = m_next /\ allocated' = allocated /\ m_version_mask' = m_version_mask
      /\ index' = index /\ pred' = pred /\ next' = next /\ prev' = prev
  BY DEF AbortEnd, Commit, lnodeVars, nodeVars, opVars
<1>3. /\ pc[t] \in {"release", "idxRemove"} /\ pc'[t] = "idle" /\ ~abort'[t]
      /\ writeSet'[t] = EmptyWriteSet /\ indexAdd'[t] = {} /\ indexRemove'[t] = {}
      /\ Committed(t) => pc[t] = "idxRemove" /\ todo[t] = {}
  <2>1. CASE AbortEnd(t)
    BY <1>0, <2>1, LocalFunctions DEF AbortEnd, ClearStorage, Goto, Committed
  <2>2. CASE Commit(t)
    BY <1>0, <2>2, LocalFunctions DEF Commit, ClearStorage, Goto, endVars, Knows, Resets
  <2> QED BY <2>1, <2>2
<1>4. ~Committed(t)' /\ \A n \in AllNodes : ~Writing(t, n) /\ ~Writing(t, n)'
  BY <1>3 DEF Committed, Writing
<1>5. SameLinks BY <1>1, <1>2, <1>4, LinksKept
<1>6. Added' \cup index \cup DeadC = Added \cup index \cup DeadC
  <2>1. \A u \in Threads \ {t} : indexAdd'[u] = indexAdd[u] /\ (Committed(u)' <=> Committed(u))
    BY <1>1 DEF OthersSame, Committed
  <2>2. Committed(t) => indexAdd[t] \subseteq index \cup DeadC
    BY <1>0, <1>3 DEF Knows, IndexKnows
  <2> QED BY <1>4, <2>1, <2>2 DEF Added
<1>7. Public' = Public BY <1>2, <1>5, <1>6 DEF Public, SameLinks
<1>8. Chain(LiveC, NextC)' BY <1>0, <1>5, <1>7, ListKept DEF SameList
<1>9. Knows(t)'
  <2>1. pred'[t] = head /\ next'[t] = Null
    BY <1>0, <1>2, <1>3 DEF Knows, Resets, PredFound, NextRead, AtNode, Validating
  <2>2. prev'[t] = Null
    BY <1>2, <1>3 DEF Base, OrderInv, SearchOrdered, NextRead
  <2>3. \A n \in AllNodes : ~writeSet'[t][n].in /\ ~writeSet'[t][n].deleted
    BY <1>3 DEF EmptyWriteSet, NoElement
  <2> QED BY <1>3, <1>8, <2>1, <2>2, <2>3, ClearKnows
<1> QED BY <1>2, <1>3, <1>5, <1>7, <1>9, EndKeeps

(* The fields of a node are written: the committed list had them already.  *)
LEMMA WriteNodeKeeps ==
  ASSUME Base, Base', ListInv, NEW t \in Threads, EndStep(t), WriteNode(t)
  PROVE  ListInv' /\ LiveC' = LiveC
<1>0. TypeInv /\ Fresh /\ Knows(t) BY DEF Base, ListInv
<1>1. OthersSame(t) BY <1>0, EndStepOthers
<1>2. /\ allocated' = allocated /\ m_version_mask' = m_version_mask /\ index' = index
      /\ next' = next /\ prev' = prev
      /\ readSet' = readSet /\ writeSet' = writeSet
      /\ indexAdd' = indexAdd /\ indexRemove' = indexRemove
      /\ readVersion' = readVersion /\ writeVersion' = writeVersion /\ readOnly' = readOnly
      /\ abort' = abort
  BY DEF WriteNode, storeVars, versVars
<1>3. PICK n \in todo[t] :
        /\ m_next' = [m_next EXCEPT ![n] = writeSet[t][n].next]
        /\ todo' = [todo EXCEPT ![t] = @ \ {n}]
        /\ pred' = [pred EXCEPT ![t] = n]
  BY DEF WriteNode
<1>4. /\ pc[t] = "write" /\ pc'[t] = "stamp" /\ todo'[t] = todo[t] \ {n} /\ pred'[t] = n
      /\ n \in AllNodes
  BY <1>0, <1>3, LocalFunctions DEF WriteNode, Goto
<1>5. /\ m_next'[n] = writeSet[t][n].next
      /\ \A m \in AllNodes \ {n} : m_next'[m] = m_next[m]
  BY <1>0, <1>3, <1>4 DEF TypeInv, MemoryTypeOK, LNodeTypeOK
<1>6. /\ Writing(t, n) /\ Committed(t) /\ Committed(t)'
      /\ \A m \in AllNodes : Writing(t, m)' <=> Writing(t, m)
  BY <1>3, <1>4 DEF Writing, Committed
<1>7. n \in WriteNodes(t) /\ allocated \subseteq AllNodes
  BY <1>0, <1>6, WritingLocked, PublicAllocated
<1>8. SameLinks BY <1>1, <1>2, <1>5, <1>6, <1>7, LinksKept
<1>9. Public' = Public
  <2>1. Added' = Added BY <1>1, <1>2, <1>6, AddedKept
  <2> QED BY <1>2, <1>8, <2>1 DEF Public, SameLinks
<1>10. Validated(t)' BY <1>2, <1>4, <1>5 DEF Validated, AtNode, Validating
<1>11. ~abort[t] BY <1>0, <1>4 DEF Knows, Resets
<1>12. Knows(t)'
  BY <1>2, <1>4, <1>6, <1>7, <1>8, <1>9, <1>10, <1>11, EndKnows DEF EndLabels, SameList
<1> QED BY <1>2, <1>5, <1>6, <1>7, <1>8, <1>9, <1>12, EndKeeps

(* The word of a node is written: its version and its deletion are those   *)
(* the committed list had already.                                         *)
LEMMA StampNodeKeeps ==
  ASSUME Base, Base', ListInv, NEW t \in Threads, EndStep(t), StampNode(t)
  PROVE  ListInv' /\ LiveC' = LiveC
<1>0. TypeInv /\ Fresh /\ Knows(t) BY DEF Base, ListInv
<1>1. OthersSame(t) BY <1>0, EndStepOthers
<1>2. /\ allocated' = allocated /\ index' = index /\ m_next' = m_next
      /\ next' = next /\ prev' = prev
      /\ readSet' = readSet /\ writeSet' = writeSet
      /\ indexAdd' = indexAdd /\ indexRemove' = indexRemove
      /\ readVersion' = readVersion /\ writeVersion' = writeVersion /\ readOnly' = readOnly
      /\ abort' = abort /\ todo' = todo
  BY DEF StampNode, storeVars, versVars, endVars
<1>n. PICK n : n = pred[t] OBVIOUS
<1> DEFINE w == [m_version_mask[n] EXCEPT !.ver = writeVersion[t],
                                          !.del = @ \/ writeSet[t][n].deleted, !.sing = FALSE]
<1>3. /\ pc[t] = "stamp" /\ pc'[t] = "write" /\ pred'[t] = head
      /\ n \in AllNodes
  BY <1>0, <1>n, LocalFunctions DEF StampNode, Goto
<1>4. /\ Writing(t, n) /\ Committed(t) /\ Committed(t)'
      /\ \A m \in AllNodes : Writing(t, m) => m = n \/ Writing(t, m)'
      /\ \A m \in AllNodes : Writing(t, m)' => Writing(t, m)
  BY <1>n, <1>2, <1>3 DEF Writing, Committed
<1>5. n \in WriteNodes(t) /\ n \in lockedLNodes[t] /\ isLocked(n) /\ n \in allocated
  BY <1>4, WritingLocked
<1>6. m_version_mask' = [m_version_mask EXCEPT ![n] = w]
  BY <1>n, <1>5 DEF StampNode, StoreLocked
<1>7. /\ m_version_mask'[n].ver = writeVersion[t]
      /\ m_version_mask'[n].del <=> isDeleted(n) \/ writeSet[t][n].deleted
      /\ \A m \in AllNodes \ {n} : m_version_mask'[m] = m_version_mask[m]
  <2>1. m_version_mask \in [AllNodes -> Word] BY <1>0 DEF TypeInv, MemoryTypeOK, LNodeTypeOK
  <2>2. w.ver = writeVersion[t] /\ (w.del <=> isDeleted(n) \/ writeSet[t][n].deleted)
    BY <1>3, <2>1 DEF Word, isDeleted
  <2> HIDE DEF w
  <2> QED BY <1>3, <1>6, <2>1, <2>2
<1>8. \A u \in Threads \ {t} :
        /\ writeSet'[u] = writeSet[u] /\ writeVersion'[u] = writeVersion[u]
        /\ \A m \in AllNodes : Writing(u, m)' <=> Writing(u, m)
  BY <1>1 DEF OthersSame, Writing
<1>9. \A u \in Threads : \A m \in AllNodes \ {n} : Writing(u, m)' <=> Writing(u, m)
  BY <1>4, <1>8
<1>10. \A u \in Threads : (Writing(u, n) => u = t) /\ (Writing(u, n)' => u = t)
  BY <1>3, <1>4, <1>8, WriterOf
<1>11. DeadC' = DeadC
  <2>1. ASSUME NEW m \in AllNodes PROVE m \in DeadC' <=> m \in DeadC
    <3>1. CASE m = n BY <1>2, <1>4, <1>7, <1>10, <3>1 DEF DeadC, isDeleted
    <3>2. CASE m # n BY <1>2, <1>7, <1>9, <3>2 DEF DeadC, isDeleted
    <3> QED BY <3>1, <3>2
  <2> QED BY <2>1 DEF DeadC
<1>12. ASSUME NEW m \in allocated PROVE NextC'[m] = NextC[m]
  <2>1. m \in AllNodes BY <1>0, PublicAllocated
  <2>2. CASE m = n
    <3>1. NextC[n] = writeSet[t][n].next /\ m_next[n] = writeSet[t][n].next
      BY <1>n, <1>0, <1>3, <1>4, NextCOf DEF Knows, Validated
    <3>2. NextC'[n] = writeSet[t][n].next
      <4>1. CASE Written(n)'
        <5>1. (\E u \in Threads : Writing(u, n)') => Writer(n)' \in Threads /\ Writing(Writer(n), n)'
          BY DEF Writer
        <5>2. Writer(n)' = t BY <1>10, <4>1, <5>1 DEF Written
        <5> QED BY <1>2, <1>3, <4>1, <5>2 DEF NextC
      <4>2. CASE ~Written(n)' BY <1>2, <1>3, <3>1, <4>2 DEF NextC
      <4> QED BY <4>1, <4>2
    <3> QED BY <2>2, <3>1, <3>2
  <2>3. CASE m # n
    <3>1. Written(m)' <=> Written(m) BY <1>9, <2>1, <2>3 DEF Written
    <3>2. CASE Written(m)
      <4>1. PICK u \in Threads : Writing(u, m) BY <3>2 DEF Written
      <4>2. \A v \in Threads : Writing(v, m)' <=> v = u BY <1>9, <2>1, <2>3, <4>1, WriterOf
      <4>3. (\E v \in Threads : Writing(v, m)') => Writer(m)' \in Threads /\ Writing(Writer(m), m)'
        BY DEF Writer
      <4>4. Writer(m)' = u BY <4>2, <4>3
      <4>5. NextC[m] = writeSet[u][m].next BY <2>1, <4>1, NextCOf
      <4> QED BY <1>2, <2>1, <3>1, <3>2, <4>4, <4>5 DEF NextC
    <3>3. CASE ~Written(m) BY <1>2, <2>1, <3>1, <3>3 DEF NextC
    <3> QED BY <3>2, <3>3
  <2> QED BY <2>2, <2>3
<1>13. ASSUME NEW u \in Threads, NEW m \in AllNodes
       PROVE  (Doomed(u, m)' <=> Doomed(u, m)) /\ (Clean(u, m) => Clean(u, m)')
  <2>1. readVersion'[u] = readVersion[u] /\ writeVersion' = writeVersion BY <1>2
  <2>2. CASE m = n
    <3>1. getVersion(n) <= writeVersion[t] BY <1>3, <1>5 DEF Base, ClockInv, WriteVersionNew
    <3>2. getVersion(n) \in Nat /\ writeVersion[t] \in Nat /\ readVersion[u] \in Nat
      BY <1>0, <1>3, LocalFunctions DEF TypeInv, MemoryTypeOK, LNodeTypeOK, Word, getVersion
    <3>3. Doomed(u, n) <=> writeVersion[t] > readVersion[u]
      BY <1>4, <1>10, <3>1, <3>2 DEF Doomed
    <3>4. Doomed(u, n)' <=> writeVersion[t] > readVersion[u]
      BY <1>10, <1>7, <2>1 DEF Doomed, getVersion
    <3>5. Clean(u, n) => Clean(u, n)' BY <1>4, <1>10, <2>1 DEF Clean
    <3> QED BY <2>2, <3>3, <3>4, <3>5
  <2>3. CASE m # n
    BY <1>7, <1>9, <2>1, <2>3 DEF Doomed, Clean, getVersion
  <2> QED BY <2>2, <2>3
<1>14. SameLinks BY <1>11, <1>12, <1>13 DEF SameLinks
<1>15. Public' = Public
  <2>1. Added' = Added BY <1>1, <1>2, <1>4, AddedKept
  <2> QED BY <1>2, <1>14, <2>1 DEF Public, SameLinks
<1>16. Validated(t)' BY <1>3 DEF Validated, AtNode, Validating
<1>17. ~abort[t] BY <1>0, <1>3 DEF Knows, Resets
<1>18. Knows(t)'
  BY <1>2, <1>3, <1>4, <1>14, <1>15, <1>16, <1>17, EndKnows DEF EndLabels, SameList
<1>19. \A m \in AllNodes \ allocated : m_version_mask'[m].del = m_version_mask[m].del
  BY <1>5, <1>7
<1> QED BY <1>2, <1>4, <1>14, <1>15, <1>18, <1>19, EndKeeps

-----------------------------------------------------------------------------
(* TXend: the transaction takes its write version *)

(* The view of the transaction becomes the committed list.                 *)
LEMMA TakesEffect ==
  ASSUME Base, ListInv, NEW t \in Threads, TakeVersion(t)
  PROVE  /\ m_next' = m_next /\ m_version_mask' = m_version_mask
         /\ index' = index /\ allocated' = allocated
         /\ writeSet' = writeSet /\ indexAdd' = indexAdd
         /\ ~Committed(t) /\ Committed(t)' /\ ~Lost(t)
         /\ \A n \in WriteNodes(t) : \A u \in Threads : ~Writing(u, n)
         /\ \A u \in Threads : \A n \in AllNodes :
              Writing(u, n)' <=> Writing(u, n) \/ (u = t /\ n \in WriteNodes(t))
         /\ \A n \in AllNodes : NextC'[n] = NextS(t)[n]
         /\ DeadC' = DeadC \cup {n \in AllNodes : writeSet[t][n].deleted}
         /\ Public' = Public \cup indexAdd[t]
         /\ LiveC' = LiveS(t)
<1>0. TypeInv /\ Fresh /\ Knows(t) BY DEF Base, ListInv
<1>1. /\ m_next' = m_next /\ m_version_mask' = m_version_mask
      /\ index' = index /\ allocated' = allocated
      /\ writeSet' = writeSet /\ indexAdd' = indexAdd
  BY DEF TakeVersion, nodeVars, storeVars
<1>2. /\ pc[t] = "validate" /\ todo[t] = {} /\ pc'[t] = "write" /\ todo'[t] = WriteNodes(t)
  BY <1>0, LocalFunctions DEF TakeVersion, Goto
<1>3. ~Committed(t) /\ Committed(t)' BY <1>2 DEF Committed
<1>4. OthersSame(t) BY <1>0, EndStepOthers DEF EndStep
<1>5. ~Lost(t) BY <1>0, <1>2 DEF Lost, Knows, Validated
<1>6. ASSUME NEW n \in WriteNodes(t), NEW u \in Threads, Writing(u, n) PROVE FALSE
  <2>1. n \in lockedLNodes[t] BY <1>2 DEF Base, LockInv, WriteSetLocked, AtNode, Validating
  <2>2. n \in lockedLNodes[u] BY <1>6, WritingLocked
  <2>3. u = t BY <2>1, <2>2 DEF Base, LockInv, LockOwnership
  <2> QED BY <1>2, <1>6, <2>3 DEF Writing
<1>7. \A u \in Threads : \A n \in AllNodes :
        Writing(u, n)' <=> Writing(u, n) \/ (u = t /\ n \in WriteNodes(t))
  <2>1. \A n \in AllNodes : ~Writing(t, n) /\ (Writing(t, n)' <=> n \in WriteNodes(t))
    BY <1>2 DEF Writing
  <2>2. \A u \in Threads \ {t} : \A n \in AllNodes : Writing(u, n)' <=> Writing(u, n)
    BY <1>4 DEF OthersSame, Writing
  <2> QED BY <2>1, <2>2
<1>8. ASSUME NEW n \in AllNodes PROVE NextC'[n] = NextS(t)[n]
  <2>1. (\E u \in Threads : Writing(u, n)') => Writer(n)' \in Threads /\ Writing(Writer(n), n)'
    BY DEF Writer
  <2>2. CASE n \in WriteNodes(t)
    <3>1. Writing(t, n)' /\ \A u \in Threads : Writing(u, n)' => u = t BY <1>6, <1>7, <2>2
    <3>2. Writer(n)' = t /\ Written(n)' BY <2>1, <3>1 DEF Written
    <3> QED BY <1>1, <2>2, <3>2 DEF NextC, NextS, WriteNodes
  <2>3. CASE n \notin WriteNodes(t)
    <3>1. \A u \in Threads : Writing(u, n)' <=> Writing(u, n) BY <1>7, <2>3
    <3>2. Written(n)' <=> Written(n) BY <3>1 DEF Written
    <3>3. NextC'[n] = NextC[n]
      <4>1. CASE Written(n)
        <5>1. PICK u \in Threads : Writing(u, n) BY <4>1 DEF Written
        <5>2. \A v \in Threads : Writing(v, n)' => v = u BY <3>1, <5>1, WriterOf
        <5>3. Writer(n)' = u BY <2>1, <3>1, <5>1, <5>2
        <5>4. NextC[n] = writeSet[u][n].next BY <5>1, NextCOf
        <5> QED BY <1>1, <3>2, <4>1, <5>3, <5>4 DEF NextC
      <4>2. CASE ~Written(n) BY <1>1, <3>2, <4>2 DEF NextC
      <4> QED BY <4>1, <4>2
    <3> QED BY <2>3, <3>3 DEF NextS, WriteNodes
  <2> QED BY <2>2, <2>3
<1> DEFINE D == {n \in AllNodes : writeSet[t][n].deleted}
<1>9. D \subseteq WriteNodes(t) BY <1>0 DEF Knows, Resets, WriteNodes
<1>10. DeadC' = DeadC \cup D
  <2>1. ASSUME NEW n \in AllNodes PROVE n \in DeadC' <=> n \in DeadC \/ writeSet[t][n].deleted
    BY <1>1, <1>7, <1>9 DEF DeadC, isDeleted
  <2> QED BY <2>1 DEF DeadC
<1>11. indexAdd[t] \cap DeadC = {} /\ indexAdd[t] \subseteq AllNodes
  BY <1>0, <1>3, PublicAllocated DEF Fresh
<1>12. Public' = Public \cup indexAdd[t]
  <2>1. Added' = Added \cup indexAdd[t]
    <3>1. \A u \in Threads \ {t} : Committed(u)' <=> Committed(u) BY <1>4 DEF OthersSame, Committed
    <3> QED BY <1>1, <1>3, <1>11, <3>1 DEF Added
  <2>2. D \subseteq Public \cup indexAdd[t]
    BY <1>0, <1>9, NodesAssumption DEF Knows, Holdings, Holds, WriteNodes
  <2> QED BY <1>1, <1>10, <2>1, <2>2 DEF Public
<1>13. LiveC' = LiveS(t)
  <2>1. LiveC \subseteq AllNodes BY <1>0, PublicAllocated
  <2> QED BY <1>10, <1>11, <1>12, <2>1 DEF LiveC, LiveS
<1> QED BY <1>1, <1>3, <1>5, <1>6, <1>7, <1>8, <1>10, <1>12, <1>13

(* To another transaction the nodes that are to be written back are stale, *)
(* and all the others are what they were.                                  *)
LEMMA TakesEffectOnOthers ==
  ASSUME Base, ListInv, NEW t \in Threads, TakeVersion(t), NEW u \in Threads \ {t}
  PROVE  /\ \A n \in AllNodes : Doomed(u, n)' <=> Doomed(u, n) \/ n \in WriteNodes(t)
         /\ \A n \in AllNodes : Clean(u, n) => Clean(u, n)'
         /\ WriteNodes(u)' = WriteNodes(u)
         /\ Lost(u)' <=> Lost(u) \/ WriteNodes(u) \cap WriteNodes(t) # {}
         /\ \A n \in AllNodes : Fine(u, n) => Fine(u, n)'
         /\ \A n \in AllNodes : \A s : Follows(u, n, s) => Follows(u, n, s)'
<1>0. TypeInv /\ Fresh /\ Knows(t) BY DEF Base, ListInv
<1>1. OthersSame(t) BY <1>0, EndStepOthers DEF EndStep
<1>2. /\ readVersion'[u] = readVersion[u] /\ writeSet'[u] = writeSet[u] /\ indexAdd'[u] = indexAdd[u]
      /\ \A v \in Threads \ {t} : writeVersion'[v] = writeVersion[v]
      /\ WriteNodes(u)' = WriteNodes(u) /\ WriteNodes(u) \subseteq AllNodes
  BY <1>1 DEF OthersSame, WriteNodes
<1>3. writeVersion'[t] > readVersion[u]
  <2>1. writeVersion'[t] = gvc + 1 BY <1>0, LocalFunctions DEF TakeVersion
  <2>2. readVersion[u] <= gvc BY DEF Base, ClockInv, ClockBound
  <2>3. readVersion[u] \in Nat /\ gvc \in Nat
    BY <1>0, LocalFunctions DEF TypeInv, MemoryTypeOK, LNodeTypeOK
  <2> QED BY <2>1, <2>2, <2>3
<1>4. /\ m_version_mask' = m_version_mask
      /\ \A v \in Threads : \A n \in AllNodes :
           Writing(v, n)' <=> Writing(v, n) \/ (v = t /\ n \in WriteNodes(t))
      /\ \A n \in AllNodes : NextC'[n] = NextS(t)[n]
      /\ LiveC' = LiveS(t)
  BY TakesEffect
<1>5. \A n \in AllNodes : ~Writing(t, n)
  BY DEF TakeVersion, Writing
<1>6. \A n \in AllNodes : Doomed(u, n)' <=> Doomed(u, n) \/ n \in WriteNodes(t)
  <2>1. ASSUME NEW n \in AllNodes, Doomed(u, n)' PROVE Doomed(u, n) \/ n \in WriteNodes(t)
    BY <2>1, <1>2, <1>4, <1>5 DEF Doomed, getVersion
  <2>2. ASSUME NEW n \in AllNodes, Doomed(u, n) PROVE Doomed(u, n)'
    BY <2>2, <1>2, <1>4, <1>5 DEF Doomed, getVersion
  <2>3. ASSUME NEW n \in AllNodes, n \in WriteNodes(t) PROVE Doomed(u, n)'
    BY <2>3, <1>2, <1>3, <1>4 DEF Doomed
  <2> QED BY <2>1, <2>2, <2>3
<1>7. \A n \in AllNodes : Clean(u, n) => Clean(u, n)'
  BY <1>2, <1>3, <1>4 DEF Clean
<1>8. Lost(u)' <=> Lost(u) \/ WriteNodes(u) \cap WriteNodes(t) # {}
  BY <1>2, <1>6 DEF Lost
<1>9. ASSUME NEW n \in AllNodes, Fine(u, n) PROVE Fine(u, n)'
  <2>1. CASE Doomed(u, n) \/ Lost(u) BY <2>1, <1>6, <1>8 DEF Fine
  <2>2. CASE n \in WriteNodes(t) BY <2>2, <1>6 DEF Fine
  <2>3. CASE n \in LiveS(u) /\ n \notin WriteNodes(t)
    <3>1. ~writeSet[t][n].deleted BY <1>0, <2>3 DEF Knows, Resets, WriteNodes
    <3>2. n \in LiveS(u)' BY <1>2, <1>4, <2>3, <3>1 DEF LiveS
    <3> QED BY <3>2 DEF Fine
  <2> QED BY <1>9, <2>1, <2>2, <2>3 DEF Fine
<1>10. ASSUME NEW n \in AllNodes, NEW s, Follows(u, n, s) PROVE Follows(u, n, s)'
  <2>1. CASE Doomed(u, n) \/ Lost(u) BY <2>1, <1>6, <1>8 DEF Follows
  <2>2. CASE n \in WriteNodes(t) BY <2>2, <1>6 DEF Follows
  <2>3. CASE s = NextS(u)[n] /\ n \notin WriteNodes(t)
    <3>1. NextC'[n] = NextC[n] BY <1>4, <2>3 DEF NextS, WriteNodes
    <3>2. NextS(u)'[n] = NextS(u)[n] BY <1>2, <3>1 DEF NextS
    <3> QED BY <2>3, <3>2 DEF Follows
  <2> QED BY <1>10, <2>1, <2>2, <2>3 DEF Follows
<1> QED BY <1>2, <1>6, <1>7, <1>8, <1>9, <1>10

(* The view of another transaction that can still commit stays a chain.    *)
LEMMA ViewsCompose ==
  ASSUME Base, ListInv, NEW t \in Threads, TakeVersion(t), NEW u \in Threads \ {t}
  PROVE  View(u)'
<1>0. TypeInv /\ Fresh /\ Knows(t) /\ Knows(u) /\ Chain(LiveC, NextC) BY DEF Base, ListInv
<1>1. OthersSame(t) BY <1>0, EndStepOthers DEF EndStep
<1>2. /\ writeSet'[u] = writeSet[u] /\ indexAdd'[u] = indexAdd[u] /\ (Committed(u)' <=> Committed(u))
  BY <1>1 DEF OthersSame, Committed
<1>3. SUFFICES ASSUME ~Committed(u), ~Lost(u)' PROVE Chain(LiveS(u), NextS(u))' BY <1>2 DEF View
<1> DEFINE Wt == WriteNodes(t)
           Wu == WriteNodes(u)
           At == indexAdd[t]
           Au == indexAdd[u]
           Dt == {n \in AllNodes : writeSet[t][n].deleted}
           Du == {n \in AllNodes : writeSet[u][n].deleted}
<1>4. ~Lost(u) /\ Wt \cap Wu = {} BY <1>3, TakesEffectOnOthers
<1>5. /\ ~Committed(t) /\ ~Lost(t) /\ LiveC' = LiveS(t)
      /\ \A n \in AllNodes : NextC'[n] = NextS(t)[n]
  BY TakesEffect
<1>6. /\ Chain(LiveS(t), NextS(t)) /\ Chain(LiveS(u), NextS(u))
  BY <1>0, <1>3, <1>4, <1>5 DEF Knows, View
<1>7. /\ LiveC \cup At \cup Au \subseteq AllNodes /\ Null \notin LiveC \cup At \cup Au
  BY <1>0, PublicAllocated
<1>8. Dt \subseteq Wt /\ Du \subseteq Wu /\ Wt \subseteq AllNodes /\ Wu \subseteq AllNodes
  BY <1>0 DEF Knows, Resets, WriteNodes
<1>9. At \cap Public = {} /\ Au \cap Public = {}
  BY <1>0, <1>3, <1>5, PrivateUnwritten
<1>10. At \cap Au = {} /\ At \cap LiveC = {} /\ Au \cap LiveC = {}
  BY <1>0, <1>9 DEF Fresh, LiveC
<1>11. Wt \subseteq Public \cup At /\ Wu \subseteq Public \cup Au
  BY <1>0, <1>8, NodesAssumption DEF Knows, Holdings, Holds
<1>12. Wt \cap Au = {} /\ Wu \cap At = {} BY <1>9, <1>10, <1>11
<1>13. LiveS(t) = (LiveC \cup At) \ Dt /\ LiveS(u) = (LiveC \cup Au) \ Du
  BY <1>7 DEF LiveS
<1>14. LiveS(u)' = (((LiveC \cup At) \ Dt) \cup Au) \ Du
  <2>1. LiveS(u)' = {n \in LiveS(t) \cup Au : ~writeSet[u][n].deleted} BY <1>2, <1>5 DEF LiveS
  <2> QED BY <1>7, <1>13, <2>1
<1>15. \A n \in LiveC \cup At \cup Au :
         /\ n \notin Wt => NextS(t)[n] = NextC[n]
         /\ n \notin Wu => NextS(u)[n] = NextC[n]
         /\ NextS(u)'[n] = IF n \in Wu THEN NextS(u)[n] ELSE NextS(t)[n]
  BY <1>2, <1>5, <1>7 DEF NextS, WriteNodes
<1>16. Chain((((LiveC \cup At) \ Dt) \cup Au) \ Du, NextS(u)')
  <2>1. Chain((LiveC \cup At) \ Dt, NextS(t)) /\ Chain((LiveC \cup Au) \ Du, NextS(u))
    BY <1>6, <1>13
  <2>2. PICK fc : fc = NextS(u)' OBVIOUS
  <2> DEFINE L == LiveC
             f == NextC
             ft == NextS(t)
             fu == NextS(u)
  <2>3. Disjoint(L, f, At, Wt, Dt, ft, Au, Wu, Du, fu, fc)
    BY <1>0, <1>4, <1>7, <1>8, <1>10, <1>12, <1>15, <2>1, <2>2 DEF Disjoint
  <2> HIDE DEF Wt, Wu, At, Au, Dt, Du, L, f, ft, fu
  <2>4. Chain((((L \cup At) \ Dt) \cup Au) \ Du, fc) BY <2>3, ChainsCompose
  <2> QED BY <2>2, <2>4 DEF L
<1> QED BY <1>14, <1>16 DEF Chain

(* The step at which a transaction takes effect keeps the invariant.       *)
LEMMA TakeVersionKeeps ==
  ASSUME Base, Base', ListInv, NEW t \in Threads, TakeVersion(t)
  PROVE  ListInv'
<1>0. TypeInv /\ Fresh /\ PublicLinks /\ Knows(t) BY DEF Base, ListInv
<1>1. OthersSame(t) BY <1>0, EndStepOthers DEF EndStep
<1>2. /\ pc[t] = "validate" /\ pc'[t] = "write"
      /\ pred' = pred /\ next' = next /\ prev' = prev /\ readSet' = readSet
      /\ writeSet' = writeSet /\ indexAdd' = indexAdd /\ indexRemove' = indexRemove
      /\ readOnly' = readOnly /\ abort' = abort
      /\ index' = index /\ allocated' = allocated /\ m_next' = m_next
      /\ m_version_mask' = m_version_mask
  BY <1>0, LocalFunctions DEF TakeVersion, Goto, opVars, storeVars, nodeVars
<1> DEFINE D == {n \in AllNodes : writeSet[t][n].deleted}
<1>3. /\ ~Committed(t) /\ Committed(t)' /\ ~Lost(t)
      /\ \A n \in AllNodes : NextC'[n] = NextS(t)[n]
      /\ DeadC' = DeadC \cup D
      /\ Public' = Public \cup indexAdd[t]
      /\ LiveC' = LiveS(t)
  BY TakesEffect
<1>4. \A u \in Threads : \A n : Holds(u, n) => Holds(u, n)' BY <1>2, <1>3 DEF Holds
<1>5. Chain(LiveC, NextC)'
  <2>1. Chain(LiveS(t), NextS(t)) BY <1>0, <1>3 DEF Knows, View
  <2>2. LiveS(t) \subseteq AllNodes BY <1>0, PublicAllocated
  <2>3. Chain(LiveC', NextC') BY <1>3, <2>1, <2>2, ChainSame
  <2> QED BY <2>3 DEF Chain
<1>6. Fresh'
  <2>1. (\A n \in AllNodes \ allocated : ~isDeleted(n))' BY <1>0, <1>2 DEF Fresh, isDeleted
  <2>2. (\A v, u \in Threads : v # u => indexAdd[v] \cap indexAdd[u] = {})'
    BY <1>0, <1>2 DEF Fresh
  <2>3. ASSUME NEW u \in Threads, ~Committed(u)'
        PROVE  indexAdd[u] \cap (index \cup DeadC') = {}
    <3>1. u # t /\ ~Committed(u) BY <1>1, <1>3, <2>3 DEF OthersSame, Committed
    <3>2. indexAdd[u] \cap Public = {} BY <1>0, <3>1, PrivateUnwritten
    <3>3. index \cup DeadC' \subseteq Public \cup indexAdd[t] BY <1>2, <1>3 DEF Public
    <3> QED BY <1>0, <3>1, <3>2, <3>3 DEF Fresh
  <2> QED BY <1>2, <2>1, <2>2, <2>3 DEF Fresh
<1>7. PublicLinks'
  <2>1. \A n \in indexAdd[t] : m_next[n] \in Public \cup indexAdd[t] \cup {Null}
    BY <1>0, <1>3 DEF Knows, Holdings, Holds
  <2> QED BY <1>0, <1>2, <1>3, <2>1 DEF PublicLinks
<1>8. Knows(t)'
  <2>1. WriteNodes(t)' = WriteNodes(t) BY <1>2 DEF WriteNodes
  <2>2. pred[t] = head /\ next[t] = Null /\ prev[t] = Null
    BY <1>0, <1>2 DEF Knows, Resets, PredFound, NextRead, Base, OrderInv, SearchOrdered, AtNode, Validating
  <2>3. Resets(t)'
    BY <1>0, <1>2, <2>1, <2>2 DEF Knows, Resets, PredFound, NextRead
  <2>4. Holdings(t)' BY <1>0, <1>2, <1>3, <1>4, <2>1 DEF Knows, Holdings, AtNode, Validating
  <2>5. IndexKnows(t)'
    <3>1. indexRemove[t] \subseteq DeadC'
      BY <1>0, <1>3, LocalFunctions DEF Knows, IndexKnows
    <3> QED BY <1>2, <1>3, <3>1 DEF IndexKnows
  <2>6. Validated(t)' BY <1>2 DEF Validated, AtNode, Validating
  <2>7. SearchKnows(t)' BY <1>2, <2>2 DEF SearchKnows, Reading, NextRead
  <2>8. View(t)' BY <1>3 DEF View
  <2> QED BY <2>3, <2>4, <2>5, <2>6, <2>7, <2>8 DEF Knows
<1>9. ASSUME NEW u \in Threads \ {t} PROVE Knows(u)'
  <2>0. Knows(u) BY DEF ListInv
  <2>1. /\ pc'[u] = pc[u] /\ task'[u] = task[u] /\ todo'[u] = todo[u]
        /\ (Committed(u)' <=> Committed(u)) /\ WriteNodes(u)' = WriteNodes(u)
        /\ WriteNodes(u) \subseteq AllNodes
    BY <1>1, <1>2 DEF OthersSame, Committed, WriteNodes
  <2>2. Resets(u)' BY <1>2, <2>0, <2>1 DEF Knows, Resets
  <2>3. Holdings(u)' BY <1>2, <1>4, <2>0, <2>1 DEF Knows, Holdings
  <2>4. IndexKnows(u)'
    <3>1. Lost(u) => Lost(u)' BY TakesEffectOnOthers
    <3> QED BY <1>2, <1>3, <2>0, <2>1, <3>1 DEF Knows, IndexKnows
  <2>5. Validated(u)'
    <3>1. ASSUME pc[u] \in {"validate"} \cup AtNode, NEW n \in WriteNodes(u) \ todo[u] PROVE ~Doomed(u, n)'
      <4>1. n \in lockedLNodes[u] BY <3>1 DEF Base, LockInv, WriteSetLocked, Validating, AtNode
      <4>2. n \notin WriteNodes(t) BY <1>2, <4>1 DEF Base, LockInv, WriteSetLocked, LockOwnership, AtNode, Validating
      <4>3. ~Doomed(u, n) BY <2>0, <3>1 DEF Knows, Validated
      <4> QED BY <2>1, <4>2, <4>3, TakesEffectOnOthers
    <3> QED BY <1>2, <2>0, <2>1, <3>1 DEF Knows, Validated
  <2>6. SearchKnows(u)'
    <3>1. /\ pred[u] \in AllNodes
          /\ next[u] # Null => next[u] \in AllNodes
          /\ prev[u] # Null => prev[u] \in AllNodes
      BY Refs
    <3> QED BY <1>2, <2>0, <2>1, <3>1, TakesEffectOnOthers DEF Knows, SearchKnows
  <2>7. View(u)' BY ViewsCompose
  <2> QED BY <2>2, <2>3, <2>4, <2>5, <2>6, <2>7 DEF Knows
<1> QED BY <1>5, <1>6, <1>7, <1>8, <1>9 DEF ListInv

-----------------------------------------------------------------------------
(* The initial state *)

(* Every preloaded node comes next after some other one or the head.       *)
LEMMA InitNextOnto ==
  ASSUME NEW n \in Preloaded
  PROVE  \E p \in Preloaded \cup {head} : InitNext(p) = n
<1>0. /\ Preloaded \subseteq AllNodes /\ head \notin Preloaded /\ head \in AllNodes
      /\ \A m \in Preloaded : InitKey[m] \in Nat
      /\ \A m \in Preloaded : InitKey[m] = InitKey[n] => m = n
  BY InitAssumption, NodesAssumption DEF Preloaded, AllNodes
<1>1. ASSUME NEW p \in Preloaded \cup {head}, Above(p, n),
             \A o \in Preloaded : Above(p, o) => InitKey[n] <= InitKey[o]
      PROVE  InitNext(p) = n
  <2>1. /\ InitNext(p) \in Preloaded /\ Above(p, InitNext(p))
        /\ \A o \in Preloaded : Above(p, o) => InitKey[InitNext(p)] <= InitKey[o]
    BY <1>0, <1>1, LowestAbove DEF InitNext
  <2>2. InitKey[InitNext(p)] = InitKey[n] BY <1>0, <1>1, <2>1
  <2> QED BY <1>0, <2>1, <2>2
<1> DEFINE S == {o \in Preloaded : InitKey[o] < InitKey[n]}
<1>2. CASE S = {}
  <2>1. \A o \in Preloaded : InitKey[n] <= InitKey[o] BY <1>0, <1>2
  <2>2. InitNext(head) = n BY <1>1, <2>1 DEF Above
  <2> QED BY <2>2
<1>3. CASE S # {}
  <2> DEFINE R == OpToRel(<, Nat)
             D == {InitKey[n] - InitKey[o] : o \in S}
  <2>1. D \subseteq Nat /\ D # {} BY <1>0, <1>3
  <2>2. PICK d \in D : \A e \in D : ~(<<e, d>> \in R)
    <3>1. IsWellFoundedOn(R, Nat) BY NatLessThanWellFounded
    <3> HIDE DEF D, R
    <3> QED BY <2>1, <3>1, WFMin
  <2>3. \A e \in D : ~(e < d) BY <2>1, <2>2 DEF OpToRel
  <2>4. PICK p \in S : d = InitKey[n] - InitKey[p] OBVIOUS
  <2>5. Above(p, n) BY <1>0, <2>4 DEF Above
  <2>6. ASSUME NEW o \in Preloaded, Above(p, o) PROVE InitKey[n] <= InitKey[o]
    <3>1. InitKey[p] < InitKey[o] BY <1>0, <2>4, <2>6 DEF Above
    <3>2. SUFFICES ASSUME InitKey[o] < InitKey[n] PROVE FALSE BY <1>0
    <3>3. InitKey[n] - InitKey[o] \in D BY <3>2
    <3>4. InitKey[n] - InitKey[o] < InitKey[n] - InitKey[p] BY <1>0, <3>1
    <3> QED BY <2>3, <2>4, <3>3, <3>4
  <2>7. InitNext(p) = n BY <1>1, <2>5, <2>6
  <2> QED BY <2>7
<1> QED BY <1>2, <1>3

(* Two nodes never share a successor.                                      *)
LEMMA InitNextInjective ==
  ASSUME NEW m \in Preloaded \cup {head}, NEW n \in Preloaded \cup {head},
         InitNext(m) = InitNext(n), InitNext(m) # Null
  PROVE  m = n
<1>0. /\ Preloaded \subseteq AllNodes /\ head \notin Preloaded /\ head \in AllNodes
      /\ \A o \in Preloaded : InitKey[o] \in Nat
      /\ \A o, p \in Preloaded : InitKey[o] = InitKey[p] => o = p
  BY InitAssumption, NodesAssumption DEF Preloaded, AllNodes
<1>1. ASSUME NEW p \in Preloaded \cup {head}, InitNext(p) # Null
      PROVE  /\ InitNext(p) \in Preloaded /\ Above(p, InitNext(p))
             /\ \A o \in Preloaded : Above(p, o) => InitKey[InitNext(p)] <= InitKey[o]
  BY <1>0, <1>1, LowestAbove DEF InitNext
<1>2. ASSUME NEW p \in Preloaded \cup {head}, NEW q \in Preloaded, Above(p, q),
             InitNext(p) = InitNext(q), InitNext(p) # Null
      PROVE  FALSE
  <2>1. InitNext(q) \in Preloaded /\ InitKey[q] < InitKey[InitNext(q)]
    BY <1>0, <1>1, <1>2 DEF Above
  <2>2. InitKey[InitNext(p)] <= InitKey[q] BY <1>1, <1>2
  <2> QED BY <1>0, <1>2, <2>1, <2>2
<1>3. m = n \/ (Above(m, n) /\ n \in Preloaded) \/ (Above(n, m) /\ m \in Preloaded)
  <2>1. CASE m = head \/ n = head BY <1>0, <2>1 DEF Above
  <2>2. CASE m \in Preloaded /\ n \in Preloaded
    <3>1. InitKey[m] = InitKey[n] \/ InitKey[m] < InitKey[n] \/ InitKey[n] < InitKey[m]
      BY <1>0, <2>2
    <3> QED BY <1>0, <2>2, <3>1 DEF Above
  <2> QED BY <2>1, <2>2
<1> QED BY <1>2, <1>3

(* The preloaded list is a chain, and no transaction is under way.         *)
LEMMA ListInit == TXInit => ListInv
<1> SUFFICES ASSUME TXInit PROVE ListInv OBVIOUS
<1>1. /\ \A n \in AllNodes : ~isDeleted(n) /\ ~isLocked(n)
      /\ \A n \in Preloaded \cup {head} : m_next[n] = InitNext(n)
      /\ index = Preloaded \cup {head} /\ allocated = index
      /\ Preloaded \subseteq AllNodes /\ head \notin Preloaded /\ head \in AllNodes
      /\ Null \notin Preloaded
  <2>1. \A n \in AllNodes : ~isDeleted(n) /\ ~isLocked(n)
    BY DEF TXInit, LNodeInit, FreshWord, isDeleted, isLocked
  <2> QED BY <2>1, InitAssumption, NodesAssumption DEF TXInit, LNodeInit, Preloaded, AllNodes
<1>2. \A t \in Threads :
        /\ pc[t] = "idle" /\ pred[t] = head /\ next[t] = Null /\ prev[t] = Null
        /\ ~abort[t] /\ indexAdd[t] = {} /\ indexRemove[t] = {}
        /\ \A n \in AllNodes : ~writeSet[t][n].in /\ ~writeSet[t][n].deleted
  BY DEF TXInit, EmptyWriteSet, NoElement
<1>3. \A t \in Threads : /\ ~Committed(t) /\ WriteNodes(t) = {}
                         /\ \A n \in AllNodes : ~Writing(t, n)
  BY <1>2 DEF Committed, WriteNodes, Writing
<1>4. /\ DeadC = {} /\ Added = {} /\ Public = index /\ LiveC = index
      /\ \A n \in AllNodes : NextC[n] = m_next[n]
  BY <1>1, <1>3 DEF DeadC, Added, Public, LiveC, NextC, Written
<1>5. \A n \in index : InitNext(n) = Null \/ InitNext(n) \in Preloaded
  BY <1>1, InitNextAbove
<1>6. Chain(LiveC, NextC)
  BY <1>1, <1>4, <1>5, InitNextOnto, InitNextInjective DEF Chain
<1>7. Fresh BY <1>1, <1>2, <1>4 DEF Fresh
<1>8. PublicLinks BY <1>1, <1>4, <1>5 DEF PublicLinks
<1>9. ASSUME NEW t \in Threads PROVE Knows(t)
  <2>1. pc[t] \notin PredFound \cup {"search", "stamp", "validate", "idxAdd", "idxRemove"}
    BY <1>2 DEF PredFound, NextRead
  <2>2. Resets(t) BY <1>2, <1>3, <2>1 DEF Resets
  <2>3. Holdings(t) BY <1>1, <1>2, <1>3, <1>4 DEF Holdings, Holds
  <2>4. IndexKnows(t) BY <1>2, <1>3 DEF IndexKnows
  <2>5. Validated(t) BY <1>2 DEF Validated, AtNode, Validating
  <2>6. SearchKnows(t) BY <1>2, <2>1 DEF SearchKnows, Reading, PredFound
  <2>7. View(t)
    <3>1. LiveS(t) = LiveC BY <1>1, <1>2, <1>4 DEF LiveS
    <3>2. \A n \in LiveC : NextS(t)[n] = NextC[n] BY <1>1, <1>2, <1>4 DEF NextS
    <3> QED BY <1>6, <3>1, <3>2, ChainSame DEF View
  <2> QED BY <2>2, <2>3, <2>4, <2>5, <2>6, <2>7 DEF Knows
<1> QED BY <1>6, <1>7, <1>8, <1>9 DEF ListInv

-----------------------------------------------------------------------------
(* The theorems *)

(* Every step that is not a blind put keeps the invariant.                 *)
LEMMA ListNext ==
  ASSUME Base, Base', ListInv, [TXNext]_vars, [NoBlindPut]_vars
  PROVE  ListInv'
<1>1. ASSUME NEW t \in Threads, TXStep(t), NoBlindPut PROVE ListInv'
  <2>1. CASE OpStep(t) BY <1>1, <2>1, OpStepKeeps
  <2>2. CASE EndStep(t)
    <3>1. CASE TakeVersion(t) BY <3>1, TakeVersionKeeps
    <3>2. CASE WriteNode(t) BY <2>2, <3>2, WriteNodeKeeps
    <3>3. CASE StampNode(t) BY <2>2, <3>3, StampNodeKeeps
    <3>4. CASE AddToIndex(t) \/ RemoveFromIndex(t) BY <2>2, <3>4, IndexSteps
    <3>5. CASE AbortEnd(t) \/ Commit(t) BY <2>2, <3>5, EndOfTx
    <3> QED BY <2>2, <3>1, <3>2, <3>3, <3>4, <3>5, QuietEnd DEF EndStep, ValidateStep
  <2> QED BY <1>1, <2>1, <2>2 DEF TXStep
<1>2. CASE UNCHANGED vars
  <2>1. /\ m_next' = m_next /\ m_version_mask' = m_version_mask /\ allocated' = allocated
        /\ index' = index /\ pc' = pc /\ task' = task /\ pred' = pred /\ next' = next /\ prev' = prev
        /\ readSet' = readSet /\ writeSet' = writeSet
        /\ indexAdd' = indexAdd /\ indexRemove' = indexRemove
        /\ readVersion' = readVersion /\ writeVersion' = writeVersion /\ readOnly' = readOnly
        /\ todo' = todo /\ abort' = abort /\ lockedLNodes' = lockedLNodes
    BY <1>2 DEF vars, lnodeVars, nodeVars, txVars, opVars, storeVars, versVars, endVars
  <2>2. /\ NextC' = NextC /\ DeadC' = DeadC /\ Added' = Added
        /\ \A t \in Threads : \A n : Writing(t, n)' <=> Writing(t, n)
        /\ \A t \in Threads : Committed(t)' <=> Committed(t)
    BY <2>1 DEF NextC, DeadC, Added, Writing, Committed, Written, Writer, isDeleted
  <2>3. Public' = Public /\ LiveC' = LiveC BY <2>1, <2>2 DEF Public, LiveC
  <2>4. Fresh' /\ PublicLinks' BY <2>1, <2>2, <2>3 DEF ListInv, Fresh, PublicLinks, isDeleted
  <2>5. Chain(LiveC, NextC)' BY <2>2, <2>3 DEF ListInv, Chain
  <2>6. ASSUME NEW t \in Threads PROVE Knows(t)'
    <3>1. /\ WriteNodes(t)' = WriteNodes(t) /\ NextS(t)' = NextS(t) /\ LiveS(t)' = LiveS(t)
          /\ \A n : Holds(t, n)' <=> Holds(t, n)
          /\ \A n : Doomed(t, n)' <=> Doomed(t, n)
          /\ \A n : Clean(t, n)' <=> Clean(t, n)
      BY <2>1, <2>2, <2>3 DEF WriteNodes, NextS, LiveS, Holds, Doomed, Clean, getVersion
    <3>2. Lost(t)' <=> Lost(t) BY <3>1 DEF Lost
    <3>3. /\ \A n : Fine(t, n)' <=> Fine(t, n)
          /\ \A n, s : Follows(t, n, s)' <=> Follows(t, n, s)
      BY <3>1, <3>2 DEF Fine, Follows
    <3>4. Knows(t) BY DEF ListInv
    <3>5. Resets(t)' /\ Holdings(t)' BY <2>1, <2>2, <3>1, <3>4 DEF Knows, Resets, Holdings
    <3>6. IndexKnows(t)' /\ Validated(t)'
      BY <2>1, <2>2, <3>1, <3>2, <3>4 DEF Knows, IndexKnows, Validated
    <3>7. SearchKnows(t)' BY <2>1, <3>1, <3>3, <3>4 DEF Knows, SearchKnows
    <3>8. View(t)' BY <2>2, <3>1, <3>2, <3>4 DEF Knows, View, Chain
    <3> QED BY <3>5, <3>6, <3>7, <3>8 DEF Knows
  <2> QED BY <2>4, <2>5, <2>6 DEF ListInv
<1> QED BY <1>1, <1>2 DEF TXNext, Finished

(* Among some nodes there is one with the smallest key.                    *)
LEMMA SmallestNode ==
  ASSUME TypeInv, NEW S \in SUBSET AllNodes, S # {}
  PROVE  \E n \in S : \A m \in S : m_key[n] <= m_key[m]
<1> DEFINE R == OpToRel(<, Nat)
           D == {m_key[n] : n \in S}
<1>0. \A n \in AllNodes : m_key[n] \in Nat BY DEF TypeInv, MemoryTypeOK, LNodeTypeOK
<1>1. D \subseteq Nat /\ D # {} BY <1>0
<1>2. PICK d \in D : \A e \in D : ~(<<e, d>> \in R)
  <2>1. IsWellFoundedOn(R, Nat) BY NatLessThanWellFounded
  <2> HIDE DEF D, R
  <2> QED BY <1>1, <2>1, WFMin
<1>3. \A e \in D : ~(e < d) BY <1>1, <1>2 DEF OpToRel
<1>4. PICK n \in S : m_key[n] = d OBVIOUS
<1>5. ASSUME NEW m \in S PROVE m_key[n] <= m_key[m]
  <2>1. m_key[m] \in D BY <1>5
  <2> QED BY <1>0, <1>3, <1>4, <2>1
<1> QED BY <1>5

(* While no node is locked, what is linked in memory is exactly the        *)
(* committed list.                                                         *)
LEMMA AtRest ==
  ASSUME Base, ListInv, \A n \in AllNodes : ~isLocked(n)
  PROVE  /\ Linked = LiveC
         /\ \A n \in DeadC : isDeleted(n)
<1>0. TypeInv /\ Fresh /\ Chain(LiveC, NextC) BY DEF Base, ListInv
<1>1. \A n \in AllNodes : ~Written(n) /\ NextC[n] = m_next[n] BY NextCOf
<1>2. LiveC \subseteq AllNodes /\ Null \notin AllNodes BY <1>0, PublicAllocated, NodesAssumption
<1>3. \A n \in DeadC : isDeleted(n) BY <1>1 DEF DeadC, Written
<1> DEFINE Closed == {S \in SUBSET Nodes : \A n \in S \cup {head} : m_next[n] \in S \cup {head, Null}}
           Listed == LiveC \ {head}
<1>4. Listed \in Closed /\ head \in LiveC /\ Listed \subseteq Nodes
  BY <1>0, <1>1, <1>2 DEF Chain, AllNodes
<1>5. ASSUME NEW S \in Closed PROVE Listed \subseteq S
  <2>1. SUFFICES ASSUME Listed \ S # {} PROVE FALSE OBVIOUS
  <2>2. PICK n \in Listed \ S : \A m \in Listed \ S : m_key[n] <= m_key[m]
    BY <1>0, <1>2, <2>1, SmallestNode
  <2>3. n # head BY <2>2
  <2>4. PICK p \in LiveC : m_next[p] = n BY <1>0, <1>1, <1>2, <2>2, <2>3 DEF Chain
  <2>5. Ascending(p, n) BY <1>2, <2>4 DEF Base, OrderInv
  <2>6. p \in S \cup {head}
    <3>1. m_key[p] \in Nat /\ m_key[n] \in Nat
      BY <1>0, <1>2, <2>2, <2>4 DEF TypeInv, MemoryTypeOK, LNodeTypeOK
    <3> QED BY <1>2, <2>2, <2>4, <2>5, <3>1 DEF Ascending, Before
  <2> QED BY <1>2, <2>2, <2>4, <2>6
<1>6. Linked = {head} \cup {n \in Nodes : \A S \in Closed : n \in S} BY DEF Linked
<1> HIDE DEF Closed
<1>7. Linked = LiveC BY <1>4, <1>5, <1>6
<1> QED BY <1>3, <1>7

(* No committed insertion is lost: whenever no node is locked, a node that *)
(* the index leads to is linked or deleted, for any number of threads,     *)
(* keys and operations per transaction, as long as no put copies the link  *)
(* of a node that is locked.                                               *)
THEOREM InsertsKept == TXSpec /\ [][NoBlindPut]_vars => []NoLostNode
<1>1. TXInit => Base /\ ListInv
  BY TypeInit, LockInit, ClockInit, OrderInit, ListInit DEF Base
<1>2. Base /\ [TXNext]_vars => Base'
  BY TypeNext, LockNext, ClockNext, OrderNext DEF Base
<1>3. Base /\ Base' /\ ListInv /\ [TXNext]_vars /\ [NoBlindPut]_vars => ListInv'
  BY ListNext
<1>4. Base /\ ListInv => NoLostNode
  <2> SUFFICES ASSUME Base, ListInv, \A n \in AllNodes : ~isLocked(n), NEW n \in index, ~isDeleted(n)
               PROVE  n \in Linked
    BY DEF NoLostNode
  <2> QED BY AtRest DEF LiveC, Public
<1> QED BY <1>1, <1>2, <1>3, <1>4, PTL DEF TXSpec

(* With one operation in each transaction nothing is in the write set when *)
(* an operation starts, and the log is empty.                              *)
OneOp ==
  /\ DOMAIN log = Threads
  /\ \A t \in Threads :
       pc[t] \notin EndLabels => log[t] = <<>> /\ \A n \in AllNodes : ~writeSet[t][n].in

(* Every step keeps OneOp when a transaction is one operation.             *)
LEMMA OneOpNext ==
  ASSUME OpsPerTx = 1, TypeInv, OneOp, [TXNext]_vars
  PROVE  OneOp'
<1>1. ASSUME NEW t \in Threads, TXStep(t) PROVE OneOp'
  <2>1. OthersSame(t) BY <1>1, OpStepOthers, EndStepOthers DEF TXStep
  <2>2. SUFFICES /\ DOMAIN log' = DOMAIN log
                 /\ \A u \in Threads \ {t} : log'[u] = log[u]
                 /\ pc'[t] \notin EndLabels =>
                      log'[t] = <<>> /\ \A n \in AllNodes : ~writeSet'[t][n].in
    BY <2>1 DEF OneOp, OthersSame
  <2>3. CASE ClearStorage(t)
    <3>1. DOMAIN log' = DOMAIN log /\ log'[t] = <<>> /\ \A u \in Threads \ {t} : log'[u] = log[u]
      BY <2>3 DEF ClearStorage, OneOp
    <3>2. writeSet'[t] = EmptyWriteSet BY <2>3, LocalFunctions DEF ClearStorage
    <3> QED BY <3>1, <3>2 DEF EmptyWriteSet, NoElement
  <2>4. ASSUME NEW r, Return(t, r), pc[t] \notin EndLabels
        PROVE  /\ DOMAIN log' = DOMAIN log
               /\ \A u \in Threads \ {t} : log'[u] = log[u]
               /\ pc'[t] \in EndLabels
    <3> DEFINE c == [op |-> task[t].op, key |-> task[t].key, val |-> task[t].val, ret |-> r]
    <3>1. log[t] = <<>> BY <2>4 DEF OneOp
    <3>2. Len(Append(log[t], c)) = 1
      <4> HIDE DEF c
      <4> QED BY <3>1
    <3>3. Goto(t, "lock") /\ log' = [log EXCEPT ![t] = Append(log[t], c)]
      BY <2>4, <3>2 DEF Return
    <3> HIDE DEF c
    <3> QED BY <3>3, LocalFunctions DEF Goto, EndLabels, OneOp
  <2>5. CASE OpStep(t)
    <3>1. pc[t] \notin EndLabels BY <2>5, OpStepFrame
    <3>2. CASE \E r : Return(t, r) BY <2>4, <3>1, <3>2
    <3>3. CASE UNCHANGED <<log, writeSet>> BY <3>1, <3>3 DEF OneOp
    <3> USE DEF cliVars, storeVars
    <3>4. CASE \/ TXbegin(t) \/ Call(t) \/ SearchPred(t) \/ SkipDeleted(t) \/ Advance(t) \/ RemoveFound(t)
      BY <3>3, <3>4 DEF TXbegin, Call, SearchPred, SkipDeleted, Advance, RemoveFound
    <3>5. CASE CheckVersion(t) \/ CheckSingleton(t) \/ IncrementAndAbort(t) \/ ReadNext(t)
      BY <2>3, <3>3, <3>5 DEF CheckVersion, CheckSingleton, IncrementAndAbort, ReadNext, AbortOp
    <3>6. CASE PutFound(t) \/ PutNew(t) \/ Get(t) \/ RemoveAbsent(t) \/ RemoveFinish(t)
      BY <3>2, <3>6 DEF PutFound, PutNew, Get, RemoveAbsent, RemoveFinish
    <3> QED BY <2>5, <3>4, <3>5, <3>6 DEF OpStep
  <2>6. CASE EndStep(t)
    <3>1. CASE AbortEnd(t) \/ Commit(t) BY <2>3, <3>1 DEF AbortEnd, Commit
    <3>2. CASE ~AbortEnd(t) /\ ~Commit(t)
      <4>1. log' = log
        BY <2>6, <3>2 DEF EndStep, LockNode, LockedAll, Validate, ValidateVersion, ValidateSingleton,
           IncrementAndClear, setSingletonLoad, setSingletonStore,
           ValidatedReadOnly, TakeVersion, WriteNode, StampNode, WroteAll, ReleaseNode, UpdateIndex,
           AddToIndex, RemoveFromIndex, cliVars
      <4>2. pc'[t] \in EndLabels
        <5> USE LocalFunctions DEF Goto, EndLabels
        <5>1. CASE LockNode(t) BY <5>1 DEF LockNode
        <5>2. CASE ValidateStep(t) BY <5>2, ValidateFrame DEF Validating
        <5>3. CASE setSingletonLoad(t) \/ setSingletonStore(t)
          BY <5>3 DEF setSingletonLoad, setSingletonStore
        <5>4. CASE LockedAll(t) \/ ValidatedReadOnly(t) \/ TakeVersion(t)
          BY <5>4 DEF LockedAll, ValidatedReadOnly, TakeVersion, AtNode, Validating
        <5>5. CASE WriteNode(t) \/ StampNode(t) \/ WroteAll(t)
          BY <5>5 DEF WriteNode, StampNode, WroteAll
        <5>6. CASE ReleaseNode(t) \/ UpdateIndex(t) \/ AddToIndex(t) \/ RemoveFromIndex(t)
          BY <5>6 DEF ReleaseNode, UpdateIndex, AddToIndex, RemoveFromIndex
        <5> QED BY <2>6, <3>2, <5>1, <5>2, <5>3, <5>4, <5>5, <5>6 DEF EndStep, ValidateStep
      <4> QED BY <4>1, <4>2
    <3> QED BY <3>1, <3>2
  <2> QED BY <1>1, <2>5, <2>6 DEF TXStep
<1>2. CASE UNCHANGED vars
  BY <1>2 DEF vars, txVars, storeVars, cliVars, OneOp
<1> QED BY <1>1, <1>2 DEF TXNext, Finished

(* When every transaction is one operation no committed insertion is lost. *)
THEOREM SingleOpsKept ==
  ASSUME OpsPerTx = 1
  PROVE  TXSpec => []NoLostNode
<1>1. TXInit => OneOp BY DEF TXInit, OneOp, EmptyWriteSet, NoElement
<1>2. TypeInv /\ OneOp /\ [TXNext]_vars => OneOp' BY OneOpNext
<1>3. TypeInv /\ OneOp => [NoBlindPut]_vars
  <2> SUFFICES ASSUME TypeInv, OneOp, NEW t \in Threads, PutFound(t), writeSet[t][pred[t]].in
               PROVE  FALSE
    BY DEF NoBlindPut
  <2>1. pc[t] = "cmp" BY DEF PutFound, Searching
  <2> QED BY <2>1, LocalFunctions DEF OneOp, EndLabels, AtNode, Validating
<1> QED BY <1>1, <1>2, <1>3, TypeInit, TypeNext, InsertsKept, PTL DEF TXSpec

-----------------------------------------------------------------------------
(* What has been retired *)

(* A retired node is out of the committed list, and nobody is about to put *)
(* it there.                                                               *)
RetiredInv ==
  /\ retired \cap LiveC = {}
  /\ \A t \in Threads : ~Committed(t) => retired \cap indexAdd[t] = {}

(* Every step keeps RetiredInv: a node enters retired in RemoveFromIndex   *)
(* of the transaction that took it out of the committed list, or in an     *)
(* abort, when nobody else has seen it.                                    *)
LEMMA RetiredNext ==
  ASSUME Base, Base', ListInv, RetiredInv, [TXNext]_vars, [NoBlindPut]_vars
  PROVE  RetiredInv'
<1>0. TypeInv /\ Fresh /\ retired \subseteq allocated BY DEF Base, ListInv, TypeInv, MemoryTypeOK, LNodeTypeOK
<1>1. ASSUME NEW t \in Threads, TXStep(t), NoBlindPut PROVE RetiredInv'
  <2>0. Knows(t) BY DEF ListInv
  <2>1. OthersSame(t) BY <1>0, <1>1, OpStepOthers, EndStepOthers DEF TXStep
  <2>2. \A u \in Threads \ {t} : indexAdd'[u] = indexAdd[u] /\ (Committed(u)' <=> Committed(u))
    BY <2>1 DEF OthersSame, Committed
  <2>3. CASE OpStep(t)
    <3>1. /\ LiveC' = LiveC /\ ~Committed(t) /\ ~Committed(t)'
          /\ indexAdd'[t] \subseteq indexAdd[t] \cup (AllNodes \ allocated)
      BY <1>0, <1>1, <2>3, OpStepKeeps, OpStepList
    <3>2. CASE AbortOp(t)
      <4>1. retired' = retired \cup indexAdd[t] /\ indexAdd'[t] = {}
        BY <1>0, <3>2, LocalFunctions DEF AbortOp, ClearStorage
      <4>2. indexAdd[t] \cap LiveC = {} BY <1>0, <2>0, <3>1, PrivateUnwritten DEF LiveC
      <4>3. \A u \in Threads \ {t} : indexAdd[t] \cap indexAdd[u] = {} BY <1>0 DEF Fresh
      <4> QED BY <2>2, <3>1, <4>1, <4>2, <4>3 DEF RetiredInv
    <3>3. CASE ~AbortOp(t)
      <4>1. retired' = retired
        <5> USE DEF lnodeVars
        <5>1. CASE CheckVersion(t) \/ CheckSingleton(t) \/ IncrementAndAbort(t) \/ ReadNext(t)
          BY <3>3, <5>1 DEF CheckVersion, CheckSingleton, IncrementAndAbort, ReadNext
        <5>2. CASE TXbegin(t) \/ Call(t) \/ SearchPred(t) \/ SkipDeleted(t) \/ Advance(t) \/ RemoveFound(t)
          BY <5>2 DEF TXbegin, Call, SearchPred, SkipDeleted, Advance, RemoveFound
        <5>3. CASE PutFound(t) \/ PutNew(t) \/ Get(t) \/ RemoveAbsent(t) \/ RemoveFinish(t)
          BY <5>3 DEF PutFound, PutNew, Get, RemoveAbsent, RemoveFinish
        <5> QED BY <2>3, <5>1, <5>2, <5>3 DEF OpStep
      <4> QED BY <1>0, <2>2, <3>1, <4>1 DEF RetiredInv
    <3> QED BY <3>2, <3>3
  <2>4. CASE EndStep(t)
    <3>1. CASE RemoveFromIndex(t)
      <4>1. PICK n \in todo[t] : retired' = retired \cup {n} BY <3>1 DEF RemoveFromIndex
      <4>2. /\ pc[t] = "idxRemove" /\ pc' = pc /\ abort' = abort /\ indexAdd' = indexAdd
        BY <3>1 DEF RemoveFromIndex, storeVars
      <4>3. n \in DeadC /\ Committed(t)' BY <2>0, <4>1, <4>2 DEF Knows, IndexKnows, Committed
      <4>4. LiveC' = LiveC BY <2>4, <3>1, IndexSteps
      <4>5. \A u \in Threads : ~Committed(u) => n \notin indexAdd[u] BY <1>0, <4>3 DEF Fresh
      <4> QED BY <2>2, <4>1, <4>2, <4>3, <4>4, <4>5 DEF RetiredInv, LiveC
    <3>2. CASE ~RemoveFromIndex(t)
      <4>1. retired' = retired
        BY <2>4, <3>2 DEF EndStep, LockNode, LockedAll, Validate, ValidateVersion, ValidateSingleton,
           IncrementAndClear, setSingletonLoad, setSingletonStore,
           ValidatedReadOnly, TakeVersion, WriteNode, StampNode, WroteAll, ReleaseNode, UpdateIndex,
           AddToIndex, AbortEnd, Commit, lnodeVars
      <4>2. CASE TakeVersion(t)
        <5>1. ~Committed(t) /\ Committed(t)' /\ LiveC' = LiveS(t) BY <4>2, TakesEffect
        <5> QED BY <2>2, <4>1, <5>1 DEF RetiredInv, LiveS
      <4>3. CASE ~TakeVersion(t)
        <5>1. LiveC' = LiveC
          BY <2>4, <3>2, <4>3, WriteNodeKeeps, StampNodeKeeps, IndexSteps, EndOfTx, QuietEnd DEF EndStep, ValidateStep
        <5>2. ~Committed(t)' => indexAdd'[t] = {} \/ (indexAdd'[t] = indexAdd[t] /\ ~Committed(t))
          <6>1. CASE AbortEnd(t) \/ Commit(t)
            BY <1>0, <6>1, LocalFunctions DEF AbortEnd, Commit, ClearStorage
          <6>2. CASE ~AbortEnd(t) /\ ~Commit(t)
            <7>1. indexAdd' = indexAdd
              BY <2>4, <6>2 DEF EndStep, LockNode, LockedAll, Validate, ValidateVersion, ValidateSingleton,
                 IncrementAndClear, setSingletonLoad,
                 setSingletonStore, ValidatedReadOnly, TakeVersion, WriteNode, StampNode, WroteAll,
                 ReleaseNode, UpdateIndex, AddToIndex, RemoveFromIndex, storeVars
            <7>2. Committed(t) => Committed(t)'
              <8>1. pc[t] \in {"write", "stamp", "idxAdd", "idxRemove"} \/ (pc[t] = "release" /\ ~abort[t])
                      => \/ pc'[t] \in {"write", "stamp", "idxAdd", "idxRemove"}
                         \/ pc'[t] = "release" /\ ~abort'[t]
                <9> USE <1>0, LocalFunctions DEF Goto, endVars
                <9>1. CASE LockNode(t) \/ LockedAll(t) \/ ValidatedReadOnly(t)
                  BY <9>1 DEF LockNode, LockedAll, ValidatedReadOnly
                <9>0. CASE ValidateStep(t) BY <9>0, ValidateFrame DEF Validating
                <9>2. CASE setSingletonLoad(t) \/ setSingletonStore(t)
                  BY <9>2 DEF setSingletonLoad, setSingletonStore
                <9>3. CASE WriteNode(t) \/ StampNode(t) BY <9>3 DEF WriteNode, StampNode
                <9>4. CASE WroteAll(t)
                  BY <2>0, <9>4 DEF WroteAll, Knows, Resets
                <9>5. CASE ReleaseNode(t) BY <9>5 DEF ReleaseNode
                <9>6. CASE UpdateIndex(t) \/ AddToIndex(t) BY <9>6 DEF UpdateIndex, AddToIndex
                <9> QED
                  BY <2>4, <3>2, <4>3, <6>2, <9>0, <9>1, <9>2, <9>3, <9>4, <9>5, <9>6
                  DEF EndStep, ValidateStep
              <8> QED BY <8>1 DEF Committed
            <7> QED BY <7>1, <7>2
          <6> QED BY <6>1, <6>2
        <5> QED BY <2>2, <4>1, <5>1, <5>2 DEF RetiredInv
      <4> QED BY <4>2, <4>3
    <3> QED BY <3>1, <3>2
  <2> QED BY <1>1, <2>3, <2>4 DEF TXStep
<1>2. CASE UNCHANGED vars
  <2>1. /\ retired' = retired /\ index' = index /\ m_version_mask' = m_version_mask /\ pc' = pc
        /\ pred' = pred /\ writeSet' = writeSet /\ indexAdd' = indexAdd /\ todo' = todo
        /\ abort' = abort
    BY <1>2 DEF vars, lnodeVars, txVars, opVars, storeVars, endVars
  <2>2. LiveC' = LiveC
    BY <2>1 DEF LiveC, Public, DeadC, Added, Committed, Writing, isDeleted
  <2> QED BY <2>1, <2>2 DEF RetiredInv, Committed
<1> QED BY <1>1, <1>2 DEF TXNext, Finished

(* What the record manager was told to reclaim is not linked while no node *)
(* is locked, and never comes back, as long as no put copies the link of a *)
(* node that is locked.                                                    *)
THEOREM RetiredForGood ==
  TXSpec /\ [][NoBlindPut]_vars => []((\A n \in AllNodes : ~isLocked(n)) => RetiredUnlinked)
<1>1. TXInit => Base /\ ListInv /\ RetiredInv
  <2>1. TXInit => RetiredInv BY DEF TXInit, LNodeInit, RetiredInv
  <2> QED BY <2>1, TypeInit, LockInit, ClockInit, OrderInit, ListInit DEF Base
<1>2. Base /\ [TXNext]_vars => Base'
  BY TypeNext, LockNext, ClockNext, OrderNext DEF Base
<1>3. Base /\ Base' /\ ListInv /\ RetiredInv /\ [TXNext]_vars /\ [NoBlindPut]_vars
        => ListInv' /\ RetiredInv'
  BY ListNext, RetiredNext
<1>4. Base /\ ListInv /\ RetiredInv => ((\A n \in AllNodes : ~isLocked(n)) => RetiredUnlinked)
  BY AtRest DEF RetiredInv, RetiredUnlinked
<1> QED BY <1>1, <1>2, <1>3, <1>4, PTL DEF TXSpec

=============================================================================
