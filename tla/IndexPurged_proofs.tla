------------------------- MODULE IndexPurged_proofs -------------------------
(***************************************************************************)
(* Purged for every set of threads and nodes, every bound and all calls.   *)
(*                                                                         *)
(* The argument.  As long as no link or unlink of the bottom level raced,  *)
(* a live node some walk can come across is reachable at that level        *)
(* (Reached): an unlink skips one deleted node, and add links behind a     *)
(* live node.  So the walk that removes a node is in the reachable part of *)
(* the bottom level whenever the node it stands at is live, and there the  *)
(* way to the deleted node cannot be missed: it stops only after the node  *)
(* has become unreachable (Swept).  A deleted node is linked again only by *)
(* the call of add that overlapped with its removal.                       *)
(***************************************************************************)
EXTENDS Index_proofs

(* A link, or a search, has come across an index node of n.                *)
Met(n) == \E x \in NodeIndex : x[1] = n /\ (Known(x) \/ \E u \in Threads : Passes(loc[u], x))

(* What a call knows of its node: add's is live or in overlap, remove's    *)
(* is deleted.                                                             *)
NodeOK(c, lv, ov, of) ==
  /\ c.op = "add" => c.node \in lv \cup ov
  /\ c.op = "remove" => c.node \in of \ lv

ClientNodes == \A t \in Threads : NodeOK(call[t], live, overlap, offered)

(* add links the bottom level first, and nobody comes across its node      *)
(* before.  Until then it alone sets the right link of the new entry.      *)
BottomFirst ==
  \A t \in Threads :
    /\ pc[t] \in {"grow", "raise"} => LinkedAt(t, 0)
    /\ call[t].op = "add" /\ Met(call[t].node) => LinkedAt(t, 0)
    /\ pc[t] = "cas" /\ loc[t].level = 0 => m_right[NewIndex(t, 0)] = loc[t].next

(* Only deleted nodes are unlinked.                                        *)
UnlinksDead == \A t \in Threads : pc[t] \in {"unlink", "succ", "cut"} => loc[t].next[1] \notin live

(* A live node a walk may come across is reachable at the bottom level.    *)
Reached ==
  \A n \in live :
    Met(n) \/ (\E t \in Threads : call[t] = add(n) /\ LinkedAt(t, 0)) => n \in Indexed

(* A deleted node that is reachable has a removal still searching for it.  *)
Sweeping(t, n) == call[t] = remove(n) /\ pc[t] \in {"find", "curr"} \cup SearchPcs
Swept ==
  \A n \in Indexed : n \in live \cup overlap \/ \E t \in Threads : Sweeping(t, n)

(* The walk of a removal along the bottom level does not miss its node.    *)
OnTheWay(l, lv, n) ==
  l.next # Null /\ (l.next[1] \notin lv \/ KeyOf(l.next) < Key[n])
WalkFinds ==
  \A t \in Threads :
    /\ pc[t] \in {"test", "found"} /\ loc[t].level = 0 /\ Alive(loc[t].prev)
    /\ call[t].op = "remove" /\ call[t].node \in Indexed \ overlap
    => pc[t] = "test" /\ OnTheWay(loc[t], live, call[t].node)

PurgeInv ==
  /\ IndexInv /\ ClientNodes /\ BottomFirst /\ UnlinksDead /\ raced \in BOOLEAN
  /\ raced \/ (Reached /\ Swept /\ WalkFinds)

-----------------------------------------------------------------------------
(* The part of the bottom level that is reachable, for links mr.           *)

Shut(mr, s) == \A m \in s \cup {head} : mr[<<m, 0>>] = Null \/ mr[<<m, 0>>][1] \in s
Reach(mr)   == {n \in Nodes : \A s \in SUBSET Nodes : Shut(mr, s) => n \in s}

LEMMA IndexedReach == Indexed = Reach(m_right) /\ Indexed' = Reach(m_right')
  BY DEF Indexed, Reach, Shut

(* It is the smallest set that links do not lead out of.                   *)
LEMMA ReachLeast ==
  ASSUME NEW mr \in [IndexNode -> RightOf]
  PROVE  /\ Reach(mr) \in SUBSET Nodes
         /\ Shut(mr, Reach(mr))
         /\ \A s \in SUBSET Nodes : Shut(mr, s) => Reach(mr) \subseteq s
<1>1. \A m \in Nodes \cup {head} : mr[<<m, 0>>] # Null => mr[<<m, 0>>][1] \in Nodes
  <2>1. \A m \in Nodes \cup {head} : <<m, 0>> \in IndexNode
    BY Universe, BoundAssumption DEF Levels, m_head_bottom
  <2> QED BY <2>1, Universe DEF RightOf
<1>2. Reach(mr) \in SUBSET Nodes /\ \A s \in SUBSET Nodes : Shut(mr, s) => Reach(mr) \subseteq s
  BY DEF Reach
<1>3. ASSUME NEW m \in Reach(mr) \cup {head}, mr[<<m, 0>>] # Null
      PROVE  mr[<<m, 0>>][1] \in Reach(mr)
  <2>1. ASSUME NEW s \in SUBSET Nodes, Shut(mr, s) PROVE mr[<<m, 0>>][1] \in s
    BY <1>2, <1>3, <2>1 DEF Shut
  <2>2. mr[<<m, 0>>][1] \in Nodes
    BY <1>1, <1>2, <1>3
  <2> QED BY <2>1, <2>2 DEF Reach
<1> QED BY <1>2, <1>3 DEF Shut

(* A change of links elsewhere does not matter.                            *)
LEMMA ReachSame ==
  ASSUME NEW mr \in [IndexNode -> RightOf], NEW nr \in [IndexNode -> RightOf],
         \A m \in Reach(mr) \cup {head} : nr[<<m, 0>>] = mr[<<m, 0>>]
  PROVE  Reach(nr) = Reach(mr)
<1> DEFINE R == Reach(mr)
<1>1. R \in SUBSET Nodes /\ Shut(mr, R) /\ Shut(nr, Reach(nr)) /\ Reach(nr) \in SUBSET Nodes
  BY ReachLeast
<1>2. Shut(nr, R)
  BY <1>1 DEF Shut
<1>3. Reach(nr) \subseteq R
  BY <1>1, <1>2, ReachLeast
<1>4. Shut(mr, Reach(nr))
  BY <1>1, <1>3 DEF Shut
<1>5. R \subseteq Reach(nr)
  BY <1>1, <1>4, ReachLeast
<1> QED BY <1>3, <1>5

(* An unlink of x behind p that has read the link of x: only x is lost.    *)
LEMMA ReachUnlink ==
  ASSUME NEW mr \in [IndexNode -> RightOf], NEW nr \in [IndexNode -> RightOf],
         NEW p \in Nodes \cup {head}, NEW x \in Nodes,
         mr[<<p, 0>>] = <<x, 0>>,
         nr[<<p, 0>>] = mr[<<x, 0>>],
         \A m \in Nodes \cup {head} : m # p => nr[<<m, 0>>] = mr[<<m, 0>>]
  PROVE  Reach(nr) \subseteq Reach(mr) /\ Reach(mr) \ {x} \subseteq Reach(nr)
<1> DEFINE R == Reach(mr)
           Q == Reach(nr)
<1>1. /\ R \in SUBSET Nodes /\ Shut(mr, R) /\ Shut(nr, Q) /\ Q \in SUBSET Nodes
      /\ \A s \in SUBSET Nodes : Shut(mr, s) => R \subseteq s
      /\ \A s \in SUBSET Nodes : Shut(nr, s) => Q \subseteq s
  BY ReachLeast
<1> HIDE DEF R, Q
<1>2. <<x, 0>> # Null /\ <<x, 0>>[1] = x
  BY Universe, BoundAssumption DEF Levels
<1>3. Shut(nr, R)
  <2> SUFFICES ASSUME NEW m \in R \cup {head}, nr[<<m, 0>>] # Null PROVE nr[<<m, 0>>][1] \in R
    BY DEF Shut
  <2>1. CASE m = p
    BY <1>1, <1>2, <2>1 DEF Shut
  <2>2. CASE m # p
    BY <1>1, <2>2 DEF Shut
  <2> QED BY <2>1, <2>2
<1>4. R \subseteq Q \cup {x}
  <2>1. CASE p \in Q \cup {head}
    <3>1. ASSUME NEW m \in Q \cup {x, head}, mr[<<m, 0>>] # Null
          PROVE  mr[<<m, 0>>][1] \in Q \cup {x}
      <4>1. CASE m = p
        BY <1>2, <4>1
      <4>2. CASE m = x /\ m # p
        BY <1>1, <2>1, <3>1, <4>2 DEF Shut
      <4>3. CASE m # p /\ m # x
        BY <1>1, <3>1, <4>3 DEF Shut
      <4> QED BY <4>1, <4>2, <4>3
    <3>2. Shut(mr, Q \cup {x})
      BY <3>1 DEF Shut
    <3> QED BY <1>1, <3>2
  <2>2. CASE p \notin Q \cup {head}
    <3>1. Shut(mr, Q)
      BY <1>1, <2>2 DEF Shut
    <3> QED BY <1>1, <3>1
  <2> QED BY <2>1, <2>2
<1> QED BY <1>1, <1>3, <1>4 DEF R, Q

(* A link of x behind p: x is gained if p is reachable, nothing is lost.   *)
LEMMA ReachLink ==
  ASSUME NEW mr \in [IndexNode -> RightOf], NEW nr \in [IndexNode -> RightOf],
         NEW p \in Nodes \cup {head}, NEW x \in Nodes, p # x,
         mr[<<x, 0>>] = mr[<<p, 0>>],
         nr[<<p, 0>>] = <<x, 0>>,
         \A m \in Nodes \cup {head} : m # p => nr[<<m, 0>>] = mr[<<m, 0>>]
  PROVE  /\ Reach(mr) \subseteq Reach(nr)
         /\ Reach(nr) \subseteq Reach(mr) \cup {x}
         /\ p \in Reach(mr) \cup {head} => x \in Reach(nr)
<1> DEFINE R == Reach(mr)
           Q == Reach(nr)
<1>1. /\ R \in SUBSET Nodes /\ Shut(mr, R) /\ Shut(nr, Q) /\ Q \in SUBSET Nodes
      /\ \A s \in SUBSET Nodes : Shut(mr, s) => R \subseteq s
      /\ \A s \in SUBSET Nodes : Shut(nr, s) => Q \subseteq s
  BY ReachLeast
<1> HIDE DEF R, Q
<1>2. <<x, 0>> # Null /\ <<x, 0>>[1] = x /\ x # head
  BY Universe, BoundAssumption, KeyAssumption DEF Levels
<1>3. R \subseteq Q
  <2>1. ASSUME NEW m \in Q \cup {head}, mr[<<m, 0>>] # Null PROVE mr[<<m, 0>>][1] \in Q
    <3>1. CASE m = p
      <4>1. x \in Q
        BY <1>1, <1>2, <2>1, <3>1 DEF Shut
      <4> QED BY <1>1, <2>1, <3>1, <4>1 DEF Shut
    <3>2. CASE m # p
      BY <1>1, <2>1, <3>2 DEF Shut
    <3> QED BY <3>1, <3>2
  <2>2. Shut(mr, Q)
    BY <2>1 DEF Shut
  <2> QED BY <1>1, <2>2
<1>4. Q \subseteq R \cup {x}
  <2>1. CASE p \in R \cup {head}
    <3>1. ASSUME NEW m \in R \cup {x, head}, nr[<<m, 0>>] # Null
          PROVE  nr[<<m, 0>>][1] \in R \cup {x}
      <4>1. CASE m = p
        BY <1>2, <4>1
      <4>2. CASE m = x
        BY <1>1, <2>1, <3>1, <4>2 DEF Shut
      <4>3. CASE m # p /\ m # x
        BY <1>1, <3>1, <4>3 DEF Shut
      <4> QED BY <4>1, <4>2, <4>3
    <3>2. Shut(nr, R \cup {x})
      BY <3>1 DEF Shut
    <3> QED BY <1>1, <3>2
  <2>2. CASE p \notin R \cup {head}
    <3>1. Shut(nr, R)
      BY <1>1, <2>2 DEF Shut
    <3> QED BY <1>1, <3>1
  <2> QED BY <2>1, <2>2
<1>5. p \in R \cup {head} => x \in Q
  BY <1>1, <1>2, <1>3 DEF Shut
<1> QED BY <1>3, <1>4, <1>5 DEF R, Q

(* The nodes links lead to from node a, which they include.                *)
Leads(mr, s) == \A m \in s : mr[<<m, 0>>] = Null \/ mr[<<m, 0>>][1] \in s
After(mr, a) == {n \in Nodes : \A s \in SUBSET Nodes : a \in s /\ Leads(mr, s) => n \in s}

LEMMA AfterFacts ==
  ASSUME NEW mr \in [IndexNode -> RightOf], NEW a \in Nodes
  PROVE  /\ After(mr, a) \in SUBSET Nodes /\ a \in After(mr, a) /\ Leads(mr, After(mr, a))
         /\ \A s \in SUBSET Nodes : a \in s /\ Leads(mr, s) => After(mr, a) \subseteq s
         /\ \A b \in After(mr, a) : b # a =>
              mr[<<a, 0>>] # Null /\ b \in After(mr, mr[<<a, 0>>][1])
<1>1. \A m \in Nodes : mr[<<m, 0>>] # Null => mr[<<m, 0>>][1] \in Nodes
  <2>1. \A m \in Nodes : <<m, 0>> \in IndexNode
    BY Universe, BoundAssumption DEF Levels
  <2> QED BY <2>1, Universe DEF RightOf
<1>2. /\ After(mr, a) \in SUBSET Nodes /\ a \in After(mr, a)
      /\ \A s \in SUBSET Nodes : a \in s /\ Leads(mr, s) => After(mr, a) \subseteq s
  BY DEF After
<1>3. ASSUME NEW m \in After(mr, a), mr[<<m, 0>>] # Null
      PROVE  mr[<<m, 0>>][1] \in After(mr, a)
  <2>1. ASSUME NEW s \in SUBSET Nodes, a \in s, Leads(mr, s) PROVE mr[<<m, 0>>][1] \in s
    BY <1>2, <1>3, <2>1 DEF Leads
  <2> QED BY <1>1, <1>2, <1>3, <2>1 DEF After
<1>4. ASSUME NEW b \in After(mr, a), b # a
      PROVE  mr[<<a, 0>>] # Null /\ b \in After(mr, mr[<<a, 0>>][1])
  <2>1. mr[<<a, 0>>] # Null
    <3>1. ASSUME mr[<<a, 0>>] = Null PROVE FALSE
      <4>1. {a} \in SUBSET Nodes /\ Leads(mr, {a})
        BY <3>1 DEF Leads
      <4> QED BY <1>2, <1>4, <4>1
    <3> QED BY <3>1
  <2>2. ASSUME NEW s \in SUBSET Nodes, mr[<<a, 0>>][1] \in s, Leads(mr, s) PROVE b \in s
    <3>1. s \cup {a} \in SUBSET Nodes /\ Leads(mr, s \cup {a})
      BY <2>2 DEF Leads
    <3>2. b \in s \cup {a}
      BY <1>2, <1>4, <3>1
    <3> QED BY <1>4, <3>2
  <2> QED BY <1>2, <1>4, <2>1, <2>2 DEF After
<1> QED BY <1>2, <1>3, <1>4 DEF Leads

(* Keys grow along the links, with the exception LevelsSorted makes.       *)
LEMMA AfterSorted ==
  ASSUME IndexTypeOK, LevelsSorted, NEW a \in Nodes, NEW b \in After(m_right, a)
  PROVE  b = a \/ Key[a] < Key[b] \/ (Key[a] = Key[b] /\ a \notin live)
<1> DEFINE S == {n \in Nodes : n = a \/ Key[a] < Key[n] \/ (Key[a] = Key[n] /\ a \notin live)}
<1>1. m_right \in [IndexNode -> RightOf]
  BY DEF IndexTypeOK
<1>2. ASSUME NEW m \in S, m_right[<<m, 0>>] # Null PROVE m_right[<<m, 0>>][1] \in S
  <2> DEFINE r == m_right[<<m, 0>>]
  <2>1. <<m, 0>> \in IndexNode /\ r \in NodeIndex /\ r[1] \in Nodes
    BY <1>1, <1>2, Universe, BoundAssumption DEF Levels, RightOf
  <2>2. Key[m] <= Key[r[1]] /\ (Key[m] = Key[r[1]] => m \notin live)
    BY <1>2, <2>1 DEF LevelsSorted, KeyOf, Alive
  <2>3. Key[a] \in Int /\ Key[m] \in Int /\ Key[r[1]] \in Int
    BY <2>1, Keys
  <2> QED BY <2>1, <2>2, <2>3
<1>3. S \in SUBSET Nodes /\ a \in S /\ Leads(m_right, S)
  BY <1>2 DEF Leads
<1>4. b \in S
  BY <1>1, <1>3, AfterFacts
<1> QED BY <1>4

(* From a reachable live node p, or the head, to the left of a reachable   *)
(* deleted node n the way leads on: to n itself, to another deleted node,  *)
(* or to a node to the left of n.                                          *)
LEMMA WayOn ==
  ASSUME IndexTypeOK, LevelsSorted, NEW n \in Indexed, n \notin live,
         NEW p \in Indexed \cup {head}, p = head \/ (p \in live /\ Key[p] < Key[n])
  PROVE  LET r == m_right[<<p, 0>>]
         IN  r # Null /\ (r[1] \notin live \/ KeyOf(r) < Key[n])
<1> DEFINE r == m_right[<<p, 0>>]
           S == IF p = head THEN {} ELSE {j \in Nodes : p \in After(m_right, j)}
           A == IF r = Null THEN {} ELSE After(m_right, r[1])
<1>1. m_right \in [IndexNode -> RightOf] /\ n \in Nodes /\ Indexed = Reach(m_right)
      /\ p \in Nodes \cup {head}
  BY IndexedReach, ReachLeast DEF IndexTypeOK, Indexed
<1>2. /\ \A m \in Nodes \cup {head} : <<m, 0>> \in IndexNode
      /\ \A m \in Nodes \cup {head} : m_right[<<m, 0>>] # Null => m_right[<<m, 0>>][1] \in Nodes
  <2>1. \A m \in Nodes \cup {head} : <<m, 0>> \in IndexNode
    BY Universe, BoundAssumption DEF Levels, m_head_bottom
  <2> QED BY <1>1, <2>1, Universe DEF RightOf
<1>3. Leads(m_right, S \cup A) /\ S \cup A \in SUBSET Nodes
  <2>1. A \in SUBSET Nodes /\ Leads(m_right, A) /\ (r # Null => r[1] \in A)
    <3>1. CASE r = Null
      BY <3>1 DEF Leads
    <3>2. CASE r # Null
      <4>1. r[1] \in Nodes /\ A = After(m_right, r[1])
        BY <1>1, <1>2, <3>2
      <4> HIDE DEF A, r
      <4> QED BY <1>1, <4>1, AfterFacts
    <3> QED BY <3>1, <3>2
  <2>2. ASSUME NEW m \in S, m_right[<<m, 0>>] # Null
        PROVE  m_right[<<m, 0>>][1] \in S \cup A
    <3>1. p # head /\ m \in Nodes /\ p \in After(m_right, m) /\ m_right[<<m, 0>>][1] \in Nodes
      BY <1>2, <2>2
    <3>2. CASE m = p
      BY <2>1, <2>2, <3>2
    <3>3. CASE m # p
      <4>1. p \in After(m_right, m_right[<<m, 0>>][1])
        BY <1>1, <3>1, <3>3, AfterFacts
      <4> QED BY <3>1, <4>1
    <3> QED BY <3>2, <3>3
  <2> HIDE DEF A, r
  <2> QED BY <2>1, <2>2 DEF Leads
<1>4. Shut(m_right, S \cup A)
  <2> DEFINE f == m_right[<<head, 0>>]
  <2>1. f = Null \/ f[1] \in S \cup A
    <3>1. CASE p = head
      BY <1>1, <1>2, <3>1, AfterFacts, ZenonT(30)
    <3>2. CASE p # head /\ f # Null
      <4>1. f[1] \in Nodes
        BY <1>2, <3>2
      <4>2. After(m_right, f[1]) \in SUBSET Nodes /\ Leads(m_right, After(m_right, f[1]))
            /\ f[1] \in After(m_right, f[1])
        BY <1>1, <4>1, AfterFacts
      <4>3. Shut(m_right, After(m_right, f[1]))
        BY <4>2 DEF Shut, Leads
      <4>4. p \in After(m_right, f[1])
        BY <1>1, <3>2, <4>2, <4>3, ReachLeast
      <4> QED BY <3>2, <4>1, <4>4
    <3> QED BY <3>1, <3>2
  <2> HIDE DEF f, S, A
  <2> QED BY <1>3, <2>1 DEF Shut, Leads, f
<1>5. n \in S \cup A
  BY <1>1, <1>3, <1>4, ReachLeast
<1>6. n \notin S
  <2>1. ASSUME p # head, p \in After(m_right, n) PROVE FALSE
    <3>1. p = n \/ Key[n] < Key[p] \/ Key[n] = Key[p]
      BY <1>1, <2>1, AfterSorted
    <3>2. Key[n] \in Int /\ Key[p] \in Int /\ Key[p] < Key[n]
      BY <1>1, <2>1, Keys
    <3> QED BY <3>1, <3>2
  <2> QED BY <2>1
<1>7. r # Null /\ n \in After(m_right, r[1]) /\ r[1] \in Nodes
  BY <1>1, <1>2, <1>5, <1>6
<1>8. n = r[1] \/ Key[r[1]] < Key[n] \/ r[1] \notin live
  BY <1>7, AfterSorted
<1> QED BY <1>7, <1>8 DEF KeyOf

-----------------------------------------------------------------------------
(* What the steps of a call do.                                            *)

(* The steps that lead to the places the invariant speaks of.              *)
LEMMA Arrivals ==
  ASSUME IndexInv, NEW t \in Threads, InCall(t)
  PROVE  /\ pc'[t] = "cas" => Link(t)
         /\ pc'[t] = "up" => LinkCas(t)
         /\ pc'[t] \in {"grow", "raise"} => pc[t] \in {"up", "grow"}
         /\ pc'[t] = "test" => Walk(t)
         /\ pc'[t] = "found" => Test(t)
         /\ pc'[t] \in {"unlink", "succ", "cut"} => Test(t) \/ UnlinkCheck(t) \/ UnlinkRead(t)
<1> DEFINE Places == {"cas", "up", "grow", "raise", "test", "found", "unlink", "succ", "cut"}
<1>0. IndexTypeOK /\ HeadInv /\ ThreadInv /\ ClientInv
  BY DEF IndexInv
<1> USE <1>0 DEF Goto, IndexTypeOK
<1>1. CASE FindTop(t) \/ CheckCurr(t)
  BY <1>1 DEF FindTop, CheckCurr
<1>2. CASE Walk(t) \/ UnlinkCheck(t) \/ UnlinkRead(t) \/ Test(t)
  BY <1>2 DEF Walk, UnlinkCheck, UnlinkRead, WalkFailed, Test
<1>3. CASE Found(t)
  <2>1. pc'[t] \in {"curr", AfterSearch(t)} /\ pc[t] = "found"
    BY <1>3 DEF Found
  <2>2. AfterSearch(t) \in {"build", "peek", "reply"}
    BY <2>1, CallFields DEF AfterSearch, ClientInv
  <2> QED BY <2>1, <2>2
<1>4. CASE UnlinkCas(t)
  BY <1>4 DEF UnlinkCas, WalkFailed
<1>5. CASE Build(t)
  <2>1. PICK h \in 0 .. Min(MaxLevel, Cardinality(DOMAIN loc[t].prevs) + 1) :
          InsertAt(t, m_head_bottom, [loc[t] EXCEPT !.height = h])
    BY <1>5 DEF Build
  <2> DEFINE l == loc[t]
             ll == [l EXCEPT !.height = h]
  <2>2. pc[t] = "build" /\ 0 \in DOMAIN l.prevs
    BY <1>5, ThreadFacts DEF Build, LevelOK, EntriesOK
  <2>3. h \in Levels
    BY ThreadFacts, DrawnLevel
  <2>4. ll.prevs = l.prevs /\ ll.height = h
    <3>1. l \in Locals
      OBVIOUS
    <3> HIDE DEF l
    <3> QED BY <2>3, <3>1 DEF Locals
  <2>5. m_level[m_head_bottom] = 0 /\ m_head_bottom # Null
    BY Universe DEF HeadInv
  <2>6. 0 <= h
    BY <2>3, BoundAssumption DEF Levels
  <2>7. pc'[t] = "link"
    <3> HIDE DEF ll
    <3> QED BY <2>1, <2>2, <2>4, <2>5, <2>6 DEF InsertAt, ll
  <2> QED BY <2>7
<1>6. CASE Link(t)
  BY <1>6 DEF Link
<1>7. CASE LinkCas(t)
  BY <1>7 DEF LinkCas
<1>8. CASE LinkFailed(t)
  BY <1>8 DEF LinkFailed, Exit, Leave
<1>9. CASE NextLevel(t)
  <2>1. pc[t] = "up" /\ pc'[t] \in {"link", "grow", "idle"}
    BY <1>9 DEF NextLevel, InsertAt, Leave
  <2> QED BY <2>1
<1>10. CASE Grow(t)
  BY <1>10 DEF Grow, Exit, Leave
<1>11. CASE \/ Raise(t) \/ Peek(t) \/ Reduce(t) \/ LooksEmpty(t) \/ Lower(t) \/ Recheck(t)
            \/ Backout(t) \/ Reply(t)
  <2>1. pc'[t] \in {"idle", "reduce", "empty", "lower", "recheck", "backout", "find"}
    BY <1>11 DEF Raise, Peek, Reduce, LooksEmpty, Lower, Recheck, Backout, Reply, Exit, Leave
  <2> QED BY <2>1
<1> QED BY <1>1, <1>2, <1>3, <1>4, <1>5, <1>6, <1>7, <1>8, <1>9, <1>10, <1>11 DEF InCall

(* Races are seen by the casRight of a link or an unlink only.             *)
LEMMA RacedNext ==
  ASSUME raced \in BOOLEAN, NEW t \in Threads, InCall(t)
  PROVE  overlap' = overlap /\ raced' \in BOOLEAN /\ (raced => raced')
<1> USE DEF client, Exit, Leave
<1>1. CASE FindTop(t) \/ CheckCurr(t) \/ Walk(t) \/ Test(t) \/ Found(t)
  BY <1>1 DEF FindTop, CheckCurr, Walk, Test, Found
<1>2. CASE UnlinkCheck(t) \/ UnlinkRead(t) \/ Link(t)
  BY <1>2 DEF UnlinkCheck, UnlinkRead, Link
<1>3. CASE UnlinkCas(t) \/ LinkCas(t)
  <2>1. overlap' = overlap
    BY <1>3 DEF UnlinkCas, LinkCas
  <2>2. CASE raced' = raced
    BY <2>1, <2>2
  <2>3. ASSUME NEW b \in BOOLEAN, raced' = (raced \/ b) PROVE raced' \in BOOLEAN /\ (raced => raced')
    BY <2>3
  <2> QED BY <1>3, <2>1, <2>2, <2>3 DEF UnlinkCas, LinkCas
<1>4. CASE Build(t) \/ NextLevel(t)
  BY <1>4 DEF Build, NextLevel, InsertAt
<1>5. CASE LinkFailed(t) \/ Grow(t) \/ Raise(t)
  BY <1>5 DEF LinkFailed, Grow, Raise
<1>6. CASE Peek(t) \/ Reduce(t) \/ LooksEmpty(t) \/ Lower(t) \/ Recheck(t) \/ Backout(t) \/ Reply(t)
  BY <1>6 DEF Peek, Reduce, LooksEmpty, Lower, Recheck, Backout, Reply
<1> QED BY <1>1, <1>2, <1>3, <1>4, <1>5, <1>6 DEF InCall

(* A call stays the same until it ends.                                    *)
LEMMA CallKept ==
  ASSUME IndexInv, NEW t \in Threads, InCall(t), NEW u \in Threads, call'[u].op # "none"
  PROVE  call'[u] = call[u]
<1>1. Shape(t) /\ IndexTypeOK
  BY InCallShape DEF IndexInv
<1>2. CASE call' = call BY <1>2
<1>3. CASE Leave(t)
  <2>1. call'[t] = NoCall /\ NoCall.op = "none"
    BY <1>1, <1>3 DEF Leave, NoCall, IndexTypeOK
  <2> QED BY <1>1, <2>1 DEF Shape, Same
<1> QED BY <1>1, <1>2, <1>3 DEF Shape

LEMMA ClientNodesNext ==
  ASSUME IndexInv, ClientNodes, raced \in BOOLEAN, NEW t \in Threads, InCall(t)
  PROVE  ClientNodes'
<1>1. live' = live /\ offered' = offered /\ overlap' = overlap
  BY InCallShape, RacedNext DEF IndexInv, Shape
<1>2. ASSUME NEW u \in Threads PROVE NodeOK(call'[u], live, overlap, offered)
  <2>1. CASE call'[u].op = "none"
    BY <2>1 DEF NodeOK
  <2>2. CASE call'[u].op # "none"
    BY <2>2, CallKept DEF ClientNodes
  <2> QED BY <2>1, <2>2
<1> QED BY <1>1, <1>2 DEF ClientNodes

(* A step comes across a new node when it links it.                        *)
LEMMA MetNext ==
  ASSUME IndexInv, NEW t \in Threads, InCall(t), NEW n, Met(n)'
  PROVE  \/ Met(n)
         \/ /\ pc[t] = "cas" /\ pc'[t] = "up" /\ loc' = loc /\ call' = call
            /\ call[t].op = "add" /\ n = call[t].node
         \/ pc[t] = "raise" /\ Leave(t) /\ call[t].op = "add" /\ n = call[t].node
<1>1. Shape(t) /\ IndexTypeOK /\ ThreadInv
  BY InCallShape DEF IndexInv
<1>2. PICK x \in NodeIndex : x[1] = n /\ (Known(x)' \/ \E u \in Threads : Passes(loc'[u], x))
  BY DEF Met, Passes
<1>3. pc[t] \in {"cas", "raise"} => call[t].op = "add"
  BY <1>1, ThreadFacts DEF StageOK, AddPcs, LinkPcs
<1>4. CASE Known(x)'
  <2>1. CASE \E u \in Threads : Carries(loc'[u], x)
    <3>1. PICK u \in Threads : Carries(loc'[u], x)
      BY <2>1
    <3>2. CASE u = t
      BY <1>2, <3>1, <3>2, CarriesNext DEF Met
    <3>3. CASE u # t
      BY <1>1, <1>2, <3>1, <3>3 DEF Shape, Same, Met, Known
    <3> QED BY <3>2, <3>3
  <2>2. CASE \E y \in IndexNode : m_right'[y] = x
    <3>1. PICK y \in IndexNode : m_right'[y] = x
      BY <2>2
    <3> QED BY <1>2, <1>3, <3>1, LinksNext DEF Met, NewIndex
  <2> QED BY <1>4, <2>1, <2>2 DEF Known, Carries
<1>5. CASE \E u \in Threads : Passes(loc'[u], x)
  <2>1. PICK u \in Threads : Passes(loc'[u], x)
    BY <1>5
  <2>2. CASE u = t
    <3>1. PICK y \in NodeIndex : y[1] = x[1] /\ (Known(y) \/ Passes(loc[t], y))
      BY <2>1, <2>2, PassesNext
    <3> QED BY <1>2, <3>1 DEF Met
  <2>3. CASE u # t
    BY <1>1, <1>2, <2>1, <2>3 DEF Shape, Same, Met
  <2> QED BY <2>2, <2>3
<1> QED BY <1>2, <1>4, <1>5

(* The links of list nodes and of the bottom head that a step changes.     *)
LEMMA RightNext ==
  ASSUME IndexInv, NEW t \in Threads, InCall(t), NEW y \in NodeIndex \cup {m_head_bottom},
         m_right'[y] # m_right[y]
  PROVE  \/ y = loc[t].prev /\ (UnlinkCas(t) \/ LinkCas(t))
         \/ y = NewIndex(t, loc[t].level) /\ Link(t)
<1>1. IndexTypeOK /\ HeadInv /\ ThreadInv /\ m_right \in [IndexNode -> RightOf] /\ y \in IndexNode
  BY Universe DEF IndexInv, IndexTypeOK
<1>2. CASE UnlinkCas(t) \/ LinkCas(t)
  BY <1>1, <1>2 DEF UnlinkCas, LinkCas, casRight
<1>3. CASE Link(t)
  BY <1>1, <1>3 DEF Link
<1>4. CASE Raise(t)
  <2>1. Made(m_head_bottom)
    BY <1>1 DEF HeadInv, Made
  <2>2. NewHead \in HeadIndex => NewHead # y
    BY <1>1, <2>1, NewHeadFresh, Universe
  <2> QED BY <1>1, <1>4, <2>2 DEF Raise, links
<1>5. CASE Lower(t) \/ Backout(t)
  BY <1>5 DEF Lower, Backout, Exit, shared
<1> QED BY <1>2, <1>3, <1>4, <1>5, QuietLinks DEF links

LEMMA BottomFirstNext ==
  ASSUME IndexInv, BottomFirst, NEW t \in Threads, InCall(t)
  PROVE  BottomFirst'
<1>1. Shape(t) /\ IndexTypeOK /\ ThreadInv /\ ClientInv
  BY InCallShape DEF IndexInv
<1>2. ASSUME NEW u \in Threads, call'[u] = call[u], LinkedAt(u, 0) PROVE LinkedAt(u, 0)'
  <2>1. CASE u = t
    BY <1>2, <2>1, InsertedNext
  <2>2. CASE u # t
    BY <1>1, <1>2, <2>2 DEF Shape, Same, LinkedAt
  <2> QED BY <2>1, <2>2
<1>3. ASSUME NEW u \in Threads, pc'[u] \in {"grow", "raise"} PROVE LinkedAt(u, 0)'
  <2>1. CASE u # t
    BY <1>1, <1>2, <1>3, <2>1 DEF Shape, Same, BottomFirst
  <2>2. CASE u = t
    <3>1. pc[t] \in {"up", "grow"}
      BY <1>3, <2>2, Arrivals
    <3>2. LinkedAt(t, 0)
      BY <1>1, <3>1, ThreadFacts DEF BottomFirst, LinkedAt
    <3>3. call' = call
      BY <1>1, <1>3, <2>2 DEF Shape, Leave, Goto, IndexTypeOK
    <3> QED BY <1>2, <2>2, <3>2, <3>3
  <2> QED BY <2>1, <2>2
<1>4. ASSUME NEW u \in Threads, (call[u].op = "add" /\ Met(call[u].node))' PROVE LinkedAt(u, 0)'
  <2>1. call'[u] = call[u] /\ call[u].op = "add" /\ call'[u].op = "add"
    BY <1>4, CallKept
  <2>2. PICK n \in Nodes : n = call[u].node /\ n = call'[u].node
    BY <1>1, <2>1, CallFields DEF IndexTypeOK
  <2>6. Met(n)'
    BY <1>4, <2>2 DEF Met
  <2>3. CASE Met(n)
    BY <1>2, <2>1, <2>2, <2>3 DEF BottomFirst
  <2>4. CASE /\ pc[t] = "cas" /\ pc'[t] = "up" /\ loc' = loc /\ call' = call
             /\ call[t].op = "add" /\ n = call[t].node
    <3>1. u = t
      BY <1>1, <2>1, <2>2, <2>4 DEF ClientInv
    <3> QED BY <1>1, <2>4, <3>1, ThreadFacts DEF LinkedAt
  <2>5. CASE pc[t] = "raise" /\ Leave(t) /\ call[t].op = "add" /\ n = call[t].node
    <3>1. u = t
      BY <1>1, <2>1, <2>2, <2>5 DEF ClientInv
    <3>2. call'[t] = NoCall /\ NoCall.op # "add"
      BY <1>1, <2>5 DEF Leave, NoCall, IndexTypeOK
    <3> QED BY <2>1, <3>1, <3>2
  <2> QED BY <2>3, <2>4, <2>5, <2>6, MetNext
<1>5. ASSUME NEW u \in Threads, pc'[u] = "cas", loc'[u].level = 0
      PROVE  m_right'[<<call'[u].node, 0>>] = loc'[u].next
  <2>1. CASE u = t
    <3>1. Link(t)
      BY <1>5, <2>1, Arrivals
    <3>2. /\ pc[t] = "link" /\ loc' = loc /\ call' = call /\ loc[t].level = 0
          /\ m_right' = [m_right EXCEPT ![NewIndex(t, loc[t].level)] = loc[t].next]
      BY <1>5, <2>1, <3>1 DEF Link, client
    <3>3. NewIndex(t, 0) = <<call[t].node, 0>> /\ NewIndex(t, 0) \in IndexNode
      BY <1>1, <3>2, AddLevel, Universe DEF NewIndex, LinkPcs
    <3> QED BY <1>1, <2>1, <3>2, <3>3 DEF IndexTypeOK
  <2>2. CASE u # t
    <3> DEFINE y == <<call[u].node, 0>>
    <3>1. pc[u] = "cas" /\ loc'[u] = loc[u] /\ call'[u] = call[u] /\ loc[u].level = 0
      BY <1>1, <1>5, <2>2 DEF Shape, Same
    <3>2. call[u].op = "add" /\ y \in NodeIndex /\ loc[u].inserted = 0 /\ m_right[y] = loc[u].next
          /\ y[1] = call[u].node
      <4>1. call[u].op = "add" /\ loc[u].inserted = 0
        BY <1>1, <3>1, ThreadFacts DEF StageOK, LevelOK, Inserting, LinkPcs, AddPcs
      <4>2. call[u].node \in Nodes
        BY <1>1, <4>1, CallFields DEF IndexTypeOK
      <4> QED BY <3>1, <4>1, <4>2, Universe, BoundAssumption DEF BottomFirst, NewIndex, Levels
    <3>3. ~Met(call[u].node)
      BY <3>1, <3>2 DEF BottomFirst, LinkedAt
    <3>4. y # loc[t].prev
      BY <3>2, <3>3 DEF Met, Passes
    <3>5. ASSUME Link(t) PROVE y # NewIndex(t, loc[t].level)
      <4>1. call[t].op = "add"
        BY <1>1, <3>5, ThreadFacts DEF Link, StageOK, AddPcs, LinkPcs
      <4> QED BY <1>1, <2>2, <3>2, <4>1 DEF ClientInv, NewIndex
    <3>6. m_right'[y] = m_right[y]
      <4> HIDE DEF y
      <4> QED BY <3>2, <3>4, <3>5, RightNext
    <3> QED BY <3>1, <3>2, <3>6
  <2> QED BY <2>1, <2>2
<1> QED BY <1>3, <1>4, <1>5 DEF BottomFirst, NewIndex

LEMMA UnlinksDeadNext ==
  ASSUME IndexInv, UnlinksDead, NEW t \in Threads, InCall(t)
  PROVE  UnlinksDead'
<1>1. Shape(t) /\ IndexTypeOK /\ ThreadInv /\ live' = live
  BY InCallShape DEF IndexInv, Shape
<1> SUFFICES ASSUME NEW u \in Threads, pc'[u] \in {"unlink", "succ", "cut"}
             PROVE  loc'[u].next[1] \notin live
  BY <1>1 DEF UnlinksDead
<1>2. CASE u # t
  BY <1>1, <1>2 DEF Shape, Same, UnlinksDead
<1>3. CASE u = t /\ Test(t)
  BY <1>1, <1>3 DEF Test, Goto, Alive, IndexTypeOK
<1>4. CASE u = t /\ UnlinkCheck(t)
  <2>1. loc' = loc /\ pc[t] = "unlink"
    BY <1>1, <1>4 DEF UnlinkCheck, WalkFailed, Goto, IndexTypeOK
  <2> QED BY <1>4, <2>1 DEF UnlinksDead
<1>5. CASE u = t /\ UnlinkRead(t)
  <2>1. pc[t] = "succ" /\ loc'[t] = [loc[t] EXCEPT !.succ = m_right[loc[t].next]]
    BY <1>1, <1>5 DEF UnlinkRead, IndexTypeOK
  <2>2. loc'[t].next = loc[t].next
    BY <1>1, <2>1 DEF IndexTypeOK, Locals
  <2> QED BY <1>5, <2>1, <2>2 DEF UnlinksDead
<1> QED BY <1>2, <1>3, <1>4, <1>5, Arrivals

-----------------------------------------------------------------------------
(* The bottom level.                                                       *)

(* At the bottom level, and only there, walks stand at bottom entries.     *)
LEMMA BottomPrev ==
  ASSUME IndexTypeOK, HeadInv, NEW c, NEW i \in Nat, NEW x, PrevOK(c, m_level, i, x)
  PROVE  /\ i = 0 => x = <<x[1], 0>> /\ x[1] \in Nodes \cup {head}
         /\ i # 0 => \A m \in Nodes \cup {head} : x # <<m, 0>>
<1>1. x \in IndexNode /\ LevelIn(m_level, x) = i
  BY DEF PrevOK
<1>2. CASE x \in HeadIndex
  <2>1. m_level[x] = i /\ x[1] = head /\ \A m \in Nodes : x # <<m, 0>>
    BY <1>1, <1>2, Universe, KeyAssumption DEF LevelIn
  <2>2. i # 0 => x # m_head_bottom
    BY <2>1 DEF HeadInv
  <2>3. ASSUME i = 0 PROVE x = m_head_bottom
    <3>1. ASSUME x # m_head_bottom PROVE FALSE
      <4>1. Made(x) /\ m_down[x] # Null /\ Made(m_down[x]) /\ m_level[m_down[x]] = m_level[x] - 1
        BY <1>2, <2>1, <2>3, <3>1 DEF HeadInv, Made
      <4>2. m_down[x] \in HeadIndex
        BY <1>2, <4>1 DEF IndexTypeOK, HeadOrNull
      <4> QED BY <2>1, <2>3, <4>1, <4>2 DEF Made, IndexTypeOK
    <3> QED BY <3>1
  <2> QED BY <2>1, <2>2, <2>3 DEF m_head_bottom
<1>3. CASE x \in NodeIndex
  BY <1>1, <1>3, Universe DEF LevelIn
<1> QED BY <1>1, <1>2, <1>3, Universe

(* What is reachable at the bottom level is known.                         *)
LEMMA IndexedKnown ==
  ASSUME IndexInv, NEW n \in Indexed
  PROVE  n \in Nodes /\ <<n, 0>> \in NodeIndex /\ Known(<<n, 0>>)
<1> DEFINE S == {m \in Nodes : Known(<<m, 0>>)}
<1>1. IndexTypeOK /\ HeadInv /\ LevelsSorted /\ m_right \in [IndexNode -> RightOf]
  BY DEF IndexInv, IndexTypeOK
<1>2. ASSUME NEW m \in S \cup {head}, m_right[<<m, 0>>] # Null PROVE m_right[<<m, 0>>][1] \in S
  <2> DEFINE r == m_right[<<m, 0>>]
  <2>1. <<m, 0>> \in IndexNode /\ m \in Nodes \cup {head}
    BY Universe, BoundAssumption DEF Levels, m_head_bottom
  <2>2. r \in NodeIndex /\ r[1] \in Nodes /\ r = <<r[1], r[2]>> /\ r \notin HeadIndex
    BY <1>1, <1>2, <2>1, Universe DEF RightOf
  <2>3. LevelOf(<<m, 0>>) = 0
    <3>1. CASE m = head
      BY <1>1, <3>1, Universe DEF LevelOf, HeadInv, m_head_bottom
    <3>2. CASE m \in Nodes
      BY <2>1, <3>2, Universe, BoundAssumption DEF LevelOf, Levels
    <3> QED BY <2>1, <3>1, <3>2
  <2>4. r[2] = 0
    BY <1>1, <1>2, <2>1, <2>2, <2>3 DEF LevelsSorted, LevelOf
  <2>5. Known(<<r[1], 0>>)
    <3>1. m_right[<<m, 0>>] = <<r[1], 0>>
      BY <2>2, <2>4
    <3> QED BY <2>1, <3>1 DEF Known
  <2> QED BY <2>2, <2>5
<1>3. S \in SUBSET Nodes /\ Shut(m_right, S)
  BY <1>2 DEF Shut
<1>4. n \in S
  BY <1>1, <1>3, IndexedReach, ReachLeast
<1> QED BY <1>4, Universe, BoundAssumption DEF Levels

(* A live node, or the head, a walk stands at is reachable.                *)
LEMMA PrevReached ==
  ASSUME IndexInv, Reached, NEW t \in Threads, loc[t].level = 0, Alive(loc[t].prev),
         PrevOK(call[t], m_level, 0, loc[t].prev)
  PROVE  LET p == loc[t].prev[1]
         IN  loc[t].prev = <<p, 0>> /\ p \in Indexed \cup {head} /\ (p = head \/ p \in live)
<1> DEFINE x == loc[t].prev
<1>1. x = <<x[1], 0>> /\ x[1] \in Nodes \cup {head}
  BY BottomPrev DEF IndexInv
<1>2. CASE x[1] = head
  BY <1>1, <1>2
<1>3. CASE x[1] # head
  <2>1. x[1] \in live /\ x \in NodeIndex
    BY <1>1, <1>3, Universe, BoundAssumption DEF Alive, Levels
  <2>2. Met(x[1])
    BY <2>1 DEF Met, Passes
  <2> QED BY <1>1, <2>1, <2>2 DEF Reached
<1> QED BY <1>2, <1>3

(* A step that does not race loses no live node of the bottom level, and   *)
(* gains none but the one add links there.                                 *)
LEMMA ReachNext ==
  ASSUME IndexInv, BottomFirst, UnlinksDead, Reached, raced \in BOOLEAN,
         NEW t \in Threads, InCall(t), ~raced'
  PROVE  /\ \A n \in Indexed' : n \in Indexed \/ (call[t].op = "add" /\ n = call[t].node)
         /\ live \cap Indexed \subseteq Indexed'
         /\ pc[t] = "cas" /\ pc'[t] = "up" /\ loc[t].level = 0 => call[t].node \in Indexed'
<1> DEFINE l == loc[t]
<1>1. /\ IndexTypeOK /\ HeadInv /\ ThreadInv /\ ClientInv /\ IndexTypeOK'
      /\ m_right \in [IndexNode -> RightOf] /\ m_right' \in [IndexNode -> RightOf]
      /\ l \in Locals /\ l.level \in Int /\ l.inserted \in Nat
  BY TypeNext, ThreadFacts DEF IndexInv, IndexTypeOK
<1>2. /\ Indexed = Reach(m_right) /\ Indexed' = Reach(m_right')
      /\ Indexed \in SUBSET Nodes
  BY <1>1, IndexedReach, ReachLeast
<1>3. \A m \in Nodes \cup {head} : <<m, 0>> \in NodeIndex \cup {m_head_bottom} /\ <<m, 0>> \in IndexNode
  BY Universe, BoundAssumption DEF Levels, m_head_bottom
<1>4. CASE Indexed' = Indexed /\ ~(pc[t] = "cas" /\ pc'[t] = "up")
  BY <1>4
<1>5. ASSUME \A m \in Indexed \cup {head} : m_right'[<<m, 0>>] = m_right[<<m, 0>>]
      PROVE  Indexed' = Indexed
  BY <1>1, <1>2, <1>5, ReachSame
<1>6. CASE UnlinkCas(t)
  <2>1. /\ pc[t] = "cut" /\ l.next \in NodeIndex /\ PrevOK(call[t], m_level, l.level, l.prev)
        /\ l.next[2] = l.level /\ l.level \in Nat /\ l.next[1] \notin live
    BY <1>1, <1>6, ThreadFacts
       DEF UnlinkCas, WalkOK, LevelOK, SearchPcs, RightOf, UnlinksDead
  <2>2. CASE m_right' = m_right
    BY <1>2, <1>4, <2>1, <2>2
  <2>3. CASE l.level # 0
    <3>1. \A m \in Nodes \cup {head} : l.prev # <<m, 0>>
      <4>1. IndexTypeOK /\ HeadInv /\ l.level \in Nat /\ PrevOK(call[t], m_level, l.level, l.prev)
        BY <1>1, <2>1
      <4> HIDE DEF l
      <4> QED BY <2>3, <4>1, BottomPrev
    <3>2. \A m \in Indexed \cup {head} : m_right'[<<m, 0>>] = m_right[<<m, 0>>]
      BY <1>1, <1>2, <1>3, <1>6, <3>1 DEF UnlinkCas, casRight
    <3> QED BY <1>4, <1>5, <2>1, <3>2
  <2>4. CASE l.level = 0 /\ casRight(l.prev, l.next, l.succ) /\ ~(l.level = 0 /\ m_right[l.next] # l.succ)
    <3> DEFINE p == l.prev[1]
               x == l.next[1]
    <3>1. /\ l.prev = <<p, 0>> /\ p \in Nodes \cup {head}
          /\ l.next = <<x, 0>> /\ x \in Nodes /\ x \notin live
      BY <1>1, <2>1, <2>4, BottomPrev, Universe
    <3>2. /\ m_right[<<p, 0>>] = <<x, 0>>
          /\ m_right' = [m_right EXCEPT ![<<p, 0>>] = m_right[<<x, 0>>]]
      BY <2>4, <3>1 DEF casRight
    <3> HIDE DEF p, x
    <3>3. /\ m_right'[<<p, 0>>] = m_right[<<x, 0>>]
          /\ \A m \in Nodes \cup {head} : m # p => m_right'[<<m, 0>>] = m_right[<<m, 0>>]
      BY <1>1, <1>3, <3>1, <3>2
    <3>4. Reach(m_right') \subseteq Reach(m_right) /\ Reach(m_right) \ {x} \subseteq Reach(m_right')
      <4>1. /\ m_right \in [IndexNode -> RightOf] /\ m_right' \in [IndexNode -> RightOf]
            /\ p \in Nodes \cup {head} /\ x \in Nodes /\ m_right[<<p, 0>>] = <<x, 0>>
        BY <1>1, <3>1, <3>2
      <4> QED BY ONLY <3>3, <4>1, ReachUnlink
    <3> QED BY <1>2, <2>1, <3>1, <3>4
  <2>5. \/ m_right' = m_right
        \/ casRight(l.prev, l.next, l.succ) /\ ~(l.level = 0 /\ m_right[l.next] # l.succ)
    BY <1>6 DEF UnlinkCas
  <2> QED BY <2>2, <2>3, <2>4, <2>5
<1>7. CASE Link(t)
  <2>1. /\ pc[t] = "link" /\ call[t].op = "add" /\ l.level = l.inserted
        /\ m_right' = [m_right EXCEPT ![NewIndex(t, l.level)] = l.next]
    BY <1>1, <1>7, ThreadFacts DEF Link, StageOK, LevelOK, Inserting, LinkPcs, AddPcs
  <2>2. ASSUME NEW m \in Indexed \cup {head} PROVE <<m, 0>> # NewIndex(t, l.level)
    <3>1. CASE l.level # 0
      BY <3>1 DEF NewIndex
    <3>2. CASE l.level = 0
      <4>1. ~LinkedAt(t, 0)
        <5>1. l.inserted = 0 /\ pc[t] # "up"
          BY <2>1, <3>2
        <5> QED BY <5>1 DEF LinkedAt
      <4>4. ~Met(call[t].node)
        BY <2>1, <4>1 DEF BottomFirst
      <4>2. call[t].node \notin Indexed
        BY <4>4, IndexedKnown, Universe DEF Met
      <4>3. call[t].node # head
        BY <1>1, <2>1, CallFields, KeyAssumption DEF IndexTypeOK
      <4> QED BY <4>2, <4>3 DEF NewIndex
    <3> QED BY <3>1, <3>2
  <2>3. \A m \in Indexed \cup {head} : m_right'[<<m, 0>>] = m_right[<<m, 0>>]
    BY <1>1, <1>2, <1>3, <2>1, <2>2
  <2> QED BY <1>4, <1>5, <2>1, <2>3
<1>8. CASE LinkCas(t)
  <2> DEFINE x == call[t].node
  <2>1. /\ pc[t] = "cas" /\ call[t].op = "add" /\ l.level = l.inserted
        /\ PrevOK(call[t], m_level, l.level, l.prev)
        /\ x \in Nodes /\ Sought(call[t]) = Key[x]
    BY <1>1, <1>8, ThreadFacts, CallFields
       DEF LinkCas, StageOK, LevelOK, WalkOK, Inserting, LinkPcs, AddPcs
  <2>2. CASE m_right' = m_right /\ Goto(t, "failed")
    BY <1>1, <1>2, <1>4, <2>2 DEF Goto, IndexTypeOK
  <2>3. CASE l.level # 0
    <3>1. \A m \in Nodes \cup {head} : l.prev # <<m, 0>>
      BY <1>1, <2>1, <2>3, BottomPrev, SMTT(30)
    <3>2. \A m \in Indexed \cup {head} : m_right'[<<m, 0>>] = m_right[<<m, 0>>]
      BY <1>1, <1>2, <1>3, <1>8, <3>1 DEF LinkCas, casRight
    <3> QED BY <1>5, <2>3, <3>2
  <2>4. CASE l.level = 0 /\ casRight(l.prev, l.next, NewIndex(t, l.level)) /\ Alive(l.prev)
    <3> DEFINE p == l.prev[1]
    <3>1. l.prev = <<p, 0>> /\ p \in Indexed \cup {head}
      BY <2>1, <2>4, PrevReached
    <3>2. /\ m_right[<<x, 0>>] = m_right[<<p, 0>>]
          /\ m_right' = [m_right EXCEPT ![<<p, 0>>] = <<x, 0>>]
      BY <2>1, <2>4, <3>1 DEF casRight, BottomFirst, NewIndex
    <3>3. p # x
      <4>1. p = head \/ Key[p] < Key[x]
        BY <2>1 DEF PrevOK, KeyOf
      <4> QED BY <2>1, <4>1, Keys, KeyAssumption
    <3> HIDE DEF p, x
    <3>4. /\ m_right'[<<p, 0>>] = <<x, 0>> /\ p \in Nodes \cup {head}
          /\ \A m \in Nodes \cup {head} : m # p => m_right'[<<m, 0>>] = m_right[<<m, 0>>]
      BY <1>1, <1>2, <1>3, <3>1, <3>2
    <3>5. /\ Reach(m_right) \subseteq Reach(m_right')
          /\ Reach(m_right') \subseteq Reach(m_right) \cup {x}
          /\ p \in Reach(m_right) \cup {head} => x \in Reach(m_right')
      <4>1. /\ m_right \in [IndexNode -> RightOf] /\ m_right' \in [IndexNode -> RightOf]
            /\ x \in Nodes /\ m_right[<<x, 0>>] = m_right[<<p, 0>>]
        BY <1>1, <2>1, <3>2 DEF x
      <4> QED BY ONLY <3>3, <3>4, <4>1, ReachLink
    <3>6. Indexed \subseteq Indexed' /\ Indexed' \subseteq Indexed \cup {x} /\ x \in Indexed'
      BY <1>2, <3>1, <3>5
    <3> QED BY <2>1, <3>6 DEF x
  <2>5. \/ m_right' = m_right /\ Goto(t, "failed")
        \/ casRight(l.prev, l.next, NewIndex(t, l.level)) /\ ~(l.level = 0 /\ ~Alive(l.prev))
    BY <1>8 DEF LinkCas
  <2> QED BY <2>2, <2>3, <2>4, <2>5
<1>9. CASE ~UnlinkCas(t) /\ ~Link(t) /\ ~LinkCas(t)
  <2>1. \A y \in NodeIndex \cup {m_head_bottom} : m_right'[y] = m_right[y]
    BY <1>9, RightNext
  <2>2. pc'[t] # "up"
    BY <1>9, Arrivals
  <2> QED BY <1>2, <1>3, <1>4, <1>5, <2>1, <2>2
<1> QED BY <1>6, <1>7, <1>8, <1>9

(* Only the link of the bottom level makes add's node part of it.          *)
LEMMA FirstLink ==
  ASSUME IndexInv, NEW t \in Threads, InCall(t), call'[t] = call[t],
         ~LinkedAt(t, 0), LinkedAt(t, 0)'
  PROVE  pc[t] = "cas" /\ pc'[t] = "up" /\ loc[t].level = 0
<1>1. IndexTypeOK /\ ThreadInv
  BY DEF IndexInv
<1>2. loc[t].inserted = 0 /\ pc[t] # "up" /\ loc'[t].inserted = 0
  BY InsertedKept DEF LinkedAt
<1>3. pc'[t] = "up"
  BY <1>2 DEF LinkedAt
<1>4. pc[t] = "cas"
  BY <1>3, Arrivals DEF LinkCas
<1>5. loc[t].level = loc[t].inserted
  BY <1>1, <1>4, ThreadFacts DEF LevelOK, Inserting, LinkPcs
<1> QED BY <1>2, <1>3, <1>4, <1>5

LEMMA ReachedNext ==
  ASSUME IndexInv, BottomFirst, UnlinksDead, Reached, raced \in BOOLEAN,
         NEW t \in Threads, InCall(t), ~raced'
  PROVE  Reached'
<1>1. Shape(t) /\ IndexTypeOK /\ ThreadInv /\ live' = live /\ live \subseteq Nodes
  BY InCallShape DEF IndexInv, Shape, IndexTypeOK
<1>2. /\ live \cap Indexed \subseteq Indexed'
      /\ pc[t] = "cas" /\ pc'[t] = "up" /\ loc[t].level = 0 => call[t].node \in Indexed'
  BY ReachNext
<1>3. call[t].op = "add" => call[t] = add(call[t].node)
  BY <1>1, CallFields DEF IndexTypeOK
<1> SUFFICES ASSUME NEW n \in live,
                    Met(n)' \/ \E u \in Threads : call'[u] = add(n) /\ LinkedAt(u, 0)'
             PROVE  n \in Indexed'
  BY <1>1 DEF Reached
<1>4. ASSUME call[t] = add(n), LinkedAt(t, 0) PROVE n \in Indexed'
  BY <1>2, <1>4 DEF Reached
<1>5. CASE Met(n)
  BY <1>2, <1>5 DEF Reached
<1>6. CASE /\ pc[t] = "cas" /\ pc'[t] = "up" /\ loc' = loc /\ call' = call
           /\ call[t].op = "add" /\ n = call[t].node
  <2>1. CASE loc[t].level = 0
    BY <1>2, <1>6, <2>1
  <2>2. CASE loc[t].level # 0
    <3>1. loc[t].level = loc[t].inserted /\ loc[t].inserted \in Nat
      BY <1>1, <1>6, ThreadFacts DEF LevelOK, Inserting, LinkPcs
    <3>2. LinkedAt(t, 0)
      BY <2>2, <3>1 DEF LinkedAt
    <3> QED BY <1>3, <1>4, <1>6, <3>2
  <2> QED BY <2>1, <2>2
<1>7. CASE pc[t] = "raise" /\ Leave(t) /\ call[t].op = "add" /\ n = call[t].node
  <2>1. LinkedAt(t, 0)
    BY <1>7 DEF BottomFirst
  <2> QED BY <1>3, <1>4, <1>7, <2>1
<1>8. ASSUME NEW u \in Threads, call'[u] = add(n), LinkedAt(u, 0)' PROVE n \in Indexed'
  <2>1. call[u] = add(n) /\ call'[u] = call[u] /\ call[u].node = n
    <3>1. call'[u].op # "none" /\ call'[u].node = n
      BY <1>8 DEF add
    <3> QED BY <1>8, <3>1, CallKept
  <2>2. CASE LinkedAt(u, 0)
    BY <1>2, <2>1, <2>2 DEF Reached
  <2>3. CASE u # t /\ ~LinkedAt(u, 0)
    BY <1>1, <1>8, <2>3 DEF Shape, Same, LinkedAt
  <2>4. CASE u = t /\ ~LinkedAt(u, 0)
    BY <1>2, <1>8, <2>1, <2>4, FirstLink
  <2> QED BY <2>2, <2>3, <2>4
<1> QED BY <1>5, <1>6, <1>7, <1>8, MetNext

(* A removal searches on until it has walked past its node's place in the  *)
(* bottom level.                                                           *)
LEMMA SearchGoesOn ==
  ASSUME IndexInv, NEW t \in Threads, InCall(t), call[t].op = "remove",
         pc[t] \in {"find", "curr"} \cup SearchPcs
  PROVE  \/ call' = call /\ pc'[t] \in {"find", "curr"} \cup SearchPcs
         \/ pc[t] = "found" /\ Alive(loc[t].prev) /\ loc[t].level = 0
<1>1. IndexTypeOK /\ ThreadInv /\ HeadInv /\ ClientInv /\ loc[t].height = -1
  BY ThreadFacts DEF IndexInv, StageOK
<1> USE <1>1 DEF Goto, IndexTypeOK, client, SearchPcs
<1>2. CASE FindTop(t) \/ CheckCurr(t) \/ Walk(t)
  BY <1>2 DEF FindTop, CheckCurr, Walk
<1>3. CASE Test(t)
  BY <1>3 DEF Test
<1>4. CASE UnlinkCheck(t) \/ UnlinkRead(t) \/ UnlinkCas(t)
  BY <1>4 DEF UnlinkCheck, UnlinkRead, UnlinkCas, WalkFailed
<1>5. CASE Found(t)
  <2>1. CASE Alive(loc[t].prev) /\ Down(loc[t].prev) = Null
    <3>1. pc[t] = "found"
      BY <1>5 DEF Found
    <3>2. loc[t].level = 0
      BY <2>1, <3>1, InvAssertions DEF Assertions
    <3> QED BY <2>1, <3>1, <3>2
  <2>2. CASE ~(Alive(loc[t].prev) /\ Down(loc[t].prev) = Null)
    <3>1. Goto(t, "curr") /\ UNCHANGED client
      BY <1>5, <2>2 DEF Found
    <3> QED BY <3>1
  <2> QED BY <2>1, <2>2
<1>6. CASE \/ Build(t) \/ Link(t) \/ LinkCas(t) \/ LinkFailed(t) \/ NextLevel(t)
           \/ Grow(t) \/ Raise(t)
  BY <1>6 DEF Build, Link, LinkCas, LinkFailed, NextLevel, Grow, Raise
<1>7. CASE \/ Peek(t) \/ Reduce(t) \/ LooksEmpty(t) \/ Lower(t) \/ Recheck(t) \/ Backout(t)
           \/ Reply(t)
  BY <1>7 DEF Peek, Reduce, LooksEmpty, Lower, Recheck, Backout, Reply
<1> QED BY <1>2, <1>3, <1>4, <1>5, <1>6, <1>7 DEF InCall

LEMMA SweptNext ==
  ASSUME PurgeInv, ~raced, NEW t \in Threads, InCall(t), ~raced'
  PROVE  Swept'
<1>1. /\ Shape(t) /\ IndexTypeOK /\ live' = live /\ overlap' = overlap
      /\ IndexInv /\ ClientNodes /\ BottomFirst /\ UnlinksDead /\ Reached /\ Swept /\ WalkFinds
      /\ raced \in BOOLEAN
  BY InCallShape, RacedNext DEF PurgeInv, IndexInv, Shape
<1> SUFFICES ASSUME NEW n \in Indexed', n \notin live \cup overlap
             PROVE  \E u \in Threads : Sweeping(u, n)'
  BY <1>1 DEF Swept
<1>2. n \in Indexed
  BY <1>1, ReachNext DEF ClientNodes, NodeOK
<1>3. PICK u \in Threads : Sweeping(u, n)
  BY <1>1, <1>2 DEF Swept
<1>4. CASE u # t
  BY <1>1, <1>3, <1>4 DEF Shape, Same, Sweeping
<1>5. CASE u = t
  <2>1. call[t].op = "remove" /\ call[t].node = n /\ call[t] = remove(n)
        /\ pc[t] \in {"find", "curr"} \cup SearchPcs
    BY <1>3, <1>5 DEF Sweeping, remove
  <2>2. ~(pc[t] = "found" /\ Alive(loc[t].prev) /\ loc[t].level = 0)
    BY <1>1, <1>2, <2>1 DEF WalkFinds
  <2>3. call' = call /\ pc'[t] \in {"find", "curr"} \cup SearchPcs
    BY <1>1, <2>1, <2>2, SearchGoesOn
  <2> QED BY <2>1, <2>3 DEF Sweeping
<1> QED BY <1>4, <1>5

LEMMA WalkFindsNext ==
  ASSUME PurgeInv, ~raced, NEW t \in Threads, InCall(t), ~raced'
  PROVE  WalkFinds'
<1>1. /\ Shape(t) /\ IndexTypeOK /\ ThreadInv /\ LevelsSorted /\ live' = live /\ overlap' = overlap
      /\ IndexInv /\ ClientNodes /\ BottomFirst /\ UnlinksDead /\ Reached /\ Swept /\ WalkFinds
      /\ raced \in BOOLEAN
  BY InCallShape, RacedNext DEF PurgeInv, IndexInv, Shape
<1> SUFFICES ASSUME NEW u \in Threads, pc'[u] \in {"test", "found"}, loc'[u].level = 0,
                    Alive(loc[u].prev)',
                    call'[u].op = "remove", call'[u].node \in Indexed', call'[u].node \notin overlap
             PROVE  pc'[u] = "test" /\ OnTheWay(loc'[u], live, call'[u].node)
  BY <1>1 DEF WalkFinds, OnTheWay, KeyOf
<1> DEFINE n == call[u].node
<1>2. call'[u] = call[u] /\ call[u].op = "remove" /\ n \notin live /\ n \in Nodes
      /\ Sought(call[u]) = Key[n]
  <2>1. call'[u] = call[u]
    BY <1>1, CallKept
  <2> QED BY <1>1, <2>1, CallFields DEF ClientNodes, NodeOK, IndexTypeOK
<1>3. n \in Indexed /\ n \notin overlap
  BY <1>1, <1>2, ReachNext DEF ClientNodes, NodeOK
<1>4. Alive(loc'[u].prev)
  BY <1>1 DEF Alive
<1>5. CASE u # t
  BY <1>1, <1>2, <1>3, <1>4, <1>5 DEF Shape, Same, WalkFinds
<1>6. CASE u = t /\ pc'[t] = "test"
  <2>1. Walk(t) /\ pc[t] = "walk"
    BY <1>1, <1>6, Arrivals DEF Walk
  <2>2. loc'[t] = [loc[t] EXCEPT !.next = m_right[loc[t].prev]] /\ loc[t] \in Locals
    BY <1>1, <2>1 DEF Walk, IndexTypeOK
  <2>3. /\ loc'[t].next = m_right[loc[t].prev] /\ loc'[t].prev = loc[t].prev
        /\ loc'[t].level = loc[t].level
    BY <2>2 DEF Locals
  <2>4. loc[t].level = 0 /\ Alive(loc[t].prev)
    BY <1>4, <1>6, <2>3
  <2>5. PrevOK(call[t], m_level, 0, loc[t].prev)
    BY <1>1, <2>1, <2>4, ThreadFacts DEF WalkOK, SearchPcs
  <2> DEFINE p == loc[t].prev[1]
  <2>6. loc[t].prev = <<p, 0>> /\ p \in Indexed \cup {head} /\ (p = head \/ p \in live)
    BY <1>1, <2>4, <2>5, PrevReached
  <2>7. p = head \/ Key[p] < Key[n]
    BY <1>2, <1>6, <2>5 DEF PrevOK, KeyOf
  <2>8. LET r == m_right[<<p, 0>>] IN r # Null /\ (r[1] \notin live \/ KeyOf(r) < Key[n])
    <3> HIDE DEF p, n
    <3> QED BY <1>1, <1>2, <1>3, <2>6, <2>7, WayOn
  <2> HIDE DEF p
  <2> QED BY <1>2, <1>6, <2>3, <2>6, <2>8 DEF OnTheWay
<1>7. CASE u = t /\ pc'[t] = "found"
  <2>1. Test(t) /\ pc[t] = "test" /\ loc[t].height = -1
    <3>1. Test(t) /\ pc[t] = "test"
      BY <1>1, <1>7, Arrivals DEF Test
    <3> QED BY <1>1, <1>2, <1>7, <3>1, ThreadFacts DEF StageOK
  <2>2. /\ loc' = loc
        /\ ~(loc[t].next # Null /\ ~Alive(loc[t].next))
        /\ ~(loc[t].next # Null /\ SearchKey(t) > KeyOf(loc[t].next))
    BY <1>1, <1>7, <2>1 DEF Test, Goto, IndexTypeOK
  <2>3. OnTheWay(loc[t], live, n)
    BY <1>1, <1>2, <1>3, <1>4, <1>7, <2>1, <2>2 DEF WalkFinds
  <2>4. loc[t].next \in NodeIndex /\ loc[t].next[1] # head /\ KeyOf(loc[t].next) \in Int
    BY <1>1, <2>3, ThreadFacts, Universe, Keys DEF OnTheWay, RightOf
  <2>5. SearchKey(t) = Key[n] /\ Key[n] \in Int
    BY <1>2, <1>7, Keys DEF SearchKey
  <2> QED BY <2>2, <2>3, <2>4, <2>5 DEF OnTheWay, Alive
<1> QED BY <1>5, <1>6, <1>7

(* A step of a call keeps the invariant.                                   *)
LEMMA PurgeInCall ==
  ASSUME PurgeInv, NEW t \in Threads, InCall(t)
  PROVE  PurgeInv'
<1>1. IndexInv /\ ClientNodes /\ BottomFirst /\ UnlinksDead /\ raced \in BOOLEAN
  BY DEF PurgeInv
<1>2. IndexInv'
  <2>1. Next
    BY DEF Next
  <2> QED BY <1>1, <2>1, IndexStep
<1>3. ClientNodes' /\ BottomFirst' /\ UnlinksDead'
  BY <1>1, ClientNodesNext, BottomFirstNext, UnlinksDeadNext
<1>4. raced' \in BOOLEAN /\ (raced => raced')
  BY <1>1, RacedNext
<1>5. CASE raced'
  BY <1>2, <1>3, <1>4, <1>5 DEF PurgeInv
<1>6. CASE ~raced'
  <2>1. ~raced /\ Reached
    BY <1>4, <1>6 DEF PurgeInv
  <2>2. Reached' /\ Swept' /\ WalkFinds'
    BY <1>1, <1>6, <2>1, ReachedNext, SweptNext, WalkFindsNext
  <2> QED BY <1>2, <1>3, <1>4, <2>2 DEF PurgeInv
<1> QED BY <1>5, <1>6

-----------------------------------------------------------------------------
(* The client's steps.                                                     *)

LEMMA CallOverlap ==
  ASSUME IndexTypeOK, NEW t \in Threads, Call(t)
  PROVE  /\ raced' = raced
         /\ \/ UNCHANGED <<pc, call, live, offered, overlap>>
            \/ \E c \in AnyCall \ {NoCall} :
                 /\ Makes(t, c)
                 /\ overlap' = overlap \cup {n \in live \ live' : \E u \in Threads : call[u] = add(n)}
<1>1. done[t] + 1 \in 1 .. Len(Calls[t])
  BY CallsAssumption DEF Call, IndexTypeOK
<1>2. PICK c \in Calls[t][done[t] + 1] :
        IF Applicable(c)
        THEN /\ Goto(t, "find")
             /\ call' = [call EXCEPT ![t] = c]
             /\ live' = CASE c.op = "add"    -> live \cup {c.node}
                          [] c.op = "remove" -> live \ {c.node}
                          [] OTHER           -> live
             /\ offered' = IF c.op = "add" THEN offered \cup {c.node} ELSE offered
             /\ overlap' = overlap \cup {n \in live \ live' : \E u \in Threads : call[u] = add(n)}
        ELSE UNCHANGED <<pc, call, live, offered, overlap>>
  BY DEF Call
<1>3. c \in AnyCall \ {NoCall}
  BY <1>1, DrawnCall
<1>4. c.op \in {"add", "remove", "getPred"}
  BY <1>3, CallFields
<1>5. Applicable(c) => Makes(t, c)
  BY <1>2, <1>4 DEF Applicable, Makes, Goto
<1> QED BY <1>2, <1>3, <1>5 DEF Call

LEMMA PurgeCall ==
  ASSUME PurgeInv, NEW t \in Threads, Call(t)
  PROVE  PurgeInv'
<1>1. /\ IndexInv /\ ClientNodes /\ BottomFirst /\ UnlinksDead /\ raced \in BOOLEAN
      /\ IndexTypeOK /\ ClientInv /\ ThreadInv /\ KnownInv /\ OfferedInv
  BY DEF PurgeInv, IndexInv
<1>2. /\ pc[t] = "idle" /\ m_right' = m_right /\ m_level' = m_level /\ loc' = loc /\ raced' = raced
      /\ IndexInv'
  BY <1>1, CallShape, CallOverlap, CallNext DEF links
<1>3. /\ \A n : Met(n)' <=> Met(n)
      /\ Indexed' = Indexed
  BY <1>2 DEF Met, Known, Carries, Passes, Indexed
<1>4. CASE UNCHANGED <<pc, call, live, offered, overlap>>
  <2>1. ClientNodes' /\ UnlinksDead'
    BY <1>1, <1>2, <1>4 DEF ClientNodes, UnlinksDead
  <2>2. BottomFirst'
    BY <1>1, <1>2, <1>4 DEF BottomFirst, Met, Known, Carries, Passes, LinkedAt, NewIndex
  <2>3. Reached => Reached'
    BY <1>2, <1>3, <1>4 DEF Reached, LinkedAt
  <2>4. Swept => Swept'
    BY <1>2, <1>3, <1>4 DEF Swept, Sweeping
  <2>5. WalkFinds => WalkFinds'
    BY <1>2, <1>3, <1>4 DEF WalkFinds, OnTheWay, Alive, KeyOf
  <2> QED BY <1>1, <1>2, <2>1, <2>2, <2>3, <2>4, <2>5 DEF PurgeInv
<1>5. ASSUME NEW c \in AnyCall \ {NoCall}, Makes(t, c),
             overlap' = overlap \cup {n \in live \ live' : \E u \in Threads : call[u] = add(n)}
      PROVE  PurgeInv'
  <2>1. /\ c.op \in {"add", "remove", "getPred"}
        /\ c.op \in {"add", "remove"} => c.node \in Nodes
        /\ c.op = "remove" => c = remove(c.node)
    BY CallFields
  <2>2. /\ pc'[t] = "find" /\ call'[t] = c
        /\ \A u \in Threads \ {t} : pc'[u] = pc[u] /\ call'[u] = call[u]
        /\ live \subseteq offered /\ offered \subseteq offered' /\ offered \subseteq Nodes
    BY <1>1, <1>5 DEF Makes, IndexTypeOK
(* A deleted node is not added again.                                      *)
  <2>3. \A n \in offered : n \notin live => n \notin live'
    BY <1>5 DEF Makes
  <2>4. ASSUME NEW x \in NodeIndex, NEW u \in Threads,
               Carries(loc[u], x) \/ Passes(loc[u], x)
        PROVE  x[1] \in offered
    BY <1>1, <2>4 DEF KnownInv, Known, OfferedInv
  <2>5. \A n \in Nodes : n \notin offered => ~Met(n)
    BY <1>1 DEF Met, KnownInv, OfferedInv
  <2>6. loc[t].inserted = 0
    BY <1>1, <1>2, ThreadFacts DEF StageOK, SearchPcs, LinkPcs
  <2>7. \A u \in Threads \ {t} : LinkedAt(u, 0)' <=> LinkedAt(u, 0)
    BY <1>2, <2>2 DEF LinkedAt
  <2>8. ~LinkedAt(t, 0)'
    BY <1>2, <2>2, <2>6 DEF LinkedAt
  <2>9. ClientNodes'
    <3>1. NodeOK(c, live', overlap', offered')
      BY <1>5, <2>2 DEF Makes, NodeOK
    <3>2. ASSUME NEW u \in Threads \ {t} PROVE NodeOK(call[u], live', overlap', offered')
      <4>1. NodeOK(call[u], live, overlap, offered) /\ call[u] \in AnyCall
        BY <1>1 DEF ClientNodes, IndexTypeOK
      <4>2. CASE call[u].op = "add"
        <5>1. call[u] = add(call[u].node) /\ call[u].node \in live \cup overlap
          BY <4>1, <4>2, CallFields DEF NodeOK
        <5>2. call[u].node \in live' \cup overlap'
          BY <1>5, <5>1
        <5> QED BY <4>2, <5>2 DEF NodeOK
      <4>3. CASE call[u].op # "add"
        BY <2>2, <2>3, <4>1, <4>3 DEF NodeOK
      <4> QED BY <4>2, <4>3
    <3> QED BY <2>2, <3>1, <3>2 DEF ClientNodes
  <2>10. BottomFirst'
    <3>1. ASSUME NEW u \in Threads, pc'[u] \in {"grow", "raise"} PROVE LinkedAt(u, 0)'
      BY <1>1, <2>2, <2>7, <3>1 DEF BottomFirst
    <3>2. ASSUME NEW u \in Threads, (call[u].op = "add" /\ Met(call[u].node))' PROVE LinkedAt(u, 0)'
      <4>1. PICK n : n = call'[u].node
        OBVIOUS
      <4>2. call'[u].op = "add" /\ Met(n)
        BY <1>2, <3>2, <4>1 DEF Met, Known, Carries, Passes
      <4>3. CASE u = t
        <5>1. n = c.node /\ c.op = "add" /\ c.node \notin offered /\ c.node \in Nodes
          BY <1>5, <2>1, <2>2, <4>1, <4>2, <4>3 DEF Makes
        <5> QED BY <2>5, <4>2, <5>1
      <4>4. CASE u # t
        BY <1>1, <2>2, <2>7, <4>1, <4>2, <4>4 DEF BottomFirst
      <4> QED BY <4>3, <4>4
    <3>3. ASSUME NEW u \in Threads, pc'[u] = "cas", loc'[u].level = 0
          PROVE  m_right'[<<call'[u].node, 0>>] = loc'[u].next
      BY <1>1, <1>2, <2>2, <3>3 DEF BottomFirst, NewIndex
    <3> QED BY <3>1, <3>2, <3>3 DEF BottomFirst, NewIndex
  <2>11. UnlinksDead'
    <3> SUFFICES ASSUME NEW u \in Threads, pc'[u] \in {"unlink", "succ", "cut"}
                 PROVE  loc[u].next[1] \notin live'
      BY <1>2 DEF UnlinksDead
    <3>1. pc[u] \in {"unlink", "succ", "cut"}
      BY <2>2
    <3>2. loc[u].next \in NodeIndex /\ loc[u].next[1] \notin live
      BY <1>1, <3>1, ThreadFacts DEF WalkOK, RightOf, UnlinksDead
    <3>3. loc[u].next[1] \in offered
      BY <2>4, <3>2 DEF Carries
    <3> QED BY <2>3, <3>2, <3>3
  <2>12. ASSUME Reached PROVE Reached'
    <3> SUFFICES ASSUME NEW n \in live',
                        Met(n) \/ \E u \in Threads : call'[u] = add(n) /\ LinkedAt(u, 0)'
                 PROVE  n \in Indexed
      BY <1>3 DEF Reached
    <3>1. CASE \E u \in Threads : call'[u] = add(n) /\ LinkedAt(u, 0)'
      <4>1. PICK u \in Threads : call'[u] = add(n) /\ LinkedAt(u, 0)'
        BY <3>1
      <4>2. u # t /\ call[u] = add(n) /\ LinkedAt(u, 0)
        BY <2>2, <2>7, <2>8, <4>1
      <4>3. n \in offered
        BY <1>1, <4>2 DEF ClientInv, add
      <4> QED BY <2>3, <2>12, <4>2, <4>3 DEF Reached
    <3>2. CASE Met(n)
      <4>1. n \in Nodes
        BY <3>2, Universe DEF Met
      <4>2. n \in offered
        BY <2>5, <3>2, <4>1
      <4> QED BY <2>3, <2>12, <3>2, <4>2 DEF Reached
    <3> QED BY <3>1, <3>2
  <2>13. ASSUME Swept PROVE Swept'
    <3> SUFFICES ASSUME NEW n \in Indexed, n \notin live' \cup overlap'
                 PROVE  \E u \in Threads : Sweeping(u, n)'
      BY <1>3 DEF Swept
    <3>1. n \notin overlap
      BY <1>5
    <3>2. CASE n \in live
      <4>1. c = remove(n)
        BY <1>5, <2>1, <3>2 DEF Makes
      <4> QED BY <2>2, <4>1 DEF Sweeping
    <3>3. CASE n \notin live
      <4>1. PICK u \in Threads : Sweeping(u, n)
        BY <2>13, <3>1, <3>3 DEF Swept
      <4>2. u # t
        BY <1>2, <4>1 DEF Sweeping, SearchPcs
      <4> QED BY <2>2, <4>1, <4>2 DEF Sweeping
    <3> QED BY <3>2, <3>3
  <2>14. ASSUME WalkFinds PROVE WalkFinds'
    <3> SUFFICES ASSUME NEW u \in Threads, pc'[u] \in {"test", "found"}, loc[u].level = 0,
                        Alive(loc[u].prev)', call'[u].op = "remove",
                        call'[u].node \in Indexed, call'[u].node \notin overlap'
                 PROVE  pc'[u] = "test" /\ OnTheWay(loc[u], live', call'[u].node)
      BY <1>2, <1>3 DEF WalkFinds, OnTheWay, KeyOf
    <3>1. u # t /\ pc[u] = pc'[u] /\ call[u] = call'[u] /\ call[u].node \notin overlap
      BY <1>5, <2>2
    <3>2. PrevOK(call[u], m_level, 0, loc[u].prev)
      BY <1>1, <3>1, ThreadFacts DEF WalkOK, SearchPcs
    <3>3. Alive(loc[u].prev)
      <4>1. loc[u].prev[1] = head \/ loc[u].prev[1] \in live'
        BY <1>2 DEF Alive
      <4>2. CASE loc[u].prev \in HeadIndex
        BY <4>2, Universe DEF Alive
      <4>3. CASE loc[u].prev \in NodeIndex
        <5>1. loc[u].prev[1] \in offered /\ loc[u].prev[1] # head
          BY <2>4, <4>3, Universe DEF Passes
        <5> QED BY <2>3, <4>1, <5>1 DEF Alive
      <4> QED BY <3>2, <4>2, <4>3, Universe DEF PrevOK
    <3>4. pc[u] = "test" /\ OnTheWay(loc[u], live, call[u].node)
      BY <2>14, <3>1, <3>3 DEF WalkFinds
    <3>5. loc[u].next \in NodeIndex
      BY <1>1, <3>4, ThreadFacts DEF OnTheWay, RightOf
    <3>6. loc[u].next[1] \in offered
      BY <2>4, <3>5 DEF Carries
    <3> QED BY <2>3, <3>1, <3>4, <3>6 DEF OnTheWay
  <2> QED BY <1>1, <1>2, <2>9, <2>10, <2>11, <2>12, <2>13, <2>14 DEF PurgeInv
<1> QED BY <1>1, <1>4, <1>5, CallOverlap

-----------------------------------------------------------------------------
(* The start.                                                              *)

(* Of the nodes in S to the left of a key, and the head, one has the       *)
(* largest key.                                                            *)
LEMMA LargestKey ==
  ASSUME NEW S \in SUBSET Nodes, NEW b \in Nodes
  PROVE  \E p \in S \cup {head} : /\ Key[p] < Key[b]
                                  /\ \A m \in S : Key[m] < Key[b] => Key[m] <= Key[p]
<1> DEFINE R == OpToRel(<, Nat)
           T == {p \in S \cup {head} : Key[p] < Key[b]}
           D == {Key[b] - Key[p] : p \in T}
<1>1. \A p \in S \cup {head} : Key[p] \in Int /\ Key[b] \in Int
  BY Keys
<1>2. D \subseteq Nat /\ D # {}
  <2>1. head \in T
    BY Keys
  <2> QED BY <1>1, <2>1
<1>3. IsWellFoundedOn(R, Nat)
  BY NatLessThanWellFounded
<1>4. PICK d \in D : \A e \in D : ~(<<e, d>> \in R)
  <2> HIDE DEF D, R
  <2> QED BY <1>2, <1>3, WFMin
<1>5. \A e \in D : ~(e < d)
  BY <1>2, <1>4 DEF OpToRel
<1>6. PICK p \in T : d = Key[b] - Key[p]
  OBVIOUS
<1>7. ASSUME NEW m \in S, Key[m] < Key[b] PROVE Key[m] <= Key[p]
  <2>1. Key[b] - Key[m] \in D
    BY <1>7
  <2>2. ~(Key[b] - Key[m] < Key[b] - Key[p])
    BY <1>5, <1>6, <2>1
  <2> QED BY <1>1, <2>2
<1> QED BY <1>6, <1>7

(* At the start the bottom level leads to the nodes of the index.          *)
LEMMA StartReach ==
  ASSUME Init
  PROVE  Indexed = live
<1>1. PICK s \in Starts :
       /\ live = {n \in Nodes : s.tower[n] >= 0}
       /\ m_right = [x \in IndexNode |->
                       IF IF x[1] = head THEN x[2] <= s.top ELSE x[2] <= s.tower[x[1]]
                       THEN StartRight(s, x[1], x[2]) ELSE Null]
  BY DEF Init
<1>2. /\ s.top \in Nat /\ s.tower \in [Nodes -> Int] /\ live \in SUBSET Nodes
      /\ \A m, n \in live : m # n => Key[m] # Key[n]
  BY <1>1, StartAssumption, BoundAssumption DEF Min
<1>3. m_right \in [IndexNode -> RightOf]
  BY IndexInit DEF IndexInv, IndexTypeOK
<1>4. ASSUME NEW m \in live \cup {head} PROVE m_right[<<m, 0>>] = StartRight(s, m, 0)
  <2>1. <<m, 0>> \in IndexNode
    BY <1>2, Universe, BoundAssumption DEF Levels, m_head_bottom
  <2>2. CASE m = head
    BY <1>1, <1>2, <2>1, <2>2
  <2>3. CASE m # head
    BY <1>1, <1>2, <2>1, <2>3
  <2> QED BY <2>2, <2>3
<1>5. 0 \in Levels
  BY BoundAssumption DEF Levels
<1>6. Shut(m_right, live)
  <2> SUFFICES ASSUME NEW m \in live \cup {head}, m_right[<<m, 0>>] # Null
               PROVE  m_right[<<m, 0>>][1] \in live
    BY DEF Shut
  <2>1. /\ StartRight(s, m, 0) \in NodeIndex /\ s.tower[StartRight(s, m, 0)[1]] >= 0
    BY <1>2, <1>4, <1>5, StartLinks
  <2>2. StartRight(s, m, 0)[1] \in Nodes
    BY <2>1, Universe
  <2> QED BY <1>1, <1>4, <2>1, <2>2
<1>7. Indexed \subseteq live
  BY <1>2, <1>3, <1>6, IndexedReach, ReachLeast
<1>8. ASSUME NEW S \in SUBSET Nodes, Shut(m_right, S), ~(live \subseteq S) PROVE FALSE
  <2> DEFINE T == live \ S
  <2>1. T \in SUBSET Nodes /\ T # {}
    BY <1>2, <1>8
  <2>2. PICK b \in T : \A m \in T : Key[b] <= Key[m]
    <3> HIDE DEF T
    <3> QED BY <2>1, SmallestKey
  <2>3. b \in Nodes /\ b \in live /\ b \notin S
    BY <1>2, <2>2
  <2>4. PICK p \in (S \cap live) \cup {head} :
          Key[p] < Key[b] /\ \A m \in S \cap live : Key[m] < Key[b] => Key[m] <= Key[p]
    <3>1. S \cap live \in SUBSET Nodes
      BY <1>2
    <3> QED BY <2>3, <3>1, LargestKey
  <2> DEFINE after == {n \in Nodes : s.tower[n] >= 0 /\ Key[n] > Key[p]}
             a == CHOOSE n \in after : \A m \in after : Key[n] <= Key[m]
  <2>5. \A n : n \in after <=> n \in live /\ Key[n] > Key[p]
    BY <1>1
  <2>6. b \in after
    BY <2>3, <2>4, <2>5
  <2>7. \A m \in after : Key[b] <= Key[m]
    <3>1. ASSUME NEW m \in after PROVE Key[b] <= Key[m]
      <4>1. m \in live /\ Key[m] > Key[p] /\ Key[m] \in Int /\ Key[p] \in Int /\ Key[b] \in Int
        BY <1>2, <2>3, <2>4, <2>5, <3>1, Keys
      <4>2. CASE m \in S
        BY <2>4, <4>1, <4>2
      <4>3. CASE m \notin S
        BY <2>2, <4>1, <4>3
      <4> QED BY <4>2, <4>3
    <3> QED BY <3>1
  <2>8. a = b
    <3>1. a \in after /\ \A m \in after : Key[a] <= Key[m]
      <4> HIDE DEF after
      <4> QED BY <2>6, <2>7
    <3>2. Key[a] <= Key[b] /\ Key[b] <= Key[a] /\ a \in live
      <4> HIDE DEF after, a
      <4> QED BY <2>5, <2>6, <2>7, <3>1
    <3>3. Key[a] = Key[b]
      <4> HIDE DEF a
      <4> QED BY <1>2, <2>3, <3>2, Keys
    <3> HIDE DEF a
    <3> QED BY <1>2, <2>3, <3>2, <3>3
  <2>9. StartRight(s, p, 0) = <<a, 0>>
    BY <2>6 DEF StartRight
  <2>10. m_right[<<p, 0>>] = <<b, 0>>
    <3> HIDE DEF a
    <3> QED BY <1>4, <2>4, <2>8, <2>9
  <2>11. <<b, 0>> # Null /\ <<b, 0>>[1] = b
    BY <1>5, <2>3, Universe
  <2> QED BY <1>8, <2>3, <2>4, <2>10, <2>11 DEF Shut
<1>9. live \subseteq Indexed
  BY <1>2, <1>3, <1>8, IndexedReach, ReachLeast
<1> QED BY <1>7, <1>9

LEMMA PurgeInit ==
  ASSUME Init
  PROVE  PurgeInv
<1>1. IndexInv
  BY IndexInit
<1>2. /\ pc = [t \in Threads |-> "idle"] /\ call = [t \in Threads |-> NoCall] /\ raced = FALSE
  BY DEF Init
<1>3. \A t \in Threads : pc[t] = "idle" /\ call[t] = NoCall /\ call[t].op = "none"
  BY <1>2 DEF NoCall
<1>4. ClientNodes /\ BottomFirst /\ UnlinksDead
  BY <1>3 DEF ClientNodes, NodeOK, BottomFirst, UnlinksDead
<1>5. Reached /\ Swept /\ WalkFinds
  BY <1>3, StartReach DEF Reached, Swept, WalkFinds
<1> QED BY <1>1, <1>2, <1>4, <1>5 DEF PurgeInv

-----------------------------------------------------------------------------
LEMMA PurgeStep ==
  ASSUME PurgeInv, [Next]_vars
  PROVE  PurgeInv'
<1>1. CASE \E t \in Threads : Call(t) \/ InCall(t)
  BY <1>1, PurgeCall, PurgeInCall
<1>2. CASE UNCHANGED vars
  <2>1. IndexInv'
    BY <1>2, IndexStep DEF PurgeInv
  <2> USE <1>2 DEF vars, shared, client
  <2>2. ClientNodes' /\ BottomFirst' /\ UnlinksDead' /\ raced' \in BOOLEAN
    BY DEF PurgeInv, ClientNodes, BottomFirst, UnlinksDead, Met, Known, Carries, Passes, LinkedAt,
           NewIndex
  <2>3. Indexed' = Indexed /\ \A n : Met(n)' <=> Met(n)
    BY DEF Indexed, Met, Known, Carries, Passes
  <2>4. raced' \/ (Reached' /\ Swept' /\ WalkFinds')
    BY <2>3 DEF PurgeInv, Reached, LinkedAt, Swept, Sweeping, WalkFinds, OnTheWay, Alive, KeyOf
  <2> QED BY <2>1, <2>2, <2>4 DEF PurgeInv
<1> QED BY <1>1, <1>2 DEF Next, Finished

(* Once all calls have returned, and unless a link or an unlink raced, the *)
(* bottom level leads to no deleted node but those deleted while add was   *)
(* busy with them: every remove leaves the index clean, for any number of  *)
(* threads, nodes and levels.                                              *)
THEOREM IndexPurged == Spec => []Purged
<1>1. Init => PurgeInv
  BY PurgeInit
<1>2. PurgeInv /\ [Next]_vars => PurgeInv'
  BY PurgeStep
<1>3. PurgeInv => Purged
  <2>1. ASSUME PurgeInv, Idle, ~raced PROVE Indexed \subseteq live \cup overlap
    BY <2>1 DEF PurgeInv, Swept, Sweeping, Idle, SearchPcs
  <2> QED BY <2>1 DEF Purged
<1> QED BY <1>1, <1>2, <1>3, PTL DEF Spec

=============================================================================
