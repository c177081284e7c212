---------------------------- MODULE Index_proofs ----------------------------
(***************************************************************************)
(* LevelsSorted, HeadsLinked, Assertions and the safety half of Promise    *)
(* for every set of threads and nodes, every bound and all calls.          *)
(*                                                                         *)
(* The argument.  What a search carries along was true once and cannot     *)
(* become false: a node's level and key never change, a deleted node is    *)
(* never added again, so prev stays to the left of the key at its level    *)
(* and next to the right of it (WalkInv).  A level gets an entry of a node *)
(* only from the call of add for it, and before that nobody knows the      *)
(* entry (KnownInv), so next is never the entry add is about to link.      *)
(* Then every successful casRight keeps a level sorted.  The heads form a  *)
(* chain (ChainInv) because a dropped head belongs to the one call of      *)
(* tryReduceLevel that dropped it until it is restored (DropInv).          *)
(***************************************************************************)
EXTENDS Index, FiniteSetTheorems, WellFoundedInduction, TLAPS

NodeIndex  == Nodes \X Levels
HeadOrNull == HeadIndex \cup {Null}
RightOf    == NodeIndex \cup {Null}

SearchPcs == {"walk", "test", "unlink", "succ", "cut", "found"}
LinkPcs   == {"link", "cas", "failed", "up"}
AddPcs    == LinkPcs \cup {"build", "grow", "raise"}
ReducePcs == {"empty", "lower", "recheck", "backout"}
Pcs == {"idle", "find", "curr", "peek", "reduce", "reply"}
         \cup SearchPcs \cup AddPcs \cup ReducePcs

(* The vectors prevs and nexts.                                            *)
Vec(S) == {<<>>} \cup UNION {[0 .. k -> S] : k \in Nat}

Locals == [level_head : HeadOrNull, curr : IndexOrNull, level : Int, prev : IndexOrNull,
           next : RightOf, succ : RightOf, prevs : Vec(IndexOrNull), nexts : Vec(RightOf),
           height : {-1} \cup Levels, inserted : Nat]

AnyCall == {NoCall} \cup {add(n) : n \in Nodes} \cup {remove(n) : n \in Nodes}
             \cup {getPred(k) : k \in Int}

IndexTypeOK ==
  /\ live \subseteq offered
  /\ offered \subseteq Nodes
  /\ m_right \in [IndexNode -> RightOf]
  /\ m_level \in [HeadIndex -> Int]
  /\ m_down \in [HeadIndex -> HeadOrNull]
  /\ m_up \in [HeadIndex -> HeadOrNull]
  /\ m_head_top \in HeadIndex
  /\ pc \in [Threads -> Pcs]
  /\ call \in [Threads -> AnyCall]
  /\ answer \in [Threads -> Nodes \cup {head}]
  /\ done \in [Threads -> Nat]
  /\ loc \in [Threads -> Locals]

Made(h) == m_level[h] >= 0

(* Heads are made in order, each on top of another one.                    *)
HeadInv ==
  /\ \E k \in 0 .. MaxHeads : \A h \in HeadIndex : Made(h) <=> h[2] <= k
  /\ Made(m_head_top)
  /\ m_level[m_head_bottom] = 0
  /\ m_down[m_head_bottom] = Null
  /\ \A h \in HeadIndex \ {m_head_bottom} : Made(h) =>
       m_down[h] # Null /\ Made(m_down[h]) /\ m_level[m_down[h]] = m_level[h] - 1
  /\ \A h \in HeadIndex : m_up[h] # Null => Made(h) /\ m_level[m_up[h]] = m_level[h] + 1

(* The chain of the heads in use.                                          *)
Chain(hs) ==
  /\ m_head_top \in hs
  /\ \A h \in hs : Made(h)
  /\ \A h \in hs \ {m_head_bottom} : m_down[h] \in hs /\ m_up[m_down[h]] = h

ChainInv ==
  /\ m_up[m_head_top] = Null
  /\ \E hs \in SUBSET HeadIndex : Chain(hs)

Dropped(t) == pc[t] \in {"recheck", "backout"}

(* A dropped head that may come back is in nobody's way.                   *)
DropInv ==
  \A t \in Threads : Dropped(t) =>
    /\ loc[t].level_head # m_head_top
    /\ m_up[loc[t].level_head] = Null
    /\ \A u \in Threads : Dropped(u) /\ loc[u].level_head = loc[t].level_head => u = t

(* Live nodes have different keys; a node is added once.                   *)
ClientInv ==
  /\ \A m, n \in live : Key[m] = Key[n] => m = n
  /\ \A t \in Threads : pc[t] = "idle" <=> call[t] = NoCall
  /\ \A t \in Threads : call[t].op = "add" => call[t].node \in offered
  /\ \A t, u \in Threads : /\ call[t].op = "add" /\ call[u].op = "add"
                           /\ call[t].node = call[u].node
                           => t = u

(* The invariants of a thread are stated of its pc p, its locals l and its *)
(* call c, and of the values lv of live and ml of m_level.                 *)

LevelIn(ml, x) == IF x \in HeadIndex THEN ml[x] ELSE x[2]
Sought(c)      == IF c.op = "getPred" THEN c.key ELSE Key[c.node]

(* Which call is where.                                                    *)
StageOK(p, l, c) ==
  /\ p \in AddPcs => c.op = "add"
  /\ p \in ReducePcs \cup {"peek", "reduce"} => c.op = "remove"
  /\ p = "reply" => c.op = "getPred"
  /\ l.height # -1 => /\ p \in (SearchPcs \ {"found"}) \cup LinkPcs \cup {"grow", "raise"}
                      /\ c.op = "add"
  /\ l.height = -1 => l.inserted = 0 /\ p \notin LinkPcs \cup {"grow", "raise"}

(* x is an index node of level i to the left of the key.                   *)
PrevOK(c, ml, i, x) ==
  /\ x \in IndexNode
  /\ LevelIn(ml, x) = i
  /\ x[1] = head \/ KeyOf(x) < Sought(c)

(* r is the end of level i or an index node of it not to the left of the   *)
(* key; if its key is that of the node to add, the node is deleted by now. *)
NextOK(c, lv, i, r) == r # Null =>
  /\ r[2] = i
  /\ Sought(c) <= KeyOf(r)
  /\ c.op = "add" /\ KeyOf(r) = Sought(c) => c.node \notin lv

(* The vectors are filled in down to level i.                              *)
EntriesOK(l, c, lv, ml, i) ==
  /\ 0 \in DOMAIN l.prevs
  /\ DOMAIN l.nexts = DOMAIN l.prevs
  /\ \A j \in DOMAIN l.prevs :
       j >= i => PrevOK(c, ml, j, l.prevs[j]) /\ NextOK(c, lv, j, l.nexts[j])

Searching(p, l) == p = "curr" \/ (p \in SearchPcs /\ l.height = -1)
Inserting(p, l) == p \in LinkPcs \/ (p \in SearchPcs /\ l.height # -1)

(* The level a thread is at, and the entries it has noted.                 *)
LevelOK(p, l, c, lv, ml) ==
  /\ p \in {"curr"} \cup SearchPcs \cup LinkPcs =>
       l.level_head # Null /\ ml[l.level_head] = l.level /\ l.level >= 0
  /\ Searching(p, l) => /\ PrevOK(c, ml, l.level, l.curr)
                        /\ l.level \in DOMAIN l.prevs
                        /\ EntriesOK(l, c, lv, ml, l.level + 1)
  /\ Inserting(p, l) => l.level = l.inserted /\ l.level <= l.height
  /\ Inserting(p, l) \/ p \in {"build", "reply"} => EntriesOK(l, c, lv, ml, 0)

(* The walk of findInsertionPoints and of insert_in_level.                 *)
WalkOK(p, l, c, lv, ml) ==
  /\ p \in SearchPcs \cup {"link", "cas"} => PrevOK(c, ml, l.level, l.prev)
  /\ p \in SearchPcs \ {"walk"} /\ l.next # Null => l.next[2] = l.level
  /\ p \in {"unlink", "succ", "cut"} => l.next # Null
  /\ p = "cut" /\ l.succ # Null => l.succ[2] = l.level /\ KeyOf(l.next) <= KeyOf(l.succ)
  /\ p \in {"found", "link"} => NextOK(c, lv, l.level, l.next)

(* The head a thread wants to cover or to drop.                            *)
TopOK(p, l, ml) ==
  /\ p = "raise" => l.level_head # Null /\ 0 <= ml[l.level_head] /\ ml[l.level_head] < l.height
  /\ p \in ReducePcs => l.level_head # Null /\ 3 <= ml[l.level_head]
  /\ p = "empty" => l.curr \in HeadIndex

ThreadOK(p, l, c, lv, ml) ==
  StageOK(p, l, c) /\ LevelOK(p, l, c, lv, ml) /\ WalkOK(p, l, c, lv, ml) /\ TopOK(p, l, ml)

ThreadInv == \A t \in Threads : ThreadOK(pc[t], loc[t], call[t], live, m_level)

(* An index node that a link or a search knows.                            *)
Carries(l, x) == l.next = x \/ l.succ = x \/ \E j \in DOMAIN l.nexts : l.nexts[j] = x
Known(x) ==
  \/ \E y \in IndexNode : m_right[y] = x
  \/ \E u \in Threads : Carries(loc[u], x)

(* The levels that the call of add in thread t has linked its node into.   *)
LinkedAt(t, i) == i < loc[t].inserted \/ (i = loc[t].inserted /\ pc[t] = "up")

KnownInv ==
  \A x \in NodeIndex : Known(x) =>
    /\ x[1] \in offered
    /\ \A t \in Threads : call[t].op = "add" /\ call[t].node = x[1] => LinkedAt(t, x[2])

(* A node that was not offered yet is not in the index, and no search has  *)
(* come across it.                                                         *)
Passes(l, x) == x = l.curr \/ x = l.prev \/ \E j \in DOMAIN l.prevs : l.prevs[j] = x

OfferedInv ==
  \A x \in NodeIndex : x[1] \notin offered =>
    m_right[x] = Null /\ \A u \in Threads : ~Passes(loc[u], x)

IndexInv == /\ IndexTypeOK /\ HeadInv /\ ChainInv /\ DropInv /\ ClientInv
            /\ ThreadInv /\ KnownInv /\ OfferedInv /\ LevelsSorted

-----------------------------------------------------------------------------
(* The universe of index nodes.                                            *)

(* A HeadIndex object is no index node of a list node, and Null is none.   *)
LEMMA Universe ==
  /\ IndexNode = HeadIndex \cup NodeIndex
  /\ HeadIndex \cap NodeIndex = {}
  /\ Null \notin HeadIndex /\ Null \notin NodeIndex
  /\ m_head_bottom \in HeadIndex
  /\ \A h \in HeadIndex : h[1] = head /\ h[2] \in 0 .. MaxHeads /\ h = <<head, h[2]>>
  /\ \A k \in 0 .. MaxHeads : <<head, k>> \in HeadIndex
  /\ \A x \in NodeIndex : x[1] \in Nodes /\ x[2] \in Levels /\ x = <<x[1], x[2]>> /\ x[1] # head
  /\ \A n \in Nodes, i \in Levels : <<n, i>> \in NodeIndex
  BY KeyAssumption, BoundAssumption
     DEF IndexNode, HeadIndex, NodeIndex, m_head_bottom, Levels

(* Every index node has a key; the head is to the left of all others.      *)
LEMMA Keys ==
  /\ \A x \in IndexNode : KeyOf(x) \in Int
  /\ \A n \in Nodes : Key[n] \in Int /\ Key[head] < Key[n]
  /\ Key[head] \in Int
  BY KeyAssumption, Universe DEF KeyOf

(* The calls are records with these fields.                                *)
LEMMA CallFields ==
  ASSUME NEW c \in AnyCall
  PROVE  /\ c.op \in {"none", "add", "remove", "getPred"}
         /\ c.op = "none" <=> c = NoCall
         /\ c.op \in {"add", "remove"} => c.node \in Nodes /\ Sought(c) = Key[c.node]
         /\ c.op = "add" => c = add(c.node)
         /\ c.op = "remove" => c = remove(c.node)
         /\ c.op = "getPred" => c = getPred(c.key) /\ c.key \in Int /\ Sought(c) = c.key
         /\ c.op # "none" => Sought(c) \in Int
  BY Keys DEF AnyCall, NoCall, add, remove, getPred, Sought

(* The calls a thread draws are among them.                                *)
LEMMA DrawnCall ==
  ASSUME NEW t \in Threads, NEW i \in 1 .. Len(Calls[t]), NEW c \in Calls[t][i]
  PROVE  /\ c \in AnyCall \ {NoCall}
         /\ c.op = "getPred" => c.key \in AskedKeys
<1>1. c \in AllCalls
  BY CallsAssumption DEF AllCalls
<1>2. \/ \E n \in Nodes : c \in {add(n), remove(n)}
      \/ c = getPred(c.key) /\ c.key \in Int
  BY <1>1, CallsAssumption
<1>3. c \in AnyCall \ {NoCall}
  BY <1>2 DEF AnyCall, NoCall, add, remove, getPred
<1> QED BY <1>1, <1>3 DEF AskedKeys

(* The locals agree on what a step of a walk leaves alone.                 *)
SameLevelIn(l, k) ==
  /\ k.level_head = l.level_head /\ k.level = l.level
  /\ k.prevs = l.prevs /\ k.nexts = l.nexts
  /\ k.height = l.height /\ k.inserted = l.inserted

(* One local variable may be replaced.                                     *)
LEMMA SetPrev ==
  ASSUME NEW l \in Locals, NEW x \in IndexOrNull, NEW k, k = [l EXCEPT !.prev = x]
  PROVE  /\ k \in Locals /\ SameLevelIn(l, k)
         /\ k.prev = x /\ k.curr = l.curr /\ k.next = l.next /\ k.succ = l.succ
  BY DEF Locals, SameLevelIn

LEMMA SetNext ==
  ASSUME NEW l \in Locals, NEW x \in RightOf, NEW k, k = [l EXCEPT !.next = x]
  PROVE  /\ k \in Locals /\ SameLevelIn(l, k)
         /\ k.next = x /\ k.curr = l.curr /\ k.prev = l.prev /\ k.succ = l.succ
  BY DEF Locals, SameLevelIn

LEMMA SetSucc ==
  ASSUME NEW l \in Locals, NEW x \in RightOf, NEW k, k = [l EXCEPT !.succ = x]
  PROVE  /\ k \in Locals /\ SameLevelIn(l, k)
         /\ k.succ = x /\ k.curr = l.curr /\ k.prev = l.prev /\ k.next = l.next
  BY DEF Locals, SameLevelIn

LEMMA SetCurrPrev ==
  ASSUME NEW l \in Locals, NEW x \in IndexOrNull, NEW k, k = [l EXCEPT !.curr = x, !.prev = x]
  PROVE  /\ k \in Locals /\ SameLevelIn(l, k)
         /\ k.prev = x /\ k.curr = x /\ k.next = l.next /\ k.succ = l.succ
  BY DEF Locals, SameLevelIn

(* The vectors may be filled in.                                           *)
LEMMA VecUpdate ==
  ASSUME NEW S, NEW v \in Vec(S), NEW i \in DOMAIN v, NEW x \in S
  PROVE  /\ [v EXCEPT ![i] = x] \in Vec(S)
         /\ DOMAIN [v EXCEPT ![i] = x] = DOMAIN v
         /\ [v EXCEPT ![i] = x][i] = x
         /\ \A j \in DOMAIN v : j # i => [v EXCEPT ![i] = x][j] = v[j]
<1>1. v # <<>>
  OBVIOUS
<1>2. PICK k \in Nat : v \in [0 .. k -> S]
  BY <1>1 DEF Vec
<1>3. [v EXCEPT ![i] = x] \in [0 .. k -> S]
  BY <1>2
<1> QED BY <1>2, <1>3 DEF Vec

(* A vector that is filled in starts at level 0, and its entries are typed.*)
LEMMA VecDomain ==
  ASSUME NEW S, NEW v \in Vec(S)
  PROVE  /\ \A i \in DOMAIN v : i \in Nat /\ v[i] \in S /\ 0 \in DOMAIN v
         /\ \A i \in DOMAIN v : \A j \in 0 .. i : j \in DOMAIN v
         /\ IsFiniteSet(DOMAIN v)
<1>1. CASE v = <<>>
  <2>1. DOMAIN v = 1 .. 0
    BY <1>1
  <2> QED BY <2>1, FS_Interval
<1>2. ASSUME NEW k \in Nat, v \in [0 .. k -> S]
      PROVE  /\ \A i \in DOMAIN v : i \in Nat /\ v[i] \in S /\ 0 \in DOMAIN v
             /\ \A i \in DOMAIN v : \A j \in 0 .. i : j \in DOMAIN v
             /\ IsFiniteSet(DOMAIN v)
  BY <1>2, FS_Interval
<1> QED BY <1>1, <1>2 DEF Vec

-----------------------------------------------------------------------------
(* What a thread knows stays true: levels of heads do not change, and a    *)
(* deleted node stays deleted.                                             *)

(* ml2 and lv2 are later values of m_level and live.                       *)
Later(ml, ml2) == \A h \in HeadIndex : ml[h] >= 0 => ml2[h] = ml[h]

LEMMA PrevStable ==
  ASSUME NEW c, NEW ml, NEW ml2, Later(ml, ml2), NEW i \in Nat, NEW x, PrevOK(c, ml, i, x)
  PROVE  PrevOK(c, ml2, i, x)
  BY DEF PrevOK, Later, LevelIn

LEMMA NextStable ==
  ASSUME NEW c, NEW lv, NEW lv2, c.op = "add" /\ c.node \notin lv => c.node \notin lv2,
         NEW i, NEW r, NextOK(c, lv, i, r)
  PROVE  NextOK(c, lv2, i, r)
  BY DEF NextOK

LEMMA EntriesStable ==
  ASSUME NEW l \in Locals, NEW c, NEW ml, NEW ml2, Later(ml, ml2),
         NEW lv, NEW lv2, c.op = "add" /\ c.node \notin lv => c.node \notin lv2,
         NEW i, EntriesOK(l, c, lv, ml, i)
  PROVE  EntriesOK(l, c, lv2, ml2, i)
<1>1. \A j \in DOMAIN l.prevs : j \in Nat
  BY VecDomain DEF Locals
<1>2. ASSUME NEW j \in DOMAIN l.prevs, j >= i
      PROVE  PrevOK(c, ml2, j, l.prevs[j]) /\ NextOK(c, lv2, j, l.nexts[j])
  <2>1. PrevOK(c, ml, j, l.prevs[j]) /\ NextOK(c, lv, j, l.nexts[j])
    BY <1>2 DEF EntriesOK
  <2> QED BY <2>1, <1>1, PrevStable, NextStable
<1> QED BY <1>2 DEF EntriesOK

LEMMA ThreadStable ==
  ASSUME NEW p, NEW l \in Locals, NEW c, NEW ml \in [HeadIndex -> Int], NEW ml2, Later(ml, ml2),
         NEW lv, NEW lv2, c.op = "add" /\ c.node \notin lv => c.node \notin lv2,
         ThreadOK(p, l, c, lv, ml)
  PROVE  ThreadOK(p, l, c, lv2, ml2)
<1>1. StageOK(p, l, c)
  BY DEF ThreadOK
<1>2. l.level \in Int /\ l.level_head \in HeadOrNull
  BY DEF Locals
<1>3. p \in {"curr"} \cup SearchPcs \cup LinkPcs => l.level >= 0 /\ l.level \in Nat
  BY <1>2 DEF ThreadOK, LevelOK
<1>4. LevelOK(p, l, c, lv2, ml2)
  <2> USE DEF ThreadOK, LevelOK
  <2>1. p \in {"curr"} \cup SearchPcs \cup LinkPcs =>
          l.level_head # Null /\ ml2[l.level_head] = l.level /\ l.level >= 0
    BY <1>2, <1>3 DEF Later, HeadOrNull
  <2>2. Searching(p, l) => /\ PrevOK(c, ml2, l.level, l.curr)
                           /\ l.level \in DOMAIN l.prevs
                           /\ EntriesOK(l, c, lv2, ml2, l.level + 1)
    BY <1>3, PrevStable, EntriesStable DEF Searching
  <2>3. Inserting(p, l) \/ p \in {"build", "reply"} => EntriesOK(l, c, lv2, ml2, 0)
    BY EntriesStable
  <2> QED BY <2>1, <2>2, <2>3
<1>5. WalkOK(p, l, c, lv2, ml2)
  <2> USE DEF ThreadOK, WalkOK
  <2>1. p \in SearchPcs \cup {"link", "cas"} => PrevOK(c, ml2, l.level, l.prev)
    BY <1>3, PrevStable DEF LinkPcs
  <2>2. p \in {"found", "link"} => NextOK(c, lv2, l.level, l.next)
    BY NextStable
  <2> QED BY <2>1, <2>2
<1>6. TopOK(p, l, ml2)
  BY <1>2 DEF ThreadOK, TopOK, Later, HeadOrNull
<1> QED BY <1>1, <1>4, <1>5, <1>6 DEF ThreadOK

-----------------------------------------------------------------------------
(* The steps of a thread: what it knows afterwards.                        *)

(* After its step thread t is well-typed and its invariant holds.          *)
Mine(t) ==
  /\ pc'[t] \in Pcs
  /\ loc'[t] \in Locals
  /\ ThreadOK(pc'[t], loc'[t], call'[t], live', m_level')

(* What the invariant says of one thread.                                  *)
LEMMA ThreadFacts ==
  ASSUME IndexTypeOK, ThreadInv, NEW t \in Threads
  PROVE  /\ pc[t] \in Pcs /\ loc[t] \in Locals /\ call[t] \in AnyCall
         /\ StageOK(pc[t], loc[t], call[t])
         /\ LevelOK(pc[t], loc[t], call[t], live, m_level)
         /\ WalkOK(pc[t], loc[t], call[t], live, m_level)
         /\ TopOK(pc[t], loc[t], m_level)
         /\ loc[t].level_head \in HeadOrNull
         /\ loc[t].curr \in IndexOrNull /\ loc[t].prev \in IndexOrNull
         /\ loc[t].next \in RightOf /\ loc[t].succ \in RightOf
         /\ loc[t].level \in Int /\ loc[t].height \in {-1} \cup Levels
         /\ loc[t].inserted \in Nat
         /\ loc[t].prevs \in Vec(IndexOrNull) /\ loc[t].nexts \in Vec(RightOf)
<1>1. loc[t] \in Locals /\ pc[t] \in Pcs /\ call[t] \in AnyCall
  BY DEF IndexTypeOK
<1>2. ThreadOK(pc[t], loc[t], call[t], live, m_level)
  BY DEF ThreadInv
<1> QED BY <1>1, <1>2 DEF ThreadOK, Locals

(* A thread outside a call, and one that leaves it.                        *)
LEMMA NoLocOK ==
  /\ NoLoc \in Locals
  /\ \A c, lv, ml : ThreadOK("idle", NoLoc, c, lv, ml) /\ ThreadOK("find", NoLoc, c, lv, ml)
<1>1. NoLoc \in Locals
  BY DEF NoLoc, Locals, HeadOrNull, IndexOrNull, RightOf, Vec
<1>2. NoLoc.height = -1 /\ NoLoc.inserted = 0
  BY DEF NoLoc
<1> QED
  BY <1>1, <1>2 DEF ThreadOK, StageOK, LevelOK, WalkOK, TopOK, Searching, Inserting,
                    SearchPcs, LinkPcs, AddPcs, ReducePcs

LEMMA LeaveStep ==
  ASSUME IndexTypeOK, NEW t \in Threads, Leave(t)
  PROVE  Mine(t)
<1>1. pc'[t] = "idle" /\ loc'[t] = NoLoc
  BY DEF Leave, Goto, IndexTypeOK
<1>2. "idle" \in Pcs
  BY DEF Pcs
<1> QED BY <1>1, <1>2, NoLocOK DEF Mine

LEMMA ExitStep ==
  ASSUME IndexTypeOK, NEW t \in Threads, Exit(t)
  PROVE  Mine(t)
  BY LeaveStep DEF Exit

LEMMA FindTopStep ==
  ASSUME IndexTypeOK, HeadInv, ThreadInv, NEW t \in Threads, FindTop(t)
  PROVE  Mine(t)
<1> DEFINE m == m_level[m_head_top]
           k == loc'[t]
<1>1. m \in Nat /\ m_head_top \in HeadIndex /\ m_head_top[1] = head
  BY Universe DEF HeadInv, Made, IndexTypeOK
<1>2. /\ pc'[t] = "curr" /\ live' = live /\ m_level' = m_level /\ call' = call
      /\ k = [NoLoc EXCEPT !.level_head = m_head_top, !.curr = m_head_top, !.level = m,
                           !.prevs = [i \in 0 .. m |-> Null], !.nexts = [i \in 0 .. m |-> Null]]
  BY DEF FindTop, Goto, IndexTypeOK, shared, client
<1>3. /\ k.level_head = m_head_top /\ k.curr = m_head_top /\ k.level = m
      /\ k.prevs = [i \in 0 .. m |-> Null] /\ k.nexts = [i \in 0 .. m |-> Null]
      /\ k.height = -1 /\ k.inserted = 0
  BY <1>2 DEF NoLoc
<1>4. k \in Locals
  <2>1. /\ [i \in 0 .. m |-> Null] \in Vec(IndexOrNull)
        /\ [i \in 0 .. m |-> Null] \in Vec(RightOf)
    BY <1>1 DEF Vec, IndexOrNull, RightOf
  <2>2. k = [level_head |-> m_head_top, curr |-> m_head_top, level |-> m, prev |-> Null,
             next |-> Null, succ |-> Null, prevs |-> [i \in 0 .. m |-> Null],
             nexts |-> [i \in 0 .. m |-> Null], height |-> -1, inserted |-> 0]
    BY <1>2 DEF NoLoc
  <2>3. m_head_top \in IndexOrNull /\ Null \in IndexOrNull /\ Null \in RightOf
    BY <1>1, Universe DEF IndexOrNull, RightOf
  <2> HIDE DEF k, m
  <2> QED BY <1>1, <2>1, <2>2, <2>3 DEF Locals, HeadOrNull
<1>5. LevelOK("curr", k, call[t], live, m_level)
  <2>1. PrevOK(call[t], m_level, m, m_head_top)
    BY <1>1, Universe DEF PrevOK, LevelIn
  <2>2. EntriesOK(k, call[t], live, m_level, m + 1)
    BY <1>1, <1>3 DEF EntriesOK
  <2> QED BY <1>1, <1>3, <2>1, <2>2, Universe DEF LevelOK, Searching, Inserting, SearchPcs, LinkPcs
<1>6. StageOK("curr", k, call[t]) /\ WalkOK("curr", k, call[t], live, m_level) /\ TopOK("curr", k, m_level)
  BY <1>3 DEF StageOK, WalkOK, TopOK, SearchPcs, LinkPcs, AddPcs, ReducePcs
<1> QED BY <1>2, <1>4, <1>5, <1>6 DEF Mine, ThreadOK, Pcs

LEMMA CheckCurrStep ==
  ASSUME IndexTypeOK, ThreadInv, NEW t \in Threads, CheckCurr(t)
  PROVE  Mine(t)
<1> DEFINE l == loc[t]
           k == loc'[t]
<1> USE DEF SearchPcs, LinkPcs, AddPcs, ReducePcs, Searching, Inserting
<1>1. pc[t] = "curr" /\ live' = live /\ m_level' = m_level /\ call' = call
  BY DEF CheckCurr, shared, client
<1>2. l.height = -1 /\ l.inserted = 0
  BY <1>1, ThreadFacts DEF StageOK
<1>3. CASE pc'[t] = "walk" /\ k = [l EXCEPT !.prev = l.curr]
  <2>1. k \in Locals /\ SameLevelIn(l, k) /\ k.prev = l.curr /\ k.curr = l.curr
    BY <1>3, ThreadFacts, SetPrev
  <2>2. /\ k.level = l.level /\ k.level_head = l.level_head
        /\ k.prevs = l.prevs /\ k.nexts = l.nexts /\ k.height = -1 /\ k.inserted = 0
    BY <1>2, <2>1 DEF SameLevelIn
  <2>3. StageOK("walk", k, call[t]) /\ TopOK("walk", k, m_level)
    BY <2>2 DEF StageOK, TopOK
  <2>4. LevelOK("walk", k, call[t], live, m_level) /\ WalkOK("walk", k, call[t], live, m_level)
    BY <1>1, <2>1, <2>2, ThreadFacts DEF LevelOK, WalkOK, EntriesOK
  <2> QED BY <1>1, <1>3, <2>1, <2>3, <2>4 DEF Mine, ThreadOK, Pcs
<1>4. CASE pc'[t] = "find" /\ k = l
  <2>1. ThreadOK("find", l, call[t], live, m_level)
    BY <1>2 DEF ThreadOK, StageOK, LevelOK, WalkOK, TopOK
  <2> QED BY <1>1, <1>4, <2>1, ThreadFacts DEF Mine, Pcs
<1>5. \/ pc'[t] = "walk" /\ k = [l EXCEPT !.prev = l.curr]
      \/ pc'[t] = "find" /\ k = l
  BY DEF CheckCurr, Goto, IndexTypeOK
<1> QED BY <1>3, <1>4, <1>5

(* A step of a walk stays at its level.                                    *)
LEMMA SameLevel ==
  ASSUME NEW l \in Locals, NEW k \in Locals, NEW c, NEW lv, NEW ml,
         NEW p \in SearchPcs, NEW q,
         \/ q \in SearchPcs \ {"found"}
         \/ q = "found" /\ l.height = -1
         \/ q = "link" /\ l.height # -1,
         SameLevelIn(l, k),
         k.curr = l.curr \/ PrevOK(c, ml, l.level, k.curr),
         StageOK(p, l, c), LevelOK(p, l, c, lv, ml)
  PROVE  StageOK(q, k, c) /\ LevelOK(q, k, c, lv, ml) /\ TopOK(q, k, ml)
<1> USE DEF SearchPcs, LinkPcs, AddPcs, ReducePcs, Searching, Inserting, SameLevelIn
<1>1. StageOK(q, k, c)
  BY DEF StageOK
<1>2. \A i : EntriesOK(l, c, lv, ml, i) => EntriesOK(k, c, lv, ml, i)
  BY DEF EntriesOK
<1>3. LevelOK(q, k, c, lv, ml)
  BY <1>2 DEF LevelOK
<1>4. TopOK(q, k, ml)
  BY DEF TopOK
<1> QED BY <1>1, <1>3, <1>4

(* A walk that starts over does so at a head of its level.                 *)
LEMMA HeadIsPrev ==
  ASSUME NEW h \in HeadIndex, NEW c, NEW ml
  PROVE  PrevOK(c, ml, ml[h], h)
  BY Universe DEF PrevOK, LevelIn

LEMMA WalkFailedStep ==
  ASSUME IndexTypeOK, ThreadInv, NEW t \in Threads, pc[t] \in SearchPcs, WalkFailed(t),
         live' = live, m_level' = m_level, call' = call
  PROVE  Mine(t)
<1> DEFINE l == loc[t]
           k == loc'[t]
<1>1. pc'[t] = "walk" /\ k = [l EXCEPT !.curr = l.level_head, !.prev = l.level_head]
  BY ThreadFacts DEF WalkFailed, Goto, IndexTypeOK, Locals
<1>2. l.level_head \in HeadIndex /\ m_level[l.level_head] = l.level
  BY ThreadFacts DEF LevelOK, HeadOrNull
<1>3. l \in Locals /\ l.level_head \in IndexOrNull
  BY <1>2, ThreadFacts, Universe DEF IndexOrNull
<1>4. k \in Locals /\ SameLevelIn(l, k) /\ k.curr = l.level_head /\ k.prev = l.level_head
  <2> HIDE DEF l, k
  <2> QED BY <1>1, <1>3, SetCurrPrev
<1>5. PrevOK(call[t], m_level, l.level, l.level_head)
  BY <1>2, HeadIsPrev
<1>6. StageOK("walk", k, call[t]) /\ LevelOK("walk", k, call[t], live, m_level) /\ TopOK("walk", k, m_level)
  BY <1>4, <1>5, ThreadFacts, SameLevel DEF SearchPcs
<1>7. WalkOK("walk", k, call[t], live, m_level)
  BY <1>4, <1>5 DEF WalkOK, SameLevelIn
<1> QED BY <1>1, <1>4, <1>6, <1>7 DEF Mine, ThreadOK, Pcs, SearchPcs

(* The level of a right neighbour.                                         *)
LEMMA RightLevel ==
  ASSUME IndexTypeOK, LevelsSorted, NEW x \in IndexNode, m_right[x] # Null
  PROVE  /\ m_right[x] \in NodeIndex
         /\ m_right[x][2] = LevelIn(m_level, x)
         /\ KeyOf(x) <= KeyOf(m_right[x])
  BY Universe DEF IndexTypeOK, LevelsSorted, RightOf, LevelIn, LevelOf

LEMMA WalkStep ==
  ASSUME IndexTypeOK, ThreadInv, LevelsSorted, NEW t \in Threads, Walk(t)
  PROVE  Mine(t)
<1> DEFINE l == loc[t]
           k == loc'[t]
           r == m_right[l.prev]
<1>1. /\ pc[t] = "walk" /\ pc'[t] = "test" /\ k = [l EXCEPT !.next = r]
      /\ live' = live /\ m_level' = m_level /\ call' = call
  BY DEF Walk, Goto, IndexTypeOK, shared, client
<1>2. PrevOK(call[t], m_level, l.level, l.prev)
  BY <1>1, ThreadFacts DEF WalkOK, SearchPcs
<1>3. r \in RightOf /\ (r # Null => r[2] = l.level)
  BY <1>2, RightLevel DEF PrevOK, IndexTypeOK
<1>4. l \in Locals
  BY ThreadFacts
<1>5. k \in Locals /\ SameLevelIn(l, k) /\ k.curr = l.curr /\ k.prev = l.prev /\ k.next = r
  BY <1>1, <1>3, <1>4, SetNext
<1>6. StageOK("test", k, call[t]) /\ LevelOK("test", k, call[t], live, m_level) /\ TopOK("test", k, m_level)
  <2>1. StageOK("walk", l, call[t]) /\ LevelOK("walk", l, call[t], live, m_level)
    BY <1>1, ThreadFacts
  <2> HIDE DEF l, k
  <2> QED BY <1>4, <1>5, <2>1, SameLevel DEF SearchPcs
<1>7. WalkOK("test", k, call[t], live, m_level)
  BY <1>2, <1>3, <1>5 DEF WalkOK, SameLevelIn
<1> QED BY <1>1, <1>5, <1>6, <1>7 DEF Mine, ThreadOK, Pcs, SearchPcs

(* A live neighbour with the key of the node to add: the node is deleted.  *)
LEMMA NextIsOther ==
  ASSUME IndexTypeOK, ThreadInv, ClientInv, KnownInv, NEW t \in Threads, pc[t] = "test",
         loc[t].next # Null, Alive(loc[t].next), call[t].op = "add",
         KeyOf(loc[t].next) = Sought(call[t])
  PROVE  call[t].node \notin live
<1> DEFINE r == loc[t].next
           n == call[t].node
<1>1. r \in NodeIndex /\ r[1] \in live /\ r[2] \in Nat /\ r[2] = loc[t].level
  <2>1. r \in NodeIndex
    BY ThreadFacts DEF RightOf
  <2>2. r[2] \in Nat
    BY <2>1, Universe DEF Levels
  <2>3. r[2] = loc[t].level
    BY ThreadFacts DEF WalkOK, SearchPcs
  <2> QED BY <2>1, <2>2, <2>3, Universe DEF Alive
<1>2. Key[r[1]] = Key[n]
  BY CallFields, ThreadFacts DEF KeyOf
<1>3. Known(r)
  BY DEF Known, Carries
<1>4. ASSUME r[1] = n PROVE FALSE
  <2>1. LinkedAt(t, r[2])
    BY <1>1, <1>3, <1>4 DEF KnownInv
  <2>2. r[2] < loc[t].inserted
    BY <2>1 DEF LinkedAt
  <2>3. loc[t].height = -1 => loc[t].inserted = 0
    BY ThreadFacts DEF StageOK
  <2>4. loc[t].height # -1 => loc[t].level = loc[t].inserted
    BY ThreadFacts DEF LevelOK, Inserting, SearchPcs
  <2> QED BY <1>1, <2>2, <2>3, <2>4, ThreadFacts
<1> QED BY <1>1, <1>2, <1>4 DEF ClientInv

LEMMA TestStep ==
  ASSUME IndexTypeOK, ThreadInv, ClientInv, KnownInv, NEW t \in Threads, Test(t)
  PROVE  Mine(t)
<1> DEFINE l == loc[t]
           k == loc'[t]
           r == l.next
<1>1. pc[t] = "test" /\ live' = live /\ m_level' = m_level /\ call' = call
  BY DEF Test, shared, client
<1>2. /\ PrevOK(call[t], m_level, l.level, l.prev)
      /\ r # Null => r \in NodeIndex /\ r[2] = l.level
  BY <1>1, ThreadFacts DEF WalkOK, SearchPcs, RightOf
<1>3. Sought(call[t]) \in Int /\ SearchKey(t) = Sought(call[t])
  <2>1. call[t] # NoCall
    BY <1>1 DEF ClientInv
  <2> QED BY <2>1, ThreadFacts, CallFields DEF SearchKey, Sought
<1>4. r # Null => KeyOf(r) \in Int
  BY <1>2, Keys, Universe
<1>5. \/ r # Null /\ ~Alive(r) /\ pc'[t] = "unlink" /\ loc' = loc
      \/ r # Null /\ Sought(call[t]) > KeyOf(r) /\ pc'[t] = "walk" /\ k = [l EXCEPT !.prev = r]
      \/ /\ r # Null => Alive(r) /\ Sought(call[t]) <= KeyOf(r)
         /\ pc'[t] = (IF l.height < 0 THEN "found" ELSE "link")
         /\ loc' = loc
  BY <1>3, <1>4 DEF Test, Goto, IndexTypeOK
<1>6. CASE r # Null /\ ~Alive(r) /\ pc'[t] = "unlink" /\ loc' = loc
  <2>1. StageOK("unlink", l, call[t]) /\ LevelOK("unlink", l, call[t], live, m_level) /\ TopOK("unlink", l, m_level)
    BY <1>1, ThreadFacts, SameLevel DEF SearchPcs, SameLevelIn
  <2>2. WalkOK("unlink", l, call[t], live, m_level)
    BY <1>2, <1>6 DEF WalkOK
  <2> QED BY <1>1, <1>6, <2>1, <2>2, ThreadFacts DEF Mine, ThreadOK, Pcs, SearchPcs
<1>7. CASE r # Null /\ Sought(call[t]) > KeyOf(r) /\ pc'[t] = "walk" /\ k = [l EXCEPT !.prev = r]
  <2>1. PrevOK(call[t], m_level, l.level, r)
    BY <1>2, <1>3, <1>4, <1>7, Universe DEF PrevOK, LevelIn
  <2>2. l \in Locals /\ r \in IndexOrNull
    BY <2>1, ThreadFacts DEF PrevOK, IndexOrNull
  <2>3. k \in Locals /\ SameLevelIn(l, k) /\ k.curr = l.curr /\ k.prev = r
    BY <1>7, <2>2, SetPrev
  <2>4. StageOK("walk", k, call[t]) /\ LevelOK("walk", k, call[t], live, m_level) /\ TopOK("walk", k, m_level)
    BY <1>1, <2>2, <2>3, ThreadFacts, SameLevel DEF SearchPcs
  <2>5. WalkOK("walk", k, call[t], live, m_level)
    BY <2>1, <2>3 DEF WalkOK, SameLevelIn
  <2> QED BY <1>1, <1>7, <2>3, <2>4, <2>5 DEF Mine, ThreadOK, Pcs, SearchPcs
<1>8. CASE /\ r # Null => Alive(r) /\ Sought(call[t]) <= KeyOf(r)
           /\ pc'[t] = (IF l.height < 0 THEN "found" ELSE "link")
           /\ loc' = loc
  <2>1. NextOK(call[t], live, l.level, r)
    BY <1>1, <1>2, <1>8, NextIsOther DEF NextOK
  <2>2. \/ pc'[t] = "found" /\ l.height = -1
        \/ pc'[t] = "link" /\ l.height # -1
    BY <1>8, BoundAssumption, ThreadFacts DEF Levels
  <2>3. StageOK(pc'[t], l, call[t]) /\ LevelOK(pc'[t], l, call[t], live, m_level) /\ TopOK(pc'[t], l, m_level)
    BY <1>1, <2>2, ThreadFacts, SameLevel DEF SearchPcs, SameLevelIn
  <2>4. WalkOK(pc'[t], l, call[t], live, m_level)
    BY <1>2, <2>1, <2>2 DEF WalkOK
  <2> QED BY <1>1, <1>8, <2>2, <2>3, <2>4, ThreadFacts DEF Mine, ThreadOK, Pcs, SearchPcs, AddPcs, LinkPcs
<1> QED BY <1>5, <1>6, <1>7, <1>8

LEMMA UnlinkCheckStep ==
  ASSUME IndexTypeOK, ThreadInv, NEW t \in Threads, UnlinkCheck(t)
  PROVE  Mine(t)
<1> DEFINE l == loc[t]
<1>1. pc[t] = "unlink" /\ live' = live /\ m_level' = m_level /\ call' = call
  BY DEF UnlinkCheck, shared, client
<1>2. CASE WalkFailed(t)
  BY <1>1, <1>2, WalkFailedStep DEF SearchPcs
<1>3. CASE pc'[t] = "succ" /\ loc' = loc
  <2>1. StageOK("succ", l, call[t]) /\ LevelOK("succ", l, call[t], live, m_level) /\ TopOK("succ", l, m_level)
    BY <1>1, ThreadFacts, SameLevel DEF SearchPcs, SameLevelIn
  <2>2. WalkOK("succ", l, call[t], live, m_level)
    BY <1>1, ThreadFacts DEF WalkOK, SearchPcs
  <2> QED BY <1>1, <1>3, <2>1, <2>2, ThreadFacts DEF Mine, ThreadOK, Pcs, SearchPcs
<1> QED BY <1>2, <1>3 DEF UnlinkCheck, Goto, IndexTypeOK

LEMMA UnlinkReadStep ==
  ASSUME IndexTypeOK, ThreadInv, LevelsSorted, NEW t \in Threads, UnlinkRead(t)
  PROVE  Mine(t)
<1> DEFINE l == loc[t]
           k == loc'[t]
           s == m_right[l.next]
<1>1. /\ pc[t] = "succ" /\ pc'[t] = "cut" /\ k = [l EXCEPT !.succ = s]
      /\ live' = live /\ m_level' = m_level /\ call' = call
  BY DEF UnlinkRead, Goto, IndexTypeOK, shared, client
<1>2. l.next \in NodeIndex /\ l.next \in IndexNode /\ l.next[2] = l.level
  BY <1>1, ThreadFacts, Universe DEF WalkOK, SearchPcs, RightOf
<1>3. s \in RightOf /\ (s # Null => s[2] = l.level /\ KeyOf(l.next) <= KeyOf(s))
  BY <1>2, RightLevel, Universe DEF IndexTypeOK, LevelIn
<1>4. /\ l \in Locals /\ StageOK("succ", l, call[t]) /\ LevelOK("succ", l, call[t], live, m_level)
      /\ WalkOK("succ", l, call[t], live, m_level)
  BY <1>1, ThreadFacts
<1>5. /\ k \in Locals /\ SameLevelIn(l, k)
      /\ k.curr = l.curr /\ k.prev = l.prev /\ k.next = l.next /\ k.succ = s
  BY <1>1, <1>3, <1>4, SetSucc
<1>6. StageOK("cut", k, call[t]) /\ LevelOK("cut", k, call[t], live, m_level) /\ TopOK("cut", k, m_level)
  <2> HIDE DEF l, k
  <2> QED BY <1>4, <1>5, SameLevel DEF SearchPcs
<1>7. WalkOK("cut", k, call[t], live, m_level)
  BY <1>3, <1>4, <1>5 DEF WalkOK, SameLevelIn, SearchPcs
<1> QED BY <1>1, <1>5, <1>6, <1>7 DEF Mine, ThreadOK, Pcs, SearchPcs

LEMMA UnlinkCasStep ==
  ASSUME IndexTypeOK, ThreadInv, NEW t \in Threads, UnlinkCas(t)
  PROVE  Mine(t)
<1> DEFINE l == loc[t]
<1>1. pc[t] = "cut" /\ live' = live /\ m_level' = m_level /\ call' = call
  BY DEF UnlinkCas, client
<1>2. CASE WalkFailed(t)
  BY <1>1, <1>2, WalkFailedStep DEF SearchPcs
<1>3. CASE pc'[t] = "walk" /\ loc' = loc
  <2>1. StageOK("walk", l, call[t]) /\ LevelOK("walk", l, call[t], live, m_level) /\ TopOK("walk", l, m_level)
    BY <1>1, ThreadFacts, SameLevel DEF SearchPcs, SameLevelIn
  <2>2. WalkOK("walk", l, call[t], live, m_level)
    BY <1>1, ThreadFacts DEF WalkOK, SearchPcs
  <2> QED BY <1>1, <1>3, <2>1, <2>2, ThreadFacts DEF Mine, ThreadOK, Pcs, SearchPcs
<1> QED BY <1>2, <1>3 DEF UnlinkCas, Goto, IndexTypeOK

(* Below a head of a level above 0 there is one of the level below.        *)
LEMMA DownHead ==
  ASSUME IndexTypeOK, HeadInv, NEW h \in HeadIndex, Made(h)
  PROVE  /\ m_level[h] \in Nat
         /\ m_down[h] = Null => m_level[h] = 0
         /\ m_level[h] # 0 => /\ m_down[h] \in HeadIndex
                              /\ m_level[m_down[h]] = m_level[h] - 1
                              /\ h # m_head_bottom
         /\ m_down[h] # Null => m_down[h] \in HeadIndex /\ m_level[m_down[h]] = m_level[h] - 1
                                /\ Made(m_down[h])
  BY Universe DEF IndexTypeOK, HeadInv, Made, HeadOrNull

(* Below an index node to the left of the key lies another one.            *)
LEMMA DownPrev ==
  ASSUME IndexTypeOK, HeadInv, NEW c, NEW i \in Nat, NEW x, PrevOK(c, m_level, i, x)
  PROVE  /\ Down(x) = Null => i = 0
         /\ Down(x) # Null => i # 0 /\ PrevOK(c, m_level, i - 1, Down(x))
<1>1. x \in IndexNode /\ LevelIn(m_level, x) = i
  BY DEF PrevOK
<1>2. CASE x \in HeadIndex
  <2>1. Made(x) /\ m_level[x] = i /\ Down(x) = m_down[x]
    BY <1>1, <1>2 DEF LevelIn, Made, Down
  <2>2. ASSUME m_down[x] # Null PROVE i # 0 /\ PrevOK(c, m_level, i - 1, m_down[x])
    <3>1. m_down[x] \in HeadIndex /\ m_level[m_down[x]] = i - 1 /\ m_level[m_down[x]] >= 0
      BY <1>2, <2>1, <2>2, DownHead DEF Made
    <3>2. PrevOK(c, m_level, m_level[m_down[x]], m_down[x])
      BY <3>1, HeadIsPrev
    <3>3. i # 0
      BY <3>1
    <3> QED BY <3>1, <3>2, <3>3
  <2> QED BY <1>2, <2>1, <2>2, DownHead
<1>3. CASE x \in NodeIndex
  <2>1. x \notin HeadIndex /\ x[2] = i /\ x[1] \in Nodes /\ x[1] # head /\ i \in Levels
    BY <1>1, <1>3, Universe DEF LevelIn
  <2>2. Down(x) = IF i = 0 THEN Null ELSE <<x[1], i - 1>>
    BY <2>1 DEF Down
  <2>3. ASSUME i # 0
        PROVE  <<x[1], i - 1>> # Null /\ PrevOK(c, m_level, i - 1, <<x[1], i - 1>>)
    <3>1. i - 1 \in Levels
      BY <2>1, <2>3, BoundAssumption DEF Levels
    <3>2. <<x[1], i - 1>> \in NodeIndex
      BY <2>1, <3>1, Universe
    <3>3. KeyOf(<<x[1], i - 1>>) = KeyOf(x) /\ LevelIn(m_level, <<x[1], i - 1>>) = i - 1
      BY <3>2, Universe DEF KeyOf, LevelIn
    <3> QED BY <3>2, <3>3, Universe DEF PrevOK
  <2> QED BY <2>2, <2>3
<1> QED BY <1>1, <1>2, <1>3, Universe

(* The entries of the level are noted.                                     *)
LEMMA NotedEntries ==
  ASSUME NEW l \in Locals, NEW k \in Locals, NEW c, NEW lv, NEW ml,
         l.level \in DOMAIN l.prevs, EntriesOK(l, c, lv, ml, l.level + 1),
         PrevOK(c, ml, l.level, l.prev), NextOK(c, lv, l.level, l.next),
         k.prevs = [l.prevs EXCEPT ![l.level] = l.prev],
         k.nexts = [l.nexts EXCEPT ![l.level] = l.next]
  PROVE  EntriesOK(k, c, lv, ml, l.level)
<1>1. /\ l.prevs \in Vec(IndexOrNull) /\ l.nexts \in Vec(RightOf) /\ l.level \in Int
      /\ l.prev \in IndexOrNull /\ l.next \in RightOf
      /\ DOMAIN l.nexts = DOMAIN l.prevs /\ 0 \in DOMAIN l.prevs
  BY DEF Locals, EntriesOK
<1>2. /\ DOMAIN k.prevs = DOMAIN l.prevs /\ DOMAIN k.nexts = DOMAIN l.prevs
      /\ k.prevs[l.level] = l.prev /\ k.nexts[l.level] = l.next
      /\ \A j \in DOMAIN l.prevs : j # l.level => k.prevs[j] = l.prevs[j] /\ k.nexts[j] = l.nexts[j]
  BY <1>1, VecUpdate
<1>3. \A j \in DOMAIN l.prevs : j \in Nat
  BY <1>1, VecDomain
<1>4. ASSUME NEW j \in DOMAIN l.prevs, j >= l.level
      PROVE  PrevOK(c, ml, j, k.prevs[j]) /\ NextOK(c, lv, j, k.nexts[j])
  <2>1. CASE j = l.level
    BY <1>2, <2>1
  <2>2. CASE j # l.level
    <3>1. j >= l.level + 1
      BY <1>1, <1>3, <1>4, <2>2
    <3> QED BY <1>2, <2>2, <3>1 DEF EntriesOK
  <2> QED BY <2>1, <2>2
<1> QED BY <1>1, <1>2, <1>4 DEF EntriesOK

LEMMA FoundStep ==
  ASSUME IndexTypeOK, HeadInv, ThreadInv, ClientInv, NEW t \in Threads, Found(t)
  PROVE  Mine(t)
<1> DEFINE l == loc[t]
           k == loc'[t]
           d == Down(l.prev)
           noted == [l EXCEPT !.prevs[l.level] = l.prev, !.nexts[l.level] = l.next]
<1>1. pc[t] = "found" /\ live' = live /\ m_level' = m_level /\ call' = call
  BY DEF Found, shared, client
<1>2. l.height = -1 /\ l.inserted = 0
  BY <1>1, ThreadFacts DEF StageOK, SearchPcs, LinkPcs
<1>3. /\ l.level_head \in HeadIndex /\ m_level[l.level_head] = l.level /\ l.level \in Nat
      /\ PrevOK(call[t], m_level, l.level, l.curr)
      /\ l.level \in DOMAIN l.prevs
      /\ EntriesOK(l, call[t], live, m_level, l.level + 1)
  BY <1>1, <1>2, ThreadFacts DEF LevelOK, SearchPcs, Searching, HeadOrNull
<1>4. PrevOK(call[t], m_level, l.level, l.prev) /\ NextOK(call[t], live, l.level, l.next)
  BY <1>1, ThreadFacts DEF WalkOK, SearchPcs
<1>5. /\ noted \in Locals
      /\ noted.prevs = [l.prevs EXCEPT ![l.level] = l.prev]
      /\ noted.nexts = [l.nexts EXCEPT ![l.level] = l.next]
      /\ noted.height = -1 /\ noted.inserted = 0 /\ noted.level = l.level
      /\ noted.level_head = l.level_head
  <2>1. l \in Locals
    BY ThreadFacts
  <2>2. /\ [l.prevs EXCEPT ![l.level] = l.prev] \in Vec(IndexOrNull)
        /\ [l.nexts EXCEPT ![l.level] = l.next] \in Vec(RightOf)
    <3>1. DOMAIN l.nexts = DOMAIN l.prevs
      BY <1>3 DEF EntriesOK
    <3> QED BY <1>3, <3>1, ThreadFacts, VecUpdate
  <2>3. noted = [l EXCEPT !.prevs = [l.prevs EXCEPT ![l.level] = l.prev],
                          !.nexts = [l.nexts EXCEPT ![l.level] = l.next]]
    BY <2>1 DEF Locals
  <2> HIDE DEF l, noted
  <2> QED BY <1>2, <2>1, <2>2, <2>3 DEF Locals
<1>6. EntriesOK(noted, call[t], live, m_level, l.level)
  <2>1. l \in Locals
    BY ThreadFacts
  <2> HIDE DEF l, noted
  <2> QED BY <1>3, <1>4, <1>5, <2>1, NotedEntries
<1>7. CASE pc'[t] = "curr" /\ loc' = loc
  <2>1. StageOK("curr", l, call[t])
    BY <1>2 DEF StageOK, SearchPcs, LinkPcs, AddPcs, ReducePcs
  <2>2. LevelOK("curr", l, call[t], live, m_level)
    BY <1>2, <1>3, Universe DEF LevelOK, SearchPcs, LinkPcs, Searching, Inserting
  <2>3. WalkOK("curr", l, call[t], live, m_level) /\ TopOK("curr", l, m_level)
    BY DEF WalkOK, TopOK, SearchPcs, ReducePcs
  <2> QED BY <1>1, <1>7, <2>1, <2>2, <2>3, ThreadFacts DEF Mine, ThreadOK, Pcs
<1>8. CASE d = Null /\ pc'[t] = AfterSearch(t) /\ k = noted
  <2>1. l.level = 0
    BY <1>3, <1>4, <1>8, DownPrev
  <2>2. \/ call[t].op = "add" /\ pc'[t] = "build"
        \/ call[t].op = "remove" /\ pc'[t] = "peek"
        \/ call[t].op = "getPred" /\ pc'[t] = "reply"
    <3>1. call[t] # NoCall
      BY <1>1 DEF ClientInv
    <3> QED BY <1>8, <3>1, ThreadFacts, CallFields DEF AfterSearch
  <2> HIDE DEF l, noted, k
  <2>3. StageOK(pc'[t], k, call[t]) /\ TopOK(pc'[t], k, m_level) /\ WalkOK(pc'[t], k, call[t], live, m_level)
    BY <1>5, <1>8, <2>2 DEF StageOK, TopOK, WalkOK, SearchPcs, LinkPcs, AddPcs, ReducePcs
  <2>4. LevelOK(pc'[t], k, call[t], live, m_level)
    BY <1>6, <1>8, <2>1, <2>2 DEF LevelOK, SearchPcs, LinkPcs, Searching, Inserting
  <2> QED BY <1>1, <1>5, <1>8, <2>2, <2>3, <2>4 DEF k, Mine, ThreadOK, Pcs, AddPcs
<1>9. CASE /\ d # Null /\ pc'[t] = "curr"
           /\ k = [noted EXCEPT !.curr = d, !.level = l.level - 1, !.level_head = m_down[l.level_head]]
  <2>1. l.level # 0 /\ PrevOK(call[t], m_level, l.level - 1, d)
    BY <1>3, <1>4, <1>9, DownPrev
  <2>2. /\ m_down[l.level_head] \in HeadIndex
        /\ m_level[m_down[l.level_head]] = l.level - 1
    BY <1>3, <2>1, DownHead DEF Made
  <2>3. /\ k \in Locals
        /\ k.prevs = noted.prevs /\ k.nexts = noted.nexts /\ k.height = -1 /\ k.inserted = 0
        /\ k.curr = d /\ k.level = l.level - 1 /\ k.level_head = m_down[l.level_head]
    <3>1. d \in IndexOrNull /\ l.level - 1 \in Int /\ m_down[l.level_head] \in HeadOrNull
      BY <1>3, <2>1, <2>2 DEF PrevOK, IndexOrNull, HeadOrNull
    <3> HIDE DEF l, noted, d, k
    <3> QED BY <1>5, <1>9, <3>1 DEF Locals
  <2>4. DOMAIN noted.prevs = DOMAIN l.prevs /\ l.level - 1 \in DOMAIN l.prevs
    <3>1. l.prevs \in Vec(IndexOrNull) /\ l.prev \in IndexOrNull
      BY ThreadFacts
    <3>2. l.level - 1 \in 0 .. l.level
      BY <1>3, <2>1
    <3> HIDE DEF l, noted
    <3> QED BY <1>3, <1>5, <3>1, <3>2, VecUpdate, VecDomain
  <2>5. EntriesOK(k, call[t], live, m_level, (l.level - 1) + 1)
    <3>1. (l.level - 1) + 1 = l.level
      BY <1>3
    <3> HIDE DEF l, noted, k
    <3> QED BY <1>6, <2>3, <3>1 DEF EntriesOK
  <2> HIDE DEF l, noted, k, d
  <2>6. LevelOK("curr", k, call[t], live, m_level)
    BY <1>3, <2>1, <2>2, <2>3, <2>4, <2>5, Universe DEF LevelOK, SearchPcs, LinkPcs, Searching, Inserting
  <2>7. StageOK("curr", k, call[t]) /\ WalkOK("curr", k, call[t], live, m_level) /\ TopOK("curr", k, m_level)
    BY <2>3 DEF StageOK, WalkOK, TopOK, SearchPcs, LinkPcs, AddPcs, ReducePcs
  <2> QED BY <1>1, <1>9, <2>3, <2>6, <2>7 DEF k, Mine, ThreadOK, Pcs
<1>10. \/ pc'[t] = "curr" /\ loc' = loc
       \/ d = Null /\ pc'[t] = AfterSearch(t) /\ k = noted
       \/ /\ d # Null /\ pc'[t] = "curr"
          /\ k = [noted EXCEPT !.curr = d, !.level = l.level - 1, !.level_head = m_down[l.level_head]]
  <2>1. \/ Goto(t, "curr") /\ loc' = loc
        \/ d = Null /\ Goto(t, AfterSearch(t)) /\ loc' = [loc EXCEPT ![t] = noted]
        \/ /\ d # Null /\ Goto(t, "curr")
           /\ loc' = [loc EXCEPT ![t] = [noted EXCEPT
                           !.curr = d, !.level = @ - 1, !.level_head = m_down[@]]]
    BY DEF Found
  <2>2. [noted EXCEPT !.curr = d, !.level = @ - 1, !.level_head = m_down[@]]
         = [noted EXCEPT !.curr = d, !.level = l.level - 1, !.level_head = m_down[l.level_head]]
    <3> HIDE DEF noted, l
    <3> QED BY <1>5
  <2> HIDE DEF noted, d
  <2> QED BY <2>1, <2>2 DEF Goto, IndexTypeOK
<1> QED BY <1>7, <1>8, <1>9, <1>10

(* The next level add goes to, or none.                                    *)
LEMMA InsertAtStep ==
  ASSUME IndexTypeOK, NEW t \in Threads, NEW l \in Locals, NEW h \in HeadOrNull,
         h # Null => m_level[h] = l.inserted,
         call[t].op = "add", l.height \in Levels,
         EntriesOK(l, call[t], live, m_level, 0),
         InsertAt(t, h, l), UNCHANGED shared
  PROVE  Mine(t)
<1> DEFINE k == loc'[t]
           i == m_level[h]
<1>1. live' = live /\ m_level' = m_level
  BY DEF shared
<1>2. /\ l.prevs \in Vec(IndexOrNull) /\ l.nexts \in Vec(RightOf) /\ l.inserted \in Nat
      /\ l.height \in Nat /\ l.height # -1
  BY BoundAssumption DEF Locals, Levels
<1>3. CASE /\ h # Null /\ i <= l.height /\ i \in DOMAIN l.prevs
           /\ pc'[t] = "link" /\ call' = call
           /\ k = [l EXCEPT !.level_head = h, !.level = i, !.prev = l.prevs[i], !.next = l.nexts[i]]
  <2>1. i \in DOMAIN l.nexts /\ PrevOK(call[t], m_level, i, l.prevs[i]) /\ NextOK(call[t], live, i, l.nexts[i])
    BY <1>2, <1>3 DEF EntriesOK
  <2>2. l.prevs[i] \in IndexOrNull /\ l.nexts[i] \in RightOf /\ i \in Int
    BY <1>2, <1>3, <2>1, VecDomain
  <2>3. /\ k \in Locals
        /\ k.level_head = h /\ k.level = i /\ k.prev = l.prevs[i] /\ k.next = l.nexts[i]
        /\ k.prevs = l.prevs /\ k.nexts = l.nexts /\ k.height = l.height /\ k.inserted = l.inserted
    <3> HIDE DEF k, i
    <3> QED BY <1>3, <2>2 DEF Locals
  <2> HIDE DEF k
  <2>4. StageOK("link", k, call[t]) /\ TopOK("link", k, m_level)
    BY <1>2, <2>3 DEF StageOK, TopOK, SearchPcs, LinkPcs, AddPcs, ReducePcs
  <2>5. LevelOK("link", k, call[t], live, m_level)
    BY <1>2, <1>3, <2>3 DEF LevelOK, EntriesOK, SearchPcs, LinkPcs, Searching, Inserting
  <2>6. WalkOK("link", k, call[t], live, m_level)
    BY <2>1, <2>3 DEF WalkOK, SearchPcs
  <2> QED BY <1>1, <1>3, <2>3, <2>4, <2>5, <2>6 DEF k, Mine, ThreadOK, Pcs, AddPcs, LinkPcs
<1>4. CASE Leave(t)
  BY <1>4, LeaveStep
<1>5. CASE pc'[t] = "grow" /\ call' = call /\ k = l
  <2>1. ThreadOK("grow", l, call[t], live, m_level)
    BY <1>2 DEF ThreadOK, StageOK, LevelOK, WalkOK, TopOK, SearchPcs, LinkPcs, AddPcs, ReducePcs,
                Searching, Inserting
  <2> QED BY <1>1, <1>5, <2>1 DEF Mine, Pcs, AddPcs
<1>6. \/ /\ h # Null /\ i <= l.height /\ i \in DOMAIN l.prevs
         /\ pc'[t] = "link" /\ call' = call
         /\ k = [l EXCEPT !.level_head = h, !.level = i, !.prev = l.prevs[i], !.next = l.nexts[i]]
      \/ Leave(t)
      \/ pc'[t] = "grow" /\ call' = call /\ k = l
  BY DEF InsertAt, Goto, IndexTypeOK, client
<1> QED BY <1>3, <1>4, <1>5, <1>6

(* createNewIndexNode draws a level that exists.                           *)
LEMMA DrawnLevel ==
  ASSUME NEW v \in Vec(IndexOrNull), NEW h \in 0 .. Min(MaxLevel, Cardinality(DOMAIN v) + 1)
  PROVE  h \in Levels
<1>1. Cardinality(DOMAIN v) \in Nat
  BY VecDomain, FS_CardinalityType
<1> QED BY <1>1, BoundAssumption DEF Min, Levels

LEMMA BuildStep ==
  ASSUME IndexTypeOK, HeadInv, ThreadInv, NEW t \in Threads, Build(t)
  PROVE  Mine(t)
<1> DEFINE l == loc[t]
<1>1. pc[t] = "build" /\ UNCHANGED shared
  BY DEF Build
<1>2. call[t].op = "add" /\ l.inserted = 0 /\ l \in Locals
  BY <1>1, ThreadFacts DEF StageOK, SearchPcs, LinkPcs, AddPcs
<1>3. EntriesOK(l, call[t], live, m_level, 0)
  BY <1>1, ThreadFacts DEF LevelOK
<1>4. PICK h \in 0 .. Min(MaxLevel, Cardinality(DOMAIN l.prevs) + 1) :
        InsertAt(t, m_head_bottom, [l EXCEPT !.height = h])
  BY DEF Build
<1>5. h \in Levels
  BY <1>4, DrawnLevel, ThreadFacts
<1> DEFINE k == [l EXCEPT !.height = h]
<1>6. k \in Locals /\ k.height = h /\ k.inserted = 0 /\ k.prevs = l.prevs /\ k.nexts = l.nexts
  BY <1>2, <1>5 DEF Locals
<1>7. EntriesOK(k, call[t], live, m_level, 0)
  BY <1>3, <1>6 DEF EntriesOK
<1>8. m_head_bottom \in HeadOrNull /\ m_level[m_head_bottom] = k.inserted
  BY <1>6, Universe DEF HeadInv, HeadOrNull
<1>9. InsertAt(t, m_head_bottom, k)
  BY <1>4
<1> HIDE DEF k
<1> QED BY <1>1, <1>2, <1>5, <1>6, <1>7, <1>8, <1>9, InsertAtStep

LEMMA NextLevelStep ==
  ASSUME IndexTypeOK, HeadInv, ThreadInv, NEW t \in Threads, NextLevel(t)
  PROVE  Mine(t)
<1> DEFINE l == loc[t]
           k == [l EXCEPT !.inserted = l.inserted + 1]
           h == m_up[l.level_head]
<1>1. pc[t] = "up" /\ UNCHANGED shared
  BY DEF NextLevel
<1>2. /\ call[t].op = "add" /\ l \in Locals /\ l.height \in Levels
      /\ l.inserted \in Nat
  BY <1>1, ThreadFacts DEF StageOK, LinkPcs, AddPcs
<1>3. /\ l.level_head \in HeadIndex /\ m_level[l.level_head] = l.inserted
      /\ EntriesOK(l, call[t], live, m_level, 0)
  BY <1>1, ThreadFacts DEF LevelOK, LinkPcs, Inserting, HeadOrNull
<1>4. /\ k \in Locals /\ k.inserted = l.inserted + 1 /\ k.height = l.height
      /\ k.prevs = l.prevs /\ k.nexts = l.nexts
  BY <1>2 DEF Locals
<1>5. EntriesOK(k, call[t], live, m_level, 0)
  BY <1>3, <1>4 DEF EntriesOK
<1>6. h \in HeadOrNull /\ (h # Null => m_level[h] = k.inserted)
  BY <1>3, <1>4 DEF HeadInv, IndexTypeOK
<1>7. InsertAt(t, h, k)
  BY DEF NextLevel
<1> HIDE DEF k, h
<1> QED BY <1>1, <1>2, <1>4, <1>5, <1>6, <1>7, InsertAtStep

LEMMA LinkStep ==
  ASSUME IndexTypeOK, ThreadInv, NEW t \in Threads, Link(t) \/ LinkCas(t)
  PROVE  Mine(t)
<1> DEFINE l == loc[t]
<1>1. /\ pc[t] \in {"link", "cas"} /\ pc'[t] \in {"cas", "failed", "up"}
      /\ pc'[t] = "cas" => pc[t] = "link"
      /\ live' = live /\ m_level' = m_level /\ call' = call /\ loc' = loc
  BY DEF Link, LinkCas, Goto, IndexTypeOK, client
<1> USE DEF SearchPcs, LinkPcs, AddPcs, ReducePcs, Searching, Inserting
<1>2. StageOK(pc'[t], l, call[t]) /\ TopOK(pc'[t], l, m_level)
  BY <1>1, ThreadFacts DEF StageOK, TopOK
<1>3. LevelOK(pc'[t], l, call[t], live, m_level)
  BY <1>1, ThreadFacts DEF LevelOK
<1>4. WalkOK(pc'[t], l, call[t], live, m_level)
  BY <1>1, ThreadFacts DEF WalkOK
<1> QED BY <1>1, <1>2, <1>3, <1>4, ThreadFacts DEF Mine, ThreadOK, Pcs

LEMMA LinkFailedStep ==
  ASSUME IndexTypeOK, ThreadInv, NEW t \in Threads, LinkFailed(t)
  PROVE  Mine(t)
<1> DEFINE l == loc[t]
           k == loc'[t]
<1>1. CASE Exit(t)
  BY <1>1, ExitStep
<1>2. CASE /\ pc'[t] = "walk" /\ k = [l EXCEPT !.prev = l.level_head]
           /\ live' = live /\ m_level' = m_level /\ call' = call
  <2>1. pc[t] = "failed"
    BY DEF LinkFailed
  <2> USE DEF SearchPcs, LinkPcs, AddPcs, ReducePcs, Searching, Inserting
  <2>2. /\ l \in Locals /\ StageOK("failed", l, call[t])
        /\ LevelOK("failed", l, call[t], live, m_level)
        /\ l.level_head \in HeadIndex /\ m_level[l.level_head] = l.level
    BY <2>1, ThreadFacts DEF LevelOK, HeadOrNull
  <2>3. l.level_head \in IndexOrNull
    BY <2>2, Universe DEF IndexOrNull
  <2>4. k \in Locals /\ SameLevelIn(l, k) /\ k.prev = l.level_head
    <3> HIDE DEF l, k
    <3> QED BY <1>2, <2>2, <2>3, SetPrev
  <2>5. PrevOK(call[t], m_level, k.level, k.prev)
    BY <2>2, <2>4, HeadIsPrev DEF SameLevelIn
  <2> HIDE DEF l, k
  <2>6. StageOK("walk", k, call[t]) /\ TopOK("walk", k, m_level)
    BY <2>2, <2>4 DEF StageOK, TopOK, SameLevelIn
  <2>7. LevelOK("walk", k, call[t], live, m_level)
    BY <2>2, <2>4 DEF StageOK, LevelOK, EntriesOK, SameLevelIn
  <2>8. WalkOK("walk", k, call[t], live, m_level)
    BY <2>5 DEF WalkOK
  <2> QED BY <1>2, <2>4, <2>6, <2>7, <2>8 DEF k, Mine, ThreadOK, Pcs
<1> QED BY <1>1, <1>2 DEF LinkFailed, Goto, IndexTypeOK, shared, client

LEMMA GrowStep ==
  ASSUME IndexTypeOK, HeadInv, ThreadInv, NEW t \in Threads, Grow(t)
  PROVE  Mine(t)
<1> DEFINE l == loc[t]
           k == loc'[t]
<1>1. CASE Exit(t)
  BY <1>1, ExitStep
<1>2. CASE /\ m_level[m_head_top] < l.height
           /\ pc'[t] = "raise" /\ k = [l EXCEPT !.level_head = m_head_top]
           /\ live' = live /\ m_level' = m_level /\ call' = call
  <2>1. pc[t] = "grow"
    BY DEF Grow
  <2>2. l \in Locals /\ StageOK("grow", l, call[t])
    BY <2>1, ThreadFacts
  <2>3. m_head_top \in HeadIndex /\ m_head_top # Null /\ 0 <= m_level[m_head_top]
    BY Universe DEF HeadInv, Made, IndexTypeOK
  <2>4. k \in Locals /\ k.level_head = m_head_top /\ k.height = l.height /\ k.inserted = l.inserted
    <3> HIDE DEF l, k
    <3> QED BY <1>2, <2>2, <2>3 DEF Locals, HeadOrNull
  <2> HIDE DEF l, k
  <2> USE DEF SearchPcs, LinkPcs, AddPcs, ReducePcs, Searching, Inserting
  <2>5. StageOK("raise", k, call[t]) /\ TopOK("raise", k, m_level)
    BY <1>2, <2>2, <2>3, <2>4 DEF StageOK, TopOK
  <2>6. LevelOK("raise", k, call[t], live, m_level) /\ WalkOK("raise", k, call[t], live, m_level)
    BY DEF LevelOK, WalkOK
  <2> QED BY <1>2, <2>4, <2>5, <2>6 DEF k, Mine, ThreadOK, Pcs
<1> QED BY <1>1, <1>2 DEF Grow, Goto, IndexTypeOK, shared, client

(* A thread of remove that keeps its locals.                               *)
LEMMA RemoveStage ==
  ASSUME NEW p, NEW q, NEW l \in Locals, NEW c, NEW lv, NEW ml,
         p \in ReducePcs \cup {"peek", "reduce"},
         q \in (ReducePcs \ {"empty"}) \cup {"reduce"},
         q # "reduce" => p \in ReducePcs,
         StageOK(p, l, c), TopOK(p, l, ml)
  PROVE  ThreadOK(q, l, c, lv, ml)
  BY DEF ThreadOK, StageOK, LevelOK, WalkOK, TopOK, SearchPcs, LinkPcs, AddPcs, ReducePcs,
         Searching, Inserting

(* The steps of remove and tryReduceLevel that leave it or keep its locals.*)
LEMMA ReduceKeepStep ==
  ASSUME IndexTypeOK, ThreadInv, NEW t \in Threads,
         Peek(t) \/ Lower(t) \/ Recheck(t) \/ Backout(t)
  PROVE  Mine(t)
<1>1. CASE Leave(t)
  BY <1>1, LeaveStep
<1>2. CASE /\ \/ pc[t] = "peek" /\ pc'[t] = "reduce"
              \/ pc[t] = "lower" /\ pc'[t] = "recheck"
              \/ pc[t] = "recheck" /\ pc'[t] = "backout"
           /\ loc' = loc /\ live' = live /\ m_level' = m_level /\ call' = call
  <2>1. ThreadOK(pc'[t], loc[t], call[t], live, m_level)
    BY <1>2, ThreadFacts, RemoveStage DEF ReducePcs
  <2> QED BY <1>2, <2>1, ThreadFacts DEF Mine, Pcs, ReducePcs
<1>3. CASE Exit(t)
  BY <1>3, ExitStep
<1>4. CASE Peek(t)
  BY <1>2, <1>3, <1>4 DEF Peek, Goto, IndexTypeOK, shared, client
<1>5. CASE Lower(t)
  BY <1>2, <1>3, <1>5 DEF Lower, Goto, IndexTypeOK, client
<1>6. CASE Recheck(t)
  BY <1>2, <1>3, <1>6 DEF Recheck, Goto, IndexTypeOK, shared, client
<1>7. CASE Backout(t)
  BY <1>1, <1>3, <1>7 DEF Backout
<1> QED BY <1>4, <1>5, <1>6, <1>7

LEMMA ReduceStep ==
  ASSUME IndexTypeOK, HeadInv, ThreadInv, NEW t \in Threads, Reduce(t)
  PROVE  Mine(t)
<1> DEFINE l == loc[t]
           k == loc'[t]
           e == m_down[m_down[m_head_top]]
<1>1. CASE Exit(t)
  BY <1>1, ExitStep
<1>2. CASE /\ m_level[m_head_top] >= 3 /\ pc'[t] = "empty"
           /\ k = [l EXCEPT !.level_head = m_head_top, !.curr = e]
           /\ live' = live /\ m_level' = m_level /\ call' = call
  <2>1. pc[t] = "reduce" /\ l \in Locals /\ StageOK("reduce", l, call[t])
    BY ThreadFacts DEF Reduce
  <2>2. m_head_top \in HeadIndex /\ Made(m_head_top) /\ m_head_top # Null
    BY Universe DEF HeadInv, IndexTypeOK
  <2>3. m_down[m_head_top] \in HeadIndex /\ m_level[m_down[m_head_top]] >= 2
    BY <1>2, <2>2, DownHead
  <2>4. e \in HeadIndex /\ e \in IndexOrNull
    BY <2>3, DownHead, Universe DEF Made, IndexTypeOK, IndexOrNull
  <2>5. k \in Locals /\ k.level_head = m_head_top /\ k.curr = e /\ k.height = l.height /\ k.inserted = l.inserted
    <3> HIDE DEF l, k, e
    <3> QED BY <1>2, <2>1, <2>2, <2>4 DEF Locals, HeadOrNull
  <2> HIDE DEF l, k, e
  <2>6. ThreadOK("empty", k, call[t], live, m_level)
    BY <1>2, <2>1, <2>2, <2>4, <2>5
       DEF ThreadOK, StageOK, LevelOK, WalkOK, TopOK, SearchPcs, LinkPcs, AddPcs, ReducePcs,
           Searching, Inserting, IndexTypeOK
  <2> QED BY <1>2, <2>5, <2>6 DEF k, Mine, Pcs, ReducePcs
<1> QED BY <1>1, <1>2, ThreadFacts DEF Reduce, Goto, IndexTypeOK, shared, client, Locals

LEMMA LooksEmptyStep ==
  ASSUME IndexTypeOK, HeadInv, ThreadInv, NEW t \in Threads, LooksEmpty(t)
  PROVE  Mine(t)
<1> DEFINE l == loc[t]
           k == loc'[t]
           h == l.level_head
           d == m_down[h]
<1>1. pc[t] = "empty" /\ l \in Locals /\ StageOK("empty", l, call[t]) /\ TopOK("empty", l, m_level)
  BY ThreadFacts DEF LooksEmpty
<1>2. h \in HeadIndex /\ m_level[h] >= 3 /\ d \in HeadIndex
  <2>1. h \in HeadIndex /\ m_level[h] >= 3
    BY <1>1, ThreadFacts DEF TopOK, ReducePcs, HeadOrNull
  <2> QED BY <2>1, DownHead DEF Made, IndexTypeOK
<1>3. CASE Exit(t)
  BY <1>3, ExitStep
<1>4. CASE pc'[t] = "lower" /\ loc' = loc /\ live' = live /\ m_level' = m_level /\ call' = call
  <2>1. ThreadOK("lower", l, call[t], live, m_level)
    BY <1>1, RemoveStage DEF ReducePcs
  <2> QED BY <1>1, <1>4, <2>1 DEF Mine, Pcs, ReducePcs
<1>5. ASSUME NEW x \in {h, d}, pc' = pc, k = [l EXCEPT !.curr = x],
             live' = live, m_level' = m_level, call' = call
      PROVE  Mine(t)
  <2>1. x \in HeadIndex /\ x \in IndexOrNull
    BY <1>2, Universe DEF IndexOrNull
  <2>2. k \in Locals /\ k.level_head = h /\ k.curr = x /\ k.height = l.height /\ k.inserted = l.inserted
    <3> HIDE DEF l, k
    <3> QED BY <1>1, <1>5, <2>1 DEF Locals
  <2> HIDE DEF l, k
  <2>3. ThreadOK("empty", k, call[t], live, m_level)
    BY <1>1, <2>1, <2>2
       DEF ThreadOK, StageOK, LevelOK, WalkOK, TopOK, SearchPcs, LinkPcs, AddPcs, ReducePcs,
           Searching, Inserting
  <2> QED BY <1>1, <1>5, <2>2, <2>3 DEF k, Mine, Pcs, ReducePcs
<1>6. \/ Exit(t)
      \/ pc'[t] = "lower" /\ loc' = loc /\ live' = live /\ m_level' = m_level /\ call' = call
      \/ \E x \in {h, d} : /\ pc' = pc /\ k = [l EXCEPT !.curr = x]
                           /\ live' = live /\ m_level' = m_level /\ call' = call
  BY DEF LooksEmpty, Goto, IndexTypeOK, shared, client
<1> QED BY <1>3, <1>4, <1>5, <1>6

LEMMA ReplyStep ==
  ASSUME IndexTypeOK, ThreadInv, NEW t \in Threads, Reply(t)
  PROVE  Mine(t)
<1>1. CASE Leave(t)
  BY <1>1, LeaveStep
<1>2. CASE pc'[t] = "find" /\ loc' = loc /\ live' = live /\ m_level' = m_level /\ call' = call
  <2>1. pc[t] = "reply" /\ StageOK("reply", loc[t], call[t])
    BY ThreadFacts DEF Reply
  <2>2. ThreadOK("find", loc[t], call[t], live, m_level)
    BY <2>1 DEF ThreadOK, StageOK, LevelOK, WalkOK, TopOK, SearchPcs, LinkPcs, AddPcs, ReducePcs,
                Searching, Inserting
  <2> QED BY <1>2, <2>2, ThreadFacts DEF Mine, Pcs
<1> QED BY <1>1, <1>2 DEF Reply, Goto, IndexTypeOK, shared, client

-----------------------------------------------------------------------------
(* Heads.                                                                  *)

(* The object that Raise makes did not exist before, and is the next one.  *)
LEMMA NewHeadFresh ==
  ASSUME IndexTypeOK, HeadInv, NewHead \in HeadIndex
  PROVE  /\ ~Made(NewHead)
         /\ \A h \in HeadIndex : Made(h) <=> h[2] < NewHead[2]
<1> DEFINE S == {h \in HeadIndex : m_level[h] >= 0}
<1>1. PICK k \in 0 .. MaxHeads : \A h \in HeadIndex : Made(h) <=> h[2] <= k
  BY DEF HeadInv
<1>2. k \in Nat /\ \A i \in 0 .. k : i \in 0 .. MaxHeads /\ <<head, i>> \in HeadIndex
  BY Universe, BoundAssumption
<1> DEFINE f == [i \in 0 .. k |-> <<head, i>>]
<1>3. f \in Bijection(0 .. k, S)
  <2>1. \A h \in HeadIndex : h \in S <=> h[2] <= k
    BY <1>1 DEF Made
  <2>2. f \in [0 .. k -> S]
    BY <1>2, <2>1
  <2>3. ASSUME NEW a \in 0 .. k, NEW b \in 0 .. k, f[a] = f[b] PROVE a = b
    BY <2>3
  <2>4. ASSUME NEW h \in S PROVE \E a \in 0 .. k : f[a] = h
    <3>1. h[2] \in 0 .. k /\ h = <<head, h[2]>>
      BY <2>1, Universe
    <3> QED BY <3>1
  <2> QED BY <2>2, <2>3, <2>4 DEF Bijection, Injection, IsInjective, Surjection
<1>4. Cardinality(S) = k + 1
  <2>1. ExistsBijection(0 .. k, S)
    BY <1>3 DEF ExistsBijection
  <2>2. IsFiniteSet(0 .. k) /\ Cardinality(0 .. k) = k + 1
    BY <1>2, FS_Interval
  <2> QED BY <2>1, <2>2, FS_Bijection
<1>5. NewHead = <<head, k + 1>>
  BY <1>4 DEF NewHead
<1>6. NewHead[2] = k + 1
  BY <1>5
<1>7. \A h \in HeadIndex : h[2] \in Nat
  BY Universe
<1>8. \A h \in HeadIndex : Made(h) <=> h[2] < NewHead[2]
  BY <1>1, <1>2, <1>6, <1>7
<1> QED BY <1>6, <1>8

-----------------------------------------------------------------------------
(* What the steps of a thread leave alone.                                 *)

Same(u) == pc'[u] = pc[u] /\ loc'[u] = loc[u] /\ call'[u] = call[u] /\ answer'[u] = answer[u]

(* A thread inside a call stays there with its call, or leaves it.         *)
Shape(t) ==
  /\ pc[t] # "idle"
  /\ live' = live /\ offered' = offered /\ done' = done
  /\ \/ call' = call /\ answer' = answer /\ pc'[t] # "idle"
     \/ Leave(t)
  /\ pc' = pc \/ \E p : pc' = [pc EXCEPT ![t] = p]
  /\ loc' = loc \/ \E k : loc' = [loc EXCEPT ![t] = k]
  /\ answer' = answer \/ \E b : answer' = [answer EXCEPT ![t] = b]
  /\ \A u \in Threads \ {t} : Same(u)

LEMMA LeaveShape ==
  ASSUME IndexTypeOK, NEW t \in Threads, Leave(t), pc[t] # "idle",
         live' = live, offered' = offered,
         answer' = answer \/ \E b : answer' = [answer EXCEPT ![t] = b]
  PROVE  Shape(t)
  BY DEF Shape, Same, Leave, Goto, IndexTypeOK

LEMMA ExitShape ==
  ASSUME IndexTypeOK, NEW t \in Threads, Exit(t), pc[t] # "idle"
  PROVE  Shape(t)
  BY LeaveShape DEF Exit, shared

LEMMA InsertAtShape ==
  ASSUME IndexTypeOK, NEW t \in Threads, NEW h, NEW l, InsertAt(t, h, l), UNCHANGED shared,
         pc[t] # "idle"
  PROVE  Shape(t)
<1>1. CASE Leave(t) /\ UNCHANGED answer
  BY <1>1, LeaveShape DEF shared
<1>2. CASE \E p \in {"link", "grow"} : \E k : Goto(t, p) /\ loc' = [loc EXCEPT ![t] = k] /\ UNCHANGED client
  BY <1>2 DEF Shape, Same, Goto, IndexTypeOK, shared, client
<1> QED BY <1>1, <1>2 DEF InsertAt

LEMMA InCallShape ==
  ASSUME IndexTypeOK, ClientInv, NEW t \in Threads, InCall(t)
  PROVE  Shape(t)
<1> USE DEF Shape, Same, Goto, IndexTypeOK, shared, client
<1>1. CASE FindTop(t)     BY <1>1 DEF FindTop
<1>2. CASE CheckCurr(t)   BY <1>2 DEF CheckCurr
<1>3. CASE Walk(t)        BY <1>3 DEF Walk
<1>4. CASE Test(t)        BY <1>4 DEF Test
<1>5. CASE Found(t)
  <2>1. \E p, k : /\ pc[t] = "found" /\ p # "idle" /\ Goto(t, p)
                  /\ loc' = loc \/ loc' = [loc EXCEPT ![t] = k]
                  /\ UNCHANGED <<shared, client>>
    <3>1. pc[t] = "found" /\ call[t] # NoCall /\ call[t] \in AnyCall
      BY <1>5 DEF Found, ClientInv
    <3>2. AfterSearch(t) # "idle"
      BY <3>1, CallFields DEF AfterSearch
    <3> QED BY <1>5, <3>2 DEF Found
  <2> QED BY <2>1
<1>6. CASE UnlinkCheck(t) BY <1>6 DEF UnlinkCheck, WalkFailed
<1>7. CASE UnlinkRead(t)  BY <1>7 DEF UnlinkRead
<1>8. CASE UnlinkCas(t)   BY <1>8 DEF UnlinkCas, WalkFailed
<1>9. CASE Build(t)
  <2>1. PICK h, l : InsertAt(t, h, l) /\ UNCHANGED shared /\ pc[t] = "build"
    BY <1>9 DEF Build
  <2> QED BY <2>1, InsertAtShape
<1>10. CASE Link(t)       BY <1>10 DEF Link
<1>11. CASE LinkCas(t)    BY <1>11 DEF LinkCas
<1>12. CASE LinkFailed(t) BY <1>12, ExitShape DEF LinkFailed
<1>13. CASE NextLevel(t)
  <2>1. PICK h, l : InsertAt(t, h, l) /\ UNCHANGED shared /\ pc[t] = "up"
    BY <1>13 DEF NextLevel
  <2> QED BY <2>1, InsertAtShape
<1>14. CASE Grow(t)       BY <1>14, ExitShape DEF Grow
<1>15. CASE Raise(t)      BY <1>15, LeaveShape DEF Raise
<1>16. CASE Peek(t)       BY <1>16, ExitShape DEF Peek
<1>17. CASE Reduce(t)     BY <1>17, ExitShape DEF Reduce
<1>18. CASE LooksEmpty(t) BY <1>18, ExitShape DEF LooksEmpty
<1>19. CASE Lower(t)      BY <1>19, ExitShape DEF Lower
<1>20. CASE Recheck(t)    BY <1>20, ExitShape DEF Recheck
<1>21. CASE Backout(t)    BY <1>21, ExitShape, LeaveShape DEF Backout
<1>22. CASE Reply(t)      BY <1>22, LeaveShape DEF Reply
<1> QED BY <1>1, <1>2, <1>3, <1>4, <1>5, <1>6, <1>7, <1>8, <1>9, <1>10, <1>11, <1>12, <1>13,
           <1>14, <1>15, <1>16, <1>17, <1>18, <1>19, <1>20, <1>21, <1>22 DEF InCall

(* The links only few steps change.                                        *)
LEMMA QuietLinks ==
  ASSUME NEW t \in Threads, InCall(t)
  PROVE  \/ UNCHANGED links
         \/ UnlinkCas(t) \/ Link(t) \/ LinkCas(t)
         \/ Raise(t) \/ Lower(t) \/ Backout(t)
<1> USE DEF links, shared, Exit
<1>1. CASE FindTop(t)     BY <1>1 DEF FindTop
<1>2. CASE CheckCurr(t)   BY <1>2 DEF CheckCurr
<1>3. CASE Walk(t)        BY <1>3 DEF Walk
<1>4. CASE Test(t)        BY <1>4 DEF Test
<1>5. CASE Found(t)       BY <1>5 DEF Found
<1>6. CASE UnlinkCheck(t) BY <1>6 DEF UnlinkCheck
<1>7. CASE UnlinkRead(t)  BY <1>7 DEF UnlinkRead
<1>8. CASE Build(t)       BY <1>8 DEF Build
<1>9. CASE LinkFailed(t)  BY <1>9 DEF LinkFailed
<1>10. CASE NextLevel(t)  BY <1>10 DEF NextLevel
<1>11. CASE Grow(t)       BY <1>11 DEF Grow
<1>12. CASE Peek(t)       BY <1>12 DEF Peek
<1>13. CASE Reduce(t)     BY <1>13 DEF Reduce
<1>14. CASE LooksEmpty(t) BY <1>14 DEF LooksEmpty
<1>15. CASE Recheck(t)    BY <1>15 DEF Recheck
<1>16. CASE Reply(t)      BY <1>16 DEF Reply
<1> QED BY <1>1, <1>2, <1>3, <1>4, <1>5, <1>6, <1>7, <1>8, <1>9, <1>10, <1>11, <1>12, <1>13,
           <1>14, <1>15, <1>16 DEF InCall

-----------------------------------------------------------------------------
(* The conjuncts of the invariant, one after the other.                    *)

(* Raise makes a head on top of the one it covers.                         *)
LEMMA RaiseEffect ==
  ASSUME IndexTypeOK, HeadInv, ThreadInv, NEW t \in Threads, Raise(t)
  PROVE  LET h == loc[t].level_head
             g == NewHead
             i == m_level[h] + 1
         IN  \/ UNCHANGED links
             \/ /\ m_head_top = h /\ g \in HeadIndex /\ ~Made(g) /\ h \in HeadIndex /\ Made(h) /\ g # h
                /\ i \in Levels /\ i <= loc[t].height
                /\ NewIndex(t, i) \in NodeIndex
                /\ m_level' = [m_level EXCEPT ![g] = i]
                /\ m_down' = [m_down EXCEPT ![g] = h]
                /\ m_right' = [m_right EXCEPT ![g] = NewIndex(t, i)]
                /\ m_up' = [m_up EXCEPT ![h] = g]
                /\ m_head_top' = g
<1>1. pc[t] = "raise"
  BY DEF Raise
<1>2. /\ loc[t].level_head \in HeadIndex /\ Made(loc[t].level_head)
      /\ m_level[loc[t].level_head] \in Nat
      /\ m_level[loc[t].level_head] < loc[t].height
  BY <1>1, ThreadFacts DEF TopOK, HeadOrNull, Made, IndexTypeOK
<1>3. loc[t].height \in Levels /\ call[t].op = "add" /\ call[t].node \in Nodes
  BY <1>1, ThreadFacts, CallFields DEF StageOK, AddPcs
<1>4. m_level[loc[t].level_head] + 1 \in Levels /\ m_level[loc[t].level_head] + 1 <= loc[t].height
  BY <1>2, <1>3, BoundAssumption DEF Levels
<1>5. NewIndex(t, m_level[loc[t].level_head] + 1) \in NodeIndex
  BY <1>3, <1>4, Universe DEF NewIndex
<1>6. NewHead \in HeadIndex => ~Made(NewHead) /\ NewHead # loc[t].level_head
  BY <1>2, NewHeadFresh
<1> QED BY <1>2, <1>4, <1>5, <1>6 DEF Raise

(* Heads that exist keep their level and what is below them.               *)
LEMMA HeadsKept ==
  ASSUME IndexTypeOK, HeadInv, ThreadInv, NEW t \in Threads, InCall(t)
  PROVE  Later(m_level, m_level')
<1>1. CASE Raise(t)
  BY <1>1, RaiseEffect DEF Later, Made, links, IndexTypeOK
<1>2. CASE m_level' = m_level
  BY <1>2 DEF Later
<1> QED BY <1>1, <1>2, QuietLinks DEF links, UnlinkCas, Link, LinkCas, Lower, Backout, Exit, shared

(* The head that tryReduceLevel drops or restores is not the bottom one.   *)
LEMMA ReduceHead ==
  ASSUME IndexTypeOK, HeadInv, ThreadInv, NEW t \in Threads, pc[t] \in ReducePcs
  PROVE  LET h == loc[t].level_head
         IN  /\ h \in HeadIndex /\ Made(h) /\ h # m_head_bottom
             /\ m_down[h] \in HeadIndex /\ Made(m_down[h]) /\ m_level[m_down[h]] = m_level[h] - 1
<1>1. /\ loc[t].level_head \in HeadIndex /\ m_level[loc[t].level_head] >= 3
      /\ m_level[loc[t].level_head] \in Int
  BY ThreadFacts DEF TopOK, HeadOrNull, IndexTypeOK
<1> QED BY <1>1, DownHead DEF Made

LEMMA LowerEffect ==
  ASSUME IndexTypeOK, HeadInv, ThreadInv, NEW t \in Threads, Lower(t)
  PROVE  LET h == loc[t].level_head
         IN  \/ UNCHANGED links /\ Leave(t)
             \/ /\ m_head_top = h
                /\ m_up' = [m_up EXCEPT ![m_down[h]] = Null]
                /\ m_head_top' = m_down[h]
                /\ UNCHANGED <<m_right, m_level, m_down, loc>>
                /\ pc'[t] = "recheck"
  BY DEF Lower, Exit, shared, links, Goto, IndexTypeOK

LEMMA BackoutEffect ==
  ASSUME IndexTypeOK, HeadInv, ThreadInv, NEW t \in Threads, Backout(t)
  PROVE  LET h == loc[t].level_head
         IN  /\ \/ UNCHANGED links
                \/ /\ m_head_top = m_down[h]
                   /\ m_up' = [m_up EXCEPT ![m_down[h]] = h]
                   /\ m_head_top' = h
                   /\ UNCHANGED <<m_right, m_level, m_down>>
             /\ Leave(t)
  BY DEF Backout, Exit, shared, links

LEMMA HeadNext ==
  ASSUME IndexTypeOK, HeadInv, ThreadInv, NEW t \in Threads, InCall(t)
  PROVE  HeadInv'
<1>1. CASE UNCHANGED <<m_level, m_down, m_up, m_head_top>>
  BY <1>1 DEF HeadInv, Made
<1>2. CASE Raise(t)
  <2> DEFINE h == loc[t].level_head
             g == NewHead
             i == m_level[h] + 1
  <2>1. CASE UNCHANGED links
    BY <1>1, <2>1 DEF links
  <2>2. CASE /\ m_head_top = h /\ g \in HeadIndex /\ ~Made(g) /\ h \in HeadIndex /\ Made(h) /\ g # h
             /\ i \in Levels
             /\ m_level' = [m_level EXCEPT ![g] = i]
             /\ m_down' = [m_down EXCEPT ![g] = h]
             /\ m_up' = [m_up EXCEPT ![h] = g]
             /\ m_head_top' = g
    <3>1. i \in Nat /\ i >= 1 /\ m_level[h] = i - 1
      BY <2>2 DEF Levels, Made, IndexTypeOK
    <3>2. \A f \in HeadIndex : Made(f) <=> f[2] < g[2]
      BY <2>2, NewHeadFresh
    <3> HIDE DEF h, g, i
    <3>3. /\ m_level'[g] = i /\ m_down'[g] = h /\ m_up'[h] = g
          /\ \A f \in HeadIndex \ {g} : m_level'[f] = m_level[f] /\ m_down'[f] = m_down[f]
          /\ \A f \in HeadIndex \ {h} : m_up'[f] = m_up[f]
      BY <2>2 DEF IndexTypeOK
    <3>4. \A f \in HeadIndex : Made(f)' <=> Made(f) \/ f = g
      BY <3>1, <3>3 DEF Made
    <3>5. g # m_head_bottom
      BY <2>2 DEF HeadInv, Made
    <3>6. \E k \in 0 .. MaxHeads : \A f \in HeadIndex : Made(f)' <=> f[2] <= k
      <4>1. g[2] \in 0 .. MaxHeads /\ \A f \in HeadIndex : f[2] \in Nat /\ (f[2] = g[2] => f = g)
        BY <2>2, Universe
      <4>2. \A f \in HeadIndex : Made(f)' <=> f[2] <= g[2]
        BY <3>2, <3>4, <4>1
      <4> QED BY <4>1, <4>2
    <3>7. ASSUME NEW f \in HeadIndex \ {m_head_bottom}, Made(f)'
          PROVE  m_down'[f] # Null /\ Made(m_down[f])' /\ m_level'[m_down'[f]] = m_level'[f] - 1
      <4>1. CASE f = g
        BY <2>2, <3>1, <3>3, <3>4, <4>1, Universe DEF Made
      <4>2. CASE f # g
        <5>1. m_down[f] # Null /\ Made(m_down[f]) /\ m_level[m_down[f]] = m_level[f] - 1
              /\ m_down[f] \in HeadIndex
          BY <3>4, <3>7, <4>2 DEF HeadInv, IndexTypeOK, HeadOrNull
        <5>2. m_down[f] # g
          BY <2>2, <5>1
        <5> QED BY <3>3, <4>2, <5>1, <5>2 DEF Made
      <4> QED BY <4>1, <4>2
    <3>8. ASSUME NEW f \in HeadIndex, m_up'[f] # Null
          PROVE  Made(f)' /\ m_level'[m_up'[f]] = m_level'[f] + 1
      <4>1. CASE f = h
        BY <2>2, <3>1, <3>3, <3>4, <4>1
      <4>2. CASE f # h
        <5>1. Made(f) /\ m_up[f] \in HeadIndex /\ m_level[m_up[f]] = m_level[f] + 1
          BY <3>3, <3>8, <4>2 DEF HeadInv, IndexTypeOK, HeadOrNull
        <5>2. f # g /\ m_up[f] # g
          BY <2>2, <5>1 DEF Made, IndexTypeOK
        <5> QED BY <3>3, <3>4, <4>2, <5>1, <5>2
      <4> QED BY <4>1, <4>2
    <3>9. m_level'[m_head_bottom] = 0 /\ m_down'[m_head_bottom] = Null
      BY <3>3, <3>5, Universe DEF HeadInv
    <3>10. Made(m_head_top)'
      BY <2>2, <3>4 DEF Made
    <3> QED BY <3>6, <3>7, <3>8, <3>9, <3>10 DEF HeadInv
  <2> QED BY <1>2, <2>1, <2>2, RaiseEffect
<1>3. CASE Lower(t)
  <2> DEFINE h == loc[t].level_head
  <2>1. pc[t] \in ReducePcs
    BY <1>3 DEF Lower, ReducePcs
  <2>2. CASE UNCHANGED links
    BY <1>1, <2>2 DEF links
  <2>3. CASE /\ m_up' = [m_up EXCEPT ![m_down[h]] = Null]
             /\ m_head_top' = m_down[h] /\ m_level' = m_level /\ m_down' = m_down
    <3>1. Made(m_down[h])
      BY <2>1, ReduceHead
    <3>2. \A f \in HeadIndex : m_up'[f] # Null => m_up'[f] = m_up[f]
      BY <2>3 DEF IndexTypeOK
    <3> QED BY <2>3, <3>1, <3>2 DEF HeadInv, Made
  <2> QED BY <1>3, <2>2, <2>3, LowerEffect
<1>4. CASE Backout(t)
  <2> DEFINE h == loc[t].level_head
  <2>1. pc[t] \in ReducePcs
    BY <1>4 DEF Backout, ReducePcs
  <2>2. CASE UNCHANGED links
    BY <1>1, <2>2 DEF links
  <2>3. CASE /\ m_up' = [m_up EXCEPT ![m_down[h]] = h]
             /\ m_head_top' = h /\ m_level' = m_level /\ m_down' = m_down
    <3>1. Made(h) /\ h \in HeadIndex /\ Made(m_down[h]) /\ m_level[h] = m_level[m_down[h]] + 1
      BY <2>1, ReduceHead DEF IndexTypeOK
    <3>2. \A f \in HeadIndex : m_up'[f] = m_up[f] \/ (f = m_down[h] /\ m_up'[f] = h)
      BY <2>3 DEF IndexTypeOK
    <3> QED BY <2>3, <3>1, <3>2 DEF HeadInv, Made
  <2> QED BY <1>4, <2>2, <2>3, BackoutEffect
<1> QED BY <1>1, <1>2, <1>3, <1>4, QuietLinks DEF links, UnlinkCas, Link, LinkCas

(* How a thread comes to hold a dropped head.                              *)
LEMMA DroppedFrom ==
  ASSUME IndexTypeOK, ClientInv, NEW t \in Threads, InCall(t), pc'[t] \in {"recheck", "backout"}
  PROVE  \/ Lower(t) /\ pc'[t] = "recheck"
         \/ Recheck(t) /\ pc[t] = "recheck" /\ loc' = loc /\ UNCHANGED links
<1> USE DEF Goto, IndexTypeOK
<1>1. ~Leave(t)
  BY DEF Leave
<1>2. ~Exit(t)
  BY <1>1 DEF Exit
<1>3. ~FindTop(t) /\ ~CheckCurr(t) /\ ~Walk(t)
  BY DEF FindTop, CheckCurr, Walk
<1>4. ~Test(t)
  BY DEF Test
<1>5. ~Found(t)
  <2>1. ASSUME Found(t) PROVE pc'[t] \in {"curr", AfterSearch(t)} /\ call[t] # NoCall
    BY <2>1 DEF Found, ClientInv
  <2>2. ASSUME call[t] # NoCall PROVE AfterSearch(t) \in {"build", "peek", "reply"}
    BY <2>2, CallFields DEF AfterSearch
  <2> QED BY <2>1, <2>2
<1>6. ~UnlinkCheck(t) /\ ~UnlinkRead(t) /\ ~UnlinkCas(t)
  BY DEF UnlinkCheck, UnlinkRead, UnlinkCas, WalkFailed
<1>7. ~Build(t) /\ ~NextLevel(t)
  BY <1>1 DEF Build, NextLevel, InsertAt
<1>8. ~Link(t) /\ ~LinkCas(t) /\ ~LinkFailed(t)
  BY <1>2 DEF Link, LinkCas, LinkFailed
<1>9. ~Grow(t) /\ ~Raise(t) /\ ~Peek(t) /\ ~Reduce(t)
  BY <1>1, <1>2 DEF Grow, Raise, Peek, Reduce
<1>10. ~LooksEmpty(t) /\ ~Backout(t) /\ ~Reply(t)
  BY <1>1, <1>2 DEF LooksEmpty, Backout, Reply
<1>11. Lower(t) => pc'[t] = "recheck"
  BY <1>2 DEF Lower
<1>12. Recheck(t) => pc[t] = "recheck" /\ loc' = loc /\ UNCHANGED links
  BY <1>2 DEF Recheck, shared, links
<1> QED BY <1>3, <1>4, <1>5, <1>6, <1>7, <1>8, <1>9, <1>10, <1>11, <1>12 DEF InCall

(* The chain grows and shrinks at its top.                                 *)
LEMMA ChainNext ==
  ASSUME IndexTypeOK, HeadInv, ThreadInv, ChainInv, DropInv, NEW t \in Threads, InCall(t)
  PROVE  ChainInv'
<1>1. PICK hs \in SUBSET HeadIndex : Chain(hs)
  BY DEF ChainInv
<1>2. m_up[m_head_top] = Null /\ m_head_top \in HeadIndex
  BY DEF ChainInv, IndexTypeOK
<1>3. CASE UNCHANGED <<m_level, m_down, m_up, m_head_top>>
  BY <1>3 DEF ChainInv, Chain, Made
<1> DEFINE h == loc[t].level_head
(* The top covers nobody's link.                                           *)
<1>4. \A f \in hs \ {m_head_bottom} : m_down[f] # m_head_top /\ m_down[f] \in HeadIndex
  BY <1>1, <1>2, Universe DEF Chain
<1>5. CASE Raise(t)
  <2> DEFINE g == NewHead
             i == m_level[h] + 1
  <2>1. CASE UNCHANGED links
    BY <1>3, <2>1 DEF links
  <2>2. CASE /\ m_head_top = h /\ g \in HeadIndex /\ ~Made(g) /\ h \in HeadIndex /\ Made(h) /\ g # h
             /\ i \in Levels
             /\ m_level' = [m_level EXCEPT ![g] = i]
             /\ m_down' = [m_down EXCEPT ![g] = h]
             /\ m_up' = [m_up EXCEPT ![h] = g]
             /\ m_head_top' = g
    <3>1. i \in Nat /\ g \notin hs
      BY <1>1, <2>2 DEF Levels, Chain
    <3> HIDE DEF h, g, i
    <3>2. /\ m_level'[g] = i /\ m_down'[g] = h /\ m_up'[h] = g
          /\ \A f \in HeadIndex \ {g} : m_level'[f] = m_level[f] /\ m_down'[f] = m_down[f]
          /\ \A f \in HeadIndex \ {h} : m_up'[f] = m_up[f]
      BY <2>2 DEF IndexTypeOK
    <3>3. m_up[g] = Null
      BY <2>2 DEF HeadInv
    <3>4. ASSUME NEW f \in hs \cup {g} PROVE m_level'[f] >= 0
      BY <1>1, <3>1, <3>2 DEF Chain, Made
    <3>5. ASSUME NEW f \in (hs \cup {g}) \ {m_head_bottom}
          PROVE  m_down'[f] \in hs \cup {g} /\ m_up'[m_down'[f]] = f
      <4>1. CASE f = g
        BY <1>1, <2>2, <3>2, <4>1 DEF Chain
      <4>2. CASE f # g
        <5>1. m_down[f] \in hs /\ m_up[m_down[f]] = f /\ m_down[f] # h
          BY <1>1, <1>4, <2>2, <4>2 DEF Chain
        <5> QED BY <3>2, <4>2, <5>1
      <4> QED BY <4>1, <4>2
    <3>6. PICK S \in SUBSET HeadIndex : S = hs \cup {g}
      BY <2>2
    <3>7. Chain(S)'
      BY <2>2, <3>4, <3>5, <3>6 DEF Chain, Made
    <3>8. (m_up[m_head_top])' = Null
      BY <2>2, <3>2, <3>3
    <3> QED BY <3>7, <3>8 DEF ChainInv
  <2> QED BY <1>5, <2>1, <2>2, RaiseEffect
<1>6. CASE Lower(t)
  <2>1. pc[t] \in ReducePcs
    BY <1>6 DEF Lower, ReducePcs
  <2>2. CASE UNCHANGED links
    BY <1>3, <2>2 DEF links
  <2>3. CASE /\ m_head_top = h
             /\ m_up' = [m_up EXCEPT ![m_down[h]] = Null]
             /\ m_head_top' = m_down[h] /\ m_level' = m_level /\ m_down' = m_down
    <3>1. h \in HeadIndex /\ h # m_head_bottom /\ m_down[h] \in HeadIndex
      BY <2>1, ReduceHead
    <3>2. m_down[h] \in hs /\ m_down[h] # h /\ m_up[m_down[h]] = h
      BY <1>1, <1>4, <2>3, <3>1 DEF Chain
    <3> HIDE DEF h
    <3>3. ASSUME NEW f \in (hs \ {h}) \ {m_head_bottom}
          PROVE  m_down'[f] \in hs \ {h} /\ m_up'[m_down'[f]] = f
      <4>1. m_down[f] \in hs /\ m_up[m_down[f]] = f /\ m_down[f] # h /\ m_down[f] \in HeadIndex
        BY <1>1, <1>4, <2>3 DEF Chain
      <4>2. m_down[f] # m_down[h]
        BY <3>2, <4>1
      <4> QED BY <2>3, <4>1, <4>2 DEF IndexTypeOK
    <3>4. PICK S \in SUBSET HeadIndex : S = hs \ {h}
      OBVIOUS
    <3>5. Chain(S)'
      BY <1>1, <2>3, <3>2, <3>3, <3>4 DEF Chain, Made
    <3>6. (m_up[m_head_top])' = Null
      BY <2>3, <3>1 DEF IndexTypeOK
    <3> QED BY <3>5, <3>6 DEF ChainInv
  <2> QED BY <1>6, <2>2, <2>3, LowerEffect
<1>7. CASE Backout(t)
  <2>1. pc[t] = "backout"
    BY <1>7 DEF Backout
  <2>2. CASE UNCHANGED links
    BY <1>3, <2>2 DEF links
  <2>3. CASE /\ m_head_top = m_down[h]
             /\ m_up' = [m_up EXCEPT ![m_down[h]] = h]
             /\ m_head_top' = h /\ m_level' = m_level /\ m_down' = m_down
    <3>1. h \in HeadIndex /\ Made(h) /\ h # m_head_bottom
      BY <2>1, ReduceHead DEF ReducePcs
    <3>2. m_up[h] = Null /\ h # m_head_top
      BY <2>1 DEF DropInv, Dropped
    <3> HIDE DEF h
    <3>3. ASSUME NEW f \in (hs \cup {h}) \ {m_head_bottom}
          PROVE  m_down'[f] \in hs \cup {h} /\ m_up'[m_down'[f]] = f
      <4>1. CASE f = h
        BY <1>1, <1>2, <2>3, <4>1 DEF Chain, IndexTypeOK
      <4>2. CASE f # h
        <5>1. m_down[f] \in hs /\ m_up[m_down[f]] = f /\ m_down[f] # m_head_top /\ m_down[f] \in HeadIndex
          BY <1>1, <1>4, <4>2 DEF Chain
        <5> QED BY <2>3, <5>1 DEF IndexTypeOK
      <4> QED BY <4>1, <4>2
    <3>4. PICK S \in SUBSET HeadIndex : S = hs \cup {h}
      BY <3>1
    <3>5. Chain(S)'
      BY <1>1, <2>3, <3>1, <3>3, <3>4 DEF Chain, Made
    <3>6. (m_up[m_head_top])' = Null
      BY <1>2, <2>3, <3>1, <3>2 DEF IndexTypeOK
    <3> QED BY <3>5, <3>6 DEF ChainInv
  <2> QED BY <1>7, <2>2, <2>3, BackoutEffect
<1> QED BY <1>3, <1>5, <1>6, <1>7, QuietLinks DEF links, UnlinkCas, Link, LinkCas

(* What tryReduceLevel drops is the top of the chain.                      *)
LEMMA TopLinked ==
  ASSUME IndexTypeOK, ChainInv, m_head_top # m_head_bottom
  PROVE  m_up[m_down[m_head_top]] = m_head_top
  BY DEF ChainInv, Chain

(* A head that another thread has dropped is not touched.                  *)
LEMMA DroppedKept ==
  ASSUME IndexTypeOK, HeadInv, ThreadInv, ChainInv, DropInv,
         NEW t \in Threads, InCall(t), NEW u \in Threads \ {t}, Dropped(u)
  PROVE  /\ loc[u].level_head # m_head_top'
         /\ m_up'[loc[u].level_head] = Null
<1> DEFINE h == loc[t].level_head
           f == loc[u].level_head
<1>1. f \in HeadIndex /\ Made(f) /\ f # m_head_top /\ m_up[f] = Null
  BY ReduceHead DEF DropInv, Dropped, ReducePcs
<1>2. CASE UNCHANGED <<m_up, m_head_top>>
  BY <1>1, <1>2
<1>3. CASE Raise(t)
  <2>1. CASE UNCHANGED links
    BY <1>2, <2>1 DEF links
  <2>2. CASE /\ m_head_top = h /\ NewHead \in HeadIndex /\ ~Made(NewHead)
             /\ m_up' = [m_up EXCEPT ![h] = NewHead]
             /\ m_head_top' = NewHead
    BY <1>1, <2>2 DEF IndexTypeOK
  <2> QED BY <1>3, <2>1, <2>2, RaiseEffect
<1>4. CASE Lower(t)
  <2>1. CASE UNCHANGED links
    BY <1>2, <2>1 DEF links
  <2>2. CASE /\ m_head_top = h
             /\ m_up' = [m_up EXCEPT ![m_down[h]] = Null]
             /\ m_head_top' = m_down[h]
    <3>1. h \in HeadIndex /\ h # m_head_bottom /\ m_down[h] \in HeadIndex
      BY <1>4, ReduceHead DEF Lower, ReducePcs
    <3>2. m_down[h] # f
      BY <1>1, <2>2, <3>1, TopLinked, Universe
    <3> QED BY <1>1, <2>2, <3>1, <3>2 DEF IndexTypeOK
  <2> QED BY <1>4, <2>1, <2>2, LowerEffect
<1>5. CASE Backout(t)
  <2>1. CASE UNCHANGED links
    BY <1>2, <2>1 DEF links
  <2>2. CASE /\ m_head_top = m_down[h]
             /\ m_up' = [m_up EXCEPT ![m_down[h]] = h]
             /\ m_head_top' = h
    <3>1. f # h
      BY <1>5 DEF DropInv, Dropped, Backout
    <3> QED BY <1>1, <2>2, <3>1 DEF IndexTypeOK
  <2> QED BY <1>5, <2>1, <2>2, BackoutEffect
<1> QED BY <1>2, <1>3, <1>4, <1>5, QuietLinks DEF links, UnlinkCas, Link, LinkCas

LEMMA DropNext ==
  ASSUME IndexTypeOK, HeadInv, ThreadInv, ChainInv, DropInv, ClientInv,
         NEW t \in Threads, InCall(t)
  PROVE  DropInv'
<1>1. \A u \in Threads \ {t} : Same(u)
  BY InCallShape DEF Shape
(* The head that t holds afterwards is its own.                            *)
<1>2. ASSUME pc'[t] \in {"recheck", "backout"}
      PROVE  /\ loc' = loc
             /\ loc[t].level_head # m_head_top'
             /\ m_up'[loc[t].level_head] = Null
             /\ \A u \in Threads \ {t} : Dropped(u) => loc[u].level_head # loc[t].level_head
  <2>1. CASE Lower(t) /\ pc'[t] = "recheck"
    <3> DEFINE h == loc[t].level_head
    <3>1. /\ m_head_top = h
          /\ m_up' = [m_up EXCEPT ![m_down[h]] = Null]
          /\ m_head_top' = m_down[h]
          /\ loc' = loc
      BY <2>1, LowerEffect DEF Leave, Goto, IndexTypeOK
    <3>2. h \in HeadIndex /\ m_down[h] # h
      BY <2>1, ReduceHead DEF Lower, ReducePcs, IndexTypeOK
    <3>3. m_up[h] = Null
      BY <3>1 DEF ChainInv
    <3>4. \A u \in Threads \ {t} : Dropped(u) => loc[u].level_head # h
      BY <3>1 DEF DropInv
    <3> QED BY <3>1, <3>2, <3>3, <3>4 DEF IndexTypeOK
  <2>2. CASE Recheck(t) /\ pc[t] = "recheck" /\ loc' = loc /\ UNCHANGED links
    BY <2>2 DEF DropInv, Dropped, links
  <2> QED BY <1>2, <2>1, <2>2, DroppedFrom
<1>3. ASSUME NEW u \in Threads, Dropped(u)'
      PROVE  /\ loc'[u].level_head # m_head_top'
             /\ m_up'[loc'[u].level_head] = Null
             /\ \A v \in Threads : Dropped(v)' /\ loc'[v].level_head = loc'[u].level_head => v = u
  <2>1. CASE u = t
    BY <1>1, <1>2, <1>3, <2>1 DEF Dropped, Same
  <2>2. CASE u # t
    <3>1. Dropped(u) /\ loc'[u] = loc[u]
      BY <1>1, <1>3, <2>2 DEF Dropped, Same
    <3>2. loc[u].level_head # m_head_top' /\ m_up'[loc[u].level_head] = Null
      BY <2>2, <3>1, DroppedKept
    <3>3. ASSUME NEW v \in Threads, Dropped(v)', loc'[v].level_head = loc'[u].level_head
          PROVE  v = u
      <4>1. CASE v = t
        BY <1>2, <2>2, <3>1, <3>3, <4>1 DEF Dropped
      <4>2. CASE v # t
        BY <1>1, <3>1, <3>3, <4>2 DEF Dropped, Same, DropInv
      <4> QED BY <4>1, <4>2
    <3> QED BY <3>1, <3>2, <3>3
  <2> QED BY <2>1, <2>2
<1> QED BY <1>3 DEF DropInv

LEMMA MineNext ==
  ASSUME IndexInv, NEW t \in Threads, InCall(t)
  PROVE  Mine(t)
<1> USE DEF IndexInv
<1>1. CASE FindTop(t)     BY <1>1, FindTopStep
<1>2. CASE CheckCurr(t)   BY <1>2, CheckCurrStep
<1>3. CASE Walk(t)        BY <1>3, WalkStep
<1>4. CASE Test(t)        BY <1>4, TestStep
<1>5. CASE Found(t)       BY <1>5, FoundStep
<1>6. CASE UnlinkCheck(t) BY <1>6, UnlinkCheckStep
<1>7. CASE UnlinkRead(t)  BY <1>7, UnlinkReadStep
<1>8. CASE UnlinkCas(t)   BY <1>8, UnlinkCasStep
<1>9. CASE Build(t)       BY <1>9, BuildStep
<1>10. CASE Link(t) \/ LinkCas(t) BY <1>10, LinkStep
<1>11. CASE LinkFailed(t) BY <1>11, LinkFailedStep
<1>12. CASE NextLevel(t)  BY <1>12, NextLevelStep
<1>13. CASE Grow(t)       BY <1>13, GrowStep
<1>14. CASE Raise(t)      BY <1>14, LeaveStep DEF Raise
<1>15. CASE Peek(t) \/ Lower(t) \/ Recheck(t) \/ Backout(t) BY <1>15, ReduceKeepStep
<1>16. CASE Reduce(t)     BY <1>16, ReduceStep
<1>17. CASE LooksEmpty(t) BY <1>17, LooksEmptyStep
<1>18. CASE Reply(t)      BY <1>18, ReplyStep
<1> QED BY <1>1, <1>2, <1>3, <1>4, <1>5, <1>6, <1>7, <1>8, <1>9, <1>10, <1>11, <1>12, <1>13,
           <1>14, <1>15, <1>16, <1>17, <1>18 DEF InCall

(* The answer of a search is the head or a live node left of the key.      *)
LEMMA ReplyAnswer ==
  ASSUME IndexInv, NEW t \in Threads, InCall(t),
         answer' # answer \/ (call' # call /\ call[t].op = "getPred")
  PROVE  /\ Reply(t) /\ call[t].op = "getPred"
         /\ \E n \in {head} \cup {m \in live : Key[m] < call[t].key} :
              answer' = [answer EXCEPT ![t] = n]
<1>1. Reply(t) /\ Alive(loc[t].prevs[0]) /\ answer' = [answer EXCEPT ![t] = loc[t].prevs[0][1]]
  <2> USE DEF InCall, client, Exit, InsertAt, FindTop, CheckCurr, Walk, Test, Found, UnlinkCheck,
              UnlinkRead, UnlinkCas, Build, Link, LinkCas, LinkFailed, NextLevel, Grow, Raise, Peek,
              Reduce, LooksEmpty, Lower, Recheck, Backout, Reply
  <2>1. CASE answer' # answer
    BY <2>1
  <2>2. CASE call' # call /\ call[t].op = "getPred"
    <3>1. pc[t] \notin AddPcs \cup ReducePcs \cup {"peek", "reduce"}
      BY <2>2, ThreadFacts DEF IndexInv, StageOK
    <3> QED BY <2>2, <3>1 DEF AddPcs, LinkPcs, ReducePcs
  <2> QED BY <2>1, <2>2
<1>2. pc[t] = "reply" /\ call[t].op = "getPred" /\ EntriesOK(loc[t], call[t], live, m_level, 0)
  BY <1>1, ThreadFacts DEF IndexInv, Reply, StageOK, LevelOK
<1>3. PrevOK(call[t], m_level, 0, loc[t].prevs[0])
  BY <1>2 DEF EntriesOK
<1>4. loc[t].prevs[0][1] \in {head} \cup {m \in live : Key[m] < call[t].key}
  BY <1>1, <1>2, <1>3, ThreadFacts, CallFields DEF IndexInv, PrevOK, Alive, KeyOf
<1> QED BY <1>1, <1>2, <1>4

LEMMA TypeNext ==
  ASSUME IndexInv, NEW t \in Threads, InCall(t)
  PROVE  IndexTypeOK'
<1> USE DEF IndexInv
<1>1. Mine(t) /\ Shape(t)
  BY MineNext, InCallShape
<1>2. pc' \in [Threads -> Pcs] /\ loc' \in [Threads -> Locals]
  BY <1>1 DEF Mine, Shape, Same, IndexTypeOK
<1>3. call' \in [Threads -> AnyCall]
  BY <1>1 DEF Shape, Leave, IndexTypeOK, AnyCall
<1>4. answer' \in [Threads -> Nodes \cup {head}]
  <2>1. CASE answer' = answer
    BY <2>1 DEF IndexTypeOK
  <2>2. CASE answer' # answer
    <3>1. PICK n \in {head} \cup {m \in live : Key[m] < call[t].key} :
            answer' = [answer EXCEPT ![t] = n]
      BY <2>2, ReplyAnswer
    <3>2. n \in Nodes \cup {head}
      BY DEF IndexTypeOK
    <3> QED BY <3>1, <3>2 DEF IndexTypeOK
  <2> QED BY <2>1, <2>2
<1>5. /\ m_right' \in [IndexNode -> RightOf]
      /\ m_level' \in [HeadIndex -> Int]
      /\ m_down' \in [HeadIndex -> HeadOrNull]
      /\ m_up' \in [HeadIndex -> HeadOrNull]
      /\ m_head_top' \in HeadIndex
  <2>1. CASE UNCHANGED links
    BY <2>1 DEF links, IndexTypeOK
  <2>2. CASE UnlinkCas(t) \/ Link(t) \/ LinkCas(t)
    <3>1. UNCHANGED <<m_level, m_down, m_up, m_head_top>>
      BY <2>2 DEF UnlinkCas, Link, LinkCas
    <3>2. \/ m_right' = m_right
          \/ \E x : m_right' = [m_right EXCEPT ![x] = loc[t].succ]
          \/ \E x : m_right' = [m_right EXCEPT ![x] = loc[t].next]
          \/ /\ pc[t] = "cas"
             /\ \E x : m_right' = [m_right EXCEPT ![x] = NewIndex(t, loc[t].level)]
      BY <2>2 DEF UnlinkCas, Link, LinkCas, casRight
    <3>3. pc[t] = "cas" => NewIndex(t, loc[t].level) \in RightOf
      <4>1. ASSUME pc[t] = "cas" PROVE call[t].node \in Nodes /\ loc[t].level \in Levels
        <5>1. call[t].op = "add" /\ loc[t].height \in Levels
          BY <4>1, ThreadFacts DEF StageOK, AddPcs, LinkPcs
        <5>2. loc[t].level >= 0 /\ loc[t].level <= loc[t].height /\ loc[t].level \in Int
          BY <4>1, ThreadFacts DEF LevelOK, LinkPcs, Inserting
        <5> QED BY <5>1, <5>2, ThreadFacts, CallFields, BoundAssumption DEF Levels
      <4> QED BY <4>1, Universe DEF NewIndex, RightOf
    <3>4. m_right' \in [IndexNode -> RightOf]
      BY <3>2, <3>3, ThreadFacts DEF IndexTypeOK
    <3> QED BY <3>1, <3>4 DEF IndexTypeOK
  <2>3. CASE Raise(t)
    <3>1. CASE UNCHANGED links
      BY <2>1, <3>1
    <3>2. CASE /\ NewHead \in HeadIndex /\ loc[t].level_head \in HeadIndex
               /\ m_level[loc[t].level_head] + 1 \in Levels
               /\ NewIndex(t, m_level[loc[t].level_head] + 1) \in NodeIndex
               /\ m_level' = [m_level EXCEPT ![NewHead] = m_level[loc[t].level_head] + 1]
               /\ m_down' = [m_down EXCEPT ![NewHead] = loc[t].level_head]
               /\ m_right' = [m_right EXCEPT ![NewHead] = NewIndex(t, m_level[loc[t].level_head] + 1)]
               /\ m_up' = [m_up EXCEPT ![loc[t].level_head] = NewHead]
               /\ m_head_top' = NewHead
      <4>1. m_right' \in [IndexNode -> RightOf]
        BY <3>2 DEF IndexTypeOK, RightOf
      <4>2. m_level' \in [HeadIndex -> Int]
        BY <3>2 DEF IndexTypeOK, Levels
      <4>3. m_down' \in [HeadIndex -> HeadOrNull] /\ m_up' \in [HeadIndex -> HeadOrNull]
        BY <3>2 DEF IndexTypeOK, HeadOrNull
      <4> QED BY <3>2, <4>1, <4>2, <4>3
    <3> QED BY <2>3, <3>1, <3>2, RaiseEffect
  <2>4. CASE Lower(t)
    <3>1. m_down[loc[t].level_head] \in HeadIndex
      BY <2>4, ReduceHead DEF Lower, ReducePcs
    <3> QED BY <2>4, <3>1, LowerEffect DEF links, IndexTypeOK, HeadOrNull
  <2>5. CASE Backout(t)
    <3>1. loc[t].level_head \in HeadIndex
      BY <2>5, ReduceHead DEF Backout, ReducePcs
    <3> QED BY <2>5, <3>1, BackoutEffect DEF links, IndexTypeOK, HeadOrNull
  <2> QED BY <2>1, <2>2, <2>3, <2>4, <2>5, QuietLinks
<1> QED BY <1>1, <1>2, <1>3, <1>4, <1>5 DEF Shape, IndexTypeOK

LEMMA ClientNext ==
  ASSUME IndexInv, NEW t \in Threads, InCall(t)
  PROVE  ClientInv'
<1>1. Shape(t) /\ IndexTypeOK /\ ClientInv
  BY InCallShape DEF IndexInv
<1>2. CASE call' = call /\ pc'[t] # "idle"
  BY <1>1, <1>2 DEF Shape, Same, ClientInv
<1>3. CASE Leave(t)
  <2>1. /\ call' = [call EXCEPT ![t] = NoCall] /\ pc'[t] = "idle"
        /\ call'[t] = NoCall /\ NoCall.op # "add"
    BY <1>1, <1>3 DEF Leave, Goto, IndexTypeOK, NoCall
  <2> QED BY <1>1, <2>1 DEF Shape, Same, ClientInv
<1> QED BY <1>1, <1>2, <1>3 DEF Shape

LEMMA ThreadNext ==
  ASSUME IndexInv, NEW t \in Threads, InCall(t)
  PROVE  ThreadInv'
<1> USE DEF IndexInv
<1>1. Mine(t) /\ Shape(t)
  BY MineNext, InCallShape
<1>2. Later(m_level, m_level')
  BY HeadsKept
<1>3. ASSUME NEW u \in Threads \ {t}
      PROVE  ThreadOK(pc'[u], loc'[u], call'[u], live', m_level')
  <2>1. /\ pc'[u] = pc[u] /\ loc'[u] = loc[u] /\ call'[u] = call[u] /\ live' = live
        /\ loc[u] \in Locals /\ m_level \in [HeadIndex -> Int]
    BY <1>1 DEF Shape, Same, IndexTypeOK
  <2>2. ThreadOK(pc[u], loc[u], call[u], live, m_level)
    BY DEF ThreadInv
  <2> QED BY <1>2, <2>1, <2>2, ThreadStable
<1> QED BY <1>1, <1>3 DEF ThreadInv, Mine

(* A link from x to r that keeps a level sorted.                           *)
Ordered(lv, ml, x, r) == r # Null =>
  /\ LevelIn(ml, x) = r[2]
  /\ KeyOf(x) <= KeyOf(r)
  /\ KeyOf(x) = KeyOf(r) => x[1] # head /\ x[1] \notin lv

(* LevelsSorted in these terms.                                            *)
LEMMA SortedOrdered ==
  ASSUME NEW lv, NEW ml, NEW mr \in [IndexNode -> RightOf]
  PROVE  (\A x \in IndexNode : Ordered(lv, ml, x, mr[x]))
         <=> \A x \in IndexNode : mr[x] # Null =>
               /\ LevelIn(ml, x) = LevelIn(ml, mr[x])
               /\ KeyOf(x) <= KeyOf(mr[x])
               /\ KeyOf(x) = KeyOf(mr[x]) => ~(x[1] = head \/ x[1] \in lv)
<1>1. \A x \in IndexNode : mr[x] # Null => mr[x] \in NodeIndex /\ mr[x] \notin HeadIndex
  BY Universe DEF RightOf
<1> QED BY <1>1 DEF Ordered, LevelIn

LEMMA SortedNow ==
  ASSUME IndexTypeOK
  PROVE  LevelsSorted <=> \A x \in IndexNode : Ordered(live, m_level, x, m_right[x])
<1>1. m_right \in [IndexNode -> RightOf]
  BY DEF IndexTypeOK
<1>2. LevelsSorted <=> \A x \in IndexNode : m_right[x] # Null =>
               /\ LevelIn(m_level, x) = LevelIn(m_level, m_right[x])
               /\ KeyOf(x) <= KeyOf(m_right[x])
               /\ KeyOf(x) = KeyOf(m_right[x]) => ~(x[1] = head \/ x[1] \in live)
  BY DEF LevelsSorted, LevelIn, LevelOf, Alive
<1> QED BY <1>1, <1>2, SortedOrdered

LEMMA SortedThen ==
  ASSUME IndexTypeOK', \A x \in IndexNode : Ordered(live', m_level', x, m_right'[x])
  PROVE  LevelsSorted'
<1>1. m_right' \in [IndexNode -> RightOf]
  BY DEF IndexTypeOK
<1>2. LevelsSorted' <=> \A x \in IndexNode : m_right'[x] # Null =>
               /\ LevelIn(m_level', x) = LevelIn(m_level', m_right'[x])
               /\ KeyOf(x) <= KeyOf(m_right'[x])
               /\ KeyOf(x) = KeyOf(m_right'[x]) => ~(x[1] = head \/ x[1] \in live')
  BY DEF LevelsSorted, LevelIn, LevelOf, Alive, KeyOf
<1> QED BY <1>1, <1>2, SortedOrdered

(* Links stay in order when heads are made and nodes are deleted.          *)
LEMMA OrderedStable ==
  ASSUME NEW lv, NEW lv2, NEW ml, NEW ml2, Later(ml, ml2), NEW x \in IndexNode,
         x[1] # head /\ x[1] \notin lv => x[1] \notin lv2,
         NEW r \in RightOf, Ordered(lv, ml, x, r)
  PROVE  Ordered(lv2, ml2, x, r)
  BY Universe DEF Ordered, LevelIn, Later, RightOf, Levels

(* prev and the new index node, and the new index node and next.           *)
LEMMA PrevNew ==
  ASSUME NEW n \in Nodes, NEW i \in Levels, NEW c, c.op = "add", c.node = n, NEW lv, NEW ml,
         NEW x, PrevOK(c, ml, i, x)
  PROVE  Ordered(lv, ml, x, <<n, i>>)
<1>1. Sought(c) = Key[n] /\ x \in IndexNode /\ KeyOf(x) \in Int
  BY Keys DEF Sought, PrevOK
<1>2. KeyOf(x) < Key[n]
  BY <1>1, Keys DEF PrevOK, KeyOf
<1>3. <<n, i>>[1] = n /\ <<n, i>>[2] = i /\ KeyOf(<<n, i>>) = Key[n]
  BY DEF KeyOf
<1> QED BY <1>1, <1>2, <1>3, Keys DEF Ordered, PrevOK

LEMMA NewNext ==
  ASSUME NEW n \in Nodes, NEW i \in Levels, NEW c, c.op = "add", c.node = n, NEW lv, NEW ml,
         NEW r, NextOK(c, lv, i, r)
  PROVE  Ordered(lv, ml, <<n, i>>, r)
<1>1. Sought(c) = Key[n] /\ <<n, i>>[1] = n /\ <<n, i>>[2] = i /\ KeyOf(<<n, i>>) = Key[n]
  BY DEF Sought, KeyOf
<1>2. LevelIn(ml, <<n, i>>) = i /\ n # head
  BY <1>1, Universe, KeyAssumption DEF LevelIn
<1> QED BY <1>1, <1>2 DEF Ordered, NextOK

(* An unlinked node passes its neighbour on.                               *)
LEMMA PrevSucc ==
  ASSUME NEW lv, NEW ml, NEW x \in IndexNode, NEW r \in NodeIndex, NEW s \in RightOf,
         Ordered(lv, ml, x, r), s # Null => s[2] = r[2] /\ KeyOf(r) <= KeyOf(s)
  PROVE  Ordered(lv, ml, x, s)
<1>1. KeyOf(x) \in Int /\ KeyOf(r) \in Int /\ (s # Null => KeyOf(s) \in Int) /\ r # Null
  BY Keys, Universe DEF RightOf
<1> QED BY <1>1 DEF Ordered

LEMMA AddLevel ==
  ASSUME IndexTypeOK, ThreadInv, NEW t \in Threads, pc[t] \in LinkPcs
  PROVE  /\ call[t].op = "add" /\ call[t].node \in Nodes /\ loc[t].level \in Levels
         /\ NewIndex(t, loc[t].level) \in NodeIndex
         /\ NewIndex(t, loc[t].level) = <<call[t].node, loc[t].level>>
<1>1. call[t].op = "add" /\ loc[t].height \in Levels
  BY ThreadFacts DEF StageOK, AddPcs
<1>2. loc[t].level >= 0 /\ loc[t].level <= loc[t].height /\ loc[t].level \in Int
  BY ThreadFacts DEF LevelOK, Inserting
<1> QED BY <1>1, <1>2, ThreadFacts, CallFields, BoundAssumption, Universe DEF Levels, NewIndex

LEMMA SortedNext ==
  ASSUME IndexInv, NEW t \in Threads, InCall(t)
  PROVE  LevelsSorted'
<1> DEFINE l == loc[t]
<1>1. /\ IndexTypeOK /\ HeadInv /\ ThreadInv /\ IndexTypeOK' /\ live' = live
      /\ Later(m_level, m_level')
  BY TypeNext, InCallShape, HeadsKept DEF IndexInv, Shape
<1>2. \A x \in IndexNode : Ordered(live, m_level, x, m_right[x]) /\ m_right[x] \in RightOf
  BY <1>1, SortedNow DEF IndexInv, IndexTypeOK
<1>3. \A x \in IndexNode : Ordered(live, m_level', x, m_right[x])
  BY <1>1, <1>2, OrderedStable
<1> SUFFICES \A x \in IndexNode : Ordered(live, m_level', x, m_right'[x])
  BY <1>1, SortedThen
<1>4. CASE m_right' = m_right
  BY <1>3, <1>4
<1>5. CASE UnlinkCas(t)
  <2>1. CASE m_right[l.prev] = l.next /\ m_right' = [m_right EXCEPT ![l.prev] = l.succ]
    <3>1. pc[t] = "cut" /\ m_level' = m_level
      BY <1>5 DEF UnlinkCas
    <3>2. /\ PrevOK(call[t], m_level, l.level, l.prev) /\ l.next \in NodeIndex /\ l.succ \in RightOf
          /\ l.succ # Null => l.succ[2] = l.next[2] /\ KeyOf(l.next) <= KeyOf(l.succ)
      BY <1>1, <3>1, ThreadFacts DEF WalkOK, SearchPcs, RightOf
    <3>3. l.prev \in IndexNode /\ Ordered(live, m_level, l.prev, l.next)
      BY <1>2, <2>1, <3>2 DEF PrevOK
    <3>4. Ordered(live, m_level, l.prev, l.succ)
      BY <3>2, <3>3, PrevSucc
    <3> QED BY <1>1, <1>3, <2>1, <3>1, <3>3, <3>4 DEF IndexTypeOK
  <2> QED BY <1>4, <1>5, <2>1 DEF UnlinkCas, casRight
<1>6. CASE Link(t)
  <2>1. /\ pc[t] = "link" /\ m_level' = m_level
        /\ m_right' = [m_right EXCEPT ![NewIndex(t, l.level)] = l.next]
    BY <1>6 DEF Link
  <2>2. NextOK(call[t], live, l.level, l.next)
    BY <1>1, <2>1, ThreadFacts DEF WalkOK
  <2>3. Ordered(live, m_level, NewIndex(t, l.level), l.next)
    BY <1>1, <2>1, <2>2, AddLevel, NewNext DEF LinkPcs
  <2> QED BY <1>1, <1>3, <2>1, <2>3 DEF IndexTypeOK
<1>7. CASE LinkCas(t)
  <2>1. CASE m_right' = [m_right EXCEPT ![l.prev] = NewIndex(t, l.level)]
    <3>1. pc[t] = "cas" /\ m_level' = m_level
      BY <1>7 DEF LinkCas
    <3>2. PrevOK(call[t], m_level, l.level, l.prev)
      BY <1>1, <3>1, ThreadFacts DEF WalkOK
    <3>3. Ordered(live, m_level, l.prev, NewIndex(t, l.level))
      BY <1>1, <3>1, <3>2, AddLevel, PrevNew DEF LinkPcs
    <3> QED BY <1>1, <1>3, <2>1, <3>1, <3>3 DEF IndexTypeOK
  <2> QED BY <1>4, <1>7, <2>1 DEF LinkCas, casRight
<1>8. CASE Raise(t)
  <2> DEFINE h == l.level_head
             g == NewHead
             i == m_level[h] + 1
  <2>1. CASE UNCHANGED links
    BY <1>4, <2>1 DEF links
  <2>2. CASE /\ g \in HeadIndex /\ i \in Levels /\ NewIndex(t, i) \in NodeIndex
             /\ m_level' = [m_level EXCEPT ![g] = i]
             /\ m_right' = [m_right EXCEPT ![g] = NewIndex(t, i)]
    <3>1. NewIndex(t, i)[2] = i /\ NewIndex(t, i)[1] \in Nodes
      BY <2>2, Universe DEF NewIndex
    <3>2. m_level'[g] = i /\ LevelIn(m_level', g) = i
      BY <1>1, <2>2 DEF IndexTypeOK, LevelIn
    <3>3. KeyOf(g) < KeyOf(NewIndex(t, i)) /\ KeyOf(g) \in Int /\ KeyOf(NewIndex(t, i)) \in Int
      BY <2>2, <3>1, Keys, Universe DEF KeyOf
    <3>4. Ordered(live, m_level', g, NewIndex(t, i))
      BY <3>1, <3>2, <3>3 DEF Ordered
    <3> QED BY <1>1, <1>3, <2>2, <3>4 DEF IndexTypeOK
  <2> QED BY <1>1, <1>8, <2>1, <2>2, RaiseEffect
<1>9. CASE Lower(t) \/ Backout(t)
  BY <1>1, <1>4, <1>9, LowerEffect, BackoutEffect DEF links
<1> QED BY <1>4, <1>5, <1>6, <1>7, <1>8, <1>9, QuietLinks DEF links

(* What a call carries along, a link or a call knew before.                *)
LEMMA InsertCarries ==
  ASSUME IndexTypeOK, NEW t \in Threads, NEW h, NEW l \in Locals, InsertAt(t, h, l),
         DOMAIN l.nexts = DOMAIN l.prevs, NEW x \in NodeIndex, Carries(loc'[t], x)
  PROVE  Carries(l, x)
<1> DEFINE i == m_level[h]
<1>1. CASE loc'[t] = NoLoc
  BY <1>1, Universe DEF NoLoc, Carries
<1>2. CASE loc'[t] = l
  BY <1>2
<1>3. CASE /\ i \in DOMAIN l.prevs
           /\ loc'[t] = [l EXCEPT !.level_head = h, !.level = i, !.prev = l.prevs[i], !.next = l.nexts[i]]
  <2> DEFINE k == loc'[t]
  <2>1. k.next = l.nexts[i] /\ k.succ = l.succ /\ k.nexts = l.nexts
    <3> HIDE DEF k, i
    <3> QED BY <1>3 DEF k, Locals
  <2> QED BY <1>3, <2>1 DEF Carries
<1> QED BY <1>1, <1>2, <1>3 DEF InsertAt, Leave, IndexTypeOK

LEMMA CarriesNext ==
  ASSUME IndexInv, NEW t \in Threads, InCall(t), NEW x \in NodeIndex, Carries(loc'[t], x)
  PROVE  Known(x)
<1> DEFINE l == loc[t]
           k == loc'[t]
<1>1. /\ IndexTypeOK /\ ThreadInv /\ ClientInv /\ l \in Locals /\ x # Null
      /\ loc \in [Threads -> Locals]
  BY Universe DEF IndexInv, IndexTypeOK
<1>2. CASE k = NoLoc
  BY <1>2, Universe DEF NoLoc, Carries
<1>3. CASE k.next = l.next /\ k.succ = l.succ /\ k.nexts = l.nexts
  <2>1. Carries(l, x)
    BY <1>3 DEF Carries
  <2> QED BY <2>1 DEF Known
<1>4. CASE FindTop(t)
  <2>1. k.next = Null /\ k.succ = Null /\ k.nexts = [i \in 0 .. m_level[m_head_top] |-> Null]
    BY <1>1, <1>4 DEF FindTop, NoLoc
  <2> QED BY <1>1, <2>1 DEF Carries
<1>5. CASE Walk(t)
  <2>1. k = [l EXCEPT !.next = m_right[l.prev]] /\ pc[t] = "walk"
    BY <1>1, <1>5 DEF Walk
  <2>2. l.prev \in IndexNode
    BY <1>1, <2>1, ThreadFacts DEF WalkOK, SearchPcs, PrevOK
  <2>3. k.next = m_right[l.prev] /\ k.succ = l.succ /\ k.nexts = l.nexts
    <3> HIDE DEF k, l
    <3> QED BY <1>1, <2>1 DEF Locals
  <2>4. Carries(l, x) \/ m_right[l.prev] = x
    BY <2>3 DEF Carries
  <2> QED BY <2>2, <2>4 DEF Known
<1>6. CASE UnlinkRead(t)
  <2>1. k = [l EXCEPT !.succ = m_right[l.next]] /\ pc[t] = "succ"
    BY <1>1, <1>6 DEF UnlinkRead
  <2>2. l.next \in IndexNode
    BY <1>1, <2>1, ThreadFacts, Universe DEF WalkOK, RightOf
  <2>3. k.next = l.next /\ k.succ = m_right[l.next] /\ k.nexts = l.nexts
    <3> HIDE DEF k, l
    <3> QED BY <1>1, <2>1 DEF Locals
  <2>4. Carries(l, x) \/ m_right[l.next] = x
    BY <2>3 DEF Carries
  <2> QED BY <2>2, <2>4 DEF Known
<1>7. CASE Found(t)
  <2>1. CASE loc' = loc
    BY <1>3, <2>1
  <2>2. CASE loc' # loc
    <3> DEFINE v == [l.nexts EXCEPT ![l.level] = l.next]
    <3>1. k.next = l.next /\ k.succ = l.succ /\ k.nexts = v
      <4>1. \/ k = [l EXCEPT !.prevs[l.level] = l.prev, !.nexts[l.level] = l.next]
            \/ k = [[l EXCEPT !.prevs[l.level] = l.prev, !.nexts[l.level] = l.next] EXCEPT
                      !.curr = Down(l.prev), !.level = l.level - 1, !.level_head = m_down[l.level_head]]
        BY <1>1, <1>7, <2>2 DEF Found, Locals
      <4> HIDE DEF k, l
      <4> QED BY <1>1, <4>1 DEF Locals, v
    <3>2. \A j \in DOMAIN v : j \in DOMAIN l.nexts /\ (v[j] = l.nexts[j] \/ v[j] = l.next)
      OBVIOUS
    <3>3. Carries(l, x)
      <4> HIDE DEF v, k, l
      <4> QED BY <3>1, <3>2 DEF Carries, k
    <3> QED BY <3>3 DEF Known
  <2> QED BY <2>1, <2>2
<1>8. CASE Build(t)
  <2>1. PICK h \in 0 .. Min(MaxLevel, Cardinality(DOMAIN l.prevs) + 1) :
          InsertAt(t, m_head_bottom, [l EXCEPT !.height = h])
    BY <1>8 DEF Build
  <2> DEFINE ll == [l EXCEPT !.height = h]
  <2>2. pc[t] = "build" /\ DOMAIN l.nexts = DOMAIN l.prevs
    BY <1>1, <1>8, ThreadFacts DEF Build, LevelOK, EntriesOK
  <2>3. h \in Levels
    BY <1>1, ThreadFacts, DrawnLevel
  <2>4. ll \in Locals /\ ll.next = l.next /\ ll.succ = l.succ /\ ll.nexts = l.nexts /\ ll.prevs = l.prevs
    <3> HIDE DEF l
    <3> QED BY <1>1, <2>3 DEF Locals
  <2>5. Carries(ll, x)
    <3> HIDE DEF ll
    <3> QED BY <1>1, <2>1, <2>2, <2>4, InsertCarries, ZenonT(30) DEF ll
  <2>6. Carries(l, x)
    BY <2>4, <2>5 DEF Carries
  <2> QED BY <2>6 DEF Known
<1>9. CASE NextLevel(t)
  <2> DEFINE ll == [l EXCEPT !.inserted = @ + 1]
  <2>1. InsertAt(t, m_up[l.level_head], ll)
    BY <1>9 DEF NextLevel
  <2>2. pc[t] = "up" /\ DOMAIN l.nexts = DOMAIN l.prevs
    BY <1>1, <1>9, ThreadFacts DEF NextLevel, LevelOK, EntriesOK, Inserting, LinkPcs
  <2>4. ll \in Locals /\ ll.next = l.next /\ ll.succ = l.succ /\ ll.nexts = l.nexts /\ ll.prevs = l.prevs
    <3> HIDE DEF l
    <3> QED BY <1>1 DEF Locals
  <2>5. Carries(ll, x)
    <3> HIDE DEF ll
    <3> QED BY <1>1, <2>1, <2>2, <2>4, InsertCarries
  <2>6. Carries(l, x)
    BY <2>4, <2>5 DEF Carries
  <2> QED BY <2>6 DEF Known
<1>10. CASE \/ loc' = loc
            \/ \E y : k = [l EXCEPT !.prev = y]
            \/ \E y : k = [l EXCEPT !.curr = y]
            \/ \E y : k = [l EXCEPT !.level_head = y]
            \/ \E y, z : k = [l EXCEPT !.curr = y, !.prev = z]
            \/ \E y, z : k = [l EXCEPT !.level_head = y, !.curr = z]
  <2>1. k.next = l.next /\ k.succ = l.succ /\ k.nexts = l.nexts
    <3>1. CASE loc' = loc BY <3>1
    <3> HIDE DEF k, l
    <3> QED BY <1>1, <1>10, <3>1 DEF Locals
  <2> QED BY <1>3, <2>1
<1>11. CASE \/ CheckCurr(t) \/ Test(t) \/ UnlinkCheck(t) \/ UnlinkCas(t) \/ Link(t) \/ LinkCas(t)
            \/ LinkFailed(t) \/ Grow(t) \/ Raise(t) \/ Peek(t) \/ Reduce(t) \/ LooksEmpty(t)
            \/ Lower(t) \/ Recheck(t) \/ Backout(t) \/ Reply(t)
  <2>1. CASE CheckCurr(t) \/ Test(t) \/ LinkFailed(t) \/ Link(t) \/ LinkCas(t)
    BY <1>1, <1>2, <1>10, <2>1 DEF CheckCurr, Test, LinkFailed, Link, LinkCas, Exit, Leave
  <2>2. CASE UnlinkCheck(t) \/ UnlinkCas(t)
    <3>1. CASE WalkFailed(t)
      <4>1. k = [l EXCEPT !.curr = l.level_head, !.prev = l.level_head]
        BY <1>1, <3>1, ThreadFacts DEF WalkFailed, Locals
      <4> QED BY <1>10, <4>1
    <3> QED BY <1>10, <2>2, <3>1 DEF UnlinkCheck, UnlinkCas
  <2>3. CASE Grow(t) \/ LooksEmpty(t)
    BY <1>1, <1>2, <1>10, <2>3 DEF Grow, LooksEmpty, Exit, Leave
  <2>4. CASE Reduce(t)
    <3>1. CASE Exit(t)
      BY <1>1, <1>2, <3>1 DEF Exit, Leave
    <3>2. CASE loc' = [loc EXCEPT ![t].level_head = m_head_top, ![t].curr = m_down[m_down[m_head_top]]]
      <4>1. k = [l EXCEPT !.level_head = m_head_top, !.curr = m_down[m_down[m_head_top]]]
        BY <1>1, <3>2 DEF Locals
      <4> QED BY <1>10, <4>1
    <3> QED BY <2>4, <3>1, <3>2 DEF Reduce
  <2>5. CASE Raise(t) \/ Peek(t) \/ Lower(t) \/ Recheck(t) \/ Backout(t) \/ Reply(t)
    BY <1>1, <1>2, <1>10, <2>5 DEF Raise, Peek, Lower, Recheck, Backout, Reply, Exit, Leave
  <2> QED BY <1>11, <2>1, <2>2, <2>3, <2>4, <2>5
<1> QED BY <1>4, <1>5, <1>6, <1>7, <1>8, <1>9, <1>11 DEF InCall

(* A link to an index node is old, or add makes it for its own node.       *)
LEMMA LinksNext ==
  ASSUME IndexInv, NEW t \in Threads, InCall(t),
         NEW x \in NodeIndex, NEW y \in IndexNode, m_right'[y] = x
  PROVE  \/ Known(x)
         \/ /\ pc[t] = "cas" /\ pc'[t] = "up" /\ loc' = loc /\ call' = call
            /\ x = NewIndex(t, loc[t].level)
         \/ pc[t] = "raise" /\ Leave(t) /\ x = NewIndex(t, m_level[loc[t].level_head] + 1)
<1> DEFINE l == loc[t]
<1>1. IndexTypeOK /\ HeadInv /\ ThreadInv
  BY DEF IndexInv
<1>2. CASE m_right' = m_right
  BY <1>2 DEF Known
<1>3. CASE UnlinkCas(t)
  <2>1. m_right'[y] = m_right[y] \/ m_right'[y] = l.succ
    BY <1>1, <1>3 DEF UnlinkCas, casRight, IndexTypeOK
  <2> QED BY <2>1 DEF Known, Carries
<1>4. CASE Link(t)
  <2>1. m_right'[y] = m_right[y] \/ m_right'[y] = l.next
    BY <1>1, <1>4 DEF Link, IndexTypeOK
  <2> QED BY <2>1 DEF Known, Carries
<1>5. CASE LinkCas(t)
  <2>1. CASE casRight(l.prev, l.next, NewIndex(t, l.level)) /\ Goto(t, "up")
    <3>1. m_right'[y] = m_right[y] \/ m_right'[y] = NewIndex(t, l.level)
      BY <1>1, <2>1 DEF casRight, IndexTypeOK
    <3>2. pc[t] = "cas" /\ pc'[t] = "up" /\ loc' = loc /\ call' = call
      BY <1>1, <1>5, <2>1 DEF LinkCas, Goto, client, IndexTypeOK
    <3> QED BY <3>1, <3>2 DEF Known
  <2> QED BY <1>2, <1>5, <2>1 DEF LinkCas
<1>6. CASE Raise(t)
  <2>1. pc[t] = "raise" /\ Leave(t)
    BY <1>6 DEF Raise
  <2>2. m_right'[y] = m_right[y] \/ m_right'[y] = NewIndex(t, m_level[l.level_head] + 1)
    BY <1>1, <1>6 DEF Raise, links, IndexTypeOK
  <2> QED BY <2>1, <2>2 DEF Known
<1>7. CASE Lower(t) \/ Backout(t)
  BY <1>2, <1>7 DEF Lower, Backout, Exit, shared
<1> QED BY <1>2, <1>3, <1>4, <1>5, <1>6, <1>7, QuietLinks DEF links

(* add counts the levels it has linked its node into.                      *)
LEMMA InsertCount ==
  ASSUME IndexTypeOK, NEW t \in Threads, NEW h, NEW l \in Locals, InsertAt(t, h, l), ~Leave(t)
  PROVE  loc'[t].inserted = l.inserted
<1> DEFINE i == m_level[h]
           k == loc'[t]
<1>1. CASE k = l
  BY <1>1
<1>2. CASE k = [l EXCEPT !.level_head = h, !.level = i, !.prev = l.prevs[i], !.next = l.nexts[i]]
  <2> HIDE DEF k, i
  <2> QED BY <1>2 DEF k, Locals
<1> QED BY <1>1, <1>2 DEF InsertAt, IndexTypeOK

LEMMA InsertedKept ==
  ASSUME IndexInv, NEW t \in Threads, InCall(t), call'[t] = call[t]
  PROVE  /\ loc[t].inserted \in Nat
         /\ pc[t] # "up" => loc'[t].inserted = loc[t].inserted
         /\ pc[t] = "up" => loc'[t].inserted = loc[t].inserted + 1
<1> DEFINE l == loc[t]
           k == loc'[t]
<1>1. /\ IndexTypeOK /\ ThreadInv /\ ClientInv /\ l \in Locals /\ l.inserted \in Nat
      /\ loc \in [Threads -> Locals] /\ pc \in [Threads -> Pcs] /\ call \in [Threads -> AnyCall]
  BY ThreadFacts DEF IndexInv, IndexTypeOK
<1>2. ~Leave(t)
  <2>1. pc[t] # "idle"
    BY <1>1, InCallShape DEF Shape
  <2>2. call[t] # NoCall
    BY <1>1, <2>1 DEF ClientInv
  <2> QED BY <1>1, <2>2 DEF Leave
<1>3. CASE pc[t] # "up" /\ k.inserted = l.inserted
  BY <1>1, <1>3
<1>4. CASE FindTop(t)
  <2>1. pc[t] = "find" /\ l.inserted = 0
    BY <1>1, <1>4, ThreadFacts DEF FindTop, StageOK, SearchPcs, LinkPcs
  <2>2. k.inserted = 0
    BY <1>1, <1>4 DEF FindTop, NoLoc
  <2> QED BY <1>3, <2>1, <2>2
<1>5. CASE NextLevel(t)
  <2> DEFINE ll == [l EXCEPT !.inserted = @ + 1]
  <2>1. InsertAt(t, m_up[l.level_head], ll)
    BY <1>5 DEF NextLevel
  <2>2. ll.inserted = l.inserted + 1
    <3> HIDE DEF l
    <3> QED BY <1>1 DEF Locals
  <2>3. k.inserted = ll.inserted
    <3>1. ll \in Locals
      <4> HIDE DEF l
      <4> QED BY <1>1 DEF Locals
    <3> HIDE DEF ll
    <3> QED BY <1>1, <1>2, <2>1, <3>1, InsertCount DEF ll
  <2>4. pc[t] = "up"
    BY <1>5 DEF NextLevel
  <2> QED BY <1>1, <2>2, <2>3, <2>4
<1>6. CASE Build(t)
  <2>1. PICK h \in 0 .. Min(MaxLevel, Cardinality(DOMAIN l.prevs) + 1) :
          InsertAt(t, m_head_bottom, [l EXCEPT !.height = h])
    BY <1>6 DEF Build
  <2> DEFINE ll == [l EXCEPT !.height = h]
  <2>2. ll.inserted = l.inserted /\ pc[t] = "build"
    BY <1>1, <1>6 DEF Locals, Build
  <2>3. k.inserted = ll.inserted
    <3>1. h \in Levels
      BY <1>1, ThreadFacts, DrawnLevel
    <3>2. ll \in Locals
      <4> HIDE DEF l
      <4> QED BY <1>1, <3>1 DEF Locals
    <3> HIDE DEF ll
    <3> QED BY <1>1, <1>2, <2>1, <3>2, InsertCount DEF ll
  <2> QED BY <1>3, <2>2, <2>3
<1>7. CASE Found(t)
  <2>1. pc[t] = "found" /\ k.inserted = l.inserted
    <3>1. \/ k = l
          \/ k = [l EXCEPT !.prevs[l.level] = l.prev, !.nexts[l.level] = l.next]
          \/ k = [[l EXCEPT !.prevs[l.level] = l.prev, !.nexts[l.level] = l.next] EXCEPT
                    !.curr = Down(l.prev), !.level = l.level - 1, !.level_head = m_down[l.level_head]]
      BY <1>1, <1>7 DEF Found, Locals
    <3> HIDE DEF k, l
    <3> QED BY <1>1, <1>7, <3>1 DEF Locals, Found
  <2> QED BY <1>3, <2>1
<1>8. CASE /\ pc[t] # "up"
           /\ \/ loc' = loc
              \/ \E y : k = [l EXCEPT !.prev = y]
              \/ \E y : k = [l EXCEPT !.next = y]
              \/ \E y : k = [l EXCEPT !.succ = y]
              \/ \E y : k = [l EXCEPT !.curr = y]
              \/ \E y : k = [l EXCEPT !.level_head = y]
  <2>1. k.inserted = l.inserted
    <3>1. CASE loc' = loc BY <3>1
    <3> HIDE DEF k, l
    <3> QED BY <1>1, <1>8, <3>1 DEF Locals
  <2> QED BY <1>3, <1>8, <2>1
<1>9. CASE CheckCurr(t) \/ Test(t) \/ LinkFailed(t) \/ Link(t) \/ LinkCas(t)
  BY <1>1, <1>2, <1>8, <1>9 DEF CheckCurr, Test, LinkFailed, Link, LinkCas, Exit
<1>10. CASE Walk(t) \/ UnlinkRead(t)
  BY <1>1, <1>8, <1>10 DEF Walk, UnlinkRead
<1>11. CASE UnlinkCheck(t) \/ UnlinkCas(t)
  <2>1. CASE WalkFailed(t)
    <3>1. k = [l EXCEPT !.curr = l.level_head, !.prev = l.level_head]
      BY <1>1, <2>1, ThreadFacts DEF WalkFailed, Locals
    <3>2. k.inserted = l.inserted
      <4> HIDE DEF k, l
      <4> QED BY <1>1, <3>1 DEF Locals
    <3> QED BY <1>3, <1>11, <3>2 DEF UnlinkCheck, UnlinkCas
  <2> QED BY <1>8, <1>11, <2>1 DEF UnlinkCheck, UnlinkCas
<1>12. CASE Grow(t) \/ LooksEmpty(t)
  BY <1>1, <1>2, <1>8, <1>12 DEF Grow, LooksEmpty, Exit
<1>13. CASE Reduce(t)
  <2>1. k = [l EXCEPT !.level_head = m_head_top, !.curr = m_down[m_down[m_head_top]]]
    BY <1>1, <1>2, <1>13 DEF Reduce, Exit, Locals
  <2>2. k.inserted = l.inserted
    <3> HIDE DEF k, l
    <3> QED BY <1>1, <2>1 DEF Locals
  <2> QED BY <1>3, <1>13, <2>2 DEF Reduce
<1>14. CASE Raise(t) \/ Peek(t) \/ Lower(t) \/ Recheck(t) \/ Backout(t) \/ Reply(t)
  BY <1>2, <1>8, <1>14 DEF Raise, Peek, Lower, Recheck, Backout, Reply, Exit
<1> QED BY <1>4, <1>5, <1>6, <1>7, <1>9, <1>10, <1>11, <1>12, <1>13, <1>14 DEF InCall

LEMMA InsertedNext ==
  ASSUME IndexInv, NEW t \in Threads, InCall(t), call'[t] = call[t],
         NEW i \in Nat, LinkedAt(t, i)
  PROVE  LinkedAt(t, i)'
  BY InsertedKept DEF LinkedAt

LEMMA KnownNext ==
  ASSUME IndexInv, NEW t \in Threads, InCall(t)
  PROVE  KnownInv'
<1>1. Shape(t) /\ IndexTypeOK /\ ThreadInv /\ ClientInv
  BY InCallShape DEF IndexInv
<1>2. ASSUME NEW u \in Threads, call'[u].op = "add"
      PROVE  call'[u] = call[u]
  <2>1. CASE call' = call BY <2>1
  <2>2. CASE Leave(t)
    <3>1. call'[t] = NoCall /\ NoCall.op # "add"
      BY <1>1, <2>2 DEF Leave, NoCall, IndexTypeOK
    <3> QED BY <1>1, <1>2, <3>1 DEF Shape, Same
  <2> QED BY <1>1, <2>1, <2>2 DEF Shape
<1>3. ASSUME NEW u \in Threads, NEW i \in Nat, call'[u] = call[u], LinkedAt(u, i)
      PROVE  LinkedAt(u, i)'
  <2>1. CASE u = t
    BY <1>3, <2>1, InsertedNext
  <2>2. CASE u # t
    BY <1>1, <1>3, <2>2 DEF Shape, Same, LinkedAt
  <2> QED BY <2>1, <2>2
<1> SUFFICES ASSUME NEW x \in NodeIndex, Known(x)'
             PROVE  /\ x[1] \in offered'
                    /\ \A u \in Threads : call'[u].op = "add" /\ call'[u].node = x[1] => LinkedAt(u, x[2])'
  BY DEF KnownInv
<1>4. x[2] \in Nat /\ offered' = offered
  BY <1>1, Universe DEF Levels, Shape
<1>5. CASE Known(x)
  <2>1. /\ x[1] \in offered
        /\ \A u \in Threads : call[u].op = "add" /\ call[u].node = x[1] => LinkedAt(u, x[2])
    BY <1>5 DEF IndexInv, KnownInv
  <2> QED BY <1>2, <1>3, <1>4, <2>1
<1>6. CASE /\ pc[t] = "cas" /\ pc'[t] = "up" /\ loc' = loc /\ call' = call
           /\ x = NewIndex(t, loc[t].level)
  <2>1. call[t].op = "add" /\ x[1] = call[t].node /\ x[2] = loc[t].level
    BY <1>1, <1>6, AddLevel DEF LinkPcs
  <2>2. loc[t].level = loc[t].inserted
    BY <1>1, <1>6, ThreadFacts DEF LevelOK, Inserting, LinkPcs
  <2>3. x[1] \in offered /\ \A u \in Threads : call[u].op = "add" /\ call[u].node = x[1] => u = t
    BY <1>1, <2>1 DEF ClientInv
  <2>4. LinkedAt(t, x[2])'
    BY <1>6, <2>1, <2>2 DEF LinkedAt
  <2> QED BY <1>4, <1>6, <2>3, <2>4
<1>7. CASE pc[t] = "raise" /\ Leave(t) /\ x = NewIndex(t, m_level[loc[t].level_head] + 1)
  <2>1. call[t].op = "add" /\ x[1] = call[t].node
    BY <1>1, <1>7, ThreadFacts DEF StageOK, AddPcs, NewIndex
  <2>2. call'[t] = NoCall /\ NoCall.op # "add"
    BY <1>1, <1>7 DEF Leave, NoCall, IndexTypeOK
  <2>3. x[1] \in offered /\ \A u \in Threads : call[u].op = "add" /\ call[u].node = x[1] => u = t
    BY <1>1, <2>1 DEF ClientInv
  <2> QED BY <1>2, <1>4, <2>2, <2>3
<1>8. \/ \E y \in IndexNode : m_right'[y] = x
      \/ \E u \in Threads : Carries(loc'[u], x)
  BY DEF Known, Carries
<1>9. CASE \E u \in Threads : Carries(loc'[u], x)
  <2>1. PICK u \in Threads : Carries(loc'[u], x)
    BY <1>9
  <2>2. CASE u = t
    BY <1>5, <2>1, <2>2, CarriesNext
  <2>3. CASE u # t
    <3>1. loc'[u] = loc[u]
      BY <1>1, <2>3 DEF Shape, Same
    <3> QED BY <1>5, <2>1, <3>1 DEF Known
  <2> QED BY <2>2, <2>3
<1> QED BY <1>5, <1>6, <1>7, <1>8, <1>9, LinksNext

(* A search comes across nodes of the index only.                          *)
LEMMA InsertPasses ==
  ASSUME IndexTypeOK, NEW t \in Threads, NEW h \in HeadOrNull, NEW l \in Locals, InsertAt(t, h, l),
         NEW x \in NodeIndex, Passes(loc'[t], x)
  PROVE  Passes(l, x)
<1> DEFINE i == m_level[h]
<1>1. CASE loc'[t] = NoLoc
  BY <1>1, Universe DEF NoLoc, Passes
<1>2. CASE loc'[t] = l
  BY <1>2
<1>3. CASE /\ i \in DOMAIN l.prevs
           /\ loc'[t] = [l EXCEPT !.level_head = h, !.level = i, !.prev = l.prevs[i], !.next = l.nexts[i]]
  <2> DEFINE k == loc'[t]
  <2>1. k.prev = l.prevs[i] /\ k.curr = l.curr /\ k.prevs = l.prevs
    <3> HIDE DEF k, i
    <3> QED BY <1>3 DEF k, Locals
  <2> QED BY <1>3, <2>1 DEF Passes
<1> QED BY <1>1, <1>2, <1>3 DEF InsertAt, Leave, IndexTypeOK

LEMMA PassesNext ==
  ASSUME IndexInv, NEW t \in Threads, InCall(t), NEW x \in NodeIndex,
         \A y \in NodeIndex : y[1] = x[1] => ~Known(y) /\ ~Passes(loc[t], y)
  PROVE  ~Passes(loc'[t], x)
<1> DEFINE l == loc[t]
           k == loc'[t]
<1>1. /\ IndexTypeOK /\ HeadInv /\ ThreadInv /\ ClientInv /\ l \in Locals
      /\ x # Null /\ x \notin HeadIndex /\ loc \in [Threads -> Locals]
  BY Universe DEF IndexInv, IndexTypeOK
<1>2. ~Passes(l, x) /\ x # l.curr /\ x # l.prev /\ \A j \in DOMAIN l.prevs : l.prevs[j] # x
  BY DEF Passes
<1>3. l.next # x
  BY DEF Known, Carries
<1>4. CASE k = NoLoc
  BY <1>1, <1>4 DEF NoLoc, Passes
<1>5. CASE k.curr = l.curr /\ k.prev = l.prev /\ k.prevs = l.prevs
  BY <1>2, <1>5 DEF Passes
<1>6. CASE /\ k.curr \in {l.curr} \cup HeadIndex
           /\ k.prev \in {l.prev, l.curr, l.next} \cup HeadIndex
           /\ k.prevs = l.prevs
  BY <1>1, <1>2, <1>3, <1>6 DEF Passes
<1>7. CASE FindTop(t)
  <2>1. /\ k.curr = m_head_top /\ k.prev = Null /\ k.prevs = [i \in 0 .. m_level[m_head_top] |-> Null]
        /\ m_head_top \in HeadIndex
    BY <1>1, <1>7 DEF FindTop, NoLoc, IndexTypeOK
  <2> QED BY <1>1, <2>1 DEF Passes
<1>8. CASE Found(t)
  <2>1. CASE loc' = loc
    BY <1>5, <2>1
  <2>2. CASE loc' # loc
    <3> DEFINE v == [l.prevs EXCEPT ![l.level] = l.prev]
               d == Down(l.prev)
    <3>1. k.prev = l.prev /\ k.prevs = v /\ (k.curr = l.curr \/ k.curr = d)
      <4>1. \/ k = [l EXCEPT !.prevs[l.level] = l.prev, !.nexts[l.level] = l.next]
            \/ k = [[l EXCEPT !.prevs[l.level] = l.prev, !.nexts[l.level] = l.next] EXCEPT
                      !.curr = d, !.level = l.level - 1, !.level_head = m_down[l.level_head]]
        BY <1>1, <1>8, <2>2 DEF Found, Locals
      <4> HIDE DEF k, l, d
      <4> QED BY <1>1, <4>1 DEF Locals, v
    <3>2. \A j \in DOMAIN v : v[j] # x
      BY <1>2
    <3>3. d # x
      <4>1. l.prev \in IndexNode
        BY <1>1, <1>8, ThreadFacts DEF Found, WalkOK, SearchPcs, PrevOK
      <4>2. CASE l.prev \in HeadIndex
        BY <1>1, <4>2, Universe DEF Down, IndexTypeOK, HeadOrNull
      <4>3. CASE l.prev \in NodeIndex
        <5>1. l.prev[1] # x[1]
          BY <4>3 DEF Passes
        <5>2. l.prev \notin HeadIndex
          BY <4>3, Universe
        <5> QED BY <1>1, <5>1, <5>2 DEF Down
      <4> QED BY <4>1, <4>2, <4>3, Universe
    <3> HIDE DEF v, d
    <3> QED BY <1>2, <3>1, <3>2, <3>3 DEF Passes
  <2> QED BY <2>1, <2>2
<1>9. CASE Build(t)
  <2>1. PICK h \in 0 .. Min(MaxLevel, Cardinality(DOMAIN l.prevs) + 1) :
          InsertAt(t, m_head_bottom, [l EXCEPT !.height = h])
    BY <1>9 DEF Build
  <2> DEFINE ll == [l EXCEPT !.height = h]
  <2>2. h \in Levels
    BY <1>1, ThreadFacts, DrawnLevel
  <2>3. ll \in Locals /\ ll.curr = l.curr /\ ll.prev = l.prev /\ ll.prevs = l.prevs
    <3> HIDE DEF l
    <3> QED BY <1>1, <2>2 DEF Locals
  <2>4. ~Passes(ll, x) /\ m_head_bottom \in HeadOrNull
    BY <1>2, <2>3, Universe DEF Passes, HeadOrNull
  <2> HIDE DEF ll
  <2> QED BY <1>1, <2>1, <2>3, <2>4, InsertPasses DEF ll
<1>10. CASE NextLevel(t)
  <2> DEFINE ll == [l EXCEPT !.inserted = @ + 1]
  <2>1. InsertAt(t, m_up[l.level_head], ll)
    BY <1>10 DEF NextLevel
  <2>2. m_up[l.level_head] \in HeadOrNull
    BY <1>1, <1>10, ThreadFacts DEF NextLevel, LevelOK, LinkPcs, HeadOrNull, IndexTypeOK
  <2>3. ll \in Locals /\ ll.curr = l.curr /\ ll.prev = l.prev /\ ll.prevs = l.prevs
    <3> HIDE DEF l
    <3> QED BY <1>1 DEF Locals
  <2>4. ~Passes(ll, x)
    BY <1>2, <2>3 DEF Passes
  <2> HIDE DEF ll
  <2> QED BY <1>1, <2>1, <2>2, <2>3, <2>4, InsertPasses
<1>11. CASE Walk(t) \/ UnlinkRead(t)
  <2>1. \/ k = [l EXCEPT !.next = m_right[l.prev]]
        \/ k = [l EXCEPT !.succ = m_right[l.next]]
    BY <1>1, <1>11 DEF Walk, UnlinkRead
  <2>2. k.curr = l.curr /\ k.prev = l.prev /\ k.prevs = l.prevs
    <3> HIDE DEF k, l
    <3> QED BY <1>1, <2>1 DEF Locals
  <2> QED BY <1>5, <2>2
<1>12. CASE CheckCurr(t) \/ Test(t)
  <2>1. k = l \/ k = [l EXCEPT !.prev = l.curr] \/ k = [l EXCEPT !.prev = l.next]
    BY <1>1, <1>12 DEF CheckCurr, Test
  <2>2. k.curr = l.curr /\ k.prev \in {l.prev, l.curr, l.next} /\ k.prevs = l.prevs
    <3> HIDE DEF k, l
    <3> QED BY <1>1, <2>1 DEF Locals
  <2> QED BY <1>6, <2>2
<1>13. CASE UnlinkCheck(t) \/ UnlinkCas(t) \/ LinkFailed(t)
  <2>1. l.level_head \in HeadIndex
    BY <1>1, <1>13, ThreadFacts
       DEF UnlinkCheck, UnlinkCas, LinkFailed, LevelOK, SearchPcs, LinkPcs, HeadOrNull
  <2>2. CASE loc' = loc
    BY <1>5, <2>2
  <2>3. CASE WalkFailed(t)
    <3>1. k = [l EXCEPT !.curr = l.level_head, !.prev = l.level_head]
      BY <1>1, <2>3, ThreadFacts DEF WalkFailed, Locals
    <3>2. k.curr = l.level_head /\ k.prev = l.level_head /\ k.prevs = l.prevs
      <4> HIDE DEF k, l
      <4> QED BY <1>1, <3>1 DEF Locals
    <3> QED BY <1>6, <2>1, <3>2
  <2>4. CASE LinkFailed(t)
    <3>1. CASE Exit(t)
      BY <1>1, <1>4, <3>1 DEF Exit, Leave
    <3>2. CASE k = [l EXCEPT !.prev = l.level_head]
      <4>1. k.curr = l.curr /\ k.prev = l.level_head /\ k.prevs = l.prevs
        <5> HIDE DEF k, l
        <5> QED BY <1>1, <3>2 DEF Locals
      <4> QED BY <1>6, <2>1, <4>1
    <3> QED BY <1>1, <2>4, <3>1, <3>2 DEF LinkFailed
  <2> QED BY <1>13, <2>2, <2>3, <2>4 DEF UnlinkCheck, UnlinkCas
<1>14. CASE Grow(t)
  <2>1. CASE Exit(t)
    BY <1>1, <1>4, <2>1 DEF Exit, Leave
  <2>2. CASE k = [l EXCEPT !.level_head = m_head_top]
    <3>1. k.curr = l.curr /\ k.prev = l.prev /\ k.prevs = l.prevs
      <4> HIDE DEF k, l
      <4> QED BY <1>1, <2>2 DEF Locals
    <3> QED BY <1>5, <3>1
  <2> QED BY <1>1, <1>14, <2>1, <2>2 DEF Grow
<1>15. CASE Reduce(t) \/ LooksEmpty(t)
  <2>1. CASE Exit(t)
    BY <1>1, <1>4, <2>1 DEF Exit, Leave
  <2>2. CASE ~Exit(t)
    <3>1. pc'[t] \in ReducePcs
      BY <1>1, <1>15, <2>2 DEF Reduce, LooksEmpty, Goto, ReducePcs, IndexTypeOK
    <3>2. CASE loc' = loc
      BY <1>5, <3>2
    <3>3. CASE pc'[t] = "empty" /\ \/ k = [l EXCEPT !.level_head = m_head_top, !.curr = m_down[m_down[m_head_top]]]
                                   \/ k = [l EXCEPT !.curr = l.level_head]
                                   \/ k = [l EXCEPT !.curr = m_down[l.level_head]]
      <4>1. k.curr \in HeadIndex
        BY <3>3, MineNext DEF Mine, ThreadOK, TopOK
      <4>2. k.prev = l.prev /\ k.prevs = l.prevs
        <5> HIDE DEF k, l
        <5> QED BY <1>1, <3>3 DEF Locals
      <4> QED BY <1>6, <4>1, <4>2
    <3> QED BY <1>1, <1>15, <2>2, <3>2, <3>3 DEF Reduce, LooksEmpty, Goto, IndexTypeOK, Locals
  <2> QED BY <2>1, <2>2
<1>16. CASE \/ Link(t) \/ LinkCas(t) \/ Raise(t) \/ Peek(t) \/ Lower(t) \/ Recheck(t)
            \/ Backout(t) \/ Reply(t)
  <2>1. k = NoLoc \/ loc' = loc
    BY <1>1, <1>16 DEF Link, LinkCas, Raise, Peek, Lower, Recheck, Backout, Reply, Exit, Leave
  <2> QED BY <1>4, <1>5, <2>1
<1> QED BY <1>7, <1>8, <1>9, <1>10, <1>11, <1>12, <1>13, <1>14, <1>15, <1>16 DEF InCall

LEMMA OfferedNext ==
  ASSUME IndexInv, NEW t \in Threads, InCall(t)
  PROVE  OfferedInv'
<1>1. Shape(t) /\ IndexTypeOK /\ HeadInv /\ ThreadInv /\ ClientInv
  BY InCallShape DEF IndexInv
<1> SUFFICES ASSUME NEW x \in NodeIndex, x[1] \notin offered'
             PROVE  m_right'[x] = Null /\ \A u \in Threads : ~Passes(loc'[u], x)
  BY DEF OfferedInv, Passes
<1> DEFINE l == loc[t]
<1>2. /\ x[1] \notin offered /\ m_right[x] = Null /\ \A u \in Threads : ~Passes(loc[u], x)
      /\ x \notin HeadIndex /\ x \in IndexNode /\ m_right \in [IndexNode -> RightOf]
  BY <1>1, Universe DEF Shape, IndexInv, OfferedInv, IndexTypeOK
<1>3. \A u \in Threads : ~Passes(loc'[u], x)
  <2>1. \A y \in NodeIndex : y[1] = x[1] => ~Known(y) /\ ~Passes(loc[t], y)
    BY <1>2 DEF IndexInv, KnownInv, OfferedInv
  <2>2. ~Passes(loc'[t], x)
    BY <2>1, PassesNext
  <2> QED BY <1>1, <1>2, <2>2 DEF Shape, Same
<1>4. x # l.prev
  BY <1>2 DEF Passes
<1>5. m_right'[x] = m_right[x]
  <2>1. CASE m_right' = m_right BY <2>1
  <2>2. CASE UnlinkCas(t) \/ LinkCas(t)
    BY <1>2, <1>4, <2>2 DEF UnlinkCas, LinkCas, casRight
  <2>3. CASE Link(t)
    <3>1. x # NewIndex(t, l.level)
      <4>1. pc[t] = "link"
        BY <2>3 DEF Link
      <4>2. call[t].node \in offered
        BY <1>1, <4>1, ThreadFacts DEF ClientInv, StageOK, AddPcs, LinkPcs
      <4> QED BY <1>2, <4>2 DEF NewIndex
    <3> QED BY <1>2, <2>3, <3>1 DEF Link
  <2>4. CASE Raise(t)
    BY <1>2, <2>4 DEF Raise, links
  <2>5. CASE Lower(t) \/ Backout(t)
    BY <2>1, <2>5 DEF Lower, Backout, Exit, shared
  <2> QED BY <2>1, <2>2, <2>3, <2>4, <2>5, QuietLinks DEF links
<1> QED BY <1>2, <1>3, <1>5

-----------------------------------------------------------------------------
(* The steps of the client.                                                *)

(* What a call that is made changes: a node is added once, with a key that *)
(* no live node has, and a live node is removed.                           *)
Makes(t, c) ==
  /\ pc' = [pc EXCEPT ![t] = "find"] /\ call' = [call EXCEPT ![t] = c]
  /\ \/ /\ c.op = "add" /\ c.node \notin offered /\ \A n \in live : Key[n] # Key[c.node]
        /\ live' = live \cup {c.node} /\ offered' = offered \cup {c.node}
     \/ c.op = "remove" /\ c.node \in live /\ live' = live \ {c.node} /\ offered' = offered
     \/ c.op = "getPred" /\ live' = live /\ offered' = offered

LEMMA CallShape ==
  ASSUME IndexTypeOK, NEW t \in Threads, Call(t)
  PROVE  /\ pc[t] = "idle" /\ UNCHANGED <<links, answer, loc>>
         /\ done' \in [Threads -> Nat]
         /\ \/ UNCHANGED <<pc, call, live, offered>>
            \/ \E c \in AnyCall \ {NoCall} : /\ c.op = "getPred" => c.key \in AskedKeys
                                             /\ Makes(t, c)
<1>1. done[t] + 1 \in 1 .. Len(Calls[t]) /\ done' = [done EXCEPT ![t] = @ + 1]
  BY CallsAssumption DEF Call, IndexTypeOK
<1>2. PICK c \in Calls[t][done[t] + 1] :
        IF Applicable(c)
        THEN /\ Goto(t, "find")
             /\ call' = [call EXCEPT ![t] = c]
             /\ live' = CASE c.op = "add"    -> live \cup {c.node}
                          [] c.op = "remove" -> live \ {c.node}
                          [] OTHER           -> live
             /\ offered' = IF c.op = "add" THEN offered \cup {c.node} ELSE offered
        ELSE UNCHANGED <<pc, call, live, offered>>
  BY DEF Call
<1>3. c \in AnyCall \ {NoCall} /\ (c.op = "getPred" => c.key \in AskedKeys)
  BY <1>1, DrawnCall
<1>4. c.op \in {"add", "remove", "getPred"}
  BY <1>3, CallFields
<1>5. Applicable(c) => Makes(t, c)
  BY <1>2, <1>4 DEF Applicable, Makes, Goto
<1> QED BY <1>1, <1>2, <1>3, <1>5 DEF Call, IndexTypeOK

LEMMA CallNext ==
  ASSUME IndexInv, NEW t \in Threads, Call(t)
  PROVE  IndexInv'
<1>1. /\ IndexTypeOK /\ HeadInv /\ ChainInv /\ DropInv /\ ClientInv
      /\ ThreadInv /\ KnownInv /\ OfferedInv /\ LevelsSorted
  BY DEF IndexInv
<1>2. /\ pc[t] = "idle" /\ loc' = loc /\ answer' = answer /\ done' \in [Threads -> Nat]
      /\ UNCHANGED links
  BY <1>1, CallShape
<1>3. HeadInv' /\ ChainInv'
  <2>1. HeadInv'
    BY <1>1, <1>2 DEF HeadInv, Made, links
  <2>2. \A hs : Chain(hs) => Chain(hs)'
    BY <1>2 DEF Chain, Made, links
  <2>3. PICK hs \in SUBSET HeadIndex : Chain(hs)
    BY <1>1 DEF ChainInv
  <2>4. Chain(hs)'
    BY <2>2, <2>3
  <2>5. m_up'[m_head_top'] = Null
    BY <1>1, <1>2 DEF ChainInv, links
  <2> QED BY <2>1, <2>4, <2>5 DEF ChainInv
<1>4. \A x : Known(x)' <=> Known(x)
  BY <1>2 DEF Known, Carries, links
<1>5. CASE UNCHANGED <<pc, call, live, offered>>
  <2>1. IndexTypeOK'
    BY <1>1, <1>2, <1>5 DEF IndexTypeOK, links
  <2>2. DropInv' /\ ClientInv' /\ ThreadInv'
    BY <1>1, <1>2, <1>5 DEF DropInv, Dropped, ClientInv, ThreadInv, links
  <2>3. KnownInv'
    BY <1>1, <1>2, <1>4, <1>5 DEF KnownInv, LinkedAt
  <2>4. OfferedInv' /\ LevelsSorted'
    BY <1>1, <1>2, <1>5 DEF OfferedInv, Passes, LevelsSorted, LevelOf, KeyOf, Alive, links
  <2> QED BY <1>3, <2>1, <2>2, <2>3, <2>4 DEF IndexInv
<1>6. ASSUME NEW c \in AnyCall \ {NoCall}, Makes(t, c)
      PROVE  IndexInv'
  <2>1. /\ c.op \in {"add", "remove", "getPred"}
        /\ c.op \in {"add", "remove"} => c.node \in Nodes
    BY CallFields
  <2>2. /\ pc' = [pc EXCEPT ![t] = "find"] /\ call' = [call EXCEPT ![t] = c]
        /\ pc'[t] = "find" /\ call'[t] = c
        /\ \A u \in Threads \ {t} : pc'[u] = pc[u] /\ call'[u] = call[u]
        /\ offered \subseteq offered' /\ offered' \subseteq Nodes /\ live' \subseteq offered'
    BY <1>1, <1>6, <2>1 DEF Makes, IndexTypeOK
(* A deleted node is not added again.                                      *)
  <2>3. \A n \in offered : n \notin live => n \notin live'
    BY <1>6 DEF Makes
  <2>4. IndexTypeOK'
    BY <1>1, <1>2, <2>2 DEF IndexTypeOK, links, Pcs
  <2>5. DropInv'
    BY <1>1, <1>2, <2>2 DEF DropInv, Dropped, links
  <2>6. ClientInv'
    <3>1. \A m, n \in live' : Key[m] = Key[n] => m = n
      BY <1>1, <1>6 DEF ClientInv, Makes
    <3>2. \A u \in Threads : pc'[u] = "idle" <=> call'[u] = NoCall
      BY <1>1, <2>2 DEF ClientInv
    <3>3. \A u \in Threads : call'[u].op = "add" => call'[u].node \in offered'
      BY <1>1, <1>6, <2>2 DEF ClientInv, Makes
    <3>4. \A u, v \in Threads : /\ call'[u].op = "add" /\ call'[v].op = "add"
                                /\ call'[u].node = call'[v].node
                                => u = v
      BY <1>1, <1>6, <2>2 DEF ClientInv, Makes
    <3> QED BY <3>1, <3>2, <3>3, <3>4 DEF ClientInv
  <2>7. ThreadInv'
    <3>1. ThreadOK("find", loc[t], c, live', m_level)
      <4>1. loc[t].height = -1 /\ loc[t].inserted = 0
        BY <1>1, <1>2, ThreadFacts DEF StageOK, SearchPcs, LinkPcs
      <4> QED BY <4>1 DEF ThreadOK, StageOK, LevelOK, WalkOK, TopOK, Searching, Inserting,
                          SearchPcs, LinkPcs, AddPcs, ReducePcs
    <3>2. ASSUME NEW u \in Threads \ {t}
          PROVE  ThreadOK(pc[u], loc[u], call[u], live', m_level)
      <4>1. /\ ThreadOK(pc[u], loc[u], call[u], live, m_level)
            /\ loc[u] \in Locals /\ m_level \in [HeadIndex -> Int] /\ Later(m_level, m_level)
        BY <1>1 DEF ThreadInv, IndexTypeOK, Later
      <4>2. call[u].op = "add" /\ call[u].node \notin live => call[u].node \notin live'
        BY <1>1, <2>3 DEF ClientInv
      <4> QED BY <4>1, <4>2, ThreadStable
    <3> QED BY <1>2, <2>2, <3>1, <3>2 DEF ThreadInv, links
  <2>8. KnownInv'
    <3> SUFFICES ASSUME NEW x \in NodeIndex, Known(x)
                 PROVE  /\ x[1] \in offered'
                        /\ \A u \in Threads : call'[u].op = "add" /\ call'[u].node = x[1] => LinkedAt(u, x[2])'
      BY <1>4 DEF KnownInv
    <3>1. /\ x[1] \in offered
          /\ \A u \in Threads : call[u].op = "add" /\ call[u].node = x[1] => LinkedAt(u, x[2])
      BY <1>1 DEF KnownInv
    <3>2. call'[t].op = "add" => call'[t].node # x[1]
      BY <1>6, <2>2, <3>1 DEF Makes
    <3>3. \A u \in Threads \ {t} : LinkedAt(u, x[2]) => LinkedAt(u, x[2])'
      BY <1>2, <2>2 DEF LinkedAt
    <3> QED BY <2>2, <3>1, <3>2, <3>3
  <2>9. OfferedInv'
    BY <1>1, <1>2, <2>2 DEF OfferedInv, Passes, links
  <2>10. LevelsSorted'
    <3>1. ASSUME NEW x \in IndexNode PROVE Ordered(live', m_level', x, m_right'[x])
      <4>1. /\ Ordered(live, m_level, x, m_right[x]) /\ m_right[x] \in RightOf
            /\ m_right' = m_right /\ m_level' = m_level
        BY <1>1, <1>2, SortedNow DEF IndexTypeOK, links
      <4>2. CASE m_right[x] = Null
        BY <4>1, <4>2 DEF Ordered
      <4>3. CASE x[1] # head /\ x[1] \notin live => x[1] \notin live'
        BY <4>1, <4>3, OrderedStable DEF Later
      <4>4. CASE x \in NodeIndex /\ m_right[x] # Null
        BY <1>1, <2>3, <4>3, <4>4 DEF OfferedInv
      <4>5. CASE x \in HeadIndex
        BY <4>3, <4>5, Universe
      <4> QED BY <4>2, <4>4, <4>5, Universe
    <3> QED BY <2>4, <3>1, SortedThen
  <2> QED BY <1>3, <2>4, <2>5, <2>6, <2>7, <2>8, <2>9, <2>10 DEF IndexInv
<1> QED BY <1>1, <1>5, <1>6, CallShape

-----------------------------------------------------------------------------
(* The start.                                                              *)

(* A set of nodes has one with the smallest key.                           *)
LEMMA SmallestKey ==
  ASSUME NEW S \in SUBSET Nodes, S # {}
  PROVE  \E n \in S : \A m \in S : Key[n] <= Key[m]
<1> DEFINE R == OpToRel(<, Nat)
           D == {Key[n] - Key[head] : n \in S}
<1>1. D \subseteq Nat /\ D # {}
  BY Keys
<1>2. IsWellFoundedOn(R, Nat)
  BY NatLessThanWellFounded
<1>3. PICK d \in D : \A e \in D : ~(<<e, d>> \in R)
  <2> HIDE DEF D, R
  <2> QED BY <1>1, <1>2, WFMin
<1>4. \A e \in D : ~(e < d)
  BY <1>1, <1>3 DEF OpToRel
<1>5. PICK n \in S : d = Key[n] - Key[head]
  OBVIOUS
<1>6. ASSUME NEW m \in S PROVE Key[n] <= Key[m]
  <2>1. Key[m] - Key[head] \in D /\ Key[m] \in Int /\ Key[n] \in Int /\ Key[head] \in Int
    BY Keys
  <2>2. ~(Key[m] - Key[head] < Key[n] - Key[head])
    BY <1>4, <1>5, <2>1
  <2> QED BY <2>1, <2>2
<1> QED BY <1>6

(* The right links of the start lead to the next node of the level.        *)
LEMMA StartLinks ==
  ASSUME NEW s, NEW a \in Nodes \cup {head}, NEW i \in Levels, StartRight(s, a, i) # Null
  PROVE  /\ StartRight(s, a, i) \in NodeIndex
         /\ StartRight(s, a, i)[2] = i
         /\ s.tower[StartRight(s, a, i)[1]] >= i
         /\ Key[a] < Key[StartRight(s, a, i)[1]]
<1> DEFINE after == {n \in Nodes : s.tower[n] >= i /\ Key[n] > Key[a]}
           b == CHOOSE n \in after : \A m \in after : Key[n] <= Key[m]
<1>1. StartRight(s, a, i) = <<b, i>> /\ after # {}
  BY DEF StartRight
<1>2. b \in after
  <2> HIDE DEF after
  <2>1. after \in SUBSET Nodes
    BY DEF after
  <2>2. \E n \in after : \A m \in after : Key[n] <= Key[m]
    BY <1>1, <2>1, SmallestKey
  <2> QED BY <2>2
<1>3. b \in Nodes /\ s.tower[b] >= i /\ Key[b] > Key[a]
  BY <1>2
<1> HIDE DEF b
<1> QED BY <1>1, <1>3, Universe, Keys

LEMMA IndexInit ==
  ASSUME Init
  PROVE  IndexInv
<1>1. PICK s \in Starts :
       /\ live = {n \in Nodes : s.tower[n] >= 0}
       /\ m_head_top = <<head, s.top>>
       /\ m_level = [h \in HeadIndex |-> IF h[2] <= s.top THEN h[2] ELSE -1]
       /\ m_down  = [h \in HeadIndex |-> IF h[2] \in 1 .. s.top THEN <<head, h[2] - 1>> ELSE Null]
       /\ m_up    = [h \in HeadIndex |-> IF h[2] < s.top THEN <<head, h[2] + 1>> ELSE Null]
       /\ m_right = [x \in IndexNode |->
                       IF IF x[1] = head THEN x[2] <= s.top ELSE x[2] <= s.tower[x[1]]
                       THEN StartRight(s, x[1], x[2]) ELSE Null]
  BY DEF Init
<1> DEFINE top == s.top
           tower == s.tower
<1>2. /\ top \in Nat /\ top <= MaxHeads /\ top <= MaxLevel /\ top \in 0 .. MaxHeads
      /\ tower \in [Nodes -> -1 .. top]
      /\ \A m, n \in Nodes : tower[m] >= 0 /\ tower[n] >= 0 /\ m # n => Key[m] # Key[n]
  BY StartAssumption, BoundAssumption DEF Min
<1>3. /\ offered = live /\ live \subseteq Nodes /\ live = {n \in Nodes : tower[n] >= 0}
      /\ pc = [t \in Threads |-> "idle"] /\ call = [t \in Threads |-> NoCall]
      /\ answer = [t \in Threads |-> head] /\ done = [t \in Threads |-> 0]
      /\ loc = [t \in Threads |-> NoLoc]
  BY <1>1 DEF Init
<1>4. /\ m_level = [h \in HeadIndex |-> IF h[2] <= top THEN h[2] ELSE -1]
      /\ m_down  = [h \in HeadIndex |-> IF h[2] \in 1 .. top THEN <<head, h[2] - 1>> ELSE Null]
      /\ m_up    = [h \in HeadIndex |-> IF h[2] < top THEN <<head, h[2] + 1>> ELSE Null]
      /\ m_head_top = <<head, top>> /\ m_head_top \in HeadIndex /\ m_head_top[2] = top
  BY <1>1, <1>2, Universe
<1>5. m_right = [x \in IndexNode |->
                   IF IF x[1] = head THEN x[2] <= top ELSE x[2] <= tower[x[1]]
                   THEN StartRight(s, x[1], x[2]) ELSE Null]
  BY <1>1
<1>6. ASSUME NEW x \in IndexNode, m_right[x] # Null
      PROVE  LET r == m_right[x]
             IN  /\ r \in NodeIndex /\ r[2] = x[2] /\ r[1] \in live
                 /\ Key[x[1]] < Key[r[1]]
                 /\ x \in HeadIndex => m_level[x] = x[2]
                 /\ x \in NodeIndex => x[1] \in live
  <2> DEFINE r == m_right[x]
  <2>1. /\ r = StartRight(s, x[1], x[2])
        /\ IF x[1] = head THEN x[2] <= top ELSE x[2] <= tower[x[1]]
    BY <1>5, <1>6
  <2>2. x[1] \in Nodes \cup {head} /\ x[2] \in Nat /\ x[2] <= top
    <3>1. CASE x \in HeadIndex
      BY <2>1, <3>1, Universe
    <3>2. CASE x \in NodeIndex
      <4>1. x[1] \in Nodes /\ x[1] # head /\ x[2] \in Nat
        BY <3>2, Universe DEF Levels
      <4>2. tower[x[1]] \in -1 .. top
        BY <1>2, <4>1
      <4> QED BY <1>2, <2>1, <4>1, <4>2
    <3> QED BY <3>1, <3>2, Universe
  <2>3. x[2] \in Levels
    BY <1>2, <2>2, BoundAssumption DEF Levels
  <2>4. r \in NodeIndex /\ r[2] = x[2] /\ tower[r[1]] >= x[2] /\ Key[x[1]] < Key[r[1]]
    <3> HIDE DEF r
    <3> QED BY <1>6, <2>1, <2>2, <2>3, StartLinks DEF r
  <2>5. r[1] \in live
    <3>1. r[1] \in Nodes
      BY <2>4, Universe
    <3>2. tower[r[1]] \in Int
      BY <1>2, <3>1
    <3> QED BY <1>3, <2>2, <2>4, <3>1, <3>2
  <2>6. x \in HeadIndex => m_level[x] = x[2]
    BY <1>4, <2>2
  <2>7. x \in NodeIndex => x[1] \in live
    <3>1. ASSUME x \in NodeIndex PROVE x[1] \in Nodes /\ x[1] # head
      BY <3>1, Universe
    <3>2. ASSUME x \in NodeIndex PROVE tower[x[1]] \in Int /\ tower[x[1]] >= x[2]
      BY <1>2, <2>1, <3>1, <3>2
    <3> QED BY <1>3, <2>2, <3>1, <3>2
  <2> QED BY <2>4, <2>5, <2>6, <2>7
<1> HIDE DEF top, tower
<1>7. IndexTypeOK
  <2>1. m_right \in [IndexNode -> RightOf]
    <3>1. \A x \in IndexNode : m_right[x] \in RightOf
      BY <1>6 DEF RightOf
    <3> QED BY <1>5, <3>1
  <2>2. m_level \in [HeadIndex -> Int]
    BY <1>4, Universe
  <2>3. m_down \in [HeadIndex -> HeadOrNull] /\ m_up \in [HeadIndex -> HeadOrNull]
    <3>1. ASSUME NEW h \in HeadIndex, h[2] \in 1 .. top PROVE <<head, h[2] - 1>> \in HeadIndex
      BY <1>2, <3>1, Universe, BoundAssumption
    <3>2. ASSUME NEW h \in HeadIndex, h[2] < top PROVE <<head, h[2] + 1>> \in HeadIndex
      BY <1>2, <3>2, Universe, BoundAssumption
    <3> QED BY <1>4, <3>1, <3>2 DEF HeadOrNull
  <2>4. call \in [Threads -> AnyCall] /\ pc \in [Threads -> Pcs] /\ loc \in [Threads -> Locals]
    BY <1>3, NoLocOK DEF AnyCall, Pcs
  <2> QED BY <1>3, <1>4, <2>1, <2>2, <2>3, <2>4 DEF IndexTypeOK
<1>8. \A h \in HeadIndex : Made(h) <=> h[2] <= top
  BY <1>2, <1>4, Universe DEF Made
<1>9. ASSUME NEW h \in HeadIndex \ {m_head_bottom}, h[2] <= top
      PROVE  /\ m_down[h] \in HeadIndex /\ m_down[h][2] = h[2] - 1 /\ m_down[h] # Null
             /\ m_up[m_down[h]] = h
             /\ m_level[m_down[h]] = h[2] - 1 /\ m_level[h] = h[2] /\ m_down[h][2] <= top
  <2>1. h[2] \in 1 .. top /\ h = <<head, h[2]>> /\ h[2] - 1 \in 0 .. MaxHeads
    BY <1>2, <1>9, Universe, BoundAssumption DEF m_head_bottom
  <2>2. m_down[h] = <<head, h[2] - 1>> /\ m_down[h] \in HeadIndex
    BY <1>4, <2>1, Universe
  <2>3. m_down[h][2] = h[2] - 1 /\ m_down[h][2] < top /\ m_down[h][2] + 1 = h[2]
    BY <1>2, <2>1, <2>2
  <2>4. m_up[m_down[h]] = <<head, m_down[h][2] + 1>>
    BY <1>4, <2>2, <2>3
  <2>5. m_level[m_down[h]] = m_down[h][2] /\ m_level[h] = h[2]
    <3>1. m_down[h][2] <= top
      BY <1>2, <2>1, <2>3
    <3> QED BY <1>4, <1>9, <2>2, <3>1
  <2> QED BY <1>2, <2>1, <2>2, <2>3, <2>4, <2>5, Universe
<1>10. HeadInv
  <2>1. \E k \in 0 .. MaxHeads : \A h \in HeadIndex : Made(h) <=> h[2] <= k
    BY <1>2, <1>8
  <2>2. Made(m_head_top)
    BY <1>2, <1>4, <1>8
  <2>3. m_level[m_head_bottom] = 0 /\ m_down[m_head_bottom] = Null
    BY <1>2, <1>4, Universe DEF m_head_bottom
  <2>4. \A h \in HeadIndex \ {m_head_bottom} : Made(h) =>
          m_down[h] # Null /\ Made(m_down[h]) /\ m_level[m_down[h]] = m_level[h] - 1
    BY <1>8, <1>9
  <2>5. ASSUME NEW h \in HeadIndex, m_up[h] # Null
        PROVE  Made(h) /\ m_level[m_up[h]] = m_level[h] + 1
    <3>1. h[2] < top /\ m_up[h] = <<head, h[2] + 1>> /\ h[2] \in Nat
      BY <1>4, <2>5, Universe
    <3>2. <<head, h[2] + 1>> \in HeadIndex /\ <<head, h[2] + 1>>[2] = h[2] + 1 /\ h[2] + 1 <= top
      BY <1>2, <3>1, Universe, BoundAssumption
    <3> QED BY <1>2, <1>4, <1>8, <3>1, <3>2
  <2> QED BY <2>1, <2>2, <2>3, <2>4, <2>5 DEF HeadInv
<1>11. ChainInv
  <2> DEFINE hs == {h \in HeadIndex : h[2] <= top}
  <2>1. Chain(hs)
    BY <1>2, <1>4, <1>8, <1>9 DEF Chain
  <2>2. m_up[m_head_top] = Null
    BY <1>2, <1>4
  <2> QED BY <2>1, <2>2 DEF ChainInv
<1>12. DropInv
  BY <1>3 DEF DropInv, Dropped
<1>13. ClientInv
  <2>1. NoCall.op # "add"
    BY DEF NoCall
  <2> QED BY <1>2, <1>3, <2>1 DEF ClientInv
<1>14. ThreadInv
  BY <1>3, NoLocOK DEF ThreadInv
<1>15. KnownInv
  <2>1. ASSUME NEW x \in NodeIndex, Known(x) PROVE x[1] \in offered
    <3>1. \A u \in Threads : ~Carries(loc[u], x)
      BY <1>3, Universe DEF Carries, NoLoc
    <3>2. PICK y \in IndexNode : m_right[y] = x
      BY <2>1, <3>1 DEF Known
    <3> QED BY <1>3, <1>6, <3>2, Universe
  <2>2. NoCall.op # "add"
    BY DEF NoCall
  <2> QED BY <1>3, <2>1, <2>2 DEF KnownInv
<1>16. OfferedInv
  <2>1. \A x \in NodeIndex, u \in Threads : ~Passes(loc[u], x)
    BY <1>3, Universe DEF Passes, NoLoc
  <2> QED BY <1>3, <1>6, <2>1, Universe DEF OfferedInv
<1>17. LevelsSorted
  <2>1. ASSUME NEW x \in IndexNode PROVE Ordered(live, m_level, x, m_right[x])
    <3>1. CASE m_right[x] = Null
      BY <3>1 DEF Ordered
    <3>2. CASE m_right[x] # Null
      <4>1. LevelIn(m_level, x) = m_right[x][2]
        BY <1>6, <3>2, Universe DEF LevelIn
      <4>2. KeyOf(x) < KeyOf(m_right[x]) /\ KeyOf(x) \in Int /\ KeyOf(m_right[x]) \in Int
        BY <1>6, <3>2, Keys, Universe DEF KeyOf
      <4> QED BY <4>1, <4>2 DEF Ordered
    <3> QED BY <3>1, <3>2
  <2> QED BY <1>7, <2>1, SortedNow
<1> QED BY <1>7, <1>10, <1>11, <1>12, <1>13, <1>14, <1>15, <1>16, <1>17 DEF IndexInv

-----------------------------------------------------------------------------
(* The theorems.                                                           *)

(* The whole of IndexInv is inductive.                                     *)
LEMMA IndexStep ==
  ASSUME IndexInv, [Next]_vars
  PROVE  IndexInv'
<1>1. ASSUME NEW t \in Threads, Call(t) PROVE IndexInv'
  BY <1>1, CallNext
<1>2. ASSUME NEW t \in Threads, InCall(t) PROVE IndexInv'
  <2>1. HeadInv' /\ ChainInv' /\ DropInv'
    BY <1>2, HeadNext, ChainNext, DropNext DEF IndexInv
  <2>2. IndexTypeOK' /\ ClientInv' /\ ThreadInv'
    BY <1>2, TypeNext, ClientNext, ThreadNext
  <2>3. KnownInv' /\ OfferedInv' /\ LevelsSorted'
    BY <1>2, KnownNext, OfferedNext, SortedNext
  <2> QED BY <2>1, <2>2, <2>3 DEF IndexInv
<1>3. CASE UNCHANGED vars
  <2> USE <1>3 DEF vars, shared, client
  <2>1. IndexTypeOK' /\ HeadInv' /\ DropInv' /\ ClientInv' /\ ThreadInv'
    BY DEF IndexInv, IndexTypeOK, HeadInv, Made, DropInv, Dropped, ClientInv, ThreadInv
  <2>2. ChainInv'
    <3>1. PICK hs \in SUBSET HeadIndex : Chain(hs)
      BY DEF IndexInv, ChainInv
    <3>2. Chain(hs)'
      BY <3>1 DEF Chain, Made
    <3> QED BY <3>2 DEF IndexInv, ChainInv
  <2>3. KnownInv' /\ OfferedInv'
    BY DEF IndexInv, KnownInv, Known, Carries, LinkedAt, OfferedInv, Passes
  <2>4. LevelsSorted'
    BY DEF IndexInv, LevelsSorted, LevelOf, KeyOf, Alive
  <2> QED BY <2>1, <2>2, <2>3, <2>4 DEF IndexInv
<1> QED BY <1>1, <1>2, <1>3 DEF Next, Finished

LEMMA IndexInvariant == Spec => []IndexInv
<1>1. Init => IndexInv
  BY IndexInit
<1>2. IndexInv /\ [Next]_vars => IndexInv'
  BY IndexStep
<1> QED BY <1>1, <1>2, PTL DEF Spec

(* Heads are where the code that walks up and down expects them.           *)
LEMMA InvHeads ==
  ASSUME IndexInv
  PROVE  HeadsLinked
<1>1. PICK hs \in SUBSET HeadIndex : Chain(hs)
  BY DEF IndexInv, ChainInv
<1>2. \A h \in hs \ {m_head_bottom} :
        m_down[h] \in hs /\ m_level[m_down[h]] = m_level[h] - 1 /\ m_up[m_down[h]] = h
  BY <1>1 DEF IndexInv, HeadInv, Chain
<1>3. m_head_top \in hs /\ m_up[m_head_top] = Null /\ m_level[m_head_bottom] = 0
  BY <1>1 DEF IndexInv, ChainInv, HeadInv, Chain
<1> QED BY <1>2, <1>3 DEF HeadsLinked

(* What a thread knows makes the assertions on its way true.               *)
LEMMA InvAssertions ==
  ASSUME IndexInv
  PROVE  Assertions
<1> SUFFICES ASSUME NEW t \in Threads
    PROVE  /\ pc[t] = "backout" /\ m_head_top = m_down[loc[t].level_head]
                => m_up[loc[t].level_head] = Null
           /\ pc[t] = "found" /\ Alive(loc[t].prev) /\ Down(loc[t].prev) = Null => loc[t].level = 0
           /\ pc[t] = "reply" => loc[t].prevs[0] # Null
           /\ pc[t] = "link" => loc[t].prev # Null
           /\ pc[t] = "walk" => loc[t].level_head # Null
  BY DEF Assertions
<1>1. IndexTypeOK /\ HeadInv /\ ThreadInv
  BY DEF IndexInv
<1>2. pc[t] = "backout" => m_up[loc[t].level_head] = Null
  BY DEF IndexInv, DropInv, Dropped
<1>3. ASSUME pc[t] = "found", Down(loc[t].prev) = Null PROVE loc[t].level = 0
  <2>1. PrevOK(call[t], m_level, loc[t].level, loc[t].prev) /\ loc[t].level >= 0
    BY <1>1, <1>3, ThreadFacts DEF WalkOK, LevelOK, SearchPcs
  <2>2. loc[t].level \in Nat
    BY <1>1, <2>1, ThreadFacts
  <2> QED BY <1>1, <1>3, <2>1, <2>2, DownPrev
<1>4. ASSUME pc[t] = "reply" PROVE loc[t].prevs[0] # Null
  <2>1. EntriesOK(loc[t], call[t], live, m_level, 0)
    BY <1>1, <1>4, ThreadFacts DEF LevelOK
  <2>2. PrevOK(call[t], m_level, 0, loc[t].prevs[0])
    BY <2>1 DEF EntriesOK
  <2> QED BY <2>2, Universe DEF PrevOK
<1>5. ASSUME pc[t] = "link" PROVE loc[t].prev # Null
  <2>1. PrevOK(call[t], m_level, loc[t].level, loc[t].prev)
    BY <1>1, <1>5, ThreadFacts DEF WalkOK
  <2> QED BY <2>1, Universe DEF PrevOK
<1>6. pc[t] = "walk" => loc[t].level_head # Null
  BY <1>1, ThreadFacts DEF LevelOK, SearchPcs
<1> QED BY <1>2, <1>3, <1>4, <1>5, <1>6

(* A step of the index is a step of its promise.                           *)
LEMMA PromiseStep ==
  ASSUME IndexInv, [Next]_vars
  PROVE  [spec!Next]_(spec!vars)
<1>1. ASSUME NEW t \in Threads, Call(t) PROVE [spec!Next]_(spec!vars)
  <2>1. IndexTypeOK /\ pc[t] = "idle" /\ answer' = answer
    BY <1>1, CallShape DEF IndexInv
  <2>2. call[t] = NoCall
    BY <2>1 DEF IndexInv, ClientInv
  <2>3. CASE UNCHANGED <<call, live, offered>>
    BY <2>1, <2>3 DEF spec!vars
  <2>4. ASSUME NEW c \in AnyCall \ {NoCall}, c.op = "getPred" => c.key \in AskedKeys, Makes(t, c)
        PROVE  spec!Next
    <3>1. CASE c.op = "add"
      <4>1. c = add(c.node) /\ c.node \in Nodes
        BY <3>1, CallFields
      <4>2. spec!CallAdd(t, c.node)
        BY <2>1, <2>2, <2>4, <3>1, <4>1 DEF Makes, spec!CallAdd, spec!NoCall, spec!add, add, NoCall
      <4> QED BY <4>1, <4>2 DEF spec!Next
    <3>2. CASE c.op = "remove"
      <4>1. c = remove(c.node) /\ c.node \in Nodes
        BY <3>2, CallFields
      <4>2. spec!CallRemove(t, c.node)
        BY <2>1, <2>2, <2>4, <3>2, <4>1 DEF Makes, spec!CallRemove, spec!NoCall, spec!remove, remove, NoCall
      <4> QED BY <4>1, <4>2 DEF spec!Next
    <3>3. CASE c.op = "getPred"
      <4>1. c = getPred(c.key) /\ c.key \in AskedKeys
        BY <2>4, <3>3, CallFields
      <4>2. spec!CallGetPred(t, c.key)
        BY <2>1, <2>2, <2>4, <3>3, <4>1
           DEF Makes, spec!CallGetPred, spec!NoCall, spec!getPred, getPred, NoCall
      <4> QED BY <4>1, <4>2 DEF spec!Next
    <3> QED BY <3>1, <3>2, <3>3, CallFields
  <2> QED BY <1>1, <2>1, <2>3, <2>4, CallShape
<1>2. ASSUME NEW t \in Threads, InCall(t) PROVE [spec!Next]_(spec!vars)
  <2>1. IndexTypeOK /\ ClientInv /\ Shape(t)
    BY <1>2, InCallShape DEF IndexInv
  <2>2. CASE call' = call /\ answer' = answer
    BY <2>1, <2>2 DEF Shape, spec!vars
  <2>3. CASE Leave(t)
    <3>1. /\ live' = live /\ offered' = offered /\ call' = [call EXCEPT ![t] = NoCall]
          /\ call[t] # NoCall /\ call' # call
      BY <2>1, <2>3 DEF Shape, Leave, ClientInv, IndexTypeOK
    <3>2. CASE call[t].op = "getPred"
      <4>1. PICK n \in {head} \cup {m \in live : Key[m] < call[t].key} :
              answer' = [answer EXCEPT ![t] = n]
        BY <1>2, <3>1, <3>2, ReplyAnswer
      <4>2. n \in spec!Predecessors(call[t].key)
        BY <2>1 DEF spec!Predecessors, IndexTypeOK
      <4>3. spec!Return(t)
        BY <3>1, <3>2, <4>1, <4>2 DEF spec!Return, spec!NoCall, NoCall
      <4> QED BY <4>3 DEF spec!Next
    <3>3. CASE call[t].op # "getPred"
      <4>1. answer' = answer
        BY <1>2, <3>3, ReplyAnswer
      <4>2. spec!Return(t)
        BY <3>1, <3>3, <4>1 DEF spec!Return, spec!NoCall, NoCall
      <4> QED BY <4>2 DEF spec!Next
    <3> QED BY <3>2, <3>3
  <2> QED BY <2>1, <2>2, <2>3 DEF Shape
<1>3. CASE UNCHANGED vars
  BY <1>3 DEF vars, shared, client, spec!vars
<1> QED BY <1>1, <1>2, <1>3 DEF Next, Finished

(* Type correctness: links lead from index nodes to index nodes of list    *)
(* nodes, heads to heads, and live nodes were offered to add.              *)
THEOREM IndexTypes == Spec => []IndexTypeOK
<1>1. IndexInv => IndexTypeOK
  BY DEF IndexInv
<1> QED BY <1>1, IndexInvariant, PTL

(* Whatever calls of add, remove and getPred run at the same time, right   *)
(* links stay in their level and lead to larger keys; only the entry of a  *)
(* deleted node may stand in front of another one with its key.            *)
THEOREM LevelsStaySorted == Spec => []LevelsSorted
<1>1. IndexInv => LevelsSorted
  BY DEF IndexInv
<1> QED BY <1>1, IndexInvariant, PTL

(* The heads from m_head_top down to m_head_bottom are linked both ways,   *)
(* one level apart, whatever tryReduceLevel and add do to the top level.   *)
THEOREM HeadsStayLinked == Spec => []HeadsLinked
<1>1. IndexInv => HeadsLinked
  BY InvHeads
<1> QED BY <1>1, IndexInvariant, PTL

(* The assertions of levelUp, findInsertionPoints and findPredecessor do   *)
(* not fail, and add and walkLevel never follow an empty pointer.          *)
THEOREM AssertionsHold == Spec => []Assertions
<1>1. IndexInv => Assertions
  BY InvAssertions
<1> QED BY <1>1, IndexInvariant, PTL

(* The safety half of Promise: the skip list implements IndexSpec, step by *)
(* step.  A search answers with the head or with a node that is live at    *)
(* that moment and lies to the left of the key, and no other step of any   *)
(* call is visible to the list.                                            *)
THEOREM IndexKeepsPromise == Spec => spec!Init /\ [][spec!Next]_(spec!vars)
<1>1. Init => spec!Init
  BY DEF Init, spec!Init, spec!NoCall, NoCall
<1>2. IndexInv /\ [Next]_vars => [spec!Next]_(spec!vars)
  BY PromiseStep
<1> QED BY <1>1, <1>2, IndexInvariant, PTL DEF Spec

=============================================================================
