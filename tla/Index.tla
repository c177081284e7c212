-------------------------------- MODULE Index --------------------------------
(***************************************************************************)
(* The concurrent skip list of nodes/Index.h.  Levels of index nodes lie   *)
(* above the list; HeadIndex objects start the levels and are linked up    *)
(* and down.  add, remove and getPred walk without locks and change links  *)
(* by casRight and casHead, which compare and store under a mutex.         *)
(*                                                                         *)
(* A step is at most one access to shared memory: a link, a node's m_val,  *)
(* or one casRight or casHead.  The exceptions are remove's look at        *)
(* m_head_top->m_right, which tryReduceLevel repeats, and stores to index  *)
(* nodes no other thread can reach yet.                                    *)
(*                                                                         *)
(* The client is the list: it links a node and calls add, or clears the    *)
(* value of a node and calls remove, or looks for a predecessor.           *)
(***************************************************************************)
EXTENDS Integers, Sequences, FiniteSets

CONSTANTS
  Threads, Nodes, head, Null,
  Key,       \* Key[n], for the nodes and the head
  MaxLevel,  \* bound on the levels of a node
  MaxHeads,  \* bound on the HeadIndex objects
  Starts,    \* index states to start from: [top, tower], tower[n] the highest
             \* level of n or -1 when n is not there
  Calls      \* Calls[t][i]: the calls thread t draws its i-th one from

Min(a, b) == IF a < b THEN a ELSE b
Levels    == 0 .. MaxLevel

(* An index node of n at level i is <<n, i>>; HeadIndex objects are        *)
(* numbered in order of creation, and the first one is m_head_bottom.      *)
HeadIndex   == {head} \X (0 .. MaxHeads)
IndexNode   == HeadIndex \cup (Nodes \X Levels)
IndexOrNull == IndexNode \cup {Null}
m_head_bottom == <<head, 0>>

ASSUME KeyAssumption ==
  /\ head \notin Nodes /\ Null \notin IndexNode
  /\ Key \in [Nodes \cup {head} -> Int]
  /\ \A n \in Nodes : Key[head] < Key[n]
ASSUME BoundAssumption == MaxLevel \in Nat /\ MaxHeads \in Nat
ASSUME StartAssumption ==
  \A s \in Starts : /\ s.top \in 0 .. Min(MaxHeads, MaxLevel)
                    /\ s.tower \in [Nodes -> -1 .. s.top]
                    /\ \A m, n \in Nodes : /\ s.tower[m] >= 0 /\ s.tower[n] >= 0
                                           /\ m # n
                                           => Key[m] # Key[n]

(* The calls of the public members.                                        *)
NoCall     == [op |-> "none"]
add(n)     == [op |-> "add", node |-> n]
remove(n)  == [op |-> "remove", node |-> n]
getPred(k) == [op |-> "getPred", key |-> k]

AllCalls   == UNION UNION {{Calls[t][i] : i \in DOMAIN Calls[t]} : t \in Threads}
AskedKeys  == {c.key : c \in {d \in AllCalls : d.op = "getPred"}}

ASSUME CallsAssumption ==
  /\ \A t \in Threads : Calls[t] \in Seq(SUBSET AllCalls)
  /\ \A c \in AllCalls : \/ \E n \in Nodes : c \in {add(n), remove(n)}
                         \/ c = getPred(c.key) /\ c.key \in Int

VARIABLES
  live, offered,         \* nodes with a value; nodes handed to add
  m_right,               \* the right link of every index node
  m_level, m_down, m_up, \* of every HeadIndex; level -1: not created yet
  m_head_top,
  pc, call, answer,
  done,                  \* calls made so far
  loc,                   \* the local variables of the call
  overlap,               \* nodes that were deleted while add was busy with them
  raced                  \* a link or unlink of the bottom level went through
                         \* although what it had looked at had changed

shared  == <<live, offered, m_right, m_level, m_down, m_up, m_head_top>>
links   == <<m_right, m_level, m_down, m_up, m_head_top>>
client  == <<call, answer, done, overlap, raced>>
vars    == <<shared, pc, client, loc>>

(* The refinement mapping: the promise speaks of the client's variables.   *)
spec == INSTANCE IndexSpec WITH live <- live, offered <- offered, call <- call,
                                answer <- answer, SearchKeys <- AskedKeys

(* is_deleted() is false of every wrapper: only the value tells.           *)
Alive(x)  == x[1] = head \/ x[1] \in live
KeyOf(x)  == Key[x[1]]
LevelOf(x) == IF x \in HeadIndex THEN m_level[x] ELSE x[2]
Down(x)   == IF x \in HeadIndex THEN m_down[x]
             ELSE IF x[2] = 0 THEN Null ELSE <<x[1], x[2] - 1>>

NoLoc == [level_head |-> Null, curr |-> Null, level |-> 0, prev |-> Null,
          next |-> Null, succ |-> Null, prevs |-> <<>>, nexts |-> <<>>,
          height |-> -1, inserted |-> 0]

(* The closest index node to the right of x at level i.                    *)
StartRight(s, x, i) ==
  LET after == {n \in Nodes : s.tower[n] >= i /\ Key[n] > Key[x]}
  IN  IF after = {} THEN Null
      ELSE <<CHOOSE n \in after : \A m \in after : Key[n] <= Key[m], i>>

Init ==
  /\ \E s \in Starts :
       /\ live = {n \in Nodes : s.tower[n] >= 0}
       /\ m_head_top = <<head, s.top>>
       /\ m_level = [h \in HeadIndex |-> IF h[2] <= s.top THEN h[2] ELSE -1]
       /\ m_down  = [h \in HeadIndex |-> IF h[2] \in 1 .. s.top THEN <<head, h[2] - 1>> ELSE Null]
       /\ m_up    = [h \in HeadIndex |-> IF h[2] < s.top THEN <<head, h[2] + 1>> ELSE Null]
       /\ m_right = [x \in IndexNode |->
                       IF IF x[1] = head THEN x[2] <= s.top ELSE x[2] <= s.tower[x[1]]
                       THEN StartRight(s, x[1], x[2]) ELSE Null]
  /\ offered = live
  /\ pc     = [t \in Threads |-> "idle"]
  /\ call   = [t \in Threads |-> NoCall]
  /\ answer = [t \in Threads |-> head]
  /\ done   = [t \in Threads |-> 0]
  /\ loc    = [t \in Threads |-> NoLoc]
  /\ overlap = {}
  /\ raced = FALSE

Goto(t, l) == pc' = [pc EXCEPT ![t] = l]

SearchKey(t) == IF call[t].op = "getPred" THEN call[t].key ELSE Key[call[t].node]

Leave(t) ==
  /\ Goto(t, "idle")
  /\ call' = [call EXCEPT ![t] = NoCall]
  /\ loc' = [loc EXCEPT ![t] = NoLoc]
  /\ UNCHANGED <<done, overlap, raced>>

Exit(t) == Leave(t) /\ UNCHANGED <<shared, answer>>

-----------------------------------------------------------------------------
(* The client. *)

Applicable(c) ==
  CASE c.op = "add"     -> c.node \notin offered /\ \A n \in live : Key[n] # Key[c.node]
    [] c.op = "remove"  -> c.node \in live
    [] c.op = "getPred" -> TRUE

(* The list makes its change and calls the index; a key that is there, or  *)
(* not there, makes it return at once.                                     *)
Call(t) ==
  /\ pc[t] = "idle"
  /\ done[t] < Len(Calls[t])
  /\ done' = [done EXCEPT ![t] = @ + 1]
  /\ \E c \in Calls[t][done[t] + 1] :
       IF Applicable(c)
       THEN /\ Goto(t, "find")
            /\ call' = [call EXCEPT ![t] = c]
            /\ live' = CASE c.op = "add"    -> live \cup {c.node}
                         [] c.op = "remove" -> live \ {c.node}
                         [] OTHER           -> live
            /\ offered' = IF c.op = "add" THEN offered \cup {c.node} ELSE offered
            /\ overlap' = overlap \cup {n \in live \ live' : \E u \in Threads : call[u] = add(n)}
       ELSE UNCHANGED <<pc, call, live, offered, overlap>>
  /\ UNCHANGED <<links, answer, loc, raced>>

-----------------------------------------------------------------------------
(* findInsertionPoints: from the top level down, the last index node to    *)
(* the left of the key and its right neighbour.                            *)

FindTop(t) ==
  /\ pc[t] = "find"
  /\ loc' = [loc EXCEPT ![t] = [NoLoc EXCEPT
               !.level_head = m_head_top, !.curr = m_head_top,
               !.level = m_level[m_head_top],
               !.prevs = [i \in 0 .. m_level[m_head_top] |-> Null],
               !.nexts = [i \in 0 .. m_level[m_head_top] |-> Null]]]
  /\ Goto(t, "curr")
  /\ UNCHANGED <<shared, client>>

CheckCurr(t) ==
  /\ pc[t] = "curr"
  /\ IF Alive(loc[t].curr)
     THEN Goto(t, "walk") /\ loc' = [loc EXCEPT ![t].prev = loc[t].curr]
     ELSE Goto(t, "find") /\ UNCHANGED loc
  /\ UNCHANGED <<shared, client>>

(* walkLevel: one step to the right.                                       *)
Walk(t) ==
  /\ pc[t] = "walk"
  /\ loc' = [loc EXCEPT ![t].next = m_right[loc[t].prev]]
  /\ Goto(t, "test")
  /\ UNCHANGED <<shared, client>>

(* Mutant: the walk stops at a larger key before it looks for a value.     *)
TestKeyFirst(t) ==
  LET r == loc[t].next
      walked == IF loc[t].height < 0 THEN "found" ELSE "link"
  IN  /\ pc[t] = "test"
      /\ IF r = Null \/ SearchKey(t) <= KeyOf(r) THEN Goto(t, walked) /\ UNCHANGED loc
         ELSE IF ~Alive(r) THEN Goto(t, "unlink") /\ UNCHANGED loc
              ELSE Goto(t, "walk") /\ loc' = [loc EXCEPT ![t].prev = r]
      /\ UNCHANGED <<shared, client>>

(* The walk of a search ends at "found"; the one insert_in_level makes     *)
(* ends in another attempt to link.                                        *)
Test(t) ==
  LET r == loc[t].next
      walked == IF loc[t].height < 0 THEN "found" ELSE "link"
  IN  /\ pc[t] = "test"
      /\ IF r # Null /\ ~Alive(r) THEN Goto(t, "unlink") /\ UNCHANGED loc
         ELSE IF r # Null /\ SearchKey(t) > KeyOf(r)
              THEN Goto(t, "walk") /\ loc' = [loc EXCEPT ![t].prev = r]
              ELSE Goto(t, walked) /\ UNCHANGED loc
      /\ UNCHANGED <<shared, client>>

(* The walk starts over at the head of its level.                          *)
WalkFailed(t) ==
  /\ Goto(t, "walk")
  /\ loc' = [loc EXCEPT ![t].curr = loc[t].level_head, ![t].prev = loc[t].level_head]

(* unlink(succ): the value of the left node, succ's right link, casRight.  *)
UnlinkCheck(t) ==
  /\ pc[t] = "unlink"
  /\ IF Alive(loc[t].prev) THEN Goto(t, "succ") /\ UNCHANGED loc ELSE WalkFailed(t)
  /\ UNCHANGED <<shared, client>>

UnlinkRead(t) ==
  /\ pc[t] = "succ"
  /\ loc' = [loc EXCEPT ![t].succ = m_right[loc[t].next]]
  /\ Goto(t, "cut")
  /\ UNCHANGED <<shared, client>>

casRight(x, cmp, val) == m_right[x] = cmp /\ m_right' = [m_right EXCEPT ![x] = val]

UnlinkCas(t) ==
  LET l == loc[t]
  IN  /\ pc[t] = "cut"
      /\ \/ /\ casRight(l.prev, l.next, l.succ) /\ Goto(t, "walk") /\ UNCHANGED loc
            /\ raced' = (raced \/ (l.level = 0 /\ m_right[l.next] # l.succ))
         \/ m_right[l.prev] # l.next /\ WalkFailed(t) /\ UNCHANGED <<m_right, raced>>
      /\ UNCHANGED <<live, offered, m_level, m_down, m_up, m_head_top, call, answer, done, overlap>>

(* The level is searched; go down, or end the search.                      *)
AfterSearch(t) == CASE call[t].op = "add"     -> "build"
                    [] call[t].op = "remove"  -> "peek"
                    [] call[t].op = "getPred" -> "reply"

(* Mutant: the head of the level below is not taken along.                 *)
FoundKeepsHead(t) ==
  LET l == loc[t]
      d == Down(l.prev)
      noted == [l EXCEPT !.prevs[l.level] = l.prev, !.nexts[l.level] = l.next]
  IN  /\ pc[t] = "found"
      /\ IF ~Alive(l.prev) THEN Goto(t, "curr") /\ UNCHANGED loc
         ELSE IF d = Null THEN Goto(t, AfterSearch(t)) /\ loc' = [loc EXCEPT ![t] = noted]
         ELSE /\ Goto(t, "curr")
              /\ loc' = [loc EXCEPT ![t] = [noted EXCEPT !.curr = d, !.level = @ - 1]]
      /\ UNCHANGED <<shared, client>>

Found(t) ==
  LET l == loc[t]
      d == Down(l.prev)
      noted == [l EXCEPT !.prevs[l.level] = l.prev, !.nexts[l.level] = l.next]
  IN  /\ pc[t] = "found"
      /\ IF ~Alive(l.prev) THEN Goto(t, "curr") /\ UNCHANGED loc
         ELSE IF d = Null THEN Goto(t, AfterSearch(t)) /\ loc' = [loc EXCEPT ![t] = noted]
         ELSE /\ Goto(t, "curr")
              /\ loc' = [loc EXCEPT ![t] = [noted EXCEPT
                           !.curr = d, !.level = @ - 1, !.level_head = m_down[@]]]
      /\ UNCHANGED <<shared, client>>

-----------------------------------------------------------------------------
(* add: link the node into the existing levels, from the bottom up, then   *)
(* perhaps open one more level.                                            *)

(* The test of add's loop for level head h, and what follows it.           *)
InsertAt(t, h, l) ==
  IF h # Null /\ m_level[h] <= l.height /\ m_level[h] \in DOMAIN l.prevs
  THEN /\ Goto(t, "link")
       /\ loc' = [loc EXCEPT ![t] = [l EXCEPT
                    !.level_head = h, !.level = m_level[h],
                    !.prev = l.prevs[m_level[h]], !.next = l.nexts[m_level[h]]]]
       /\ UNCHANGED client
  ELSE IF l.inserted = l.height + 1
       THEN Leave(t) /\ UNCHANGED answer
       ELSE Goto(t, "grow") /\ loc' = [loc EXCEPT ![t] = l] /\ UNCHANGED client

(* createNewIndexNode draws the node's highest level.                      *)
Build(t) ==
  /\ pc[t] = "build"
  /\ \E h \in 0 .. Min(MaxLevel, Cardinality(DOMAIN loc[t].prevs) + 1) :
       InsertAt(t, m_head_bottom, [loc[t] EXCEPT !.height = h])
  /\ UNCHANGED shared

NewIndex(t, i) == <<call[t].node, i>>

(* link(succ, new_succ) *)
Link(t) ==
  LET l == loc[t]
  IN  /\ pc[t] = "link"
      /\ m_right' = [m_right EXCEPT ![NewIndex(t, l.level)] = l.next]
      /\ IF Alive(l.prev) THEN Goto(t, "cas") ELSE Goto(t, "failed")
      /\ UNCHANGED <<live, offered, m_level, m_down, m_up, m_head_top, client, loc>>

LinkCas(t) ==
  LET l == loc[t]
  IN  /\ pc[t] = "cas"
      /\ \/ /\ casRight(l.prev, l.next, NewIndex(t, l.level)) /\ Goto(t, "up")
            /\ raced' = (raced \/ (l.level = 0 /\ ~Alive(l.prev)))
         \/ m_right[l.prev] # l.next /\ Goto(t, "failed") /\ UNCHANGED <<m_right, raced>>
      /\ UNCHANGED <<live, offered, m_level, m_down, m_up, m_head_top, call, answer, done, overlap,
                     loc>>

(* insert_in_level after a failed link: a node that has a value is given   *)
(* up, one that has none is tried again.                                   *)
LinkFailed(t) ==
  /\ pc[t] = "failed"
  /\ IF call[t].node \in live
     THEN Exit(t)
     ELSE /\ Goto(t, "walk")
          /\ loc' = [loc EXCEPT ![t].prev = loc[t].level_head]
          /\ UNCHANGED <<shared, client>>

NextLevel(t) ==
  /\ pc[t] = "up"
  /\ InsertAt(t, m_up[loc[t].level_head], [loc[t] EXCEPT !.inserted = @ + 1])
  /\ UNCHANGED shared

(* The levels may have changed meanwhile.                                  *)
Grow(t) ==
  LET old == m_level[m_head_top]
  IN  /\ pc[t] = "grow"
      /\ IF old <= loc[t].inserted /\ old < loc[t].height
         THEN /\ Goto(t, "raise")
              /\ loc' = [loc EXCEPT ![t].level_head = m_head_top]
              /\ UNCHANGED <<shared, client>>
         ELSE Exit(t)

(* HeadIndex objects created so far, and the next one.                     *)
NewHead == <<head, Cardinality({h \in HeadIndex : m_level[h] >= 0})>>

(* casHead(head, newh, true), levelUp                                      *)
Raise(t) ==
  LET h == loc[t].level_head
      i == m_level[h] + 1
  IN  /\ pc[t] = "raise"
      /\ \/ /\ m_head_top = h
            /\ NewHead \in HeadIndex
            /\ m_level' = [m_level EXCEPT ![NewHead] = i]
            /\ m_down' = [m_down EXCEPT ![NewHead] = h]
            /\ m_right' = [m_right EXCEPT ![NewHead] = NewIndex(t, i)]
            /\ m_up' = [m_up EXCEPT ![h] = NewHead]
            /\ m_head_top' = NewHead
         \/ /\ m_head_top # h
            /\ UNCHANGED links
      /\ Leave(t)
      /\ UNCHANGED <<live, offered, answer>>

-----------------------------------------------------------------------------
(* remove: the search has unlinked the node; perhaps close a level.        *)

Peek(t) ==
  /\ pc[t] = "peek"
  /\ IF m_right[m_head_top] = Null
     THEN Goto(t, "reduce") /\ UNCHANGED <<shared, client, loc>>
     ELSE Exit(t)

(* tryReduceLevel: three top levels that look empty, from e up to h.       *)
Reduce(t) ==
  /\ pc[t] = "reduce"
  /\ IF m_level[m_head_top] >= 3
     THEN /\ Goto(t, "empty")
          /\ loc' = [loc EXCEPT ![t].level_head = m_head_top,
                                ![t].curr = m_down[m_down[m_head_top]]]
          /\ UNCHANGED <<shared, client>>
     ELSE Exit(t)

LooksEmpty(t) ==
  LET h == loc[t].level_head
      d == m_down[h]
  IN  /\ pc[t] = "empty"
      /\ IF m_right[loc[t].curr] # Null THEN Exit(t)
         ELSE /\ IF loc[t].curr = h THEN Goto(t, "lower") /\ UNCHANGED loc
                 ELSE /\ loc' = [loc EXCEPT ![t].curr = IF @ = d THEN h ELSE d]
                      /\ UNCHANGED pc
              /\ UNCHANGED <<shared, client>>

(* Mutant: the dropped level stays the one above.                          *)
LowerKeepUp(t) ==
  LET h == loc[t].level_head
  IN  /\ pc[t] = "lower"
      /\ IF m_head_top = h
         THEN /\ m_head_top' = m_down[h]
              /\ Goto(t, "recheck")
              /\ UNCHANGED <<live, offered, m_right, m_level, m_down, m_up, client, loc>>
         ELSE Exit(t)

(* casHead(h, d, false), levelDown                                         *)
Lower(t) ==
  LET h == loc[t].level_head
  IN  /\ pc[t] = "lower"
      /\ IF m_head_top = h
         THEN /\ m_up' = [m_up EXCEPT ![m_down[h]] = Null]
              /\ m_head_top' = m_down[h]
              /\ Goto(t, "recheck")
              /\ UNCHANGED <<live, offered, m_right, m_level, m_down, client, loc>>
         ELSE Exit(t)

Recheck(t) ==
  /\ pc[t] = "recheck"
  /\ IF m_right[loc[t].level_head] # Null
     THEN Goto(t, "backout") /\ UNCHANGED <<shared, client, loc>>
     ELSE Exit(t)

(* casHead(d, h, true), levelUp                                            *)
Backout(t) ==
  LET h == loc[t].level_head
  IN  /\ pc[t] = "backout"
      /\ IF m_head_top = m_down[h]
         THEN /\ m_up' = [m_up EXCEPT ![m_down[h]] = h]
              /\ m_head_top' = h
              /\ Leave(t)
              /\ UNCHANGED <<live, offered, m_right, m_level, m_down, answer>>
         ELSE Exit(t)

(* Mutant: the predecessor's value is not looked at again.                 *)
ReplyAnyway(t) ==
  /\ pc[t] = "reply"
  /\ answer' = [answer EXCEPT ![t] = loc[t].prevs[0][1]]
  /\ Leave(t)
  /\ UNCHANGED shared

-----------------------------------------------------------------------------
(* getPred: a predecessor that died meanwhile starts the search again.     *)
Reply(t) ==
  LET b == loc[t].prevs[0]
  IN  /\ pc[t] = "reply"
      /\ IF Alive(b)
         THEN /\ answer' = [answer EXCEPT ![t] = b[1]]
              /\ Leave(t)
              /\ UNCHANGED shared
         ELSE Goto(t, "find") /\ UNCHANGED <<shared, client, loc>>

-----------------------------------------------------------------------------
InCall(t) ==
  \/ FindTop(t) \/ CheckCurr(t) \/ Walk(t) \/ Test(t) \/ Found(t)
  \/ UnlinkCheck(t) \/ UnlinkRead(t) \/ UnlinkCas(t)
  \/ Build(t) \/ Link(t) \/ LinkCas(t) \/ LinkFailed(t) \/ NextLevel(t)
  \/ Grow(t) \/ Raise(t)
  \/ Peek(t) \/ Reduce(t) \/ LooksEmpty(t) \/ Lower(t) \/ Recheck(t) \/ Backout(t)
  \/ Reply(t)

Finished == /\ \A t \in Threads : pc[t] = "idle" /\ done[t] = Len(Calls[t])
            /\ UNCHANGED vars

Next == (\E t \in Threads : Call(t) \/ InCall(t)) \/ Finished

(* A thread inside a call is scheduled again and again; no step waits: the *)
(* mutexes are held for a comparison and a store.                          *)
Spec == Init /\ [][Next]_vars /\ \A t \in Threads : WF_vars(InCall(t))

-----------------------------------------------------------------------------
(* Right links stay in their level and lead to larger keys, in whatever    *)
(* way links, unlinks, new and dropped levels interleave: no walk goes     *)
(* astray.  Only the entry of a deleted node may stand in front of one     *)
(* with its own key: the node was deleted while add was busy with it, and  *)
(* another one with the key was added meanwhile.                           *)
LevelsSorted ==
  \A x \in IndexNode : m_right[x] # Null =>
    /\ LevelOf(x) = LevelOf(m_right[x])
    /\ KeyOf(x) <= KeyOf(m_right[x])
    /\ KeyOf(x) = KeyOf(m_right[x]) => ~Alive(x)

(* The heads from m_head_top down are linked both ways and count down to   *)
(* m_head_bottom, although levels are opened, dropped and restored by      *)
(* threads that have read m_head_top long before.                          *)
HeadsLinked ==
  /\ m_up[m_head_top] = Null
  /\ \E hs \in SUBSET HeadIndex :
       /\ m_head_top \in hs
       /\ \A h \in hs \ {m_head_bottom} :
            /\ m_down[h] \in hs
            /\ m_level[m_down[h]] = m_level[h] - 1
            /\ m_up[m_down[h]] = h
  /\ m_level[m_head_bottom] = 0

(* The assertions of levelUp, findInsertionPoints and findPredecessor      *)
(* hold, and add and findInsertionPoints never use an empty entry or head. *)
Assertions ==
  \A t \in Threads :
    /\ pc[t] = "backout" /\ m_head_top = m_down[loc[t].level_head]
         => m_up[loc[t].level_head] = Null
    /\ pc[t] = "found" /\ Alive(loc[t].prev) /\ Down(loc[t].prev) = Null => loc[t].level = 0
    /\ pc[t] = "reply" => loc[t].prevs[0] # Null
    /\ pc[t] = "link" => loc[t].prev # Null
    /\ pc[t] = "walk" => loc[t].level_head # Null

(* The skip list implements IndexSpec: a search answers with the head or   *)
(* with a live node to the left of the key, and every call returns.        *)
Promise == spec!Spec

Idle == \A t \in Threads : pc[t] = "idle"

(* The nodes the bottom level leads to.                                    *)
Indexed ==
  {n \in Nodes : \A s \in SUBSET Nodes :
     (\A m \in s \cup {head} : m_right[<<m, 0>>] = Null \/ m_right[<<m, 0>>][1] \in s)
       => n \in s}

(* "Callers rely on this side-effect of clearing indices to deleted nodes" *)
(* (findPredecessor): when no call is under way, no deleted node is left   *)
(* in the index.  It is not so, README.md, "Disagreements": the value of   *)
(* the left node, or the link of the node to skip, may change between the  *)
(* look at it and the casRight.  The entry of a live node can be lost, and *)
(* a removal that starts from it misses what it is to remove.              *)
Cleared == Idle => Indexed \subseteq live

(* What remains of it: as long as no casRight of the bottom level has gone *)
(* through like that, no deleted node is left, but one that was deleted    *)
(* while add was still busy with it.  Unlinks of neighbours, failed links  *)
(* and failed unlinks do not bring one back.                               *)
Purged == Idle /\ ~raced => Indexed \subseteq live \cup overlap
=============================================================================
