------------------------------- MODULE LNode -------------------------------
(***************************************************************************)
(* The memory every thread of the library shares: the nodes of one sorted  *)
(* linked list (nodes/LNode.h), the global version clock (TX.h), and, seen *)
(* through what the list relies on, the skip-list index (nodes/Index.h)    *)
(* and the record manager (nodes/record_mgr.h).                            *)
(*                                                                         *)
(* A node's m_version_mask is one 64-bit atomic word that packs a version  *)
(* and three flags.  It is kept here as a record with the same four        *)
(* fields: every operation of LNode.h loads the word once and stores it at *)
(* most once, so what a thread can observe is a whole word.                *)
(***************************************************************************)
EXTENDS Naturals, FiniteSets

CONSTANTS
  Threads,   \* the threads that call the library
  Nodes,     \* the nodes that can be allocated (bounds the allocations)
  head,      \* the list's dummy head node
  Null,      \* the null LNodeWrapper
  Keys,      \* the keys the clients use
  Vals,      \* the values the clients store
  NoVal,     \* NULLOPT, the absent Optional
  InitKey    \* the preloaded list: a function from some Nodes to their keys

AllNodes   == Nodes \cup {head}
NodeOrNull == AllNodes \cup {Null}
ValOrNone  == Vals \cup {NoVal}

(* numeric_limits<key_t>::min(), the key of the head *)
HeadKey == 0

ASSUME NodesAssumption == /\ head \notin Nodes
                          /\ Null \notin AllNodes
ASSUME ValsAssumption  == NoVal \notin Vals /\ Vals # {}
ASSUME KeysAssumption  == Keys \subseteq Nat
ASSUME InitAssumption  ==
  /\ DOMAIN InitKey \subseteq Nodes
  /\ InitKey \in [DOMAIN InitKey -> Nat]
  /\ \A m, n \in DOMAIN InitKey : InitKey[m] = InitKey[n] => m = n

VARIABLES
  m_key,           \* LNode::m_key
  m_val,           \* LNode::m_val
  m_next,          \* LNode::m_next
  m_version_mask,  \* LNode::m_version_mask
  gvc,             \* TX::gvc
  index,           \* the list nodes linked into LinkedList::index
  allocated,       \* nodes handed out by RecordMgr::get_new_node
  retired,         \* nodes handed to RecordMgr::retire_node
  crashed          \* a failed assert or a null dereference ends the process

nodeVars == <<m_key, m_val, m_next, allocated>>
lnodeVars == <<nodeVars, m_version_mask, gvc, index, retired, crashed>>

Word == [ver : Nat, lock : BOOLEAN, del : BOOLEAN, sing : BOOLEAN]
FreshWord == [ver |-> 0, lock |-> FALSE, del |-> FALSE, sing |-> FALSE]

Faults == {"none", "assert", "null"}

-----------------------------------------------------------------------------
(* The operations of LNode.h on the version word. *)

isLocked(n)    == m_version_mask[n].lock
isDeleted(n)   == m_version_mask[n].del
isSingleton(n) == m_version_mask[n].sing
getVersion(n)  == m_version_mask[n].ver
isLockedOrDeleted(n) == isLocked(n) \/ isDeleted(n)

isSameVersionAndSingleton(n, v) == isSingleton(n) /\ getVersion(n) = v

(* Mutant: tests the lock bit and forgets to set it.                       *)
tryLockTestOnly(n) == ~isLocked(n) /\ UNCHANGED m_version_mask

(* tryLock loads the word, gives up if the lock bit is set, and sets it by *)
(* compare-and-swap.  The swap fails only when the word changed after the  *)
(* load, and words are changed under the lock: the failure is the one of a *)
(* tryLock that met the other thread's lock bit, so load and swap are one  *)
(* step that succeeds exactly when the node is not locked.                 *)
tryLock(n) == ~isLocked(n) /\ m_version_mask' = [m_version_mask EXCEPT ![n].lock = TRUE]

(* unlock and the setters assert that the node is locked.  They are meant  *)
(* to be called by the owner of the lock, and then load, assert and store  *)
(* are one step.                                                           *)
StoreLocked(n, w) ==
  IF isLocked(n)
  THEN m_version_mask' = [m_version_mask EXCEPT ![n] = w] /\ UNCHANGED crashed
  ELSE crashed' = "assert" /\ UNCHANGED m_version_mask

unlock(n) == StoreLocked(n, [m_version_mask[n] EXCEPT !.lock = FALSE])

-----------------------------------------------------------------------------
(* What the list asks of the index.  getPred(k) returns the head or a      *)
(* linked node with a smaller key whose value is present when it is        *)
(* looked at.  It need not be the closest one: add may give up on a level, *)
(* and the walk is not atomic.                                             *)
getPred(k) ==
  {head} \cup {n \in index : m_val[n] # NoVal /\ m_key[n] < k}

(* n comes before every node that holds key k or more. *)
Before(n, k) == n = head \/ m_key[n] < k

(* A link from n to s keeps the list strictly sorted; the head takes any   *)
(* successor because keys equal to HeadKey are legal.                      *)
Ascending(n, s) == s # Null => s # head /\ Before(n, m_key[s])

-----------------------------------------------------------------------------
(* main.cpp's init_linked_list fills the list in one transaction.  The     *)
(* clock becomes 1 and so does the version of the head, the predecessor of *)
(* the last insert; an inserted node that is never a predecessor keeps the *)
(* version 0 of its constructor, the case of keys put in descending order. *)
Preloaded == DOMAIN InitKey

KeyOf(n) == IF n \in Preloaded THEN InitKey[n] ELSE HeadKey

Above(n, m) == m \in Preloaded /\ (n = head \/ InitKey[n] < InitKey[m])

InitNext(n) ==
  IF \E m \in Preloaded : Above(n, m)
  THEN CHOOSE m \in Preloaded :
         Above(n, m) /\ \A o \in Preloaded : Above(n, o) => InitKey[m] <= InitKey[o]
  ELSE Null

InitVal == CHOOSE v \in Vals : TRUE

LNodeInit ==
  /\ m_key  = [n \in AllNodes |-> KeyOf(n)]
  /\ m_val  = [n \in AllNodes |-> IF n \in Preloaded \cup {head} THEN InitVal ELSE NoVal]
  /\ m_next = [n \in AllNodes |-> IF n \in Preloaded \cup {head} THEN InitNext(n) ELSE Null]
  /\ gvc = IF Preloaded = {} THEN 0 ELSE 1
  /\ m_version_mask = [n \in AllNodes |-> IF n = head THEN [FreshWord EXCEPT !.ver = gvc]
                                                      ELSE FreshWord]
  /\ index = Preloaded \cup {head}
  /\ allocated = Preloaded \cup {head}
  /\ retired = {}
  /\ crashed = "none"

LNodeTypeOK ==
  /\ m_key \in [AllNodes -> Nat]
  /\ m_val \in [AllNodes -> ValOrNone]
  /\ m_next \in [AllNodes -> NodeOrNull]
  /\ m_version_mask \in [AllNodes -> Word]
  /\ gvc \in Nat
  /\ index \subseteq allocated
  /\ allocated \subseteq AllNodes
  /\ retired \subseteq allocated
  /\ crashed \in Faults

-----------------------------------------------------------------------------
(* The nodes linked from the head: the head, and the least set of nodes    *)
(* with the successors of the head and of each member.                     *)
Linked ==
  LET closed == {S \in SUBSET Nodes :
                   \A n \in S \cup {head} : m_next[n] \in S \cup {head, Null}}
  IN  {head} \cup {n \in Nodes : \A S \in closed : n \in S}

(* LinkedList::get_size, what the benchmark reports as the actual size. *)
get_size == Cardinality(Linked) - 1

(* The map a reader of the quiescent list sees. *)
ListMap ==
  [k \in Keys \cup {InitKey[n] : n \in Preloaded} |->
     LET N == {n \in Linked \ {head} : m_key[n] = k}
     IN  IF N = {} THEN NoVal ELSE m_val[CHOOSE n \in N : TRUE]]

InitMap ==
  [k \in Keys \cup {InitKey[n] : n \in Preloaded} |->
     IF \E n \in Preloaded : InitKey[n] = k THEN InitVal ELSE NoVal]
=============================================================================
