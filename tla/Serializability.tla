-------------------------- MODULE Serializability --------------------------
(***************************************************************************)
(* What the committed transactions promise: there is one order of them,    *)
(* compatible with real time, in which each operation returns what a       *)
(* sequential map would have returned, and which ends in the map the list  *)
(* holds.                                                                  *)
(***************************************************************************)
EXTENDS LinkedListTX, TLC, SequencesExt

Quiescent == \A t \in Threads : pc[t] = "idle"

(* The sequential map of the java.util.Map comments in LinkedList.h.       *)
Apply(m, o) == CASE o.op = "put"    -> [m EXCEPT ![o.key] = o.val]
                 [] o.op = "remove" -> [m EXCEPT ![o.key] = NoVal]
                 [] o.op = "get"    -> m

(* The order p obeys real time: what had ended when i began precedes i.    *)
RealTime(p) ==
  \A a, b \in DOMAIN p : p[a] <= hist[p[b]].after => a < b

(* Runs the transactions of hist in the order p; Same compares an answer   *)
(* with the one the sequential map gives.                                  *)
Replay(p, Same(_, _)) ==
  FoldLeft(LAMBDA acc, o : [ok  |-> acc.ok /\ Same(o.ret, acc.map[o.key]),
                            map |-> Apply(acc.map, o)],
           [ok |-> TRUE, map |-> InitMap],
           FlattenSeq([i \in DOMAIN hist |-> hist[p[i]].ops]))

SerializableBy(Same(_, _)) ==
  \E p \in Permutations(DOMAIN hist) :
     /\ RealTime(p)
     /\ LET end == Replay(p, Same)
        IN  end.ok /\ \A k \in DOMAIN ListMap : Same(ListMap[k], end.map[k])

SamePresence(u, v) == (u = NoVal) <=> (v = NoVal)
SameValue(u, v)    == u = v

(* Which keys are there, what every put, remove and containsKey of a       *)
(* committed transaction answered about it, and which keys the list ends   *)
(* up with, are those of a strictly serial execution.                      *)
PresenceSerializable == Quiescent => SerializableBy(SamePresence)

(* The same of the values put, get and remove return.                      *)
ValueSerializable == Quiescent => SerializableBy(SameValue)
=============================================================================
