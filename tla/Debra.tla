-------------------------------- MODULE Debra --------------------------------
(***************************************************************************)
(* The memory reclamation of the DEBRA build: guards (startOp, endOp) and  *)
(* retire of common/recordmgr/reclaimer_debra.h, as RecordMgr and the list *)
(* use them.  A retired node waits in a bag of its thread; the bags rotate *)
(* when the thread sees a new epoch, and the rotation frees an old bag.    *)
(* The epoch advances when one thread has found every thread quiescent or  *)
(* in the current epoch, one thread per guard it takes.                    *)
(*                                                                         *)
(* A step has one access to shared memory.  Announcements are relaxed      *)
(* stores, so they wait in the thread's store buffer, which only the       *)
(* compare-and-swap and the fence at the end of startOp drain for certain. *)
(*                                                                         *)
(* The client is the list: a node is in use until it is retired, once, and *)
(* a guard may reach the nodes that were in use when it began.             *)
(***************************************************************************)
EXTENDS Integers, Sequences

CONSTANTS
  NUM_PROCESSES,
  MIN_OPS_BEFORE_READ,
  Objects,
  InTransaction,  \* whether a guard may be one of several of a transaction
  MaxEpoch        \* bound: no guard starts at this epoch

NUMBER_OF_EPOCH_BAGS == 9
NUMBER_OF_ALWAYS_EMPTY_EPOCH_BAGS == 3
EPOCH_INCREMENT == 2


Tids == 0 .. NUM_PROCESSES - 1
Bags == 0 .. NUMBER_OF_EPOCH_BAGS - 1
NoBag == -1

ASSUME DebraAssumption ==
  /\ NUM_PROCESSES \in Nat \ {0}
  /\ MIN_OPS_BEFORE_READ \in Nat \ {0}
  /\ InTransaction \in BOOLEAN
  /\ MaxEpoch \in Nat

VARIABLES
  epoch,
  announcedEpoch, localvar_announcedEpoch,
  buffer,        \* announcements on their way to announcedEpoch
  epochbags, index, currentBag,
  checked, opsSinceRead,
  pc,
  retired, freed,
  refs,          \* the nodes the guard of a thread may reach
  entered,       \* the epoch when the guard of a thread began
  kept,          \* nodes in the read and write set of a thread's transaction
  running        \* FALSE once the reclaimer is destroyed

data == <<announcedEpoch, localvar_announcedEpoch, buffer, epochbags, index,
          currentBag, checked, opsSinceRead>>
use  == <<retired, freed, refs, entered, kept>>
vars == <<epoch, data, pc, use, running>>

QUIESCENT(ann)  == ann % 2 = 1
BITS_EPOCH(ann) == ann - (ann % 2)
GET_WITH_QUIESCENT(ann) == BITS_EPOCH(ann) + 1

(* Mutant: the threads start without the quiescent bit.                    *)
InitialAnnouncementPlain == 0

(* What the constructor announces for every thread.                        *)
InitialAnnouncement == GET_WITH_QUIESCENT(0)

(* The constructor, and initThread of every thread.  initThread takes      *)
(* currentBag from epochbags before it fills epochbags.                    *)
Init ==
  /\ epoch = 0
  /\ announcedEpoch = [t \in Tids |-> InitialAnnouncement]
  /\ localvar_announcedEpoch = [t \in Tids |-> InitialAnnouncement]
  /\ buffer = [t \in Tids |-> <<>>]
  /\ epochbags = [t \in Tids |-> [b \in Bags |-> {}]]
  /\ index = [t \in Tids |-> 0]
  /\ currentBag = [t \in Tids |-> NoBag]
  /\ checked = [t \in Tids |-> 0]
  /\ opsSinceRead = [t \in Tids |-> 0]
  /\ pc = [t \in Tids |-> "out"]
  /\ retired = {}
  /\ freed = {}
  /\ refs = [t \in Tids |-> {}]
  /\ entered = [t \in Tids |-> 0]
  /\ kept = [t \in Tids |-> {}]
  /\ running = TRUE

Goto(t, l) == pc' = [pc EXCEPT ![t] = l]

-----------------------------------------------------------------------------
(* Mutant: the scan of the last epoch goes on.                             *)
ReadEpochKeepScan(t) ==
  /\ running
  /\ pc[t] = "out"
  /\ epoch < MaxEpoch
  /\ localvar_announcedEpoch' = [localvar_announcedEpoch EXCEPT ![t] = epoch]
  /\ Goto(t, IF epoch # localvar_announcedEpoch[t] THEN "rotate" ELSE "announce")
  /\ UNCHANGED <<epoch, announcedEpoch, buffer, epochbags, index, currentBag, checked,
                 opsSinceRead, use, running>>

(* startOp: read the epoch; a new one means to start a new scan and to     *)
(* rotate the bags.                                                        *)
ReadEpoch(t) ==
  /\ running
  /\ pc[t] = "out"
  /\ epoch < MaxEpoch
  /\ localvar_announcedEpoch' = [localvar_announcedEpoch EXCEPT ![t] = epoch]
  /\ IF epoch # localvar_announcedEpoch[t]
     THEN /\ checked' = [checked EXCEPT ![t] = 0]
          /\ Goto(t, "rotate")
     ELSE /\ Goto(t, "announce")
          /\ UNCHANGED checked
  /\ UNCHANGED <<epoch, announcedEpoch, buffer, epochbags, index, currentBag,
                 opsSinceRead, use, running>>

(* Mutant: the freed bag is not emptied.                                   *)
RotateKeepBag(t) ==
  LET nextIndex == (index[t] + 1) % NUMBER_OF_EPOCH_BAGS
      freeable  == (nextIndex + NUMBER_OF_ALWAYS_EMPTY_EPOCH_BAGS) % NUMBER_OF_EPOCH_BAGS
  IN  /\ pc[t] = "rotate"
      /\ freed' = freed \cup epochbags[t][freeable]
      /\ index' = [index EXCEPT ![t] = nextIndex]
      /\ currentBag' = [currentBag EXCEPT ![t] = nextIndex]
      /\ Goto(t, "announce")
      /\ UNCHANGED <<epoch, announcedEpoch, localvar_announcedEpoch, buffer, epochbags,
                     checked, opsSinceRead, retired, refs, entered, kept, running>>

(* rotateEpochBags; the pool frees the whole bag.                          *)
RotateEpochBags(t) ==
  LET nextIndex == (index[t] + 1) % NUMBER_OF_EPOCH_BAGS
      freeable  == (nextIndex + NUMBER_OF_ALWAYS_EMPTY_EPOCH_BAGS) % NUMBER_OF_EPOCH_BAGS
  IN  /\ pc[t] = "rotate"
      /\ freed' = freed \cup epochbags[t][freeable]
      /\ epochbags' = [epochbags EXCEPT ![t][freeable] = {}]
      /\ index' = [index EXCEPT ![t] = nextIndex]
      /\ currentBag' = [currentBag EXCEPT ![t] = nextIndex]
      /\ Goto(t, "announce")
      /\ UNCHANGED <<epoch, announcedEpoch, localvar_announcedEpoch, buffer, checked,
                     opsSinceRead, retired, refs, entered, kept, running>>

(* A store waits for a place in the buffer: endOp's and startOp's fit.     *)
BufferSize == 2
Store(t, word) == /\ Len(buffer[t]) < BufferSize
                  /\ buffer' = [buffer EXCEPT ![t] = Append(@, word)]

(* The announcement; every MIN_OPS_BEFORE_READ-th call goes on to scan.    *)
Announce(t) ==
  LET ops == opsSinceRead[t] + 1
  IN  /\ pc[t] = "announce"
      /\ Store(t, localvar_announcedEpoch[t])
      /\ \/ /\ ops = MIN_OPS_BEFORE_READ
            /\ opsSinceRead' = [opsSinceRead EXCEPT ![t] = 0]
            /\ Goto(t, "scan")
         \/ /\ ops # MIN_OPS_BEFORE_READ
            /\ opsSinceRead' = [opsSinceRead EXCEPT ![t] = ops]
            /\ Goto(t, "fence")
      /\ UNCHANGED <<epoch, announcedEpoch, localvar_announcedEpoch, epochbags, index,
                     currentBag, checked, use, running>>

(* A thread sees its own buffered stores.                                  *)
Load(t, other) == IF other = t /\ buffer[t] # <<>> THEN buffer[t][Len(buffer[t])]
                  ELSE announcedEpoch[other]

Scan(t) ==
  LET otherAnnounce == Load(t, checked[t])
  IN  /\ pc[t] = "scan"
      /\ \/ /\ BITS_EPOCH(otherAnnounce) = localvar_announcedEpoch[t] \/ QUIESCENT(otherAnnounce)
            /\ checked' = [checked EXCEPT ![t] = @ + 1]
            /\ Goto(t, IF checked[t] + 1 >= NUM_PROCESSES THEN "cas" ELSE "fence")
         \/ /\ BITS_EPOCH(otherAnnounce) # localvar_announcedEpoch[t] /\ ~QUIESCENT(otherAnnounce)
            /\ Goto(t, "fence")
            /\ UNCHANGED checked
      /\ UNCHANGED <<epoch, announcedEpoch, localvar_announcedEpoch, buffer, epochbags,
                     index, currentBag, opsSinceRead, use, running>>

(* The compare-and-swap drains the buffer.                                 *)
AdvanceEpoch(t) ==
  /\ pc[t] = "cas"
  /\ buffer[t] = <<>>
  /\ epoch' = IF epoch = localvar_announcedEpoch[t] THEN epoch + EPOCH_INCREMENT ELSE epoch
  /\ Goto(t, "fence")
  /\ UNCHANGED <<data, use, running>>

(* Mutant: the fence is missing.                                           *)
EnterNoFence(t) ==
  /\ pc[t] = "fence"
  /\ Goto(t, "in")
  /\ refs' = [refs EXCEPT ![t] = Objects \ retired]
  /\ entered' = [entered EXCEPT ![t] = epoch]
  /\ UNCHANGED <<epoch, data, retired, freed, kept, running>>

(* RecordManagerSet::startOp ends with a fence; the guard is in place.     *)
Enter(t) ==
  /\ pc[t] = "fence"
  /\ buffer[t] = <<>>
  /\ Goto(t, "in")
  /\ refs' = [refs EXCEPT ![t] = Objects \ retired]
  /\ entered' = [entered EXCEPT ![t] = epoch]
  /\ UNCHANGED <<epoch, data, retired, freed, kept, running>>

(* The guard of t has retired a node it could reach.                       *)
HasRetired(t) == \E b \in Bags : epochbags[t][b] \cap refs[t] # {}

(* endOp.  A transaction goes on with what it noted in its sets, or ends.  *)
(* TXend and a removal outside a transaction are the guards that retire,   *)
(* and nothing goes on after them.                                         *)
EndOp(t) ==
  /\ pc[t] = "in"
  /\ Store(t, GET_WITH_QUIESCENT(localvar_announcedEpoch[t]))
  /\ Goto(t, "out")
  /\ \/ /\ InTransaction /\ ~HasRetired(t)
        /\ kept' = [kept EXCEPT ![t] = @ \cup refs[t]]
     \/ kept' = [kept EXCEPT ![t] = {}]
  /\ refs' = [refs EXCEPT ![t] = {}]
  /\ entered' = [entered EXCEPT ![t] = 0]
  /\ UNCHANGED <<epoch, announcedEpoch, localvar_announcedEpoch, epochbags, index,
                 currentBag, checked, opsSinceRead, retired, freed, running>>

(* The oldest buffered store reaches memory.                               *)
Flush(t) ==
  /\ buffer[t] # <<>>
  /\ announcedEpoch' = [announcedEpoch EXCEPT ![t] = Head(buffer[t])]
  /\ buffer' = [buffer EXCEPT ![t] = Tail(@)]
  /\ UNCHANGED <<epoch, localvar_announcedEpoch, epochbags, index, currentBag, checked,
                 opsSinceRead, pc, use, running>>

(* A thread that has had a guard: handle_abort retires outside any.        *)
Started(t) == localvar_announcedEpoch[t] # GET_WITH_QUIESCENT(0)

(* handle_abort retires what the transaction was to add, and nobody else   *)
(* knows those nodes.                                                      *)
OthersKnow(t, o) == \E u \in Tids \ {t} : o \in refs[u] \cup kept[u]

(* The sets are cleared with it, in TXend and in handle_abort alike.       *)
retire(t, o) ==
  /\ running
  /\ \/ pc[t] = "in"
     \/ pc[t] = "out" /\ Started(t) /\ (InTransaction => ~OthersKnow(t, o))
  /\ o \notin retired
  /\ retired' = retired \cup {o}
  /\ epochbags' = [epochbags EXCEPT ![t][currentBag[t]] = @ \cup {o}]
  /\ kept' = [kept EXCEPT ![t] = {}]
  /\ UNCHANGED <<epoch, announcedEpoch, localvar_announcedEpoch, buffer, index, currentBag,
                 checked, opsSinceRead, pc, freed, refs, entered, running>>

(* The destructor, after the threads are joined, empties all bags.         *)
Destroy ==
  /\ running
  /\ \A t \in Tids : pc[t] = "out" /\ buffer[t] = <<>>
  /\ running' = FALSE
  /\ freed' = freed \cup UNION {epochbags[t][b] : t \in Tids, b \in Bags}
  /\ epochbags' = [t \in Tids |-> [b \in Bags |-> {}]]
  /\ UNCHANGED <<epoch, announcedEpoch, localvar_announcedEpoch, buffer, index, currentBag,
                 checked, opsSinceRead, pc, retired, refs, entered, kept>>

Finished == ~running /\ UNCHANGED vars

Step(t) == \/ ReadEpoch(t) \/ RotateEpochBags(t) \/ Announce(t) \/ Scan(t)
           \/ AdvanceEpoch(t) \/ Enter(t) \/ EndOp(t) \/ Flush(t)
           \/ \E o \in Objects : retire(t, o)

Next == (\E t \in Tids : Step(t)) \/ Destroy \/ Finished

Spec == Init /\ [][Next]_vars

-----------------------------------------------------------------------------
(* A node that was in use when a guard began is not freed before the guard *)
(* ends, however stale the announcement of the guard was, and although     *)
(* other threads scan, advance the epoch and rotate meanwhile.             *)
GuardProtects == \A t \in Tids : pc[t] = "in" => refs[t] \cap freed = {}

(* The scan stays inside threadData: a thread that has checked everyone    *)
(* sees a new epoch before it scans again.                                 *)
ScanInBounds == \A t \in Tids : pc[t] = "scan" => checked[t] < NUM_PROCESSES

(* A retired node is in one bag or freed, never both and never in two: no  *)
(* leak and no double free, through rotations and the destructor.          *)
Accounted ==
  /\ \A o \in retired : o \in freed \/ \E t \in Tids, b \in Bags : o \in epochbags[t][b]
  /\ \A t \in Tids, b \in Bags : epochbags[t][b] \cap freed = {}
  /\ \A t \in Tids, b \in Bags : epochbags[t][b] # {} =>
       \A u \in Tids, c \in Bags :
         epochbags[t][b] \cap epochbags[u][c] # {} => t = u /\ b = c

(* A thread that may retire has a bag, although initThread leaves it none. *)
HasBag == \A t \in Tids : pc[t] = "in" \/ (pc[t] = "out" /\ Started(t))
                            => currentBag[t] = index[t]

(* What the documentation asks of the list (README.md, "Disagreements"): a *)
(* guard only meets nodes that are not freed, the transaction's sets       *)
(* included.                                                               *)
SetsProtected == \A t \in Tids : pc[t] = "in" => kept[t] \cap freed = {}
=============================================================================
