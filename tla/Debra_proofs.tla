----------------------------- MODULE Debra_proofs -----------------------------
(***************************************************************************)
(* GuardProtects, ScanInBounds, HasBag and Accounted for every number of   *)
(* threads, every scan interval and every set of nodes.                    *)
(*                                                                         *)
(* The argument.  While a thread t is inside a guard its announcement is   *)
(* in memory, so a scan of a later epoch stops at t: the epoch is at most  *)
(* one increment ahead of the one t entered in (GuardInv).  A node t may   *)
(* reach was retired after t entered, and a thread rotates its bags only   *)
(* for a new epoch, so a bag that was rotated k times since belongs to a   *)
(* thread that has read an epoch k - 1 increments ahead of it (BagInv).    *)
(* The sixth rotation would need five; it finds no such node.              *)
(***************************************************************************)
EXTENDS Debra, SequenceTheorems, TLAPS

L == localvar_announcedEpoch

Pcs == {"out", "rotate", "announce", "scan", "cas", "fence", "in"}

DebraTypeOK ==
  /\ epoch \in Nat
  /\ announcedEpoch \in [Tids -> Nat]
  /\ localvar_announcedEpoch \in [Tids -> Nat]
  /\ buffer \in [Tids -> Seq(Nat)]
  /\ epochbags \in [Tids -> [Bags -> SUBSET Objects]]
  /\ index \in [Tids -> Bags]
  /\ currentBag \in [Tids -> Bags \cup {NoBag}]
  /\ checked \in [Tids -> Nat]
  /\ opsSinceRead \in [Tids -> Nat]
  /\ pc \in [Tids -> Pcs]
  /\ retired \in SUBSET Objects
  /\ freed \in SUBSET Objects
  /\ refs \in [Tids -> SUBSET Objects]
  /\ entered \in [Tids -> Nat]

(* A thread's copy of the epoch is an epoch it has read, or still the      *)
(* initial one; then it has no bag and has retired nothing.                *)
EpochInv ==
  /\ epoch % 2 = 0
  /\ \A t \in Tids :
       \/ /\ L[t] % 2 = 0
          /\ L[t] <= epoch
          /\ pc[t] # "rotate" => currentBag[t] = index[t]
       \/ /\ L[t] = 1
          /\ pc[t] = "out"
          /\ \A b \in Bags : epochbags[t][b] = {}

(* The announcement of the running operation is the last one stored.       *)
AnnounceInv ==
  \A t \in Tids :
    /\ pc[t] \in {"scan", "cas", "fence"} =>
         IF buffer[t] = <<>> THEN announcedEpoch[t] = L[t]
         ELSE buffer[t][Len(buffer[t])] = L[t]
    /\ pc[t] = "in" => buffer[t] = <<>> /\ announcedEpoch[t] = L[t] /\ L[t] <= entered[t]

ScanInv ==
  \A p \in Tids :
    /\ checked[p] <= NUM_PROCESSES
    /\ pc[p] \in {"rotate", "announce", "scan"} => checked[p] < NUM_PROCESSES
    /\ pc[p] \in {"fence", "in", "out"} /\ L[p] = epoch => checked[p] < NUM_PROCESSES
    /\ pc[p] = "cas" => checked[p] = NUM_PROCESSES

(* A guard holds back the epoch: nobody's scan of the next one gets past   *)
(* its thread.                                                             *)
GuardInv ==
  \A t \in Tids : pc[t] = "in" =>
    /\ entered[t] % 2 = 0
    /\ entered[t] <= epoch
    /\ epoch <= entered[t] + 2
    /\ epoch = entered[t] + 2 =>
         \A p \in Tids : L[p] = epoch => checked[p] <= t

(* Rotations since bag b was the current one, i being the current one.     *)
Dist(i, b) == IF i >= b THEN i - b ELSE i - b + 9

(* A rotation that is due is counted.                                      *)
Age(p, b) == Dist(index[p], b) + (IF pc[p] = "rotate" THEN 1 ELSE 0)

BagInv ==
  \A t, p \in Tids : pc[t] = "in" =>
    \A b \in Bags : epochbags[p][b] \cap refs[t] # {} =>
      /\ Dist(index[p], b) <= 5
      /\ Age(p, b) >= 1 => L[p] >= entered[t] + 2 * (Age(p, b) - 1)

RetiredInv ==
  /\ freed \subseteq retired
  /\ \A t \in Tids, b \in Bags : epochbags[t][b] \subseteq retired

IInv == /\ DebraTypeOK /\ EpochInv /\ AnnounceInv /\ ScanInv /\ GuardInv
        /\ BagInv /\ RetiredInv /\ GuardProtects /\ Accounted

-----------------------------------------------------------------------------
(* Arithmetic of the bag ring and of the quiescent bit.                    *)
LEMMA Ring ==
  ASSUME NEW i \in Bags
  PROVE  LET n == (i + 1) % NUMBER_OF_EPOCH_BAGS
             f == (n + NUMBER_OF_ALWAYS_EMPTY_EPOCH_BAGS) % NUMBER_OF_EPOCH_BAGS
         IN  /\ n \in Bags
             /\ f \in Bags
             /\ \A b \in Bags \ {f} : Dist(i, b) <= 5 => /\ Dist(n, b) = Dist(i, b) + 1
                                                         /\ Dist(n, b) <= 5
             /\ Dist(i, f) = 5
<1>1. i \in 0 .. 8
  BY DEF Bags, NUMBER_OF_EPOCH_BAGS
<1>2. i = 8 \/ i < 8
  BY <1>1
<1>3. (i + 1) % 9 = IF i = 8 THEN 0 ELSE i + 1
  BY <1>1
<1>4. (((i + 1) % 9) + 3) % 9 = IF i >= 5 THEN i - 5 ELSE i + 4
  BY <1>1, <1>3
<1> QED
  BY <1>1, <1>3, <1>4 DEF Dist, Bags, NUMBER_OF_EPOCH_BAGS, NUMBER_OF_ALWAYS_EMPTY_EPOCH_BAGS

(* Epochs are even: between two of them there is a whole increment.        *)
LEMMA EvenGap ==
  ASSUME NEW a \in Nat, NEW b \in Nat, a % 2 = 0, b % 2 = 0, a < b
  PROVE  a + 2 <= b
  OBVIOUS

(* An epoch carries no quiescent bit; what endOp announces does.           *)
LEMMA EvenWord ==
  ASSUME NEW a \in Nat, a % 2 = 0
  PROVE  BITS_EPOCH(a) = a /\ ~QUIESCENT(a) /\ (a + 2) % 2 = 0
  BY DEF BITS_EPOCH, QUIESCENT

(* The word the constructor announces.                                     *)
LEMMA InitialWord == GET_WITH_QUIESCENT(0) = 1
  BY DEF GET_WITH_QUIESCENT, BITS_EPOCH

(* Taking the oldest store out of a buffer leaves the youngest one last.   *)
LEMMA LastAfterTail ==
  ASSUME NEW s \in Seq(Nat), s # <<>>
  PROVE  IF Tail(s) = <<>> THEN Head(s) = s[Len(s)]
         ELSE Tail(s)[Len(Tail(s))] = s[Len(s)]
<1>1. Len(s) \in Nat /\ Len(s) # 0
  BY EmptySeq
<1>2. /\ Tail(s) \in Seq(Nat) /\ Len(Tail(s)) = Len(s) - 1
      /\ \A i \in 1 .. Len(Tail(s)) : Tail(s)[i] = s[i + 1]
      /\ Head(s) = s[1]
  BY <1>1, HeadTailProperties
<1>3. Tail(s) = <<>> <=> Len(Tail(s)) = 0
  <2>1. Tail(s) # <<>> => Len(Tail(s)) \in Nat \ {0}
    BY <1>2, EmptySeq
  <2>2. Tail(s) = <<>> => Len(Tail(s)) = 0
    <3>1. Len(<<>>) = 0
      BY EmptySeq
    <3>2. ASSUME NEW r, r = <<>> PROVE Len(r) = 0
      BY <3>1, <3>2, Zenon
    <3> QED BY <3>2, Zenon
  <2> QED BY <2>1, <2>2
<1>4. CASE Len(s) = 1
  <2>1. Tail(s) = <<>>
    BY <1>2, <1>4, <1>3
  <2> QED BY <2>1, <1>2, <1>4
<1>5. CASE Len(s) > 1
  <2>1. Len(Tail(s)) # 0 /\ Tail(s) # <<>>
    BY <1>1, <1>2, <1>5, <1>3
  <2>2. Len(Tail(s)) \in 1 .. Len(Tail(s)) /\ Len(Tail(s)) + 1 = Len(s)
    BY <1>1, <1>2, <1>5
  <2> QED BY <1>2, <2>1, <2>2
<1> QED BY <1>1, <1>4, <1>5

-----------------------------------------------------------------------------
(* What a step of t does to the data of t, and that it leaves the data of  *)
(* every other thread alone.                                               *)

Same(u) ==
  /\ pc'[u] = pc[u] /\ L'[u] = L[u] /\ checked'[u] = checked[u]
  /\ index'[u] = index[u] /\ currentBag'[u] = currentBag[u]
  /\ epochbags'[u] = epochbags[u]
  /\ buffer'[u] = buffer[u] /\ announcedEpoch'[u] = announcedEpoch[u]
  /\ entered'[u] = entered[u] /\ refs'[u] = refs[u]

(* A step of one thread leaves the fields of the others alone.             *)
LEMMA Frame ==
  ASSUME DebraTypeOK, NEW t \in Tids, Step(t), NEW u \in Tids, u # t
  PROVE  Same(u)
<1> USE DEF Same, DebraTypeOK, L, use
<1>1. CASE ReadEpoch(t)        BY <1>1 DEF ReadEpoch, Goto
<1>2. CASE RotateEpochBags(t)  BY <1>2 DEF RotateEpochBags, Goto
<1>3. CASE Announce(t)         BY <1>3 DEF Announce, Store, Goto
<1>4. CASE Scan(t)             BY <1>4 DEF Scan, Goto
<1>5. CASE AdvanceEpoch(t)     BY <1>5 DEF AdvanceEpoch, data, Goto
<1>6. CASE Enter(t)            BY <1>6 DEF Enter, data, Goto
<1>7. CASE EndOp(t)            BY <1>7 DEF EndOp, Store, Goto
<1>8. CASE Flush(t)            BY <1>8 DEF Flush
<1>9. CASE \E o \in Objects : retire(t, o)
  BY <1>9 DEF retire
<1> QED BY <1>1, <1>2, <1>3, <1>4, <1>5, <1>6, <1>7, <1>8, <1>9 DEF Step

(* What ReadEpoch does, in the terms the invariant uses.                   *)
LEMMA ReadEpochEffect ==
  ASSUME DebraTypeOK, NEW t \in Tids, ReadEpoch(t)
  PROVE  /\ pc[t] = "out" /\ L'[t] = epoch /\ epoch' = epoch
         /\ \/ epoch # L[t] /\ pc'[t] = "rotate" /\ checked'[t] = 0
            \/ epoch = L[t] /\ pc'[t] = "announce" /\ checked'[t] = checked[t]
         /\ UNCHANGED <<epochbags, index, currentBag, buffer, announcedEpoch,
                        opsSinceRead, refs, entered, retired, freed>>
  BY DEF ReadEpoch, Goto, DebraTypeOK, L, use

(* What RotateEpochBags does: one bag is emptied into freed.               *)
LEMMA RotateEffect ==
  ASSUME DebraTypeOK, NEW t \in Tids, RotateEpochBags(t)
  PROVE  LET n == (index[t] + 1) % NUMBER_OF_EPOCH_BAGS
             f == (n + NUMBER_OF_ALWAYS_EMPTY_EPOCH_BAGS) % NUMBER_OF_EPOCH_BAGS
         IN  /\ pc[t] = "rotate" /\ pc'[t] = "announce"
             /\ index'[t] = n /\ currentBag'[t] = n
             /\ freed' = freed \cup epochbags[t][f]
             /\ epochbags'[t][f] = {}
             /\ \A b \in Bags \ {f} : epochbags'[t][b] = epochbags[t][b]
             /\ UNCHANGED <<epoch, localvar_announcedEpoch, checked, buffer, announcedEpoch,
                            opsSinceRead, refs, entered, retired>>
<1>1. index[t] \in Bags
  BY DEF DebraTypeOK
<1> QED
  BY <1>1, Ring DEF RotateEpochBags, Goto, DebraTypeOK

(* What Announce does.                                                     *)
LEMMA AnnounceEffect ==
  ASSUME DebraTypeOK, NEW t \in Tids, Announce(t)
  PROVE  /\ pc[t] = "announce" /\ pc'[t] \in {"scan", "fence"}
         /\ buffer'[t] = Append(buffer[t], L[t])
         /\ UNCHANGED <<epoch, localvar_announcedEpoch, epochbags, index, currentBag, checked,
                        announcedEpoch, refs, entered, retired, freed>>
  BY DEF Announce, Store, Goto, DebraTypeOK, L, use

(* What Scan does: it passes a thread that is quiescent or up to date.     *)
LEMMA ScanEffect ==
  ASSUME DebraTypeOK, NEW t \in Tids, Scan(t)
  PROVE  LET a == Load(t, checked[t])
         IN  /\ pc[t] = "scan"
             /\ \/ /\ BITS_EPOCH(a) = L[t] \/ QUIESCENT(a)
                   /\ checked'[t] = checked[t] + 1
                   /\ pc'[t] = IF checked[t] + 1 >= NUM_PROCESSES THEN "cas" ELSE "fence"
                \/ pc'[t] = "fence" /\ checked'[t] = checked[t]
             /\ UNCHANGED <<epoch, localvar_announcedEpoch, epochbags, index, currentBag,
                            buffer, announcedEpoch, opsSinceRead, refs, entered, retired, freed>>
  BY DEF Scan, Goto, DebraTypeOK, L, use

(* What AdvanceEpoch does.                                                 *)
LEMMA AdvanceEffect ==
  ASSUME DebraTypeOK, NEW t \in Tids, AdvanceEpoch(t)
  PROVE  /\ pc[t] = "cas" /\ pc'[t] = "fence" /\ buffer[t] = <<>>
         /\ epoch' = IF epoch = L[t] THEN epoch + 2 ELSE epoch
         /\ UNCHANGED <<localvar_announcedEpoch, epochbags, index, currentBag, checked,
                        buffer, announcedEpoch, opsSinceRead, refs, entered, retired, freed>>
  BY DEF AdvanceEpoch, Goto, DebraTypeOK, L, data, use, EPOCH_INCREMENT

(* What Enter does.                                                        *)
LEMMA EnterEffect ==
  ASSUME DebraTypeOK, NEW t \in Tids, Enter(t)
  PROVE  /\ pc[t] = "fence" /\ pc'[t] = "in" /\ buffer[t] = <<>>
         /\ entered'[t] = epoch /\ refs'[t] = Objects \ retired
         /\ UNCHANGED <<epoch, localvar_announcedEpoch, epochbags, index, currentBag, checked,
                        buffer, announcedEpoch, opsSinceRead, retired, freed>>
  BY DEF Enter, Goto, DebraTypeOK, data

(* What EndOp does.                                                        *)
LEMMA EndOpEffect ==
  ASSUME DebraTypeOK, NEW t \in Tids, EndOp(t)
  PROVE  /\ pc[t] = "in" /\ pc'[t] = "out"
         /\ UNCHANGED <<epoch, localvar_announcedEpoch, epochbags, index, currentBag, checked,
                        announcedEpoch, opsSinceRead, retired, freed>>
  BY DEF EndOp, Goto, DebraTypeOK

(* What Flush does.                                                        *)
LEMMA FlushEffect ==
  ASSUME DebraTypeOK, NEW t \in Tids, Flush(t)
  PROVE  /\ buffer[t] # <<>>
         /\ announcedEpoch'[t] = Head(buffer[t]) /\ buffer'[t] = Tail(buffer[t])
         /\ UNCHANGED <<epoch, localvar_announcedEpoch, epochbags, index, currentBag, checked,
                        opsSinceRead, pc, refs, entered, retired, freed>>
  BY DEF Flush, DebraTypeOK, use

(* What retire does: the node goes into the bag with the current index.    *)
LEMMA RetireEffect ==
  ASSUME DebraTypeOK, EpochInv, NEW t \in Tids, NEW o \in Objects, retire(t, o)
  PROVE  /\ pc[t] \in {"in", "out"} /\ L[t] # 1 /\ currentBag[t] = index[t] /\ o \notin retired
         /\ epochbags'[t][index[t]] = epochbags[t][index[t]] \cup {o}
         /\ \A b \in Bags \ {index[t]} : epochbags'[t][b] = epochbags[t][b]
         /\ retired' = retired \cup {o}
         /\ UNCHANGED <<epoch, localvar_announcedEpoch, index, currentBag, checked, buffer,
                        announcedEpoch, opsSinceRead, pc, refs, entered, freed>>
<1>1. pc[t] \in {"in", "out"} /\ L[t] # 1
  BY InitialWord DEF retire, Started, EpochInv, L
<1>2. currentBag[t] = index[t]
  BY <1>1 DEF EpochInv
<1> QED
  BY <1>1, <1>2 DEF retire, DebraTypeOK

(* What the destructor does: all threads are outside, all bags go.         *)
LEMMA DestroyEffect ==
  ASSUME Destroy
  PROVE  /\ \A t \in Tids : pc[t] = "out"
         /\ \A t \in Tids : \A b \in Bags : epochbags'[t][b] = {}
         /\ freed' = freed \cup UNION {epochbags[t][b] : t \in Tids, b \in Bags}
         /\ UNCHANGED <<epoch, localvar_announcedEpoch, index, currentBag, checked, buffer,
                        announcedEpoch, opsSinceRead, pc, refs, entered, retired>>
  BY DEF Destroy

-----------------------------------------------------------------------------
(* Every invariant is preserved by every step.                             *)

(* Every step keeps the types.                                             *)
LEMMA TypeStep ==
  ASSUME DebraTypeOK, [Next]_vars
  PROVE  DebraTypeOK'
<1>1. ASSUME NEW t \in Tids, ReadEpoch(t)
      PROVE  DebraTypeOK'
  <2>1. epoch \in Nat /\ checked \in [Tids -> Nat] /\ pc \in [Tids -> Pcs]
    BY DEF DebraTypeOK
  <2>2. pc' \in [Tids -> Pcs]
    <3>1. pc' = [pc EXCEPT ![t] = "rotate"] \/ pc' = [pc EXCEPT ![t] = "announce"]
      BY <1>1 DEF ReadEpoch, Goto
    <3> QED BY <3>1, <2>1 DEF Pcs
  <2>3. checked' \in [Tids -> Nat]
    <3>1. checked' = [checked EXCEPT ![t] = 0] \/ checked' = checked
      BY <1>1 DEF ReadEpoch
    <3> QED BY <3>1, <2>1
  <2>4. localvar_announcedEpoch' \in [Tids -> Nat]
    BY <1>1 DEF ReadEpoch, DebraTypeOK
  <2> QED
    BY <1>1, <2>2, <2>3, <2>4 DEF ReadEpoch, use, DebraTypeOK
<1>2. ASSUME NEW t \in Tids, RotateEpochBags(t)
      PROVE  DebraTypeOK'
  <2> DEFINE n == (index[t] + 1) % NUMBER_OF_EPOCH_BAGS
             f == (n + NUMBER_OF_ALWAYS_EMPTY_EPOCH_BAGS) % NUMBER_OF_EPOCH_BAGS
  <2>1. n \in Bags /\ f \in Bags
    BY Ring DEF DebraTypeOK
  <2>2. /\ freed' = freed \cup epochbags[t][f]
        /\ epochbags' = [epochbags EXCEPT ![t][f] = {}]
        /\ index' = [index EXCEPT ![t] = n]
        /\ currentBag' = [currentBag EXCEPT ![t] = n]
        /\ pc' = [pc EXCEPT ![t] = "announce"]
        /\ UNCHANGED <<epoch, announcedEpoch, localvar_announcedEpoch, buffer, checked,
                       opsSinceRead, retired, refs, entered>>
    BY <1>2 DEF RotateEpochBags, Goto
  <2> HIDE DEF n, f
  <2> QED
    BY <2>1, <2>2 DEF DebraTypeOK, Pcs
<1>3. ASSUME NEW t \in Tids, Announce(t)
      PROVE  DebraTypeOK'
  <2>1. pc' \in [Tids -> Pcs]
    <3>1. pc' = [pc EXCEPT ![t] = "scan"] \/ pc' = [pc EXCEPT ![t] = "fence"]
      BY <1>3 DEF Announce, Goto
    <3> QED BY <3>1 DEF DebraTypeOK, Pcs
  <2>2. opsSinceRead' \in [Tids -> Nat]
    <3>1. opsSinceRead \in [Tids -> Nat]
      BY DEF DebraTypeOK
    <3>2. \/ opsSinceRead' = [opsSinceRead EXCEPT ![t] = 0]
          \/ opsSinceRead' = [opsSinceRead EXCEPT ![t] = opsSinceRead[t] + 1]
      BY <1>3 DEF Announce
    <3> QED BY <3>1, <3>2
  <2>3. buffer' \in [Tids -> Seq(Nat)]
    BY <1>3 DEF Announce, Store, DebraTypeOK
  <2> QED
    BY <1>3, <2>1, <2>2, <2>3 DEF Announce, use, DebraTypeOK
<1>4. ASSUME NEW t \in Tids, Scan(t)
      PROVE  DebraTypeOK'
  <2>1. pc' \in [Tids -> Pcs]
    <3>1. pc' = [pc EXCEPT ![t] = "cas"] \/ pc' = [pc EXCEPT ![t] = "fence"]
      BY <1>4 DEF Scan, Goto
    <3> QED BY <3>1 DEF DebraTypeOK, Pcs
  <2>2. checked' \in [Tids -> Nat]
    <3>1. checked \in [Tids -> Nat]
      BY DEF DebraTypeOK
    <3>2. checked' = [checked EXCEPT ![t] = checked[t] + 1] \/ checked' = checked
      BY <1>4 DEF Scan
    <3> QED BY <3>1, <3>2
  <2> QED
    BY <1>4, <2>1, <2>2 DEF Scan, use, DebraTypeOK
<1>5. ASSUME NEW t \in Tids, AdvanceEpoch(t)
      PROVE  DebraTypeOK'
  BY <1>5 DEF AdvanceEpoch, data, Goto, use, DebraTypeOK, Pcs, EPOCH_INCREMENT
<1>6. ASSUME NEW t \in Tids, Enter(t)
      PROVE  DebraTypeOK'
  BY <1>6 DEF Enter, data, Goto, DebraTypeOK, Pcs
<1>7. ASSUME NEW t \in Tids, EndOp(t)
      PROVE  DebraTypeOK'
  <2>1. GET_WITH_QUIESCENT(localvar_announcedEpoch[t]) \in Nat
    BY DEF DebraTypeOK, GET_WITH_QUIESCENT, BITS_EPOCH
  <2> QED
    BY <1>7, <2>1 DEF EndOp, Store, Goto, DebraTypeOK, Pcs
<1>8. ASSUME NEW t \in Tids, Flush(t)
      PROVE  DebraTypeOK'
  BY <1>8 DEF Flush, use, DebraTypeOK
<1>9. ASSUME NEW t \in Tids, NEW o \in Objects, retire(t, o)
      PROVE  DebraTypeOK'
  <2> DEFINE c == currentBag[t]
  <2>1. epochbags' = [epochbags EXCEPT ![t][c] = @ \cup {o}]
    BY <1>9 DEF retire
  <2>2. epochbags \in [Tids -> [Bags -> SUBSET Objects]]
    BY DEF DebraTypeOK
  <2> HIDE DEF c
  <2>3. epochbags' \in [Tids -> [Bags -> SUBSET Objects]]
    <3>1. CASE c \in Bags
      BY <2>1, <2>2, <3>1
    <3>2. CASE c \notin Bags
      <4>1. epochbags' = epochbags
        BY <2>1, <2>2, <3>2
      <4> QED BY <4>1, <2>2
    <3> QED BY <3>1, <3>2
  <2>4. retired' \in SUBSET Objects
    BY <1>9 DEF retire, DebraTypeOK
  <2> QED
    BY <1>9, <2>3, <2>4 DEF retire, DebraTypeOK
<1>10. ASSUME Destroy
       PROVE  DebraTypeOK'
  BY <1>10 DEF Destroy, DebraTypeOK
<1>11. ASSUME UNCHANGED vars
       PROVE  DebraTypeOK'
  BY <1>11 DEF vars, data, use, DebraTypeOK
<1> QED
  BY <1>1, <1>2, <1>3, <1>4, <1>5, <1>6, <1>7, <1>8, <1>9, <1>10, <1>11
  DEF Next, Step, Finished

(* The epoch only moves in AdvanceEpoch of a thread that has read it.      *)
LEMMA EpochMoves ==
  ASSUME DebraTypeOK, NEW t \in Tids, Step(t)
  PROVE  \/ epoch' = epoch
         \/ AdvanceEpoch(t) /\ epoch = L[t] /\ epoch' = epoch + 2
<1>1. CASE AdvanceEpoch(t)
  BY <1>1, AdvanceEffect
<1>2. CASE ~AdvanceEpoch(t)
  BY <1>2 DEF Step, ReadEpoch, RotateEpochBags, Announce, Scan, Enter, EndOp, Flush, retire
<1> QED BY <1>1, <1>2

(* Every step keeps EpochInv: only startOp changes the copy of the epoch.  *)
LEMMA EpochStep ==
  ASSUME DebraTypeOK, DebraTypeOK', EpochInv, [Next]_vars
  PROVE  EpochInv'
<1> DEFINE Of(u) == \/ /\ L[u] % 2 = 0
                       /\ L[u] <= epoch
                       /\ pc[u] # "rotate" => currentBag[u] = index[u]
                    \/ /\ L[u] = 1
                       /\ pc[u] = "out"
                       /\ \A b \in Bags : epochbags[u][b] = {}
<1>1. /\ epoch % 2 = 0 /\ \A u \in Tids : Of(u)
      /\ epoch \in Nat /\ epoch' \in Nat
      /\ \A u \in Tids : L[u] \in Nat /\ L'[u] \in Nat
  BY DEF EpochInv, DebraTypeOK, L
<1>2. ASSUME NEW t \in Tids, Step(t)
      PROVE  EpochInv'
  <2>1. epoch' % 2 = 0 /\ epoch <= epoch'
    BY <1>1, <1>2, EpochMoves, EvenWord
  <2>2. ASSUME NEW u \in Tids, u # t
        PROVE  Of(u)'
    <3>1. Same(u)
      BY <1>2, <2>2, Frame
    <3> QED BY <1>1, <2>1, <3>1 DEF Same, L
  <2>3. Of(t)'
    <3>1. CASE ReadEpoch(t)
      BY <1>1, <3>1, ReadEpochEffect DEF L
    <3>2. CASE RotateEpochBags(t)
      BY <1>1, <3>2, RotateEffect DEF L
    <3>3. CASE Announce(t)
      BY <1>1, <3>3, AnnounceEffect DEF L
    <3>4. CASE Scan(t)
      BY <1>1, <3>4, ScanEffect DEF L
    <3>5. CASE AdvanceEpoch(t)
      BY <1>1, <2>1, <3>5, AdvanceEffect DEF L
    <3>6. CASE Enter(t)
      BY <1>1, <3>6, EnterEffect DEF L
    <3>7. CASE EndOp(t)
      BY <1>1, <3>7, EndOpEffect DEF L
    <3>8. CASE Flush(t)
      BY <1>1, <3>8, FlushEffect DEF L
    <3>9. ASSUME NEW o \in Objects, retire(t, o)
          PROVE  Of(t)'
      BY <1>1, <3>9, RetireEffect DEF L
    <3> QED
      BY <1>2, <3>1, <3>2, <3>3, <3>4, <3>5, <3>6, <3>7, <3>8, <3>9 DEF Step
  <2> QED
    BY <2>1, <2>2, <2>3 DEF EpochInv
<1>3. CASE Destroy
  BY <1>1, <1>3, DestroyEffect DEF EpochInv, L
<1>4. CASE UNCHANGED vars
  BY <1>4 DEF vars, data, EpochInv, L
<1> QED
  BY <1>2, <1>3, <1>4 DEF Next, Finished

(* Every step keeps AnnounceInv: the fence is passed with no store left.   *)
LEMMA AnnounceStep ==
  ASSUME DebraTypeOK, DebraTypeOK', EpochInv, AnnounceInv, [Next]_vars
  PROVE  AnnounceInv'
<1> DEFINE Of(u) ==
      /\ pc[u] \in {"scan", "cas", "fence"} =>
           IF buffer[u] = <<>> THEN announcedEpoch[u] = L[u]
           ELSE buffer[u][Len(buffer[u])] = L[u]
      /\ pc[u] = "in" => buffer[u] = <<>> /\ announcedEpoch[u] = L[u] /\ L[u] <= entered[u]
<1>1. \A u \in Tids : Of(u) /\ buffer[u] \in Seq(Nat)
  BY DEF AnnounceInv, DebraTypeOK
<1>2. ASSUME NEW t \in Tids, Step(t)
      PROVE  AnnounceInv'
  <2>1. ASSUME NEW u \in Tids, u # t
        PROVE  Of(u)'
    <3>1. Same(u)
      BY <1>2, <2>1, Frame
    <3> QED BY <1>1, <3>1 DEF Same, L
  <2>2. Of(t)'
    <3>1. CASE ReadEpoch(t)
      BY <3>1, ReadEpochEffect
    <3>2. CASE RotateEpochBags(t)
      BY <3>2, RotateEffect
    <3>3. CASE Announce(t)
      <4>1. /\ buffer'[t] # <<>>
            /\ buffer'[t][Len(buffer'[t])] = L[t]
        BY <1>1, <3>3, AnnounceEffect
      <4> QED BY <4>1, <3>3, AnnounceEffect DEF L
    <3>4. CASE Scan(t)
      BY <1>1, <3>4, ScanEffect DEF L
    <3>5. CASE AdvanceEpoch(t)
      BY <1>1, <3>5, AdvanceEffect DEF L
    <3>6. CASE Enter(t)
      <4>1. L[t] <= epoch
        BY <3>6, EnterEffect DEF EpochInv
      <4> QED BY <1>1, <4>1, <3>6, EnterEffect DEF L
    <3>7. CASE EndOp(t)
      BY <3>7, EndOpEffect
    <3>8. CASE Flush(t)
      <4>1. /\ buffer[t] \in Seq(Nat) /\ buffer[t] # <<>>
            /\ announcedEpoch'[t] = Head(buffer[t]) /\ buffer'[t] = Tail(buffer[t])
            /\ UNCHANGED <<pc, localvar_announcedEpoch>>
        BY <1>1, <3>8, FlushEffect
      <4>2. IF buffer'[t] = <<>> THEN announcedEpoch'[t] = buffer[t][Len(buffer[t])]
            ELSE buffer'[t][Len(buffer'[t])] = buffer[t][Len(buffer[t])]
        BY <4>1, LastAfterTail
      <4> QED BY <1>1, <4>1, <4>2 DEF L
    <3>9. ASSUME NEW o \in Objects, retire(t, o)
          PROVE  Of(t)'
      BY <1>1, <3>9, RetireEffect DEF L
    <3> QED
      BY <1>2, <3>1, <3>2, <3>3, <3>4, <3>5, <3>6, <3>7, <3>8, <3>9 DEF Step
  <2> QED
    BY <2>1, <2>2 DEF AnnounceInv
<1>3. CASE Destroy
  BY <1>3, DestroyEffect DEF AnnounceInv
<1>4. CASE UNCHANGED vars
  BY <1>4 DEF vars, data, use, AnnounceInv, L
<1> QED
  BY <1>2, <1>3, <1>4 DEF Next, Finished

(* Every step keeps ScanInv: a finished scan is followed by a new epoch.   *)
LEMMA ScanStep ==
  ASSUME DebraTypeOK, DebraTypeOK', EpochInv, ScanInv, [Next]_vars
  PROVE  ScanInv'
<1> DEFINE Of(p) ==
      /\ checked[p] <= NUM_PROCESSES
      /\ pc[p] \in {"rotate", "announce", "scan"} => checked[p] < NUM_PROCESSES
      /\ pc[p] \in {"fence", "in", "out"} /\ L[p] = epoch => checked[p] < NUM_PROCESSES
      /\ pc[p] = "cas" => checked[p] = NUM_PROCESSES
<1>1. /\ NUM_PROCESSES \in Nat \ {0} /\ epoch \in Nat /\ epoch % 2 = 0
      /\ \A u \in Tids : /\ Of(u) /\ checked[u] \in Nat /\ L[u] \in Nat /\ pc[u] \in Pcs
                         /\ L[u] <= epoch \/ L[u] = 1
  BY DebraAssumption DEF ScanInv, DebraTypeOK, L, EpochInv
<1>2. ASSUME NEW t \in Tids, Step(t)
      PROVE  ScanInv'
  <2>1. ASSUME NEW u \in Tids, u # t
        PROVE  Of(u)'
    <3>1. Same(u)
      BY <1>2, <2>1, Frame
    <3>2. L[u] = epoch' => L[u] = epoch
      BY <1>1, <1>2, EpochMoves, EvenWord
    <3> QED BY <1>1, <3>1, <3>2 DEF Same, L
  <2>2. Of(t)'
    <3>1. CASE ReadEpoch(t)
      BY <1>1, <3>1, ReadEpochEffect DEF L
    <3>2. CASE RotateEpochBags(t)
      BY <1>1, <3>2, RotateEffect DEF L
    <3>3. CASE Announce(t)
      BY <1>1, <3>3, AnnounceEffect DEF L
    <3>4. CASE Scan(t)
      BY <1>1, <3>4, ScanEffect DEF L
    <3>5. CASE AdvanceEpoch(t)
      BY <1>1, <3>5, AdvanceEffect DEF L
    <3>6. CASE Enter(t)
      BY <1>1, <3>6, EnterEffect DEF L
    <3>7. CASE EndOp(t)
      BY <1>1, <3>7, EndOpEffect DEF L
    <3>8. CASE Flush(t)
      BY <1>1, <3>8, FlushEffect DEF L
    <3>9. ASSUME NEW o \in Objects, retire(t, o)
          PROVE  Of(t)'
      BY <1>1, <3>9, RetireEffect DEF L
    <3> QED
      BY <1>2, <3>1, <3>2, <3>3, <3>4, <3>5, <3>6, <3>7, <3>8, <3>9 DEF Step
  <2> QED
    BY <2>1, <2>2 DEF ScanInv
<1>3. CASE Destroy
  BY <1>1, <1>3, DestroyEffect DEF ScanInv, L
<1>4. CASE UNCHANGED vars
  BY <1>4 DEF vars, data, ScanInv, L
<1> QED
  BY <1>2, <1>3, <1>4 DEF Next, Finished

(* Every step keeps GuardInv: the scan of the next epoch stops at a guard. *)
LEMMA GuardStep ==
  ASSUME DebraTypeOK, DebraTypeOK', EpochInv, AnnounceInv, ScanInv, GuardInv, [Next]_vars
  PROVE  GuardInv'
<1>1. /\ epoch \in Nat /\ epoch % 2 = 0
      /\ \A u \in Tids : checked[u] \in Nat /\ L[u] \in Nat /\ entered[u] \in Nat
  BY DEF EpochInv, DebraTypeOK, L
<1>2. \A u \in Tids : u \in Nat /\ u < NUM_PROCESSES
  BY DebraAssumption DEF Tids
<1>3. \A u \in Tids : (L[u] % 2 = 0 /\ L[u] <= epoch) \/ (L[u] = 1 /\ pc[u] = "out")
  BY DEF EpochInv
<1>4. ASSUME NEW s \in Tids, Step(s), epoch' = epoch
      PROVE  GuardInv'
  <2>1. ASSUME NEW t \in Tids, pc'[t] = "in"
        PROVE  (pc[t] = "in" /\ entered'[t] = entered[t]) \/ entered'[t] = epoch
    <3>1. CASE s # t
      BY <1>4, <2>1, <3>1, Frame DEF Same
    <3>2. CASE s = t
      <4>1. CASE Enter(t)
        BY <4>1, EnterEffect
      <4>2. CASE Flush(t)
        BY <2>1, <4>2, FlushEffect
      <4>3. CASE \E o \in Objects : retire(t, o)
        BY <2>1, <4>3, RetireEffect
      <4>4. CASE ReadEpoch(t) \/ RotateEpochBags(t) \/ Announce(t) \/ Scan(t)
        BY <2>1, <4>4, ReadEpochEffect, RotateEffect, AnnounceEffect, ScanEffect
      <4>5. CASE AdvanceEpoch(t) \/ EndOp(t)
        BY <2>1, <4>5, AdvanceEffect, EndOpEffect
      <4> QED BY <1>4, <3>2, <4>1, <4>2, <4>3, <4>4, <4>5 DEF Step
    <3> QED BY <3>1, <3>2
  <2> DEFINE Passes(p) == /\ Scan(p) /\ checked'[p] = checked[p] + 1
                          /\ \/ BITS_EPOCH(Load(p, checked[p])) = L[p]
                             \/ QUIESCENT(Load(p, checked[p]))
  <2>2. ASSUME NEW p \in Tids, L'[p] = epoch
        PROVE  \/ checked'[p] = 0
               \/ L[p] = epoch /\ checked'[p] = checked[p]
               \/ L[p] = epoch /\ Passes(p)
    <3>1. CASE s # p
      BY <1>4, <2>2, <3>1, Frame DEF Same
    <3>2. CASE s = p
      <4>1. CASE ReadEpoch(p)
        BY <4>1, ReadEpochEffect
      <4>2. CASE Scan(p)
        BY <2>2, <4>2, ScanEffect DEF L
      <4>3. CASE \E o \in Objects : retire(p, o)
        BY <2>2, <4>3, RetireEffect DEF L
      <4>4. CASE RotateEpochBags(p) \/ Announce(p) \/ Enter(p) \/ Flush(p)
        BY <2>2, <4>4, RotateEffect, AnnounceEffect, EnterEffect, FlushEffect DEF L
      <4>5. CASE AdvanceEpoch(p) \/ EndOp(p)
        BY <2>2, <4>5, AdvanceEffect, EndOpEffect DEF L
      <4> QED BY <1>4, <3>2, <4>1, <4>2, <4>3, <4>4, <4>5 DEF Step
    <3> QED BY <3>1, <3>2
  <2>3. ASSUME NEW t \in Tids, pc[t] = "in", epoch = entered[t] + 2,
               NEW p \in Tids, L[p] = epoch, Passes(p)
        PROVE  checked[p] # t
    <3> SUFFICES ASSUME checked[p] = t PROVE FALSE
      OBVIOUS
    <3>1. announcedEpoch[t] = L[t] /\ L[t] <= entered[t]
      BY <2>3 DEF AnnounceInv
    <3>2. p # t
      BY <2>3, ScanEffect
    <3>3. Load(p, t) = L[t]
      BY <3>1, <3>2 DEF Load
    <3>4. L[t] % 2 = 0 /\ L[t] # L[p]
      BY <1>1, <1>3, <2>3, <3>1
    <3>5. BITS_EPOCH(L[t]) = L[t] /\ ~QUIESCENT(L[t])
      BY <1>1, <3>4, EvenWord
    <3> QED BY <2>3, <3>3, <3>4, <3>5
  <2>4. ASSUME NEW t \in Tids, pc'[t] = "in"
        PROVE  /\ entered'[t] % 2 = 0 /\ entered'[t] <= epoch /\ epoch <= entered'[t] + 2
    BY <1>1, <2>1, <2>4 DEF GuardInv
  <2>5. ASSUME NEW t \in Tids, pc'[t] = "in", epoch = entered'[t] + 2,
               NEW p \in Tids, L'[p] = epoch
        PROVE  checked'[p] <= t
    <3>1. pc[t] = "in" /\ entered'[t] = entered[t]
      BY <1>1, <2>1, <2>5
    <3>2. L[p] = epoch => checked[p] <= t
      BY <2>5, <3>1 DEF GuardInv
    <3> QED BY <1>1, <1>2, <2>2, <2>3, <2>5, <3>1, <3>2
  <2> QED
    BY <1>4, <2>4, <2>5 DEF GuardInv, L
<1>5. ASSUME NEW s \in Tids, AdvanceEpoch(s), epoch = L[s], epoch' = epoch + 2
      PROVE  GuardInv'
  <2>1. /\ checked[s] = NUM_PROCESSES
        /\ \A t \in Tids : pc'[t] = "in" => pc[t] = "in"
        /\ UNCHANGED <<localvar_announcedEpoch, entered, checked>>
    <3>1. \A t \in Tids : t # s => Same(t)
      BY <1>5, Frame DEF Step
    <3> QED BY <1>5, <3>1, AdvanceEffect DEF ScanInv, Same
  <2>2. ASSUME NEW t \in Tids, pc[t] = "in"
        PROVE  epoch = entered[t]
    <3>1. epoch # entered[t] + 2
      BY <1>1, <1>2, <1>5, <2>1, <2>2 DEF GuardInv
    <3> QED BY <1>1, <2>2, <3>1 DEF GuardInv
  <2>3. \A p \in Tids : L'[p] # epoch'
    BY <1>1, <1>3, <1>5, <2>1, EvenWord DEF L
  <2> QED
    BY <1>1, <1>5, <2>1, <2>2, <2>3 DEF GuardInv
<1>6. CASE Destroy
  BY <1>6, DestroyEffect DEF GuardInv
<1>7. CASE UNCHANGED vars
  BY <1>7 DEF vars, data, use, GuardInv, L
<1> QED
  BY <1>4, <1>5, <1>6, <1>7, EpochMoves DEF Next, Finished

(* Every step keeps RetiredInv.                                            *)
LEMMA RetiredStep ==
  ASSUME DebraTypeOK, EpochInv, RetiredInv, [Next]_vars
  PROVE  RetiredInv'
<1>1. ASSUME NEW t \in Tids, Step(t)
      PROVE  RetiredInv'
  <2>1. \A u \in Tids : u # t => epochbags'[u] = epochbags[u]
    BY <1>1, Frame DEF Same
  <2>2. CASE RotateEpochBags(t)
    <3> DEFINE n == (index[t] + 1) % NUMBER_OF_EPOCH_BAGS
               f == (n + NUMBER_OF_ALWAYS_EMPTY_EPOCH_BAGS) % NUMBER_OF_EPOCH_BAGS
    <3>1. f \in Bags
      BY Ring DEF DebraTypeOK
    <3>2. /\ freed' = freed \cup epochbags[t][f] /\ retired' = retired
          /\ \A b \in Bags : epochbags'[t][b] \subseteq epochbags[t][b]
      BY <2>2, RotateEffect
    <3> HIDE DEF n, f
    <3> QED BY <2>1, <3>1, <3>2 DEF RetiredInv
  <2>3. ASSUME NEW o \in Objects, retire(t, o)
        PROVE  RetiredInv'
    BY <2>1, <2>3, RetireEffect DEF RetiredInv
  <2>4. CASE ReadEpoch(t) \/ Announce(t) \/ Scan(t) \/ AdvanceEpoch(t)
    BY <2>4, ReadEpochEffect, AnnounceEffect, ScanEffect, AdvanceEffect DEF RetiredInv
  <2>5. CASE Enter(t) \/ EndOp(t) \/ Flush(t)
    BY <2>5, EnterEffect, EndOpEffect, FlushEffect DEF RetiredInv
  <2> QED
    BY <1>1, <2>2, <2>3, <2>4, <2>5 DEF Step
<1>2. CASE Destroy
  <2>1. UNION {epochbags[t][b] : t \in Tids, b \in Bags} \subseteq retired
    BY DEF RetiredInv
  <2> QED BY <1>2, <2>1, DestroyEffect DEF RetiredInv
<1>3. CASE UNCHANGED vars
  BY <1>3 DEF vars, data, use, RetiredInv
<1> QED
  BY <1>1, <1>2, <1>3 DEF Next, Finished

(* Every step keeps BagInv: a rotation costs a new epoch.                  *)
LEMMA BagStep ==
  ASSUME DebraTypeOK, DebraTypeOK', EpochInv, AnnounceInv, GuardInv, BagInv, RetiredInv,
         [Next]_vars
  PROVE  BagInv'
<1> DEFINE Of(t, p, b) ==
      pc[t] = "in" /\ epochbags[p][b] \cap refs[t] # {} =>
        /\ Dist(index[p], b) <= 5
        /\ Age(p, b) >= 1 => L[p] >= entered[t] + 2 * (Age(p, b) - 1)
<1>1. /\ epoch \in Nat /\ epoch % 2 = 0
      /\ \A u \in Tids : L[u] \in Nat /\ entered[u] \in Nat /\ index[u] \in Bags
      /\ \A t, p \in Tids : \A b \in Bags : Of(t, p, b)
  BY DEF EpochInv, DebraTypeOK, L, BagInv
<1>2. \A i, b \in Bags : Dist(i, b) \in 0 .. 8
  BY DEF Dist, Bags, NUMBER_OF_EPOCH_BAGS
<1>3. ASSUME NEW s \in Tids, Step(s), NEW t \in Tids, NEW p \in Tids, NEW b \in Bags
      PROVE  Of(t, p, b)'
  <2>1. CASE ReadEpoch(s)
    <3>1. CASE p = s /\ epoch # L[s]
      <4>1. /\ L'[p] = epoch /\ pc[p] = "out" /\ pc'[p] = "rotate"
            /\ UNCHANGED <<epochbags, index, refs, entered>>
            /\ pc'[t] = "in" => pc[t] = "in"
        <5>1. t # s => Same(t)
          BY <1>3, Frame
        <5> QED BY <2>1, <3>1, <5>1, ReadEpochEffect DEF Same
      <4>2. SUFFICES ASSUME pc[t] = "in", epochbags[p][b] \cap refs[t] # {}
                     PROVE  /\ Dist(index[p], b) <= 5
                            /\ epoch >= entered[t] + 2 * Dist(index[p], b)
        BY <4>1, <1>1, <1>2 DEF Age, L
      <4>3. /\ Dist(index[p], b) <= 5 /\ entered[t] <= epoch
            /\ Dist(index[p], b) >= 1 => L[p] >= entered[t] + 2 * (Dist(index[p], b) - 1)
        <5>1. entered[t] <= epoch
          BY <4>2 DEF GuardInv
        <5>2. Age(p, b) = Dist(index[p], b)
          BY <1>1, <1>2, <4>1 DEF Age
        <5>3. /\ Dist(index[p], b) <= 5
              /\ Age(p, b) >= 1 => L[p] >= entered[t] + 2 * (Age(p, b) - 1)
          BY <1>1, <4>2
        <5> QED BY <5>1, <5>2, <5>3
      <4>4. L[p] + 2 <= epoch
        <5>1. epochbags[p][b] # {}
          BY <4>2
        <5>2. L[p] % 2 = 0 /\ L[p] <= epoch /\ L[p] # epoch
          BY <3>1, <5>1 DEF EpochInv
        <5> QED BY <1>1, <5>2, EvenGap
      <4> QED BY <1>1, <1>2, <4>3, <4>4
    <3>2. CASE p # s \/ epoch = L[s]
      <4>1. /\ L'[p] = L[p] /\ (pc'[p] = "rotate" <=> pc[p] = "rotate")
            /\ UNCHANGED <<epochbags, index, refs, entered>>
            /\ pc'[t] = "in" => pc[t] = "in"
        <5>1. /\ t # s => Same(t)
              /\ p # s => Same(p)
          BY <1>3, Frame
        <5> QED BY <2>1, <3>2, <5>1, ReadEpochEffect DEF Same, L
      <4> QED BY <1>1, <4>1 DEF Age, L
    <3> QED BY <3>1, <3>2
  <2>2. CASE RotateEpochBags(s)
    <3>1. t # s => Same(t)
      BY <1>3, Frame
    <3>2. pc'[t] = "in" => pc[t] = "in" /\ refs'[t] = refs[t] /\ entered'[t] = entered[t]
      BY <2>2, <3>1, RotateEffect DEF Same
    <3>3. CASE p = s
      <4> DEFINE n == (index[s] + 1) % NUMBER_OF_EPOCH_BAGS
                 f == (n + NUMBER_OF_ALWAYS_EMPTY_EPOCH_BAGS) % NUMBER_OF_EPOCH_BAGS
      <4>1. /\ pc[s] = "rotate" /\ pc'[s] = "announce" /\ index'[s] = n /\ L'[s] = L[s]
            /\ epochbags'[s][f] = {}
            /\ b # f => epochbags'[s][b] = epochbags[s][b]
        BY <2>2, RotateEffect DEF L
      <4>2. b # f /\ Dist(index[s], b) <= 5 => /\ Dist(n, b) = Dist(index[s], b) + 1
                                               /\ Dist(n, b) <= 5
        BY <1>1, Ring
      <4> HIDE DEF n, f
      <4>3. CASE b = f
        BY <3>3, <4>1, <4>3
      <4>4. CASE b # f
        BY <1>1, <1>2, <3>2, <3>3, <4>1, <4>2, <4>4 DEF Age, L
      <4> QED BY <4>3, <4>4
    <3>4. CASE p # s
      <4>1. Same(p)
        BY <1>3, <3>4, Frame
      <4> QED BY <1>1, <3>2, <4>1 DEF Same, Age, L
    <3> QED BY <3>3, <3>4
  <2>3. CASE Enter(s)
    <3>1. /\ t # s => Same(t)
          /\ p # s => Same(p)
      BY <1>3, Frame
    <3>2. CASE t = s
      <4>1. epochbags'[p][b] \cap refs'[t] = {}
        BY <2>3, <3>2, EnterEffect DEF RetiredInv
      <4> QED BY <4>1
    <3>3. CASE t # s
      BY <1>1, <2>3, <3>1, <3>3, EnterEffect DEF Same, Age, L
    <3> QED BY <3>2, <3>3
  <2>4. ASSUME NEW o \in Objects, retire(s, o)
        PROVE  Of(t, p, b)'
    <3>1. UNCHANGED <<pc, refs, entered, index, localvar_announcedEpoch>>
      BY <2>4, RetireEffect
    <3>2. CASE p = s /\ b = index[s]
      <4>1. Dist(index[p], b) = 0 /\ pc[p] # "rotate"
        BY <1>1, <2>4, <3>2, RetireEffect DEF Dist, Bags, NUMBER_OF_EPOCH_BAGS
      <4> QED BY <3>1, <4>1 DEF Age
    <3>3. CASE ~(p = s /\ b = index[s])
      <4>1. p # s => Same(p)
        BY <1>3, Frame
      <4>2. epochbags'[p][b] = epochbags[p][b]
        BY <2>4, <3>3, <4>1, RetireEffect DEF Same
      <4> QED BY <1>1, <3>1, <4>2 DEF Age, L
    <3> QED BY <3>2, <3>3
  <2>5. CASE Announce(s) \/ Scan(s) \/ AdvanceEpoch(s) \/ EndOp(s) \/ Flush(s)
    <3>1. /\ t # s => Same(t)
          /\ p # s => Same(p)
      BY <1>3, Frame
    <3>2. /\ pc'[t] = "in" => pc[t] = "in" /\ refs'[t] = refs[t] /\ entered'[t] = entered[t]
          /\ pc'[p] = "rotate" <=> pc[p] = "rotate"
          /\ UNCHANGED <<epochbags, index, localvar_announcedEpoch>>
      BY <2>5, <3>1, AnnounceEffect, ScanEffect, AdvanceEffect, EndOpEffect, FlushEffect DEF Same
    <3> QED BY <1>1, <3>2 DEF Age, L
  <2> QED
    BY <1>3, <2>1, <2>2, <2>3, <2>4, <2>5 DEF Step
<1>4. CASE Destroy
  BY <1>4, DestroyEffect DEF BagInv
<1>5. CASE UNCHANGED vars
  BY <1>5 DEF vars, data, use, BagInv, Age, L
<1>6. ASSUME NEW s \in Tids, Step(s)
      PROVE  BagInv'
  BY <1>3, <1>6 DEF BagInv
<1> QED
  BY <1>4, <1>5, <1>6 DEF Next, Finished

(* The sixth rotation since a node was put into a bag frees it; it needs   *)
(* an epoch no guard that may reach the node lets happen.                  *)
LEMMA ProtectStep ==
  ASSUME DebraTypeOK, EpochInv, GuardInv, BagInv, RetiredInv, GuardProtects, [Next]_vars
  PROVE  GuardProtects'
<1>1. ASSUME NEW s \in Tids, Step(s), NEW t \in Tids, pc'[t] = "in"
      PROVE  refs'[t] \cap freed' = {}
  <2>1. t # s => Same(t)
    BY <1>1, Frame
  <2>2. CASE RotateEpochBags(s)
    <3> DEFINE n == (index[s] + 1) % NUMBER_OF_EPOCH_BAGS
               f == (n + NUMBER_OF_ALWAYS_EMPTY_EPOCH_BAGS) % NUMBER_OF_EPOCH_BAGS
    <3>1. /\ pc[s] = "rotate" /\ freed' = freed \cup epochbags[s][f]
          /\ pc[t] = "in" /\ refs'[t] = refs[t]
      BY <1>1, <2>1, <2>2, RotateEffect DEF Same
    <3>2. f \in Bags /\ Dist(index[s], f) = 5
      BY Ring DEF DebraTypeOK
    <3> HIDE DEF n, f
    <3>3. Age(s, f) = 6
      BY <3>1, <3>2 DEF Age
    <3>4. epochbags[s][f] \cap refs[t] = {}
      <4> SUFFICES ASSUME epochbags[s][f] \cap refs[t] # {} PROVE FALSE
        OBVIOUS
      <4>1. L[s] >= entered[t] + 10
        BY <3>1, <3>2, <3>3 DEF BagInv
      <4>2. L[s] <= epoch /\ epoch <= entered[t] + 2
        BY <3>1 DEF EpochInv, GuardInv
      <4> QED BY <4>1, <4>2 DEF DebraTypeOK, L
    <3> QED BY <3>1, <3>4 DEF GuardProtects
  <2>3. CASE Enter(s)
    <3>1. CASE t = s
      BY <2>3, <3>1, EnterEffect DEF RetiredInv
    <3>2. CASE t # s
      BY <1>1, <2>1, <2>3, <3>2, EnterEffect DEF GuardProtects, Same
    <3> QED BY <3>1, <3>2
  <2>4. ASSUME NEW o \in Objects, retire(s, o)
        PROVE  refs'[t] \cap freed' = {}
    BY <1>1, <2>4, RetireEffect DEF GuardProtects
  <2>5. CASE ReadEpoch(s) \/ Announce(s) \/ Scan(s) \/ AdvanceEpoch(s) \/ EndOp(s) \/ Flush(s)
    <3>1. freed' = freed /\ pc[t] = "in" /\ refs'[t] = refs[t]
      BY <1>1, <2>1, <2>5, ReadEpochEffect, AnnounceEffect, ScanEffect, AdvanceEffect,
         EndOpEffect, FlushEffect DEF Same
    <3> QED BY <3>1 DEF GuardProtects
  <2> QED
    BY <1>1, <2>2, <2>3, <2>4, <2>5 DEF Step
<1>2. CASE Destroy
  BY <1>2, DestroyEffect DEF GuardProtects
<1>3. CASE UNCHANGED vars
  BY <1>3 DEF vars, use, GuardProtects
<1>4. ASSUME NEW s \in Tids, Step(s)
      PROVE  GuardProtects'
  BY <1>1, <1>4 DEF GuardProtects
<1> QED
  BY <1>2, <1>3, <1>4 DEF Next, Finished

(* Nodes move from a bag to freed, and from neither into one bag.          *)
LEMMA AccountedStep ==
  ASSUME DebraTypeOK, EpochInv, RetiredInv, Accounted, [Next]_vars
  PROVE  Accounted'
<1>1. ASSUME NEW s \in Tids, Step(s)
      PROVE  Accounted'
  <2>1. \A u \in Tids : u # s => epochbags'[u] = epochbags[u]
    BY <1>1, Frame DEF Same
  <2>2. CASE RotateEpochBags(s)
    <3> DEFINE n == (index[s] + 1) % NUMBER_OF_EPOCH_BAGS
               f == (n + NUMBER_OF_ALWAYS_EMPTY_EPOCH_BAGS) % NUMBER_OF_EPOCH_BAGS
    <3>1. f \in Bags
      BY Ring DEF DebraTypeOK
    <3>2. /\ freed' = freed \cup epochbags[s][f] /\ retired' = retired
          /\ epochbags'[s][f] = {}
          /\ \A b \in Bags \ {f} : epochbags'[s][b] = epochbags[s][b]
      BY <2>2, RotateEffect
    <3> HIDE DEF n, f
    <3>3. \A u \in Tids, b \in Bags :
            epochbags'[u][b] = IF u = s /\ b = f THEN {} ELSE epochbags[u][b]
      BY <2>1, <3>2
    <3>4. ASSUME NEW o \in retired
          PROVE  o \in freed' \/ \E u \in Tids, b \in Bags : o \in epochbags'[u][b]
      <4>1. CASE o \in freed
        BY <3>2, <4>1
      <4>2. CASE o \notin freed
        <5>1. PICK u \in Tids, b \in Bags : o \in epochbags[u][b]
          BY <4>2 DEF Accounted
        <5> QED BY <3>2, <3>3, <5>1
      <4> QED BY <4>1, <4>2
    <3>5. ASSUME NEW u \in Tids, NEW b \in Bags
          PROVE  epochbags'[u][b] \cap freed' = {}
      BY <3>1, <3>2, <3>3 DEF Accounted
    <3>6. ASSUME NEW t \in Tids, NEW u \in Tids, NEW b \in Bags, NEW c \in Bags,
                 epochbags'[t][b] \cap epochbags'[u][c] # {}
          PROVE  t = u /\ b = c
      BY <3>3, <3>6 DEF Accounted
    <3> QED BY <3>2, <3>4, <3>5, <3>6 DEF Accounted
  <2>3. ASSUME NEW o \in Objects, retire(s, o)
        PROVE  Accounted'
    <3> DEFINE i == index[s]
    <3>1. /\ o \notin retired /\ retired' = retired \cup {o} /\ freed' = freed
          /\ i \in Bags
          /\ epochbags'[s][i] = epochbags[s][i] \cup {o}
          /\ \A b \in Bags \ {i} : epochbags'[s][b] = epochbags[s][b]
      BY <2>3, RetireEffect DEF DebraTypeOK
    <3> HIDE DEF i
    <3>2. \A u \in Tids, b \in Bags :
            (u = s /\ b = i) \/ epochbags'[u][b] = epochbags[u][b]
      BY <2>1, <3>1
    <3>3. o \notin freed /\ \A u \in Tids, b \in Bags : o \notin epochbags[u][b]
      BY <3>1 DEF RetiredInv
    <3>4. \A u \in Tids, b \in Bags : epochbags[u][b] \subseteq epochbags'[u][b]
      <4> SUFFICES ASSUME NEW u \in Tids, NEW b \in Bags
                   PROVE  epochbags[u][b] \subseteq epochbags'[u][b]
        OBVIOUS
      <4>1. CASE u = s /\ b = i
        BY <3>1, <4>1
      <4>2. CASE ~(u = s /\ b = i)
        BY <3>2, <4>2
      <4> QED BY <4>1, <4>2
    <3>5. \A u \in Tids, b \in Bags : \A q \in epochbags'[u][b] :
            q \in epochbags[u][b] \/ (q = o /\ u = s /\ b = i)
      <4> SUFFICES ASSUME NEW u \in Tids, NEW b \in Bags, NEW q \in epochbags'[u][b]
                   PROVE  q \in epochbags[u][b] \/ (q = o /\ u = s /\ b = i)
        OBVIOUS
      <4>1. CASE u = s /\ b = i
        BY <3>1, <4>1
      <4>2. CASE ~(u = s /\ b = i)
        BY <3>2, <4>2
      <4> QED BY <4>1, <4>2
    <3>6. ASSUME NEW q \in retired'
          PROVE  q \in freed' \/ \E u \in Tids, b \in Bags : q \in epochbags'[u][b]
      <4>1. CASE q = o
        BY <3>1, <4>1
      <4>2. CASE q # o /\ q \in freed
        BY <3>1, <4>2
      <4>3. CASE q # o /\ q \notin freed
        <5>1. PICK u \in Tids, b \in Bags : q \in epochbags[u][b]
          BY <3>1, <3>6, <4>3 DEF Accounted
        <5> QED BY <3>4, <5>1
      <4> QED BY <4>1, <4>2, <4>3
    <3>7. ASSUME NEW u \in Tids, NEW b \in Bags
          PROVE  epochbags'[u][b] \cap freed' = {}
      <4>1. epochbags[u][b] \cap freed = {}
        BY DEF Accounted
      <4> QED BY <3>1, <3>3, <3>5, <4>1
    <3>8. ASSUME NEW t \in Tids, NEW u \in Tids, NEW b \in Bags, NEW c \in Bags,
                 epochbags'[t][b] \cap epochbags'[u][c] # {}
          PROVE  t = u /\ b = c
      <4>1. PICK q : q \in epochbags'[t][b] /\ q \in epochbags'[u][c]
        BY <3>8
      <4>2. CASE q = o
        BY <3>3, <3>5, <4>1, <4>2
      <4>3. CASE q # o
        <5>1. q \in epochbags[t][b] /\ q \in epochbags[u][c]
          BY <3>5, <4>1, <4>3
        <5> QED BY <5>1 DEF Accounted
      <4> QED BY <4>2, <4>3
    <3> QED BY <3>6, <3>7, <3>8 DEF Accounted
  <2>4. CASE ReadEpoch(s) \/ Announce(s) \/ Scan(s) \/ AdvanceEpoch(s)
    BY <2>4, ReadEpochEffect, AnnounceEffect, ScanEffect, AdvanceEffect DEF Accounted
  <2>5. CASE Enter(s) \/ EndOp(s) \/ Flush(s)
    BY <2>5, EnterEffect, EndOpEffect, FlushEffect DEF Accounted
  <2> QED
    BY <1>1, <2>2, <2>3, <2>4, <2>5 DEF Step
<1>2. CASE Destroy
  BY <1>2, DestroyEffect DEF Accounted
<1>3. CASE UNCHANGED vars
  BY <1>3 DEF vars, data, use, Accounted
<1> QED
  BY <1>1, <1>2, <1>3 DEF Next, Finished

-----------------------------------------------------------------------------
(* The initial states satisfy the invariant.                               *)
LEMMA IInvInit == Init => IInv
<1> SUFFICES ASSUME Init PROVE IInv
  OBVIOUS
<1>1. DebraTypeOK
  BY InitialWord DEF Init, InitialAnnouncement, DebraTypeOK, Pcs, Bags, NUMBER_OF_EPOCH_BAGS
<1>2. EpochInv
  BY InitialWord DEF Init, InitialAnnouncement, EpochInv, L
<1>3. AnnounceInv /\ GuardInv /\ BagInv /\ GuardProtects
  BY DEF Init, AnnounceInv, GuardInv, BagInv, GuardProtects
<1>4. ScanInv
  BY DebraAssumption, InitialWord DEF Init, InitialAnnouncement, ScanInv, L
<1>5. RetiredInv /\ Accounted
  BY DEF Init, RetiredInv, Accounted
<1> QED
  BY <1>1, <1>2, <1>3, <1>4, <1>5 DEF IInv

(* The inductive invariant: the parts above hold in every state.           *)
LEMMA Invariance == Spec => []IInv
<1>1. IInv /\ [Next]_vars => IInv'
  <2> SUFFICES ASSUME IInv, [Next]_vars PROVE IInv'
    OBVIOUS
  <2>1. DebraTypeOK'
    BY TypeStep DEF IInv
  <2>2. EpochInv' /\ AnnounceInv' /\ ScanInv' /\ GuardInv' /\ BagInv'
    BY <2>1, EpochStep, AnnounceStep, ScanStep, GuardStep, BagStep DEF IInv
  <2>3. RetiredInv' /\ GuardProtects' /\ Accounted'
    BY RetiredStep, ProtectStep, AccountedStep DEF IInv
  <2> QED BY <2>1, <2>2, <2>3 DEF IInv
<1> QED
  BY <1>1, IInvInit, PTL DEF Spec

(* No node that was in use when a guard began is freed before the guard    *)
(* ends (rotateEpochBags, startOp), for any number of threads.             *)
THEOREM GuardSafety == Spec => []GuardProtects
<1>1. IInv => GuardProtects
  BY DEF IInv
<1> QED
  BY <1>1, Invariance, PTL

(* startOp never scans past the last thread of threadData.                 *)
THEOREM ScanSafety == Spec => []ScanInBounds
<1>1. IInv => ScanInBounds
  BY DEF IInv, ScanInv, ScanInBounds
<1> QED
  BY <1>1, Invariance, PTL

(* retire, rotateEpochBags and the destructor lose no node and free none   *)
(* twice.                                                                  *)
THEOREM BagSafety == Spec => []Accounted
<1>1. IInv => Accounted
  BY DEF IInv
<1> QED
  BY <1>1, Invariance, PTL

(* The first guard gives a thread the bag initThread left out, so retire   *)
(* finds one.                                                              *)
THEOREM RetireReady == Spec => []HasBag
<1>1. IInv => HasBag
  BY InitialWord DEF IInv, EpochInv, HasBag, Started, L
<1> QED
  BY <1>1, Invariance, PTL
=============================================================================
