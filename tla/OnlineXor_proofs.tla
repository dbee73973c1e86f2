-------------------------- MODULE OnlineXor_proofs --------------------------
(***************************************************************************)
(* The semaphore discipline of OnlineXor, proved for every set of links,   *)
(* every size of the filter, every number of queues and every width of the *)
(* counter: a consumer never meets an empty queue, and two consumers never *)
(* touch the same cell.  And the loss of no string: the filter is complete *)
(* when the threads are joined, as Accumulation promises.                  *)
(***************************************************************************)
EXTENDS OnlineXor, FiniteSetTheorems, TLAPS

(* The producers that have pushed their segment to queue i.                *)
Pushed(i) == {p \in Producers : next[p] > i \/ (next[p] = i /\ owes[p])}

(* Every push is still in the queue or was popped.                         *)
PushesServedOrQueued ==
  \A i \in Queues : Cardinality(Pushed(i)) = Len(q[i]) + served[i]

(* A producer owes a notification only for a queue that exists.            *)
OwesAQueue == \A p \in Producers : owes[p] => next[p] < NumQueues

(* A blocked consumer saw count_ = 0 and nothing was announced since; one  *)
(* that was woken has a count to take.                                     *)
WakeMeansCount == \A i \in Queues : /\ pc[i] = "blocked" => count[i] = 0
                                    /\ pc[i] = "woken" => count[i] > 0

(* Queue i holds segments of range i only.                                 *)
RangesInPlace ==
  \A i \in Queues : \A k \in 1 .. Len(q[i]) :
      q[i][k].start = First(i) /\ q[i][k].end = End(i)

CursorInRange == \A i \in Queues : pc[i] = "xor" => cursor[i] \in First(i) .. End(i)

IInv == /\ TypeOK
        /\ TicketMeansSegment
        /\ SemaphoreCountsSegments
        /\ PushesServedOrQueued
        /\ OwesAQueue
        /\ WakeMeansCount
        /\ RangesInPlace
        /\ CursorInRange

-----------------------------------------------------------------------------
(* Counting needs finitely many producers.                                 *)
LEMMA ProducersFinite == IsFiniteSet(Producers) /\ Num \in Nat
<1>1. IsFiniteSet({"recv", "send"})
  <2>1. IsFiniteSet({"recv"} \cup {"send"})
    BY FS_Singleton, FS_AddElement
  <2>. QED  BY <2>1, {"recv", "send"} = {"recv"} \cup {"send"}
<1>2. IsFiniteSet(Producers)
  BY <1>1, FS_Product, LinksAssumption DEF Producers
<1>. QED  BY <1>2, FS_CardinalityType DEF Num

(* A count below the width of the counter does not wrap.                   *)
LEMMA NoWrap == \A n \in 0 .. CountMod - 1 : n % CountMod = n
  BY CountModAssumption, ProducersFinite

LEMMA TimesMonotone ==
  ASSUME NEW a \in Nat, NEW b \in Nat, NEW c \in Nat, a <= b
  PROVE  a * c \in Nat /\ a * c <= b * c
  OBVIOUS

(* jump is a whole share of the filter: NumQueues of them fit in it.       *)
LEMMA JumpFits == jump \in Nat /\ NumQueues * jump <= Nbf
  BY NbfAssumption, QueuesAssumption DEF jump

(* The range of every queue lies in the filter.                            *)
LEMMA RangeInFilter ==
  ASSUME NEW i \in Queues
  PROVE  /\ First(i) \in 0 .. Nbf
         /\ End(i) \in 0 .. Nbf
         /\ First(i) <= End(i)
<1>1. i \in Nat /\ i + 1 \in Nat /\ i + 1 <= NumQueues /\ NumQueues \in Nat
  BY QueuesAssumption DEF Queues
<1>2. /\ (i + 1) * jump \in Nat
      /\ (i + 1) * jump <= NumQueues * jump
      /\ i * jump \in Nat
      /\ i * jump <= (i + 1) * jump
  BY <1>1, TimesMonotone, JumpFits
<1>3. (i + 1) * jump \in 0 .. Nbf /\ i * jump \in 0 .. Nbf
  BY <1>1, <1>2, JumpFits, NbfAssumption
<1>. QED  BY <1>2, <1>3, NbfAssumption DEF First, End

(* The ranges of two queues do not meet.                                   *)
LEMMA RangesDisjoint ==
  ASSUME NEW i \in Queues, NEW j \in Queues, i < j
  PROVE  End(i) <= First(j)
<1>1. /\ i + 1 \in Nat /\ j \in Nat /\ i + 1 <= j
      /\ i # NumQueues - 1
  BY QueuesAssumption DEF Queues
<1>2. (i + 1) * jump <= j * jump
  BY <1>1, TimesMonotone, JumpFits
<1>. QED  BY <1>1, <1>2 DEF First, End

(* The sets that are counted are finite parts of Producers.                *)
LEMMA CountedSets ==
  ASSUME NEW i
  PROVE  /\ IsFiniteSet(Owing(i)) /\ Cardinality(Owing(i)) \in Nat
         /\ IsFiniteSet(Pushed(i)) /\ Cardinality(Pushed(i)) \in Nat
         /\ Cardinality(Pushed(i)) <= Num
<1>1. Owing(i) \in SUBSET Producers /\ Pushed(i) \in SUBSET Producers
  BY DEF Owing, Pushed
<1>. QED  BY <1>1, ProducersFinite, FS_Subset, FS_CardinalityType DEF Num

(* The same for the next state.                                            *)
LEMMA CountedSetsNext ==
  ASSUME NEW i
  PROVE  /\ IsFiniteSet(Owing(i)') /\ Cardinality(Owing(i)') \in Nat
         /\ IsFiniteSet(Pushed(i)') /\ Cardinality(Pushed(i)') \in Nat
<1>1. Owing(i)' \in SUBSET Producers /\ Pushed(i)' \in SUBSET Producers
  BY DEF Owing, Pushed
<1>. QED  BY <1>1, ProducersFinite, FS_Subset, FS_CardinalityType DEF Num

(* What the bookkeeping leaves room for: an announced segment is counted   *)
(* within the width of the counter, and a consumer that still waits for a  *)
(* segment has been served less than Num.                                  *)
LEMMA Room ==
  ASSUME IInv, NEW i \in Queues
  PROVE  /\ Len(q[i]) \in Nat
         /\ Len(q[i]) + served[i] <= Num
         /\ count[i] + Cardinality(Owing(i)) <= Num
<1>1. Len(q[i]) \in Nat /\ count[i] \in Nat /\ served[i] \in Nat
  BY ProducersFinite, CountModAssumption DEF IInv, TypeOK
<1>2. Len(q[i]) + served[i] <= Num
  BY CountedSets DEF IInv, PushesServedOrQueued
<1>3. Len(q[i]) = count[i] + Cardinality(Owing(i))
                  + (IF pc[i] \in {"fetch", "xor"} THEN 1 ELSE 0)
  BY DEF IInv, SemaphoreCountsSegments
<1>. QED  BY <1>1, <1>2, <1>3, CountedSets, ProducersFinite

-----------------------------------------------------------------------------
(* Before the phase starts nothing is pushed, counted or fetched.          *)
LEMMA InitIInv == Init => IInv
<1>. SUFFICES ASSUME Init PROVE IInv
  OBVIOUS
<1>. USE DEF Init
<1>1. TypeOK
  <2>1. 0 \in 0 .. NumQueues /\ 0 \in 0 .. Nbf /\ 0 \in 0 .. Num /\ 0 \in 0 .. CountMod - 1
    BY NbfAssumption, QueuesAssumption, CountModAssumption, ProducersFinite
  <2>2. <<>> \in Seq(Segments) /\ {} \in SUBSET Producers /\ "wait" \in ConsumerStates
    BY DEF ConsumerStates
  <2>. QED  BY <2>1, <2>2 DEF TypeOK
<1>2. TicketMeansSegment
  BY DEF TicketMeansSegment
<1>3. \A i \in Queues : Owing(i) = {} /\ Pushed(i) = {}
  BY DEF Owing, Pushed, Queues
<1>4. SemaphoreCountsSegments /\ PushesServedOrQueued
  <2>1. \A i \in Queues : Cardinality(Owing(i)) = 0 /\ Cardinality(Pushed(i)) = 0
    BY <1>3, FS_EmptySet
  <2>2. \A i \in Queues : /\ Len(q[i]) = 0 /\ count[i] = 0 /\ served[i] = 0
                          /\ pc[i] \notin {"fetch", "xor"}
    OBVIOUS
  <2>. QED  BY <2>1, <2>2 DEF SemaphoreCountsSegments, PushesServedOrQueued
<1>5. OwesAQueue /\ WakeMeansCount /\ RangesInPlace /\ CursorInRange
  BY DEF OwesAQueue, WakeMeansCount, RangesInPlace, CursorInRange
<1>. QED  BY <1>1, <1>2, <1>4, <1>5 DEF IInv

(* A push adds one segment and one producer that owes its notification.    *)
LEMMA PushKeeps ==
  ASSUME IInv, NEW p \in Producers, Push(p)
  PROVE  IInv'
<1>. DEFINE i == next[p]
<1>. USE DEF IInv
<1>0. /\ i \in Queues
      /\ ~owes[p]
      /\ q' = [q EXCEPT ![i] = Append(@, Gbf_seg(p, i))]
      /\ owes' = [owes EXCEPT ![p] = TRUE]
      /\ UNCHANGED <<next, count, pc, seg, cursor, served, gbf, joined>>
  BY QueuesAssumption DEF Push, consVars, TypeOK, Queues
<1>1. Gbf_seg(p, i) \in Segments
  BY <1>0, RangeInFilter DEF Gbf_seg, Segments
<1>2. TypeOK'
  BY <1>0, <1>1 DEF TypeOK
<1>3. \A j \in Queues : /\ q[j] \in Seq(Segments) /\ Len(q[j]) \in Nat
                        /\ q'[j] = IF j = i THEN Append(q[i], Gbf_seg(p, i)) ELSE q[j]
                        /\ Len(q'[j]) = Len(q[j]) + (IF j = i THEN 1 ELSE 0)
  BY <1>0, <1>1 DEF TypeOK
<1>4. TicketMeansSegment'
  <2>. SUFFICES ASSUME NEW j \in Queues
                PROVE  /\ pc[j] # "undefined"
                       /\ pc[j] \in {"fetch", "xor"} => q'[j] # <<>>
                       /\ pc[j] = "xor" => seg[j] = Head(q'[j])
    BY <1>0 DEF TicketMeansSegment
  <2>1. q[j] # <<>> => q'[j] # <<>> /\ Head(q'[j]) = Head(q[j])
    <3>1. CASE j = i
      <4>1. q[i] \in Seq(Segments) /\ q'[j] = Append(q[i], Gbf_seg(p, i))
        BY <1>0, <1>3, <3>1
      <4>. QED  BY <1>1, <3>1, <4>1
    <3>2. CASE j # i
      BY <1>3, <3>2
    <3>. QED  BY <3>1, <3>2
  <2>. QED  BY <2>1 DEF TicketMeansSegment
<1>5. \A j \in Queues : /\ Cardinality(Owing(j)') = Cardinality(Owing(j))
                                                     + (IF j = i THEN 1 ELSE 0)
                        /\ Cardinality(Pushed(j)') = Cardinality(Pushed(j))
                                                     + (IF j = i THEN 1 ELSE 0)
  <2>. TAKE j \in Queues
  <2>1. CASE j = i
    <3>1. /\ Owing(j)' = Owing(j) \cup {p} /\ p \notin Owing(j)
          /\ Pushed(j)' = Pushed(j) \cup {p} /\ p \notin Pushed(j)
      BY <1>0, <2>1 DEF Owing, Pushed, TypeOK, Queues
    <3>. QED  BY <2>1, <3>1, CountedSets, FS_AddElement
  <2>2. CASE j # i
    <3>1. Owing(j)' = Owing(j) /\ Pushed(j)' = Pushed(j)
      BY <1>0, <2>2 DEF Owing, Pushed, TypeOK, Queues
    <3>. QED  BY <2>2, <3>1, CountedSets
  <2>. QED  BY <2>1, <2>2
<1>6. SemaphoreCountsSegments'
  <2>1. \A j \in Queues : count[j] \in Nat
    BY CountModAssumption DEF TypeOK
  <2>. SUFFICES ASSUME NEW j \in Queues
                PROVE  Len(q'[j]) = count[j] + Cardinality(Owing(j)')
                                    + (IF pc[j] \in {"fetch", "xor"} THEN 1 ELSE 0)
    BY <1>0 DEF SemaphoreCountsSegments
  <2>2. Len(q[j]) = count[j] + Cardinality(Owing(j))
                    + (IF pc[j] \in {"fetch", "xor"} THEN 1 ELSE 0)
    BY DEF SemaphoreCountsSegments
  <2>. HIDE DEF i
  <2>3. Len(q[j]) \in Nat /\ Len(q'[j]) = Len(q[j]) + (IF j = i THEN 1 ELSE 0)
    BY <1>3
  <2>4. /\ Cardinality(Owing(j)) \in Nat
        /\ Cardinality(Owing(j)') = Cardinality(Owing(j)) + (IF j = i THEN 1 ELSE 0)
    BY <1>5, CountedSets
  <2>. QED  BY <2>1, <2>2, <2>3, <2>4
<1>7. PushesServedOrQueued'
  <2>. SUFFICES ASSUME NEW j \in Queues
                PROVE  Cardinality(Pushed(j)') = Len(q'[j]) + served[j]
    BY <1>0 DEF PushesServedOrQueued
  <2>1. served[j] \in Nat
    BY ProducersFinite DEF TypeOK
  <2>2. Cardinality(Pushed(j)) = Len(q[j]) + served[j]
    BY DEF PushesServedOrQueued
  <2>. HIDE DEF i
  <2>3. Len(q[j]) \in Nat /\ Len(q'[j]) = Len(q[j]) + (IF j = i THEN 1 ELSE 0)
    BY <1>3
  <2>4. /\ Cardinality(Pushed(j)) \in Nat
        /\ Cardinality(Pushed(j)') = Cardinality(Pushed(j)) + (IF j = i THEN 1 ELSE 0)
    BY <1>5, CountedSets
  <2>5. CASE j = i
    BY <2>1, <2>2, <2>3, <2>4, <2>5
  <2>6. CASE j # i
    BY <2>1, <2>2, <2>3, <2>4, <2>6
  <2>. QED  BY <2>5, <2>6
<1>8. OwesAQueue' /\ WakeMeansCount' /\ CursorInRange'
  <2>1. OwesAQueue'
    BY <1>0, QueuesAssumption DEF OwesAQueue, TypeOK, Queues
  <2>2. WakeMeansCount' /\ CursorInRange'
    BY <1>0 DEF WakeMeansCount, CursorInRange
  <2>. QED  BY <2>1, <2>2
<1>9. RangesInPlace'
  <2>. SUFFICES ASSUME NEW j \in Queues
                PROVE  \A k \in 1 .. Len(q'[j]) :
                         q'[j][k].start = First(j) /\ q'[j][k].end = End(j)
    BY DEF RangesInPlace
  <2>1. CASE j = i
    <3>1. /\ q[i] \in Seq(Segments)
          /\ q'[j] = Append(q[i], Gbf_seg(p, i))
      BY <1>3, <1>0, <2>1
    <3>2. \A k \in 1 .. Len(q'[j]) :
             q'[j][k] = IF k <= Len(q[i]) THEN q[i][k] ELSE Gbf_seg(p, i)
      BY <3>1, <1>1
    <3>. HIDE DEF i
    <3>. QED  BY <1>0, <1>3, <2>1, <3>2 DEF RangesInPlace, Gbf_seg
  <2>2. CASE j # i
    BY <1>3, <2>2 DEF RangesInPlace
  <2>. QED  BY <2>1, <2>2
<1>. QED  BY <1>2, <1>4, <1>6, <1>7, <1>8, <1>9

(* A notification moves one segment from owed to counted, and may wake.    *)
LEMMA NotifyKeeps ==
  ASSUME IInv, NEW p \in Producers, Notify(p)
  PROVE  IInv'
<1>. DEFINE i == next[p]
<1>. USE DEF IInv
<1>0. /\ i \in Queues
      /\ owes[p]
      /\ count' = [count EXCEPT ![i] = (@ + 1) % CountMod]
      /\ pc' = [pc EXCEPT ![i] = IF @ = "blocked" THEN "woken" ELSE @]
      /\ owes' = [owes EXCEPT ![p] = FALSE]
      /\ next' = [next EXCEPT ![p] = i + 1]
      /\ UNCHANGED <<q, seg, cursor, served, gbf, joined>>
  BY QueuesAssumption DEF Notify, OwesAQueue, TypeOK, Queues
<1>1. p \in Owing(i)
  BY <1>0 DEF Owing
<1>2. count[i] + 1 \in 1 .. CountMod - 1
  <2>1. Cardinality(Owing(i)) # 0
    BY <1>1, CountedSets, FS_EmptySet
  <2>2. count[i] \in Nat
    BY <1>0, CountModAssumption DEF TypeOK
  <2>. HIDE DEF i, IInv
  <2>. QED  BY <1>0, <2>1, <2>2, Room, CountedSets, CountModAssumption, ProducersFinite
<1>3. count' = [count EXCEPT ![i] = count[i] + 1]
  <2>1. (count[i] + 1) % CountMod = count[i] + 1
    BY <1>2, NoWrap
  <2>. QED  BY <1>0, <2>1 DEF TypeOK
<1>4. TypeOK'
  <2>1. next' \in [Producers -> 0 .. NumQueues]
    <3>1. i + 1 \in 0 .. NumQueues
      BY <1>0, QueuesAssumption DEF Queues
    <3>. HIDE DEF i
    <3>. QED  BY <1>0, <3>1 DEF TypeOK
  <2>2. count' \in [Queues -> 0 .. CountMod - 1]
    BY <1>0, <1>2, <1>3 DEF TypeOK
  <2>3. pc' \in [Queues -> ConsumerStates]
    BY <1>0 DEF TypeOK, ConsumerStates
  <2>. QED  BY <1>0, <2>1, <2>2, <2>3 DEF TypeOK
<1>5. \A j \in Queues : /\ Cardinality(Owing(j)') = Cardinality(Owing(j))
                                                     - (IF j = i THEN 1 ELSE 0)
                        /\ Pushed(j)' = Pushed(j)
  <2>. TAKE j \in Queues
  <2>1. Pushed(j)' = Pushed(j)
    <3>1. \A r \in Producers : (next'[r] > j \/ (next'[r] = j /\ owes'[r]))
                               <=> (next[r] > j \/ (next[r] = j /\ owes[r]))
      <4>. TAKE r \in Producers
      <4>1. CASE r = p
        BY <1>0, <4>1 DEF TypeOK, Queues
      <4>2. CASE r # p
        BY <1>0, <4>2 DEF TypeOK
      <4>. QED  BY <4>1, <4>2
    <3>. QED  BY <3>1 DEF Pushed
  <2>2. CASE j = i
    <3>1. Owing(j)' = Owing(j) \ {p} /\ p \in Owing(j)
      BY <1>0, <1>1, <2>2, QueuesAssumption DEF Owing, TypeOK, Queues
    <3>. QED  BY <2>1, <2>2, <3>1, CountedSets, FS_RemoveElement
  <2>3. CASE j # i
    <3>1. Owing(j)' = Owing(j)
      BY <1>0, <2>3 DEF Owing, TypeOK
    <3>. QED  BY <2>1, <2>3, <3>1, CountedSets
  <2>. QED  BY <2>2, <2>3
<1>6. \A j \in Queues : /\ pc'[j] \in {"fetch", "xor"} <=> pc[j] \in {"fetch", "xor"}
                        /\ pc'[j] = "xor" <=> pc[j] = "xor"
                        /\ pc'[j] = "undefined" <=> pc[j] = "undefined"
  BY <1>0 DEF TypeOK
<1>7. TicketMeansSegment' /\ RangesInPlace' /\ CursorInRange'
  BY <1>0, <1>6 DEF TicketMeansSegment, RangesInPlace, CursorInRange
<1>8. SemaphoreCountsSegments'
  <2>. SUFFICES ASSUME NEW j \in Queues
                PROVE  Len(q[j]) = count'[j] + Cardinality(Owing(j)')
                                   + (IF pc'[j] \in {"fetch", "xor"} THEN 1 ELSE 0)
    BY <1>0 DEF SemaphoreCountsSegments
  <2>1. /\ Len(q[j]) = count[j] + Cardinality(Owing(j))
                      + (IF pc'[j] \in {"fetch", "xor"} THEN 1 ELSE 0)
        /\ count[j] \in Nat /\ Cardinality(Owing(j)) \in Nat
    BY <1>6, CountedSets, CountModAssumption DEF SemaphoreCountsSegments, TypeOK
  <2>2. CASE j = i
    BY <1>0, <1>3, <1>5, <2>1, <2>2 DEF TypeOK
  <2>3. CASE j # i
    BY <1>0, <1>3, <1>5, <2>1, <2>3 DEF TypeOK
  <2>. QED  BY <2>2, <2>3
<1>9. PushesServedOrQueued'
  BY <1>0, <1>5 DEF PushesServedOrQueued
<1>10. OwesAQueue'
  BY <1>0 DEF OwesAQueue, TypeOK
<1>11. WakeMeansCount'
  BY <1>0, <1>2, <1>3 DEF WakeMeansCount, TypeOK
<1>. QED  BY <1>4, <1>7, <1>8, <1>9, <1>10, <1>11

(* Consumers leave the counted sets of the producers alone.                *)
LEMMA SameProducers ==
  ASSUME UNCHANGED prodVars, NEW i
  PROVE  Owing(i)' = Owing(i) /\ Pushed(i)' = Pushed(i)
  BY DEF prodVars, Owing, Pushed

(* A ticket is taken only when one is there; it stands for a segment.      *)
LEMMA TicketKeeps ==
  ASSUME IInv, NEW i \in Queues, pc[i] \in {"wait", "woken"}, count[i] > 0,
         TakeTicket(i), UNCHANGED <<prodVars, q, seg, cursor, served, gbf, joined>>
  PROVE  IInv'
<1>. USE DEF IInv
<1>1. UNCHANGED <<next, owes, q, seg, cursor, served, gbf, joined>>
  BY DEF prodVars
<1>2. count[i] \in 1 .. CountMod - 1
  BY CountModAssumption DEF TypeOK
<1>3. /\ count' = [count EXCEPT ![i] = count[i] - 1]
      /\ pc' = [pc EXCEPT ![i] = "fetch"]
  <2>1. count[i] - 1 \in 0 .. CountMod - 1
    BY <1>2, CountModAssumption
  <2>. QED  BY <2>1, NoWrap DEF TakeTicket
<1>4. TypeOK'
  <2>1. count[i] - 1 \in 0 .. CountMod - 1
    BY <1>2, CountModAssumption
  <2>2. count' \in [Queues -> 0 .. CountMod - 1]
    BY <1>3, <2>1 DEF TypeOK
  <2>3. pc' \in [Queues -> ConsumerStates]
    BY <1>3 DEF TypeOK, ConsumerStates
  <2>. QED  BY <1>1, <2>2, <2>3 DEF TypeOK
<1>5. q[i] # <<>>
  <2>1. Len(q[i]) = count[i] + Cardinality(Owing(i)) + 0
    BY DEF SemaphoreCountsSegments
  <2>2. Len(q[i]) # 0
    BY <1>2, <2>1, CountedSets
  <2>. QED  BY <2>2 DEF TypeOK
<1>6. TicketMeansSegment'
  BY <1>1, <1>3, <1>5 DEF TicketMeansSegment, TypeOK
<1>7. SemaphoreCountsSegments'
  <2>. SUFFICES ASSUME NEW j \in Queues
                PROVE  Len(q[j]) = count'[j] + Cardinality(Owing(j))
                                   + (IF pc'[j] \in {"fetch", "xor"} THEN 1 ELSE 0)
    BY <1>1, SameProducers DEF SemaphoreCountsSegments
  <2>1. /\ Len(q[j]) = count[j] + Cardinality(Owing(j))
                      + (IF pc[j] \in {"fetch", "xor"} THEN 1 ELSE 0)
        /\ count[j] \in Nat /\ Cardinality(Owing(j)) \in Nat
    BY CountedSets, CountModAssumption DEF SemaphoreCountsSegments, TypeOK
  <2>2. CASE j = i
    <3>1. count'[j] = count[j] - 1 /\ pc'[j] = "fetch"
      BY <1>3, <2>2 DEF TypeOK
    <3>2. pc[j] \notin {"fetch", "xor"}
      BY <2>2
    <3>. QED  BY <1>2, <2>1, <3>1, <3>2
  <2>3. CASE j # i
    BY <1>3, <2>1, <2>3 DEF TypeOK
  <2>. QED  BY <2>2, <2>3
<1>8. PushesServedOrQueued'
  BY <1>1, SameProducers DEF PushesServedOrQueued
<1>9. OwesAQueue' /\ RangesInPlace'
  BY <1>1 DEF OwesAQueue, RangesInPlace
<1>10. WakeMeansCount' /\ CursorInRange'
  BY <1>1, <1>3 DEF WakeMeansCount, CursorInRange, TypeOK
<1>. QED  BY <1>4, <1>6, <1>7, <1>8, <1>9, <1>10

(* wait() blocks on count_ = 0 or takes a ticket.                          *)
LEMMA WaitKeeps ==
  ASSUME IInv, NEW i \in Queues, Wait(i)
  PROVE  IInv'
<1>1. CASE count[i] > 0
  <2>1. /\ pc[i] \in {"wait", "woken"}
        /\ TakeTicket(i)
        /\ UNCHANGED <<prodVars, q, seg, cursor, served, gbf, joined>>
    BY <1>1, CountModAssumption DEF Wait, IInv, TypeOK
  <2>. QED  BY <1>1, <2>1, TicketKeeps
<1>2. CASE ~(count[i] > 0)
  <2>. USE DEF IInv
  <2>1. /\ pc[i] = "wait"
        /\ count[i] = 0
        /\ pc' = [pc EXCEPT ![i] = "blocked"]
        /\ UNCHANGED <<next, owes, count, q, seg, cursor, served, gbf, joined, prodVars>>
    BY <1>2, CountModAssumption DEF Wait, TypeOK, prodVars
  <2>2. TypeOK'
    BY <2>1 DEF TypeOK, ConsumerStates
  <2>3. \A j \in Queues : /\ pc'[j] \in {"fetch", "xor"} <=> pc[j] \in {"fetch", "xor"}
                          /\ pc'[j] = "xor" <=> pc[j] = "xor"
                          /\ pc'[j] = "undefined" <=> pc[j] = "undefined"
                          /\ pc'[j] = "woken" <=> pc[j] = "woken"
    BY <2>1 DEF TypeOK
  <2>4. TicketMeansSegment' /\ RangesInPlace' /\ CursorInRange' /\ OwesAQueue'
    BY <2>1, <2>3 DEF TicketMeansSegment, RangesInPlace, CursorInRange, OwesAQueue
  <2>5. SemaphoreCountsSegments' /\ PushesServedOrQueued'
    BY <2>1, <2>3, SameProducers DEF SemaphoreCountsSegments, PushesServedOrQueued
  <2>6. WakeMeansCount'
    BY <2>1, <2>3 DEF WakeMeansCount, TypeOK
  <2>. QED  BY <2>2, <2>4, <2>5, <2>6
<1>. QED  BY <1>1, <1>2

LEMMA ResumeKeeps ==
  ASSUME IInv, NEW i \in Queues, Resume(i)
  PROVE  IInv'
<1>1. /\ pc[i] \in {"wait", "woken"}
      /\ count[i] > 0
      /\ TakeTicket(i)
      /\ UNCHANGED <<prodVars, q, seg, cursor, served, gbf, joined>>
  BY DEF Resume, IInv, WakeMeansCount
<1>. QED  BY <1>1, TicketKeeps

(* front() returns a segment of the consumer's own range.                  *)
LEMMA FetchKeeps ==
  ASSUME IInv, NEW i \in Queues, Fetch(i)
  PROVE  IInv'
<1>. USE DEF IInv
<1>1. /\ pc[i] = "fetch"
      /\ q[i] # <<>>
      /\ pc' = [pc EXCEPT ![i] = "xor"]
      /\ seg' = [seg EXCEPT ![i] = Head(q[i])]
      /\ cursor' = [cursor EXCEPT ![i] = seg'[i].start]
      /\ UNCHANGED <<next, owes, q, count, served, gbf, joined, prodVars>>
  BY DEF Fetch, TicketMeansSegment, prodVars
<1>2. /\ Head(q[i]) \in Segments
      /\ Head(q[i]).start = First(i) /\ Head(q[i]).end = End(i)
  <2>1. q[i] \in Seq(Segments) /\ Len(q[i]) \in Nat /\ Len(q[i]) # 0
    BY <1>1 DEF TypeOK
  <2>2. Head(q[i]) = q[i][1] /\ 1 \in 1 .. Len(q[i]) /\ q[i][1] \in Segments
    BY <2>1
  <2>. QED  BY <2>2 DEF RangesInPlace
<1>3. seg'[i] = Head(q[i]) /\ cursor' = [cursor EXCEPT ![i] = First(i)]
  BY <1>1, <1>2 DEF TypeOK
<1>4. TypeOK'
  <2>1. pc' \in [Queues -> ConsumerStates]
    BY <1>1 DEF TypeOK, ConsumerStates
  <2>2. seg' \in [Queues -> Segments \cup {NoSeg}]
    BY <1>1, <1>2 DEF TypeOK
  <2>3. cursor' \in [Queues -> 0 .. Nbf]
    BY <1>3, RangeInFilter DEF TypeOK
  <2>. QED  BY <1>1, <2>1, <2>2, <2>3 DEF TypeOK
<1>5. TicketMeansSegment'
  BY <1>1, <1>3 DEF TicketMeansSegment, TypeOK
<1>6. SemaphoreCountsSegments' /\ PushesServedOrQueued'
  <2>1. \A j \in Queues : pc'[j] \in {"fetch", "xor"} <=> pc[j] \in {"fetch", "xor"}
    BY <1>1 DEF TypeOK
  <2>. QED  BY <1>1, <2>1, SameProducers DEF SemaphoreCountsSegments, PushesServedOrQueued
<1>7. OwesAQueue' /\ RangesInPlace'
  BY <1>1 DEF OwesAQueue, RangesInPlace
<1>8. WakeMeansCount'
  BY <1>1 DEF WakeMeansCount, TypeOK
<1>9. CursorInRange'
  <2>1. First(i) \in First(i) .. End(i)
    BY RangeInFilter
  <2>. QED  BY <1>1, <1>3, <2>1 DEF CursorInRange, TypeOK
<1>. QED  BY <1>4, <1>5, <1>6, <1>7, <1>8, <1>9

(* The segment being XORed is of the consumer's range.                     *)
LEMMA SegInPlace ==
  ASSUME IInv, NEW i \in Queues, pc[i] = "xor"
  PROVE  /\ seg[i] \in Segments
         /\ seg[i].start = First(i) /\ seg[i].end = End(i)
         /\ cursor[i] \in First(i) .. End(i)
<1>. USE DEF IInv
<1>1. q[i] # <<>> /\ seg[i] = Head(q[i])
  BY DEF TicketMeansSegment
<1>2. q[i] \in Seq(Segments) /\ Len(q[i]) \in Nat /\ Len(q[i]) # 0
  BY <1>1 DEF TypeOK
<1>3. seg[i] = q[i][1] /\ 1 \in 1 .. Len(q[i]) /\ q[i][1] \in Segments
  BY <1>1, <1>2
<1>. QED  BY <1>3 DEF RangesInPlace, CursorInRange

LEMMA XorKeeps ==
  ASSUME IInv, NEW i \in Queues, Xor(i)
  PROVE  IInv'
<1>. USE DEF IInv
<1>1. /\ pc[i] = "xor"
      /\ cursor[i] < seg[i].end
      /\ gbf' = [gbf EXCEPT ![cursor[i]] = SymDiff(@, {seg[i].src})]
      /\ cursor' = [cursor EXCEPT ![i] = cursor[i] + 1]
      /\ UNCHANGED <<next, owes, q, count, pc, seg, served, joined, prodVars>>
  BY DEF Xor, prodVars
<1>2. /\ cursor[i] \in Cells
      /\ cursor[i] + 1 \in First(i) .. End(i)
      /\ cursor[i] + 1 \in 0 .. Nbf
      /\ seg[i].src \in Producers
  BY <1>1, SegInPlace, RangeInFilter, NbfAssumption DEF Cells, Segments
<1>3. TypeOK'
  <2>1. cursor' \in [Queues -> 0 .. Nbf]
    BY <1>1, <1>2 DEF TypeOK
  <2>2. SymDiff(gbf[cursor[i]], {seg[i].src}) \in SUBSET Producers
    BY <1>2 DEF TypeOK, SymDiff
  <2>3. gbf' \in [Cells -> SUBSET Producers]
    BY <1>1, <1>2, <2>2 DEF TypeOK
  <2>. QED  BY <1>1, <2>1, <2>3 DEF TypeOK
<1>4. SemaphoreCountsSegments' /\ PushesServedOrQueued'
  BY <1>1, SameProducers DEF SemaphoreCountsSegments, PushesServedOrQueued
<1>5. TicketMeansSegment' /\ OwesAQueue' /\ WakeMeansCount' /\ RangesInPlace'
  BY <1>1 DEF TicketMeansSegment, OwesAQueue, WakeMeansCount, RangesInPlace
<1>6. CursorInRange'
  BY <1>1, <1>2 DEF CursorInRange, TypeOK
<1>. QED  BY <1>3, <1>4, <1>5, <1>6

(* pop() takes the segment that was XORed; a consumer is served at most    *)
(* Num times, for a segment it had to find in the queue.                   *)
LEMMA PopKeeps ==
  ASSUME IInv, NEW i \in Queues, Pop(i)
  PROVE  IInv'
<1>. USE DEF IInv
<1>1. /\ pc[i] = "xor"
      /\ q[i] # <<>>
      /\ q' = [q EXCEPT ![i] = Tail(q[i])]
      /\ served' = [served EXCEPT ![i] = served[i] + 1]
      /\ pc' = [pc EXCEPT ![i] = IF served'[i] < Num THEN "wait" ELSE "done"]
      /\ UNCHANGED <<next, owes, count, seg, cursor, gbf, joined, prodVars>>
  BY DEF Pop, TicketMeansSegment, prodVars
<1>2. /\ q[i] \in Seq(Segments) /\ Len(q[i]) \in Nat /\ Len(q[i]) >= 1
      /\ Tail(q[i]) \in Seq(Segments)
      /\ Len(Tail(q[i])) = Len(q[i]) - 1
      /\ \A k \in 1 .. Len(Tail(q[i])) : Tail(q[i])[k] = q[i][k + 1]
  BY <1>1 DEF TypeOK
<1>3. served[i] \in Nat /\ served[i] + 1 \in 0 .. Num
  BY <1>2, Room, ProducersFinite DEF TypeOK
<1>4. pc'[i] \in {"wait", "done"} /\ \A j \in Queues : j # i => pc'[j] = pc[j]
  BY <1>1 DEF TypeOK
<1>5. /\ q'[i] = Tail(q[i]) /\ served'[i] = served[i] + 1
      /\ \A j \in Queues : j # i => q'[j] = q[j] /\ served'[j] = served[j]
      /\ Len(q'[i]) = Len(q[i]) - 1
  <2>1. q'[i] = Tail(q[i])
    BY <1>1 DEF TypeOK
  <2>2. Len(q'[i]) = Len(q[i]) - 1
    BY <1>2, <2>1
  <2>. QED  BY <1>1, <2>1, <2>2 DEF TypeOK
<1>6. TypeOK'
  <2>1. pc' \in [Queues -> ConsumerStates]
    BY <1>1, <1>4 DEF TypeOK, ConsumerStates
  <2>2. q' \in [Queues -> Seq(Segments)]
    BY <1>1, <1>2 DEF TypeOK
  <2>3. served' \in [Queues -> 0 .. Num]
    BY <1>1, <1>3 DEF TypeOK
  <2>. QED  BY <1>1, <2>1, <2>2, <2>3 DEF TypeOK
<1>7. TicketMeansSegment'
  BY <1>1, <1>4, <1>5 DEF TicketMeansSegment
<1>8. SemaphoreCountsSegments'
  <2>. SUFFICES ASSUME NEW j \in Queues
                PROVE  Len(q'[j]) = count[j] + Cardinality(Owing(j))
                                    + (IF pc'[j] \in {"fetch", "xor"} THEN 1 ELSE 0)
    BY <1>1, SameProducers DEF SemaphoreCountsSegments
  <2>1. /\ Len(q[j]) = count[j] + Cardinality(Owing(j))
                      + (IF pc[j] \in {"fetch", "xor"} THEN 1 ELSE 0)
        /\ count[j] \in Nat /\ Cardinality(Owing(j)) \in Nat
    BY CountedSets, CountModAssumption DEF SemaphoreCountsSegments, TypeOK
  <2>2. CASE j = i
    <3>1. Len(q[i]) = count[i] + Cardinality(Owing(i)) + 1
      BY <1>1, <2>1, <2>2
    <3>2. pc'[j] \notin {"fetch", "xor"}
      BY <1>4, <2>2
    <3>3. Len(q'[i]) = count[i] + Cardinality(Owing(i)) + 0
      BY <1>2, <1>5, <2>1, <2>2, <3>1
    <3>. QED  BY <2>2, <3>2, <3>3
  <2>3. CASE j # i
    BY <1>4, <1>5, <2>1, <2>3
  <2>. QED  BY <2>2, <2>3
<1>9. PushesServedOrQueued'
  <2>. SUFFICES ASSUME NEW j \in Queues
                PROVE  Cardinality(Pushed(j)) = Len(q'[j]) + served'[j]
    BY <1>1, SameProducers DEF PushesServedOrQueued
  <2>1. Cardinality(Pushed(j)) = Len(q[j]) + served[j]
    BY DEF PushesServedOrQueued
  <2>2. CASE j = i
    <3>1. Len(q'[i]) = Len(q[i]) - 1 /\ served'[i] = served[i] + 1
      BY <1>5
    <3>2. (Len(q[i]) - 1) + (served[i] + 1) = Len(q[i]) + served[i]
      BY <1>2, <1>3
    <3>. QED  BY <2>1, <2>2, <3>1, <3>2
  <2>3. CASE j # i
    BY <1>5, <2>1, <2>3
  <2>. QED  BY <2>2, <2>3
<1>10. OwesAQueue'
  BY <1>1 DEF OwesAQueue
<1>11. WakeMeansCount' /\ CursorInRange'
  BY <1>1, <1>4 DEF WakeMeansCount, CursorInRange
<1>12. RangesInPlace'
  <2>. SUFFICES ASSUME NEW j \in Queues
                PROVE  \A k \in 1 .. Len(q'[j]) :
                         q'[j][k].start = First(j) /\ q'[j][k].end = End(j)
    BY DEF RangesInPlace
  <2>1. CASE j = i
    <3>1. q'[j] = Tail(q[i]) /\ Len(q'[j]) = Len(q[i]) - 1
      BY <1>5, <2>1
    <3>2. \A k \in 1 .. Len(q'[j]) : k + 1 \in 1 .. Len(q[i])
      BY <1>2, <3>1
    <3>3. \A k \in 1 .. Len(q'[j]) : q'[j][k] = q[i][k + 1]
      BY <1>2, <3>1
    <3>. QED  BY <2>1, <3>2, <3>3 DEF RangesInPlace
  <2>2. CASE j # i
    BY <1>5, <2>2 DEF RangesInPlace
  <2>. QED  BY <2>1, <2>2
<1>. QED  BY <1>6, <1>7, <1>8, <1>9, <1>10, <1>11, <1>12

-----------------------------------------------------------------------------
LEMMA NextIInv == IInv /\ [Next]_vars => IInv'
<1>. SUFFICES ASSUME IInv, [Next]_vars PROVE IInv'
  OBVIOUS
<1>1. CASE \E p \in Producers : Producer(p)
  BY <1>1, PushKeeps, NotifyKeeps DEF Producer
<1>2. CASE \E i \in Queues : Consumer(i)
  BY <1>2, WaitKeeps, ResumeKeeps, FetchKeeps, XorKeeps, PopKeeps DEF Consumer
<1>3. CASE Join
  <2>. USE DEF IInv
  <2>1. /\ joined' = TRUE
        /\ UNCHANGED <<next, owes, q, count, pc, seg, cursor, served, gbf, prodVars>>
    BY <1>3 DEF Join, prodVars, consVars
  <2>2. TypeOK'
    BY <2>1 DEF TypeOK
  <2>3. SemaphoreCountsSegments' /\ PushesServedOrQueued'
    BY <2>1, SameProducers DEF SemaphoreCountsSegments, PushesServedOrQueued
  <2>4. /\ TicketMeansSegment' /\ OwesAQueue' /\ WakeMeansCount'
        /\ RangesInPlace' /\ CursorInRange'
    BY <2>1 DEF TicketMeansSegment, OwesAQueue, WakeMeansCount, RangesInPlace, CursorInRange
  <2>. QED  BY <2>2, <2>3, <2>4
<1>4. CASE UNCHANGED vars
  <2>. USE DEF IInv
  <2>1. UNCHANGED <<next, owes, q, count, pc, seg, cursor, served, gbf, joined, prodVars>>
    BY <1>4 DEF vars, prodVars
  <2>2. SemaphoreCountsSegments' /\ PushesServedOrQueued'
    BY <2>1, SameProducers DEF SemaphoreCountsSegments, PushesServedOrQueued
  <2>3. /\ TypeOK' /\ TicketMeansSegment' /\ OwesAQueue' /\ WakeMeansCount'
        /\ RangesInPlace' /\ CursorInRange'
    BY <2>1 DEF TypeOK, TicketMeansSegment, OwesAQueue, WakeMeansCount, RangesInPlace,
                CursorInRange
  <2>. QED  BY <2>2, <2>3
<1>. QED  BY <1>1, <1>2, <1>3, <1>4 DEF Next, Terminated

(* The inductive invariant holds in every reachable state.                 *)
THEOREM Invariance == Spec => []IInv
  BY InitIInv, NextIInv, PTL DEF Spec

(* The variables keep their types: in particular no count_ wraps around    *)
(* and no cursor leaves the filter (Functions.h:47-52, Functions.cpp:824). *)
THEOREM TypeCorrect == Spec => []TypeOK
<1>1. IInv => TypeOK
  BY DEF IInv
<1>. QED  BY <1>1, Invariance, PTL

(* run_xoring never reads the front of an empty queue, and it pops the     *)
(* segment that it XORed, as long as wait() returns only when notified.    *)
THEOREM NoEmptyFront == Spec => []TicketMeansSegment
<1>1. IInv => TicketMeansSegment
  BY DEF IInv
<1>. QED  BY <1>1, Invariance, PTL

(* No notification is lost or counted twice.                               *)
THEOREM SemaphoreExact == Spec => []SemaphoreCountsSegments
<1>1. IInv => SemaphoreCountsSegments
  BY DEF IInv
<1>. QED  BY <1>1, Invariance, PTL

(* The consumers XOR into disjoint parts of the filter, so the loops of    *)
(* run_xoring need no lock.                                                *)
THEOREM NoSharedCell == Spec => []ExclusiveCells
<1>1. IInv => ExclusiveCells
  <2>. SUFFICES ASSUME IInv, NEW i \in Queues, NEW j \in Queues, i # j,
                       pc[i] = "xor", cursor[i] < seg[i].end,
                       pc[j] = "xor", cursor[j] < seg[j].end
                PROVE  cursor[i] # cursor[j]
    BY DEF ExclusiveCells
  <2>1. /\ cursor[i] \in First(i) .. End(i) /\ cursor[i] < End(i)
        /\ cursor[j] \in First(j) .. End(j) /\ cursor[j] < End(j)
    BY SegInPlace
  <2>2. /\ First(i) \in Int /\ End(i) \in Int
        /\ First(j) \in Int /\ End(j) \in Int
    BY RangeInFilter
  <2>3. CASE i < j
    BY <2>1, <2>2, <2>3, RangesDisjoint
  <2>4. CASE j < i
    BY <2>1, <2>2, <2>4, RangesDisjoint
  <2>. QED  BY <2>3, <2>4, QueuesAssumption DEF Queues
<1>. QED  BY <1>1, Invariance, PTL

-----------------------------------------------------------------------------
(* What the consumers leave in the filter: each cell receives the string   *)
(* of each thread exactly once, and nothing is missing when the main       *)
(* thread frees the queues.                                                *)

(* The producers whose segment waits in queue i.                           *)
QueuedFor(i) == {q[i][n].src : n \in 1 .. Len(q[i])}

(* No producer has two segments in a queue, and none has one that it did   *)
(* not push.                                                               *)
OnceInQueue ==
  \A i \in Queues :
    /\ QueuedFor(i) \subseteq Pushed(i)
    /\ \A m, n \in 1 .. Len(q[i]) : q[i][m].src = q[i][n].src => m = n

(* In the cells of queue i are the strings whose segments were popped, and *)
(* below the consumer's cursor the string it is working on.                *)
Contents ==
  \A i \in Queues : \A c \in First(i) .. End(i) - 1 :
    gbf[c] = (Pushed(i) \ QueuedFor(i))
             \cup (IF pc[i] = "xor" /\ c < cursor[i] THEN {seg[i].src} ELSE {})

(* A consumer ends when it has served every producer, and not before.      *)
EndsServed == \A i \in Queues : pc[i] = "done" <=> served[i] = Num

JoinedAtEnd == joined => /\ \A p \in Producers : next[p] = NumQueues
                         /\ \A i \in Queues : pc[i] = "done"

CInv == OnceInQueue /\ Contents /\ EndsServed /\ JoinedAtEnd

-----------------------------------------------------------------------------
(* Every cell is in the range of a queue.                                  *)
LEMMA CellsCovered == \A c \in Cells : \E i \in Queues : c \in First(i) .. End(i) - 1
<1>. SUFFICES ASSUME NEW c \in Cells
              PROVE  \E i \in Queues : c \in First(i) .. End(i) - 1
  OBVIOUS
<1>. DEFINE last == NumQueues - 1
<1>1. c \in Nat /\ c < Nbf /\ Nbf \in Nat /\ last \in Queues /\ last \in Nat
  BY NbfAssumption, QueuesAssumption DEF Cells, Queues
<1>2. CASE First(last) <= c
  <2>1. First(last) \in Int /\ End(last) = Nbf
    BY <1>1, RangeInFilter DEF End
  <2>. QED  BY <1>1, <1>2, <2>1
<1>3. CASE c < First(last)
  <2>. DEFINE i == c \div jump
  <2>1. jump \in Nat /\ jump # 0 /\ last * jump \in Nat /\ c < last * jump
    BY <1>1, <1>3, JumpFits DEF First
  <2>2. i \in Nat /\ i * jump <= c /\ c < (i + 1) * jump
    BY <1>1, <2>1
  <2>3. i < last
    <3>1. last <= i => last * jump <= i * jump
      BY <1>1, <2>1, <2>2, TimesMonotone
    <3>2. i * jump \in Nat
      BY <2>1, <2>2, TimesMonotone
    <3>. HIDE DEF i
    <3>. QED  BY <1>1, <2>1, <2>2, <3>1, <3>2
  <2>. HIDE DEF i
  <2>4. i \in Queues /\ i # last
    BY <1>1, <2>2, <2>3, QueuesAssumption DEF Queues
  <2>5. First(i) = i * jump /\ End(i) = (i + 1) * jump
    BY <2>4 DEF First, End
  <2>6. First(i) \in Int /\ End(i) \in Int
    BY <2>4, RangeInFilter
  <2>7. c \in First(i) .. End(i) - 1
    BY <1>1, <2>2, <2>5, <2>6
  <2>. QED  BY <2>4, <2>7
<1>4. First(last) \in Int
  BY <1>1, RangeInFilter
<1>. QED  BY <1>1, <1>2, <1>3, <1>4

(* The ranges lie in the filter and do not meet.                           *)
LEMMA CellOfRange ==
  ASSUME NEW i \in Queues, NEW c \in First(i) .. End(i) - 1
  PROVE  /\ c \in Cells
         /\ \A j \in Queues : c \in First(j) .. End(j) - 1 => j = i
<1>1. c \in Int /\ First(i) \in 0 .. Nbf /\ End(i) \in 0 .. Nbf /\ c \in Cells
  BY RangeInFilter, NbfAssumption DEF Cells
<1>2. ASSUME NEW j \in Queues, c \in First(j) .. End(j) - 1 PROVE j = i
  <2>1. First(j) \in Int /\ End(j) \in Int /\ First(i) \in Int /\ End(i) \in Int
    BY RangeInFilter
  <2>2. ~(i < j) /\ ~(j < i)
    BY <1>1, <1>2, <2>1, RangesDisjoint
  <2>. QED  BY <2>2, QueuesAssumption DEF Queues
<1>. QED  BY <1>1, <1>2

(* What a queue holds after push() and after pop().                        *)
LEMMA AppendedSrc ==
  ASSUME NEW s \in Seq(Segments), NEW e \in Segments,
         \A m, n \in 1 .. Len(s) : s[m].src = s[n].src => m = n,
         e.src \notin {s[n].src : n \in 1 .. Len(s)},
         NEW t, t = Append(s, e)
  PROVE  /\ {t[n].src : n \in 1 .. Len(t)} = {s[n].src : n \in 1 .. Len(s)} \cup {e.src}
         /\ \A m, n \in 1 .. Len(t) : t[m].src = t[n].src => m = n
<1>1. /\ Len(s) \in Nat /\ Len(t) = Len(s) + 1
      /\ \A n \in 1 .. Len(s) : t[n] = s[n] /\ n \in 1 .. Len(t) /\ n # Len(t)
      /\ t[Len(t)] = e /\ Len(t) \in 1 .. Len(t)
      /\ \A n \in 1 .. Len(t) : n \in 1 .. Len(s) \/ n = Len(t)
  OBVIOUS
<1>2. {t[n].src : n \in 1 .. Len(t)} = {s[n].src : n \in 1 .. Len(s)} \cup {e.src}
  <2>1. ASSUME NEW n \in 1 .. Len(t)
        PROVE  t[n].src \in {s[m].src : m \in 1 .. Len(s)} \cup {e.src}
    BY <1>1
  <2>2. ASSUME NEW n \in 1 .. Len(s)
        PROVE  s[n].src \in {t[m].src : m \in 1 .. Len(t)}
    BY <1>1
  <2>3. e.src \in {t[m].src : m \in 1 .. Len(t)}
    BY <1>1
  <2>. QED  BY <2>1, <2>2, <2>3
<1>3. ASSUME NEW m \in 1 .. Len(t), NEW n \in 1 .. Len(t), t[m].src = t[n].src
      PROVE  m = n
  BY <1>1, <1>3
<1>. QED  BY <1>2, <1>3

LEMMA PoppedSrc ==
  ASSUME NEW s \in Seq(Segments), s # <<>>,
         \A m, n \in 1 .. Len(s) : s[m].src = s[n].src => m = n,
         NEW t, t = Tail(s)
  PROVE  /\ {t[n].src : n \in 1 .. Len(t)} = {s[n].src : n \in 1 .. Len(s)} \ {Head(s).src}
         /\ \A m, n \in 1 .. Len(t) : t[m].src = t[n].src => m = n
         /\ Head(s).src \in {s[n].src : n \in 1 .. Len(s)}
<1>1. /\ Len(s) \in Nat /\ Len(s) # 0 /\ Len(t) = Len(s) - 1
      /\ \A n \in 1 .. Len(t) : t[n] = s[n + 1] /\ n + 1 \in 1 .. Len(s) /\ n + 1 # 1
      /\ \A n \in 1 .. Len(s) : n = 1 \/ (n - 1 \in 1 .. Len(t) /\ t[n - 1] = s[n])
      /\ 1 \in 1 .. Len(s) /\ Head(s) = s[1]
  OBVIOUS
<1>2. {t[n].src : n \in 1 .. Len(t)} = {s[n].src : n \in 1 .. Len(s)} \ {Head(s).src}
  <2>1. ASSUME NEW n \in 1 .. Len(t)
        PROVE  t[n].src \in {s[m].src : m \in 1 .. Len(s)} \ {Head(s).src}
    BY <1>1
  <2>2. ASSUME NEW n \in 1 .. Len(s), s[n].src # Head(s).src
        PROVE  s[n].src \in {t[m].src : m \in 1 .. Len(t)}
    BY <1>1, <2>2
  <2>3. {s[n].src : n \in 1 .. Len(s)} \ {Head(s).src} \subseteq {t[n].src : n \in 1 .. Len(t)}
    BY <2>2
  <2>4. {t[n].src : n \in 1 .. Len(t)} \subseteq {s[n].src : n \in 1 .. Len(s)} \ {Head(s).src}
    BY <2>1
  <2>. QED  BY <2>3, <2>4
<1>3. ASSUME NEW m \in 1 .. Len(t), NEW n \in 1 .. Len(t), t[m].src = t[n].src
      PROVE  m = n
  <2>1. m + 1 = n + 1
    BY <1>1, <1>3
  <2>. QED  BY <2>1
<1>. QED  BY <1>1, <1>2, <1>3

-----------------------------------------------------------------------------
LEMMA SomeProducers == Num # 0
<1>1. PICK l \in Links : TRUE
  BY LinksAssumption
<1>2. <<l, "recv">> \in Producers
  BY DEF Producers
<1>. QED  BY <1>2, ProducersFinite, FS_EmptySet DEF Num

LEMMA InitCInv == Init => CInv
<1>. SUFFICES ASSUME Init PROVE CInv
  OBVIOUS
<1>1. ASSUME NEW i \in Queues PROVE q[i] = <<>> /\ pc[i] = "wait" /\ Pushed(i) = {}
  BY DEF Init, Pushed, Queues
<1>2. ASSUME NEW i \in Queues PROVE QueuedFor(i) = {} /\ 1 .. Len(q[i]) = {}
  <2>1. 1 .. Len(q[i]) = {}
    BY <1>1
  <2>. QED  BY <2>1 DEF QueuedFor
<1>3. OnceInQueue
  BY <1>1, <1>2 DEF OnceInQueue
<1>4. Contents
  <2>. SUFFICES ASSUME NEW i \in Queues, NEW c \in First(i) .. End(i) - 1
                PROVE  gbf[c] = {}
    BY <1>1, <1>2 DEF Contents
  <2>. QED  BY CellOfRange DEF Init
<1>5. EndsServed
  <2>1. \A i \in Queues : pc[i] # "done" /\ served[i] = 0
    BY DEF Init
  <2>. QED  BY <2>1, SomeProducers DEF EndsServed
<1>. QED  BY <1>3, <1>4, <1>5 DEF CInv, JoinedAtEnd, Init

(* A step that moves no segment and no string.                             *)
LEMMA NothingMoves ==
  ASSUME CInv, NEW i \in Queues, NEW st, pc' = [pc EXCEPT ![i] = st],
         pc \in [Queues -> ConsumerStates],
         pc[i] \notin {"xor", "done"}, st \notin {"xor", "done"},
         UNCHANGED <<next, owes, q, seg, cursor, served, gbf, joined>>
  PROVE  CInv'
<1>1. \A j \in Queues : QueuedFor(j)' = QueuedFor(j) /\ Pushed(j)' = Pushed(j)
  BY DEF QueuedFor, Pushed
<1>2. \A j \in Queues : (pc'[j] = "xor" <=> pc[j] = "xor") /\ (pc'[j] = "done" <=> pc[j] = "done")
  OBVIOUS
<1>3. OnceInQueue'
  BY <1>1 DEF CInv, OnceInQueue
<1>4. Contents'
  BY <1>1, <1>2 DEF CInv, Contents
<1>. QED  BY <1>2, <1>3, <1>4 DEF CInv, EndsServed, JoinedAtEnd

(* push(): the segment is one that the queue has not had from this thread. *)
LEMMA PushAccumulates ==
  ASSUME IInv, CInv, NEW p \in Producers, Push(p)
  PROVE  CInv'
<1>. PICK i \in Queues : i = next[p]
  BY QueuesAssumption DEF Push, IInv, TypeOK, Queues
<1>1. /\ i = next[p] /\ ~owes[p]
      /\ q' = [q EXCEPT ![i] = Append(q[i], Gbf_seg(p, i))]
      /\ owes' = [owes EXCEPT ![p] = TRUE]
      /\ UNCHANGED <<next, count, pc, seg, cursor, served, gbf, joined>>
  BY QueuesAssumption DEF Push, consVars, IInv, TypeOK, Queues
<1>2. q[i] \in Seq(Segments) /\ Gbf_seg(p, i) \in Segments /\ Gbf_seg(p, i).src = p
  BY <1>1, RangeInFilter DEF IInv, TypeOK, Gbf_seg, Segments
<1>3. /\ p \notin Pushed(i) /\ Pushed(i)' = Pushed(i) \cup {p}
      /\ \A j \in Queues \ {i} : Pushed(j)' = Pushed(j)
  BY <1>1 DEF Pushed, IInv, TypeOK, Queues
<1>4. q'[i] = Append(q[i], Gbf_seg(p, i)) /\ \A j \in Queues \ {i} : q'[j] = q[j]
  BY <1>1 DEF IInv, TypeOK
<1>5. /\ QueuedFor(i)' = QueuedFor(i) \cup {p}
      /\ \A m, n \in 1 .. Len(q'[i]) : q'[i][m].src = q'[i][n].src => m = n
  <2>1. /\ \A m, n \in 1 .. Len(q[i]) : q[i][m].src = q[i][n].src => m = n
        /\ p \notin {q[i][n].src : n \in 1 .. Len(q[i])}
    BY <1>1, <1>3 DEF CInv, OnceInQueue, QueuedFor
  <2>2. /\ {q'[i][n].src : n \in 1 .. Len(q'[i])}
             = {q[i][n].src : n \in 1 .. Len(q[i])} \cup {Gbf_seg(p, i).src}
        /\ \A m, n \in 1 .. Len(q'[i]) : q'[i][m].src = q'[i][n].src => m = n
    BY <1>2, <1>4, <2>1, AppendedSrc
  <2>. QED  BY <1>2, <2>2 DEF QueuedFor
<1>6. \A j \in Queues \ {i} : QueuedFor(j)' = QueuedFor(j)
  BY <1>4 DEF QueuedFor
<1>7. OnceInQueue'
  <2>1. ASSUME NEW j \in Queues, j # i
        PROVE  /\ QueuedFor(j)' \subseteq Pushed(j)'
               /\ \A m, n \in 1 .. Len(q'[j]) : q'[j][m].src = q'[j][n].src => m = n
    BY <1>3, <1>4, <1>6, <2>1 DEF CInv, OnceInQueue
  <2>2. QueuedFor(i)' \subseteq Pushed(i)'
    BY <1>1, <1>3, <1>5 DEF CInv, OnceInQueue
  <2>3. ASSUME NEW j \in Queues
        PROVE  /\ QueuedFor(j)' \subseteq Pushed(j)'
               /\ \A m, n \in 1 .. Len(q'[j]) : q'[j][m].src = q'[j][n].src => m = n
    <3>1. CASE j = i
      BY <1>5, <2>2, <3>1
    <3>2. CASE j # i
      BY <2>1, <3>2
    <3>. QED  BY <3>1, <3>2
  <2>. QED  BY <2>3 DEF OnceInQueue
<1>8. Contents'
  <2>1. \A j \in Queues : Pushed(j)' \ QueuedFor(j)' = Pushed(j) \ QueuedFor(j)
    <3>. SUFFICES ASSUME NEW j \in Queues
                  PROVE  Pushed(j)' \ QueuedFor(j)' = Pushed(j) \ QueuedFor(j)
      OBVIOUS
    <3>1. CASE j = i
      BY <1>3, <1>5, <3>1
    <3>2. CASE j # i
      BY <1>3, <1>6, <3>2
    <3>. QED  BY <3>1, <3>2
  <2>. QED  BY <1>1, <2>1 DEF CInv, Contents
<1>9. EndsServed' /\ JoinedAtEnd'
  BY <1>1 DEF CInv, EndsServed, JoinedAtEnd
<1>. QED  BY <1>7, <1>8, <1>9 DEF CInv

LEMMA NotifyAccumulates ==
  ASSUME IInv, CInv, NEW p \in Producers, Notify(p)
  PROVE  CInv'
<1>. DEFINE i == next[p]
<1>1. /\ i \in Queues /\ owes[p]
      /\ pc' = [pc EXCEPT ![i] = IF pc[i] = "blocked" THEN "woken" ELSE pc[i]]
      /\ owes' = [owes EXCEPT ![p] = FALSE]
      /\ next' = [next EXCEPT ![p] = i + 1]
      /\ UNCHANGED <<q, seg, cursor, served, gbf, joined>>
  BY QueuesAssumption DEF Notify, IInv, TypeOK, OwesAQueue, Queues
<1>2. \A j \in Queues : Pushed(j)' = Pushed(j) /\ QueuedFor(j)' = QueuedFor(j)
  BY <1>1 DEF Pushed, QueuedFor, IInv, TypeOK, Queues
<1>3. \A j \in Queues : (pc'[j] = "xor" <=> pc[j] = "xor") /\ (pc'[j] = "done" <=> pc[j] = "done")
  BY <1>1 DEF IInv, TypeOK
<1>4. OnceInQueue'
  BY <1>1, <1>2 DEF CInv, OnceInQueue
<1>5. Contents'
  BY <1>1, <1>2, <1>3 DEF CInv, Contents
<1>6. EndsServed'
  BY <1>1, <1>3 DEF CInv, EndsServed
<1>7. JoinedAtEnd'
  <2>1. ~joined
    <3>1. i # NumQueues
      BY <1>1, QueuesAssumption DEF Queues
    <3>. QED  BY <3>1 DEF CInv, JoinedAtEnd
  <2>. QED  BY <1>1, <2>1 DEF JoinedAtEnd
<1>. QED  BY <1>4, <1>5, <1>6, <1>7 DEF CInv

LEMMA FetchAccumulates ==
  ASSUME IInv, CInv, NEW i \in Queues, Fetch(i)
  PROVE  CInv'
<1>1. /\ pc[i] = "fetch" /\ q[i] # <<>>
      /\ pc' = [pc EXCEPT ![i] = "xor"]
      /\ seg' = [seg EXCEPT ![i] = Head(q[i])]
      /\ cursor' = [cursor EXCEPT ![i] = Head(q[i]).start]
      /\ UNCHANGED <<next, owes, q, count, served, gbf, joined>>
  BY DEF Fetch, IInv, TypeOK, TicketMeansSegment, prodVars
<1>2. cursor'[i] = First(i)
  <2>1. q[i] \in Seq(Segments)
    BY DEF IInv, TypeOK
  <2>2. Head(q[i]) = q[i][1] /\ 1 \in 1 .. Len(q[i])
    BY <1>1, <2>1
  <2>. QED  BY <1>1, <2>2 DEF IInv, TypeOK, RangesInPlace
<1>3. \A j \in Queues : Pushed(j)' = Pushed(j) /\ QueuedFor(j)' = QueuedFor(j)
  BY <1>1 DEF Pushed, QueuedFor
<1>4. OnceInQueue' /\ EndsServed' /\ JoinedAtEnd'
  BY <1>1, <1>3 DEF CInv, OnceInQueue, EndsServed, JoinedAtEnd, IInv, TypeOK
<1>5. Contents'
  <2>. SUFFICES ASSUME NEW j \in Queues, NEW c \in First(j) .. End(j) - 1
                PROVE  gbf[c] = (Pushed(j) \ QueuedFor(j))
                                \cup (IF pc'[j] = "xor" /\ c < cursor'[j] THEN {seg'[j].src} ELSE {})
    BY <1>1, <1>3 DEF Contents
  <2>1. CASE j = i
    <3>1. ~(c < cursor'[j])
      BY <1>2, <2>1, RangeInFilter
    <3>. QED  BY <1>1, <2>1, <3>1 DEF CInv, Contents
  <2>2. CASE j # i
    BY <1>1, <2>2 DEF CInv, Contents, IInv, TypeOK
  <2>. QED  BY <2>1, <2>2
<1>. QED  BY <1>4, <1>5 DEF CInv

(* One iteration of the loop of run_xoring puts the string of one thread   *)
(* into a cell that misses it.                                             *)
LEMMA XorAdds ==
  ASSUME IInv, CInv, NEW i \in Queues, Xor(i)
  PROVE  /\ cursor[i] \in First(i) .. End(i) - 1
         /\ seg[i].src \in Producers \ gbf[cursor[i]]
         /\ gbf' = [gbf EXCEPT ![cursor[i]] = gbf[cursor[i]] \cup {seg[i].src}]
<1>1. /\ pc[i] = "xor" /\ cursor[i] < seg[i].end
      /\ gbf' = [gbf EXCEPT ![cursor[i]] = SymDiff(gbf[cursor[i]], {seg[i].src})]
  BY DEF Xor
<1>2. cursor[i] \in First(i) .. End(i) - 1 /\ cursor[i] \in Int /\ seg[i].src \in Producers
  <2>1. First(i) \in Int /\ End(i) \in Int
    BY RangeInFilter
  <2>. QED  BY <1>1, <2>1, SegInPlace DEF Segments
<1>3. seg[i].src \in QueuedFor(i)
  <2>1. q[i] \in Seq(Segments) /\ q[i] # <<>> /\ seg[i] = Head(q[i])
    BY <1>1 DEF IInv, TypeOK, TicketMeansSegment
  <2>2. seg[i] = q[i][1] /\ 1 \in 1 .. Len(q[i])
    BY <2>1
  <2>. QED  BY <2>2 DEF QueuedFor
<1>4. gbf[cursor[i]] = Pushed(i) \ QueuedFor(i)
  <2>1. ~(cursor[i] < cursor[i])
    BY <1>2
  <2>. QED  BY <1>2, <2>1 DEF CInv, Contents
<1>5. SymDiff(gbf[cursor[i]], {seg[i].src}) = gbf[cursor[i]] \cup {seg[i].src}
  BY <1>3, <1>4 DEF SymDiff
<1>. QED  BY <1>1, <1>2, <1>3, <1>4, <1>5

LEMMA XorAccumulates ==
  ASSUME IInv, CInv, NEW i \in Queues, Xor(i)
  PROVE  CInv'
<1>1. /\ pc[i] = "xor"
      /\ cursor' = [cursor EXCEPT ![i] = cursor[i] + 1]
      /\ UNCHANGED <<next, owes, q, count, pc, seg, served, joined>>
  BY DEF Xor, prodVars
<1>2. /\ cursor[i] \in First(i) .. End(i) - 1 /\ cursor[i] \in Cells
      /\ gbf' = [gbf EXCEPT ![cursor[i]] = gbf[cursor[i]] \cup {seg[i].src}]
  BY XorAdds, CellOfRange
<1>3. \A j \in Queues : Pushed(j)' = Pushed(j) /\ QueuedFor(j)' = QueuedFor(j)
  BY <1>1 DEF Pushed, QueuedFor
<1>4. OnceInQueue' /\ EndsServed' /\ JoinedAtEnd'
  BY <1>1, <1>3 DEF CInv, OnceInQueue, EndsServed, JoinedAtEnd
<1>5. Contents'
  <2>. SUFFICES ASSUME NEW j \in Queues, NEW c \in First(j) .. End(j) - 1
                PROVE  gbf'[c] = (Pushed(j) \ QueuedFor(j))
                                 \cup (IF pc[j] = "xor" /\ c < cursor'[j] THEN {seg[j].src} ELSE {})
    BY <1>1, <1>3 DEF Contents
  <2>1. /\ c \in Cells /\ c \in Int /\ cursor[i] \in Int
        /\ gbf[c] = (Pushed(j) \ QueuedFor(j))
                     \cup (IF pc[j] = "xor" /\ c < cursor[j] THEN {seg[j].src} ELSE {})
        /\ gbf'[c] = IF c = cursor[i] THEN gbf[c] \cup {seg[i].src} ELSE gbf[c]
    <3>1. c \in Cells /\ c \in Int /\ cursor[i] \in Int
      BY <1>2, CellOfRange DEF Cells
    <3>2. gbf[c] = (Pushed(j) \ QueuedFor(j))
                   \cup (IF pc[j] = "xor" /\ c < cursor[j] THEN {seg[j].src} ELSE {})
      BY DEF CInv, Contents
    <3>3. gbf'[c] = IF c = cursor[i] THEN gbf[c] \cup {seg[i].src} ELSE gbf[c]
      BY <1>2, <3>1 DEF IInv, TypeOK
    <3>. QED  BY <3>1, <3>2, <3>3
  <2>2. CASE j = i
    <3>1. c < cursor'[j] <=> c < cursor[j] \/ c = cursor[j]
      BY <1>1, <2>1, <2>2 DEF IInv, TypeOK
    <3>. QED  BY <1>1, <2>1, <2>2, <3>1
  <2>3. CASE j # i
    <3>1. c # cursor[i]
      BY <1>2, <2>3, CellOfRange
    <3>. QED  BY <1>1, <2>1, <2>3, <3>1 DEF IInv, TypeOK
  <2>. QED  BY <2>2, <2>3
<1>. QED  BY <1>4, <1>5 DEF CInv

(* pop(): the string of the front segment is in every cell of the range.   *)
LEMMA PopAccumulates ==
  ASSUME IInv, CInv, NEW i \in Queues, Pop(i)
  PROVE  CInv'
<1>1. /\ pc[i] = "xor" /\ cursor[i] >= seg[i].end
      /\ q' = [q EXCEPT ![i] = Tail(q[i])]
      /\ served' = [served EXCEPT ![i] = served[i] + 1]
      /\ pc' = [pc EXCEPT ![i] = IF served'[i] < Num THEN "wait" ELSE "done"]
      /\ UNCHANGED <<next, owes, count, seg, cursor, gbf, joined>>
  BY DEF Pop, prodVars
<1>2. /\ q[i] \in Seq(Segments) /\ q[i] # <<>> /\ seg[i] = Head(q[i])
      /\ cursor[i] \in Int /\ seg[i].end = End(i)
  BY <1>1, SegInPlace, NbfAssumption DEF IInv, TypeOK, TicketMeansSegment
<1>3. q'[i] = Tail(q[i]) /\ \A j \in Queues \ {i} : q'[j] = q[j]
  BY <1>1 DEF IInv, TypeOK
<1>4. /\ QueuedFor(i)' = QueuedFor(i) \ {seg[i].src} /\ seg[i].src \in QueuedFor(i)
      /\ \A m, n \in 1 .. Len(q'[i]) : q'[i][m].src = q'[i][n].src => m = n
  <2>1. \A m, n \in 1 .. Len(q[i]) : q[i][m].src = q[i][n].src => m = n
    BY DEF CInv, OnceInQueue
  <2>2. /\ {q'[i][n].src : n \in 1 .. Len(q'[i])}
             = {q[i][n].src : n \in 1 .. Len(q[i])} \ {Head(q[i]).src}
        /\ \A m, n \in 1 .. Len(q'[i]) : q'[i][m].src = q'[i][n].src => m = n
        /\ Head(q[i]).src \in {q[i][n].src : n \in 1 .. Len(q[i])}
    BY <1>2, <1>3, <2>1, PoppedSrc
  <2>. QED  BY <1>2, <2>2 DEF QueuedFor
<1>5. /\ \A j \in Queues \ {i} : QueuedFor(j)' = QueuedFor(j)
      /\ \A j \in Queues : Pushed(j)' = Pushed(j)
  BY <1>1, <1>3 DEF QueuedFor, Pushed
<1>6. OnceInQueue'
  <2>1. ASSUME NEW j \in Queues, j # i
        PROVE  /\ QueuedFor(j)' \subseteq Pushed(j)'
               /\ \A m, n \in 1 .. Len(q'[j]) : q'[j][m].src = q'[j][n].src => m = n
    BY <1>3, <1>5, <2>1 DEF CInv, OnceInQueue
  <2>2. QueuedFor(i)' \subseteq Pushed(i)'
    BY <1>4, <1>5 DEF CInv, OnceInQueue
  <2>. QED  BY <1>4, <2>1, <2>2 DEF OnceInQueue
<1>7. Contents'
  <2>. SUFFICES ASSUME NEW j \in Queues, NEW c \in First(j) .. End(j) - 1
                PROVE  gbf[c] = (Pushed(j) \ QueuedFor(j)')
                                \cup (IF pc'[j] = "xor" /\ c < cursor[j] THEN {seg[j].src} ELSE {})
    BY <1>1, <1>5 DEF Contents
  <2>1. CASE j = i
    <3>1. pc'[j] # "xor"
      BY <1>1, <2>1 DEF IInv, TypeOK
    <3>2. c < cursor[i]
      <4>1. First(i) \in Int /\ End(i) \in Int
        BY RangeInFilter
      <4>. QED  BY <1>1, <1>2, <2>1, <4>1
    <3>3. gbf[c] = (Pushed(i) \ QueuedFor(i)) \cup {seg[i].src}
      BY <1>1, <2>1, <3>2 DEF CInv, Contents
    <3>4. QueuedFor(i) \subseteq Pushed(i)
      BY DEF CInv, OnceInQueue
    <3>. QED  BY <1>4, <2>1, <3>1, <3>3, <3>4
  <2>2. CASE j # i
    <3>1. pc'[j] = pc[j] /\ QueuedFor(j)' = QueuedFor(j)
      BY <1>1, <1>5, <2>2 DEF IInv, TypeOK
    <3>. QED  BY <3>1 DEF CInv, Contents
  <2>. QED  BY <2>1, <2>2
<1>8. EndsServed'
  <2>1. served[i] + 1 \in 0 .. Num
    <3>1. TypeOK'
      BY PopKeeps DEF IInv
    <3>. QED  BY <1>1, <3>1 DEF IInv, TypeOK
  <2>2. served'[i] = served[i] + 1 /\ Num \in Nat
    BY <1>1, ProducersFinite DEF IInv, TypeOK
  <2>3. pc'[i] = "done" <=> served'[i] = Num
    <3>1. pc'[i] = "done" <=> ~(served'[i] < Num)
      BY <1>1 DEF IInv, TypeOK
    <3>. QED  BY <2>1, <2>2, <3>1
  <2>4. \A j \in Queues \ {i} : pc'[j] = pc[j] /\ served'[j] = served[j]
    BY <1>1 DEF IInv, TypeOK
  <2>. QED  BY <2>3, <2>4 DEF CInv, EndsServed
<1>9. JoinedAtEnd'
  BY <1>1 DEF CInv, JoinedAtEnd
<1>. QED  BY <1>6, <1>7, <1>8, <1>9 DEF CInv

-----------------------------------------------------------------------------
LEMMA NextCInv == IInv /\ CInv /\ [Next]_vars => CInv'
<1>. SUFFICES ASSUME IInv, CInv, [Next]_vars PROVE CInv'
  OBVIOUS
<1>1. ASSUME NEW i \in Queues, Wait(i) \/ Resume(i) PROVE CInv'
  <2>1. PICK st \in {"blocked", "fetch"} : pc' = [pc EXCEPT ![i] = st]
    BY <1>1 DEF Wait, Resume, TakeTicket
  <2>2. /\ pc[i] \notin {"xor", "done"}
        /\ UNCHANGED <<next, owes, q, seg, cursor, served, gbf, joined>>
    BY <1>1 DEF Wait, Resume, prodVars
  <2>3. pc \in [Queues -> ConsumerStates]
    BY DEF IInv, TypeOK
  <2>. QED  BY <2>1, <2>2, <2>3, NothingMoves
<1>2. CASE \E i \in Queues : Consumer(i)
  BY <1>1, <1>2, FetchAccumulates, XorAccumulates, PopAccumulates DEF Consumer
<1>3. CASE \E p \in Producers : Producer(p)
  BY <1>3, PushAccumulates, NotifyAccumulates DEF Producer
<1>4. CASE Join
  <2>1. /\ \A p \in Producers : next[p] = NumQueues
        /\ \A i \in Queues : pc[i] = "done"
        /\ UNCHANGED <<next, owes, q, pc, seg, cursor, served, gbf>>
    BY <1>4 DEF Join, prodVars, consVars
  <2>. QED  BY <2>1 DEF CInv, OnceInQueue, Contents, EndsServed, JoinedAtEnd, QueuedFor, Pushed
<1>5. CASE UNCHANGED vars
  BY <1>5 DEF vars, CInv, OnceInQueue, Contents, EndsServed, JoinedAtEnd, QueuedFor, Pushed
<1>. QED  BY <1>2, <1>3, <1>4, <1>5 DEF Next, Terminated

LEMMA ContentsInvariance == Spec => [](IInv /\ CInv)
<1>1. Init => CInv
  BY InitCInv
<1>2. IInv /\ CInv /\ [Next]_vars => CInv'
  BY NextCInv
<1>. QED  BY <1>1, <1>2, Invariance, PTL DEF Spec

(* When all threads are at their end, every queue had a segment of every   *)
(* producer and all of them were served: the ranges are complete.          *)
LEMMA EndMeansComplete ==
  ASSUME IInv, CInv, \A p \in Producers : next[p] = NumQueues,
         \A i \in Queues : pc[i] = "done"
  PROVE  /\ gbf = [c \in Cells |-> Producers]
         /\ \A i \in Queues : q[i] = <<>> /\ count[i] = 0
<1>1. ASSUME NEW i \in Queues
      PROVE  /\ Pushed(i) = Producers /\ Len(q[i]) = 0
             /\ q[i] = <<>> /\ count[i] = 0
  <2>1. Pushed(i) = Producers
    BY QueuesAssumption DEF Pushed, Queues
  <2>2. /\ Num = Len(q[i]) + served[i] /\ served[i] = Num
        /\ Num \in Nat /\ q[i] \in Seq(Segments)
    BY <2>1, ProducersFinite DEF Num, IInv, PushesServedOrQueued, CInv, EndsServed, TypeOK
  <2>3. Len(q[i]) \in Nat /\ Len(q[i]) = 0
    BY <2>2
  <2>4. /\ Len(q[i]) = count[i] + Cardinality(Owing(i)) + 0
        /\ count[i] \in Nat /\ Cardinality(Owing(i)) \in Nat
    <3>1. count[i] \in Nat /\ Cardinality(Owing(i)) \in Nat
      BY CountedSets, CountModAssumption DEF IInv, TypeOK
    <3>2. pc[i] \notin {"fetch", "xor"}
      OBVIOUS
    <3>. QED  BY <3>1, <3>2 DEF IInv, SemaphoreCountsSegments
  <2>5. count[i] = 0
    BY <2>3, <2>4
  <2>. QED  BY <2>1, <2>2, <2>3, <2>5
<1>2. ASSUME NEW c \in Cells PROVE gbf[c] = Producers
  <2>1. PICK i \in Queues : c \in First(i) .. End(i) - 1
    BY CellsCovered
  <2>2. QueuedFor(i) = {}
    <3>1. 1 .. Len(q[i]) = {}
      BY <1>1
    <3>. QED  BY <3>1 DEF QueuedFor
  <2>. QED  BY <1>1, <2>1, <2>2 DEF CInv, Contents
<1>. QED  BY <1>1, <1>2 DEF IInv, TypeOK

(* run_online_apport has joined its threads before the strings and queues  *)
(* are deleted: no consumer still needs them, and no string is missing.    *)
THEOREM NothingMissingAtEnd == Spec => []JoinedMeansComplete
<1>1. IInv /\ CInv => JoinedMeansComplete
  BY EndMeansComplete DEF CInv, JoinedAtEnd, JoinedMeansComplete
<1>. QED  BY <1>1, ContentsInvariance, PTL

(* semaphore::wait loses no wakeup: a consumer sleeps only while its       *)
(* semaphore counts nothing and its queue is empty, so what it has served  *)
(* is all that was pushed; that is less than Num, or it would have ended.  *)
THEOREM NoLostWakeup == Spec => []SleepersAreAwaited
<1>1. IInv /\ CInv => SleepersAreAwaited
  <2>. SUFFICES ASSUME IInv, CInv, NEW i \in Queues, pc[i] = "blocked",
                       \A p \in Producers : ~(next[p] <= i)
                PROVE  FALSE
    BY DEF SleepersAreAwaited
  <2>1. \A p \in Producers : next[p] > i /\ next[p] # i
    BY QueuesAssumption DEF IInv, TypeOK, Queues
  <2>2. Pushed(i) = Producers /\ Owing(i) = {}
    BY <2>1 DEF Pushed, Owing
  <2>3. count[i] = 0 /\ Cardinality(Owing(i)) = 0
    BY <2>2, FS_EmptySet DEF IInv, WakeMeansCount
  <2>4. Len(q[i]) = 0
    BY <2>3 DEF IInv, SemaphoreCountsSegments
  <2>5. Num = Len(q[i]) + served[i]
    BY <2>2 DEF IInv, PushesServedOrQueued, Num
  <2>6. served[i] # Num
    BY DEF CInv, EndsServed
  <2>. QED  BY <2>4, <2>5, <2>6, ProducersFinite DEF IInv, TypeOK
<1>. QED  BY <1>1, ContentsInvariance, PTL

(* A step XORs one string into a cell that misses it, ends the phase, or   *)
(* does not touch the filter.                                              *)
LEMMA StepImplements ==
  ASSUME IInv, CInv, [Next]_vars
  PROVE  [Abstract!Next]_<<gbf, joined>>
<1>1. ASSUME NEW i \in Queues, Xor(i) PROVE Abstract!Next
  <2>1. /\ cursor[i] \in Cells /\ seg[i].src \in Producers \ gbf[cursor[i]]
        /\ gbf' = [gbf EXCEPT ![cursor[i]] = gbf[cursor[i]] \cup {seg[i].src}]
    BY <1>1, XorAdds, CellOfRange
  <2>2. ~joined /\ UNCHANGED joined
    BY <1>1 DEF Xor, CInv, JoinedAtEnd
  <2>3. cursor[i] \in Abstract!Cells
    BY <2>1 DEF Abstract!Cells
  <2>4. Abstract!Add(cursor[i], seg[i].src)
    BY <2>1, <2>2 DEF Abstract!Add
  <2>. QED  BY <2>1, <2>3, <2>4 DEF Abstract!Next
<1>2. ASSUME NEW i \in Queues, Wait(i) \/ Resume(i) \/ Fetch(i) \/ Pop(i)
      PROVE  UNCHANGED <<gbf, joined>>
  BY <1>2 DEF Wait, Resume, Fetch, Pop
<1>3. ASSUME NEW p \in Producers, Producer(p) PROVE UNCHANGED <<gbf, joined>>
  BY <1>3 DEF Producer, Push, Notify
<1>4. CASE Join
  <2>1. Abstract!Release
    BY <1>4, EndMeansComplete DEF Join, Abstract!Release
  <2>. QED  BY <2>1 DEF Abstract!Next
<1>5. CASE UNCHANGED vars
  BY <1>5 DEF vars
<1>. QED  BY <1>1, <1>2, <1>3, <1>4, <1>5 DEF Next, Consumer, Terminated

(* The online phase implements Accumulation, but for the promise to end    *)
(* (which TLC checks with the rest of Accumulates): each cell receives the *)
(* string of each thread of each link exactly once, in any order.          *)
THEOREM AccumulatesSafely == Spec => Abstract!Safe
<1>1. Init => Abstract!Init
  BY DEF Init, Abstract!Init, Abstract!Cells
<1>2. IInv /\ CInv /\ [Next]_vars => [Abstract!Next]_(Abstract!accVars)
  BY StepImplements DEF Abstract!accVars
<1>. QED  BY <1>1, <1>2, ContentsInvariance, PTL DEF Spec, Abstract!Safe

=============================================================================
