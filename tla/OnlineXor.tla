------------------------------ MODULE OnlineXor ------------------------------
(***************************************************************************)
(* Steps 7 and 10 of the program: how one party adds the strings of its    *)
(* online phase to its garbled Bloom filter (run_online_apport,            *)
(* online_apport_receiver, online_apport_sender, run_xoring, the semaphore *)
(* class and the Gbf_seg classes).                                         *)
(*                                                                         *)
(* Per link two producer threads ("recv" and "send") push one segment into *)
(* each queue, in the order of the queues, and notify its semaphore.  One  *)
(* consumer thread per queue waits, XORs the front segment cell by cell    *)
(* without a lock, and pops it.  The main thread joins all of them and     *)
(* frees the queues and the strings.                                       *)
(*                                                                         *)
(* A block is an atom, the producer it comes from; a cell is the set of    *)
(* the atoms XORed into it since the phase began.                          *)
(***************************************************************************)
EXTENDS Integers, Sequences, FiniteSets, FiniteSetsExt

CONSTANTS Links,      \* the links of this party: n-1 for P0, one for a Pi
          Nbf,        \* cells of the garbled Bloom filter
          NumQueues,  \* queues and consumers (4 in the code)
          CountMod    \* 2^w of the semaphore's unsigned long count_

Producers == Links \X {"recv", "send"}
Queues    == 0 .. NumQueues - 1
Cells     == 0 .. Nbf - 1

(* Mutants of Num: one segment per link; the party counted with the others. *)
Num_PerLink  == Cardinality(Links)
Num_WithSelf == Cardinality(Producers) + 2

(* The consumers are told how many segments to expect: (parties-1)*2.      *)
Num == Cardinality(Producers)

ASSUME LinksAssumption    == IsFiniteSet(Links) /\ Links # {}
ASSUME NbfAssumption      == Nbf \in Nat
ASSUME QueuesAssumption   == NumQueues \in Nat \ {0}
ASSUME CountModAssumption == CountMod \in Nat /\ CountMod > Num

VARIABLES next,    \* producer |-> queue it pushes to next, NumQueues at its end
          owes,    \* producer |-> it pushed a segment and has not notified yet
          q,       \* queue |-> waiting segments
          count,   \* queue |-> count_ of its semaphore
          pc,      \* queue |-> where its consumer is
          seg,     \* queue |-> the segment its consumer fetched
          cursor,  \* queue |-> next cell its consumer XORs
          served,  \* queue |-> segments its consumer popped (local count)
          gbf,     \* cell |-> atoms
          joined   \* main joined the threads and freed what they used

prodVars == <<next, owes>>
consVars == <<pc, seg, cursor, served>>
vars == <<next, owes, q, count, pc, seg, cursor, served, gbf, joined>>

-----------------------------------------------------------------------------
(* The cells of queue i: [i*jump, (i+1)*jump), and up to Nbf for the last. *)
jump     == Nbf \div NumQueues
First(i) == i * jump

(* Mutants of End: ranges that include their bound; no longer last range.  *)
End_Inclusive(i)   == IF i = NumQueues - 1 THEN Nbf ELSE (i + 1) * jump + 1
End_NoRemainder(i) == (i + 1) * jump

End(i) == IF i = NumQueues - 1 THEN Nbf ELSE (i + 1) * jump

(* Gbf_seg_recv and Gbf_seg_sender: the strings to XOR and a range.        *)
Gbf_seg(p, i) == [src |-> p, start |-> First(i), end |-> End(i)]

Segments == [src : Producers, start : 0 .. Nbf, end : 0 .. Nbf]
NoSeg    == [src |-> <<>>, start |-> 0, end |-> 0]

(* "fetch": wait() has returned.  "undefined": front() of an empty queue.  *)
ConsumerStates == {"wait", "blocked", "woken", "fetch", "xor", "undefined", "done"}

-----------------------------------------------------------------------------
Init == /\ next   = [p \in Producers |-> 0]
        /\ owes   = [p \in Producers |-> FALSE]
        /\ q      = [i \in Queues |-> <<>>]
        /\ count  = [i \in Queues |-> 0]
        /\ pc     = [i \in Queues |-> "wait"]
        /\ seg    = [i \in Queues |-> NoSeg]
        /\ cursor = [i \in Queues |-> 0]
        /\ served = [i \in Queues |-> 0]
        /\ gbf    = [c \in Cells |-> {}]
        /\ joined = FALSE

(* turn[i]->lock(); q[i]->push(new Gbf_seg...); turn[i]->unlock().         *)
Push(p) == LET i == next[p] IN
           /\ ~owes[p]
           /\ i < NumQueues
           /\ q' = [q EXCEPT ![i] = Append(@, Gbf_seg(p, i))]
           /\ owes' = [owes EXCEPT ![p] = TRUE]
           /\ UNCHANGED <<next, count, consVars, gbf, joined>>

(* Mutant of Notify: a notification that nobody waits for leaves no count. *)
Notify_Lost(p) == LET i == next[p] IN
                  /\ owes[p]
                  /\ count' = [count EXCEPT ![i] = IF pc[i] = "blocked" THEN @ + 1 ELSE @]
                  /\ pc' = [pc EXCEPT ![i] = IF @ = "blocked" THEN "woken" ELSE @]
                  /\ owes' = [owes EXCEPT ![p] = FALSE]
                  /\ next' = [next EXCEPT ![p] = i + 1]
                  /\ UNCHANGED <<q, seg, cursor, served, gbf, joined>>

(* sem[i]->notify(): ++count_ and notify_one, under the semaphore's mutex. *)
Notify(p) == LET i == next[p] IN
             /\ owes[p]
             /\ count' = [count EXCEPT ![i] = (@ + 1) % CountMod]
             /\ pc' = [pc EXCEPT ![i] = IF @ = "blocked" THEN "woken" ELSE @]
             /\ owes' = [owes EXCEPT ![p] = FALSE]
             /\ next' = [next EXCEPT ![p] = i + 1]
             /\ UNCHANGED <<q, seg, cursor, served, gbf, joined>>

(* The tail of wait(): --count_ on an unsigned long.                       *)
TakeTicket(i) == /\ count' = [count EXCEPT ![i] = (@ - 1) % CountMod]
                 /\ pc' = [pc EXCEPT ![i] = "fetch"]

(* Mutant of Wait: the test is count_ < 0, never true of an unsigned long. *)
Wait_NeverBlocks(i) == /\ pc[i] = "wait"
                       /\ TakeTicket(i)
                       /\ UNCHANGED <<prodVars, q, seg, cursor, served, gbf, joined>>

(* sem[i]->wait(): one test of count_, then condition_.wait without a loop. *)
Wait(i) == /\ pc[i] = "wait"
           /\ \/ /\ count[i] <= 0
                 /\ pc' = [pc EXCEPT ![i] = "blocked"]
                 /\ UNCHANGED count
              \/ /\ count[i] > 0
                 /\ TakeTicket(i)
           /\ UNCHANGED <<prodVars, q, seg, cursor, served, gbf, joined>>

(* condition_.wait returns after a notification, and count_ is taken.      *)
Resume(i) == /\ pc[i] = "woken"
             /\ TakeTicket(i)
             /\ UNCHANGED <<prodVars, q, seg, cursor, served, gbf, joined>>

(* q[i]->front(), outside turn[i].  The element at the front stays where it *)
(* is while producers push at the back, so a race with push() returns it;  *)
(* on an empty queue the behaviour is undefined.                           *)
Fetch(i) == /\ pc[i] = "fetch"
            /\ pc' = [pc EXCEPT ![i] = IF q[i] = <<>> THEN "undefined" ELSE "xor"]
            /\ seg' = [seg EXCEPT ![i] = IF q[i] = <<>> THEN NoSeg ELSE Head(q[i])]
            /\ cursor' = [cursor EXCEPT ![i] = seg'[i].start]
            /\ UNCHANGED <<prodVars, q, count, served, gbf, joined>>

(* Mutant of Xor: the loop runs while j <= end.                            *)
Xor_PastEnd(i) == /\ pc[i] = "xor"
                  /\ cursor[i] <= seg[i].end
                  /\ gbf' = [gbf EXCEPT ![cursor[i]] = SymDiff(@, {seg[i].src})]
                  /\ cursor' = [cursor EXCEPT ![i] = @ + 1]
                  /\ UNCHANGED <<prodVars, q, count, pc, seg, served, joined>>

(* GBF[j] = GBF[j] ^ string, one iteration of the loop over the segment.   *)
Xor(i) == /\ pc[i] = "xor"
          /\ cursor[i] < seg[i].end
          /\ gbf' = [gbf EXCEPT ![cursor[i]] = SymDiff(@, {seg[i].src})]
          /\ cursor' = [cursor EXCEPT ![i] = @ + 1]
          /\ UNCHANGED <<prodVars, q, count, pc, seg, served, joined>>

(* The loop is over: q[i]->pop() under turn[i], count++, and the test of   *)
(* count<num at the head of the loop.                                      *)
Pop(i) == /\ pc[i] = "xor"
          /\ cursor[i] >= seg[i].end
          /\ q' = [q EXCEPT ![i] = Tail(@)]
          /\ served' = [served EXCEPT ![i] = @ + 1]
          /\ pc' = [pc EXCEPT ![i] = IF served'[i] < Num THEN "wait" ELSE "done"]
          /\ UNCHANGED <<prodVars, count, seg, cursor, gbf, joined>>

(* main joins run_online_apport (which joins its two threads) and the      *)
(* consumers, then deletes the queues, the functions and the strings.      *)
Join == /\ ~joined
        /\ \A p \in Producers : next[p] = NumQueues
        /\ \A i \in Queues : pc[i] = "done"
        /\ joined' = TRUE
        /\ UNCHANGED <<prodVars, q, count, consVars, gbf>>

Producer(p) == Push(p) \/ Notify(p)
Consumer(i) == Wait(i) \/ Resume(i) \/ Fetch(i) \/ Xor(i) \/ Pop(i)

(* The phase is over: the program goes on to step 8 or 11.                 *)
Terminated == joined /\ UNCHANGED vars

Next == \/ \E p \in Producers : Producer(p)
        \/ \E i \in Queues : Consumer(i)
        \/ Join
        \/ Terminated

(* Threads of one process, each of which the scheduler runs again.         *)
Fairness == /\ \A p \in Producers : WF_vars(Producer(p))
            /\ \A i \in Queues : WF_vars(Consumer(i))
            /\ WF_vars(Join)

Spec == Init /\ [][Next]_vars /\ Fairness

(* The C++ standard lets condition_variable::wait return without notify.   *)
SpuriousWakeup(i) == /\ pc[i] = "blocked"
                     /\ pc' = [pc EXCEPT ![i] = "woken"]
                     /\ UNCHANGED <<prodVars, q, count, seg, cursor, served, gbf, joined>>

SpuriousSpec == /\ Init
                /\ [][Next \/ \E i \in Queues : SpuriousWakeup(i)]_vars
                /\ Fairness

-----------------------------------------------------------------------------
TypeOK == /\ next   \in [Producers -> 0 .. NumQueues]
          /\ owes   \in [Producers -> BOOLEAN]
          /\ q      \in [Queues -> Seq(Segments)]
          /\ count  \in [Queues -> 0 .. CountMod - 1]
          /\ pc     \in [Queues -> ConsumerStates]
          /\ seg    \in [Queues -> Segments \cup {NoSeg}]
          /\ cursor \in [Queues -> 0 .. Nbf]
          /\ served \in [Queues -> 0 .. Num]
          /\ gbf    \in [Cells -> SUBSET Producers]
          /\ joined \in BOOLEAN

(* A consumer that came back from wait() finds a segment in its queue, and *)
(* it stays at the front until that consumer pops it: run_xoring calls     *)
(* front() outside the lock and never asks whether the queue is empty.     *)
TicketMeansSegment ==
  \A i \in Queues : /\ pc[i] # "undefined"
                    /\ pc[i] \in {"fetch", "xor"} => q[i] # <<>>
                    /\ pc[i] = "xor" => seg[i] = Head(q[i])

(* Producers between push() and notify() on queue i.                       *)
Owing(i) == {p \in Producers : owes[p] /\ next[p] = i}

(* Each queued segment is either announced by count_, held by the consumer *)
(* that took a ticket for it, or about to be announced: none is lost and   *)
(* none is announced twice, whatever the interleaving of push and notify.  *)
SemaphoreCountsSegments ==
  \A i \in Queues : Len(q[i]) = count[i] + Cardinality(Owing(i))
                                + (IF pc[i] \in {"fetch", "xor"} THEN 1 ELSE 0)

(* No wakeup is lost, between push() and notify() or between the test of   *)
(* count_ and the wait: a consumer never sleeps with nobody left to notify *)
(* its semaphore.                                                          *)
SleepersAreAwaited ==
  \A i \in Queues : pc[i] = "blocked" => \E p \in Producers : next[p] <= i

(* Two consumers never stand at the same cell: the GBF has no lock in this *)
(* phase, so GBF[j]=GBF[j]^x is safe only because the ranges are disjoint. *)
ExclusiveCells ==
  \A i, j \in Queues :
    (/\ i # j
     /\ pc[i] = "xor" /\ cursor[i] < seg[i].end
     /\ pc[j] = "xor" /\ cursor[j] < seg[j].end) => cursor[i] # cursor[j]

(* When main frees the queues and the strings, each cell has one string of *)
(* each thread of each link and no queue still holds a segment.            *)
JoinedMeansComplete ==
  joined => /\ gbf = [c \in Cells |-> Producers]
            /\ \A i \in Queues : q[i] = <<>> /\ count[i] = 0

(* The phase ends: no notification is lost and no consumer waits for more  *)
(* segments than the producers push.                                       *)
PhaseEnds == <>joined

(* The threads together accumulate every contribution exactly once.        *)
Abstract == INSTANCE Accumulation WITH
              Expected <- [c \in Cells |-> Producers],
              acc <- gbf, released <- joined
Accumulates == Abstract!Spec

=============================================================================
