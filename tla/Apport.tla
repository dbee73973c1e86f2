------------------------------- MODULE Apport -------------------------------
(***************************************************************************)
(* The AppROT bookkeeping of one link, seen from its OT receiver: the      *)
(* sub group it must open (recv_C, check_if_to_abort, compute_R_r,         *)
(* send_R_r), the vectors of the indexes that are left (get_zeros_ones and *)
(* shuffling), and the function that gives every cell of the Bloom filter  *)
(* an index with the right choice bit (arrange_the_indexes, send_func).    *)
(* The OT sender's test of R and r (recv_R, check_if_to_abort1) runs       *)
(* beside it; the receiver does not wait for its outcome.                  *)
(*                                                                         *)
(* String j for bit d is the atom <<j, d>>; an XOR is a set of atoms.      *)
(* Vectors are sequences: place p of the code is element p + 1.            *)
(***************************************************************************)
EXTENDS Integers, Sequences, FiniteSets, FiniteSetsExt

CONSTANTS Not,         \* number of OTs
          Nbf,         \* cells of the Bloom filter
          numOfOnes,   \* ones among the receiver's choice bits
          SubSizes,    \* sizes of the sub group the sender may ask for
          maxOnes      \* ones the sender tolerates in it

ASSUME SizesAssumption ==
  /\ Not \in Nat /\ Nbf \in Nat /\ numOfOnes \in 0 .. Not /\ maxOnes \in Nat
  /\ Nbf <= Not
  /\ SubSizes \subseteq 1 .. Not

(* cfg.txt: Nc = 7473 and Nr = 3627.                                       *)
ASSUME MaxOnesAssumption == \A n \in SubSizes : maxOnes < n

Indexes == 0 .. Not - 1
Cells   == 0 .. Nbf - 1
Bit     == {0, 1}
Threads == {"begin", "end"}
Garbage == -1              \* an entry computed from a read outside a vector

VARIABLES choices,      \* index |-> the choice bit the OTs were run with
          C,            \* the sub group the sender chose
          pc,           \* where the receiver is
          sub_group,    \* the sub group as the receiver's sorted array
          step,         \* next element of sub_group to move
          ind,          \* place its index is moved to
          indexes,      \* func_recv: place |-> index
          b,            \* bitvector: place |-> bit
          R, r,         \* the answer to the sender
          verdict,      \* the sender's test of it
          arr_indexes,  \* bit |-> vector of the places that hold it
          todo,         \* next place get_zeros_ones looks at
          shuf,         \* bit |-> loop variable of its shuffling thread
          BF,           \* cell |-> bit
          at,           \* thread |-> next cell it arranges
          place,        \* thread |-> bit |-> next place it takes from a vector
          new_indexes,  \* cell |-> index
          overrun       \* a thread read outside a vector

inputs    == <<choices, C, BF>>
opening   == <<sub_group, step, ind, indexes, b, R, r>>
vectors   == <<arr_indexes, todo, shuf>>
arranging == <<at, place, new_indexes, overrun>>
vars == <<inputs, pc, opening, verdict, vectors, arranging>>

Ncc == Cardinality(C)

-----------------------------------------------------------------------------
(* Every choice bit vector with numOfOnes ones (the Bitstring of the       *)
(* constructor), every sub group of a size in SubSizes (get_sub_group      *)
(* draws it into a std::set) and every Bloom filter.                       *)
Init == /\ choices \in {f \in [Indexes -> Bit] :
                          Cardinality({j \in Indexes : f[j] = 1}) = numOfOnes}
        /\ C \in {S \in SUBSET Indexes : Cardinality(S) \in SubSizes}
        /\ BF \in [Cells -> Bit]
        /\ pc = "recv"
        /\ sub_group = <<>>
        /\ step = 1
        /\ ind = Not - 1
        /\ indexes = [j \in Indexes |-> j]
        /\ b = choices
        /\ R = <<>>
        /\ r = {}
        /\ verdict = "none"
        /\ arr_indexes = [d \in Bit |-> <<>>]
        /\ todo = 0
        /\ shuf = [d \in Bit |-> 0]
        /\ at = [t \in Threads |-> IF t = "begin" THEN 0 ELSE Nbf \div 2]
        /\ place = [t \in Threads |-> [d \in Bit |-> 0]]
        /\ new_indexes = [c \in Cells |-> Garbage]
        /\ overrun = FALSE

(* check_if_to_abort fails: exit(1).                                       *)
RefuseC == /\ pc = "recv"
           /\ Ncc > Not - Nbf
           /\ pc' = "refused"
           /\ UNCHANGED <<inputs, opening, verdict, vectors, arranging>>

(* Mutant of Sorted: from small to big.                                    *)
Sorted_Ascending(s) == \A m, n \in DOMAIN s : m < n => s[m] < s[n]

(* std::sort with compare_func.                                            *)
Sorted(s) == \A m, n \in DOMAIN s : m < n => s[m] > s[n]

AcceptC == /\ pc = "recv"
           /\ Ncc <= Not - Nbf
           /\ \E s \in [1 .. Ncc -> C] : Sorted(s) /\ sub_group' = s
           /\ pc' = "move"
           /\ UNCHANGED <<inputs, step, ind, indexes, b, R, r, verdict, vectors, arranging>>

(* The places of two entries of a vector or array are exchanged.           *)
Swapped(f, m, n) == [f EXCEPT ![m] = f[n], ![n] = f[m]]

(* What the loop of compute_R_r does with `target' besides the two swaps,  *)
(* given the bit it saw there.                                             *)
Open(target, val) ==
  /\ ind' = ind - 1
  /\ step' = step + 1
  /\ R' = IF val = 0 THEN Append(R, target) ELSE R
  /\ r' = IF val = 0 THEN SymDiff(r, {<<target, choices[target]>>}) ELSE r
  /\ UNCHANGED <<inputs, pc, sub_group, verdict, vectors, arranging>>

(* Mutants of Move: the bits stay; the bit is looked up after the swap.    *)
Move_IndexOnly == /\ pc = "move"
                  /\ step <= Len(sub_group)
                  /\ indexes' = Swapped(indexes, sub_group[step], ind)
                  /\ b' = b
                  /\ Open(sub_group[step], b[sub_group[step]])
Move_LateBit == /\ pc = "move"
                /\ step <= Len(sub_group)
                /\ indexes' = Swapped(indexes, sub_group[step], ind)
                /\ b' = Swapped(b, sub_group[step], ind)
                /\ Open(sub_group[step], b[ind])

(* One turn of the loop of compute_R_r.                                    *)
Move == /\ pc = "move"
        /\ step <= Len(sub_group)
        /\ indexes' = Swapped(indexes, sub_group[step], ind)
        /\ b' = Swapped(b, sub_group[step], ind)
        /\ Open(sub_group[step], b[sub_group[step]])

(* The loop is over; send_R_r.                                             *)
SendR == /\ pc = "move"
         /\ step > Len(sub_group)
         /\ pc' = "collect"
         /\ UNCHANGED <<inputs, opening, verdict, vectors, arranging>>

(* recv_R and check_if_to_abort1 of the sender: the number of ones, and    *)
(* compute_r over its own strings for bit 0.                               *)
SenderCheck ==
  /\ verdict = "none"
  /\ pc \notin {"recv", "refused", "move"}
  /\ verdict' = IF Ncc - Len(R) > maxOnes \/ r # {<<R[m], 0>> : m \in DOMAIN R}
                THEN "abort" ELSE "ok"
  /\ UNCHANGED <<inputs, pc, opening, vectors, arranging>>

-----------------------------------------------------------------------------
(* Mutant of Collect: the loop also visits place Not - Nc.                 *)
Collect_Inclusive ==
  /\ pc = "collect"
  /\ todo <= Not - Ncc
  /\ arr_indexes' = [arr_indexes EXCEPT ![b[todo]] = Append(@, todo)]
  /\ todo' = todo + 1
  /\ UNCHANGED <<inputs, pc, opening, verdict, shuf, arranging>>

(* One turn of the loop of get_zeros_ones.                                 *)
Collect == /\ pc = "collect"
           /\ todo < Not - Ncc
           /\ arr_indexes' = [arr_indexes EXCEPT ![b[todo]] = Append(@, todo)]
           /\ todo' = todo + 1
           /\ UNCHANGED <<inputs, pc, opening, verdict, shuf, arranging>>

(* The two shuffling threads start at i = size - 1.  With one place        *)
(* rand[0] % 0 traps; with none the first element of nothing is swapped.   *)
StartShuffling ==
  /\ pc = "collect"
  /\ todo >= Not - Ncc
  /\ pc' = IF \E d \in Bit : Len(arr_indexes[d]) < 2 THEN "trapped" ELSE "shuffle"
  /\ shuf' = [d \in Bit |-> Len(arr_indexes[d]) - 1]
  /\ UNCHANGED <<inputs, opening, verdict, arr_indexes, todo, arranging>>

(* The swap of the first element and the first turn of the loop, which use *)
(* the same random number; then the other turns.                           *)
ShuffleStep(d) ==
  LET v == arr_indexes[d]
      n == shuf[d] IN
  /\ pc = "shuffle"
  /\ n > 0
  /\ \E k \in 0 .. n - 1 :
       LET w == IF n = Len(v) - 1 THEN Swapped(v, 1, k + 1) ELSE v IN
       arr_indexes' = [arr_indexes EXCEPT ![d] = Swapped(w, n + 1, k + 1)]
  /\ shuf' = [shuf EXCEPT ![d] = n - 1]
  /\ UNCHANGED <<inputs, pc, opening, verdict, todo, arranging>>

(* Both shuffling threads are joined.  arrange_the_indexes starts its own  *)
(* two, one from each end of the vectors.                                  *)
StartArranging ==
  /\ pc = "shuffle"
  /\ \A d \in Bit : shuf[d] = 0
  /\ pc' = "arrange"
  /\ place' = [t \in Threads |-> [d \in Bit |->
                 IF t = "begin" THEN 0 ELSE Len(arr_indexes[d]) - 1]]
  /\ UNCHANGED <<inputs, opening, verdict, vectors, at, new_indexes, overrun>>

Bound(t) == IF t = "begin" THEN Nbf \div 2 ELSE Nbf

(* The place that thread t reads next lies in the vector.                  *)
InVector(t) == LET d == BF[at[t]] IN place[t][d] \in 0 .. Len(arr_indexes[d]) - 1

(* Thread t gives cell at[t] an entry and steps its place for that bit.    *)
Fill(t, entry) ==
  /\ new_indexes' = [new_indexes EXCEPT ![at[t]] = entry]
  /\ place' = [place EXCEPT ![t][BF[at[t]]] = IF t = "begin" THEN @ + 1 ELSE @ - 1]
  /\ at' = [at EXCEPT ![t] = @ + 1]

(* One turn of arrange_indexes_thread.  operator[] does not throw, so the  *)
(* handler for out_of_range never runs: outside the vector the entry is    *)
(* garbage, or the process dies on the address.                            *)
Arrange(t) ==
  LET d == BF[at[t]] IN
  /\ pc = "arrange"
  /\ at[t] < Bound(t)
  /\ \/ /\ InVector(t)
        /\ Fill(t, indexes[arr_indexes[d][place[t][d] + 1]])
        /\ UNCHANGED <<pc, overrun>>
     \/ /\ ~InVector(t)
        /\ overrun' = TRUE
        /\ Fill(t, Garbage)
        /\ UNCHANGED pc
     \/ /\ ~InVector(t)
        /\ overrun' = TRUE
        /\ pc' = "crashed"
        /\ UNCHANGED <<new_indexes, place, at>>
  /\ UNCHANGED <<inputs, opening, verdict, vectors>>

(* Mutants of Crossed: off by one, each way.                               *)
Crossed_Late  == \E d \in Bit : place["begin"][d] - 1 > place["end"][d] + 1
Crossed_Early == \E d \in Bit : place["begin"][d] >= place["end"][d] + 1

(* The two threads went past each other in a vector.                       *)
Crossed == \E d \in Bit : place["begin"][d] - 1 >= place["end"][d] + 1

(* The threads are joined; exit(1), or send_func.                          *)
CheckAndSend == /\ pc = "arrange"
                /\ \A t \in Threads : at[t] = Bound(t)
                /\ pc' = IF Crossed THEN "exit" ELSE "sent"
                /\ UNCHANGED <<inputs, opening, verdict, vectors, arranging>>

-----------------------------------------------------------------------------
Ended == {"refused", "exit", "sent", "crashed", "trapped"}
Done == pc \in Ended /\ UNCHANGED vars

Next == \/ RefuseC \/ AcceptC \/ Move \/ SendR \/ SenderCheck
        \/ Collect \/ StartShuffling \/ (\E d \in Bit : ShuffleStep(d))
        \/ StartArranging \/ (\E t \in Threads : Arrange(t)) \/ CheckAndSend
        \/ Done

Spec == Init /\ [][Next]_vars

-----------------------------------------------------------------------------
TypeOK ==
  /\ choices \in [Indexes -> Bit]
  /\ C \in SUBSET Indexes
  /\ BF \in [Cells -> Bit]
  /\ pc \in {"recv", "move", "collect", "shuffle", "arrange"} \cup Ended
  /\ sub_group \in Seq(Indexes)
  /\ step \in 1 .. Ncc + 1
  /\ ind \in -1 .. Not - 1
  /\ indexes \in [Indexes -> Indexes]
  /\ b \in [Indexes -> Bit]
  /\ R \in Seq(Indexes)
  /\ r \in SUBSET (Indexes \X Bit)
  /\ verdict \in {"none", "ok", "abort"}
  /\ arr_indexes \in [Bit -> Seq(Indexes)]
  /\ todo \in 0 .. Not - Ncc
  /\ shuf \in [Bit -> -1 .. Not]
  /\ at \in [Threads -> 0 .. Nbf]
  /\ place \in [Threads -> [Bit -> Int]]
  /\ new_indexes \in [Cells -> Indexes \cup {Garbage}]
  /\ overrun \in BOOLEAN

(* "Every change in indexes array will cause to the same change in the     *)
(* bits array" (Functions.cpp:385): the bit at a place is the choice bit   *)
(* of the index at that place.                                             *)
BitsFollowIndexes == \A p \in Indexes : b[p] = choices[indexes[p]]

(* "to ensure that the index and its place are the same"                   *)
(* (Functions.cpp:407): no earlier move has displaced an element of the    *)
(* sub group that is still to be moved, although every move swaps an       *)
(* arbitrary other index into the middle of the array.                     *)
TargetInPlace ==
  pc = "move" => \A m \in step .. Len(sub_group) : indexes[sub_group[m]] = sub_group[m]

(* The sender's verdict is about the number of ones in the sub group only: *)
(* the R and r of a receiver that follows the code always agree.           *)
VerdictIsTruth ==
  verdict # "none" =>
    (verdict = "abort") = (Cardinality({j \in C : choices[j] = 1}) > maxOnes)

(* The function that is sent gives every cell an index of its own, with    *)
(* the bit of the Bloom filter as its choice bit, and none of the indexes  *)
(* that were opened: check_if_to_abort2, which is never called, would pass. *)
FuncSound ==
  pc = "sent" =>
    \A c \in Cells : /\ new_indexes[c] \in Indexes \ C
                     /\ choices[new_indexes[c]] = BF[c]
                     /\ \A e \in Cells : new_indexes[e] = new_indexes[c] => e = c

(* The receiver gives up, or reads outside a vector, only when the Bloom   *)
(* filter really needs more zeros or more ones than it has left.  (Of runs *)
(* that end at "trapped", where a vector is too short to be shuffled,      *)
(* Functions.cpp:30-33, this says nothing: the filter may need no more.)   *)
Short == \E d \in Bit : Cardinality({c \in Cells : BF[c] = d})
                        > Cardinality({j \in Indexes \ C : choices[j] = d})
StopsOnlyWhenShort == (pc \in {"exit", "crashed"} \/ overrun) => Short

(* What the handlers for out_of_range (Functions.cpp:111-114, 131-134)     *)
(* say: a read outside a vector does not happen unnoticed.                 *)
ReadsInVectors == ~overrun

=============================================================================
