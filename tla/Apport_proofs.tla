---------------------------- MODULE Apport_proofs ----------------------------
(***************************************************************************)
(* The bookkeeping of Apport, proved for every number of OTs, every size   *)
(* of the filter, every sub group and every shuffle: the bits follow the   *)
(* indexes, the sub group is moved as the comments say, and the function   *)
(* that is sent is sound.                                                  *)
(***************************************************************************)
EXTENDS Apport, FiniteSetTheorems, TLAPS

(* The sub group was accepted.                                             *)
Accepted  == pc \notin {"recv", "refused"}

IndexesDistinct == \A p, q \in Indexes : indexes[p] = indexes[q] => p = q

(* Where the moves of compute_R_r are: the elements moved so far stand at  *)
(* the end of the array, and the next one is not beyond its target.        *)
MovesInOrder ==
  /\ ind = Not - step
  /\ Accepted \/ (step = 1 /\ indexes = [j \in Indexes |-> j])
  /\ Accepted => /\ sub_group \in [1 .. Ncc -> C]
                 /\ Sorted(sub_group)
                 /\ \A m \in 1 .. step - 1 : indexes[Not - m] = sub_group[m]
  /\ (pc = "move" /\ step <= Ncc) => sub_group[step] <= ind
  /\ (Accepted /\ pc # "move") => step = Ncc + 1

OpeningInv == /\ MovesInOrder
              /\ IndexesDistinct
              /\ BitsFollowIndexes
              /\ TargetInPlace

(* A vector of places with bit d: all different, none of the end of the    *)
(* array, and each with the bit that the vector stands for.                *)
Places(v, d) ==
  /\ Len(v) <= todo
  /\ \A k \in 1 .. Len(v) : /\ v[k] < todo
                            /\ b[v[k]] = d
                            /\ \A l \in 1 .. Len(v) : v[k] = v[l] => k = l

VectorsInv ==
  /\ pc \in {"recv", "refused", "move"} => todo = 0
  /\ \A d \in Bit : Places(arr_indexes[d], d)
  /\ pc = "shuffle" => \A d \in Bit : shuf[d] \in 0 .. Len(arr_indexes[d]) - 1

OInv == TypeOK /\ OpeningInv /\ VectorsInv

(* The arranging threads have started, and none of them died.              *)
Arranging == pc \in {"arrange", "exit", "sent"}

(* The cells that thread t has arranged.                                   *)
Start(t)    == IF t = "begin" THEN 0 ELSE Nbf \div 2
Arranged(t) == Start(t) .. at[t] - 1

(* The elements of vector d that thread t has taken.                       *)
Taken(t, d) == {k \in 1 .. Len(arr_indexes[d]) :
                  IF t = "begin" THEN k <= place[t][d] ELSE k >= place[t][d] + 2}

(* Thread t went past the end of vector d.                                 *)
Beyond(t, d) == IF t = "begin" THEN place[t][d] > Len(arr_indexes[d])
                               ELSE place[t][d] < -1

NotStarted ==
  pc \notin {"arrange", "exit", "sent", "crashed"} =>
    overrun = FALSE /\ \A t \in Threads : at[t] = Start(t)

PlacesInRange ==
  \A d \in Bit : place["begin"][d] >= 0 /\ place["end"][d] <= Len(arr_indexes[d]) - 1

OverrunShows == overrun => \E t \in Threads, d \in Bit : Beyond(t, d)

CellsTaken ==
  ~overrun => \A t \in Threads : \A c \in Arranged(t) : \E k \in Taken(t, BF[c]) :
                new_indexes[c] = indexes[arr_indexes[BF[c]][k]]

CellsDistinct ==
  ~overrun => \A t \in Threads : \A c, e \in Arranged(t) :
                new_indexes[c] = new_indexes[e] => c = e

ArrangeInv ==
  /\ NotStarted
  /\ \A t \in Threads : at[t] \in Start(t) .. Bound(t)
  /\ Arranging => PlacesInRange /\ OverrunShows /\ CellsTaken /\ CellsDistinct
  /\ pc = "sent" => ~Crossed /\ \A t \in Threads : at[t] = Bound(t)

AInv == OInv /\ ArrangeInv

-----------------------------------------------------------------------------
LEMMA Sizes ==
  ASSUME C \in SUBSET Indexes
  PROVE  /\ IsFiniteSet(C) /\ Ncc \in Nat /\ Ncc <= Not
         /\ Not \in Nat /\ Nbf \in Nat /\ Nbf <= Not
<1>1. Not \in Nat /\ Nbf \in Nat /\ Nbf <= Not
  BY SizesAssumption
<1>2. IsFiniteSet(Indexes) /\ Cardinality(Indexes) = Not
  <2>1. /\ IsFiniteSet(0 .. Not - 1)
        /\ Cardinality(0 .. Not - 1) = IF 0 > Not - 1 THEN 0 ELSE (Not - 1) - 0 + 1
    BY <1>1, FS_Interval
  <2>. QED  BY <1>1, <2>1 DEF Indexes
<1>. QED  BY <1>1, <1>2, FS_Subset, FS_CardinalityType DEF Ncc

-----------------------------------------------------------------------------
LEMMA InitOInv == Init => OInv
<1>. SUFFICES ASSUME Init PROVE OInv
  OBVIOUS
<1>0. /\ C \in SUBSET Indexes /\ choices \in [Indexes -> Bit] /\ BF \in [Cells -> Bit]
      /\ pc = "recv" /\ step = 1 /\ ind = Not - 1 /\ todo = 0
  BY DEF Init
<1>. USE <1>0, Sizes
<1>1. TypeOK
  <2>1. /\ sub_group \in Seq(Indexes) /\ R \in Seq(Indexes) /\ r \in SUBSET (Indexes \X Bit)
        /\ verdict \in {"none", "ok", "abort"} /\ overrun \in BOOLEAN
    <3>1. sub_group = <<>> /\ R = <<>> /\ r = {} /\ verdict = "none" /\ overrun = FALSE
      BY DEF Init
    <3>2. r \in SUBSET (Indexes \X Bit)
      BY <3>1, Zenon
    <3>3. sub_group \in Seq(Indexes) /\ R \in Seq(Indexes)
      BY <3>1
    <3>4. verdict \in {"none", "ok", "abort"}
      BY <3>1
    <3>5. overrun \in BOOLEAN
      BY <3>1
    <3>. QED  BY <3>2, <3>3, <3>4, <3>5, Zenon
  <2>2. /\ indexes \in [Indexes -> Indexes] /\ b \in [Indexes -> Bit]
        /\ arr_indexes \in [Bit -> Seq(Indexes)]
        /\ new_indexes \in [Cells -> Indexes \cup {Garbage}]
    BY DEF Init
  <2>3. /\ shuf \in [Bit -> -1 .. Not] /\ at \in [Threads -> 0 .. Nbf]
        /\ place \in [Threads -> [Bit -> Int]]
    BY DEF Init, Threads
  <2>4. step \in 1 .. Ncc + 1 /\ ind \in -1 .. Not - 1 /\ todo \in 0 .. Not - Ncc
    OBVIOUS
  <2>. QED  BY <2>1, <2>2, <2>3, <2>4 DEF TypeOK
<1>2. OpeningInv
  BY DEF Init, OpeningInv, MovesInOrder, IndexesDistinct, BitsFollowIndexes, TargetInPlace,
         Accepted, Indexes
<1>3. VectorsInv
  BY DEF Init, VectorsInv, Places
<1>. QED  BY <1>1, <1>2, <1>3 DEF OInv

-----------------------------------------------------------------------------
(* A sorted arrangement of the sub group is a sequence of length Ncc.      *)
LEMMA Arrangement ==
  ASSUME C \in SUBSET Indexes, NEW s \in [1 .. Ncc -> C]
  PROVE  s \in Seq(Indexes) /\ Len(s) = Ncc
  BY Sizes

LEMMA RefuseCKeeps ==
  ASSUME OInv, RefuseC
  PROVE  OInv'
<1>1. /\ pc = "recv" /\ pc' = "refused" /\ Ncc' = Ncc
      /\ UNCHANGED <<choices, C, BF, sub_group, step, ind, indexes, b, R, r, verdict,
                     arr_indexes, todo, shuf, at, place, new_indexes, overrun>>
  BY DEF RefuseC, inputs, opening, vectors, arranging, Ncc
<1>2. TypeOK'
  BY <1>1 DEF OInv, TypeOK, Ended
<1>3. OpeningInv'
  BY <1>1 DEF OInv, OpeningInv, MovesInOrder, IndexesDistinct, BitsFollowIndexes,
              TargetInPlace, Accepted
<1>4. VectorsInv'
  BY <1>1 DEF OInv, VectorsInv, Places
<1>. QED  BY <1>2, <1>3, <1>4 DEF OInv

LEMMA AcceptCKeeps ==
  ASSUME OInv, AcceptC
  PROVE  OInv'
<1>1. PICK s \in [1 .. Ncc -> C] : Sorted(s) /\ sub_group' = s
  BY DEF AcceptC
<1>2. /\ pc = "recv" /\ pc' = "move" /\ Ncc' = Ncc
      /\ UNCHANGED <<choices, C, BF, step, ind, indexes, b, R, r, verdict,
                     arr_indexes, todo, shuf, at, place, new_indexes, overrun>>
  BY DEF AcceptC, inputs, vectors, arranging, Ncc
<1>3. C \in SUBSET Indexes
  BY DEF OInv, TypeOK
<1>4. sub_group' \in Seq(Indexes) /\ Len(sub_group') = Ncc /\ Ncc \in Nat
  BY <1>1, <1>3, Arrangement, Sizes
<1>5. TypeOK'
  BY <1>2, <1>4 DEF OInv, TypeOK
<1>6. step = 1 /\ ind = Not - 1 /\ indexes = [j \in Indexes |-> j]
  BY <1>2 DEF OInv, OpeningInv, MovesInOrder, Accepted
<1>7. \A m \in 1 .. Ncc : sub_group'[m] \in C /\ sub_group'[m] \in Indexes
  BY <1>1, <1>3
<1>8. MovesInOrder'
  <2>1. 1 <= Ncc => sub_group'[1] <= ind
    BY <1>4, <1>6, <1>7, Sizes, <1>3 DEF Indexes
  <2>2. Sorted(sub_group)'
    BY <1>1 DEF Sorted
  <2>3. (sub_group \in [1 .. Ncc -> C])'
    BY <1>1, <1>2
  <2>. QED  BY <1>2, <1>6, <2>1, <2>2, <2>3 DEF MovesInOrder, Accepted
<1>9. IndexesDistinct' /\ BitsFollowIndexes'
  BY <1>2 DEF OInv, OpeningInv, IndexesDistinct, BitsFollowIndexes
<1>10. TargetInPlace'
  BY <1>2, <1>4, <1>6, <1>7 DEF TargetInPlace
<1>11. VectorsInv'
  BY <1>2 DEF OInv, VectorsInv, Places
<1>. QED  BY <1>5, <1>8, <1>9, <1>10, <1>11 DEF OInv, OpeningInv

(* One move of compute_R_r: the target still stands at its own place, it   *)
(* changes places with the last entry that is not opened, and the targets  *)
(* to come are smaller than both places.                                   *)
LEMMA MoveKeeps ==
  ASSUME OInv, Move
  PROVE  OInv'
<1>. DEFINE target == sub_group[step]
<1>1. /\ pc = "move" /\ pc' = "move" /\ Ncc' = Ncc
      /\ step <= Len(sub_group)
      /\ indexes' = Swapped(indexes, target, ind) /\ b' = Swapped(b, target, ind)
      /\ ind' = ind - 1 /\ step' = step + 1
      /\ UNCHANGED <<choices, C, BF, sub_group, verdict,
                     arr_indexes, todo, shuf, at, place, new_indexes, overrun>>
  BY DEF Move, Open, inputs, vectors, arranging, Ncc
<1>2. /\ C \in SUBSET Indexes /\ step \in 1 .. Ncc + 1 /\ ind = Not - step
      /\ indexes \in [Indexes -> Indexes] /\ b \in [Indexes -> Bit]
      /\ choices \in [Indexes -> Bit]
  BY DEF OInv, TypeOK, OpeningInv, MovesInOrder
<1>3. /\ Ncc \in Nat /\ Ncc <= Not /\ Not \in Nat
  BY <1>2, Sizes
<1>4. /\ sub_group \in [1 .. Ncc -> C] /\ sub_group \in Seq(Indexes) /\ Len(sub_group) = Ncc
      /\ \A m, n \in 1 .. Ncc : m < n => sub_group[m] > sub_group[n]
      /\ \A m \in 1 .. Ncc : sub_group[m] \in Indexes
  BY <1>1, <1>2, Arrangement DEF OInv, OpeningInv, MovesInOrder, Accepted, Sorted
<1>5. /\ step \in 1 .. Ncc /\ target \in Indexes /\ ind \in Indexes
      /\ target <= ind
  <2>1. step \in 1 .. Ncc
    BY <1>1, <1>2, <1>3, <1>4
  <2>2. target \in Indexes /\ target <= ind
    BY <1>1, <1>4, <2>1 DEF OInv, OpeningInv, MovesInOrder
  <2>. QED  BY <1>2, <1>3, <2>1, <2>2 DEF Indexes
<1>6. /\ indexes' \in [Indexes -> Indexes] /\ b' \in [Indexes -> Bit]
      /\ \A k \in Indexes : indexes'[k] = IF k = ind THEN indexes[target]
                                           ELSE IF k = target THEN indexes[ind] ELSE indexes[k]
      /\ \A k \in Indexes : b'[k] = IF k = ind THEN b[target]
                                     ELSE IF k = target THEN b[ind] ELSE b[k]
  <2>1. /\ Swapped(indexes, target, ind) \in [Indexes -> Indexes]
        /\ \A k \in Indexes : Swapped(indexes, target, ind)[k] =
             IF k = ind THEN indexes[target] ELSE IF k = target THEN indexes[ind] ELSE indexes[k]
    BY <1>2, <1>5 DEF Swapped
  <2>2. /\ Swapped(b, target, ind) \in [Indexes -> Bit]
        /\ \A k \in Indexes : Swapped(b, target, ind)[k] =
             IF k = ind THEN b[target] ELSE IF k = target THEN b[ind] ELSE b[k]
    BY <1>2, <1>5 DEF Swapped
  <2>. QED  BY <1>1, <2>1, <2>2
<1>7. indexes[target] = target
  BY <1>1, <1>4, <1>5 DEF OInv, OpeningInv, TargetInPlace
<1>8. TypeOK'
  <2>1. R' \in Seq(Indexes)
    BY <1>4, <1>5 DEF Move, Open, OInv, TypeOK
  <2>2. r' \in SUBSET (Indexes \X Bit)
    <3>1. <<target, choices[target]>> \in Indexes \X Bit
      BY <1>2, <1>5
    <3>2. r' = r \/ r' = SymDiff(r, {<<target, choices[target]>>})
      BY DEF Move, Open
    <3>3. r \in SUBSET (Indexes \X Bit)
      BY DEF OInv, TypeOK
    <3>. QED  BY <3>1, <3>2, <3>3, Zenon DEF SymDiff
  <2>3. step' \in 1 .. Ncc + 1 /\ ind' \in -1 .. Not - 1
    BY <1>1, <1>2, <1>3, <1>5
  <2>. QED  BY <1>1, <1>6, <2>1, <2>2, <2>3 DEF OInv, TypeOK
<1>9. MovesInOrder'
  <2>1. \A m \in 1 .. step : indexes'[Not - m] = sub_group[m]
    <3>. SUFFICES ASSUME NEW m \in 1 .. step PROVE indexes'[Not - m] = sub_group[m]
      OBVIOUS
    <3>1. CASE m = step
      BY <3>1, <1>2, <1>5, <1>6, <1>7
    <3>2. CASE m # step
      <4>1. /\ m \in 1 .. step - 1 /\ Not - m \in Indexes
            /\ Not - m # ind /\ Not - m # target
        BY <3>2, <1>2, <1>3, <1>5 DEF Indexes
      <4>2. indexes[Not - m] = sub_group[m]
        BY <4>1, <1>1 DEF OInv, OpeningInv, MovesInOrder, Accepted
      <4>. QED  BY <4>1, <4>2, <1>6
    <3>. QED  BY <3>1, <3>2
  <2>2. step + 1 <= Ncc => sub_group[step + 1] <= ind - 1
    BY <1>2, <1>3, <1>4, <1>5 DEF Indexes
  <2>3. Sorted(sub_group)'
    BY <1>1 DEF OInv, OpeningInv, MovesInOrder, Accepted, Sorted
  <2>4. (step + 1) - 1 = step /\ ind - 1 = Not - (step + 1)
    BY <1>2, <1>3, <1>5
  <2>. QED  BY <1>1, <1>4, <2>1, <2>2, <2>3, <2>4 DEF MovesInOrder, Accepted
<1>10. IndexesDistinct'
  BY <1>5, <1>6 DEF OInv, OpeningInv, IndexesDistinct
<1>11. BitsFollowIndexes'
  BY <1>1, <1>5, <1>6 DEF OInv, OpeningInv, BitsFollowIndexes
<1>12. TargetInPlace'
  <2>. SUFFICES ASSUME NEW m \in step + 1 .. Ncc
                PROVE  indexes'[sub_group[m]] = sub_group[m]
    BY <1>1, <1>4 DEF TargetInPlace
  <2>1. m \in step .. Ncc /\ m \in 1 .. Ncc /\ step < m
    BY <1>3, <1>5
  <2>2. sub_group[m] \in Indexes /\ sub_group[m] < target /\ sub_group[m] < ind
    BY <2>1, <1>4, <1>5 DEF Indexes
  <2>3. indexes[sub_group[m]] = sub_group[m]
    BY <2>1, <1>1, <1>4 DEF OInv, OpeningInv, TargetInPlace
  <2>. QED  BY <2>2, <2>3, <1>5, <1>6 DEF Indexes
<1>13. VectorsInv'
  <2>1. todo = 0
    BY <1>1 DEF OInv, VectorsInv
  <2>2. \A d \in Bit : Len(arr_indexes[d]) \in Nat
    BY DEF OInv, TypeOK
  <2>3. \A d \in Bit : 1 .. Len(arr_indexes[d]) = {}
    BY <2>1, <2>2 DEF OInv, VectorsInv, Places
  <2>. QED  BY <1>1, <2>1, <2>3 DEF OInv, VectorsInv, Places
<1>. QED  BY <1>8, <1>9, <1>10, <1>11, <1>12, <1>13 DEF OInv, OpeningInv

-----------------------------------------------------------------------------
LEMMA SendRKeeps ==
  ASSUME OInv, SendR
  PROVE  OInv'
<1>1. /\ pc = "move" /\ pc' = "collect" /\ step > Len(sub_group) /\ Ncc' = Ncc
      /\ UNCHANGED <<choices, C, BF, sub_group, step, ind, indexes, b, R, r, verdict,
                     arr_indexes, todo, shuf, at, place, new_indexes, overrun>>
  BY DEF SendR, inputs, opening, vectors, arranging, Ncc
<1>2. TypeOK'
  BY <1>1 DEF OInv, TypeOK
<1>3. step = Ncc + 1
  <2>1. C \in SUBSET Indexes /\ step \in 1 .. Ncc + 1 /\ sub_group \in [1 .. Ncc -> C]
    BY <1>1 DEF OInv, TypeOK, OpeningInv, MovesInOrder, Accepted
  <2>2. Len(sub_group) = Ncc /\ Ncc \in Nat
    BY <2>1, Arrangement, Sizes
  <2>. QED  BY <1>1, <2>1, <2>2
<1>4. OpeningInv'
  BY <1>1, <1>3 DEF OInv, OpeningInv, MovesInOrder, IndexesDistinct, BitsFollowIndexes,
                    TargetInPlace, Accepted, Sorted
<1>5. VectorsInv'
  BY <1>1 DEF OInv, VectorsInv, Places
<1>. QED  BY <1>2, <1>4, <1>5 DEF OInv

(* After the moves nothing of the opening changes any more.                *)
LEMMA OpeningKept ==
  ASSUME OpeningInv, pc \notin {"recv", "refused", "move"},
         pc' \notin {"recv", "refused", "move"},
         UNCHANGED <<choices, C, sub_group, step, ind, indexes, b>>
  PROVE  OpeningInv' /\ Ncc' = Ncc
<1>1. Ncc' = Ncc
  BY DEF Ncc
<1>2. OpeningInv'
  BY <1>1 DEF OpeningInv, MovesInOrder, IndexesDistinct, BitsFollowIndexes,
              TargetInPlace, Accepted, Sorted
<1>. QED  BY <1>1, <1>2

LEMMA SenderCheckKeeps ==
  ASSUME OInv, SenderCheck
  PROVE  OInv'
<1>1. /\ verdict' \in {"abort", "ok"} /\ Ncc' = Ncc
      /\ pc \notin {"recv", "refused", "move"}
      /\ UNCHANGED <<choices, C, BF, pc, sub_group, step, ind, indexes, b, R, r,
                     arr_indexes, todo, shuf, at, place, new_indexes, overrun>>
  BY DEF SenderCheck, inputs, opening, vectors, arranging, Ncc
<1>2. TypeOK'
  BY <1>1 DEF OInv, TypeOK
<1>3. OpeningInv'
  BY <1>1, OpeningKept DEF OInv
<1>4. VectorsInv'
  BY <1>1 DEF OInv, VectorsInv, Places
<1>. QED  BY <1>2, <1>3, <1>4 DEF OInv

(* The next place goes to the vector of its bit; the places before it are  *)
(* smaller.                                                                *)
LEMMA CollectKeeps ==
  ASSUME OInv, Collect
  PROVE  OInv'
<1>. DEFINE e == b[todo]
<1>1. /\ pc = "collect" /\ todo < Not - Ncc /\ todo' = todo + 1 /\ Ncc' = Ncc
      /\ arr_indexes' = [arr_indexes EXCEPT ![e] = Append(@, todo)]
      /\ UNCHANGED <<choices, C, BF, pc, sub_group, step, ind, indexes, b, R, r, verdict,
                     shuf, at, place, new_indexes, overrun>>
  BY DEF Collect, inputs, opening, arranging, Ncc
<1>2. /\ C \in SUBSET Indexes /\ todo \in 0 .. Not - Ncc /\ b \in [Indexes -> Bit]
      /\ arr_indexes \in [Bit -> Seq(Indexes)]
  BY DEF OInv, TypeOK
<1>3. Ncc \in Nat /\ Not \in Nat /\ todo \in Nat /\ todo \in Indexes /\ e \in Bit
  <2>1. Ncc \in Nat /\ Not \in Nat
    BY <1>2, Sizes
  <2>2. todo \in Nat /\ todo \in Indexes
    BY <1>1, <1>2, <2>1 DEF Indexes
  <2>. QED  BY <1>2, <2>1, <2>2
<1>4. /\ arr_indexes' \in [Bit -> Seq(Indexes)]
      /\ arr_indexes'[e] = Append(arr_indexes[e], todo)
      /\ \A d \in Bit : d # e => arr_indexes'[d] = arr_indexes[d]
  BY <1>1, <1>2, <1>3
<1>5. TypeOK'
  <2>1. todo' \in 0 .. Not - Ncc
    BY <1>1, <1>3
  <2>. QED  BY <1>1, <1>4, <2>1 DEF OInv, TypeOK
<1>6. OpeningInv'
  BY <1>1, OpeningKept DEF OInv
<1>7. ASSUME NEW d \in Bit PROVE Places(arr_indexes[d], d)'
  <2>. DEFINE v == arr_indexes[d]
  <2>1. v \in Seq(Indexes) /\ Places(v, d)
    BY <1>2 DEF OInv, VectorsInv
  <2>2. CASE d # e
    BY <2>1, <2>2, <1>1, <1>3, <1>4 DEF Places, Indexes
  <2>3. CASE d = e
    <3>1. /\ Len(arr_indexes'[d]) = Len(v) + 1 /\ Len(v) \in Nat
          /\ \A k \in 1 .. Len(v) : arr_indexes'[d][k] = v[k] /\ v[k] \in Indexes
          /\ arr_indexes'[d][Len(v) + 1] = todo
      BY <2>1, <2>3, <1>3, <1>4
    <3>2. \A k \in 1 .. Len(v) + 1 : k \in 1 .. Len(v) \/ k = Len(v) + 1
      BY <3>1
    <3>3. \A k \in 1 .. Len(v) : v[k] < todo /\ b[v[k]] = d
                                 /\ \A l \in 1 .. Len(v) : v[k] = v[l] => k = l
      BY <2>1 DEF Places
    <3>4. Len(v) <= todo
      BY <2>1 DEF Places
    <3>. QED  BY <3>1, <3>2, <3>3, <3>4, <2>3, <1>1, <1>3 DEF Places, Indexes
  <2>. QED  BY <2>2, <2>3
<1>8. VectorsInv'
  BY <1>1, <1>7 DEF OInv, VectorsInv
<1>. QED  BY <1>5, <1>6, <1>8 DEF OInv

LEMMA StartShufflingKeeps ==
  ASSUME OInv, StartShuffling
  PROVE  OInv'
<1>1. /\ pc = "collect" /\ Ncc' = Ncc
      /\ pc' = IF \E d \in Bit : Len(arr_indexes[d]) < 2 THEN "trapped" ELSE "shuffle"
      /\ shuf' = [d \in Bit |-> Len(arr_indexes[d]) - 1]
      /\ UNCHANGED <<choices, C, BF, sub_group, step, ind, indexes, b, R, r, verdict,
                     arr_indexes, todo, at, place, new_indexes, overrun>>
  BY DEF StartShuffling, inputs, opening, arranging, Ncc
<1>2. \A d \in Bit : /\ Len(arr_indexes[d]) \in Nat
                     /\ Len(arr_indexes[d]) <= Not
                     /\ arr_indexes[d] \in Seq(Indexes)
  <2>1. C \in SUBSET Indexes /\ todo \in 0 .. Not - Ncc /\ arr_indexes \in [Bit -> Seq(Indexes)]
    BY DEF OInv, TypeOK
  <2>2. todo \in Nat /\ todo <= Not
    BY <2>1, Sizes
  <2>. QED  BY <2>1, <2>2, Sizes DEF OInv, VectorsInv, Places
<1>3. TypeOK'
  <2>1. shuf' \in [Bit -> -1 .. Not]
    BY <1>1, <1>2, SizesAssumption
  <2>. QED  BY <1>1, <2>1 DEF OInv, TypeOK, Ended
<1>4. OpeningInv'
  BY <1>1, OpeningKept DEF OInv
<1>5. VectorsInv'
  <2>1. pc' = "shuffle" => \A d \in Bit : shuf'[d] \in 0 .. Len(arr_indexes[d]) - 1
    BY <1>1, <1>2
  <2>. QED  BY <1>1, <2>1 DEF OInv, VectorsInv, Places
<1>. QED  BY <1>3, <1>4, <1>5 DEF OInv

(* An exchange within a vector keeps what the vector is good for.          *)
LEMMA SwapKeepsPlaces ==
  ASSUME NEW v \in Seq(Indexes), NEW d, Places(v, d),
         NEW m \in 1 .. Len(v), NEW n \in 1 .. Len(v)
  PROVE  /\ Swapped(v, m, n) \in Seq(Indexes)
         /\ Len(Swapped(v, m, n)) = Len(v)
         /\ Places(Swapped(v, m, n), d)
<1>1. /\ Swapped(v, m, n) \in Seq(Indexes)
      /\ Len(Swapped(v, m, n)) = Len(v)
      /\ \A k \in 1 .. Len(v) : Swapped(v, m, n)[k] =
           IF k = n THEN v[m] ELSE IF k = m THEN v[n] ELSE v[k]
  BY DEF Swapped
<1>2. Places(Swapped(v, m, n), d)
  BY <1>1 DEF Places
<1>. QED  BY <1>1, <1>2

LEMMA ShuffleKeeps ==
  ASSUME OInv, NEW d \in Bit, ShuffleStep(d)
  PROVE  OInv'
<1>. DEFINE v == arr_indexes[d]
            n == shuf[d]
<1>1. PICK k \in 0 .. n - 1 :
        arr_indexes' = [arr_indexes EXCEPT ![d] =
          Swapped(IF n = Len(v) - 1 THEN Swapped(v, 1, k + 1) ELSE v, n + 1, k + 1)]
  BY DEF ShuffleStep
<1>. DEFINE w == IF n = Len(v) - 1 THEN Swapped(v, 1, k + 1) ELSE v
            x == Swapped(w, n + 1, k + 1)
<1>2. /\ pc = "shuffle" /\ n > 0 /\ shuf' = [shuf EXCEPT ![d] = n - 1] /\ Ncc' = Ncc
      /\ UNCHANGED <<choices, C, BF, pc, sub_group, step, ind, indexes, b, R, r, verdict,
                     todo, at, place, new_indexes, overrun>>
  BY DEF ShuffleStep, inputs, opening, arranging, Ncc
<1>3. /\ v \in Seq(Indexes) /\ Places(v, d) /\ Len(v) \in Nat
      /\ n \in 0 .. Len(v) - 1
      /\ arr_indexes \in [Bit -> Seq(Indexes)] /\ shuf \in [Bit -> -1 .. Not]
  <2>1. arr_indexes \in [Bit -> Seq(Indexes)] /\ shuf \in [Bit -> -1 .. Not]
    BY DEF OInv, TypeOK
  <2>2. Places(v, d) /\ n \in 0 .. Len(v) - 1
    BY <1>2 DEF OInv, VectorsInv
  <2>. QED  BY <2>1, <2>2
<1>4. 1 \in 1 .. Len(v) /\ k + 1 \in 1 .. Len(v) /\ n + 1 \in 1 .. Len(v)
  BY <1>2, <1>3
<1>5. w \in Seq(Indexes) /\ Len(w) = Len(v) /\ Places(w, d)
  BY <1>3, <1>4, SwapKeepsPlaces
<1>6. x \in Seq(Indexes) /\ Len(x) = Len(v) /\ Places(x, d)
  BY <1>4, <1>5, SwapKeepsPlaces
<1>. HIDE DEF w, x
<1>7. /\ arr_indexes' \in [Bit -> Seq(Indexes)]
      /\ arr_indexes'[d] = x
      /\ \A e \in Bit : e # d => arr_indexes'[e] = arr_indexes[e]
  BY <1>1, <1>3, <1>6 DEF w, x
<1>8. /\ shuf' \in [Bit -> -1 .. Not]
      /\ shuf'[d] \in 0 .. Len(x) - 1
      /\ \A e \in Bit : e # d => shuf'[e] = shuf[e]
  <2>1. n - 1 \in -1 .. Not /\ n - 1 \in 0 .. Len(x) - 1
    BY <1>2, <1>3, <1>6, SizesAssumption
  <2>. QED  BY <1>2, <1>3, <2>1
<1>9. TypeOK'
  BY <1>2, <1>7, <1>8 DEF OInv, TypeOK
<1>10. OpeningInv'
  BY <1>2, OpeningKept DEF OInv
<1>11. VectorsInv'
  <2>1. ASSUME NEW e \in Bit
        PROVE  Places(arr_indexes[e], e)' /\ shuf'[e] \in 0 .. Len(arr_indexes'[e]) - 1
    <3>1. CASE e = d
      BY <3>1, <1>2, <1>6, <1>7, <1>8 DEF Places
    <3>2. CASE e # d
      BY <3>2, <1>2, <1>7, <1>8 DEF OInv, VectorsInv, Places
    <3>. QED  BY <3>1, <3>2
  <2>. QED  BY <1>2, <2>1 DEF VectorsInv
<1>. QED  BY <1>9, <1>10, <1>11 DEF OInv

-----------------------------------------------------------------------------
LEMMA StartArrangingKeeps ==
  ASSUME OInv, StartArranging
  PROVE  OInv'
<1>1. /\ pc = "shuffle" /\ pc' = "arrange" /\ Ncc' = Ncc
      /\ place' = [t \in Threads |-> [d \in Bit |->
                     IF t = "begin" THEN 0 ELSE Len(arr_indexes[d]) - 1]]
      /\ UNCHANGED <<choices, C, BF, sub_group, step, ind, indexes, b, R, r, verdict,
                     arr_indexes, todo, shuf, at, new_indexes, overrun>>
  BY DEF StartArranging, inputs, opening, vectors, Ncc
<1>2. TypeOK'
  <2>1. \A d \in Bit : Len(arr_indexes[d]) \in Nat
    BY DEF OInv, TypeOK
  <2>2. place' \in [Threads -> [Bit -> Int]]
    BY <1>1, <2>1
  <2>. QED  BY <1>1, <2>2 DEF OInv, TypeOK
<1>3. OpeningInv'
  BY <1>1, OpeningKept DEF OInv
<1>4. VectorsInv'
  BY <1>1 DEF OInv, VectorsInv, Places
<1>. QED  BY <1>2, <1>3, <1>4 DEF OInv

LEMMA Bounds ==
  ASSUME NEW t \in Threads
  PROVE  Bound(t) \in 0 .. Nbf /\ Nbf \div 2 \in 0 .. Nbf
  BY SizesAssumption DEF Bound

(* A cell that is arranged is a cell of the filter.                        *)
LEMMA NextCell ==
  ASSUME OInv, NEW t \in Threads, at[t] < Bound(t)
  PROVE  at[t] \in Cells /\ at[t] \in Nat /\ BF[at[t]] \in Bit
<1>1. at[t] \in 0 .. Nbf /\ BF \in [Cells -> Bit]
  BY DEF OInv, TypeOK
<1>2. at[t] \in Cells /\ at[t] \in Nat
  BY <1>1, Bounds, SizesAssumption DEF Cells
<1>. QED  BY <1>1, <1>2

LEMMA FillTypes ==
  ASSUME OInv, NEW t \in Threads, at[t] < Bound(t),
         NEW entry \in Indexes \cup {Garbage}, Fill(t, entry)
  PROVE  /\ new_indexes' \in [Cells -> Indexes \cup {Garbage}]
         /\ place' \in [Threads -> [Bit -> Int]]
         /\ at' \in [Threads -> 0 .. Nbf]
<1>1. /\ new_indexes \in [Cells -> Indexes \cup {Garbage}]
      /\ place \in [Threads -> [Bit -> Int]] /\ at \in [Threads -> 0 .. Nbf]
  BY DEF OInv, TypeOK
<1>2. at[t] \in Cells /\ BF[at[t]] \in Bit
  BY NextCell
<1>3. new_indexes' \in [Cells -> Indexes \cup {Garbage}]
  BY <1>1, <1>2 DEF Fill
<1>4. place' \in [Threads -> [Bit -> Int]]
  BY <1>1, <1>2 DEF Fill
<1>5. at[t] + 1 \in 0 .. Nbf
  BY <1>1, Bounds, SizesAssumption
<1>6. at' \in [Threads -> 0 .. Nbf]
  BY <1>1, <1>5 DEF Fill
<1>. QED  BY <1>3, <1>4, <1>6

(* What a thread finds within a vector is an index.                        *)
LEMMA EntryIsIndex ==
  ASSUME OInv, NEW t \in Threads, at[t] < Bound(t), InVector(t)
  PROVE  LET d == BF[at[t]] IN
         /\ place[t][d] + 1 \in 1 .. Len(arr_indexes[d])
         /\ arr_indexes[d][place[t][d] + 1] \in Indexes
         /\ indexes[arr_indexes[d][place[t][d] + 1]] \in Indexes
<1>. DEFINE d == BF[at[t]]
<1>1. /\ arr_indexes \in [Bit -> Seq(Indexes)] /\ indexes \in [Indexes -> Indexes]
      /\ d \in Bit
  BY NextCell DEF OInv, TypeOK
<1>2. place[t][d] + 1 \in 1 .. Len(arr_indexes[d])
  BY <1>1 DEF InVector
<1>3. arr_indexes[d][place[t][d] + 1] \in Indexes
  BY <1>1, <1>2
<1>. QED  BY <1>1, <1>2, <1>3

LEMMA ArrangeKeeps ==
  ASSUME OInv, NEW t \in Threads, Arrange(t)
  PROVE  OInv'
<1>1. /\ pc = "arrange" /\ at[t] < Bound(t) /\ Ncc' = Ncc
      /\ UNCHANGED <<choices, C, BF, sub_group, step, ind, indexes, b, R, r, verdict,
                     arr_indexes, todo, shuf>>
  BY DEF Arrange, inputs, opening, vectors, Ncc
<1>2. /\ pc' \in {"arrange", "crashed"} /\ overrun' \in BOOLEAN
      /\ new_indexes' \in [Cells -> Indexes \cup {Garbage}]
      /\ place' \in [Threads -> [Bit -> Int]]
      /\ at' \in [Threads -> 0 .. Nbf]
  <2>0. overrun \in BOOLEAN
    BY DEF OInv, TypeOK
  <2>1. CASE /\ InVector(t)
             /\ Fill(t, indexes[arr_indexes[BF[at[t]]][place[t][BF[at[t]]] + 1]])
             /\ UNCHANGED <<pc, overrun>>
    BY <2>0, <2>1, <1>1, EntryIsIndex, FillTypes
  <2>2. CASE overrun' = TRUE /\ Fill(t, Garbage) /\ UNCHANGED pc
    BY <2>2, <1>1, FillTypes
  <2>3. CASE overrun' = TRUE /\ pc' = "crashed" /\ UNCHANGED <<new_indexes, place, at>>
    BY <2>3 DEF OInv, TypeOK
  <2>. QED  BY <2>1, <2>2, <2>3 DEF Arrange
<1>3. TypeOK'
  BY <1>1, <1>2 DEF OInv, TypeOK, Ended
<1>4. OpeningInv'
  BY <1>1, <1>2, OpeningKept DEF OInv
<1>5. VectorsInv'
  BY <1>1, <1>2 DEF OInv, VectorsInv, Places
<1>. QED  BY <1>3, <1>4, <1>5 DEF OInv

LEMMA CheckAndSendKeeps ==
  ASSUME OInv, CheckAndSend
  PROVE  OInv'
<1>1. /\ pc = "arrange" /\ pc' \in {"exit", "sent"} /\ Ncc' = Ncc
      /\ UNCHANGED <<choices, C, BF, sub_group, step, ind, indexes, b, R, r, verdict,
                     arr_indexes, todo, shuf, at, place, new_indexes, overrun>>
  BY DEF CheckAndSend, inputs, opening, vectors, arranging, Ncc
<1>2. TypeOK'
  BY <1>1 DEF OInv, TypeOK, Ended
<1>3. OpeningInv'
  BY <1>1, OpeningKept DEF OInv
<1>4. VectorsInv'
  BY <1>1 DEF OInv, VectorsInv, Places
<1>. QED  BY <1>2, <1>3, <1>4 DEF OInv

LEMMA NextOInv == OInv /\ [Next]_vars => OInv'
<1>. SUFFICES ASSUME OInv, [Next]_vars PROVE OInv'
  OBVIOUS
<1>1. CASE RefuseC \/ AcceptC \/ Move \/ SendR \/ SenderCheck
  BY <1>1, RefuseCKeeps, AcceptCKeeps, MoveKeeps, SendRKeeps, SenderCheckKeeps
<1>2. CASE Collect \/ StartShuffling \/ \E d \in Bit : ShuffleStep(d)
  BY <1>2, CollectKeeps, StartShufflingKeeps, ShuffleKeeps
<1>3. CASE StartArranging \/ (\E t \in Threads : Arrange(t)) \/ CheckAndSend
  BY <1>3, StartArrangingKeeps, ArrangeKeeps, CheckAndSendKeeps
<1>4. CASE UNCHANGED vars
  <2>1. UNCHANGED <<choices, C, BF, pc, sub_group, step, ind, indexes, b, R, r, verdict,
                    arr_indexes, todo, shuf, at, place, new_indexes, overrun>>
    BY <1>4 DEF vars, inputs, opening, vectors, arranging
  <2>2. Ncc' = Ncc
    BY <2>1 DEF Ncc
  <2>3. TypeOK'
    BY <2>1, <2>2 DEF OInv, TypeOK
  <2>4. OpeningInv'
    BY <2>1, <2>2 DEF OInv, OpeningInv, MovesInOrder, IndexesDistinct, BitsFollowIndexes,
                      TargetInPlace, Accepted, Sorted
  <2>5. VectorsInv'
    BY <2>1 DEF OInv, VectorsInv, Places
  <2>. QED  BY <2>3, <2>4, <2>5 DEF OInv
<1>. QED  BY <1>1, <1>2, <1>3, <1>4 DEF Next, Done

LEMMA OpeningInvariance == Spec => []OInv
  BY InitOInv, NextOInv, PTL DEF Spec

(* The variables keep their types: ind and every place of a vector stay    *)
(* within the array of the indexes (Functions.cpp:397-435, 55-62).         *)
THEOREM ApportTypes == Spec => []TypeOK
<1>1. OInv => TypeOK
  BY DEF OInv
<1>. QED  BY <1>1, OpeningInvariance, PTL

(* "Every change in indexes array will cause to the same change in the     *)
(* bits array" (Functions.cpp:385).                                        *)
THEOREM BitsFollow == Spec => []BitsFollowIndexes
<1>1. OInv => BitsFollowIndexes
  BY DEF OInv, OpeningInv
<1>. QED  BY <1>1, OpeningInvariance, PTL

(* "we will move the biggest index first and so on- to ensure that the     *)
(* index and its place are the same" (Functions.cpp:406-407).              *)
THEOREM BiggestFirstSuffices == Spec => []TargetInPlace
<1>1. OInv => TargetInPlace
  BY DEF OInv, OpeningInv
<1>. QED  BY <1>1, OpeningInvariance, PTL

-----------------------------------------------------------------------------
(* What the arranging threads may rely on.                                 *)
LEMMA ArrangeFacts ==
  ASSUME OInv
  PROVE  /\ arr_indexes \in [Bit -> Seq(Indexes)] /\ indexes \in [Indexes -> Indexes]
         /\ BF \in [Cells -> Bit] /\ choices \in [Indexes -> Bit]
         /\ new_indexes \in [Cells -> Indexes \cup {Garbage}]
         /\ place \in [Threads -> [Bit -> Int]] /\ at \in [Threads -> 0 .. Nbf]
         /\ \A d \in Bit : Len(arr_indexes[d]) \in Nat
         /\ \A t \in Threads, d \in Bit : place[t][d] \in Int
         /\ Nbf \in Nat /\ Nbf \div 2 \in 0 .. Nbf
         /\ \A t \in Threads : at[t] \in Nat /\ Start(t) \in 0 .. Nbf /\ Bound(t) \in 0 .. Nbf
<1>1. arr_indexes \in [Bit -> Seq(Indexes)] /\ place \in [Threads -> [Bit -> Int]]
  BY DEF OInv, TypeOK
<1>2. Nbf \in Nat /\ Nbf \div 2 \in 0 .. Nbf
  BY SizesAssumption
<1>3. at \in [Threads -> 0 .. Nbf]
  BY DEF OInv, TypeOK
<1>. QED  BY <1>1, <1>2, <1>3 DEF OInv, TypeOK, Start, Bound

(* The vectors hold no index twice, within a vector or across them.        *)
LEMMA VectorsDisjoint ==
  ASSUME OInv, NEW d \in Bit, NEW e \in Bit,
         NEW k \in 1 .. Len(arr_indexes[d]), NEW l \in 1 .. Len(arr_indexes[e]),
         indexes[arr_indexes[d][k]] = indexes[arr_indexes[e][l]]
  PROVE  d = e /\ k = l
<1>1. arr_indexes[d][k] \in Indexes /\ arr_indexes[e][l] \in Indexes
  BY ArrangeFacts
<1>2. arr_indexes[d][k] = arr_indexes[e][l]
  BY <1>1 DEF OInv, OpeningInv, IndexesDistinct
<1>3. Places(arr_indexes[d], d) /\ Places(arr_indexes[e], e)
  BY DEF OInv, VectorsInv
<1>4. d = e
  BY <1>2, <1>3 DEF Places
<1>. QED  BY <1>2, <1>3, <1>4 DEF Places

(* What is left for the vectors after the moves was not opened, and has    *)
(* the choice bit of its vector.                                           *)
LEMMA VectorsUnopened ==
  ASSUME OInv, Accepted, pc # "move", NEW d \in Bit, NEW k \in 1 .. Len(arr_indexes[d])
  PROVE  LET j == indexes[arr_indexes[d][k]] IN j \in Indexes \ C /\ choices[j] = d
<1>. DEFINE p == arr_indexes[d][k]
<1>1. p \in Indexes /\ indexes[p] \in Indexes
  BY ArrangeFacts
<1>2. C \in SUBSET Indexes /\ todo \in 0 .. Not - Ncc
  BY DEF OInv, TypeOK
<1>3. /\ IsFiniteSet(C) /\ Ncc \in Nat /\ Ncc <= Not /\ Not \in Nat
  BY <1>2, Sizes
<1>4. p < todo /\ b[p] = d
  BY DEF OInv, VectorsInv, Places
<1>5. choices[indexes[p]] = d
  BY <1>1, <1>4 DEF OInv, OpeningInv, BitsFollowIndexes
<1>6. /\ sub_group \in [1 .. Ncc -> C] /\ Sorted(sub_group) /\ step = Ncc + 1
      /\ \A m \in 1 .. step - 1 : indexes[Not - m] = sub_group[m]
  BY DEF OInv, OpeningInv, MovesInOrder
<1>7. indexes[p] \notin C
  <2>1. SUFFICES ASSUME indexes[p] \in C PROVE FALSE
    OBVIOUS
  <2>2. sub_group \in Injection(1 .. Ncc, C)
    <3>1. ASSUME NEW m \in 1 .. Ncc, NEW n \in 1 .. Ncc, sub_group[m] = sub_group[n]
          PROVE  m = n
      <4>0. sub_group[m] \in Indexes /\ sub_group[n] \in Indexes
        BY <1>2, <1>6
      <4>1. sub_group[m] \in Int /\ sub_group[n] \in Int
        BY <4>0 DEF Indexes
      <4>2. ~ (m < n) /\ ~ (n < m)
        BY <1>6, <3>1, <4>1 DEF Sorted
      <4>. QED  BY <1>3, <4>2
    <3>. QED  BY <1>6, <3>1 DEF Injection, IsInjective
  <2>3. Cardinality(1 .. Ncc) = Cardinality(C)
    <3>1. Cardinality(1 .. Ncc) = IF 1 > Ncc THEN 0 ELSE Ncc - 1 + 1
      BY <1>3, FS_Interval
    <3>. QED  BY <1>3, <3>1 DEF Ncc
  <2>4. sub_group \in Surjection(1 .. Ncc, C)
    BY <1>3, <2>2, <2>3, FS_Injection
  <2>5. PICK m \in 1 .. Ncc : sub_group[m] = indexes[p]
    BY <2>1, <2>4 DEF Surjection
  <2>6. Not - m \in Indexes /\ indexes[Not - m] = indexes[p]
    BY <1>3, <1>6, <2>5 DEF Indexes
  <2>7. Not - m = p
    BY <1>1, <2>6 DEF OInv, OpeningInv, IndexesDistinct
  <2>. QED  BY <1>1, <1>2, <1>3, <1>4, <2>7 DEF Indexes
<1>. QED  BY <1>1, <1>5, <1>7

-----------------------------------------------------------------------------
LEMMA InitAInv == Init => AInv
<1>. SUFFICES ASSUME Init PROVE AInv
  OBVIOUS
<1>1. OInv
  BY InitOInv
<1>2. \A t \in Threads : at[t] = Start(t) /\ Start(t) \in Start(t) .. Bound(t)
  BY SizesAssumption DEF Init, Start, Bound, Threads
<1>3. ArrangeInv
  BY <1>2 DEF Init, ArrangeInv, NotStarted, Arranging
<1>. QED  BY <1>1, <1>3 DEF AInv

(* The steps before the threads start leave their variables alone.         *)
LEMMA BeforeArranging ==
  ASSUME ArrangeInv, UNCHANGED <<at, overrun>>,
         pc \notin {"arrange", "exit", "sent", "crashed"},
         pc' \notin {"arrange", "exit", "sent", "crashed"}
  PROVE  ArrangeInv'
<1>1. \A t \in Threads : Start(t)' = Start(t) /\ Bound(t)' = Bound(t)
  BY DEF Start, Bound
<1>. QED  BY <1>1 DEF ArrangeInv, NotStarted, Arranging

LEMMA ArrangeInvKept ==
  ASSUME ArrangeInv,
         UNCHANGED <<BF, pc, indexes, arr_indexes, at, place, new_indexes, overrun>>
  PROVE  ArrangeInv'
<1>1. \A t \in Threads : /\ Start(t)' = Start(t) /\ Bound(t)' = Bound(t)
                         /\ Arranged(t)' = Arranged(t)
  BY DEF Start, Bound, Arranged
<1>2. \A t \in Threads, d \in Bit : Taken(t, d)' = Taken(t, d) /\ Beyond(t, d)' = Beyond(t, d)
  BY DEF Taken, Beyond
<1>3. NotStarted' /\ PlacesInRange' = PlacesInRange /\ Crossed' = Crossed
  BY <1>1 DEF ArrangeInv, NotStarted, PlacesInRange, Crossed
<1>4. OverrunShows => OverrunShows'
  BY <1>2 DEF OverrunShows
<1>5. CellsTaken => CellsTaken'
  <2>1. \A t \in Threads : \A c : Taken(t, BF[c])' = Taken(t, BF[c])
    BY DEF Taken
  <2>. QED  BY <1>1, <2>1 DEF CellsTaken
<1>6. CellsDistinct => CellsDistinct'
  BY <1>1 DEF CellsDistinct
<1>. QED  BY <1>1, <1>3, <1>4, <1>5, <1>6 DEF ArrangeInv, Arranging

LEMMA StartArrangingStarts ==
  ASSUME AInv, StartArranging
  PROVE  ArrangeInv'
<1>1. /\ pc = "shuffle" /\ pc' = "arrange"
      /\ place' = [t \in Threads |-> [d \in Bit |->
                     IF t = "begin" THEN 0 ELSE Len(arr_indexes[d]) - 1]]
      /\ UNCHANGED <<BF, indexes, arr_indexes, at, new_indexes, overrun>>
  BY DEF StartArranging, inputs, opening, vectors
<1>2. overrun = FALSE /\ \A t \in Threads : at[t] = Start(t)
  BY <1>1 DEF AInv, ArrangeInv, NotStarted
<1>3. \A t \in Threads : at'[t] \in Start(t)' .. Bound(t)'
  BY <1>1 DEF AInv, ArrangeInv, Start, Bound
<1>4. \A t \in Threads : Arranged(t)' = {}
  <2>1. \A t \in Threads : Start(t) \in Int
    BY ArrangeFacts DEF AInv
  <2>. QED  BY <1>1, <1>2, <2>1 DEF Arranged, Start
<1>5. PlacesInRange'
  BY <1>1, ArrangeFacts DEF AInv, PlacesInRange, Threads
<1>6. OverrunShows' /\ CellsTaken' /\ CellsDistinct'
  BY <1>1, <1>2, <1>4 DEF OverrunShows, CellsTaken, CellsDistinct
<1>. QED  BY <1>1, <1>3, <1>5, <1>6 DEF ArrangeInv, NotStarted

(* What Fill does to the state of the threads.                             *)
LEMMA FillFacts ==
  ASSUME AInv, Arranging, NEW t \in Threads, at[t] < Bound(t), NEW entry, Fill(t, entry),
         UNCHANGED <<BF, arr_indexes>>
  PROVE  /\ at[t] \in Arranged(t)' /\ BF[at[t]] \in Bit
         /\ \A u \in Threads : /\ at'[u] \in Start(u) .. Bound(u)
                               /\ Arranged(u) \subseteq Cells
                               /\ \A c \in Arranged(u)' :
                                    c \in Arranged(u) \/ (u = t /\ c = at[t])
                               /\ \A c \in Arranged(u) : c # at[t]
         /\ new_indexes'[at[t]] = entry
         /\ \A c \in Cells \ {at[t]} : new_indexes'[c] = new_indexes[c]
         /\ place'[t][BF[at[t]]] = place[t][BF[at[t]]] + (IF t = "begin" THEN 1 ELSE -1)
         /\ \A u \in Threads, d \in Bit :
              (u # t \/ d # BF[at[t]]) => place'[u][d] = place[u][d]
<1>1. /\ at[t] \in Cells /\ BF[at[t]] \in Bit
  BY NextCell DEF AInv
<1>2. /\ at' = [at EXCEPT ![t] = @ + 1]
      /\ new_indexes' = [new_indexes EXCEPT ![at[t]] = entry]
      /\ place' = [place EXCEPT ![t][BF[at[t]]] = IF t = "begin" THEN @ + 1 ELSE @ - 1]
  BY DEF Fill
<1>3. /\ at \in [Threads -> 0 .. Nbf] /\ Nbf \in Nat /\ Nbf \div 2 \in 0 .. Nbf
      /\ place \in [Threads -> [Bit -> Int]]
      /\ new_indexes \in [Cells -> Indexes \cup {Garbage}]
      /\ \A u \in Threads : at[u] \in Nat /\ at[u] \in Start(u) .. Bound(u)
  BY ArrangeFacts DEF AInv, ArrangeInv
<1>4. \A u \in Threads : at'[u] = IF u = t THEN at[u] + 1 ELSE at[u]
  BY <1>2, <1>3
<1>5. at[t] \in Arranged(t)'
  BY <1>3, <1>4 DEF Arranged, Start, Threads
<1>6. ASSUME NEW u \in Threads
      PROVE  /\ at'[u] \in Start(u) .. Bound(u)
             /\ Arranged(u) \subseteq Cells
             /\ \A c \in Arranged(u)' : c \in Arranged(u) \/ (u = t /\ c = at[t])
             /\ \A c \in Arranged(u) : c # at[t]
  <2>1. /\ at'[u] = IF u = t THEN at[u] + 1 ELSE at[u]
        /\ at[u] \in Nat /\ at[u] \in Start(u) .. Bound(u)
        /\ at[t] \in Nat /\ at[t] \in Start(t) .. Bound(t)
    BY <1>3, <1>4
  <2>2. at'[u] \in Start(u) .. Bound(u)
    BY <1>3, <2>1 DEF Start, Bound, Threads
  <2>3. Arranged(u) \subseteq Cells
    BY <1>3, <2>1 DEF Arranged, Start, Bound, Threads, Cells
  <2>4. \A c \in Arranged(u)' : c \in Arranged(u) \/ (u = t /\ c = at[t])
    BY <1>3, <2>1 DEF Arranged, Start, Threads
  <2>5. \A c \in Arranged(u) : c # at[t]
    BY <1>3, <2>1 DEF Arranged, Start, Bound, Threads
  <2>. QED  BY <2>2, <2>3, <2>4, <2>5
<1>7. /\ new_indexes'[at[t]] = entry
      /\ \A c \in Cells \ {at[t]} : new_indexes'[c] = new_indexes[c]
  BY <1>1, <1>2, <1>3
<1>8. place[t] \in [Bit -> Int] /\ place[t][BF[at[t]]] \in Int
  BY <1>1, <1>3
<1>9. /\ place'[t][BF[at[t]]] = place[t][BF[at[t]]] + (IF t = "begin" THEN 1 ELSE -1)
      /\ \A u \in Threads, d \in Bit :
           (u # t \/ d # BF[at[t]]) => place'[u][d] = place[u][d]
  BY <1>1, <1>2, <1>3, <1>8
<1>. QED  BY <1>1, <1>5, <1>6, <1>7, <1>9

(* Taken and Beyond only grow.                                             *)
LEMMA FillGrows ==
  ASSUME AInv, Arranging, NEW t \in Threads, at[t] < Bound(t), NEW entry, Fill(t, entry),
         UNCHANGED <<BF, arr_indexes>>
  PROVE  /\ PlacesInRange'
         /\ \A u \in Threads, d \in Bit : Taken(u, d) \subseteq Taken(u, d)'
         /\ \A u \in Threads, d \in Bit : Beyond(u, d) => Beyond(u, d)'
<1>1. /\ \A d \in Bit : Len(arr_indexes[d]) \in Nat
      /\ \A u \in Threads, d \in Bit : place[u][d] \in Int
      /\ PlacesInRange
  BY ArrangeFacts DEF AInv, ArrangeInv
<1>2. ASSUME NEW d \in Bit
      PROVE  /\ place'["begin"][d] \in {place["begin"][d], place["begin"][d] + 1}
             /\ place'["end"][d] \in {place["end"][d], place["end"][d] - 1}
  <2>1. BF[at[t]] \in Bit
    BY FillFacts
  <2>2. CASE t = "begin"
    BY <1>1, <2>1, <2>2, FillFacts DEF Threads
  <2>3. CASE t = "end"
    BY <1>1, <2>1, <2>3, FillFacts DEF Threads
  <2>. QED  BY <2>2, <2>3 DEF Threads
<1>3. PlacesInRange'
  BY <1>1, <1>2 DEF PlacesInRange, Threads
<1>4. ASSUME NEW u \in Threads, NEW d \in Bit
      PROVE  Taken(u, d) \subseteq Taken(u, d)' /\ (Beyond(u, d) => Beyond(u, d)')
  <2>1. /\ Len(arr_indexes[d]) \in Nat
        /\ place["begin"][d] \in Int /\ place["end"][d] \in Int
    BY <1>1 DEF Threads
  <2>2. Beyond(u, d) => Beyond(u, d)'
    BY <1>2, <2>1 DEF Beyond, Threads
  <2>3. Taken(u, d) \subseteq Taken(u, d)'
    BY <1>2, <2>1 DEF Taken, Threads
  <2>. QED  BY <2>2, <2>3
<1>. QED  BY <1>3, <1>4

(* A turn within the vector: the new cell gets an entry of its vector  *)
(* that the thread had not taken yet.                                      *)
LEMMA FillWithin ==
  ASSUME AInv, Arranging, NEW t \in Threads, at[t] < Bound(t),
         NEW d \in Bit, d = BF[at[t]],
         NEW n \in 1 .. Len(arr_indexes[d]), n \notin Taken(t, d), n \in Taken(t, d)',
         NEW entry \in Indexes, entry = indexes[arr_indexes[d][n]],
         Fill(t, entry),
         UNCHANGED <<BF, indexes, arr_indexes, overrun>>
  PROVE  OverrunShows' /\ CellsTaken' /\ CellsDistinct'
<1>1. /\ OInv /\ OverrunShows /\ CellsTaken /\ CellsDistinct
  BY DEF AInv, ArrangeInv
<1>2. OverrunShows'
  BY <1>1, FillGrows DEF OverrunShows
<1>3. \A u \in Threads : \A c \in Arranged(u) :
        c \in Cells /\ BF[c] \in Bit /\ new_indexes'[c] = new_indexes[c]
  <2>1. BF \in [Cells -> Bit]
    BY <1>1, ArrangeFacts
  <2>2. \A u \in Threads : \A c \in Arranged(u) : c \in Cells \ {at[t]}
    BY FillFacts
  <2>3. \A c \in Cells \ {at[t]} : new_indexes'[c] = new_indexes[c]
    BY FillFacts
  <2>. QED  BY <2>1, <2>2, <2>3
<1>4. new_indexes'[at[t]] = entry
  BY FillFacts
<1>5. ASSUME ~overrun', NEW u \in Threads, NEW c \in Arranged(u)'
      PROVE  \E k \in Taken(u, BF[c])' : new_indexes'[c] = indexes[arr_indexes[BF[c]][k]]
  <2>1. CASE c \in Arranged(u)
    <3>1. PICK k \in Taken(u, BF[c]) : new_indexes[c] = indexes[arr_indexes[BF[c]][k]]
      BY <1>1, <1>5, <2>1 DEF CellsTaken
    <3>2. k \in Taken(u, BF[c])'
      BY <1>3, <2>1, <3>1, FillGrows
    <3>. QED  BY <1>3, <2>1, <3>1, <3>2
  <2>2. CASE u = t /\ c = at[t]
    BY <1>4, <2>2
  <2>. QED  BY <1>5, <2>1, <2>2, FillFacts
<1>6. CellsTaken'
  BY <1>5 DEF CellsTaken
<1>7. ASSUME ~overrun, NEW c \in Arranged(t) PROVE new_indexes[c] # entry
  <2>1. PICK k \in Taken(t, BF[c]) : new_indexes[c] = indexes[arr_indexes[BF[c]][k]]
    BY <1>1, <1>7 DEF CellsTaken
  <2>2. k \in 1 .. Len(arr_indexes[BF[c]]) /\ BF[c] \in Bit
    BY <1>3, <1>7, <2>1 DEF Taken
  <2>3. new_indexes[c] = entry => BF[c] = d /\ k = n
    <3>1. SUFFICES ASSUME indexes[arr_indexes[BF[c]][k]] = indexes[arr_indexes[d][n]]
                   PROVE  BF[c] = d /\ k = n
      BY <2>1
    <3>. QED  BY <1>1, <2>2, <3>1, VectorsDisjoint
  <2>. QED  BY <2>1, <2>3
<1>8. CellsDistinct'
  <2>1. SUFFICES ASSUME ~overrun, NEW u \in Threads,
                        NEW c \in Arranged(u)', NEW e \in Arranged(u)',
                        new_indexes'[c] = new_indexes'[e]
                 PROVE  c = e
    BY DEF CellsDistinct
  <2>2. CASE c \in Arranged(u) /\ e \in Arranged(u)
    BY <1>1, <1>3, <2>1, <2>2 DEF CellsDistinct
  <2>3. CASE u = t /\ c = at[t] /\ e \in Arranged(t)
    BY <1>3, <1>4, <1>7, <2>1, <2>3
  <2>4. CASE u = t /\ e = at[t] /\ c \in Arranged(t)
    BY <1>3, <1>4, <1>7, <2>1, <2>4
  <2>5. /\ c \in Arranged(u) \/ (u = t /\ c = at[t])
        /\ e \in Arranged(u) \/ (u = t /\ e = at[t])
    BY FillFacts
  <2>. QED  BY <2>2, <2>3, <2>4, <2>5
<1>. QED  BY <1>2, <1>6, <1>8

LEMMA ArrangeArranges ==
  ASSUME AInv, NEW t \in Threads, Arrange(t)
  PROVE  ArrangeInv'
<1>1. /\ pc = "arrange" /\ at[t] < Bound(t)
      /\ UNCHANGED <<BF, indexes, arr_indexes>>
  BY DEF Arrange, inputs, opening, vectors
<1>2. \A u \in Threads : Start(u)' = Start(u) /\ Bound(u)' = Bound(u)
  BY DEF Start, Bound
<1>3. Arranging
  BY <1>1 DEF Arranging
<1>4. ASSUME NEW entry, Fill(t, entry), UNCHANGED pc,
             OverrunShows' /\ CellsTaken' /\ CellsDistinct'
      PROVE  ArrangeInv'
  <2>1. PlacesInRange' /\ \A u \in Threads : at'[u] \in Start(u)' .. Bound(u)'
    BY <1>1, <1>2, <1>3, <1>4, FillFacts, FillGrows
  <2>. QED  BY <1>1, <1>4, <2>1 DEF ArrangeInv, NotStarted
<1>5. CASE /\ InVector(t)
           /\ Fill(t, indexes[arr_indexes[BF[at[t]]][place[t][BF[at[t]]] + 1]])
           /\ UNCHANGED <<pc, overrun>>
  <2>1. OverrunShows' /\ CellsTaken' /\ CellsDistinct'
    <3>1. PICK d : d = BF[at[t]]
      OBVIOUS
    <3>2. /\ d \in Bit /\ place[t][d] + 1 \in 1 .. Len(arr_indexes[d])
          /\ indexes[arr_indexes[d][place[t][d] + 1]] \in Indexes
      BY <1>1, <1>5, <3>1, NextCell, EntryIsIndex DEF AInv
    <3>3. place'[t][d] = place[t][d] + (IF t = "begin" THEN 1 ELSE -1)
      BY <1>1, <1>3, <1>5, <3>1, FillFacts
    <3>4. Len(arr_indexes[d]) \in Nat /\ place[t][d] \in Int
      BY <3>2, ArrangeFacts DEF AInv
    <3>5. place[t][d] + 1 \in Taken(t, d)'
      BY <1>1, <3>2, <3>3, <3>4 DEF Taken, Threads
    <3>6. place[t][d] + 1 \notin Taken(t, d)
      BY <3>4 DEF Taken, Threads
    <3>. QED  BY <1>1, <1>3, <1>5, <3>1, <3>2, <3>5, <3>6, FillWithin
  <2>. QED  BY <1>4, <1>5, <2>1
<1>6. CASE ~InVector(t) /\ overrun' = TRUE /\ Fill(t, Garbage) /\ UNCHANGED pc
  <2>0. PICK d : d = BF[at[t]]
    OBVIOUS
  <2>1. /\ d \in Bit /\ Len(arr_indexes[d]) \in Nat /\ place[t][d] \in Int
        /\ place[t][d] \notin 0 .. Len(arr_indexes[d]) - 1
        /\ place["begin"][d] >= 0 /\ place["end"][d] <= Len(arr_indexes[d]) - 1
    BY <1>1, <1>3, <1>6, <2>0, NextCell, ArrangeFacts
       DEF InVector, AInv, ArrangeInv, PlacesInRange
  <2>2. place'[t][d] = place[t][d] + (IF t = "begin" THEN 1 ELSE -1)
    BY <1>1, <1>3, <1>6, <2>0, FillFacts
  <2>3. Beyond(t, d)'
    BY <1>1, <2>1, <2>2 DEF Beyond, Threads
  <2>4. OverrunShows' /\ CellsTaken' /\ CellsDistinct'
    BY <1>6, <2>1, <2>3 DEF OverrunShows, CellsTaken, CellsDistinct
  <2>. QED  BY <1>4, <1>6, <2>4
<1>7. CASE overrun' = TRUE /\ pc' = "crashed" /\ UNCHANGED <<new_indexes, place, at>>
  BY <1>2, <1>7 DEF AInv, ArrangeInv, NotStarted, Arranging
<1>. QED  BY <1>5, <1>6, <1>7 DEF Arrange

LEMMA CheckAndSendChecks ==
  ASSUME AInv, CheckAndSend
  PROVE  ArrangeInv'
<1>1. /\ pc = "arrange" /\ \A t \in Threads : at[t] = Bound(t)
      /\ pc' = IF Crossed THEN "exit" ELSE "sent"
      /\ UNCHANGED <<BF, indexes, arr_indexes, at, place, new_indexes, overrun>>
  BY DEF CheckAndSend, inputs, opening, vectors, arranging
<1>2. \A t \in Threads : /\ Start(t)' = Start(t) /\ Bound(t)' = Bound(t)
                         /\ Arranged(t)' = Arranged(t)
  BY <1>1 DEF Start, Bound, Arranged
<1>3. /\ PlacesInRange' = PlacesInRange /\ Crossed' = Crossed
  BY <1>1 DEF PlacesInRange, Crossed
<1>4. OverrunShows => OverrunShows'
  BY <1>1 DEF OverrunShows, Beyond
<1>5. CellsTaken => CellsTaken'
  <2>1. \A t \in Threads : \A c : Taken(t, BF[c])' = Taken(t, BF[c])
    BY <1>1 DEF Taken
  <2>. QED  BY <1>1, <1>2, <2>1 DEF CellsTaken
<1>6. CellsDistinct => CellsDistinct'
  BY <1>1, <1>2 DEF CellsDistinct
<1>7. Arranging
  BY <1>1 DEF Arranging
<1>8. \A t \in Threads : at'[t] = Bound(t)' /\ at'[t] \in Start(t)' .. Bound(t)'
  BY <1>1, <1>2 DEF AInv, ArrangeInv
<1>. QED  BY <1>1, <1>3, <1>4, <1>5, <1>6, <1>7, <1>8 DEF AInv, ArrangeInv, NotStarted

LEMMA NextAInv == AInv /\ [Next]_vars => AInv'
<1>. SUFFICES ASSUME AInv, [Next]_vars PROVE AInv'
  OBVIOUS
<1>1. OInv'
  BY NextOInv DEF AInv
<1>2. ArrangeInv
  BY DEF AInv
<1>3. ArrangeInv'
  <2>1. CASE RefuseC \/ AcceptC \/ Move \/ SendR
    <3>1. /\ UNCHANGED <<at, overrun>> /\ pc \in {"recv", "move"}
          /\ pc' \in {"refused", "move", "collect"}
      BY <2>1 DEF RefuseC, AcceptC, Move, SendR, Open, arranging
    <3>. QED  BY <1>2, <3>1, BeforeArranging
  <2>2. CASE Collect \/ StartShuffling \/ \E d \in Bit : ShuffleStep(d)
    <3>1. /\ UNCHANGED <<at, overrun>> /\ pc \in {"collect", "shuffle"}
          /\ pc' \in {"collect", "shuffle", "trapped"}
      BY <2>2 DEF Collect, StartShuffling, ShuffleStep, arranging
    <3>. QED  BY <1>2, <3>1, BeforeArranging
  <2>3. CASE StartArranging \/ (\E t \in Threads : Arrange(t)) \/ CheckAndSend
    BY <2>3, StartArrangingStarts, ArrangeArranges, CheckAndSendChecks
  <2>4. CASE SenderCheck \/ UNCHANGED vars
    <3>1. UNCHANGED <<BF, pc, indexes, arr_indexes, at, place, new_indexes, overrun>>
      BY <2>4 DEF SenderCheck, vars, inputs, opening, vectors, arranging
    <3>. QED  BY <1>2, <3>1, ArrangeInvKept
  <2>. QED  BY <2>1, <2>2, <2>3, <2>4 DEF Next, Done
<1>. QED  BY <1>1, <1>3 DEF AInv

LEMMA ArrangeInvariance == Spec => []AInv
  BY InitAInv, NextAInv, PTL DEF Spec

(* Threads that have not crossed in any vector have taken different        *)
(* elements and stayed inside.                                             *)
LEMMA SentIsSound == AInv => FuncSound
<1>. SUFFICES ASSUME AInv, pc = "sent", NEW c \in Cells
              PROVE  /\ new_indexes[c] \in Indexes \ C
                     /\ choices[new_indexes[c]] = BF[c]
                     /\ \A e \in Cells : new_indexes[e] = new_indexes[c] => e = c
  BY DEF FuncSound
<1>1. /\ OInv /\ Accepted /\ ~Crossed /\ \A t \in Threads : at[t] = Bound(t)
      /\ PlacesInRange /\ OverrunShows /\ CellsTaken /\ CellsDistinct
  BY DEF AInv, ArrangeInv, Arranging, Accepted
<1>2. /\ \A d \in Bit : Len(arr_indexes[d]) \in Nat
      /\ \A t \in Threads, d \in Bit : place[t][d] \in Int
      /\ BF \in [Cells -> Bit]
      /\ Nbf \in Nat /\ Nbf \div 2 \in 0 .. Nbf
  BY <1>1, ArrangeFacts
<1>3. \A d \in Bit : place["begin"][d] <= place["end"][d] + 1
  BY <1>1, <1>2 DEF Crossed, Threads
<1>4. ~overrun
  BY <1>1, <1>2, <1>3 DEF OverrunShows, PlacesInRange, Beyond, Threads
<1>5. \A e \in Cells : \E t \in Threads : e \in Arranged(t)
  <2>1. /\ Arranged("begin") = 0 .. Nbf \div 2 - 1
        /\ Arranged("end") = Nbf \div 2 .. Nbf - 1
    BY <1>1 DEF Arranged, Start, Bound, Threads
  <2>. QED  BY <1>2, <2>1 DEF Cells, Threads
<1>6. ASSUME NEW t \in Threads, NEW e \in Arranged(t), e \in Cells
      PROVE  \E k \in Taken(t, BF[e]) : /\ k \in 1 .. Len(arr_indexes[BF[e]])
                                        /\ new_indexes[e] = indexes[arr_indexes[BF[e]][k]]
  BY <1>1, <1>4 DEF CellsTaken, Taken
<1>7. PICK t \in Threads : c \in Arranged(t)
  BY <1>5
<1>8. PICK k \in Taken(t, BF[c]) : /\ k \in 1 .. Len(arr_indexes[BF[c]])
                                   /\ new_indexes[c] = indexes[arr_indexes[BF[c]][k]]
  BY <1>6, <1>7
<1>9. new_indexes[c] \in Indexes \ C /\ choices[new_indexes[c]] = BF[c]
  <2>1. BF[c] \in Bit /\ pc # "move"
    BY <1>2
  <2>. QED  BY <1>1, <1>8, <2>1, VectorsUnopened
<1>10. ASSUME NEW e \in Cells, new_indexes[e] = new_indexes[c] PROVE e = c
  <2>1. PICK u \in Threads : e \in Arranged(u)
    BY <1>5
  <2>2. CASE u = t
    BY <1>1, <1>4, <1>7, <1>10, <2>1, <2>2 DEF CellsDistinct
  <2>3. CASE u # t
    <3>1. PICK l \in Taken(u, BF[e]) : /\ l \in 1 .. Len(arr_indexes[BF[e]])
                                       /\ new_indexes[e] = indexes[arr_indexes[BF[e]][l]]
      BY <1>6, <2>1
    <3>2. BF[c] \in Bit /\ BF[e] \in Bit
      BY <1>2
    <3>3. BF[e] = BF[c] /\ l = k
      <4>1. indexes[arr_indexes[BF[e]][l]] = indexes[arr_indexes[BF[c]][k]]
        BY <1>8, <1>10, <3>1
      <4>. QED  BY <1>1, <1>8, <3>1, <3>2, <4>1, VectorsDisjoint
    <3>4. k \in Taken("begin", BF[c]) /\ k \in Taken("end", BF[c])
      BY <1>8, <2>3, <3>1, <3>3 DEF Threads
    <3>5. k <= place["begin"][BF[c]] /\ k >= place["end"][BF[c]] + 2 /\ k \in Int
      BY <3>4 DEF Taken
    <3>6. /\ place["begin"][BF[c]] \in Int /\ place["end"][BF[c]] \in Int
          /\ place["begin"][BF[c]] <= place["end"][BF[c]] + 1
      BY <1>2, <1>3, <3>2 DEF Threads
    <3>. QED  BY <3>5, <3>6
  <2>. QED  BY <2>2, <2>3
<1>. QED  BY <1>9, <1>10

(* A function that is sent maps the cells to different unopened indexes    *)
(* whose choice bits are the filter's, for every size, sub group, filter   *)
(* and shuffle, and although a thread may have read outside a vector: the  *)
(* test at Functions.cpp:169-175 catches every such run                    *)
(* (arrange_the_indexes, Functions.cpp:101-180).                           *)
THEOREM SentFunctionSound == Spec => []FuncSound
  BY ArrangeInvariance, SentIsSound, PTL

-----------------------------------------------------------------------------
(* The answer to the sender: the indexes of the sub group that were moved  *)
(* and have bit 0, each once, and the strings for bit 0 of these.          *)
Moved(j)    == \E m \in 1 .. step - 1 : sub_group[m] = j
Answered(j) == \E m \in 1 .. Len(R) : R[m] = j

AnswerInv ==
  /\ ~Accepted => R = <<>>
  /\ pc \in {"recv", "refused", "move"} => verdict = "none"
  /\ \A m, n \in 1 .. Len(R) : R[m] = R[n] => m = n
  /\ Accepted => \A j \in Indexes : Answered(j) <=> Moved(j) /\ choices[j] = 0
  /\ r = {<<j, 0>> : j \in {i \in Indexes : Answered(i)}}
  /\ VerdictIsTruth

VInv == OInv /\ AnswerInv

(* Every place below todo is in the vector of its bit.                     *)
AllCollected ==
  \A p \in Indexes : p < todo => \E k \in 1 .. Len(arr_indexes[b[p]]) : arr_indexes[b[p]][k] = p

(* The cells that thread t has arranged for bit d; the thread has taken a  *)
(* step in vector d for each, inside the vector or not.                    *)
ArrangedWith(t, d) == {c \in Arranged(t) : BF[c] = d}

PlacesCount ==
  \A d \in Bit :
    /\ place["begin"][d] = Cardinality(ArrangedWith("begin", d))
    /\ place["end"][d] = Len(arr_indexes[d]) - 1 - Cardinality(ArrangedWith("end", d))

ShortInv ==
  /\ AllCollected
  /\ Arranging \/ pc = "shuffle" => todo = Not - Ncc
  /\ Arranging => PlacesCount
  /\ StopsOnlyWhenShort

SInv == AInv /\ ShortInv

-----------------------------------------------------------------------------
(* The elements of a sorted sub group are all different, and all of C.     *)
LEMMA SubGroupIsC ==
  ASSUME OInv, Accepted
  PROVE  /\ sub_group \in Injection(1 .. Ncc, C)
         /\ sub_group \in Surjection(1 .. Ncc, C)
<1>1. C \in SUBSET Indexes
  BY DEF OInv, TypeOK
<1>2. IsFiniteSet(C) /\ Ncc \in Nat
  BY <1>1, Sizes
<1>3. sub_group \in [1 .. Ncc -> C] /\ Sorted(sub_group)
  BY DEF OInv, OpeningInv, MovesInOrder
<1>4. ASSUME NEW m \in 1 .. Ncc, NEW n \in 1 .. Ncc, sub_group[m] = sub_group[n]
      PROVE  m = n
  <2>1. sub_group[m] \in Indexes /\ sub_group[n] \in Indexes
    BY <1>1, <1>3
  <2>2. sub_group[m] \in Int /\ sub_group[n] \in Int
    BY <2>1 DEF Indexes
  <2>3. ~ (m < n) /\ ~ (n < m)
    BY <1>3, <1>4, <2>2 DEF Sorted
  <2>. QED  BY <1>2, <2>3
<1>5. sub_group \in Injection(1 .. Ncc, C)
  BY <1>3, <1>4 DEF Injection, IsInjective
<1>6. Cardinality(1 .. Ncc) = Cardinality(C)
  <2>1. Cardinality(1 .. Ncc) = IF 1 > Ncc THEN 0 ELSE Ncc - 1 + 1
    BY <1>2, FS_Interval
  <2>. QED  BY <1>2, <2>1 DEF Ncc
<1>. QED  BY <1>2, <1>5, <1>6, FS_Injection

LEMMA InitVInv == Init => VInv
<1>. SUFFICES ASSUME Init PROVE AnswerInv
  BY InitOInv DEF VInv
<1>1. pc = "recv" /\ verdict = "none" /\ R = <<>> /\ r = {} /\ Len(R) = 0
  BY DEF Init
<1>. QED  BY <1>1 DEF AnswerInv, Accepted, Answered, VerdictIsTruth

(* The steps that touch neither the answer nor the verdict.                *)
LEMMA AnswerKept ==
  ASSUME AnswerInv, OInv, UNCHANGED <<choices, C, step, R, r, verdict>>,
         Accepted => Accepted' /\ UNCHANGED sub_group,
         Accepted' /\ ~Accepted => step = 1,
         ~Accepted' => ~Accepted,
         pc' \in {"recv", "refused", "move"} => pc \in {"recv", "refused", "move"}
  PROVE  AnswerInv'
<1>1. VerdictIsTruth'
  BY DEF AnswerInv, VerdictIsTruth
<1>2. \A j \in Indexes : Answered(j)' <=> Answered(j)
  BY DEF Answered
<1>3. ASSUME Accepted', NEW j \in Indexes PROVE Answered(j)' <=> Moved(j)' /\ choices[j] = 0
  <2>1. CASE Accepted
    BY <1>2, <1>3, <2>1 DEF AnswerInv, Moved
  <2>2. CASE ~Accepted
    <3>1. step' = 1 /\ Len(R) = 0
      BY <1>3, <2>2 DEF AnswerInv
    <3>. QED  BY <1>2, <3>1 DEF Answered, Moved
  <2>. QED  BY <2>1, <2>2
<1>4. r' = {<<j, 0>> : j \in {i \in Indexes : Answered(i)'}}
  BY <1>2 DEF AnswerInv
<1>. QED  BY <1>1, <1>3, <1>4 DEF AnswerInv

(* One element more: it was in its place, so the bit that compute_R_r sees *)
(* there is its choice bit.                                                *)
LEMMA MoveAnswers ==
  ASSUME VInv, Move
  PROVE  AnswerInv'
<1>. DEFINE target == sub_group[step]
<1>1. /\ pc = "move" /\ pc' = "move" /\ step <= Len(sub_group) /\ step' = step + 1
      /\ UNCHANGED <<choices, C, sub_group, verdict>>
      /\ R' = IF b[target] = 0 THEN Append(R, target) ELSE R
      /\ r' = IF b[target] = 0 THEN SymDiff(r, {<<target, choices[target]>>}) ELSE r
  BY DEF Move, Open, inputs
<1>2. OInv /\ AnswerInv /\ Accepted /\ Accepted'
  BY <1>1 DEF VInv, Accepted
<1>3. /\ C \in SUBSET Indexes /\ step \in 1 .. Ncc + 1 /\ R \in Seq(Indexes)
      /\ choices \in [Indexes -> Bit]
  BY <1>2 DEF OInv, TypeOK
<1>4. Ncc \in Nat
  BY <1>3, Sizes
<1>5. sub_group \in [1 .. Ncc -> C] /\ Len(sub_group) = Ncc
  BY <1>2, <1>3, Arrangement DEF OInv, OpeningInv, MovesInOrder
<1>6. step \in 1 .. Ncc /\ target \in C /\ target \in Indexes
  BY <1>1, <1>3, <1>4, <1>5
<1>7. b[target] = choices[target]
  <2>1. indexes[target] = target
    BY <1>1, <1>2, <1>4, <1>5, <1>6 DEF OInv, OpeningInv, TargetInPlace
  <2>. QED  BY <1>2, <1>6, <2>1 DEF OInv, OpeningInv, BitsFollowIndexes
<1>8. ~Moved(target)
  <2>1. \A m \in 1 .. step - 1 : m \in 1 .. Ncc /\ m # step
    BY <1>4, <1>6
  <2>2. \A m, n \in 1 .. Ncc : sub_group[m] = sub_group[n] => m = n
    BY <1>2, SubGroupIsC DEF Injection, IsInjective
  <2>. QED  BY <1>6, <2>1, <2>2 DEF Moved
<1>9. \A j \in Indexes : Moved(j)' <=> Moved(j) \/ j = target
  <2>1. \A m \in 1 .. step : m \in 1 .. step - 1 \/ m = step
    BY <1>6
  <2>2. step \in 1 .. step /\ \A m \in 1 .. step - 1 : m \in 1 .. step
    BY <1>6
  <2>3. (step + 1) - 1 = step
    BY <1>6
  <2>. QED  BY <1>1, <2>1, <2>2, <2>3 DEF Moved
<1>10. Len(R) \in Nat
  BY <1>3
<1>11. \A j \in Indexes : Answered(j) <=> Moved(j) /\ choices[j] = 0
  BY <1>2 DEF AnswerInv
<1>12. CASE choices[target] = 0
  <2>1. /\ Len(R') = Len(R) + 1 /\ R'[Len(R) + 1] = target
        /\ \A m \in 1 .. Len(R) : R'[m] = R[m]
    BY <1>1, <1>3, <1>6, <1>7, <1>12
  <2>2. \A m \in 1 .. Len(R) + 1 : m \in 1 .. Len(R) \/ m = Len(R) + 1
    BY <1>10
  <2>3. \A m \in 1 .. Len(R) : R[m] # target
    BY <1>6, <1>8, <1>11 DEF Answered
  <2>4. \A j \in Indexes : Answered(j)' <=> Answered(j) \/ j = target
    <3>1. Len(R) + 1 \in 1 .. Len(R) + 1 /\ \A m \in 1 .. Len(R) : m \in 1 .. Len(R) + 1
      BY <1>10
    <3>. QED  BY <2>1, <2>2, <3>1 DEF Answered
  <2>5. \A m, n \in 1 .. Len(R') : R'[m] = R'[n] => m = n
    BY <1>2, <2>1, <2>2, <2>3 DEF AnswerInv
  <2>6. r' = {<<j, 0>> : j \in {i \in Indexes : Answered(i)'}}
    <3>1. r = {<<j, 0>> : j \in {i \in Indexes : Answered(i)}}
      BY <1>2 DEF AnswerInv
    <3>2. <<target, 0>> \notin r
      <4>1. ~Answered(target)
        BY <2>3 DEF Answered
      <4>. QED  BY <3>1, <4>1
    <3>3. r' = r \cup {<<target, 0>>}
      BY <1>1, <1>7, <1>12, <3>2 DEF SymDiff
    <3>4. {i \in Indexes : Answered(i)'} = {i \in Indexes : Answered(i)} \cup {target}
      BY <1>6, <2>4
    <3>. QED  BY <3>1, <3>3, <3>4
  <2>7. \A j \in Indexes : Answered(j)' <=> Moved(j)' /\ choices'[j] = 0
    BY <1>1, <1>9, <1>11, <1>12, <2>4
  <2>. QED  BY <1>1, <1>2, <2>5, <2>6, <2>7 DEF AnswerInv, VerdictIsTruth
<1>13. CASE choices[target] # 0
  <2>1. R' = R /\ r' = r
    BY <1>1, <1>7, <1>13
  <2>2. \A j \in Indexes : Answered(j)' <=> Answered(j)
    BY <2>1 DEF Answered
  <2>3. \A j \in Indexes : Answered(j)' <=> Moved(j)' /\ choices'[j] = 0
    BY <1>1, <1>9, <1>11, <1>13, <2>2
  <2>4. r' = {<<j, 0>> : j \in {i \in Indexes : Answered(i)'}}
    BY <1>2, <2>1, <2>2 DEF AnswerInv
  <2>. QED  BY <1>1, <1>2, <2>1, <2>3, <2>4 DEF AnswerInv, VerdictIsTruth
<1>. QED  BY <1>12, <1>13

(* All of the sub group was moved: what is not in R are its ones, and the  *)
(* sender's own XOR is r.                                                  *)
LEMMA SenderCheckTrue ==
  ASSUME VInv, SenderCheck
  PROVE  AnswerInv'
<1>. DEFINE zeros == {j \in C : choices[j] = 0}
            ones  == {j \in C : choices[j] = 1}
<1>1. /\ pc \notin {"recv", "refused", "move"} /\ UNCHANGED <<choices, C, pc, sub_group, step, R, r>>
      /\ verdict' = IF Ncc - Len(R) > maxOnes \/ r # {<<R[m], 0>> : m \in DOMAIN R}
                    THEN "abort" ELSE "ok"
  BY DEF SenderCheck, inputs, opening
<1>2. OInv /\ AnswerInv /\ Accepted
  BY <1>1 DEF VInv, Accepted
<1>3. /\ C \in SUBSET Indexes /\ R \in Seq(Indexes) /\ choices \in [Indexes -> Bit]
      /\ IsFiniteSet(C) /\ Ncc \in Nat
  BY <1>2, Sizes DEF OInv, TypeOK
<1>4. step - 1 = Ncc
  <2>1. step = Ncc + 1
    BY <1>1, <1>2 DEF OInv, OpeningInv, MovesInOrder
  <2>. QED  BY <1>3, <2>1
<1>5. \A j \in Indexes : Answered(j) <=> j \in zeros
  <2>1. \A j \in Indexes : Moved(j) <=> j \in C
    <3>1. sub_group \in Surjection(1 .. Ncc, C)
      BY <1>2, SubGroupIsC
    <3>. QED  BY <1>4, <3>1 DEF Moved, Surjection
  <2>2. \A j \in Indexes : Answered(j) <=> Moved(j) /\ choices[j] = 0
    BY <1>2 DEF AnswerInv
  <2>. QED  BY <2>1, <2>2
<1>6. \A j : j \in zeros => j \in Indexes
  BY <1>3
<1>7. r = {<<R[m], 0>> : m \in DOMAIN R}
  <2>1. r = {<<j, 0>> : j \in zeros}
    <3>1. {i \in Indexes : Answered(i)} = zeros
      BY <1>5, <1>6
    <3>. QED  BY <1>2, <3>1 DEF AnswerInv
  <2>2. DOMAIN R = 1 .. Len(R) /\ \A m \in 1 .. Len(R) : R[m] \in Indexes
    BY <1>3
  <2>3. \A m \in 1 .. Len(R) : R[m] \in zeros
    BY <1>5, <2>2 DEF Answered
  <2>4. \A j \in zeros : \E m \in 1 .. Len(R) : R[m] = j
    BY <1>5, <1>6 DEF Answered
  <2>. HIDE DEF zeros
  <2>. QED  BY <2>1, <2>2, <2>3, <2>4
<1>8. Len(R) = Cardinality(zeros) /\ Len(R) \in Nat /\ IsFiniteSet(zeros)
  <2>1. Len(R) \in Nat /\ R \in [1 .. Len(R) -> Indexes]
    BY <1>3
  <2>2. R \in Bijection(1 .. Len(R), zeros)
    <3>1. \A m \in 1 .. Len(R) : R[m] \in zeros
      BY <1>5, <2>1 DEF Answered
    <3>2. \A j \in zeros : \E m \in 1 .. Len(R) : R[m] = j
      BY <1>5, <1>6 DEF Answered
    <3>3. \A m, n \in 1 .. Len(R) : R[m] = R[n] => m = n
      BY <1>2 DEF AnswerInv
    <3>. HIDE DEF zeros
    <3>4. R \in [1 .. Len(R) -> zeros]
      BY <2>1, <3>1
    <3>. QED  BY <3>2, <3>3, <3>4 DEF Bijection, Injection, Surjection, IsInjective
  <2>3. ExistsBijection(1 .. Len(R), zeros)
    BY <2>2 DEF ExistsBijection
  <2>. QED  BY <1>3, <2>1, <2>3, FS_CountingElements, FS_Subset
<1>9. Ncc = Cardinality(zeros) + Cardinality(ones) /\ Cardinality(ones) \in Nat
  <2>1. C = zeros \cup ones /\ zeros \cap ones = {}
    BY <1>3 DEF Bit
  <2>2. IsFiniteSet(ones) /\ IsFiniteSet(zeros)
    BY <1>3, FS_Subset
  <2>3. /\ Cardinality(zeros) \in Nat /\ Cardinality(ones) \in Nat
        /\ Cardinality(zeros \cup ones)
             = Cardinality(zeros) + Cardinality(ones) - Cardinality(zeros \cap ones)
        /\ Cardinality({}) = 0
    BY <2>2, FS_CardinalityType, FS_Union, FS_EmptySet
  <2>4. Ncc = Cardinality(zeros \cup ones)
    BY <2>1, Zenon DEF Ncc
  <2>5. Cardinality(zeros \cap ones) = 0
    BY <2>1, <2>3, Zenon
  <2>. HIDE DEF zeros, ones
  <2>. QED  BY <2>3, <2>4, <2>5
<1>10. (verdict' = "abort") = (Cardinality(ones) > maxOnes)
  <2>1. Ncc - Len(R) = Cardinality(ones)
    BY <1>8, <1>9
  <2>. QED  BY <1>1, <1>7, <2>1
<1>11. VerdictIsTruth'
  BY <1>1, <1>10 DEF VerdictIsTruth
<1>12. \A j \in Indexes : (Answered(j)' <=> Answered(j)) /\ (Moved(j)' <=> Moved(j))
  BY <1>1 DEF Answered, Moved
<1>. QED  BY <1>1, <1>2, <1>11, <1>12 DEF AnswerInv, Accepted

LEMMA NextVInv == VInv /\ [Next]_vars => VInv'
<1>. SUFFICES ASSUME VInv, [Next]_vars PROVE VInv'
  OBVIOUS
<1>1. OInv /\ AnswerInv /\ OInv'
  BY NextOInv DEF VInv
<1>2. AnswerInv'
  <2>1. CASE RefuseC \/ AcceptC
    <3>1. step = 1 \/ Accepted
      BY <1>1 DEF OInv, OpeningInv, MovesInOrder
    <3>2. /\ UNCHANGED <<choices, C, step, R, r, verdict>>
          /\ pc = "recv" /\ pc' \in {"refused", "move"}
      BY <2>1 DEF RefuseC, AcceptC, inputs, opening
    <3>3. CASE pc' = "refused"
      BY <1>1, <3>2, <3>3, AnswerKept DEF Accepted
    <3>. QED  BY <1>1, <3>1, <3>2, <3>3, AnswerKept DEF Accepted
  <2>2. CASE Move
    BY <2>2, MoveAnswers
  <2>3. CASE SenderCheck
    BY <2>3, SenderCheckTrue
  <2>4. CASE SendR \/ Collect \/ StartShuffling \/ (\E d \in Bit : ShuffleStep(d))
             \/ StartArranging \/ (\E t \in Threads : Arrange(t)) \/ CheckAndSend
    <3>1. /\ UNCHANGED <<choices, C, sub_group, step, R, r, verdict>>
          /\ pc \notin {"recv", "refused"} /\ pc' \notin {"recv", "refused", "move"}
      BY <2>4 DEF SendR, Collect, StartShuffling, ShuffleStep, StartArranging, Arrange,
                  CheckAndSend, inputs, opening
    <3>. QED  BY <1>1, <3>1, AnswerKept DEF Accepted
  <2>5. CASE UNCHANGED vars
    <3>1. UNCHANGED <<choices, C, pc, sub_group, step, R, r, verdict>>
      BY <2>5 DEF vars, inputs, opening
    <3>. QED  BY <1>1, <3>1, AnswerKept DEF Accepted
  <2>. QED  BY <2>1, <2>2, <2>3, <2>4, <2>5 DEF Next, Done
<1>. QED  BY <1>1, <1>2 DEF VInv

(* The sender aborts exactly when the sub group has more ones than it      *)
(* tolerates: compute_r over its own strings gives the receiver's r        *)
(* whatever was moved where (check_if_to_abort1).                          *)
THEOREM SenderJudgesOnes == Spec => []VerdictIsTruth
<1>1. VInv => VerdictIsTruth
  BY DEF VInv, AnswerInv
<1>. QED  BY <1>1, InitVInv, NextVInv, PTL DEF Spec

-----------------------------------------------------------------------------
(* An unopened index with bit d stands in vector d, after the collection.  *)
LEMMA UnopenedCollected ==
  ASSUME OInv, AllCollected, Accepted, pc # "move", todo = Not - Ncc,
         NEW j \in Indexes \ C
  PROVE  \E k \in 1 .. Len(arr_indexes[choices[j]]) :
           indexes[arr_indexes[choices[j]][k]] = j
<1>1. C \in SUBSET Indexes /\ indexes \in [Indexes -> Indexes]
  BY DEF OInv, TypeOK
<1>2. Ncc \in Nat /\ Ncc <= Not /\ Not \in Nat
  BY <1>1, Sizes
<1>3. IsFiniteSet(Indexes)
  BY <1>2, FS_Interval DEF Indexes
<1>4. indexes \in Injection(Indexes, Indexes)
  BY <1>1 DEF OInv, OpeningInv, IndexesDistinct, Injection, IsInjective
<1>5. indexes \in Surjection(Indexes, Indexes)
  BY <1>3, <1>4, FS_Injection
<1>6. PICK p \in Indexes : indexes[p] = j
  BY <1>5 DEF Surjection
<1>7. p < todo
  <2>. SUFFICES ASSUME ~ (p < todo) PROVE FALSE
    OBVIOUS
  <2>1. PICK m \in 1 .. Ncc : p = Not - m
    <3>1. p \in Int /\ p >= Not - Ncc /\ p <= Not - 1
      BY <1>2 DEF Indexes
    <3>2. Not - p \in 1 .. Ncc /\ p = Not - (Not - p)
      BY <1>2, <3>1
    <3>. QED  BY <3>2
  <2>2. /\ step = Ncc + 1 /\ sub_group \in [1 .. Ncc -> C]
        /\ \A i \in 1 .. step - 1 : indexes[Not - i] = sub_group[i]
    BY DEF OInv, OpeningInv, MovesInOrder
  <2>3. m \in 1 .. step - 1
    BY <1>2, <2>1, <2>2
  <2>. QED  BY <1>6, <2>1, <2>2, <2>3
<1>8. b[p] = choices[j]
  BY <1>6 DEF OInv, OpeningInv, BitsFollowIndexes
<1>. QED  BY <1>6, <1>7, <1>8 DEF AllCollected

(* More cells of a bit than the vector has places: the filter needs more   *)
(* than what is left.                                                      *)
LEMMA TooManyIsShort ==
  ASSUME OInv, AllCollected, Accepted, pc # "move", todo = Not - Ncc,
         NEW d \in Bit, NEW S \in SUBSET Cells, \A c \in S : BF[c] = d,
         Cardinality(S) > Len(arr_indexes[d])
  PROVE  Short
<1>. DEFINE need == {c \in Cells : BF[c] = d}
            left == {j \in Indexes \ C : choices[j] = d}
            n == Len(arr_indexes[d])
            f == [k \in 1 .. n |-> indexes[arr_indexes[d][k]]]
            T == {f[k] : k \in 1 .. n}
<1>1. n \in Nat
  BY ArrangeFacts
<1>2. IsFiniteSet(need) /\ Cardinality(S) <= Cardinality(need)
  <2>1. IsFiniteSet(Cells)
    BY SizesAssumption, FS_Interval DEF Cells
  <2>2. IsFiniteSet(need)
    BY <2>1, FS_Subset
  <2>3. S \in SUBSET need
    OBVIOUS
  <2>. QED  BY <2>2, <2>3, FS_Subset
<1>3. IsFiniteSet(T) /\ Cardinality(T) <= n
  <2>1. f \in Surjection(1 .. n, T)
    BY DEF Surjection
  <2>2. IsFiniteSet(1 .. n) /\ Cardinality(1 .. n) = n
    <3>1. IsFiniteSet(1 .. n) /\ Cardinality(1 .. n) = IF 1 > n THEN 0 ELSE n - 1 + 1
      BY <1>1, FS_Interval
    <3>. QED  BY <1>1, <3>1
  <2>. HIDE DEF f, T, n
  <2>. QED  BY <2>1, <2>2, FS_Surjection
<1>4. left \subseteq T
  <2>. SUFFICES ASSUME NEW j \in left PROVE j \in T
    OBVIOUS
  <2>1. PICK k \in 1 .. n : indexes[arr_indexes[d][k]] = j
    BY UnopenedCollected
  <2>. QED  BY <2>1
<1>5. Cardinality(left) <= n
  <2>1. IsFiniteSet(left) /\ Cardinality(left) <= Cardinality(T)
    BY <1>3, <1>4, FS_Subset
  <2>2. Cardinality(left) \in Nat /\ Cardinality(T) \in Nat
    BY <1>3, <2>1, FS_CardinalityType
  <2>. HIDE DEF left, T, n
  <2>. QED  BY <1>1, <1>3, <2>1, <2>2
<1>6. Cardinality(need) > Cardinality(left)
  <2>1. IsFiniteSet(left) /\ IsFiniteSet(S)
    BY <1>2, <1>3, <1>4, FS_Subset
  <2>2. Cardinality(need) \in Nat /\ Cardinality(left) \in Nat /\ Cardinality(S) \in Nat
    BY <1>2, <2>1, FS_CardinalityType
  <2>3. Cardinality(S) > n
    OBVIOUS
  <2>. HIDE DEF need, left, n
  <2>. QED  BY <1>1, <1>2, <1>5, <2>2, <2>3
<1>. QED  BY <1>6 DEF Short

LEMMA ShortStays ==
  ASSUME UNCHANGED <<BF, C, choices>>
  PROVE  Short' = Short
  BY DEF Short

-----------------------------------------------------------------------------
LEMMA InitSInv == Init => SInv
<1>. SUFFICES ASSUME Init PROVE ShortInv
  BY InitAInv DEF SInv
<1>1. pc = "recv" /\ overrun = FALSE /\ todo = 0
  BY DEF Init
<1>2. AllCollected
  BY <1>1, SizesAssumption DEF AllCollected, Indexes
<1>. QED  BY <1>1, <1>2 DEF ShortInv, Arranging, StopsOnlyWhenShort

LEMMA CollectCollects ==
  ASSUME SInv, Collect
  PROVE  AllCollected'
<1>. DEFINE e == b[todo]
<1>1. /\ pc = "collect" /\ todo < Not - Ncc /\ todo' = todo + 1 /\ b' = b
      /\ arr_indexes' = [arr_indexes EXCEPT ![e] = Append(@, todo)]
  BY DEF Collect, opening
<1>2. /\ arr_indexes \in [Bit -> Seq(Indexes)] /\ b \in [Indexes -> Bit]
      /\ todo \in 0 .. Not - Ncc /\ C \in SUBSET Indexes
  BY DEF SInv, AInv, OInv, TypeOK
<1>3. todo \in Nat /\ todo \in Indexes /\ e \in Bit
  <2>1. Ncc \in Nat /\ Not \in Nat
    BY <1>2, Sizes
  <2>2. todo \in Nat /\ todo \in Indexes
    BY <1>1, <1>2, <2>1 DEF Indexes
  <2>. QED  BY <1>2, <2>2
<1>4. /\ Len(arr_indexes'[e]) = Len(arr_indexes[e]) + 1 /\ Len(arr_indexes[e]) \in Nat
      /\ arr_indexes'[e][Len(arr_indexes[e]) + 1] = todo
      /\ \A k \in 1 .. Len(arr_indexes[e]) : arr_indexes'[e][k] = arr_indexes[e][k]
      /\ \A d \in Bit : d # e => arr_indexes'[d] = arr_indexes[d]
  BY <1>1, <1>2, <1>3
<1>5. SUFFICES ASSUME NEW p \in Indexes, p < todo + 1
               PROVE  \E k \in 1 .. Len(arr_indexes'[b[p]]) : arr_indexes'[b[p]][k] = p
  BY <1>1 DEF AllCollected
<1>6. CASE p = todo
  <2>1. Len(arr_indexes[e]) + 1 \in 1 .. Len(arr_indexes'[e])
    BY <1>4
  <2>. QED  BY <1>4, <1>6, <2>1
<1>7. CASE p # todo
  <2>1. p < todo /\ b[p] \in Bit
    BY <1>2, <1>3, <1>5, <1>7 DEF Indexes
  <2>2. PICK k \in 1 .. Len(arr_indexes[b[p]]) : arr_indexes[b[p]][k] = p
    BY <2>1 DEF SInv, ShortInv, AllCollected
  <2>3. CASE b[p] = e
    <3>1. k \in 1 .. Len(arr_indexes'[e]) /\ arr_indexes'[e][k] = p
      BY <1>4, <2>2, <2>3
    <3>. QED  BY <2>3, <3>1
  <2>4. CASE b[p] # e
    BY <1>4, <2>1, <2>2, <2>4
  <2>. QED  BY <2>3, <2>4
<1>. QED  BY <1>6, <1>7

(* Nothing gets lost in an exchange.                                       *)
LEMMA SwapKeepsElements ==
  ASSUME NEW v \in Seq(Indexes), NEW m \in 1 .. Len(v), NEW n \in 1 .. Len(v),
         NEW k \in 1 .. Len(v)
  PROVE  \E i \in 1 .. Len(v) : Swapped(v, m, n)[i] = v[k]
<1>1. \A i \in 1 .. Len(v) : Swapped(v, m, n)[i] =
        IF i = n THEN v[m] ELSE IF i = m THEN v[n] ELSE v[i]
  BY DEF Swapped
<1>2. CASE k = m
  <2>1. Swapped(v, m, n)[n] = v[k]
    BY <1>1, <1>2
  <2>. QED  BY <2>1
<1>3. CASE k = n
  <2>1. Swapped(v, m, n)[m] = v[k]
    BY <1>1, <1>3
  <2>. QED  BY <2>1
<1>4. CASE k # m /\ k # n
  BY <1>1, <1>4
<1>. QED  BY <1>2, <1>3, <1>4

LEMMA ShuffleCollected ==
  ASSUME SInv, NEW d \in Bit, ShuffleStep(d)
  PROVE  AllCollected'
<1>. DEFINE v == arr_indexes[d]
            n == shuf[d]
<1>1. PICK k \in 0 .. n - 1 :
        arr_indexes' = [arr_indexes EXCEPT ![d] =
          Swapped(IF n = Len(v) - 1 THEN Swapped(v, 1, k + 1) ELSE v, n + 1, k + 1)]
  BY DEF ShuffleStep
<1>. DEFINE w == IF n = Len(v) - 1 THEN Swapped(v, 1, k + 1) ELSE v
            x == Swapped(w, n + 1, k + 1)
<1>2. pc = "shuffle" /\ n > 0 /\ UNCHANGED <<b, todo>>
  BY DEF ShuffleStep, opening
<1>3. /\ v \in Seq(Indexes) /\ Places(v, d) /\ Len(v) \in Nat /\ n \in 0 .. Len(v) - 1
      /\ arr_indexes \in [Bit -> Seq(Indexes)] /\ b \in [Indexes -> Bit]
  <2>1. arr_indexes \in [Bit -> Seq(Indexes)] /\ b \in [Indexes -> Bit]
    BY DEF SInv, AInv, OInv, TypeOK
  <2>2. Places(v, d) /\ n \in 0 .. Len(v) - 1
    BY <1>2 DEF SInv, AInv, OInv, VectorsInv
  <2>. QED  BY <2>1, <2>2
<1>4. 1 \in 1 .. Len(v) /\ k + 1 \in 1 .. Len(v) /\ n + 1 \in 1 .. Len(v)
  BY <1>2, <1>3
<1>5. /\ w \in Seq(Indexes) /\ Len(w) = Len(v)
      /\ \A i \in 1 .. Len(v) : \E l \in 1 .. Len(v) : w[l] = v[i]
  <2>1. w \in Seq(Indexes) /\ Len(w) = Len(v)
    BY <1>3, <1>4, SwapKeepsPlaces
  <2>2. \A i \in 1 .. Len(v) : \E l \in 1 .. Len(v) : Swapped(v, 1, k + 1)[l] = v[i]
    BY <1>3, <1>4, SwapKeepsElements
  <2>3. CASE n = Len(v) - 1
    BY <2>1, <2>2, <2>3
  <2>4. CASE n # Len(v) - 1
    BY <2>1, <2>4
  <2>. QED  BY <2>3, <2>4
<1>. HIDE DEF w
<1>6. /\ Len(x) = Len(v) /\ x \in Seq(Indexes)
      /\ \A i \in 1 .. Len(v) : \E l \in 1 .. Len(v) : x[l] = v[i]
  <2>0. w \in Seq(Indexes) /\ n + 1 \in 1 .. Len(w) /\ k + 1 \in 1 .. Len(w)
    BY <1>4, <1>5
  <2>1. \A l \in 1 .. Len(w) : \E i \in 1 .. Len(w) : x[i] = w[l]
    BY <2>0, SwapKeepsElements
  <2>2. Len(x) = Len(w) /\ x \in Seq(Indexes)
    BY <2>0 DEF Swapped
  <2>. HIDE DEF x
  <2>. QED  BY <1>5, <2>1, <2>2
<1>. HIDE DEF x
<1>7. arr_indexes'[d] = x /\ \A e \in Bit : e # d => arr_indexes'[e] = arr_indexes[e]
  BY <1>1, <1>3, <1>6 DEF w, x
<1>8. SUFFICES ASSUME NEW p \in Indexes, p < todo
               PROVE  \E l \in 1 .. Len(arr_indexes'[b[p]]) : arr_indexes'[b[p]][l] = p
  BY <1>2 DEF AllCollected
<1>9. b[p] \in Bit
  BY <1>3
<1>10. PICK i \in 1 .. Len(arr_indexes[b[p]]) : arr_indexes[b[p]][i] = p
  BY <1>8 DEF SInv, ShortInv, AllCollected
<1>. QED  BY <1>6, <1>7, <1>9, <1>10

-----------------------------------------------------------------------------
(* What a turn of thread t does to the counts.                             *)
LEMMA ArrangedOneMore ==
  ASSUME AInv, Arranging, NEW t \in Threads, at[t] < Bound(t), NEW entry, Fill(t, entry),
         UNCHANGED <<BF, arr_indexes>>
  PROVE  \A u \in Threads, d \in Bit :
           ArrangedWith(u, d)' = IF u = t /\ d = BF[at[t]] THEN ArrangedWith(u, d) \cup {at[t]}
                                 ELSE ArrangedWith(u, d)
<1>. SUFFICES ASSUME NEW u \in Threads, NEW d \in Bit
              PROVE  ArrangedWith(u, d)' = IF u = t /\ d = BF[at[t]]
                                           THEN ArrangedWith(u, d) \cup {at[t]}
                                           ELSE ArrangedWith(u, d)
  OBVIOUS
<1>1. \A c \in Arranged(u) : c \in Arranged(u)'
  <2>1. at \in [Threads -> 0 .. Nbf] /\ at' = [at EXCEPT ![t] = @ + 1]
    BY ArrangeFacts DEF AInv, Fill
  <2>2. at'[u] = IF u = t THEN at[u] + 1 ELSE at[u]
    BY <2>1
  <2>3. at[u] \in Nat /\ Start(u)' = Start(u) /\ Start(u) \in Nat
    BY ArrangeFacts DEF AInv, Start
  <2>. QED  BY <2>2, <2>3 DEF Arranged
<1>2. /\ \A c \in Arranged(u)' : c \in Arranged(u) \/ (u = t /\ c = at[t])
      /\ at[t] \in Arranged(t)'
  BY FillFacts
<1>. QED  BY <1>1, <1>2 DEF ArrangedWith

LEMMA ArrangedFinite ==
  ASSUME AInv, NEW t \in Threads, NEW d \in Bit
  PROVE  /\ ArrangedWith(t, d) \in SUBSET Cells
         /\ IsFiniteSet(ArrangedWith(t, d)) /\ Cardinality(ArrangedWith(t, d)) \in Nat
<1>1. ArrangedWith(t, d) \subseteq Cells
  <2>1. at[t] \in Start(t) .. Bound(t) /\ Nbf \in Nat /\ Nbf \div 2 \in 0 .. Nbf
    BY ArrangeFacts DEF AInv, ArrangeInv
  <2>. QED  BY <2>1 DEF ArrangedWith, Arranged, Start, Bound, Cells
<1>2. IsFiniteSet(Cells)
  BY SizesAssumption, FS_Interval DEF Cells
<1>. QED  BY <1>1, <1>2, FS_Subset, FS_CardinalityType

(* A place outside its vector: with the cell that is next there are more   *)
(* cells for that bit than places.                                         *)
LEMMA OutsideIsShort ==
  ASSUME SInv, pc = "arrange", NEW t \in Threads, at[t] < Bound(t), ~InVector(t)
  PROVE  Short
<1>1. PICK d : d = BF[at[t]]
  OBVIOUS
<1>2. d \in Bit /\ at[t] \in Cells
  BY <1>1, NextCell DEF SInv, AInv
<1>. DEFINE A == ArrangedWith(t, d)
            S == A \cup {at[t]}
            n == Len(arr_indexes[d])
<1>3. /\ A \in SUBSET Cells /\ IsFiniteSet(A) /\ Cardinality(A) \in Nat
      /\ n \in Nat /\ place[t][d] \in Int
  BY <1>2, ArrangedFinite, ArrangeFacts DEF SInv, AInv
<1>4. at[t] \notin A
  <2>1. at[t] \in Nat
    BY ArrangeFacts DEF SInv, AInv
  <2>. QED  BY <2>1 DEF ArrangedWith, Arranged
<1>5. place[t][d] < 0 \/ place[t][d] > n - 1
  BY <1>1, <1>3 DEF InVector
<1>6. place[t][d] = IF t = "begin" THEN Cardinality(A) ELSE n - 1 - Cardinality(A)
  BY <1>2 DEF SInv, ShortInv, Arranging, PlacesCount, Threads
<1>7. S \in SUBSET Cells /\ \A c \in S : BF[c] = d
  BY <1>1, <1>2, <1>3 DEF ArrangedWith
<1>8. Cardinality(S) = Cardinality(A) + 1
  BY <1>3, <1>4, FS_AddElement
<1>. HIDE DEF A, S
<1>9. Cardinality(S) > n
  BY <1>3, <1>5, <1>6, <1>8
<1>. QED
  BY <1>2, <1>7, <1>9, TooManyIsShort DEF SInv, AInv, ShortInv, Arranging, Accepted

LEMMA ArrangeShort ==
  ASSUME SInv, NEW t \in Threads, Arrange(t)
  PROVE  ShortInv'
<1>1. /\ pc = "arrange" /\ at[t] < Bound(t) /\ Ncc' = Ncc
      /\ UNCHANGED <<choices, C, BF, b, arr_indexes, todo>>
  BY DEF Arrange, inputs, opening, vectors, Ncc
<1>2. Arranging /\ AInv /\ AllCollected /\ todo = Not - Ncc /\ PlacesCount /\ StopsOnlyWhenShort
  BY <1>1 DEF Arranging, SInv, ShortInv
<1>3. AllCollected' /\ Short' = Short
  BY <1>1, <1>2, ShortStays DEF AllCollected
<1>4. ASSUME NEW entry, Fill(t, entry) PROVE PlacesCount'
  <2>. SUFFICES ASSUME NEW d \in Bit
                PROVE  /\ place'["begin"][d] = Cardinality(ArrangedWith("begin", d)')
                       /\ place'["end"][d] = Len(arr_indexes[d]) - 1
                                               - Cardinality(ArrangedWith("end", d)')
    BY <1>1 DEF PlacesCount
  <2>1. /\ "begin" \in Threads /\ "end" \in Threads /\ t \in {"begin", "end"}
        /\ Len(arr_indexes[d]) \in Nat
        /\ place["begin"][d] \in Int /\ place["end"][d] \in Int
    BY <1>2, ArrangeFacts DEF Threads, AInv
  <2>2. /\ place["begin"][d] = Cardinality(ArrangedWith("begin", d))
        /\ place["end"][d] = Len(arr_indexes[d]) - 1 - Cardinality(ArrangedWith("end", d))
    BY <1>2 DEF PlacesCount
  <2>3. CASE d = BF[at[t]]
    <3>1. place'[t][d] = place[t][d] + (IF t = "begin" THEN 1 ELSE -1)
          /\ \A u \in Threads : u # t => place'[u][d] = place[u][d]
      BY <1>1, <1>2, <1>4, <2>3, FillFacts
    <3>2. at[t] \notin ArrangedWith(t, d)
      BY <1>1, <1>2, <1>4, FillFacts DEF ArrangedWith
    <3>3. /\ ArrangedWith(t, d)' = ArrangedWith(t, d) \cup {at[t]}
          /\ \A u \in Threads : u # t => ArrangedWith(u, d)' = ArrangedWith(u, d)
      BY <1>1, <1>2, <1>4, <2>3, ArrangedOneMore
    <3>4. /\ Cardinality(ArrangedWith(t, d)') = Cardinality(ArrangedWith(t, d)) + 1
          /\ Cardinality(ArrangedWith(t, d)) \in Nat
      BY <1>2, <3>2, <3>3, ArrangedFinite, FS_AddElement
    <3>5. CASE t = "begin"
      BY <2>1, <2>2, <3>1, <3>3, <3>4, <3>5
    <3>6. CASE t = "end"
      <4>1. /\ place'["begin"][d] = place["begin"][d]
            /\ ArrangedWith("begin", d)' = ArrangedWith("begin", d)
            /\ place'["end"][d] = place["end"][d] - 1
            /\ Cardinality(ArrangedWith("end", d)') = Cardinality(ArrangedWith("end", d)) + 1
            /\ Cardinality(ArrangedWith("end", d)) \in Nat
        BY <2>1, <3>1, <3>3, <3>4, <3>6
      <4>. QED  BY <2>1, <2>2, <4>1
    <3>. QED  BY <2>1, <3>5, <3>6
  <2>4. CASE d # BF[at[t]]
    <3>1. \A u \in Threads : place'[u][d] = place[u][d]
      BY <1>1, <1>2, <1>4, <2>4, FillFacts
    <3>2. \A u \in Threads : ArrangedWith(u, d)' = ArrangedWith(u, d)
      BY <1>1, <1>2, <1>4, <2>4, ArrangedOneMore
    <3>. QED  BY <2>1, <2>2, <3>1, <3>2
  <2>. QED  BY <2>3, <2>4
<1>5. CASE InVector(t) /\ UNCHANGED <<pc, overrun>> /\ \E entry : Fill(t, entry)
  BY <1>1, <1>2, <1>3, <1>4, <1>5 DEF ShortInv, Arranging, StopsOnlyWhenShort
<1>6. CASE ~InVector(t) /\ UNCHANGED pc /\ Fill(t, Garbage)
  <2>1. Short
    BY <1>1, <1>6, OutsideIsShort
  <2>. QED  BY <1>1, <1>2, <1>3, <1>4, <1>6, <2>1 DEF ShortInv, Arranging, StopsOnlyWhenShort
<1>7. CASE ~InVector(t) /\ pc' = "crashed"
  <2>1. Short
    BY <1>1, <1>7, OutsideIsShort
  <2>. QED  BY <1>1, <1>2, <1>3, <1>7, <2>1 DEF ShortInv, Arranging, StopsOnlyWhenShort
<1>. QED  BY <1>5, <1>6, <1>7 DEF Arrange

(* The cells of the two halves are different ones.                         *)
LEMMA CrossedIsShort ==
  ASSUME SInv, pc = "arrange", Crossed
  PROVE  Short
<1>1. PICK d \in Bit : place["begin"][d] - 1 >= place["end"][d] + 1
  BY DEF Crossed
<1>. DEFINE A == ArrangedWith("begin", d)
            E == ArrangedWith("end", d)
            S == A \cup E
            n == Len(arr_indexes[d])
<1>2. /\ A \in SUBSET Cells /\ IsFiniteSet(A) /\ Cardinality(A) \in Nat
      /\ E \in SUBSET Cells /\ IsFiniteSet(E) /\ Cardinality(E) \in Nat
      /\ n \in Nat
  BY ArrangedFinite, ArrangeFacts DEF SInv, AInv, Threads
<1>3. A \cap E = {}
  <2>1. at["begin"] \in Start("begin") .. Bound("begin")
        /\ Nbf \in Nat /\ Nbf \div 2 \in 0 .. Nbf
    BY ArrangeFacts DEF SInv, AInv, ArrangeInv, Threads
  <2>2. \A c \in Arranged("begin") : c \notin Arranged("end")
    BY <2>1 DEF Arranged, Start, Bound
  <2>. QED  BY <2>2 DEF ArrangedWith
<1>4. /\ place["begin"][d] = Cardinality(A)
      /\ place["end"][d] = n - 1 - Cardinality(E)
  BY DEF SInv, ShortInv, Arranging, PlacesCount
<1>5. S \in SUBSET Cells /\ \A c \in S : BF[c] = d
  BY <1>2 DEF ArrangedWith
<1>6. Cardinality(S) = Cardinality(A) + Cardinality(E)
  <2>1. Cardinality(S) = Cardinality(A) + Cardinality(E) - Cardinality(A \cap E)
    BY <1>2, FS_Union
  <2>2. Cardinality(A \cap E) = 0
    BY <1>3, FS_EmptySet, Zenon
  <2>. HIDE DEF A, E, S
  <2>. QED  BY <1>2, <2>1, <2>2
<1>. HIDE DEF A, E, S
<1>7. Cardinality(S) > n
  BY <1>1, <1>2, <1>4, <1>6
<1>. QED
  BY <1>5, <1>7, TooManyIsShort DEF SInv, AInv, ShortInv, Arranging, Accepted

LEMMA NextSInv == SInv /\ [Next]_vars => SInv'
<1>. SUFFICES ASSUME SInv, [Next]_vars PROVE SInv'
  OBVIOUS
<1>1. AInv' /\ OInv /\ AInv /\ ShortInv
  BY NextAInv DEF SInv, AInv
<1>2. ShortInv'
  <2>1. CASE RefuseC \/ AcceptC \/ Move \/ SendR
    <3>1. /\ pc \in {"recv", "move"} /\ pc' \in {"refused", "move", "collect"}
          /\ UNCHANGED <<todo, overrun, BF, C, choices>>
      BY <2>1 DEF RefuseC, AcceptC, Move, Open, SendR, inputs, vectors, arranging
    <3>2. AllCollected'
      <4>1. todo' = 0
        BY <1>1, <3>1 DEF OInv, VectorsInv
      <4>. QED  BY <4>1, SizesAssumption DEF AllCollected, Indexes
    <3>3. StopsOnlyWhenShort'
      BY <1>1, <3>1, ShortStays DEF ShortInv, StopsOnlyWhenShort
    <3>. QED  BY <3>1, <3>2, <3>3 DEF ShortInv, Arranging
  <2>2. CASE Collect
    <3>1. pc = "collect" /\ pc' = pc /\ UNCHANGED <<overrun, BF, C, choices>>
      BY <2>2 DEF Collect, inputs, arranging
    <3>2. StopsOnlyWhenShort'
      BY <1>1, <3>1, ShortStays DEF ShortInv, StopsOnlyWhenShort
    <3>. QED  BY <2>2, <3>1, <3>2, CollectCollects DEF ShortInv, Arranging
  <2>3. CASE StartShuffling
    <3>1. /\ pc = "collect" /\ pc' \in {"trapped", "shuffle"} /\ todo >= Not - Ncc /\ Ncc' = Ncc
          /\ UNCHANGED <<overrun, BF, C, choices, b, arr_indexes, todo>>
      BY <2>3 DEF StartShuffling, inputs, opening, arranging, Ncc
    <3>2. todo = Not - Ncc
      <4>1. todo \in 0 .. Not - Ncc /\ Ncc \in Nat /\ Not \in Nat
        BY <1>1, Sizes DEF OInv, TypeOK
      <4>. QED  BY <3>1, <4>1
    <3>3. AllCollected' /\ StopsOnlyWhenShort'
      BY <1>1, <3>1, ShortStays DEF ShortInv, StopsOnlyWhenShort, AllCollected
    <3>. QED  BY <3>1, <3>2, <3>3 DEF ShortInv, Arranging
  <2>4. ASSUME NEW d \in Bit, ShuffleStep(d) PROVE ShortInv'
    <3>1. pc = "shuffle" /\ pc' = pc /\ Ncc' = Ncc /\ UNCHANGED <<overrun, BF, C, choices, todo>>
      BY <2>4 DEF ShuffleStep, inputs, arranging, Ncc
    <3>2. StopsOnlyWhenShort'
      BY <1>1, <3>1, ShortStays DEF ShortInv, StopsOnlyWhenShort
    <3>. QED  BY <1>1, <2>4, <3>1, <3>2, ShuffleCollected DEF ShortInv, Arranging
  <2>5. CASE StartArranging
    <3>1. /\ pc = "shuffle" /\ pc' = "arrange" /\ Ncc' = Ncc
          /\ place' = [t \in Threads |-> [d \in Bit |->
                         IF t = "begin" THEN 0 ELSE Len(arr_indexes[d]) - 1]]
          /\ UNCHANGED <<overrun, BF, C, choices, b, arr_indexes, todo, at>>
      BY <2>5 DEF StartArranging, inputs, opening, vectors, Ncc
    <3>2. AllCollected' /\ StopsOnlyWhenShort'
      BY <1>1, <3>1, ShortStays DEF ShortInv, StopsOnlyWhenShort, AllCollected
    <3>3. \A t \in Threads, d \in Bit : ArrangedWith(t, d)' = {}
      <4>1. \A t \in Threads : at[t] = Start(t) /\ Start(t) \in Int
        BY <1>1, <3>1, ArrangeFacts DEF AInv, ArrangeInv, NotStarted
      <4>2. \A t \in Threads : Arranged(t)' = {}
        BY <3>1, <4>1 DEF Arranged, Start
      <4>. QED  BY <4>2 DEF ArrangedWith
    <3>4. PlacesCount'
      <4>1. \A d \in Bit : Len(arr_indexes[d]) \in Nat
        BY <1>1, ArrangeFacts
      <4>2. Cardinality({}) = 0
        BY FS_EmptySet
      <4>3. "begin" \in Threads /\ "end" \in Threads
        BY DEF Threads
      <4>4. \A d \in Bit : /\ place'["begin"][d] = 0
                           /\ place'["end"][d] = Len(arr_indexes[d]) - 1
                           /\ ArrangedWith("begin", d)' = {} /\ ArrangedWith("end", d)' = {}
        BY <3>1, <3>3, <4>3
      <4>5. \A d \in Bit : arr_indexes'[d] = arr_indexes[d]
        BY <3>1
      <4>6. \A d \in Bit : /\ Cardinality(ArrangedWith("begin", d)') = 0
                           /\ Cardinality(ArrangedWith("end", d)') = 0
        BY <4>2, <4>4
      <4>. SUFFICES ASSUME NEW d \in Bit
                    PROVE  /\ place'["begin"][d] = Cardinality(ArrangedWith("begin", d)')
                           /\ place'["end"][d] = Len(arr_indexes'[d]) - 1
                                                   - Cardinality(ArrangedWith("end", d)')
        BY DEF PlacesCount
      <4>. QED  BY <4>1, <4>4, <4>5, <4>6
    <3>. QED  BY <1>1, <3>1, <3>2, <3>4 DEF ShortInv, Arranging
  <2>6. ASSUME NEW t \in Threads, Arrange(t) PROVE ShortInv'
    BY <2>6, ArrangeShort
  <2>7. CASE CheckAndSend
    <3>1. /\ pc = "arrange" /\ pc' = IF Crossed THEN "exit" ELSE "sent"
          /\ Ncc' = Ncc /\ todo' = todo /\ PlacesCount' = PlacesCount
          /\ UNCHANGED <<overrun, BF, C, choices, b, arr_indexes>>
      BY <2>7 DEF CheckAndSend, inputs, opening, vectors, arranging, Ncc, PlacesCount,
                  ArrangedWith, Arranged, Start
    <3>2. AllCollected'
      BY <1>1, <3>1 DEF ShortInv, AllCollected
    <3>3. StopsOnlyWhenShort'
      BY <1>1, <3>1, ShortStays, CrossedIsShort DEF ShortInv, StopsOnlyWhenShort
    <3>. QED  BY <1>1, <3>1, <3>2, <3>3 DEF ShortInv, Arranging
  <2>8. CASE SenderCheck \/ UNCHANGED vars
    <3>1. UNCHANGED <<pc, overrun, BF, C, choices, b, arr_indexes, todo, at, place>>
      BY <2>8 DEF SenderCheck, vars, inputs, opening, vectors, arranging
    <3>2. Ncc' = Ncc /\ PlacesCount' = PlacesCount
      BY <3>1 DEF Ncc, PlacesCount, ArrangedWith, Arranged, Start
    <3>3. AllCollected' /\ StopsOnlyWhenShort'
      BY <1>1, <3>1, ShortStays DEF ShortInv, StopsOnlyWhenShort, AllCollected
    <3>. QED  BY <1>1, <3>1, <3>2, <3>3 DEF ShortInv, Arranging
  <2>. QED  BY <2>1, <2>2, <2>3, <2>4, <2>5, <2>6, <2>7, <2>8 DEF Next, Done
<1>. QED  BY <1>1, <1>2 DEF SInv

(* exit(1) of arrange_the_indexes, and a read outside a vector, happen     *)
(* only when the filter needs more zeros or ones than were left over: the  *)
(* two threads, which meet somewhere in each vector, waste no place of it. *)
THEOREM StopsForNeed == Spec => []StopsOnlyWhenShort
<1>1. SInv => StopsOnlyWhenShort
  BY DEF SInv, ShortInv
<1>. QED  BY <1>1, InitSInv, NextSInv, PTL DEF Spec

=============================================================================
