-------------------------- MODULE CumulativeGbf_proofs --------------------------
(***************************************************************************)
(* Step 11 of the program, proved for every set of other parties, every    *)
(* size of the filter and every size of the chunks: no update of a shared  *)
(* cell is lost, every thread XORs the sender's cells into the cells with  *)
(* the same numbers, and what compute_gbf does is what Accumulation        *)
(* promises.                                                               *)
(***************************************************************************)
EXTENDS CumulativeGbf, TLAPS

(* The first cell of chunk i.                                              *)
Base(i) == i * chunk_size

(* A thread works on a chunk that exists, and its counters stand where its *)
(* place in the loops says.                                                *)
InItsChunk ==
  \A k \in Pis :
    /\ chunk[k] \in Chunks
    /\ IF pc[k] = "read" THEN left[k] \in 1 .. Limit(chunk[k]) ELSE left[k] = 0
    /\ pc[k] \in {"load", "store"} => pos[k] < Limit(chunk[k])
    /\ pc[k] \in {"unlock", "done"} => pos[k] = Limit(chunk[k])
    /\ pc[k] = "done" => chunk[k] + 1 \notin Chunks

(* What a thread took from its socket is what it has been sent, and ends   *)
(* where its chunk is filled.                                              *)
StreamPosition ==
  \A k \in Pis : /\ taken[k] = Base(chunk[k]) + Limit(chunk[k]) - left[k]
                 /\ taken[k] <= written[k]

(* The part of the buffer that the current read has filled holds the       *)
(* sender's cells of this chunk.                                           *)
BufferFilled ==
  \A k \in Pis : pc[k] \in {"read", "lock", "load", "store"} =>
    \A j \in 0 .. Limit(chunk[k]) - left[k] - 1 :
        chunkArr[k][j] = <<k, Base(chunk[k]) + j>>

(* A thread between lock() and unlock() holds the mutex of its chunk.      *)
HoldsMutex ==
  \A k \in Pis : pc[k] \in {"load", "store", "unlock"} => mtxArr[chunk[k]] = k

(* The cells that thread k has XORed are those below Xored(k).             *)
Xored(k) == Base(chunk[k]) + (IF pc[k] \in {"read", "lock"} THEN 0 ELSE pos[k])

Contents ==
  \A c \in Cells : GBF[c] = {<<k, c>> : k \in {p \in Pis : c < Xored(p)}}

JoinedAtEnd == joined => \A k \in Pis : pc[k] = "done"

IInv == /\ TypeOK
        /\ InItsChunk
        /\ StreamPosition
        /\ BufferFilled
        /\ HoldsMutex
        /\ NoStaleStore
        /\ Contents
        /\ JoinedAtEnd

-----------------------------------------------------------------------------
(* The smaller of two numbers.                                             *)
LEMMA MinOfTwo ==
  ASSUME NEW a \in Int, NEW b \in Int
  PROVE  Min({a, b}) \in Int /\ Min({a, b}) <= a /\ Min({a, b}) <= b
<1>1. \E x \in {a, b} : \A y \in {a, b} : x <= y
  OBVIOUS
<1>2. Min({a, b}) \in {a, b} /\ \A y \in {a, b} : Min({a, b}) <= y
  BY <1>1 DEF Min
<1>. QED  BY <1>2

LEMMA BaseMonotone ==
  ASSUME NEW i \in Nat, NEW j \in Nat, i <= j
  PROVE  Base(i) \in Nat /\ Base(j) \in Nat /\ Base(i) <= Base(j)
  BY ChunkAssumption DEF Base

LEMMA BaseNext ==
  ASSUME NEW i \in Nat
  PROVE  Base(i + 1) = Base(i) + chunk_size
  BY ChunkAssumption DEF Base

(* The full chunks fit in the filter and leave less than a chunk.          *)
LEMMA FullChunks ==
  /\ Nbf \div chunk_size \in Nat
  /\ Nbf % chunk_size \in 0 .. chunk_size - 1
  /\ Nbf = Base(Nbf \div chunk_size) + (Nbf % chunk_size)
  BY NbfAssumption, ChunkAssumption DEF Base

(* Every chunk that is asked for has cells, lies in the filter, and is     *)
(* followed by the next one without a gap; the last one ends the filter.   *)
LEMMA ChunkFacts ==
  ASSUME NEW i \in Chunks
  PROVE  /\ i \in Nat
         /\ i \in 0 .. num_of_chunks - 1
         /\ Limit(i) \in 1 .. chunk_size
         /\ Base(i) \in Nat
         /\ Base(i) + Limit(i) <= Nbf
         /\ i + 1 \in Chunks => Base(i + 1) = Base(i) + Limit(i)
         /\ i + 1 \notin Chunks => Base(i) + Limit(i) = Nbf
<1>. DEFINE full == Nbf \div chunk_size
            rest == Nbf % chunk_size
<1>1. full \in Nat /\ rest \in 0 .. chunk_size - 1 /\ Nbf = Base(full) + rest
  BY FullChunks
<1>2. /\ i \in Nat /\ i <= full /\ i \in 0 .. full
      /\ rest = 0 => i < full
      /\ i + 1 \in Chunks <=> IF rest = 0 THEN i + 1 < full ELSE i < full
  BY <1>1 DEF Chunks
<1>3. Base(i) \in Nat /\ Base(full) \in Nat /\ Base(i + 1) = Base(i) + chunk_size
  BY <1>1, <1>2, BaseMonotone, BaseNext
<1>4. chunk_size \in Nat /\ chunk_size > 0 /\ Nbf \in Nat
  BY NbfAssumption, ChunkAssumption
<1>5. i \in 0 .. num_of_chunks - 1
  BY <1>1, <1>2 DEF num_of_chunks
<1>6. CASE i < full
  <2>1. Limit(i) = chunk_size
    BY <1>6 DEF Limit
  <2>2. i + 1 \in Nat /\ i + 1 <= full
    BY <1>1, <1>2, <1>6
  <2>3. Base(i + 1) <= Base(full)
    BY <1>1, <2>2, BaseMonotone
  <2>4. i + 1 \notin Chunks => rest = 0 /\ i + 1 = full
    BY <1>1, <1>2, <1>6
  <2>. HIDE DEF full, rest
  <2>5. Base(i) + chunk_size <= Nbf
    BY <1>1, <1>3, <1>4, <2>3
  <2>6. i + 1 \notin Chunks => Base(i) + chunk_size = Nbf
    <3>. SUFFICES ASSUME i + 1 \notin Chunks PROVE Base(i) + chunk_size = Nbf
      OBVIOUS
    <3>1. rest = 0 /\ Base(i + 1) = Base(full)
      BY <2>4
    <3>. QED  BY <1>1, <1>3, <1>4, <3>1
  <2>. QED  BY <1>2, <1>3, <1>4, <1>5, <2>1, <2>5, <2>6
<1>7. CASE i = full
  <2>1. Limit(i) = Nbf - Base(i)
    BY <1>1, <1>2, <1>7 DEF Limit, Base
  <2>2. i + 1 \notin Chunks /\ rest # 0
    BY <1>1, <1>2, <1>7
  <2>. HIDE DEF full, rest
  <2>3. Limit(i) = rest /\ Base(i) = Base(full)
    BY <1>1, <1>3, <1>4, <1>7, <2>1
  <2>. QED  BY <1>1, <1>2, <1>3, <1>4, <1>5, <2>2, <2>3
<1>. QED  BY <1>1, <1>2, <1>6, <1>7

LEMMA FirstChunk == 0 \in Chunks /\ Base(0) = 0
<1>1. Base(0) = 0
  BY ChunkAssumption DEF Base
<1>2. Nbf \div chunk_size = 0 => Nbf % chunk_size # 0
  BY <1>1, FullChunks, NbfAssumption
<1>. QED  BY <1>1, <1>2, FullChunks DEF Chunks

(* Two chunks have no cell in common.                                      *)
LEMMA ChunksDisjoint ==
  ASSUME NEW i \in Chunks, NEW j \in Chunks,
         NEW a \in 0 .. Limit(i) - 1, NEW b \in 0 .. Limit(j) - 1,
         Base(i) + a = Base(j) + b
  PROVE  i = j /\ a = b
<1>1. /\ i \in Nat /\ Base(i) \in Nat /\ Limit(i) \in 1 .. chunk_size
      /\ j \in Nat /\ Base(j) \in Nat /\ Limit(j) \in 1 .. chunk_size
  BY ChunkFacts
<1>2. i < j => Base(i) + chunk_size <= Base(j)
  BY <1>1, BaseNext, BaseMonotone, i + 1 \in Nat
<1>3. j < i => Base(j) + chunk_size <= Base(i)
  BY <1>1, BaseNext, BaseMonotone, j + 1 \in Nat
<1>4. a \in Nat /\ b \in Nat /\ a < chunk_size /\ b < chunk_size /\ chunk_size \in Nat
  BY <1>1, ChunkAssumption
<1>5. ~(i < j)
  BY <1>1, <1>2, <1>4
<1>6. ~(j < i)
  BY <1>1, <1>3, <1>4
<1>7. i = j
  BY <1>1, <1>5, <1>6
<1>. QED  BY <1>1, <1>4, <1>7

-----------------------------------------------------------------------------
(* Before anything is read every thread is at cell 0 of chunk 0, and the   *)
(* filter is empty.                                                        *)
LEMMA InitIInv == Init => IInv
<1>. SUFFICES ASSUME Init PROVE IInv
  OBVIOUS
<1>. USE DEF Init
<1>1. /\ 0 \in Chunks /\ Base(0) = 0 /\ 0 \in 0 .. num_of_chunks - 1
      /\ Limit(0) \in 1 .. chunk_size
      /\ Nbf \in Nat /\ chunk_size \in Nat
  BY FirstChunk, ChunkFacts, NbfAssumption, ChunkAssumption
<1>2. TypeOK
  <2>1. 0 \in 0 .. Nbf /\ 0 \in 0 .. chunk_size /\ Limit(0) \in 0 .. chunk_size
    BY <1>1
  <2>. QED  BY <1>1, <2>1 DEF TypeOK, ThreadStates
<1>3. InItsChunk
  BY <1>1 DEF InItsChunk
<1>4. StreamPosition
  BY <1>1 DEF StreamPosition
<1>5. BufferFilled
  BY <1>1 DEF BufferFilled
<1>6. Contents
  <2>1. \A k \in Pis : Xored(k) = 0
    BY <1>1 DEF Xored
  <2>. QED  BY <2>1 DEF Contents, Cells
<1>. QED  BY <1>2, <1>3, <1>4, <1>5, <1>6 DEF IInv, HoldsMutex, NoStaleStore, JoinedAtEnd

(* What the invariant says of a thread inside its critical section: the    *)
(* cell it works on is a cell of the filter, and nobody else works on it.  *)
LEMMA CellFacts ==
  ASSUME IInv, NEW k \in Pis, pc[k] \in {"load", "store"}
  PROVE  /\ pos[k] \in 0 .. Limit(chunk[k]) - 1
         /\ Cell(k) = Base(chunk[k]) + pos[k]
         /\ Cell(k) \in Cells
         /\ pos[k] \in Buffer
<1>1. /\ chunk[k] \in Chunks /\ pos[k] \in Nat /\ pos[k] < Limit(chunk[k])
  BY DEF IInv, TypeOK, InItsChunk
<1>2. /\ Limit(chunk[k]) \in 1 .. chunk_size /\ Base(chunk[k]) \in Nat
      /\ Base(chunk[k]) + Limit(chunk[k]) <= Nbf
      /\ chunk_size \in Nat /\ Nbf \in Nat
  BY <1>1, ChunkFacts, NbfAssumption, ChunkAssumption
<1>3. Cell(k) = Base(chunk[k]) + pos[k]
  BY DEF Cell, Base
<1>. QED  BY <1>1, <1>2, <1>3 DEF Cells, Buffer

LEMMA OwnCells ==
  ASSUME IInv, NEW k \in Pis, NEW p \in Pis, k # p,
         pc[k] \in {"load", "store"}, pc[p] \in {"load", "store"}
  PROVE  Cell(k) # Cell(p)
<1>1. chunk[k] \in Chunks /\ chunk[p] \in Chunks /\ chunk[k] # chunk[p]
  BY DEF IInv, InItsChunk, HoldsMutex
<1>. QED  BY <1>1, CellFacts, ChunksDisjoint

(* A peer writes: only what is on its way changes.                         *)
LEMMA WriteIInv ==
  ASSUME IInv, NEW t \in Pis, Write(t)
  PROVE  IInv'
<1>. PICK n \in 1 .. Nbf - written[t] : written' = [written EXCEPT ![t] = @ + n]
  BY DEF Write
<1>1. UNCHANGED <<taken, threadVars, left, chunkArr, mtxArr, GBF, joined>>
  BY DEF Write
<1>2. written[t] \in 0 .. Nbf /\ n \in Nat /\ written[t] + n \in 0 .. Nbf
  BY NbfAssumption DEF IInv, TypeOK
<1>3. TypeOK'
  BY <1>1, <1>2 DEF IInv, TypeOK, threadVars
<1>4. StreamPosition'
  <2>1. ASSUME NEW k \in Pis PROVE taken[k] <= written'[k]
    <3>1. taken[k] \in Nat /\ written[k] \in Nat /\ taken[k] <= written[k]
      BY NbfAssumption DEF IInv, TypeOK, StreamPosition
    <3>2. written \in [Pis -> 0 .. Nbf]
      BY DEF IInv, TypeOK
    <3>. QED  BY <1>2, <3>1, <3>2
  <2>. QED  BY <1>1, <2>1 DEF IInv, StreamPosition, threadVars
<1>. QED  BY <1>1, <1>3, <1>4 DEF IInv, threadVars, InItsChunk, BufferFilled, HoldsMutex,
             NoStaleStore, Contents, JoinedAtEnd, Xored, Cell

(* A turn of read_as_a_receiver moves the stream and the buffer on by the  *)
(* same number of cells.                                                   *)
LEMMA ReadIInv ==
  ASSUME IInv, NEW t \in Pis, Read(t)
  PROVE  IInv'
<1>. DEFINE i == chunk[t]
            at == Limit(i) - left[t]
<1>1. PICK n \in 1 .. Min({left[t], written[t] - taken[t]}) : Receive(t, n, at)
  BY DEF Read
<1>2. /\ pc[t] = "read" /\ i \in Chunks /\ left[t] \in 1 .. Limit(i)
      /\ Limit(i) \in 1 .. chunk_size /\ Base(i) \in Nat
      /\ chunk_size \in Nat /\ Nbf \in Nat
      /\ taken[t] \in 0 .. Nbf /\ written[t] \in 0 .. Nbf
      /\ taken[t] = Base(i) + Limit(i) - left[t]
  BY ChunkFacts, NbfAssumption, ChunkAssumption DEF Read, IInv, InItsChunk, TypeOK, StreamPosition
<1>. HIDE DEF i
<1>3. n \in Nat /\ n > 0 /\ n <= left[t] /\ n <= written[t] - taken[t]
  <2>1. left[t] \in Int /\ written[t] - taken[t] \in Int
    BY <1>2
  <2>. DEFINE m == Min({left[t], written[t] - taken[t]})
  <2>2. m \in Int /\ m <= left[t] /\ m <= written[t] - taken[t]
    BY <2>1, MinOfTwo
  <2>3. n \in 1 .. m
    BY <1>1
  <2>. HIDE DEF m
  <2>. QED  BY <2>1, <2>2, <2>3
<1>4. /\ taken' = [taken EXCEPT ![t] = taken[t] + n]
      /\ left' = [left EXCEPT ![t] = left[t] - n]
      /\ pc' = [pc EXCEPT ![t] = IF left'[t] = 0 THEN "lock" ELSE "read"]
      /\ chunkArr' = [chunkArr EXCEPT ![t] =
           [j \in Buffer |-> IF j \in at .. at + n - 1
                             THEN <<t, taken[t] + j - at>> ELSE chunkArr[t][j]]]
      /\ UNCHANGED <<written, chunk, pos, reg, mtxArr, GBF, joined>>
  BY <1>1, <1>2 DEF Receive, i
<1>5. left'[t] = left[t] - n /\ pc'[t] \in {"read", "lock"}
  BY <1>4 DEF IInv, TypeOK
<1>6. ASSUME NEW j \in at .. at + n - 1
      PROVE  taken[t] + j - at = Base(i) + j /\ Base(i) + j \in Cells /\ j \in Buffer
  BY <1>2, <1>3, ChunkFacts DEF Cells, Buffer
<1>7. TypeOK'
  <2>1. taken[t] + n \in 0 .. Nbf /\ left[t] - n \in 0 .. chunk_size
    BY <1>2, <1>3
  <2>2. chunkArr' \in [Pis -> [Buffer -> Blocks \cup {Zero}]]
    BY <1>4, <1>6 DEF IInv, TypeOK, Blocks
  <2>. QED  BY <1>4, <2>1, <2>2 DEF IInv, TypeOK, ThreadStates
<1>8. InItsChunk'
  <2>1. left[t] - n \in 0 .. Limit(i)
    BY <1>2, <1>3
  <2>2. IF pc'[t] = "read" THEN left'[t] \in 1 .. Limit(i) ELSE left'[t] = 0
    BY <1>2, <1>4, <1>5, <2>1 DEF IInv, TypeOK
  <2>. QED  BY <1>4, <1>5, <2>2 DEF IInv, InItsChunk, TypeOK, i
<1>9. StreamPosition'
  <2>1. taken[t] + n = Base(i) + Limit(i) - (left[t] - n) /\ taken[t] + n <= written[t]
    BY <1>2, <1>3
  <2>. QED  BY <1>4, <2>1 DEF IInv, StreamPosition, TypeOK, i
<1>10. BufferFilled'
  <2>1. ASSUME NEW j \in 0 .. Limit(i) - left'[t] - 1
        PROVE  chunkArr'[t][j] = <<t, Base(i) + j>>
    <3>1. j \in Buffer /\ (j < at \/ j \in at .. at + n - 1) /\ j \in Nat
      BY <1>2, <1>3, <1>5 DEF Buffer
    <3>2. CASE j \in at .. at + n - 1
      BY <1>4, <1>6, <3>1, <3>2 DEF IInv, TypeOK
    <3>3. CASE j < at
      <4>1. chunkArr[t][j] = <<t, Base(i) + j>>
        BY <1>2, <3>1, <3>3 DEF IInv, BufferFilled, i
      <4>2. j \notin at .. at + n - 1
        BY <1>2, <3>1, <3>3
      <4>. QED  BY <1>4, <3>1, <4>1, <4>2 DEF IInv, TypeOK
    <3>. QED  BY <3>1, <3>2, <3>3
  <2>. QED  BY <1>4, <2>1 DEF IInv, BufferFilled, TypeOK, i
<1>11. HoldsMutex' /\ NoStaleStore'
  BY <1>4, <1>5 DEF IInv, TypeOK, HoldsMutex, NoStaleStore, Cell
<1>12. Contents'
  <2>1. \A k \in Pis : Xored(k)' = Xored(k)
    BY <1>2, <1>4, <1>5 DEF Xored, IInv, TypeOK
  <2>. QED  BY <1>4, <2>1 DEF IInv, Contents
<1>13. JoinedAtEnd'
  BY <1>2, <1>4 DEF IInv, TypeOK, JoinedAtEnd
<1>. QED  BY <1>7, <1>8, <1>9, <1>10, <1>11, <1>12, <1>13 DEF IInv

(* The mutex is free: nobody else is in the critical section of the chunk. *)
LEMMA LockIInv ==
  ASSUME IInv, NEW t \in Pis, Lock(t)
  PROVE  IInv'
<1>1. /\ pc[t] = "lock" /\ mtxArr[chunk[t]] = Free
      /\ mtxArr' = [mtxArr EXCEPT ![chunk[t]] = t]
      /\ pc' = [pc EXCEPT ![t] = "load"]
      /\ pos' = [pos EXCEPT ![t] = 0]
      /\ UNCHANGED <<written, taken, chunk, left, chunkArr, reg, GBF, joined>>
  BY DEF Lock
<1>2. /\ chunk[t] \in Chunks /\ Limit(chunk[t]) \in 1 .. chunk_size
      /\ chunk_size \in Nat /\ Base(chunk[t]) \in Nat
  BY ChunkFacts, ChunkAssumption DEF IInv, InItsChunk
<1>3. TypeOK'
  <2>1. 0 \in 0 .. chunk_size
    BY <1>2
  <2>. QED  BY <1>1, <2>1 DEF IInv, TypeOK, ThreadStates
<1>4. InItsChunk'
  <2>1. 0 < Limit(chunk[t])
    BY <1>2
  <2>. QED  BY <1>1, <2>1 DEF IInv, TypeOK, InItsChunk
<1>5. StreamPosition'
  BY <1>1 DEF IInv, StreamPosition
<1>6. BufferFilled'
  BY <1>1 DEF IInv, TypeOK, BufferFilled
<1>7. HoldsMutex'
  <2>1. ASSUME NEW k \in Pis, pc'[k] \in {"load", "store", "unlock"}
        PROVE  mtxArr'[chunk[k]] = k
    <3>1. chunk[t] \in DOMAIN mtxArr /\ chunk[k] \in DOMAIN mtxArr
      BY <1>2, ChunkFacts DEF IInv, TypeOK, InItsChunk
    <3>2. CASE k = t
      BY <1>1, <3>1, <3>2
    <3>3. CASE k # t
      BY <1>1, <2>1, <3>1, <3>3, FreeAssumption DEF IInv, TypeOK, HoldsMutex
    <3>. QED  BY <3>2, <3>3
  <2>. QED  BY <1>1, <2>1 DEF HoldsMutex
<1>8. NoStaleStore'
  BY <1>1 DEF IInv, TypeOK, NoStaleStore, Cell
<1>9. Contents'
  <2>1. \A k \in Pis : Xored(k)' = Xored(k)
    BY <1>1 DEF Xored, IInv, TypeOK
  <2>. QED  BY <1>1, <2>1 DEF IInv, Contents
<1>10. JoinedAtEnd'
  BY <1>1 DEF IInv, TypeOK, JoinedAtEnd
<1>. QED  BY <1>3, <1>4, <1>5, <1>6, <1>7, <1>8, <1>9, <1>10 DEF IInv

LEMMA LoadIInv ==
  ASSUME IInv, NEW t \in Pis, Load(t)
  PROVE  IInv'
<1>1. /\ pc[t] = "load"
      /\ reg' = [reg EXCEPT ![t] = GBF[Cell(t)]]
      /\ pc' = [pc EXCEPT ![t] = "store"]
      /\ UNCHANGED <<written, taken, chunk, left, chunkArr, pos, mtxArr, GBF, joined>>
  BY DEF Load
<1>2. Cell(t) \in Cells
  BY <1>1, CellFacts
<1>3. TypeOK'
  BY <1>1, <1>2 DEF IInv, TypeOK, ThreadStates
<1>4. InItsChunk' /\ StreamPosition' /\ BufferFilled' /\ HoldsMutex' /\ JoinedAtEnd'
  BY <1>1 DEF IInv, TypeOK, InItsChunk, StreamPosition, BufferFilled, HoldsMutex, JoinedAtEnd
<1>5. NoStaleStore'
  BY <1>1 DEF IInv, TypeOK, NoStaleStore, Cell
<1>6. Contents'
  <2>1. \A k \in Pis : Xored(k)' = Xored(k)
    BY <1>1 DEF Xored, IInv, TypeOK
  <2>. QED  BY <1>1, <2>1 DEF IInv, Contents
<1>. QED  BY <1>3, <1>4, <1>5, <1>6 DEF IInv

(* The store puts the sender's block for this cell, and nothing else, into *)
(* a cell that still misses it.                                            *)
LEMMA StoreAdds ==
  ASSUME IInv, NEW t \in Pis, pc[t] = "store"
  PROVE  /\ Cell(t) \in Cells
         /\ <<t, Cell(t)>> \notin GBF[Cell(t)]
         /\ SymDiff(reg[t], {chunkArr[t][pos[t]]}) = GBF[Cell(t)] \cup {<<t, Cell(t)>>}
<1>1. /\ Cell(t) \in Cells /\ Cell(t) = Base(chunk[t]) + pos[t]
      /\ pos[t] \in 0 .. Limit(chunk[t]) - 1
      /\ chunk[t] \in Chunks /\ left[t] = 0 /\ reg[t] = GBF[Cell(t)]
  BY CellFacts DEF IInv, InItsChunk, NoStaleStore
<1>2. chunkArr[t][pos[t]] = <<t, Cell(t)>>
  <2>1. Limit(chunk[t]) \in Nat
    BY <1>1, ChunkFacts
  <2>2. pos[t] \in 0 .. Limit(chunk[t]) - left[t] - 1
    BY <1>1, <2>1
  <2>. QED  BY <1>1, <2>2 DEF IInv, BufferFilled
<1>3. Xored(t) = Cell(t) /\ Cell(t) \in Int
  BY <1>1 DEF Xored, Cells
<1>4. ~(Cell(t) < Xored(t))
  BY <1>3
<1>5. <<t, Cell(t)>> \notin GBF[Cell(t)]
  BY <1>1, <1>4 DEF IInv, Contents
<1>. QED  BY <1>1, <1>2, <1>5 DEF SymDiff

LEMMA StoreIInv ==
  ASSUME IInv, NEW t \in Pis, Store(t)
  PROVE  IInv'
<1>1. /\ pc[t] = "store"
      /\ GBF' = [GBF EXCEPT ![Cell(t)] = SymDiff(reg[t], {chunkArr[t][pos[t]]})]
      /\ pos' = [pos EXCEPT ![t] = pos[t] + 1]
      /\ pc' = [pc EXCEPT ![t] = IF pos'[t] < Limit(chunk[t]) THEN "load" ELSE "unlock"]
      /\ UNCHANGED <<written, taken, chunk, left, chunkArr, reg, mtxArr, joined>>
  BY DEF Store
<1>2. /\ Cell(t) \in Cells /\ Cell(t) = Base(chunk[t]) + pos[t]
      /\ pos[t] \in 0 .. Limit(chunk[t]) - 1
      /\ chunk[t] \in Chunks /\ left[t] = 0
      /\ Limit(chunk[t]) \in 1 .. chunk_size /\ chunk_size \in Nat
      /\ Base(chunk[t]) \in Nat
  BY <1>1, CellFacts, ChunkFacts, ChunkAssumption DEF IInv, InItsChunk
<1>3. GBF' = [GBF EXCEPT ![Cell(t)] = GBF[Cell(t)] \cup {<<t, Cell(t)>>}]
  BY <1>1, StoreAdds
<1>4. /\ pos[t] + 1 \in 0 .. Limit(chunk[t]) /\ pos'[t] = pos[t] + 1
      /\ pc'[t] = "load" => pos'[t] < Limit(chunk[t])
      /\ pc'[t] = "unlock" => pos'[t] = Limit(chunk[t])
      /\ pc'[t] \in {"load", "unlock"}
  BY <1>1, <1>2 DEF IInv, TypeOK
<1>5. TypeOK'
  <2>1. pos[t] + 1 \in 0 .. chunk_size
    BY <1>2
  <2>2. <<t, Cell(t)>> \in Blocks
    BY <1>2 DEF Blocks
  <2>3. GBF' \in [Cells -> SUBSET Blocks]
    BY <1>3, <2>2 DEF IInv, TypeOK
  <2>. QED  BY <1>1, <1>4, <2>1, <2>3 DEF IInv, TypeOK, ThreadStates
<1>6. InItsChunk'
  BY <1>1, <1>2, <1>4 DEF IInv, TypeOK, InItsChunk
<1>7. StreamPosition' /\ BufferFilled' /\ HoldsMutex' /\ JoinedAtEnd'
  BY <1>1 DEF IInv, TypeOK, StreamPosition, BufferFilled, HoldsMutex, JoinedAtEnd
<1>8. NoStaleStore'
  <2>1. ASSUME NEW k \in Pis, pc'[k] = "store"
        PROVE  reg'[k] = GBF'[Cell(k)'] 
    <3>1. k # t /\ pc[k] = "store" /\ Cell(k)' = Cell(k)
      BY <1>1, <1>4, <2>1 DEF IInv, TypeOK, Cell
    <3>2. Cell(k) # Cell(t) /\ Cell(k) \in Cells
      BY <1>1, <3>1, OwnCells, CellFacts
    <3>. QED  BY <1>1, <3>1, <3>2 DEF IInv, TypeOK, NoStaleStore
  <2>. QED  BY <2>1 DEF NoStaleStore
<1>9. Contents'
  <2>1. \A k \in Pis \ {t} : Xored(k)' = Xored(k)
    BY <1>1 DEF Xored, IInv, TypeOK
  <2>2. Xored(t) = Cell(t) /\ Xored(t)' = Cell(t) + 1
    BY <1>1, <1>2, <1>4 DEF Xored
  <2>3. ASSUME NEW c \in Cells
        PROVE  GBF'[c] = {<<k, c>> : k \in {p \in Pis : c < Xored(p)'}}
    <3>1. c \in Int /\ Cell(t) \in Int /\ GBF[c] = {<<k, c>> : k \in {p \in Pis : c < Xored(p)}}
      BY <1>2 DEF Cells, IInv, Contents
    <3>2. CASE c = Cell(t)
      <4>1. {p \in Pis : c < Xored(p)'} = {p \in Pis : c < Xored(p)} \cup {t}
        BY <2>1, <2>2, <3>1, <3>2
      <4>2. GBF'[c] = GBF[c] \cup {<<t, c>>}
        BY <1>3, <3>2 DEF IInv, TypeOK
      <4>. QED  BY <3>1, <4>1, <4>2
    <3>3. CASE c # Cell(t)
      <4>1. c < Cell(t) + 1 <=> c < Cell(t)
        BY <3>1, <3>3
      <4>2. {p \in Pis : c < Xored(p)'} = {p \in Pis : c < Xored(p)}
        BY <2>1, <2>2, <4>1
      <4>3. GBF'[c] = GBF[c]
        BY <1>3, <3>3 DEF IInv, TypeOK
      <4>. QED  BY <3>1, <4>2, <4>3
    <3>. QED  BY <3>2, <3>3
  <2>. QED  BY <2>3 DEF Contents
<1>. QED  BY <1>5, <1>6, <1>7, <1>8, <1>9 DEF IInv

(* The mutex is given back; nobody else held it.  The thread goes on with  *)
(* the next chunk, or it has read the whole filter.                        *)
LEMMA UnlockIInv ==
  ASSUME IInv, NEW t \in Pis, Unlock(t)
  PROVE  IInv'
<1>. DEFINE i == chunk[t] + 1
<1>1. /\ pc[t] = "unlock"
      /\ mtxArr' = [mtxArr EXCEPT ![chunk[t]] = Free]
      /\ UNCHANGED <<written, taken, pos, reg, GBF, joined>>
  BY DEF Unlock
<1>2. /\ chunk[t] \in Chunks /\ chunk[t] \in Nat /\ left[t] = 0
      /\ pos[t] = Limit(chunk[t]) /\ pos[t] \in Nat
      /\ Limit(chunk[t]) \in 1 .. chunk_size /\ chunk_size \in Nat
      /\ Base(chunk[t]) \in Nat
      /\ taken[t] = Base(chunk[t]) + Limit(chunk[t])
  <2>1. /\ chunk[t] \in Chunks /\ left[t] = 0 /\ pos[t] = Limit(chunk[t])
        /\ taken[t] = Base(chunk[t]) + Limit(chunk[t]) - left[t]
    BY <1>1 DEF IInv, InItsChunk, StreamPosition
  <2>. QED  BY <2>1, ChunkFacts, ChunkAssumption
<1>3. mtxArr' \in [0 .. num_of_chunks - 1 -> Pis \cup {Free}]
  BY <1>1 DEF IInv, TypeOK
<1>4. ASSUME NEW k \in Pis \ {t}, pc[k] \in {"load", "store", "unlock"}
      PROVE  mtxArr'[chunk[k]] = k
  <2>1. mtxArr[chunk[k]] = k /\ mtxArr[chunk[t]] = t
    BY <1>1, <1>4 DEF IInv, HoldsMutex
  <2>2. chunk[k] \in DOMAIN mtxArr
    BY DEF IInv, TypeOK
  <2>. QED  BY <1>1, <2>1, <2>2
<1>5. CASE i \in Chunks
  <2>1. /\ chunk' = [chunk EXCEPT ![t] = i]
        /\ left' = [left EXCEPT ![t] = Limit(i)]
        /\ chunkArr' = [chunkArr EXCEPT ![t] =
                          [j \in Buffer |-> IF j < Limit(i) THEN Zero ELSE chunkArr[t][j]]]
        /\ pc' = [pc EXCEPT ![t] = "read"]
    BY <1>5 DEF Unlock
  <2>2. /\ i \in 0 .. num_of_chunks - 1 /\ Limit(i) \in 1 .. chunk_size
        /\ Base(i) = Base(chunk[t]) + Limit(chunk[t]) /\ Base(i) \in Nat
    BY <1>2, <1>5, ChunkFacts
  <2>. HIDE DEF i
  <2>3. TypeOK'
    <3>1. Limit(i) \in 0 .. chunk_size
      BY <2>2, <1>2
    <3>2. chunkArr' \in [Pis -> [Buffer -> Blocks \cup {Zero}]]
      BY <2>1 DEF IInv, TypeOK
    <3>. QED  BY <1>1, <1>3, <2>1, <2>2, <3>1, <3>2 DEF IInv, TypeOK, ThreadStates
  <2>4. InItsChunk'
    BY <1>1, <1>5, <2>1, <2>2 DEF IInv, TypeOK, InItsChunk
  <2>5. StreamPosition'
    <3>1. taken[t] = Base(i) + Limit(i) - Limit(i)
      BY <1>2, <2>2
    <3>. QED  BY <1>1, <2>1, <3>1 DEF IInv, TypeOK, StreamPosition
  <2>6. BufferFilled'
    <3>1. \A j \in Int : j \notin 0 .. Limit(i) - Limit(i) - 1
      BY <1>2, <2>2
    <3>2. ASSUME NEW k \in Pis, pc'[k] \in {"read", "lock", "load", "store"},
                 NEW j \in 0 .. Limit(chunk'[k]) - left'[k] - 1
          PROVE  chunkArr'[k][j] = <<k, Base(chunk'[k]) + j>>
      <4>1. k # t
        BY <2>1, <3>1, <3>2 DEF IInv, TypeOK
      <4>. QED  BY <2>1, <3>2, <4>1 DEF IInv, TypeOK, BufferFilled
    <3>. QED  BY <3>2 DEF BufferFilled
  <2>7. HoldsMutex' /\ NoStaleStore' /\ JoinedAtEnd'
    BY <1>1, <1>4, <2>1 DEF IInv, TypeOK, HoldsMutex, NoStaleStore, JoinedAtEnd, Cell
  <2>8. Contents'
    <3>1. Xored(t) = Base(chunk[t]) + Limit(chunk[t]) /\ Xored(t)' = Base(i) + 0
      BY <1>1, <1>2, <2>1 DEF IInv, TypeOK, Xored
    <3>2. Xored(t)' = Xored(t)
      BY <1>2, <2>2, <3>1
    <3>3. \A k \in Pis : Xored(k)' = Xored(k)
      BY <1>1, <2>1, <3>2 DEF IInv, TypeOK, Xored
    <3>. QED  BY <1>1, <3>3 DEF IInv, Contents
  <2>. QED  BY <2>3, <2>4, <2>5, <2>6, <2>7, <2>8 DEF IInv
<1>6. CASE i \notin Chunks
  <2>1. pc' = [pc EXCEPT ![t] = "done"] /\ UNCHANGED <<chunk, left, chunkArr>>
    BY <1>6 DEF Unlock
  <2>2. TypeOK'
    BY <1>1, <1>3, <2>1 DEF IInv, TypeOK, ThreadStates
  <2>3. InItsChunk'
    BY <1>1, <1>2, <1>6, <2>1 DEF IInv, TypeOK, InItsChunk
  <2>4. StreamPosition' /\ BufferFilled'
    BY <1>1, <2>1 DEF IInv, TypeOK, StreamPosition, BufferFilled
  <2>5. HoldsMutex' /\ NoStaleStore' /\ JoinedAtEnd'
    BY <1>1, <1>4, <2>1 DEF IInv, TypeOK, HoldsMutex, NoStaleStore, JoinedAtEnd, Cell
  <2>6. Contents'
    <3>1. \A k \in Pis : Xored(k)' = Xored(k)
      BY <1>1, <2>1 DEF IInv, TypeOK, Xored
    <3>. QED  BY <1>1, <2>1, <3>1 DEF IInv, Contents
  <2>. QED  BY <2>2, <2>3, <2>4, <2>5, <2>6 DEF IInv
<1>. QED  BY <1>5, <1>6

LEMMA StepIInv == IInv /\ [Next]_vars => IInv'
<1>. SUFFICES ASSUME IInv, [Next]_vars PROVE IInv'
  OBVIOUS
<1>1. ASSUME NEW k \in Pis, Write(k) \/ Thread(k) PROVE IInv'
  BY <1>1, WriteIInv, ReadIInv, LockIInv, LoadIInv, StoreIInv, UnlockIInv DEF Thread
<1>2. CASE Join
  BY <1>2 DEF Join, threadVars, IInv, TypeOK, InItsChunk, StreamPosition, BufferFilled,
              HoldsMutex, NoStaleStore, Contents, JoinedAtEnd, Xored, Cell
<1>3. CASE UNCHANGED vars
  BY <1>3 DEF vars, IInv, TypeOK, InItsChunk, StreamPosition, BufferFilled,
              HoldsMutex, NoStaleStore, Contents, JoinedAtEnd, Xored, Cell
<1>. QED  BY <1>1, <1>2, <1>3 DEF Next, Terminated

LEMMA Invariance == Spec => []IInv
  BY InitIInv, StepIInv, PTL DEF Spec

(* The counters and buffers of the threads stay in range: no read and no   *)
(* XOR passes the end of a chunk's buffer or of the filter.                *)
THEOREM TypeCorrect == Spec => []TypeOK
<1>1. IInv => TypeOK
  BY DEF IInv
<1>. QED  BY <1>1, Invariance, PTL

(* Between the load and the store of `GBF[index] ^ toXOR[j]' no other      *)
(* thread stores to the cell: the mutex of the chunk covers all its cells. *)
THEOREM NoUpdateLost == Spec => []NoStaleStore
<1>1. IInv => NoStaleStore
  BY DEF IInv
<1>. QED  BY <1>1, Invariance, PTL

(* However read() cuts the stream, the buffer that a thread XORs holds the *)
(* sender's cells with the numbers of the cells they are XORed into.       *)
THEOREM StreamStaysAligned == Spec => []StreamAligned
<1>1. IInv => StreamAligned
  <2>. SUFFICES ASSUME IInv, NEW k \in Pis, pc[k] \in {"lock", "load", "store"},
                       NEW j \in 0 .. Limit(chunk[k]) - 1
                PROVE  chunkArr[k][j] = <<k, chunk[k] * chunk_size + j>>
    BY DEF StreamAligned
  <2>1. left[k] = 0 /\ Limit(chunk[k]) \in Nat
    BY ChunkFacts DEF IInv, InItsChunk
  <2>2. j \in 0 .. Limit(chunk[k]) - left[k] - 1
    BY <2>1
  <2>. QED  BY <2>2 DEF IInv, BufferFilled, Base
<1>. QED  BY <1>1, Invariance, PTL

-----------------------------------------------------------------------------
(* compute_gbf joins its threads only when every cell has every block.     *)
LEMMA DoneMeansComplete ==
  ASSUME IInv, \A k \in Pis : pc[k] = "done"
  PROVE  GBF = [c \in Cells |-> {<<k, c>> : k \in Pis}]
<1>1. ASSUME NEW k \in Pis PROVE Xored(k) = Nbf
  BY ChunkFacts DEF IInv, InItsChunk, Xored
<1>2. ASSUME NEW c \in Cells PROVE GBF[c] = {<<k, c>> : k \in Pis}
  <2>1. c < Nbf
    BY NbfAssumption DEF Cells
  <2>. QED  BY <1>1, <2>1 DEF IInv, Contents
<1>. QED  BY <1>2 DEF IInv, TypeOK

-----------------------------------------------------------------------------
(* A mutex that is taken belongs to a thread that is in its chunk between  *)
(* lock() and unlock().                                                    *)
InChunk(k, i) == chunk[k] = i /\ pc[k] \in {"load", "store", "unlock"}

MutexOwned == \A i \in 0 .. num_of_chunks - 1 :
  mtxArr[i] # Free => mtxArr[i] \in Pis /\ InChunk(mtxArr[i], i)

LEMMA MutexOwnedStep ==
  ASSUME IInv, MutexOwned, [Next]_vars
  PROVE  MutexOwned'
<1>. SUFFICES ASSUME NEW i \in 0 .. num_of_chunks - 1, mtxArr'[i] # Free
              PROVE  mtxArr'[i] \in Pis /\ InChunk(mtxArr[i], i)'
  BY DEF MutexOwned
<1>1. TypeOK /\ HoldsMutex
  BY DEF IInv
<1>2. ASSUME NEW k \in Pis, Lock(k) PROVE mtxArr'[i] \in Pis /\ InChunk(mtxArr[i], i)'
  <2>1. mtxArr[chunk[k]] = Free /\ mtxArr' = [mtxArr EXCEPT ![chunk[k]] = k]
        /\ pc' = [pc EXCEPT ![k] = "load"] /\ chunk' = chunk /\ pc[k] = "lock"
    BY <1>2 DEF Lock
  <2>2. CASE i = chunk[k]
    BY <1>1, <2>1, <2>2 DEF TypeOK, InChunk
  <2>3. CASE i # chunk[k]
    <3>1. mtxArr'[i] = mtxArr[i] /\ mtxArr[i] \in Pis /\ InChunk(mtxArr[i], i)
      BY <1>1, <2>1, <2>3 DEF TypeOK, MutexOwned
    <3>2. mtxArr[i] # k
      BY <2>1, <3>1 DEF InChunk
    <3>. QED  BY <1>1, <2>1, <3>1, <3>2 DEF TypeOK, InChunk
  <2>. QED  BY <2>2, <2>3
<1>3. ASSUME NEW k \in Pis, Unlock(k) PROVE mtxArr'[i] \in Pis /\ InChunk(mtxArr[i], i)'
  <2>1. pc[k] = "unlock" /\ mtxArr' = [mtxArr EXCEPT ![chunk[k]] = Free]
    BY <1>3 DEF Unlock
  <2>2. i # chunk[k] /\ mtxArr'[i] = mtxArr[i]
    BY <1>1, <2>1 DEF TypeOK
  <2>3. mtxArr[i] \in Pis /\ InChunk(mtxArr[i], i)
    BY <2>2 DEF MutexOwned
  <2>4. mtxArr[i] # k
    BY <2>2, <2>3 DEF InChunk
  <2>5. \A t \in Pis : t # k => pc'[t] = pc[t] /\ chunk'[t] = chunk[t]
    BY <1>1, <1>3 DEF Unlock, TypeOK
  <2>. QED  BY <2>2, <2>3, <2>4, <2>5 DEF InChunk
<1>4. ASSUME mtxArr' = mtxArr, chunk' = chunk,
             \A k \in Pis : pc[k] \in {"load", "store", "unlock"} => pc'[k] \in {"load", "store", "unlock"}
      PROVE  mtxArr'[i] \in Pis /\ InChunk(mtxArr[i], i)'
  <2>1. mtxArr[i] \in Pis /\ InChunk(mtxArr[i], i)
    BY <1>4 DEF MutexOwned
  <2>. QED  BY <1>4, <2>1 DEF InChunk
<1>5. ASSUME NEW k \in Pis, Write(k) \/ Read(k) \/ Load(k) \/ Store(k)
      PROVE  mtxArr'[i] \in Pis /\ InChunk(mtxArr[i], i)'
  <2>1. mtxArr' = mtxArr /\ chunk' = chunk
    BY <1>5 DEF Write, Read, Receive, Load, Store, threadVars
  <2>2. \A t \in Pis : pc[t] \in {"load", "store", "unlock"} => pc'[t] \in {"load", "store", "unlock"}
    <3>1. CASE Write(k)
      BY <3>1 DEF Write, threadVars
    <3>2. CASE Read(k)
      BY <1>1, <3>2 DEF Read, Receive, TypeOK
    <3>3. CASE Load(k) \/ Store(k)
      BY <1>1, <3>3 DEF Load, Store, TypeOK
    <3>. QED  BY <1>5, <3>1, <3>2, <3>3
  <2>. QED  BY <1>4, <2>1, <2>2
<1>6. CASE Join \/ UNCHANGED vars
  BY <1>4, <1>6 DEF Join, threadVars, vars
<1>. QED  BY <1>2, <1>3, <1>5, <1>6 DEF Next, Thread, Terminated

(* Nobody waits in vain: a thread that reads waits for bytes that are on   *)
(* the way or that the sender has still to write, and one that locks for   *)
(* another thread, which has the mutex and waits for nothing itself.       *)
NobodyWaitsInVain == \A k \in Pis :
  /\ pc[k] = "read" => taken[k] < written[k] \/ written[k] < Nbf
  /\ pc[k] = "lock" => \/ mtxArr[chunk[k]] = Free
                       \/ \E t \in Pis \ {k} : InChunk(t, chunk[k])

(* The threads of compute_gbf never wait for each other in a circle, nor   *)
(* for bytes beyond those that the senders write.                          *)
THEOREM NoDeadWait == Spec => []NobodyWaitsInVain
<1>1. Init => MutexOwned
  BY DEF Init, MutexOwned
<1>2. IInv /\ MutexOwned /\ [Next]_vars => MutexOwned'
  BY MutexOwnedStep
<1>3. IInv /\ MutexOwned => NobodyWaitsInVain
  <2>. SUFFICES ASSUME IInv, MutexOwned, NEW k \in Pis
                PROVE  /\ pc[k] = "read" => taken[k] < written[k] \/ written[k] < Nbf
                       /\ pc[k] = "lock" => \/ mtxArr[chunk[k]] = Free
                                            \/ \E t \in Pis \ {k} : InChunk(t, chunk[k])
    BY DEF NobodyWaitsInVain
  <2>1. ASSUME pc[k] = "lock", mtxArr[chunk[k]] # Free
        PROVE  \E t \in Pis \ {k} : InChunk(t, chunk[k])
    <3>1. chunk[k] \in 0 .. num_of_chunks - 1
      BY DEF IInv, TypeOK
    <3>2. mtxArr[chunk[k]] \in Pis /\ InChunk(mtxArr[chunk[k]], chunk[k])
      BY <2>1, <3>1 DEF MutexOwned
    <3>. QED  BY <2>1, <3>2 DEF InChunk
  <2>2. ASSUME pc[k] = "read" PROVE taken[k] < written[k] \/ written[k] < Nbf
    <3>1. chunk[k] \in Chunks /\ left[k] \in 1 .. Limit(chunk[k])
          /\ taken[k] = Base(chunk[k]) + Limit(chunk[k]) - left[k]
      BY <2>2 DEF IInv, InItsChunk, StreamPosition
    <3>2. Base(chunk[k]) \in Int /\ Limit(chunk[k]) \in Int
          /\ Base(chunk[k]) + Limit(chunk[k]) <= Nbf
      BY <3>1, ChunkFacts, ChunkAssumption
    <3>3. taken[k] < Nbf /\ taken[k] \in Int /\ written[k] \in Int
      BY <3>1, <3>2, NbfAssumption DEF IInv, TypeOK
    <3>. QED  BY <3>3, NbfAssumption
  <2>. QED  BY <2>1, <2>2
<1>. QED  BY <1>1, <1>2, <1>3, Invariance, PTL DEF Spec

(* What get_intersection is given has every sender's block in every cell.  *)
THEOREM HandedOverComplete ==
  Spec => [](joined => GBF = [c \in Cells |-> {<<k, c>> : k \in Pis}])
<1>1. IInv => (joined => GBF = [c \in Cells |-> {<<k, c>> : k \in Pis}])
  BY DoneMeansComplete DEF IInv, JoinedAtEnd
<1>. QED  BY <1>1, Invariance, PTL

(* A step of the threads adds one block that was missing, hands the filter *)
(* over, or does not touch it.                                             *)
LEMMA StepImplements ==
  ASSUME IInv, [Next]_vars
  PROVE  [Abstract!Next]_<<GBF, joined>>
<1>. DEFINE owed == [c \in Cells |-> {<<k, c>> : k \in Pis}]
<1>1. ASSUME NEW t \in Pis, Store(t) PROVE Abstract!Next
  <2>1. /\ pc[t] = "store" /\ UNCHANGED joined
        /\ GBF' = [GBF EXCEPT ![Cell(t)] = SymDiff(reg[t], {chunkArr[t][pos[t]]})]
    BY <1>1 DEF Store
  <2>2. /\ Cell(t) \in Cells
        /\ <<t, Cell(t)>> \notin GBF[Cell(t)]
        /\ GBF' = [GBF EXCEPT ![Cell(t)] = GBF[Cell(t)] \cup {<<t, Cell(t)>>}]
    BY <2>1, StoreAdds
  <2>3. ~joined
    BY <2>1 DEF IInv, JoinedAtEnd
  <2>4. Cell(t) \in Abstract!Cells /\ <<t, Cell(t)>> \in owed[Cell(t)]
    BY <2>2 DEF Abstract!Cells
  <2>5. Abstract!Add(Cell(t), <<t, Cell(t)>>)
    BY <2>1, <2>2, <2>3, <2>4 DEF Abstract!Add
  <2>. QED  BY <2>4, <2>5 DEF Abstract!Next
<1>2. ASSUME NEW k \in Pis, Write(k) \/ Read(k) \/ Lock(k) \/ Load(k) \/ Unlock(k)
      PROVE  UNCHANGED <<GBF, joined>>
  BY <1>2 DEF Write, Read, Receive, Lock, Load, Unlock
<1>3. CASE Join
  <2>1. Abstract!Release
    BY <1>3, DoneMeansComplete DEF Join, Abstract!Release
  <2>. QED  BY <2>1 DEF Abstract!Next
<1>4. CASE UNCHANGED vars
  BY <1>4 DEF vars
<1>. QED  BY <1>1, <1>2, <1>3, <1>4 DEF Next, Thread, Terminated

(* Step 11 implements Accumulation, but for the promise to end (which TLC  *)
(* checks with the rest of Accumulates): each cell of the filter receives  *)
(* each sender's block for it exactly once, in any order, and compute_gbf  *)
(* returns it only when none is missing.                                   *)
THEOREM AccumulatesSafely == Spec => Abstract!Safe
<1>1. Init => Abstract!Init
  BY DEF Init, Abstract!Init, Abstract!Cells
<1>2. IInv /\ [Next]_vars => [Abstract!Next]_(Abstract!accVars)
  BY StepImplements DEF Abstract!accVars
<1>. QED  BY <1>1, <1>2, Invariance, PTL DEF Spec, Abstract!Safe

=============================================================================
