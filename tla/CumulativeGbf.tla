---------------------------- MODULE CumulativeGbf ----------------------------
(***************************************************************************)
(* Step 11 of the program: every Pi writes its garbled Bloom filter to P0  *)
(* (comulative_gbf_pi); one thread of P0 per Pi reads it chunk by chunk    *)
(* from a socket that delivers it in pieces, and XORs each chunk into the  *)
(* filter that the threads share, under the mutex of that chunk            *)
(* (compute_gbf, get_gbf, XORchunk, XORchunk_limited).                     *)
(*                                                                         *)
(* A block is an atom <<k, c>>: what Pi k has in cell c.  The update of a  *)
(* cell is split into its load and its store.                              *)
(***************************************************************************)
EXTENDS Integers, FiniteSets, FiniteSetsExt

CONSTANTS Pis,         \* the other parties
          Nbf,         \* cells of the filter
          chunk_size   \* cells per chunk (256 in main)

ASSUME PisAssumption   == IsFiniteSet(Pis) /\ Pis # {}
ASSUME NbfAssumption   == Nbf \in Nat \ {0}
ASSUME ChunkAssumption == chunk_size \in Nat \ {0}

Cells  == 0 .. Nbf - 1
Blocks == Pis \X Cells
Zero   == <<>>            \* what memset leaves in a block
Free   == <<>>            \* the holder of an unlocked mutex

ASSUME FreeAssumption == Free \notin Pis

VARIABLES written,   \* Pi |-> cells it has written to its socket
          taken,     \* Pi |-> cells P0's thread has read from it
          pc,        \* Pi |-> where P0's thread for it is
          chunk,     \* Pi |-> the chunk the thread works on (i in get_gbf)
          left,      \* Pi |-> cells the current read still wants
          chunkArr,  \* Pi |-> the thread's buffer
          pos,       \* Pi |-> next cell of the chunk to XOR (j in XORchunk)
          reg,       \* Pi |-> the cell it loaded
          mtxArr,    \* chunk |-> thread that holds its mutex
          GBF,       \* cell |-> atoms XORed into it in this step
          joined     \* compute_gbf joined its threads

threadVars == <<pc, chunk, pos, reg>>
vars == <<written, taken, pc, chunk, left, chunkArr, pos, reg, mtxArr, GBF, joined>>

-----------------------------------------------------------------------------
(* synchGBF(Nbf, chunks).                                                  *)
num_of_chunks == Nbf \div chunk_size + 1

(* Mutant of Chunks: the remainder of the filter is never read.            *)
Chunks_NoRemainder == 0 .. (Nbf \div chunk_size) - 1

(* The chunks get_gbf asks for: the full ones, and what is left if any.    *)
Chunks == 0 .. (Nbf \div chunk_size) - (IF Nbf % chunk_size = 0 THEN 1 ELSE 0)

(* Mutant of Limit: the remainder is read like a full chunk.               *)
Limit_Full(i) == chunk_size

(* The cells of chunk i.                                                   *)
Limit(i) == IF i < Nbf \div chunk_size THEN chunk_size ELSE Nbf - i * chunk_size

Cell(k) == chunk[k] * chunk_size + pos[k]

Buffer == 0 .. chunk_size - 1

-----------------------------------------------------------------------------
Init == /\ written  = [k \in Pis |-> 0]
        /\ taken    = [k \in Pis |-> 0]
        /\ pc       = [k \in Pis |-> "read"]
        /\ chunk    = [k \in Pis |-> 0]
        /\ left     = [k \in Pis |-> Limit(0)]
        /\ chunkArr = [k \in Pis |-> [j \in Buffer |-> Zero]]
        /\ pos      = [k \in Pis |-> 0]
        /\ reg      = [k \in Pis |-> {}]
        /\ mtxArr   = [i \in 0 .. num_of_chunks - 1 |-> Free]
        /\ GBF      = [c \in Cells |-> {}]
        /\ joined   = FALSE

(* write_as_a_sender(GBF1, ...): a turn of its loop accepts part of it.    *)
Write(k) == /\ \E n \in 1 .. Nbf - written[k] :
                  written' = [written EXCEPT ![k] = @ + n]
            /\ UNCHANGED <<taken, threadVars, left, chunkArr, mtxArr, GBF, joined>>

(* n cells arrive, and the buffer is filled from cell `at' on.             *)
Receive(k, n, at) ==
  /\ taken' = [taken EXCEPT ![k] = @ + n]
  /\ left' = [left EXCEPT ![k] = @ - n]
  /\ chunkArr' = [chunkArr EXCEPT ![k] =
                    [j \in Buffer |-> IF j \in at .. at + n - 1
                                      THEN <<k, taken[k] + j - at>> ELSE @[j]]]
  /\ pc' = [pc EXCEPT ![k] = IF left'[k] = 0 THEN "lock" ELSE @]
  /\ UNCHANGED <<written, chunk, pos, reg, mtxArr, GBF, joined>>

(* Mutants of Read: every turn asks for the whole chunk; every turn stores *)
(* at the start of the buffer.                                             *)
Read_WholeChunk(k) ==
  /\ pc[k] = "read"
  /\ \E n \in 1 .. Min({chunk_size, written[k] - taken[k]}) :
        Receive(k, n, Limit(chunk[k]) - left[k])
Read_AtStart(k) ==
  /\ pc[k] = "read"
  /\ \E n \in 1 .. Min({left[k], written[k] - taken[k]}) : Receive(k, n, 0)

(* read_as_a_receiver: a turn of its loop takes what has arrived, at most  *)
(* what is left.                                                           *)
Read(k) ==
  /\ pc[k] = "read"
  /\ \E n \in 1 .. Min({left[k], written[k] - taken[k]}) :
        Receive(k, n, Limit(chunk[k]) - left[k])

(* Mutant of Lock: no mutex.                                               *)
Lock_None(k) == /\ pc[k] = "lock"
                /\ pc' = [pc EXCEPT ![k] = "load"]
                /\ pos' = [pos EXCEPT ![k] = 0]
                /\ UNCHANGED <<written, taken, chunk, left, chunkArr, reg, mtxArr, GBF, joined>>

(* mtxArr[chunk_num].lock().                                               *)
Lock(k) == /\ pc[k] = "lock"
           /\ mtxArr[chunk[k]] = Free
           /\ mtxArr' = [mtxArr EXCEPT ![chunk[k]] = k]
           /\ pc' = [pc EXCEPT ![k] = "load"]
           /\ pos' = [pos EXCEPT ![k] = 0]
           /\ UNCHANGED <<written, taken, chunk, left, chunkArr, reg, GBF, joined>>

(* GBF[index] = GBF[index] ^ toXOR[j]: the load, then the store.           *)
Load(k) == /\ pc[k] = "load"
           /\ reg' = [reg EXCEPT ![k] = GBF[Cell(k)]]
           /\ pc' = [pc EXCEPT ![k] = "store"]
           /\ UNCHANGED <<written, taken, chunk, left, chunkArr, pos, mtxArr, GBF, joined>>

Store(k) == /\ pc[k] = "store"
            /\ GBF' = [GBF EXCEPT ![Cell(k)] = SymDiff(reg[k], {chunkArr[k][pos[k]]})]
            /\ pos' = [pos EXCEPT ![k] = @ + 1]
            /\ pc' = [pc EXCEPT ![k] = IF pos'[k] < Limit(chunk[k]) THEN "load" ELSE "unlock"]
            /\ UNCHANGED <<written, taken, chunk, left, chunkArr, reg, mtxArr, joined>>

(* mtxArr[chunk_num].unlock(); then the next read, whose memset clears the *)
(* part of the buffer it is going to fill.                                 *)
Unlock(k) ==
  LET i == chunk[k] + 1 IN
  /\ pc[k] = "unlock"
  /\ mtxArr' = [mtxArr EXCEPT ![chunk[k]] = Free]
  /\ \/ /\ i \in Chunks
        /\ chunk' = [chunk EXCEPT ![k] = i]
        /\ left' = [left EXCEPT ![k] = Limit(i)]
        /\ chunkArr' = [chunkArr EXCEPT ![k] =
                          [j \in Buffer |-> IF j < Limit(i) THEN Zero ELSE @[j]]]
        /\ pc' = [pc EXCEPT ![k] = "read"]
     \/ /\ i \notin Chunks
        /\ pc' = [pc EXCEPT ![k] = "done"]
        /\ UNCHANGED <<chunk, left, chunkArr>>
  /\ UNCHANGED <<written, taken, pos, reg, GBF, joined>>

(* compute_gbf joins the threads and hands the filter to get_intersection. *)
Join == /\ ~joined
        /\ \A k \in Pis : pc[k] = "done"
        /\ joined' = TRUE
        /\ UNCHANGED <<written, taken, threadVars, left, chunkArr, mtxArr, GBF>>

Thread(k) == Read(k) \/ Lock(k) \/ Load(k) \/ Store(k) \/ Unlock(k)

Terminated == joined /\ UNCHANGED vars

Next == \/ \E k \in Pis : Write(k) \/ Thread(k)
        \/ Join
        \/ Terminated

(* The peers keep writing, the scheduler runs every thread, and a mutex    *)
(* that is free while a thread waits for it is taken.                      *)
Fairness == /\ \A k \in Pis : WF_vars(Write(k)) /\ WF_vars(Thread(k))
            /\ WF_vars(Join)

Spec == Init /\ [][Next]_vars /\ Fairness

-----------------------------------------------------------------------------
ThreadStates == {"read", "lock", "load", "store", "unlock", "done"}

TypeOK == /\ written  \in [Pis -> 0 .. Nbf]
          /\ taken    \in [Pis -> 0 .. Nbf]
          /\ pc       \in [Pis -> ThreadStates]
          /\ chunk    \in [Pis -> 0 .. num_of_chunks - 1]
          /\ left     \in [Pis -> 0 .. chunk_size]
          /\ chunkArr \in [Pis -> [Buffer -> Blocks \cup {Zero}]]
          /\ pos      \in [Pis -> 0 .. chunk_size]
          /\ reg      \in [Pis -> SUBSET Blocks]
          /\ mtxArr   \in [0 .. num_of_chunks - 1 -> Pis \cup {Free}]
          /\ GBF      \in [Cells -> SUBSET Blocks]
          /\ joined   \in BOOLEAN

(* What a thread loaded from a cell is still there when it stores: no      *)
(* other thread's block gets lost between the two.                         *)
NoStaleStore == \A k \in Pis : pc[k] = "store" => reg[k] = GBF[Cell(k)]

(* However the socket cuts the stream, the cells of a chunk that a thread  *)
(* XORs are the sender's cells with the same numbers.                      *)
StreamAligned ==
  \A k \in Pis : pc[k] \in {"lock", "load", "store"} =>
    \A j \in 0 .. Limit(chunk[k]) - 1 :
        chunkArr[k][j] = <<k, chunk[k] * chunk_size + j>>

(* Every thread gets its whole filter and ends.                            *)
Completes == <>joined

(* Each cell receives each sender's block for that cell exactly once, and  *)
(* compute_gbf returns the filter only then.                               *)
Abstract == INSTANCE Accumulation WITH
              Expected <- [c \in Cells |-> {<<k, c>> : k \in Pis}],
              acc <- GBF, released <- joined
Accumulates == Abstract!Spec

=============================================================================
