------------------------------ MODULE Codewords ------------------------------
(***************************************************************************)
(* A Pi from the Bloom filter (BloomFilter) to the filter it sends to P0:  *)
(* the codeword of an item is the sum of its cells in the GBF of the       *)
(* online phase, M1 (get_Y); re_randomization makes a new GBF with the     *)
(* same codewords and random contents otherwise.  An item is left out when *)
(* no cell of it is free; a cell is taken for free when it holds zero.     *)
(***************************************************************************)
EXTENDS BloomFilter, Blocks

CONSTANT Bits            \* the bits of a block

AllBlocks == SUBSET Bits

VARIABLES step,          \* "bloom", "fill", "rest", "done"
          M1, Y,         \* the GBF of the online phase, the codewords
          GBF, item,     \* the new GBF, the item that is next
          leftOut,       \* items printed to be "out of bound"
          zeroed         \* cells of items that were given a zero block (history)

codeVars == <<step, M1, Y, GBF, item, leftOut, zeroed>>
vars     == <<bloomVars, codeVars>>

Empty == [c \in Cells |-> Zero]

Init == /\ BloomInit
        /\ step = "bloom"
        /\ M1 = Empty /\ Y = [i \in Items |-> Zero]
        /\ GBF = Empty /\ item = 0
        /\ leftOut = {} /\ zeroed = {}

Bloom == (JoinBloom \/ \E t \in BfWorkers : Hash(t)) /\ UNCHANGED codeVars

(* get_Y, and the new GBF set to zeros; whatever M1 the online phase left. *)
GetY == /\ step = "bloom" /\ joined
        /\ step' = "fill"
        /\ M1' \in [Cells -> AllBlocks]
        /\ Y' = [i \in Items |-> SumOver(M1', h_kokhav[i])]
        /\ UNCHANGED <<bloomVars, GBF, item, leftOut, zeroed>>

Write(gbf) ==
  /\ GBF' = gbf
  /\ zeroed' = zeroed \cup Empties(gbf, UNION {h_kokhav[i] : i \in 0 .. item})

(* Mutant of LeaveOut: the next items are given up as well.                *)
LeaveOut_Stops == /\ step = "fill" /\ item < len
                  /\ Empties(GBF, h_kokhav[item]) = {}
                  /\ leftOut' = leftOut \cup (item .. len - 1)
                  /\ item' = len
                  /\ UNCHANGED <<bloomVars, step, M1, Y, GBF, zeroed>>

(* finalInd is -1 after the loop over the cells of the item.               *)
LeaveOut == /\ step = "fill" /\ item < len
            /\ Empties(GBF, h_kokhav[item]) = {}
            /\ leftOut' = leftOut \cup {item}
            /\ item' = item + 1
            /\ UNCHANGED <<bloomVars, step, M1, Y, GBF, zeroed>>

Fill == /\ step = "fill" /\ item < len
        /\ Empties(GBF, h_kokhav[item]) # {}
        /\ \E rnd \in [ForRandom(GBF, h_kokhav[item]) -> AllBlocks] :
             Write(Filled(GBF, h_kokhav[item], Y[item], rnd))
        /\ item' = item + 1
        /\ UNCHANGED <<bloomVars, step, M1, Y, leftOut>>

EndFill == /\ step = "fill" /\ item = len
           /\ step' = "rest"
           /\ UNCHANGED <<bloomVars, M1, Y, GBF, item, leftOut, zeroed>>

(* The cells that are still empty get random blocks.                       *)
FillRest == /\ step = "rest"
            /\ \E rnd \in [Empties(GBF, Cells) -> AllBlocks] :
                 GBF' = [c \in Cells |-> IF c \in DOMAIN rnd THEN rnd[c] ELSE GBF[c]]
            /\ step' = "done"
            /\ UNCHANGED <<bloomVars, M1, Y, item, leftOut, zeroed>>

Terminated == step = "done" /\ UNCHANGED vars

Next == Bloom \/ GetY \/ LeaveOut \/ Fill \/ EndFill \/ FillRest \/ Terminated

Spec == Init /\ [][Next]_vars

-----------------------------------------------------------------------------
TypeOK == /\ BloomTypeOK
          /\ step \in {"bloom", "fill", "rest", "done"}
          /\ M1 \in [Cells -> AllBlocks] /\ Y \in [Items -> AllBlocks]
          /\ GBF \in [Cells -> AllBlocks]
          /\ item \in 0 .. len /\ leftOut \subseteq 0 .. item - 1
          /\ zeroed \subseteq Cells

(* Whatever is written for later items and into the rest of the cells, the *)
(* cells of an item that was not left out sum to its codeword.  A block of *)
(* zeros in a cell in use makes it look free; that spoils no item but      *)
(* those that hash to this cell.                                           *)
Spoiled(i) == h_kokhav[i] \cap zeroed # {}
CodewordsHold == \A i \in (0 .. item - 1) \ leftOut :
  ~Spoiled(i) => SumOver(GBF, h_kokhav[i]) = Y[i]

(* An item is left out only when all its cells belong to earlier items (so *)
(* a second copy of an item is left out, and harmless), and then always,   *)
(* unless one of its own cells was given a block of zeros.                 *)
Covered(i) == h_kokhav[i] \subseteq UNION {h_kokhav[j] : j \in 0 .. i - 1}
LeftOutWhenCovered ==
  /\ \A i \in leftOut : Covered(i)
  /\ \A i \in 0 .. item - 1 : Covered(i) /\ ~Spoiled(i) => i \in leftOut

=============================================================================
