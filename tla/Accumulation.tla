---------------------------- MODULE Accumulation ----------------------------
(***************************************************************************)
(* What the garbled Bloom filter of a party promises while several threads *)
(* XOR blocks into it: every cell receives every contribution that it is   *)
(* owed exactly once, in any order, and the filter is handed over only     *)
(* when nothing is missing from it.                                        *)
(*                                                                         *)
(* A cell is the set of the atoms XORed into it.  XOR of a second copy of  *)
(* an atom would take it out again, so a behaviour in which cells only     *)
(* grow is one in which nothing is added twice.                            *)
(*                                                                         *)
(* OnlineXor (steps 7 and 10 of the program) and CumulativeGbf (step 11)   *)
(* implement this specification.                                           *)
(***************************************************************************)

CONSTANT Expected    \* function from the cells to the atoms each one is owed

VARIABLES acc,       \* cell |-> atoms XORed into it so far
          released   \* the threads were joined; the filter is used by others

accVars == <<acc, released>>

Cells == DOMAIN Expected

Init == /\ acc = [c \in Cells |-> {}]
        /\ released = FALSE

(* One block goes into one cell that still misses it.                      *)
Add(c, a) == /\ ~released
             /\ a \in Expected[c] \ acc[c]
             /\ acc' = [acc EXCEPT ![c] = @ \cup {a}]
             /\ UNCHANGED released

Release == /\ ~released
           /\ acc = Expected
           /\ released' = TRUE
           /\ UNCHANGED acc

Next == \/ \E c \in Cells : \E a \in Expected[c] : Add(c, a)
        \/ Release

(* The safety part of the specification, without the promise to end.       *)
Safe == Init /\ [][Next]_accVars

Spec == Safe /\ WF_accVars(Next)

=============================================================================
