----------------------------- MODULE MCCodewords -----------------------------
(***************************************************************************)
(* Codewords, with BloomFilter below it, for TLC: up to three items on     *)
(* three cells, so that ranges of no item, of one and of the rest occur,   *)
(* and items that share some cells, or all.                                *)
(***************************************************************************)
EXTENDS Codewords

=============================================================================
