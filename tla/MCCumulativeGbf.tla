--------------------------- MODULE MCCumulativeGbf ---------------------------
(***************************************************************************)
(* CumulativeGbf for TLC: a full chunk and a remainder, so that both       *)
(* XORchunk and XORchunk_limited run, and reads that are cut anywhere.     *)
(***************************************************************************)
EXTENDS CumulativeGbf

=============================================================================
