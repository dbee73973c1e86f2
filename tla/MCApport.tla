------------------------------- MODULE MCApport -------------------------------
(***************************************************************************)
(* Apport for TLC: sub groups that are accepted and one size that is not,  *)
(* vectors that are long enough, too short for the filter, and too short   *)
(* to be shuffled.                                                         *)
(***************************************************************************)
EXTENDS Apport

=============================================================================
