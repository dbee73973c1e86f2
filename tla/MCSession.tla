------------------------------ MODULE MCSession ------------------------------
(***************************************************************************)
(* Session for TLC: P0 and two other parties, so that a check that fails   *)
(* on one link meets threads of other links and of other processes.        *)
(***************************************************************************)
EXTENDS Session

=============================================================================
