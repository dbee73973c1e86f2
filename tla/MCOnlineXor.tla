----------------------------- MODULE MCOnlineXor -----------------------------
(***************************************************************************)
(* OnlineXor for TLC, with the mutants of its properties.  A Pi has one    *)
(* link and four queues; P0 has a link per other party.                    *)
(***************************************************************************)
EXTENDS OnlineXor, TLC

LinkSymmetry == Permutations(Links)

=============================================================================
