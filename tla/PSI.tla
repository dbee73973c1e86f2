--------------------------------- MODULE PSI ---------------------------------
(***************************************************************************)
(* What a run of the program promises its users: P0 prints, at most once,  *)
(* a set of items between two bounds that the data and the hash functions  *)
(* fix.  The bounds differ because a Bloom filter may take an item for     *)
(* another, and because a party leaves an item out when it has no cell     *)
(* left for it.                                                            *)
(***************************************************************************)
VARIABLES sure,        \* items that have to be printed
          possible,    \* items that may be printed
          printed      \* the sets that P0 has printed

vars == <<sure, possible, printed>>

Init == sure \subseteq possible /\ printed = <<>>

Announce ==
  /\ printed = <<>>
  /\ \E S \in SUBSET possible : sure \subseteq S /\ printed' = <<S>>
  /\ UNCHANGED <<sure, possible>>

Spec == Init /\ [][Announce]_vars

=============================================================================
