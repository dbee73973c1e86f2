--------------------------- MODULE MCSeedAgreement ---------------------------
(***************************************************************************)
(* SeedAgreement, with Setup below it, for TLC.  Of four parties one       *)
(* accepts two others, one connects and accepts, one only connects.        *)
(***************************************************************************)
EXTENDS SeedAgreement

=============================================================================
