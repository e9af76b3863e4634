------------------------------- MODULE MCOverlaps -------------------------------
(***************************************************************************)
(* Instances of the service with the history of its overlaps, for TLC.     *)
(***************************************************************************)
EXTENDS MCBackend, Overlaps
=============================================================================
