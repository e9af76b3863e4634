-------------------------------- MODULE MCHonesty --------------------------------
(***************************************************************************)
(* Instances of the service with the history of its edits, for TLC.        *)
(***************************************************************************)
EXTENDS MCBackend, SyncHonesty

\* Edits of one column each.
FieldEdits == {[description |-> t2, date |-> None], [description |-> None, date |-> d1]}
=============================================================================
