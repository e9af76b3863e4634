----------------------------- MODULE MCTransactions -----------------------------
(***************************************************************************)
(* Instances of the service with its transactions taken apart, for TLC.    *)
(***************************************************************************)
EXTENDS MCBackend, Transactions
=============================================================================
