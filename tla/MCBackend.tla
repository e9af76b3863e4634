-------------------------------- MODULE MCBackend --------------------------------
(***************************************************************************)
(* Instances of the service for TLC.                                      *)
(***************************************************************************)
EXTENDS DocClaims, TLC

CONSTANTS o1, i1, i2, t1, t2, d1, d2

\* Both items belong to the one order.
MCOrderOf == [i \in Item |-> o1]

\* Contents, and the edits that set both columns.
FirstText == [description |-> t1, date |-> d1]
WholeEdits == Text

\* Nothing yet.
EmptyOrders == [o \in Order |-> "ABSENT"]
EmptyItems  == [i \in Item |-> "ABSENT"]

\* An order in progress whose items have been edited.
StartedOrders == [o \in Order |-> "IN_PROGRESS"]
UpdatedItems  == [i \in Item |-> "UPDATED"]

\* The clients of one kind and the workers do not differ.
ClientsAndWorkers ==
    Permutations(OrderClients) \cup Permutations(SyncClients) \cup Permutations(Workers)
=============================================================================
