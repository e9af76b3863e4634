------------------------------ MODULE StatusRules ------------------------------
(***************************************************************************)
(* The status rules of internal/domain: the values a status column can     *)
(* hold and the pure functions that decide which changes are legal.        *)
(*                                                                         *)
(* The code's functions take the order's items; the rules read nothing of  *)
(* them but their statuses, so an operator here takes the SET of statuses  *)
(* the items were seen with.  An empty set is an order without items.      *)
(***************************************************************************)

OrderStatus  == {"OPEN", "IN_PROGRESS", "CLOSED"}
ItemStatus   == {"PENDING", "UPDATED", "SYNCED", "FAILED"}
OutboxStatus == {"PENDING", "PROCESSING", "COMPLETED", "FAILED", "CANCELLED"}
SyncStatus   == {"SUCCESS", "FAILED"}

\* The statuses of an entry that waits for, or is in, a delivery attempt: the
\* IN list of HasActiveByItemID.
ActiveStatus == {"PENDING", "PROCESSING"}

\* The statuses of an item a sync has settled.
TerminalItemStatus == {"SYNCED", "FAILED"}
-----------------------------------------------------------------------------
\* Variants of the rules with a defect, for mutation runs only.
AllItemsTerminalOrUpdated(seen) ==
    seen # {} /\ seen \subseteq (TerminalItemStatus \cup {"UPDATED"})

CanSyncFromPending(s) == s \in {"PENDING", "UPDATED", "FAILED"}

PromoteUnlessSynced(s) == s \in {"PENDING", "FAILED"}
-----------------------------------------------------------------------------
AllItemsTerminal(seen) == seen # {} /\ seen \subseteq TerminalItemStatus

\* A status may always be rewritten with itself, CLOSED included: the equality
\* test comes before the closed one in the code.
CanTransitionTo(s, next, seen) ==
    \/ s = next
    \/ s = "OPEN" /\ next = "IN_PROGRESS" /\ seen # {}
    \/ s = "IN_PROGRESS" /\ next = "CLOSED" /\ AllItemsTerminal(seen)

CanSync(s) == s \in {"UPDATED", "FAILED"}

ShouldPromoteOnEdit(s) == s \in {"PENDING", "SYNCED", "FAILED"}
=============================================================================
