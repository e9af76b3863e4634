-------------------------------- MODULE DocClaims --------------------------------
(***************************************************************************)
(* What the README, the error texts and the tests say of the service and   *)
(* the code does not keep when requests, workers and faults interleave.    *)
(* Each is refuted by a run of its own.                                    *)
(***************************************************************************)
EXTENDS Backend

\* README: PROCESSING means "Em processamento pelo worker", being processed by
\* the worker.  So some worker holds every PROCESSING entry.
ProcessingIsHeld ==
    \A e \in Entry : outbox[e].status = "PROCESSING" =>
        \E w \in Workers : claimed[w][e] # 0

\* ErrSyncAlreadyActive: "sync already pending or processing for this item".  So
\* at most one entry of an item waits or is being processed.
OneActivePerItem ==
    \A i \in Item : Cardinality({e \in EntriesOf(i) : Active(e)}) <= 1

\* ErrOrderClosed: "order is closed and cannot be modified".  So no item of a
\* closed order is written.
ClosedOrderFrozen ==
    [][\A i \in Item : orders[OrderOf[i]] = "CLOSED" => items'[i] = items[i]]_vars

\* TestOrderStatus_CanTransitionTo, "closed cannot change".  So CLOSED is the
\* last status of an order.
ClosedIsFinal ==
    [][\A o \in Order : orders[o] = "CLOSED" => orders'[o] = "CLOSED"]_vars

\* TestOrderService_UpdateItem_PromotesToUpdated: editing a SYNCED item makes
\* it UPDATED.  So an edit never leaves a new text under the status SYNCED,
\* which says that SAP has it.
EditPromotes ==
    [][\A i \in Item : items'[i].text # items[i].text =>
          items'[i].status # "SYNCED"]_vars

\* The same test, from the sync's side: what has been edited is UPDATED, that is,
\* waits to be sent.  So the step that makes an item SYNCED leaves it with a
\* text some completed entry carried.
SyncedTextSent ==
    [][\A i \in Item : items[i].status # "SYNCED" /\ items'[i].status = "SYNCED" =>
          \E e \in Entry : /\ outbox'[e].item = i /\ outbox'[e].status = "COMPLETED"
                           /\ outbox'[e].payload = items'[i].text]_vars

\* README: GET .../sync/{outboxId} "Consulta status de um envio específico",
\* the status of one particular send.  So the log it answers with agrees with
\* the entry it answers about.
StatusLogMatchesEntry ==
    \A c \in SyncClients : sreq[c].pc = "answered" =>
        /\ sreq[c].seen = "COMPLETED" => sreq[c].log = "SUCCESS"
        /\ sreq[c].seen = "FAILED" => sreq[c].log = "FAILED"
=============================================================================
