------------------------------- MODULE SyncService -------------------------------
(***************************************************************************)
(* The sync requests: EnqueueSync, CancelSync, GetSyncStatus and           *)
(* GetLatestSyncStatus of internal/service/sync_service.go.                *)
(*                                                                         *)
(* EnqueueSync reads the order, the item and the outbox in three           *)
(* statements and then writes in one transaction, which checks nothing     *)
(* again.  CancelSync writes in one transaction whose UPDATE carries the   *)
(* status test.  Transactions are single actions, taken apart in the       *)
(* module Transactions.  sreq[c] is the handler client c waits for.        *)
(***************************************************************************)
EXTENDS Tables

CONSTANTS
    SyncClients,  \* clients that send sync requests
    SyncOps       \* the kinds of request they send

ASSUME SyncOpsAssumption == SyncOps \subseteq {"enqueue", "cancel", "status"}

VARIABLE sreq

SyncPc == {"idle", "item", "active", "commit", "cancel", "reread", "logs", "answered"}

SyncRequest == [pc      : SyncPc,
                item    : Item \cup {None},
                entry   : EntryRef,
                saw     : ItemStatus \cup {"ABSENT"},     \* item status read
                payload : Text \cup {None},               \* the XML built of it
                seen    : OutboxStatus \cup {"ABSENT"},   \* entry status read
                log     : SyncStatus \cup {"none"}]       \* latestLog answered

SyncIdle == [pc |-> "idle", item |-> None, entry |-> NoEntry, saw |-> "ABSENT",
             payload |-> None, seen |-> "ABSENT", log |-> "none"]

SyncInit == sreq = [c \in SyncClients |-> SyncIdle]

\* A handler holds what the statements still ahead of it use.
SyncHolds(r) ==
    /\ r.pc # "idle" => r.item \in Item
    /\ r.pc \in {"active", "commit"} => r.payload \in Text
    /\ r.pc \in {"cancel", "reread", "logs", "answered"} => r.entry \in Entry

SyncTypeOK ==
    /\ sreq \in [SyncClients -> SyncRequest]
    /\ \A c \in SyncClients : SyncHolds(sreq[c])

EndSync(c) == sreq' = [sreq EXCEPT ![c] = SyncIdle]
-----------------------------------------------------------------------------
\* POST .../sync

EnqueueSync(c, i) ==
    /\ "enqueue" \in SyncOps /\ sreq[c].pc = "idle"
    /\ orders[OrderOf[i]] \notin {"ABSENT", "CLOSED"}
    /\ sreq' = [sreq EXCEPT ![c] = [SyncIdle EXCEPT !.pc = "item", !.item = i]]
    /\ UNCHANGED tables

\* A delivery date in the past also ends the request here: SyncAbort.
EnqueueItem(c) ==
    /\ sreq[c].pc = "item"
    /\ LET row == items[sreq[c].item]
       IN  IF CanSync(row.status)
           THEN sreq' = [sreq EXCEPT ![c].pc = "active", ![c].saw = row.status,
                                     ![c].payload = row.text]
           ELSE EndSync(c)
    /\ UNCHANGED tables

EnqueueActive(c) ==
    /\ sreq[c].pc = "active"
    /\ IF HasActiveByItemID(sreq[c].item)
       THEN EndSync(c)
       ELSE sreq' = [sreq EXCEPT ![c].pc = "commit"]
    /\ UNCHANGED tables

\* A variant with a defect, for mutation runs only: the requeued item's update
\* is committed without the entry.
EnqueueTornTx(c) ==
    /\ sreq[c].pc = "commit"
    /\ \/ /\ sreq[c].saw = "FAILED"
          /\ items' = WithItemStatus(sreq[c].item, "UPDATED")
          /\ outbox' = outbox
       \/ /\ sreq[c].saw # "FAILED"
          /\ items' = items
          /\ \E e \in Entry :
                 /\ FreeEntry(e)
                 /\ outbox' = WithNewEntry(e, sreq[c].item, sreq[c].payload)
    /\ EndSync(c)
    /\ UNCHANGED <<orders, syncLogs, newestLog>>

EnqueueCommit(c) ==
    /\ sreq[c].pc = "commit"
    /\ items' = IF sreq[c].saw = "FAILED"
                THEN WithItemStatus(sreq[c].item, "UPDATED")
                ELSE items
    /\ \E e \in Entry :
           /\ FreeEntry(e)
           /\ outbox' = WithNewEntry(e, sreq[c].item, sreq[c].payload)
    /\ EndSync(c)
    /\ UNCHANGED <<orders, syncLogs, newestLog>>
-----------------------------------------------------------------------------
\* DELETE .../sync/{outboxId}

\* The item's existence is the only check before the transaction.
CancelSync(c, e) ==
    /\ "cancel" \in SyncOps /\ sreq[c].pc = "idle"
    /\ Created(e)
    /\ sreq' = [sreq EXCEPT ![c] = [SyncIdle EXCEPT !.pc = "cancel", !.entry = e,
                                        !.item = outbox[e].item]]
    /\ UNCHANGED tables

\* A variant with a defect, for mutation runs only: no status in the WHERE.
CancelAnyStatus(c) ==
    /\ sreq[c].pc = "cancel"
    /\ outbox' = WithEntryStatus(sreq[c].entry, "CANCELLED")
    /\ items' = WithItemStatus(sreq[c].item, "UPDATED")
    /\ EndSync(c)
    /\ UNCHANGED <<orders, syncLogs, newestLog>>

CancelCommit(c) ==
    /\ sreq[c].pc = "cancel"
    /\ outbox[sreq[c].entry].status = "PENDING"
    /\ outbox' = WithEntryStatus(sreq[c].entry, "CANCELLED")
    /\ items' = WithItemStatus(sreq[c].item, "UPDATED")
    /\ EndSync(c)
    /\ UNCHANGED <<orders, syncLogs, newestLog>>

\* The UPDATE finds no PENDING row.
CancelRefused(c) ==
    /\ sreq[c].pc = "cancel"
    /\ outbox[sreq[c].entry].status # "PENDING"
    /\ sreq' = [sreq EXCEPT ![c].pc = "reread"]
    /\ UNCHANGED tables

\* GetByID, the next statement, sees what has committed since: the answer is 409
\* for an entry that is not PENDING, 404 for one that is PENDING again.  Either
\* way the transaction rolls back.
CancelReread(c) ==
    /\ sreq[c].pc = "reread"
    /\ EndSync(c)
    /\ UNCHANGED tables

\* The entries a cancel transaction may hold the row lock of.
LockedByCancel == {sreq[c].entry : c \in {d \in SyncClients : sreq[d].pc = "cancel"}}
-----------------------------------------------------------------------------
\* GET .../sync/{outboxId} and GET .../sync: one statement for the entry and,
\* for an entry that has finished, another for the logs.

ReadEntry(c, e) ==
    /\ "status" \in SyncOps /\ sreq[c].pc = "idle"
    /\ Created(e)
    /\ sreq' = [sreq EXCEPT ![c] = [SyncIdle EXCEPT
                    !.pc = IF outbox[e].status \in {"COMPLETED", "FAILED"}
                           THEN "logs" ELSE "answered",
                    !.item = outbox[e].item, !.entry = e, !.seen = outbox[e].status]]
    /\ UNCHANGED tables

GetSyncStatus(c, e) == ReadEntry(c, e)

GetLatestSyncStatus(c, i) ==
    \E e \in EntriesOf(i) : (\A d \in EntriesOf(i) : d <= e) /\ ReadEntry(c, e)

\* logs[0] of ListByItemID: the newest log row of the ITEM.
StatusLogs(c) ==
    /\ sreq[c].pc = "logs"
    /\ LET e == newestLog[sreq[c].item]
       IN  sreq' = [sreq EXCEPT ![c].pc = "answered",
                        ![c].log = IF e = NoEntry \/ syncLogs[e] = << >> THEN "none"
                                   ELSE syncLogs[e][Len(syncLogs[e])]]
    /\ UNCHANGED tables

\* The answer is sent.
StatusAnswer(c) ==
    /\ sreq[c].pc = "answered"
    /\ EndSync(c)
    /\ UNCHANGED tables
-----------------------------------------------------------------------------
\* A statement or the transaction fails, or the client goes away: no sync
\* request has written anything before its one transaction commits.
SyncAbort(c) ==
    /\ sreq[c].pc # "idle"
    /\ EndSync(c)
    /\ UNCHANGED tables
=============================================================================
