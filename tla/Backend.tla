--------------------------------- MODULE Backend ---------------------------------
(***************************************************************************)
(* The running service: clients of the HTTP API and outbox workers over    *)
(* one database and one SAP system, and the properties of the whole.       *)
(***************************************************************************)
EXTENDS OrderService, SyncService, OutboxWorker

vars == <<tables, oreq, sreq, workerVars, sapVars>>

Init == TablesInit /\ OrderInit /\ SyncInit /\ WorkerInit

OrderNext(c) ==
    \/ \E o \in Order : CreateOrder(c, o)
    \/ \E o \in Order, s \in OrderStatus : UpdateOrder(c, o, s)
    \/ UpdateOrderListItems(c)
    \/ UpdateOrderWrite(c)
    \/ \E i \in Item, t \in Text : AddItem(c, i, t)
    \/ AddItemInsert(c)
    \/ AddItemPromote(c)
    \/ \E i \in Item, t \in Edits : UpdateItem(c, i, t)
    \/ UpdateItemRead(c)
    \/ UpdateItemCurrent(c)
    \/ UpdateItemWrite(c)
    \/ OrderAbort(c)

SyncNext(c) ==
    \/ \E i \in Item : EnqueueSync(c, i)
    \/ EnqueueItem(c)
    \/ EnqueueActive(c)
    \/ EnqueueCommit(c)
    \/ \E e \in Entry : CancelSync(c, e)
    \/ CancelCommit(c)
    \/ CancelRefused(c)
    \/ CancelReread(c)
    \/ \E e \in Entry : GetSyncStatus(c, e)
    \/ \E i \in Item : GetLatestSyncStatus(c, i)
    \/ StatusLogs(c)
    \/ StatusAnswer(c)
    \/ SyncAbort(c)

\* Claims meet the rows locked by any part of the cancels in flight.
Claim(w) == \E locked \in SUBSET LockedByCancel : ClaimPending(w, locked)

Call(w) == \E e \in Entry, outcome \in Answer \ {"none"}, applied \in BOOLEAN :
              CallSAP(w, e, outcome, applied)

RecordOutcome(w) == RecordAccepted(w) \/ RecordRejected(w) \/ RecordError(w)

WorkerNext(w) ==
    \/ Claim(w)
    \/ \E locked \in SUBSET LockedByCancel : ClaimLost(w, locked)
    \/ Call(w)
    \/ RecordAccepted(w)
    \/ RecordRejected(w)
    \/ RecordError(w)
    \/ RecordFails(w)
    \/ Crash(w)

Next ==
    \/ \E c \in OrderClients : OrderNext(c) /\ UNCHANGED <<sreq, workerVars, sapVars>>
    \/ \E c \in SyncClients : SyncNext(c) /\ UNCHANGED <<oreq, workerVars, sapVars>>
    \/ \E w \in Workers : WorkerNext(w) /\ UNCHANGED <<oreq, sreq>>

Spec == Init /\ [][Next]_vars
-----------------------------------------------------------------------------
\* Every variable holds values its column, struct or program counter can hold;
\* in particular an inserted item takes a status the CHECKless column knows.
TypeOK == TablesTypeOK /\ OrderTypeOK /\ SyncTypeOK /\ WorkerTypeOK
-----------------------------------------------------------------------------
(* The outbox and its workers. *)

\* An entry that waits can still be claimed: a PENDING row with no attempt
\* left would wait for ever, for ClaimPending never selects it.
PendingIsClaimable ==
    \A e \in Entry : outbox[e].status = "PENDING" => outbox[e].attempts < MaxAttempts

\* A worker's batch is its own: every entry it holds is PROCESSING, with the
\* attempts it was claimed with, and no other worker holds it.  This is what
\* lets Record write the entry WHERE id = $1 without a test of its status.
ClaimExclusive ==
    \A w \in Workers, e \in Entry : claimed[w][e] # 0 =>
        /\ outbox[e].status = "PROCESSING"
        /\ outbox[e].attempts = claimed[w][e]
        /\ \A v \in Workers \ {w} : claimed[v][e] = 0

\* Every attempt that has ended left exactly one row in sap_sync_logs, and
\* only a COMPLETED entry has a SUCCESS row, as its last.
AuditComplete ==
    \A e \in Entry :
        /\ Len(syncLogs[e]) =
               outbox[e].attempts - (IF outbox[e].status = "PROCESSING" THEN 1 ELSE 0)
        /\ outbox[e].status = "COMPLETED" =>
               Len(syncLogs[e]) > 0 /\ syncLogs[e][Len(syncLogs[e])] = "SUCCESS"
        /\ \A n \in 1 .. Len(syncLogs[e]) : syncLogs[e][n] = "SUCCESS" =>
               n = Len(syncLogs[e]) /\ outbox[e].status = "COMPLETED"

\* SAP is called at most once for each attempt counted, whatever fails: with
\* max_attempts this bounds the duplicates SAP can receive for an entry.
CallsWithinAttempts == \A e \in Entry : calls[e] <= outbox[e].attempts

\* A finished entry stays as it is: a late worker never completes a cancelled
\* entry and a cancel never takes back a settled one.
TerminalEntriesFinal ==
    [][\A e \in Entry :
          outbox[e].status \in {"COMPLETED", "FAILED", "CANCELLED"} =>
              outbox'[e] = outbox[e]]_vars

\* Where nobody edits, an item leaves FAILED or SYNCED only together with a
\* change of one of its entries: a reset to UPDATED without an entry queued,
\* requeued or cancelled in the same commit would be a sync nobody sends.
NoSilentReset ==
    [][\A i \in Item :
          items[i].status \in TerminalItemStatus /\ items'[i].status = "UPDATED" =>
              \E e \in Entry :
                  /\ outbox'[e].item = i
                  /\ outbox'[e].status \in {"PENDING", "CANCELLED"}
                  /\ outbox'[e] # outbox[e]]_vars

\* A cancel is refused only for an entry a worker has had or another cancel has
\* withdrawn, even when the second read finds it PENDING: nobody is told 409 or
\* 404 about an entry that only ever waited.
RefusedWasTaken ==
    \A c \in SyncClients : sreq[c].pc = "reread" =>
        outbox[sreq[c].entry].attempts > 0 \/ outbox[sreq[c].entry].status = "CANCELLED"

\* A status answer about a finished entry carries a log row, for the two are
\* written in one transaction and read in the opposite order.
FinishedStatusHasLog ==
    \A c \in SyncClients :
        sreq[c].pc = "answered" /\ sreq[c].seen \in {"COMPLETED", "FAILED"} =>
            sreq[c].log # "none"

phase ==
    [e \in Entry |->
        CASE outbox[e].status = "ABSENT"     -> "none"
          [] outbox[e].status = "PENDING"    -> "waiting"
          [] outbox[e].status = "PROCESSING" -> "trying"
          [] outbox[e].status = "COMPLETED"  -> "delivered"
          [] outbox[e].status = "FAILED"     -> "given_up"
          [] outbox[e].status = "CANCELLED"  -> "withdrawn"]

Contract == INSTANCE DeliveryContract
                WITH MaxTries <- MaxAttempts, verdicts <- syncLogs,
                     tries <- [e \in Entry |-> outbox[e].attempts]

\* The outbox implements the delivery contract.
ImplementsContract == Contract!Spec
-----------------------------------------------------------------------------
(* Orders and items under any interleaving of requests. *)

\* An order leaves OPEN only once it has an item, though AddItem and
\* UpdateOrder write the status without looking at the items again.
NonOpenOrderHasItems ==
    \A o \in Order : orders[o] \in {"IN_PROGRESS", "CLOSED"} => ItemsOf(o) # {}

\* An item nobody has edited is never sent: no entry exists for a PENDING
\* item, although status tests and writes are statements apart.
PendingItemUntouched ==
    \A i \in Item : items[i].status \in {"ABSENT", "PENDING"} => EntriesOf(i) = {}

\* SYNCED and FAILED are never made up, not even by an edit that writes back a
\* status read long before: some entry of the item was logged accordingly.
TerminalItemHasEvidence ==
    \A i \in Item :
        /\ items[i].status = "SYNCED" =>
               \E e \in EntriesOf(i) : outbox[e].status = "COMPLETED"
        /\ items[i].status = "FAILED" =>
               \E e \in EntriesOf(i) : \E n \in 1 .. Len(syncLogs[e]) :
                   syncLogs[e][n] = "FAILED"

\* The changes of an order's status the domain knows.
LegalStep(old, new) ==
    <<old, new>> \in {<<"ABSENT", "OPEN">>, <<"OPEN", "IN_PROGRESS">>, <<"IN_PROGRESS", "CLOSED">>}

\* The handler writes the order in this step, over a status it has not read.
Overtakes(c, o) ==
    /\ oreq[c].pc \in {"write", "promote"} /\ oreq[c].order = o /\ oreq'[c] # oreq[c]
    /\ oreq[c].saw # orders[o]

\* An order's status changes only along OPEN, IN_PROGRESS, CLOSED.  The write
\* names the order by id alone, so it may land on a status another request has
\* written meanwhile, but the status it writes is still one that was legal from
\* the one its handler has read.
LegalOrderSteps ==
    [][\A o \in Order : orders'[o] # orders[o] =>
          \/ LegalStep(orders[o], orders'[o])
          \/ \E c \in OrderClients :
                 /\ Overtakes(c, o)
                 /\ \/ orders'[o] = oreq[c].saw
                    \/ LegalStep(oreq[c].saw, orders'[o])]_vars
=============================================================================
