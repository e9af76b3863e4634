------------------------------ MODULE Transactions ------------------------------
(***************************************************************************)
(* The service with its three transactions taken apart: EnqueueSync's,     *)
(* CancelSync's and the worker's, statement by statement under             *)
(* PoolTransactor.WithTransaction, with the row locks PostgreSQL holds     *)
(* from an UPDATE to the end of its transaction.                           *)
(*                                                                         *)
(* The tables of Backend are the committed rows.  tx[p] is the transaction *)
(* p has open: the row versions it has written, which are locked, and      *)
(* whether it has inserted its log row.  The commit makes them the         *)
(* committed rows; a rollback forgets them.  At READ COMMITTED a statement *)
(* sees committed rows, and an UPDATE waits for the lock of a row it finds *)
(* and tests the row again when it gets it.                                *)
(*                                                                         *)
(* An INSERT locks the item only against a change of its key, which nobody *)
(* makes, so inserts never wait.  A statement outside a transaction holds  *)
(* its lock no longer than its own action.                                 *)
(***************************************************************************)
EXTENDS Backend

ASSUME ProcessesAssumption == SyncClients \cap Workers = {}

VARIABLE tx

txVars == <<vars, tx>>

Process == SyncClients \cup Workers

Transaction == [log   : BOOLEAN,
                item  : Item \cup {None},      row     : ItemRow \cup {None},
                entry : EntryRef,              version : OutboxRow]

NoTransaction == [log |-> FALSE, item |-> None, row |-> None,
                  entry |-> NoEntry, version |-> NoRow]

TxInit == Init /\ tx = [p \in Process |-> NoTransaction]

TxTypeOK == tx \in [Process -> Transaction]

ItemLocked(i)  == \E p \in Process : tx[p].item = i
EntryLocked(e) == \E p \in Process : tx[p].entry = e
-----------------------------------------------------------------------------
\* A variant with a defect, for mutation runs only: the worker writes the item
\* as it was sent.
UpdateItemAsSent(p, i, status) ==
    /\ ~ItemLocked(i)
    /\ tx' = [tx EXCEPT ![p].item = i,
                        ![p].row = [status |-> status,
                                    text   |-> IF p \in Workers THEN outbox[current[p]].payload
                                               ELSE items[i].text]]

\* UPDATE ... SET status of an item and of an entry, in p's transaction.
UpdateItemStatus(p, i, status) ==
    /\ ~ItemLocked(i)
    /\ tx' = [tx EXCEPT ![p].item = i, ![p].row = [items[i] EXCEPT !.status = status]]

UpdateEntryStatus(p, e, status) ==
    /\ ~EntryLocked(e)
    /\ tx' = [tx EXCEPT ![p].entry = e,
                        ![p].version = [outbox[e] EXCEPT !.status = status]]

CommittedItems(p) ==
    IF tx[p].item = None THEN items ELSE [items EXCEPT ![tx[p].item] = tx[p].row]

CommittedOutbox(p) ==
    IF tx[p].entry = NoEntry THEN outbox ELSE [outbox EXCEPT ![tx[p].entry] = tx[p].version]

Close(p) == tx' = [tx EXCEPT ![p] = NoTransaction]

\* The deferred Rollback.
Rollback(p) == Close(p)
-----------------------------------------------------------------------------
\* EnqueueSync: a FAILED item is requeued, then the entry is inserted.

EnqueueRequeue(c) ==
    /\ sreq[c].pc = "commit" /\ sreq[c].saw = "FAILED"
    /\ tx[c].item = None
    /\ UpdateItemStatus(c, sreq[c].item, "UPDATED")
    /\ UNCHANGED vars

EnqueueInsert(c) ==
    /\ sreq[c].pc = "commit"
    /\ sreq[c].saw = "FAILED" => tx[c].item # None
    /\ \E e \in Entry :
           /\ FreeEntry(e)
           /\ outbox' = WithNewEntry(e, sreq[c].item, sreq[c].payload)
    /\ items' = CommittedItems(c)
    /\ EndSync(c)
    /\ Close(c)
    /\ UNCHANGED <<orders, syncLogs, newestLog>>
-----------------------------------------------------------------------------
\* CancelSync: the entry, then its item.

\* A variant with a defect, for mutation runs only: no status in the WHERE.
CancelWithdrawAny(c) ==
    /\ sreq[c].pc = "cancel" /\ tx[c].entry = NoEntry
    /\ UpdateEntryStatus(c, sreq[c].entry, "CANCELLED")
    /\ UNCHANGED vars

CancelWithdraw(c) ==
    /\ sreq[c].pc = "cancel" /\ tx[c].entry = NoEntry
    /\ outbox[sreq[c].entry].status = "PENDING"
    /\ UpdateEntryStatus(c, sreq[c].entry, "CANCELLED")
    /\ UNCHANGED vars

CancelResetItem(c) ==
    /\ sreq[c].pc = "cancel" /\ tx[c].entry # NoEntry /\ tx[c].item = None
    /\ UpdateItemStatus(c, sreq[c].item, "UPDATED")
    /\ UNCHANGED vars

CancelEnd(c) ==
    /\ sreq[c].pc = "cancel" /\ tx[c].item # None
    /\ outbox' = CommittedOutbox(c)
    /\ items' = CommittedItems(c)
    /\ EndSync(c)
    /\ Close(c)
    /\ UNCHANGED <<orders, syncLogs, newestLog>>
-----------------------------------------------------------------------------
\* The worker: the log row, the item, the entry.

Logged(w) == IF answer[w] = "accepted" THEN "SUCCESS" ELSE "FAILED"

\* A variant with a defect, for mutation runs only: the entry's status.
ItemOutcomeMixedUp(w) == IF answer[w] = "accepted" THEN "COMPLETED" ELSE "FAILED"

ItemOutcome(w) ==
    IF answer[w] = "accepted" THEN "SYNCED"
    ELSE IF answer[w] = "error" /\ Retry(w) THEN "UPDATED" ELSE "FAILED"

EntryOutcome(w) ==
    IF answer[w] = "accepted" THEN "COMPLETED" ELSE IF Retry(w) THEN "PENDING" ELSE "FAILED"

\* A variant with a defect, for mutation runs only: the log is inserted with
\* the outer context, outside the transaction.
RecordLogOutside(w) ==
    /\ answer[w] # "none" /\ ~tx[w].log
    /\ tx' = [tx EXCEPT ![w].log = TRUE]
    /\ syncLogs' = Log(current[w], Logged(w))
    /\ newestLog' = NewestLog(current[w])
    /\ UNCHANGED <<orders, items, outbox, oreq, sreq, workerVars, sapVars>>

RecordLog(w) ==
    /\ answer[w] # "none" /\ ~tx[w].log
    /\ tx' = [tx EXCEPT ![w].log = TRUE]
    /\ UNCHANGED vars

RecordItem(w) ==
    /\ tx[w].log /\ tx[w].item = None
    /\ UpdateItemStatus(w, outbox[current[w]].item, ItemOutcome(w))
    /\ UNCHANGED vars

RecordEntry(w) ==
    /\ tx[w].item # None /\ tx[w].entry = NoEntry
    /\ UpdateEntryStatus(w, current[w], EntryOutcome(w))
    /\ UNCHANGED vars

RecordEnd(w) ==
    /\ tx[w].log /\ tx[w].entry # NoEntry
    /\ syncLogs' = Log(current[w], Logged(w))
    /\ newestLog' = NewestLog(current[w])
    /\ items' = CommittedItems(w)
    /\ outbox' = CommittedOutbox(w)
    /\ Done(w)
    /\ Close(w)
    /\ UNCHANGED <<orders, sapVars>>
-----------------------------------------------------------------------------
\* SKIP LOCKED: the rows a cancel has locked are not claimed.
Withdrawing == {tx[c].entry : c \in SyncClients} \ {NoEntry}

\* The edit's UPDATE waits for the item.
EditMayWrite(c) == oreq[c].pc = "save" => ~ItemLocked(oreq[c].item)

TxOrderNext(c) ==
    OrderNext(c) /\ (items' # items => EditMayWrite(c)) /\ UNCHANGED tx

\* The steps of a sync request outside its transaction.
SyncRead(c) ==
    \/ \E i \in Item : EnqueueSync(c, i)
    \/ EnqueueItem(c)
    \/ EnqueueActive(c)
    \/ \E e \in Entry : CancelSync(c, e)
    \/ CancelRefused(c)
    \/ CancelReread(c)
    \/ \E e \in Entry : GetSyncStatus(c, e)
    \/ \E i \in Item : GetLatestSyncStatus(c, i)
    \/ StatusLogs(c)
    \/ StatusAnswer(c)

TxSyncNext(c) ==
    \/ SyncRead(c) /\ UNCHANGED tx
    \/ EnqueueRequeue(c)
    \/ EnqueueInsert(c)
    \/ CancelWithdraw(c)
    \/ CancelResetItem(c)
    \/ CancelEnd(c)
    \/ SyncAbort(c) /\ Rollback(c)

TxClaim(w) == ClaimPending(w, Withdrawing) /\ UNCHANGED tx

TxWorkerNext(w) ==
    \/ TxClaim(w)
    \/ ClaimLost(w, Withdrawing) /\ UNCHANGED tx
    \/ Call(w) /\ UNCHANGED tx
    \/ RecordLog(w)
    \/ RecordItem(w)
    \/ RecordEntry(w)
    \/ RecordEnd(w)
    \/ RecordFails(w) /\ Rollback(w)
    \/ Crash(w) /\ Close(w)

TxNext ==
    \/ \E c \in OrderClients : TxOrderNext(c) /\ UNCHANGED <<sreq, workerVars, sapVars>>
    \/ \E c \in SyncClients : TxSyncNext(c) /\ UNCHANGED <<oreq, workerVars, sapVars>>
    \/ \E w \in Workers : TxWorkerNext(w) /\ UNCHANGED <<oreq, sreq>>

TxSpec == TxInit /\ [][TxNext]_txVars

\* The transaction of a client that has written its item ends, one way or the
\* other: a commit, or a rollback, as at the bound on entries.
TransactionEnds(c) ==
    /\ tx[c].item # None
    /\ CancelEnd(c) \/ EnqueueInsert(c) \/ (SyncAbort(c) /\ Rollback(c))

\* The ticker fires for ever and not in step with the cancels, the RFC call
\* returns, and an open transaction goes on to its end; the lock of a row is
\* granted in the order it was asked for, so whoever waits for it gets it.
\* Nothing makes a client send a request, or an edit write.
TxFairness ==
    /\ \A w \in Workers :
           LET own == UNCHANGED <<oreq, sreq>>
           IN  /\ SF_txVars(TxClaim(w) /\ own)
               /\ WF_txVars(Call(w) /\ own /\ UNCHANGED tx)
               /\ WF_txVars(RecordLog(w))
               /\ SF_txVars(RecordItem(w))
               /\ WF_txVars(RecordEntry(w))
               /\ WF_txVars(RecordEnd(w) /\ own)
    /\ \A c \in SyncClients :
           LET own == UNCHANGED <<oreq, workerVars, sapVars>>
           IN  /\ SF_txVars(CancelResetItem(c))
               /\ WF_txVars(TransactionEnds(c) /\ own)

TxFairSpec == TxSpec /\ TxFairness
-----------------------------------------------------------------------------
\* Taken apart, the transactions do what Backend does in one step each: no
\* interleaving of their statements shows a state in between or loses a write.
ImplementsBackend == Spec

\* The item and the entry the next statement of p needs the locks of.
NeedsItem(p) ==
    CASE p \in Workers -> IF tx[p].log /\ tx[p].item = None
                          THEN {outbox[current[p]].item} ELSE {}
      [] p \in SyncClients ->
            IF tx[p].item = None /\ (\/ sreq[p].pc = "cancel" /\ tx[p].entry # NoEntry
                                     \/ sreq[p].pc = "commit" /\ sreq[p].saw = "FAILED")
            THEN {sreq[p].item} ELSE {}

NeedsEntry(p) ==
    CASE p \in Workers -> IF tx[p].item # None /\ tx[p].entry = NoEntry
                          THEN {current[p]} ELSE {}
      [] p \in SyncClients -> IF sreq[p].pc = "cancel" /\ tx[p].entry = NoEntry
                              THEN {sreq[p].entry} ELSE {}

WaitsFor(p, q) ==
    p # q /\ (tx[q].item \in NeedsItem(p) \/ tx[q].entry \in NeedsEntry(p))

\* No transactions wait for each other in a circle, though the worker locks the
\* item before the entry and CancelSync the entry before the item: PostgreSQL
\* never has to abort one of them.
NoWaitCycle ==
    \A S \in (SUBSET Process) \ {{}} : \E p \in S : \A q \in S : ~WaitsFor(p, q)

\* An entry no worker has any more, after a fault.
Abandoned(e) ==
    outbox[e].status = "PROCESSING" /\ \A w \in Workers : claimed[w][e] = 0

\* Every accepted entry comes to an end, unless a fault leaves it PROCESSING.
EventuallySettled ==
    \A e \in Entry : Active(e) ~> Created(e) /\ (~Active(e) \/ Abandoned(e))
=============================================================================
