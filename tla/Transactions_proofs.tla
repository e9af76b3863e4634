---------------------------- MODULE Transactions_proofs ----------------------------
(***************************************************************************)
(* The transactions taken apart do what Backend does in one step, and      *)
(* never wait for each other in a circle, for any numbers of clients,      *)
(* workers, items and entries and with every fault.                        *)
(*                                                                         *)
(* TxInv says what an open transaction holds: the versions it has written  *)
(* are of committed rows nobody else has changed since, because it has     *)
(* them locked.                                                            *)
(***************************************************************************)
EXTENDS Transactions, Items_proofs

ClientHolds(c) ==
    /\ ~tx[c].log
    /\ tx[c].entry # NoEntry =>
           /\ sreq[c].pc = "cancel" /\ tx[c].entry = sreq[c].entry
           /\ outbox[tx[c].entry].status = "PENDING"
           /\ tx[c].version = [outbox[tx[c].entry] EXCEPT !.status = "CANCELLED"]
    /\ tx[c].item # None =>
           /\ tx[c].item = sreq[c].item
           /\ \/ sreq[c].pc = "commit" /\ sreq[c].saw = "FAILED"
              \/ sreq[c].pc = "cancel" /\ tx[c].entry # NoEntry
           /\ tx[c].row = [items[tx[c].item] EXCEPT !.status = "UPDATED"]

WorkerHolds(w) ==
    /\ tx[w].log => answer[w] # "none"
    /\ tx[w].item # None =>
           /\ tx[w].log /\ tx[w].item = outbox[current[w]].item
           /\ tx[w].row = [items[tx[w].item] EXCEPT !.status = ItemOutcome(w)]
    /\ tx[w].entry # NoEntry =>
           /\ tx[w].item # None /\ tx[w].entry = current[w]
           /\ tx[w].version = [outbox[tx[w].entry] EXCEPT !.status = EntryOutcome(w)]

Holds(p) == (p \in SyncClients => ClientHolds(p)) /\ (p \in Workers => WorkerHolds(p))

LocksExclusive ==
    \A p, q \in Process : p # q =>
        /\ tx[p].item # None => tx[q].item # tx[p].item
        /\ tx[p].entry # NoEntry => tx[q].entry # tx[p].entry

TxInv ==
    /\ ItemsInv
    /\ TxTypeOK
    /\ \A p \in Process : Holds(p)
    /\ LocksExclusive

LEMMA InitTxInv == TxInit => TxInv
<1> SUFFICES ASSUME TxInit PROVE TxInv
  OBVIOUS
<1>1. NoTransaction \in Transaction
  BY MaxEntriesAssumption, MaxAttemptsAssumption
  DEF NoTransaction, Transaction, NoRow, NoEntry, EntryRef, OutboxRow
<1>2. \A p \in Process : /\ tx[p] = NoTransaction /\ ~tx[p].log
                         /\ tx[p].item = None /\ tx[p].entry = NoEntry
  BY DEF TxInit, NoTransaction
<1>3. TxTypeOK
  BY <1>1 DEF TxInit, TxTypeOK
<1>4. \A p \in Process : Holds(p)
  BY <1>2 DEF Holds, ClientHolds, WorkerHolds, Process
<1>5. LocksExclusive
  BY <1>2 DEF LocksExclusive
<1>. QED  BY <1>3, <1>4, <1>5, InitItemsInv DEF TxInv, TxInit

\* What a worker at an entry knows of it.
LEMMA WorkerEntry ==
  ASSUME ItemsInv, NEW w \in Workers, answer[w] # "none"
  PROVE  /\ current[w] \in Entry /\ current[w] # NoEntry
         /\ outbox[current[w]].status = "PROCESSING" /\ Created(current[w])
         /\ outbox[current[w]].item \in Item /\ Edited(outbox[current[w]].item)
<1>1. TypeOK /\ ClaimExclusive /\ EntriesEdited
  BY DEF ItemsInv, OutboxInv
<1>2. current[w] \in Entry /\ current[w] # NoEntry
  BY <1>1, MaxEntriesAssumption DEF TypeOK, WorkerTypeOK, Entry, NoEntry
<1>3. claimed[w][current[w]] # 0
  BY <1>1, <1>2 DEF TypeOK, WorkerTypeOK
<1>4. outbox[current[w]].status = "PROCESSING" /\ Created(current[w])
  BY <1>1, <1>2, <1>3 DEF ClaimExclusive, Created
<1>5. outbox[current[w]].item \in Item
  BY <1>1, <1>2, <1>4 DEF TypeOK, TablesTypeOK, Created
<1>. QED  BY <1>1, <1>2, <1>4, <1>5 DEF EntriesEdited

\* Rows that are locked exist.
LEMMA LockedRows ==
  ASSUME TxInv, NEW p \in Process
  PROVE  /\ tx[p].item # None => tx[p].item \in Item /\ Edited(tx[p].item)
         /\ tx[p].entry # NoEntry => /\ tx[p].entry \in Entry /\ Created(tx[p].entry)
                                     /\ p \in SyncClients => sreq[p].pc = "cancel"
                                     /\ p \in Workers =>
                                            outbox[tx[p].entry].status = "PROCESSING"
<1>0. ItemsInv /\ TypeOK /\ EntriesEdited /\ Holds(p)
  BY DEF TxInv, ItemsInv, OutboxInv
<1>1. CASE p \in SyncClients
  <2>1. ClientHolds(p) /\ SyncReliesOn(p) /\ SyncHolds(sreq[p]) /\ p \notin Workers
    BY <1>0, <1>1, ProcessesAssumption DEF Holds, ItemsInv, TypeOK, SyncTypeOK
  <2>2. ASSUME tx[p].entry # NoEntry
        PROVE  tx[p].entry \in Entry /\ Created(tx[p].entry) /\ sreq[p].pc = "cancel"
    BY <2>1, <2>2 DEF ClientHolds, SyncHolds, SyncReliesOn
  <2>3. ASSUME tx[p].item # None PROVE tx[p].item \in Item /\ Edited(tx[p].item)
    <3>0. tx[p].item = sreq[p].item /\ sreq[p].pc \in {"commit", "cancel"}
      BY <2>1, <2>3 DEF ClientHolds
    <3>1. sreq[p].item \in Item
      BY <2>1, <3>0 DEF SyncHolds
    <3>2. CASE sreq[p].pc = "commit"
      BY <2>1, <3>0, <3>1, <3>2 DEF SyncReliesOn
    <3>3. CASE sreq[p].pc = "cancel"
      BY <1>0, <2>1, <3>0, <3>1, <3>3 DEF SyncHolds, SyncReliesOn, EntriesEdited
    <3>. QED  BY <3>0, <3>2, <3>3
  <2>. QED  BY <2>1, <2>2, <2>3
<1>2. CASE p \in Workers
  BY <1>0, <1>2, WorkerEntry, ProcessesAssumption DEF Holds, WorkerHolds
<1>. QED  BY <1>1, <1>2 DEF Process

\* What a transaction commits.
LEMMA CommitsItem ==
  ASSUME NEW p, NEW i, NEW s, tx[p].item = i, i # None,
         tx[p].row = [items[i] EXCEPT !.status = s]
  PROVE  CommittedItems(p) = WithItemStatus(i, s)
<1>1. CommittedItems(p) = [items EXCEPT ![i] = tx[p].row]
  BY DEF CommittedItems
<1>2. CommittedItems(p) = [items EXCEPT ![i] = [items[i] EXCEPT !.status = s]]
  BY <1>1
<1>. QED  BY <1>2 DEF WithItemStatus

LEMMA CommitsEntry ==
  ASSUME NEW p, NEW e, NEW s, tx[p].entry = e, e # NoEntry,
         tx[p].version = [outbox[e] EXCEPT !.status = s]
  PROVE  CommittedOutbox(p) = WithEntryStatus(e, s)
<1>1. CommittedOutbox(p) = [outbox EXCEPT ![e] = tx[p].version]
  BY DEF CommittedOutbox
<1>2. CommittedOutbox(p) = [outbox EXCEPT ![e] = [outbox[e] EXCEPT !.status = s]]
  BY <1>1
<1>. QED  BY <1>2 DEF WithEntryStatus
-----------------------------------------------------------------------------
\* Every step is one of Backend's or none: the statements of a transaction do
\* nothing to the committed rows, and its commit does what Backend's action
\* does.
LEMMA TxStepSimulates ==
  ASSUME TxInv, [TxNext]_txVars
  PROVE  [Next]_vars
<1>0. ItemsInv /\ \A p \in Process : Holds(p)
  BY DEF TxInv
<1>1. ASSUME NEW c \in OrderClients, TxOrderNext(c), UNCHANGED <<sreq, workerVars, sapVars>>
      PROVE  Next
  BY <1>1 DEF TxOrderNext, Next
<1>2. ASSUME NEW c \in SyncClients, TxSyncNext(c), UNCHANGED <<oreq, workerVars, sapVars>>
      PROVE  Next \/ UNCHANGED vars
  <2>0. c \in Process /\ ClientHolds(c)
    BY <1>0 DEF Process, Holds
  <2>1. CASE EnqueueInsert(c)
    <3>1. ASSUME sreq[c].saw = "FAILED"
          PROVE  CommittedItems(c) = WithItemStatus(sreq[c].item, "UPDATED")
      <4>1. tx[c].item # None
        BY <2>1, <3>1 DEF EnqueueInsert
      <4>2. /\ tx[c].item = sreq[c].item
            /\ tx[c].row = [items[tx[c].item] EXCEPT !.status = "UPDATED"]
        BY <2>0, <4>1 DEF ClientHolds
      <4>. QED  BY <4>1, <4>2, CommitsItem
    <3>2. ASSUME sreq[c].saw # "FAILED" PROVE CommittedItems(c) = items
      <4>1. tx[c].item = None
        BY <2>0, <2>1, <3>2 DEF ClientHolds, EnqueueInsert
      <4>. QED  BY <4>1 DEF CommittedItems
    <3>3. EnqueueCommit(c)
      BY <2>1, <3>1, <3>2 DEF EnqueueInsert, EnqueueCommit
    <3>. QED  BY <1>2, <3>3 DEF Next, SyncNext
  <2>2. CASE CancelEnd(c)
    <3>1. tx[c].item = sreq[c].item /\ tx[c].entry = sreq[c].entry /\ tx[c].entry # NoEntry
      BY <2>0, <2>2 DEF CancelEnd, ClientHolds
    <3>2. CommittedItems(c) = WithItemStatus(sreq[c].item, "UPDATED")
      <4>1. tx[c].item # None
        BY <2>2 DEF CancelEnd
      <4>2. tx[c].row = [items[tx[c].item] EXCEPT !.status = "UPDATED"]
        BY <2>0, <4>1 DEF ClientHolds
      <4>. QED  BY <3>1, <4>1, <4>2, CommitsItem
    <3>3. CommittedOutbox(c) = WithEntryStatus(sreq[c].entry, "CANCELLED")
      <4>1. tx[c].version = [outbox[tx[c].entry] EXCEPT !.status = "CANCELLED"]
        BY <2>0, <3>1 DEF ClientHolds
      <4>. QED  BY <3>1, <4>1, CommitsEntry
    <3>4. CancelCommit(c)
      BY <2>0, <2>2, <3>1, <3>2, <3>3 DEF CancelEnd, CancelCommit, ClientHolds
    <3>. QED  BY <1>2, <3>4 DEF Next, SyncNext
  <2>3. CASE EnqueueRequeue(c) \/ CancelWithdraw(c) \/ CancelResetItem(c)
    BY <2>3 DEF EnqueueRequeue, CancelWithdraw, CancelResetItem
  <2>4. CASE SyncRead(c) \/ SyncAbort(c)
    <3>1. SyncNext(c)
      BY <2>4 DEF SyncRead, SyncNext
    <3>. QED  BY <1>2, <3>1 DEF Next
  <2>. QED  BY <1>2, <2>1, <2>2, <2>3, <2>4 DEF TxSyncNext
<1>3. ASSUME NEW w \in Workers, TxWorkerNext(w), UNCHANGED <<oreq, sreq>>
      PROVE  Next \/ UNCHANGED vars
  <2>0. w \in Process /\ WorkerHolds(w)
    BY <1>0 DEF Process, Holds
  <2>1. Withdrawing \in SUBSET LockedByCancel
    <3> SUFFICES ASSUME NEW c \in SyncClients, tx[c].entry # NoEntry
                 PROVE  tx[c].entry \in LockedByCancel
      BY DEF Withdrawing
    <3>1. ClientHolds(c)
      BY <1>0 DEF Process, Holds
    <3>. QED  BY <3>1 DEF ClientHolds, LockedByCancel
  <2>2. CASE TxClaim(w) \/ ClaimLost(w, Withdrawing)
    <3>1. WorkerNext(w)
      BY <2>1, <2>2 DEF TxClaim, WorkerNext, Claim
    <3>. QED  BY <1>3, <3>1 DEF Next
  <2>3. CASE Call(w) \/ RecordFails(w) \/ Crash(w)
    BY <1>3, <2>3 DEF Next, WorkerNext
  <2>4. CASE RecordLog(w) \/ RecordItem(w) \/ RecordEntry(w)
    BY <2>4 DEF RecordLog, RecordItem, RecordEntry
  <2>5. CASE RecordEnd(w)
    <3> DEFINE e == current[w]
    <3>1. /\ tx[w].entry = e /\ tx[w].entry # NoEntry /\ answer[w] # "none"
          /\ tx[w].item = outbox[e].item /\ tx[w].item # None
      BY <2>0, <2>5 DEF RecordEnd, WorkerHolds
    <3>2. CommittedItems(w) = WithItemStatus(outbox[e].item, ItemOutcome(w))
      <4>1. tx[w].row = [items[tx[w].item] EXCEPT !.status = ItemOutcome(w)]
        BY <2>0, <3>1 DEF WorkerHolds
      <4>. QED  BY <3>1, <4>1, CommitsItem
    <3>3. CommittedOutbox(w) = WithEntryStatus(e, EntryOutcome(w))
      <4>1. tx[w].version = [outbox[tx[w].entry] EXCEPT !.status = EntryOutcome(w)]
        BY <2>0, <3>1 DEF WorkerHolds
      <4>. QED  BY <3>1, <4>1, CommitsEntry
    <3>4. Record(w, Logged(w), ItemOutcome(w), WithEntryStatus(e, EntryOutcome(w)))
      BY <2>5, <3>2, <3>3 DEF RecordEnd, Record
    <3>5. answer[w] \in {"accepted", "rejected", "error"}
      BY <1>0, <3>1 DEF ItemsInv, OutboxInv, TypeOK, WorkerTypeOK, Answer
    <3>6. CASE answer[w] = "accepted"
      <4>1. RecordAccepted(w)
        BY <3>4, <3>6 DEF RecordAccepted, Logged, ItemOutcome, EntryOutcome, MarkCompleted
      <4>. QED  BY <1>3, <4>1 DEF Next, WorkerNext
    <3>7. CASE answer[w] = "rejected"
      <4>1. RecordRejected(w)
        BY <3>4, <3>7 DEF RecordRejected, Logged, ItemOutcome, EntryOutcome, MarkFailed
      <4>. QED  BY <1>3, <4>1 DEF Next, WorkerNext
    <3>8. CASE answer[w] = "error"
      <4>1. RecordError(w)
        BY <3>4, <3>8 DEF RecordError, Logged, ItemOutcome, EntryOutcome, MarkFailed
      <4>. QED  BY <1>3, <4>1 DEF Next, WorkerNext
    <3>. QED  BY <3>5, <3>6, <3>7, <3>8
  <2>. QED  BY <1>3, <2>2, <2>3, <2>4, <2>5 DEF TxWorkerNext
<1>4. CASE UNCHANGED txVars
  BY <1>4 DEF txVars
<1>. QED  BY <1>1, <1>2, <1>3, <1>4 DEF TxNext
-----------------------------------------------------------------------------
\* p stands still while another step happens, and what it has locked is left
\* alone.
Quiet(p) ==
    /\ tx'[p] = tx[p]
    /\ tx[p].item # None => items'[tx[p].item] = items[tx[p].item]
    /\ tx[p].entry # NoEntry => outbox'[tx[p].entry] = outbox[tx[p].entry]
    /\ p \in SyncClients => sreq'[p] = sreq[p]
    /\ p \in Workers => /\ answer'[p] = answer[p] /\ current'[p] = current[p]
                        /\ claimed'[p] = claimed[p]

LEMMA QuietHolds ==
  ASSUME TxInv, [Next]_vars, NEW p \in Process, Quiet(p)
  PROVE  Holds(p)'
<1>0. ItemsInv /\ TypeOK /\ Holds(p)
  BY DEF TxInv, ItemsInv, OutboxInv
<1>1. p \in SyncClients => ClientHolds(p)'
  BY <1>0 DEF Quiet, Holds, ClientHolds
<1>2. ASSUME p \in Workers PROVE WorkerHolds(p)'
  <2>1. WorkerHolds(p)
    BY <1>0, <1>2 DEF Holds
  <2>2. ItemOutcome(p)' = ItemOutcome(p) /\ EntryOutcome(p)' = EntryOutcome(p)
    BY <1>2 DEF Quiet, ItemOutcome, EntryOutcome, Retry
  <2>3. ASSUME tx[p].log PROVE outbox'[current'[p]].item = outbox[current[p]].item
    <3>1. PICK e \in Entry : e = current[p] /\ Created(e)
      BY <1>0, <1>2, <2>1, <2>3, WorkerEntry DEF WorkerHolds
    <3>2. outbox'[e].item = outbox[e].item
      BY <1>0, <3>1, EntryItemSteps DEF EntryItemStep
    <3>. QED  BY <1>2, <3>1, <3>2 DEF Quiet
  <2>. QED  BY <1>2, <2>1, <2>2, <2>3 DEF WorkerHolds, Quiet
<1>. QED  BY <1>1, <1>2 DEF Holds

\* A step of p alone, which keeps, drops or newly takes its locks.
Alone(p) ==
    /\ tx' = [tx EXCEPT ![p] = tx'[p]]
    /\ tx'[p] \in Transaction
    /\ tx'[p].item \in {tx[p].item, None} \/ ~ItemLocked(tx'[p].item)
    /\ tx'[p].entry \in {tx[p].entry, NoEntry} \/ ~EntryLocked(tx'[p].entry)
    /\ \A q \in Process : q # p => Quiet(q)
    /\ Holds(p)'

LEMMA AloneTxInv ==
  ASSUME TxInv, [Next]_vars, NEW p \in Process, Alone(p)
  PROVE  TxInv'
<1>1. ItemsInv'
  BY NextItemsInv DEF TxInv
<1>2. TxTypeOK'
  BY DEF TxInv, TxTypeOK, Alone
<1>3. \A q \in Process : Holds(q)'
  BY QuietHolds DEF Alone
<1>4. \A q \in Process : q # p => tx'[q] = tx[q]
  BY DEF Alone, Quiet
<1>5. LocksExclusive'
  BY <1>4 DEF TxInv, LocksExclusive, Alone, ItemLocked, EntryLocked
<1>. QED  BY <1>1, <1>2, <1>3, <1>5 DEF TxInv

\* A step of none of them.
LEMMA QuietTxInv ==
  ASSUME TxInv, [Next]_vars, tx' = tx, \A q \in Process : Quiet(q)
  PROVE  TxInv'
<1>1. ItemsInv'
  BY NextItemsInv DEF TxInv
<1>2. \A q \in Process : Holds(q)'
  BY QuietHolds
<1>. QED  BY <1>1, <1>2 DEF TxInv, TxTypeOK, LocksExclusive

\* The edit waits for the lock, and an insert finds no row another could have
\* locked.
LEMMA OrderQuiet ==
  ASSUME TxInv, NEW c \in OrderClients, TxOrderNext(c),
         UNCHANGED <<sreq, workerVars, sapVars>>, NEW p \in Process
  PROVE  Quiet(p)
<1>1. OrderNext(c) /\ (items' # items => EditMayWrite(c)) /\ tx' = tx /\ TypeOK
  BY DEF TxOrderNext, TxInv, ItemsInv, OutboxInv
<1>2. outbox' = outbox
  BY <1>1
  DEF OrderNext, CreateOrder, UpdateOrder, UpdateOrderListItems, UpdateOrderWrite, AddItem,
      AddItemInsert, AddItemPromote, UpdateItem, UpdateItemRead, UpdateItemCurrent,
      UpdateItemWrite, OrderAbort, tables
<1>3. ASSUME tx[p].item # None PROVE items'[tx[p].item] = items[tx[p].item]
  <2>1. PICK i \in Item : i = tx[p].item /\ ItemExists(i)
    BY <1>3, LockedRows DEF Edited, ItemExists
  <2>2. CASE items' = items
    BY <2>2
  <2>3. CASE AddItemInsert(c) /\ items' # items
    <3>1. i # oreq[c].item
      BY <2>1, <2>3 DEF AddItemInsert
    <3>. QED  BY <1>1, <2>1, <2>3, <3>1 DEF AddItemInsert, TypeOK, TablesTypeOK
  <2>4. CASE UpdateItemWrite(c) /\ items' # items
    <3>1. i # oreq[c].item
      BY <1>1, <2>1, <2>4 DEF UpdateItemWrite, EditMayWrite, ItemLocked
    <3>. QED  BY <1>1, <2>1, <2>4, <3>1 DEF UpdateItemWrite, TypeOK, TablesTypeOK
  <2>. QED
    BY <1>1, <2>2, <2>3, <2>4
    DEF OrderNext, CreateOrder, UpdateOrder, UpdateOrderListItems, UpdateOrderWrite, AddItem,
        AddItemPromote, UpdateItem, UpdateItemRead, UpdateItemCurrent, OrderAbort, tables
<1>. QED  BY <1>1, <1>2, <1>3 DEF Quiet, workerVars

\* The locked rows of the others, when p commits, inserts or claims.
LEMMA OthersLocks ==
  ASSUME TxInv, NEW p \in Process, NEW q \in Process, q # p
  PROVE  /\ tx[q].item # None => CommittedItems(p)[tx[q].item] = items[tx[q].item]
         /\ tx[q].entry # NoEntry => CommittedOutbox(p)[tx[q].entry] = outbox[tx[q].entry]
         /\ \A e \in Entry : \A i, t :
               ~Created(e) /\ tx[q].entry # NoEntry =>
                   WithNewEntry(e, i, t)[tx[q].entry] = outbox[tx[q].entry]
         /\ \A S \in SUBSET (Claimable \ Withdrawing) :
               tx[q].entry # NoEntry => WithClaimed(S)[tx[q].entry] = outbox[tx[q].entry]
<1>0. TypeOK /\ LocksExclusive
  BY DEF TxInv, ItemsInv, OutboxInv
<1>1. ASSUME NEW i \in Item, i = tx[q].item
      PROVE  CommittedItems(p)[i] = items[i]
  <2>1. i # tx[p].item
    BY <1>0, <1>1, NoneAssumption DEF LocksExclusive
  <2>. QED  BY <1>0, <2>1 DEF CommittedItems, TypeOK, TablesTypeOK
<1>2. ASSUME NEW d \in Entry, d = tx[q].entry, d # NoEntry, Created(d)
      PROVE  /\ CommittedOutbox(p)[d] = outbox[d]
             /\ \A e \in Entry : \A i, t :
                   ~Created(e) => WithNewEntry(e, i, t)[d] = outbox[d]
             /\ \A S \in SUBSET (Claimable \ Withdrawing) : WithClaimed(S)[d] = outbox[d]
  <2>1. d # tx[p].entry
    BY <1>0, <1>2 DEF LocksExclusive
  <2>2. CommittedOutbox(p)[d] = outbox[d]
    BY <1>0, <2>1 DEF CommittedOutbox, TypeOK, TablesTypeOK
  <2>3. \A e \in Entry : \A i, t : ~Created(e) => WithNewEntry(e, i, t)[d] = outbox[d]
    BY <1>0, <1>2 DEF WithNewEntry, Created, TypeOK, TablesTypeOK
  <2>4. d \notin Claimable \ Withdrawing
    BY <1>2, LockedRows DEF Process, Withdrawing, Claimable
  <2>5. \A S \in SUBSET (Claimable \ Withdrawing) : WithClaimed(S)[d] = outbox[d]
    BY <2>4 DEF WithClaimed
  <2>. QED  BY <2>2, <2>3, <2>5
<1>. QED  BY <1>1, <1>2, LockedRows
-----------------------------------------------------------------------------
\* What the UPDATE of an item and of an entry does to its transaction.
LEMMA LockItem ==
  ASSUME TxInv, NEW p \in Process, NEW i \in Item, NEW s \in ItemStatus,
         UpdateItemStatus(p, i, s)
  PROVE  /\ tx' = [tx EXCEPT ![p] = tx'[p]] /\ tx'[p] \in Transaction
         /\ tx'[p].item = i /\ tx'[p].row = [items[i] EXCEPT !.status = s]
         /\ tx'[p].log = tx[p].log /\ tx'[p].entry = tx[p].entry
         /\ tx'[p].version = tx[p].version
         /\ ~ItemLocked(i)
<1> DEFINE row == [items[i] EXCEPT !.status = s]
<1>1. tx[p] \in Transaction /\ tx \in [Process -> Transaction]
  BY DEF TxInv, TxTypeOK
<1>2. row \in ItemRow
  BY DEF TxInv, ItemsInv, OutboxInv, TypeOK, TablesTypeOK, ItemRow
<1>3. tx' = [tx EXCEPT ![p].item = i, ![p].row = row] /\ ~ItemLocked(i)
  BY DEF UpdateItemStatus
<1> HIDE DEF row
<1>4. tx'[p] = [log |-> tx[p].log, item |-> i, row |-> row,
                entry |-> tx[p].entry, version |-> tx[p].version]
  BY <1>1, <1>3 DEF Transaction
<1>5. \A q \in Process : q # p => tx'[q] = tx[q]
  BY <1>1, <1>3
<1>6. tx' = [tx EXCEPT ![p] = tx'[p]]
  BY <1>1, <1>3, <1>5
<1>7. tx'[p] \in Transaction
  BY <1>1, <1>2, <1>4 DEF Transaction
<1>. QED  BY <1>3, <1>4, <1>6, <1>7 DEF row

LEMMA LockEntry ==
  ASSUME TxInv, NEW p \in Process, NEW e \in Entry, NEW s \in OutboxStatus,
         UpdateEntryStatus(p, e, s)
  PROVE  /\ tx' = [tx EXCEPT ![p] = tx'[p]] /\ tx'[p] \in Transaction
         /\ tx'[p].entry = e /\ tx'[p].version = [outbox[e] EXCEPT !.status = s]
         /\ tx'[p].log = tx[p].log /\ tx'[p].item = tx[p].item
         /\ tx'[p].row = tx[p].row
         /\ ~EntryLocked(e)
<1> DEFINE row == [outbox[e] EXCEPT !.status = s]
<1>1. tx[p] \in Transaction /\ tx \in [Process -> Transaction]
  BY DEF TxInv, TxTypeOK
<1>2. row \in OutboxRow
  BY DEF TxInv, ItemsInv, OutboxInv, TypeOK, TablesTypeOK, OutboxRow
<1>3. tx' = [tx EXCEPT ![p].entry = e, ![p].version = row] /\ ~EntryLocked(e)
  BY DEF UpdateEntryStatus
<1> HIDE DEF row
<1>4. tx'[p] = [log |-> tx[p].log, item |-> tx[p].item, row |-> tx[p].row,
                entry |-> e, version |-> row]
  BY <1>1, <1>3 DEF Transaction
<1>5. \A q \in Process : q # p => tx'[q] = tx[q]
  BY <1>1, <1>3
<1>6. tx' = [tx EXCEPT ![p] = tx'[p]]
  BY <1>1, <1>3, <1>5
<1>7. tx'[p] \in Transaction
  BY <1>1, <1>2, <1>4, MaxEntriesAssumption DEF Transaction, Entry, EntryRef
<1>. QED  BY <1>3, <1>4, <1>6, <1>7 DEF row

\* A closed transaction holds nothing.
LEMMA Closed ==
  ASSUME TxInv, NEW p \in Process, Close(p)
  PROVE  /\ tx' = [tx EXCEPT ![p] = tx'[p]] /\ tx'[p] \in Transaction
         /\ ~tx'[p].log /\ tx'[p].item = None /\ tx'[p].entry = NoEntry
         /\ Holds(p)'
<1>1. NoTransaction \in Transaction
  BY MaxEntriesAssumption, MaxAttemptsAssumption
  DEF NoTransaction, Transaction, NoRow, NoEntry, EntryRef, OutboxRow
<1>2. tx'[p] = NoTransaction
  BY DEF Close, TxInv, TxTypeOK
<1>3. ~tx'[p].log /\ tx'[p].item = None /\ tx'[p].entry = NoEntry
  BY <1>2 DEF NoTransaction
<1>4. Holds(p)'
  BY <1>3 DEF Holds, ClientHolds, WorkerHolds, NoEntry
<1>. QED  BY <1>1, <1>2, <1>3, <1>4 DEF Close

\* The others, while p does nothing to the tables.
LEMMA TablesQuiet ==
  ASSUME NEW p \in Process, tx' = [tx EXCEPT ![p] = tx'[p]], TxInv,
         UNCHANGED <<items, outbox>>,
         \A c \in SyncClients : c # p => sreq'[c] = sreq[c],
         \A w \in Workers : w # p => /\ answer'[w] = answer[w] /\ current'[w] = current[w]
                                     /\ claimed'[w] = claimed[w]
  PROVE  \A q \in Process : q # p => Quiet(q)
<1>1. \A q \in Process : q # p => tx'[q] = tx[q]
  BY DEF TxInv, TxTypeOK
<1>. QED  BY <1>1 DEF Quiet
-----------------------------------------------------------------------------
\* A sync request's step: it locks nothing that is locked, and a request that
\* has locks takes no step outside its transaction.
LEMMA ClientAlone ==
  ASSUME TxInv, NEW c \in SyncClients, TxSyncNext(c),
         UNCHANGED <<oreq, workerVars, sapVars>>
  PROVE  Alone(c)
<1>0. /\ c \in Process /\ c \notin Workers /\ ClientHolds(c) /\ TypeOK /\ ItemsInv
      /\ tx \in [Process -> Transaction] /\ tx[c] \in Transaction
      /\ sreq \in [SyncClients -> SyncRequest] /\ SyncHolds(sreq[c])
  BY ProcessesAssumption
  DEF Process, TxInv, TxTypeOK, Holds, ItemsInv, OutboxInv, TypeOK, SyncTypeOK
<1>1. \A w \in Workers : /\ answer'[w] = answer[w] /\ current'[w] = current[w]
                         /\ claimed'[w] = claimed[w]
  BY DEF workerVars
<1>2. ASSUME ClientHolds(c)' PROVE Holds(c)'
  BY <1>0, <1>2 DEF Holds
<1>3. CASE SyncRead(c) /\ UNCHANGED tx
  <2>1. UNCHANGED <<items, outbox>> /\ \A d \in SyncClients : d # c => sreq'[d] = sreq[d]
    BY <1>0, <1>3
    DEF SyncRead, EnqueueSync, EnqueueItem, EnqueueActive, CancelSync, CancelRefused,
        CancelReread, GetSyncStatus, GetLatestSyncStatus, ReadEntry, StatusLogs,
        StatusAnswer, EntriesOf, EndSync, tables
  <2>2. sreq[c].pc # "commit"
        /\ (sreq[c].pc = "cancel" => outbox[sreq[c].entry].status # "PENDING")
    BY <1>3
    DEF SyncRead, EnqueueSync, EnqueueItem, EnqueueActive, CancelSync, CancelRefused,
        CancelReread, GetSyncStatus, GetLatestSyncStatus, ReadEntry, StatusLogs,
        StatusAnswer, EntriesOf
  <2>3. tx[c].entry = NoEntry /\ tx[c].item = None /\ ~tx[c].log
    BY <1>0, <2>2 DEF ClientHolds
  <2>4. ClientHolds(c)'
    BY <1>3, <2>3 DEF ClientHolds, NoEntry
  <2>5. tx' = [tx EXCEPT ![c] = tx'[c]]
    BY <1>0, <1>3
  <2>. QED  BY <1>0, <1>1, <1>2, <1>3, <2>1, <2>4, <2>5, TablesQuiet DEF Alone
<1>4. CASE SyncAbort(c) /\ Rollback(c)
  <2>1. UNCHANGED <<items, outbox>> /\ \A d \in SyncClients : d # c => sreq'[d] = sreq[d]
    BY <1>0, <1>4 DEF SyncAbort, EndSync, tables
  <2>2. Close(c)
    BY <1>4 DEF Rollback
  <2>. QED  BY <1>0, <1>1, <2>1, <2>2, Closed, TablesQuiet DEF Alone
<1>5. ASSUME UNCHANGED vars, tx' = [tx EXCEPT ![c] = tx'[c]]
      PROVE  \A q \in Process : q # c => Quiet(q)
  <2>1. UNCHANGED <<items, outbox, sreq>>
    BY <1>5 DEF vars, tables
  <2>. QED  BY <1>0, <1>1, <1>5, <2>1, TablesQuiet
<1>6. CASE EnqueueRequeue(c) \/ CancelResetItem(c)
  <2>1. /\ UNCHANGED vars /\ sreq[c].item \in Item
        /\ UpdateItemStatus(c, sreq[c].item, "UPDATED")
        /\ \/ sreq[c].pc = "commit" /\ sreq[c].saw = "FAILED"
           \/ sreq[c].pc = "cancel" /\ tx[c].entry # NoEntry
    BY <1>0, <1>6 DEF EnqueueRequeue, CancelResetItem, SyncHolds
  <2>2. UNCHANGED <<items, outbox, sreq>>
    BY <2>1 DEF vars, tables
  <2>3. /\ tx' = [tx EXCEPT ![c] = tx'[c]] /\ tx'[c] \in Transaction
        /\ tx'[c].item = sreq[c].item
        /\ tx'[c].row = [items[sreq[c].item] EXCEPT !.status = "UPDATED"]
        /\ tx'[c].log = tx[c].log /\ tx'[c].entry = tx[c].entry
        /\ tx'[c].version = tx[c].version
        /\ ~ItemLocked(sreq[c].item)
    BY <1>0, <2>1, LockItem DEF ItemStatus
  <2>4. ClientHolds(c)'
    BY <1>0, <2>1, <2>2, <2>3 DEF ClientHolds, NoEntry
  <2>. QED  BY <1>2, <1>5, <2>1, <2>3, <2>4 DEF Alone
<1>7. CASE CancelWithdraw(c)
  <2>1. /\ UNCHANGED vars /\ sreq[c].entry \in Entry /\ sreq[c].pc = "cancel"
        /\ UpdateEntryStatus(c, sreq[c].entry, "CANCELLED")
        /\ outbox[sreq[c].entry].status = "PENDING" /\ tx[c].entry = NoEntry
    BY <1>0, <1>7 DEF CancelWithdraw, SyncHolds
  <2>2. UNCHANGED <<items, outbox, sreq>>
    BY <2>1 DEF vars, tables
  <2>3. /\ tx' = [tx EXCEPT ![c] = tx'[c]] /\ tx'[c] \in Transaction
        /\ tx'[c].entry = sreq[c].entry
        /\ tx'[c].version = [outbox[sreq[c].entry] EXCEPT !.status = "CANCELLED"]
        /\ tx'[c].log = tx[c].log /\ tx'[c].item = tx[c].item
        /\ ~EntryLocked(sreq[c].entry)
    BY <1>0, <2>1, LockEntry DEF OutboxStatus
  <2>4. tx[c].item = None
    BY <1>0, <2>1 DEF ClientHolds
  <2>5. ClientHolds(c)'
    BY <1>0, <2>1, <2>2, <2>3, <2>4 DEF ClientHolds
  <2>. QED  BY <1>2, <1>5, <2>1, <2>3, <2>5 DEF Alone
<1>8. CASE EnqueueInsert(c) \/ CancelEnd(c)
  <2>1. /\ Close(c) /\ items' = CommittedItems(c)
        /\ \A d \in SyncClients : d # c => sreq'[d] = sreq[d]
        /\ \/ outbox' = CommittedOutbox(c)
           \/ \E e \in Entry : /\ ~Created(e)
                               /\ outbox' = WithNewEntry(e, sreq[c].item, sreq[c].payload)
    BY <1>0, <1>8 DEF EnqueueInsert, CancelEnd, EndSync, FreeEntry
  <2>2. /\ tx' = [tx EXCEPT ![c] = tx'[c]] /\ tx'[c] \in Transaction
        /\ tx'[c].item = None /\ tx'[c].entry = NoEntry /\ Holds(c)'
    BY <1>0, <2>1, Closed
  <2>3. ASSUME NEW q \in Process, q # c PROVE Quiet(q)
    <3>1. tx'[q] = tx[q]
      BY <1>0, <2>2, <2>3
    <3>2. tx[q].item # None => items'[tx[q].item] = items[tx[q].item]
      BY <1>0, <2>1, <2>3, OthersLocks
    <3>3. tx[q].entry # NoEntry => outbox'[tx[q].entry] = outbox[tx[q].entry]
      BY <1>0, <2>1, <2>3, OthersLocks
    <3>. QED  BY <1>1, <2>1, <2>3, <3>1, <3>2, <3>3 DEF Quiet
  <2>. QED  BY <2>2, <2>3 DEF Alone
<1>. QED  BY <1>3, <1>4, <1>6, <1>7, <1>8 DEF TxSyncNext

\* A worker's step.  Only a worker with an answer has a transaction, and the
\* rows a claim takes are locked by nobody.
LEMMA WorkerAlone ==
  ASSUME TxInv, NEW w \in Workers, TxWorkerNext(w), UNCHANGED <<oreq, sreq>>
  PROVE  Alone(w)
<1>0. /\ w \in Process /\ w \notin SyncClients /\ WorkerHolds(w) /\ TypeOK /\ ItemsInv
      /\ tx \in [Process -> Transaction] /\ tx[w] \in Transaction
      /\ WorkerTypeOK
  BY ProcessesAssumption
  DEF Process, TxInv, TxTypeOK, Holds, ItemsInv, OutboxInv, TypeOK
<1>1. \A c \in SyncClients : sreq'[c] = sreq[c]
  OBVIOUS
<1>2. ASSUME WorkerHolds(w)' PROVE Holds(w)'
  BY <1>0, <1>2 DEF Holds
<1>3. ASSUME tx' = tx, answer[w] = "none" PROVE Holds(w)'
  <2>1. ~tx[w].log /\ tx[w].item = None /\ tx[w].entry = NoEntry
    BY <1>0, <1>3 DEF WorkerHolds
  <2>. QED  BY <1>2, <1>3, <2>1 DEF WorkerHolds, NoEntry
<1>4. ASSUME Waiting(w) \/ current[w] = NoEntry PROVE answer[w] = "none"
  <2> SUFFICES ASSUME answer[w] # "none" PROVE FALSE
    OBVIOUS
  <2>1. current[w] \in Entry /\ current[w] # NoEntry
    BY <1>0, WorkerEntry
  <2>2. claimed[w][current[w]] # 0
    BY <1>0, <2>1 DEF WorkerTypeOK
  <2>. QED  BY <1>4, <2>1, <2>2 DEF Waiting, Batch
<1>5. CASE TxClaim(w) \/ (ClaimLost(w, Withdrawing) /\ UNCHANGED tx)
  <2>1. PICK S \in SUBSET (Claimable \ Withdrawing) : outbox' = WithClaimed(S)
    BY <1>5 DEF TxClaim, ClaimPending, ClaimLost, Oldest
  <2>2. /\ tx' = tx /\ items' = items /\ answer' = answer /\ current' = current
        /\ \A v \in Workers : v # w => claimed'[v] = claimed[v]
    BY <1>0, <1>5 DEF TxClaim, ClaimPending, ClaimLost, workerVars, WorkerTypeOK
  <2>3. Waiting(w)
    BY <1>5 DEF TxClaim, ClaimPending, ClaimLost
  <2>4. ASSUME NEW q \in Process, q # w PROVE Quiet(q)
    <3>1. tx[q].entry # NoEntry => outbox'[tx[q].entry] = outbox[tx[q].entry]
      BY <1>0, <2>1, <2>4, OthersLocks
    <3>. QED  BY <1>1, <2>2, <2>4, <3>1 DEF Quiet
  <2>5. Holds(w)'
    BY <1>3, <1>4, <2>2, <2>3
  <2>. QED  BY <1>0, <2>2, <2>4, <2>5 DEF Alone
<1>6. CASE Call(w) /\ UNCHANGED tx
  <2>1. /\ UNCHANGED <<items, outbox, claimed>> /\ current[w] = NoEntry
        /\ \A v \in Workers : v # w => answer'[v] = answer[v] /\ current'[v] = current[v]
    BY <1>0, <1>6 DEF Call, CallSAP, tables, WorkerTypeOK
  <2>2. tx' = [tx EXCEPT ![w] = tx'[w]]
    BY <1>0, <1>6
  <2>3. Holds(w)'
    BY <1>3, <1>4, <1>6, <2>1
  <2>. QED  BY <1>0, <1>1, <1>6, <2>1, <2>2, <2>3, TablesQuiet DEF Alone
<1>7. CASE (RecordFails(w) /\ Rollback(w)) \/ (Crash(w) /\ Close(w))
  <2>1. /\ UNCHANGED <<items, outbox>> /\ Close(w)
        /\ \A v \in Workers : v # w => /\ answer'[v] = answer[v] /\ current'[v] = current[v]
                                      /\ claimed'[v] = claimed[v]
    BY <1>0, <1>7 DEF RecordFails, Crash, Done, Rollback, tables, WorkerTypeOK
  <2>. QED  BY <1>0, <1>1, <2>1, Closed, TablesQuiet DEF Alone
<1>8. ASSUME UNCHANGED vars, tx' = [tx EXCEPT ![w] = tx'[w]]
      PROVE  \A q \in Process : q # w => Quiet(q)
  <2>1. UNCHANGED <<items, outbox, claimed, current, answer>>
    BY <1>8 DEF vars, tables, workerVars
  <2>. QED  BY <1>0, <1>1, <1>8, <2>1, TablesQuiet
<1>9. ASSUME UNCHANGED vars
      PROVE  /\ UNCHANGED <<items, outbox, claimed, current, answer>>
             /\ ItemOutcome(w)' = ItemOutcome(w) /\ EntryOutcome(w)' = EntryOutcome(w)
  BY <1>9 DEF vars, tables, workerVars, ItemOutcome, EntryOutcome, Retry
<1>10. CASE RecordLog(w)
  <2>1. /\ UNCHANGED vars /\ answer[w] # "none" /\ ~tx[w].log
        /\ tx' = [tx EXCEPT ![w].log = TRUE]
    BY <1>10 DEF RecordLog
  <2>2. tx'[w] = [log |-> TRUE, item |-> tx[w].item, row |-> tx[w].row,
                  entry |-> tx[w].entry, version |-> tx[w].version]
    BY <1>0, <2>1 DEF Transaction
  <2>3. tx'[w] \in Transaction /\ tx'[w].item = tx[w].item /\ tx'[w].entry = tx[w].entry
    BY <1>0, <2>2 DEF Transaction
  <2>4. tx' = [tx EXCEPT ![w] = tx'[w]]
    BY <1>0, <2>1
  <2>5. tx[w].item = None /\ tx[w].entry = NoEntry
    BY <1>0, <2>1 DEF WorkerHolds
  <2>6. WorkerHolds(w)'
    BY <1>9, <2>1, <2>3, <2>5 DEF WorkerHolds, NoEntry
  <2>. QED  BY <1>2, <1>8, <2>1, <2>3, <2>4, <2>6 DEF Alone
<1>11. CASE RecordItem(w)
  <2>1. /\ UNCHANGED vars /\ tx[w].log /\ tx[w].item = None
        /\ UpdateItemStatus(w, outbox[current[w]].item, ItemOutcome(w))
    BY <1>11 DEF RecordItem
  <2>2. answer[w] # "none" /\ tx[w].entry = NoEntry
    BY <1>0, <2>1 DEF WorkerHolds
  <2>3. outbox[current[w]].item \in Item /\ ItemOutcome(w) \in ItemStatus
    BY <1>0, <2>2, WorkerEntry DEF ItemOutcome, ItemStatus
  <2>4. /\ tx' = [tx EXCEPT ![w] = tx'[w]] /\ tx'[w] \in Transaction
        /\ tx'[w].item = outbox[current[w]].item
        /\ tx'[w].row = [items[outbox[current[w]].item] EXCEPT !.status = ItemOutcome(w)]
        /\ tx'[w].log = tx[w].log /\ tx'[w].entry = tx[w].entry
        /\ ~ItemLocked(outbox[current[w]].item)
    BY <1>0, <2>1, <2>3, LockItem
  <2>5. WorkerHolds(w)'
    BY <1>9, <2>1, <2>2, <2>4 DEF WorkerHolds, NoEntry
  <2>. QED  BY <1>2, <1>8, <2>1, <2>4, <2>5 DEF Alone
<1>12. CASE RecordEntry(w)
  <2>1. /\ UNCHANGED vars /\ tx[w].item # None /\ tx[w].entry = NoEntry
        /\ UpdateEntryStatus(w, current[w], EntryOutcome(w))
    BY <1>12 DEF RecordEntry
  <2>2. /\ tx[w].log /\ answer[w] # "none" /\ tx[w].item = outbox[current[w]].item
        /\ tx[w].row = [items[tx[w].item] EXCEPT !.status = ItemOutcome(w)]
    BY <1>0, <2>1 DEF WorkerHolds
  <2>3. current[w] \in Entry /\ EntryOutcome(w) \in OutboxStatus
    BY <1>0, <2>2, WorkerEntry DEF EntryOutcome, OutboxStatus
  <2>4. /\ tx' = [tx EXCEPT ![w] = tx'[w]] /\ tx'[w] \in Transaction
        /\ tx'[w].entry = current[w]
        /\ tx'[w].version = [outbox[current[w]] EXCEPT !.status = EntryOutcome(w)]
        /\ tx'[w].log = tx[w].log /\ tx'[w].item = tx[w].item /\ tx'[w].row = tx[w].row
        /\ ~EntryLocked(current[w])
    BY <1>0, <2>1, <2>3, LockEntry
  <2>5. WorkerHolds(w)'
    BY <1>9, <2>1, <2>2, <2>4 DEF WorkerHolds
  <2>. QED  BY <1>2, <1>8, <2>1, <2>4, <2>5 DEF Alone
<1>13. CASE RecordEnd(w)
  <2>1. /\ Close(w) /\ items' = CommittedItems(w) /\ outbox' = CommittedOutbox(w)
        /\ \A v \in Workers : v # w => /\ answer'[v] = answer[v] /\ current'[v] = current[v]
                                      /\ claimed'[v] = claimed[v]
    BY <1>0, <1>13 DEF RecordEnd, Done, WorkerTypeOK
  <2>2. /\ tx' = [tx EXCEPT ![w] = tx'[w]] /\ tx'[w] \in Transaction
        /\ tx'[w].item = None /\ tx'[w].entry = NoEntry /\ Holds(w)'
    BY <1>0, <2>1, Closed
  <2>3. ASSUME NEW q \in Process, q # w PROVE Quiet(q)
    <3>1. tx'[q] = tx[q]
      BY <1>0, <2>2, <2>3
    <3>2. /\ tx[q].item # None => items'[tx[q].item] = items[tx[q].item]
          /\ tx[q].entry # NoEntry => outbox'[tx[q].entry] = outbox[tx[q].entry]
      BY <1>0, <2>1, <2>3, OthersLocks
    <3>. QED  BY <1>1, <2>1, <2>3, <3>1, <3>2 DEF Quiet
  <2>. QED  BY <2>2, <2>3 DEF Alone
<1>. QED
  BY <1>5, <1>6, <1>7, <1>10, <1>11, <1>12, <1>13 DEF TxWorkerNext

LEMMA NextTxInv == TxInv /\ [TxNext]_txVars => TxInv'
<1> SUFFICES ASSUME TxInv, [TxNext]_txVars PROVE TxInv'
  OBVIOUS
<1>0. [Next]_vars
  BY TxStepSimulates
<1>1. ASSUME NEW c \in OrderClients, TxOrderNext(c), UNCHANGED <<sreq, workerVars, sapVars>>
      PROVE  TxInv'
  <2>1. tx' = tx
    BY <1>1 DEF TxOrderNext
  <2>. QED  BY <1>0, <1>1, <2>1, OrderQuiet, QuietTxInv
<1>2. ASSUME NEW c \in SyncClients, TxSyncNext(c), UNCHANGED <<oreq, workerVars, sapVars>>
      PROVE  TxInv'
  <2>1. c \in Process /\ Alone(c)
    BY <1>2, ClientAlone DEF Process
  <2>. QED  BY <1>0, <2>1, AloneTxInv
<1>3. ASSUME NEW w \in Workers, TxWorkerNext(w), UNCHANGED <<oreq, sreq>>
      PROVE  TxInv'
  <2>1. w \in Process /\ Alone(w)
    BY <1>3, WorkerAlone DEF Process
  <2>. QED  BY <1>0, <2>1, AloneTxInv
<1>4. CASE UNCHANGED txVars
  <2>1. tx' = tx /\ UNCHANGED <<items, outbox, sreq, answer, current, claimed>>
    BY <1>4 DEF txVars, vars, tables, workerVars
  <2>2. \A q \in Process : Quiet(q)
    BY <2>1 DEF Quiet
  <2>. QED  BY <1>0, <2>1, <2>2, QuietTxInv
<1>. QED  BY <1>1, <1>2, <1>3, <1>4 DEF TxNext

LEMMA TxInvariant == TxSpec => []TxInv
BY InitTxInv, NextTxInv, PTL DEF TxSpec
-----------------------------------------------------------------------------
\* A transaction holds only rows of the tables: the versions it has written
\* are rows, of an item and an entry that exist.
THEOREM TxTypeCorrect == TxSpec => []TxTypeOK
BY TxInvariant, PTL DEF TxInv

\* WithTransaction does what Backend supposes of it: with row locks from each
\* UPDATE to the commit, no interleaving of EnqueueSync's, CancelSync's and the
\* worker's statements with each other's or with an edit differs from the
\* transactions run whole.
THEOREM TransactionsAtomic == TxSpec => ImplementsBackend
<1>1. TxInit => Init
  BY DEF TxInit
<1>. QED  BY <1>1, TxInvariant, TxStepSimulates, PTL DEF TxSpec, ImplementsBackend, Spec

\* CancelSync locks the entry before the item and the worker the item before
\* the entry, and yet they never wait for each other: a cancel locks only
\* PENDING entries, and a worker only the PROCESSING entry that is its own.
THEOREM NoDeadlock == TxSpec => []NoWaitCycle
<1>1. TxInv => NoWaitCycle
  <2> SUFFICES ASSUME TxInv, NEW S \in (SUBSET Process) \ {{}}
               PROVE  \E p \in S : \A q \in S : ~WaitsFor(p, q)
    BY DEF NoWaitCycle
  <2>0. /\ ItemsInv /\ TypeOK /\ ClaimExclusive /\ LocksExclusive
        /\ \A p \in Process : Holds(p)
    BY DEF TxInv, ItemsInv, OutboxInv
  <2>1. \A c \in SyncClients : c \in Process /\ c \notin Workers /\ ClientHolds(c)
    BY <2>0, ProcessesAssumption DEF Holds, Process
  <2>2. \A w \in Workers : w \in Process /\ w \notin SyncClients /\ WorkerHolds(w)
    BY <2>0, ProcessesAssumption DEF Holds, Process
  <2>3. ASSUME NEW p \in S, tx[p].item # None PROVE \A q \in S : ~WaitsFor(p, q)
    <3>1. NeedsItem(p) = {}
      BY <2>1, <2>2, <2>3 DEF NeedsItem, Process
    <3>2. CASE p \in SyncClients
      <4>1. NeedsEntry(p) = {}
        BY <2>1, <2>3, <3>2 DEF NeedsEntry, ClientHolds
      <4>. QED  BY <3>1, <4>1 DEF WaitsFor
    <3>3. CASE p \in Workers
      <4>1. answer[p] # "none"
        BY <2>2, <2>3, <3>3 DEF WorkerHolds
      <4>2. /\ outbox[current[p]].status = "PROCESSING" /\ current[p] # NoEntry
            /\ claimed[p][current[p]] # 0 /\ current[p] \in Entry
        BY <2>0, <3>3, <4>1, WorkerEntry DEF TypeOK, WorkerTypeOK
      <4>3. ASSUME NEW q \in S, q # p, tx[q].entry = current[p] PROVE FALSE
        <5>1. CASE q \in SyncClients
          BY <2>1, <4>2, <4>3, <5>1 DEF ClientHolds
        <5>2. CASE q \in Workers
          <6>1. answer[q] # "none" /\ current[q] = current[p]
            BY <2>2, <4>2, <4>3, <5>2 DEF WorkerHolds
          <6>2. claimed[q][current[p]] # 0
            BY <2>0, <4>2, <5>2, <6>1 DEF TypeOK, WorkerTypeOK
          <6>. QED  BY <2>0, <3>3, <4>2, <4>3, <5>2, <6>2 DEF ClaimExclusive
        <5>. QED  BY <5>1, <5>2 DEF Process
      <4>4. NeedsEntry(p) \subseteq {current[p]}
        BY <2>2, <3>3 DEF NeedsEntry
      <4>. QED  BY <3>1, <4>3, <4>4 DEF WaitsFor
    <3>. QED  BY <3>2, <3>3 DEF Process
  <2>4. CASE \A q \in S : tx[q].item = None
    <3>1. ASSUME NEW p \in S, NEW q \in S PROVE tx[q].item \notin NeedsItem(p)
      <4>1. CASE p \in SyncClients
        <5>1. sreq[p].pc # "idle" => sreq[p].item \in Item
          BY <2>0, <4>1 DEF TypeOK, SyncTypeOK, SyncHolds
        <5>2. NeedsItem(p) \subseteq Item
          BY <2>1, <4>1, <5>1 DEF NeedsItem
        <5>. QED  BY <2>4, <5>2, NoneAssumption
      <4>2. CASE p \in Workers
        <5>1. tx[p].log => outbox[current[p]].item \in Item
          BY <2>0, <2>2, <4>2, WorkerEntry DEF WorkerHolds
        <5>2. NeedsItem(p) \subseteq Item
          BY <2>2, <4>2, <5>1 DEF NeedsItem
        <5>. QED  BY <2>4, <5>2, NoneAssumption
      <4>. QED  BY <4>1, <4>2 DEF Process
    <3>2. \A q \in S \cap Workers : tx[q].entry = NoEntry
      BY <2>2, <2>4 DEF WorkerHolds
    <3>3. ASSUME NEW p \in S, tx[p].entry # NoEntry PROVE NeedsEntry(p) = {}
      BY <2>1, <2>2, <3>2, <3>3 DEF NeedsEntry, Process
    <3>4. ASSUME NEW p \in S, \A q \in S : tx[q].entry = NoEntry
          PROVE  \A q \in S : tx[q].entry \notin NeedsEntry(p)
      <4>1. CASE p \in SyncClients
        <5>1. sreq[p].pc = "cancel" => sreq[p].entry # NoEntry
          BY <2>0, <4>1, MaxEntriesAssumption
          DEF TypeOK, SyncTypeOK, SyncHolds, Entry, NoEntry
        <5>. QED  BY <2>1, <3>4, <4>1, <5>1 DEF NeedsEntry
      <4>2. CASE p \in Workers
        BY <2>2, <2>4, <4>2 DEF NeedsEntry
      <4>. QED  BY <4>1, <4>2 DEF Process
    <3>5. \E p \in S : TRUE
      OBVIOUS
    <3>. QED  BY <3>1, <3>3, <3>4, <3>5 DEF WaitsFor
  <2>. QED  BY <2>3, <2>4
<1>. QED  BY <1>1, TxInvariant, PTL
=============================================================================
