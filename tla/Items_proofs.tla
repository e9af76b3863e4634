------------------------------ MODULE Items_proofs ------------------------------
(***************************************************************************)
(* What the statuses of items and orders guarantee for any numbers of      *)
(* clients and workers, however their statements interleave.               *)
(*                                                                         *)
(* Every step changes an item's status in one of five ways (ItemStep).     *)
(* ItemsInv says, besides the properties, what a handler may rely on of    *)
(* the rows it read some statements ago; it is inductive over those.       *)
(*                                                                         *)
(* The last part is about requests others may run into: resets where       *)
(* nobody edits, and, with the history of Overlaps, the items no two       *)
(* enqueues were about to insert an entry for at once.                     *)
(***************************************************************************)
EXTENDS Outbox_proofs, Overlaps, FiniteSetTheorems

\* What a step may do to the status of an item.
Inserted(i) == items[i].status = "ABSENT" /\ items'[i].status = "PENDING"

Saved(c, i) ==
    /\ oreq[c].pc = "save" /\ oreq[c].item = i /\ items'[i].status = oreq[c].status
    /\ oreq'[c] = OrderIdle

Reset(c, i) ==
    sreq[c].pc \in {"commit", "cancel"} /\ sreq[c].item = i /\ items'[i].status = "UPDATED"

Settled(w, i) ==
    /\ current[w] \in Entry /\ outbox[current[w]].item = i
    /\ \/ /\ items'[i].status = "SYNCED" /\ answer[w] = "accepted"
          /\ outbox' = WithEntryStatus(current[w], "COMPLETED")
       \/ /\ items'[i].status \in {"FAILED", "UPDATED"}
          /\ syncLogs' = Log(current[w], "FAILED")

ItemStep(i) ==
    \/ items'[i].status = items[i].status
    \/ Inserted(i)
    \/ \E c \in OrderClients : Saved(c, i)
    \/ \E c \in SyncClients : Reset(c, i)
    \/ \E w \in Workers : Settled(w, i)

\* The item of an entry is the one its enqueue read.
EntryItemStep(e) ==
    \/ outbox'[e].item = outbox[e].item
    \/ /\ ~Created(e)
       /\ \E c \in SyncClients : sreq[c].pc = "commit" /\ outbox'[e].item = sreq[c].item

\* What a change of one item's status changes.
LEMMA ItemStatusEffect ==
  ASSUME TypeOK, NEW i \in Item, NEW status, items' = WithItemStatus(i, status)
  PROVE  \A j \in Item : items'[j].status = IF j = i THEN status ELSE items[j].status
<1> DEFINE r == [items[i] EXCEPT !.status = status]
<1>1. r.status = status
  BY DEF TypeOK, TablesTypeOK, ItemRow
<1>2. items' = [items EXCEPT ![i] = r]
  BY DEF WithItemStatus
<1> HIDE DEF r
<1>. QED  BY <1>1, <1>2 DEF TypeOK, TablesTypeOK

\* Every step changes items so.
LEMMA ItemSteps ==
  ASSUME TypeOK, [Next]_vars, NEW i \in Item
  PROVE  ItemStep(i)
<1> USE DEF ItemStep
<1>0. ASSUME items' = items PROVE ItemStep(i)
  BY <1>0
<1>1. ASSUME NEW c \in OrderClients, OrderNext(c) PROVE ItemStep(i)
  <2>1. CASE AddItemInsert(c)
    <3>1. CASE items' = items
      BY <3>1
    <3>2. CASE /\ ~ItemExists(oreq[c].item)
               /\ items' = [items EXCEPT ![oreq[c].item] = NewItemRow(oreq[c].text)]
      <4>1. CASE i = oreq[c].item
        <5>1. items'[i] = NewItemRow(oreq[c].text)
          BY <3>2, <4>1 DEF TypeOK, TablesTypeOK
        <5>. QED  BY <3>2, <4>1, <5>1 DEF Inserted, ItemExists, NewItemRow
      <4>2. CASE i # oreq[c].item
        BY <3>2, <4>2 DEF TypeOK, TablesTypeOK
      <4>. QED  BY <4>1, <4>2
    <3>. QED  BY <2>1, <3>1, <3>2 DEF AddItemInsert
  <2>2. CASE UpdateItemWrite(c)
    <3> DEFINE row == [status |-> oreq[c].status, text |-> Merged(oreq[c].text, oreq[c].row)]
    <3>1. /\ items' = [items EXCEPT ![oreq[c].item] = row] /\ oreq[c].pc = "save"
          /\ oreq'[c] = OrderIdle
      BY <2>2 DEF UpdateItemWrite, EndOrder, TypeOK, OrderTypeOK
    <3>2. row.status = oreq[c].status
      OBVIOUS
    <3> HIDE DEF row
    <3>3. CASE i = oreq[c].item
      BY <3>1, <3>2, <3>3 DEF Saved, TypeOK, TablesTypeOK
    <3>4. CASE i # oreq[c].item
      BY <3>1, <3>4 DEF TypeOK, TablesTypeOK
    <3>. QED  BY <3>3, <3>4
  <2>. QED
    BY <1>0, <1>1, <2>1, <2>2
    DEF OrderNext, CreateOrder, UpdateOrder, UpdateOrderListItems, UpdateOrderWrite, AddItem,
        AddItemPromote, UpdateItem, UpdateItemRead, UpdateItemCurrent, OrderAbort, tables
<1>2. ASSUME NEW c \in SyncClients, SyncNext(c) PROVE ItemStep(i)
  <2>1. ASSUME sreq[c].pc \in {"commit", "cancel"},
               items' = WithItemStatus(sreq[c].item, "UPDATED")
        PROVE  ItemStep(i)
    <3>1. sreq[c].item \in Item
      BY <2>1 DEF TypeOK, SyncTypeOK, SyncHolds
    <3>2. items'[i].status = IF i = sreq[c].item THEN "UPDATED" ELSE items[i].status
      BY <2>1, <3>1, ItemStatusEffect
    <3>. QED  BY <2>1, <3>2 DEF Reset
  <2>2. CASE EnqueueCommit(c)
    BY <1>0, <2>1, <2>2 DEF EnqueueCommit
  <2>3. CASE CancelCommit(c)
    BY <2>1, <2>3 DEF CancelCommit
  <2>. QED
    BY <1>0, <1>2, <2>2, <2>3
    DEF SyncNext, EnqueueSync, EnqueueItem, EnqueueActive, CancelSync, CancelRefused,
        CancelReread, GetSyncStatus, GetLatestSyncStatus, ReadEntry, StatusLogs,
        StatusAnswer, SyncAbort, EntriesOf, tables
<1>3. ASSUME NEW w \in Workers, WorkerNext(w) PROVE ItemStep(i)
  <2>1. ASSUME NEW logged, NEW status, NEW newOutbox, answer[w] # "none",
               Record(w, logged, status, newOutbox),
               \/ /\ status = "SYNCED" /\ answer[w] = "accepted"
                  /\ newOutbox = WithEntryStatus(current[w], "COMPLETED")
               \/ status \in {"FAILED", "UPDATED"} /\ logged = "FAILED"
        PROVE  ItemStep(i)
    <3>1. current[w] \in Entry /\ claimed[w][current[w]] # 0
      BY <2>1, MaxEntriesAssumption DEF TypeOK, WorkerTypeOK, NoEntry, Entry
    <3>2. outbox[current[w]].item \in Item
      BY <3>1 DEF TypeOK, TablesTypeOK, WorkerTypeOK, Created
    <3>3. /\ items' = WithItemStatus(outbox[current[w]].item, status)
          /\ outbox' = newOutbox
          /\ syncLogs' = Log(current[w], logged)
      BY <2>1 DEF Record
    <3>4. items'[i].status = IF i = outbox[current[w]].item THEN status ELSE items[i].status
      BY <3>2, <3>3, ItemStatusEffect
    <3>. QED  BY <2>1, <3>1, <3>3, <3>4 DEF Settled
  <2>2. CASE RecordAccepted(w)
    BY <2>1, <2>2 DEF RecordAccepted, MarkCompleted
  <2>3. CASE RecordRejected(w)
    BY <2>1, <2>3 DEF RecordRejected
  <2>4. CASE RecordError(w)
    BY <2>1, <2>4 DEF RecordError
  <2>. QED
    BY <1>0, <1>3, <2>2, <2>3, <2>4
    DEF WorkerNext, Claim, ClaimPending, ClaimLost, Call, CallSAP, RecordFails, Crash, tables
<1>4. CASE UNCHANGED vars
  BY <1>0, <1>4 DEF vars, tables
<1>. QED
  BY <1>1, <1>2, <1>3, <1>4 DEF Next

\* Every step treats the item of an entry so.
LEMMA EntryItemSteps ==
  ASSUME TypeOK, [Next]_vars, NEW e \in Entry
  PROVE  EntryItemStep(e)
<1> USE DEF EntryItemStep
<1>0. ASSUME outbox' = outbox PROVE EntryItemStep(e)
  BY <1>0
<1>1. ASSUME NEW d \in Entry, NEW status, outbox' = WithEntryStatus(d, status)
      PROVE  EntryItemStep(e)
  <2> DEFINE r == [outbox[d] EXCEPT !.status = status]
  <2>1. r.item = outbox[d].item
    BY DEF TypeOK, TablesTypeOK, OutboxRow
  <2>2. outbox' = [outbox EXCEPT ![d] = r]
    BY <1>1 DEF WithEntryStatus
  <2> HIDE DEF r
  <2>. QED  BY <2>1, <2>2 DEF TypeOK, TablesTypeOK
<1>2. ASSUME NEW c \in SyncClients, SyncNext(c) PROVE EntryItemStep(e)
  <2>1. CASE EnqueueCommit(c)
    <3>1. PICK d \in Entry : FreeEntry(d) /\ outbox' = WithNewEntry(d, sreq[c].item, sreq[c].payload)
      BY <2>1 DEF EnqueueCommit
    <3>2. CASE d = e
      <4>1. outbox'[e].item = sreq[c].item
        BY <3>1, <3>2 DEF WithNewEntry, TypeOK, TablesTypeOK
      <4>. QED  BY <2>1, <3>1, <3>2, <4>1 DEF EnqueueCommit, FreeEntry
    <3>3. CASE d # e
      BY <3>1, <3>3 DEF WithNewEntry, TypeOK, TablesTypeOK
    <3>. QED  BY <3>2, <3>3
  <2>2. CASE CancelCommit(c)
    <3>1. sreq[c].entry \in Entry
      BY <2>2 DEF CancelCommit, TypeOK, SyncTypeOK, SyncHolds
    <3>. QED  BY <1>1, <2>2, <3>1 DEF CancelCommit
  <2>. QED
    BY <1>0, <1>2, <2>1, <2>2
    DEF SyncNext, EnqueueSync, EnqueueItem, EnqueueActive, CancelSync, CancelRefused,
        CancelReread, GetSyncStatus, GetLatestSyncStatus, ReadEntry, StatusLogs,
        StatusAnswer, SyncAbort, EntriesOf, tables
<1>3. ASSUME NEW w \in Workers, WorkerNext(w) PROVE EntryItemStep(e)
  <2>1. ASSUME NEW locked, outbox' = WithClaimed(Oldest(Claimable \ locked, BatchSize))
        PROVE  EntryItemStep(e)
    <3> DEFINE S == Oldest(Claimable \ locked, BatchSize)
    <3>1. S \in SUBSET Claimable
      BY OldestSubset
    <3> HIDE DEF S
    <3>2. WithClaimed(S)[e].item = outbox[e].item
      BY <3>1, ClaimedTypes
    <3>. QED  BY <2>1, <3>2 DEF S
  <2>2. ASSUME NEW logged, NEW status, NEW itemStatus, answer[w] # "none",
               Record(w, logged, itemStatus, WithEntryStatus(current[w], status))
        PROVE  EntryItemStep(e)
    BY <1>1, <2>2 DEF Record, TypeOK, WorkerTypeOK
  <2>3. CASE RecordAccepted(w) \/ RecordRejected(w) \/ RecordError(w)
    BY <2>2, <2>3 DEF RecordAccepted, RecordRejected, RecordError, MarkCompleted, MarkFailed
  <2>4. ASSUME NEW locked, ClaimPending(w, locked) \/ ClaimLost(w, locked)
        PROVE  EntryItemStep(e)
    BY <2>1, <2>4 DEF ClaimPending, ClaimLost
  <2>5. CASE Call(w) \/ RecordFails(w) \/ Crash(w)
    BY <1>0, <2>5 DEF Call, CallSAP, RecordFails, Crash, tables
  <2>. QED
    BY <1>3, <2>3, <2>4, <2>5 DEF WorkerNext, Claim
<1>4. ASSUME NEW c \in OrderClients, OrderNext(c) PROVE outbox' = outbox
  BY <1>4 DEF OrderNext, CreateOrder, UpdateOrder, UpdateOrderListItems, UpdateOrderWrite,
              AddItem, AddItemInsert, AddItemPromote, UpdateItem, UpdateItemRead,
              UpdateItemCurrent, UpdateItemWrite, OrderAbort, tables
<1>5. CASE UNCHANGED vars
  BY <1>0, <1>5 DEF vars, tables
<1>. QED
  BY <1>0, <1>2, <1>3, <1>4, <1>5 DEF Next

\* What the history of an entry keeps: its attempts and its logs only grow.
Grows(e) ==
    /\ Created(e) => Created(e)'
    /\ outbox'[e].attempts >= outbox[e].attempts
    /\ Len(syncLogs'[e]) >= Len(syncLogs[e])
    /\ \A n \in 1 .. Len(syncLogs[e]) : syncLogs'[e][n] = syncLogs[e][n]

LEMMA EntriesGrow ==
  ASSUME OutboxInv, OutboxStep, NEW d \in Entry
  PROVE  Grows(d)
<1> USE DEF OutboxInv, Grows, Created
<1>0. /\ outbox[d].attempts \in Nat /\ syncLogs[d] \in Seq(SyncStatus) /\ Len(syncLogs[d]) \in Nat
      /\ outbox[d] \in OutboxRow
  BY MaxAttemptsAssumption DEF TypeOK, TablesTypeOK, OutboxRow
<1>1. ASSUME outbox'[d] = outbox[d], syncLogs'[d] = syncLogs[d] PROVE Grows(d)
  BY <1>0, <1>1
<1>2. ASSUME NEW e \in Entry, Accepted(e) PROVE Grows(d)
  <2>1. PICK i \in Item, p \in Text : outbox' = WithNewEntry(e, i, p)
    BY <1>2 DEF Accepted
  <2>2. CASE d = e
    <3>1. outbox'[e].attempts = 0 /\ outbox'[e].status = "PENDING" /\ outbox[e].attempts = 0
      BY <1>2, <2>1 DEF WithNewEntry, Accepted, AbsentIsBlank, TypeOK, TablesTypeOK
    <3>. QED  BY <1>0, <1>2, <2>2, <3>1 DEF Accepted, untouched
  <2>3. CASE d # e
    BY <1>1, <1>2, <2>1, <2>3 DEF WithNewEntry, Accepted, untouched, TypeOK, TablesTypeOK
  <2>. QED  BY <2>2, <2>3
<1>3. ASSUME NEW e \in Entry, NEW status, status # "ABSENT",
             outbox' = WithEntryStatus(e, status), syncLogs' = syncLogs
      PROVE  Grows(d)
  BY <1>0, <1>3, EntryStatusEffect
<1>4. ASSUME NEW S \in SUBSET Claimable, outbox' = WithClaimed(S), syncLogs' = syncLogs
      PROVE  Grows(d)
  <2>1. /\ outbox'[d].attempts = IF d \in S THEN outbox[d].attempts + 1 ELSE outbox[d].attempts
        /\ outbox'[d].status = IF d \in S THEN "PROCESSING" ELSE outbox[d].status
    BY <1>4, ClaimedTypes
  <2>. QED  BY <1>0, <1>4, <2>1
<1>5. ASSUME NEW w \in Workers, NEW logged \in SyncStatus, NEW status \in OutboxStatus,
             Recorded(w, logged, status)
      PROVE  Grows(d)
  <2>1. /\ current[w] \in Entry /\ status # "ABSENT"
        /\ outbox' = WithEntryStatus(current[w], status)
        /\ syncLogs' = Log(current[w], logged)
    BY <1>5 DEF Recorded, OutboxStatus
  <2>2. /\ outbox'[d].attempts = outbox[d].attempts
        /\ outbox'[d].status = "ABSENT" => outbox[d].status = "ABSENT"
    BY <2>1, EntryStatusEffect
  <2>3. CASE d = current[w]
    <3>1. syncLogs'[d] = Append(syncLogs[d], logged)
      BY <2>1, <2>3 DEF Log, TypeOK, TablesTypeOK
    <3>2. /\ Len(syncLogs'[d]) = Len(syncLogs[d]) + 1
          /\ \A n \in 1 .. Len(syncLogs[d]) : syncLogs'[d][n] = syncLogs[d][n]
      BY <1>0, <3>1
    <3>. QED  BY <1>0, <2>2, <3>2
  <2>4. CASE d # current[w]
    <3>1. syncLogs'[d] = syncLogs[d]
      BY <2>1, <2>4 DEF Log, TypeOK, TablesTypeOK
    <3>. QED  BY <1>0, <2>2, <3>1
  <2>. QED  BY <2>3, <2>4
<1>. QED
  BY <1>1, <1>2, <1>3, <1>4, <1>5
  DEF OutboxStep, Kept, Withdrawn, TakenBy, TakenLost, Called, Dropped, Stopped, untouched

\* What TerminalItemHasEvidence says of an item with the status s.
Evidence(i, s) ==
    /\ s = "SYNCED" => \E e \in EntriesOf(i) : outbox[e].status = "COMPLETED"
    /\ s = "FAILED" => \E e \in EntriesOf(i) : \E n \in 1 .. Len(syncLogs[e]) :
                          syncLogs[e][n] = "FAILED"

\* Evidence does not go away.
LEMMA EvidenceStays ==
  ASSUME OutboxInv, [Next]_vars, NEW i \in Item, NEW s, Evidence(i, s)
  PROVE  Evidence(i, s)'
<1>0. TypeOK /\ OutboxStep
  BY StepKinds DEF OutboxInv
<1>1. ASSUME NEW e \in EntriesOf(i), Created(e) PROVE e \in EntriesOf(i)'
  BY <1>0, <1>1, EntryItemSteps DEF EntriesOf, EntryItemStep
<1>2. ASSUME NEW e \in EntriesOf(i), outbox[e].status = "COMPLETED"
      PROVE  e \in EntriesOf(i)' /\ outbox'[e].status = "COMPLETED"
  <2>1. e \in Entry /\ Created(e) /\ Finished(e)
    BY <1>2 DEF EntriesOf, Created, Finished
  <2>. QED  BY <1>0, <1>1, <1>2, <2>1, StepFinished
<1>3. ASSUME NEW e \in EntriesOf(i), NEW n \in 1 .. Len(syncLogs[e]), syncLogs[e][n] = "FAILED"
      PROVE  e \in EntriesOf(i)' /\ n \in 1 .. Len(syncLogs'[e]) /\ syncLogs'[e][n] = "FAILED"
  <2>0. e \in Entry
    BY DEF EntriesOf
  <2>1. Grows(e)
    BY <1>0, <2>0, EntriesGrow
  <2>2. Created(e)
    <3>1. Len(syncLogs[e]) \in Nat /\ outbox[e].attempts \in Nat
      BY <2>0, MaxAttemptsAssumption DEF OutboxInv, TypeOK, TablesTypeOK, OutboxRow
    <3>2. Len(syncLogs[e]) <= outbox[e].attempts
      BY <2>0, <3>1 DEF OutboxInv, AuditComplete
    <3>. QED  BY <2>0, <3>1, <3>2 DEF OutboxInv, AbsentIsBlank
  <2>3. syncLogs'[e] \in Seq(SyncStatus) /\ syncLogs[e] \in Seq(SyncStatus)
    BY <2>0, NextOutboxInv DEF OutboxInv, TypeOK, TablesTypeOK
  <2>4. n \in 1 .. Len(syncLogs'[e]) /\ syncLogs'[e][n] = "FAILED"
    BY <1>3, <2>1, <2>3 DEF Grows
  <2>. QED  BY <1>1, <2>2, <2>4
<1>. QED  BY <1>2, <1>3 DEF Evidence

-----------------------------------------------------------------------------
Edited(i) == items[i].status \notin {"ABSENT", "PENDING"}

\* What the handlers may rely on of the rows they have read: an item once read
\* as edited stays so, and the status an edit is about to write back is one
\* there is evidence for, however old it is.
SyncReliesOn(c) ==
    /\ sreq[c].pc \in {"active", "commit"} => Edited(sreq[c].item)
    /\ sreq[c].pc \in {"cancel", "reread", "logs", "answered"} =>
           Created(sreq[c].entry) /\ outbox[sreq[c].entry].item = sreq[c].item

OrderReliesOn(c) ==
    /\ oreq[c].pc \in {"current", "save"} => ItemExists(oreq[c].item)
    /\ oreq[c].pc = "current" => oreq[c].promote \/ Edited(oreq[c].item)
    /\ oreq[c].pc = "save" => /\ oreq[c].status \notin {"ABSENT", "PENDING"}
                              /\ Evidence(oreq[c].item, oreq[c].status)

EntriesEdited == \A e \in Entry : outbox[e].item \in Item => Edited(outbox[e].item)

ItemsInv ==
    /\ OutboxInv
    /\ EntriesEdited
    /\ \A i \in Item : Evidence(i, items[i].status)
    /\ \A c \in SyncClients : SyncReliesOn(c)
    /\ \A c \in OrderClients : OrderReliesOn(c)

LEMMA InitItemsInv == Init => ItemsInv
<1> SUFFICES ASSUME Init PROVE ItemsInv
  OBVIOUS
<1>1. OutboxInv
  BY InitOutboxInv
<1>2. EntriesEdited
  BY NoneAssumption DEF EntriesEdited, Init, TablesInit, NoRow
<1>3. \A i \in Item : Evidence(i, items[i].status)
  BY SeedItemAssumption DEF Evidence, Init, TablesInit
<1>4. \A c \in SyncClients : SyncReliesOn(c)
  BY DEF SyncReliesOn, Init, SyncInit, SyncIdle
<1>5. \A c \in OrderClients : OrderReliesOn(c)
  BY DEF OrderReliesOn, Init, OrderInit, OrderIdle
<1>. QED  BY <1>1, <1>2, <1>3, <1>4, <1>5 DEF ItemsInv

\* An item stays what its handlers have seen of it.
LEMMA ItemsStay ==
  ASSUME ItemsInv, [Next]_vars, NEW i \in Item
  PROVE  /\ ItemExists(i) => ItemExists(i)'
         /\ Edited(i) => Edited(i)'
<1>0. TypeOK
  BY DEF ItemsInv, OutboxInv
<1>1. ASSUME NEW c \in OrderClients, Saved(c, i) PROVE Edited(i)'
  BY <1>1 DEF ItemsInv, OrderReliesOn, Saved, Edited
<1>2. ItemStep(i)
  BY <1>0, ItemSteps
<1>. QED  BY <1>1, <1>2 DEF ItemStep, Inserted, Reset, Settled, Edited, ItemExists

\* A worker's outcome is its item's evidence.
LEMMA SettledEvidence ==
  ASSUME ItemsInv, [Next]_vars, NEW i \in Item, NEW w \in Workers, Settled(w, i)
  PROVE  Evidence(i, items[i].status)'
<1> DEFINE e == current[w]
<1>0. TypeOK /\ e \in Entry /\ outbox[e].item = i
  BY DEF ItemsInv, OutboxInv, Settled
<1>1. Created(e)
  <2>1. claimed[w][e] # 0
    BY <1>0, MaxEntriesAssumption DEF TypeOK, WorkerTypeOK, NoEntry, Entry
  <2>. QED  BY <1>0, <2>1 DEF TypeOK, WorkerTypeOK
<1>2. e \in EntriesOf(i)'
  BY <1>0, <1>1, EntryItemSteps DEF EntriesOf, EntryItemStep
<1>3. CASE items'[i].status = "SYNCED" /\ outbox' = WithEntryStatus(e, "COMPLETED")
  <2>1. outbox'[e].status = "COMPLETED"
    BY <1>0, <1>3, EntryStatusEffect
  <2>. QED  BY <1>2, <1>3, <2>1 DEF Evidence
<1>4. CASE items'[i].status \in {"FAILED", "UPDATED"} /\ syncLogs' = Log(e, "FAILED")
  <2>1. syncLogs[e] \in Seq(SyncStatus) /\ syncLogs'[e] = Append(syncLogs[e], "FAILED")
    BY <1>0, <1>4 DEF Log, TypeOK, TablesTypeOK
  <2> DEFINE n == Len(syncLogs[e]) + 1
  <2>2. n \in 1 .. Len(syncLogs'[e]) /\ syncLogs'[e][n] = "FAILED"
    BY <2>1
  <2>. QED  BY <1>2, <1>4, <2>2 DEF Evidence
<1>. QED  BY <1>3, <1>4 DEF Settled

LEMMA StepEvidence ==
  ASSUME ItemsInv, [Next]_vars, NEW i \in Item
  PROVE  Evidence(i, items[i].status)'
<1>0. OutboxInv /\ TypeOK
  BY DEF ItemsInv, OutboxInv
<1>1. CASE items'[i].status = items[i].status
  <2>1. PICK s \in ItemStatus \cup {"ABSENT"} : s = items[i].status
    BY <1>0 DEF TypeOK, TablesTypeOK, ItemRow
  <2>2. Evidence(i, s)
    BY <2>1 DEF ItemsInv
  <2>3. Evidence(i, s)'
    BY <1>0, <2>2, EvidenceStays
  <2>. QED  BY <1>1, <2>1, <2>3 DEF Evidence
<1>2. CASE items'[i].status \in {"PENDING", "UPDATED"}
  BY <1>2 DEF Evidence
<1>3. ASSUME NEW c \in OrderClients, Saved(c, i) PROVE Evidence(i, items[i].status)'
  <2>1. PICK s \in ItemStatus \cup {"ABSENT"} : s = oreq[c].status
    BY <1>0, <1>3 DEF Saved, TypeOK, OrderTypeOK, OrderHolds
  <2>2. Evidence(i, s) /\ items'[i].status = s
    BY <1>3, <2>1 DEF ItemsInv, OrderReliesOn, Saved
  <2>3. Evidence(i, s)'
    BY <1>0, <2>2, EvidenceStays
  <2>. QED  BY <2>2, <2>3 DEF Evidence
<1>. QED
  BY <1>0, <1>1, <1>2, <1>3, ItemSteps, SettledEvidence DEF ItemStep, Inserted, Reset

LEMMA StepEntriesEdited ==
  ASSUME ItemsInv, [Next]_vars
  PROVE  EntriesEdited'
<1> SUFFICES ASSUME NEW e \in Entry, NEW i \in Item, i = outbox'[e].item
             PROVE  Edited(i)'
  BY DEF EntriesEdited, Edited
<1>0. TypeOK
  BY DEF ItemsInv, OutboxInv
<1>1. Edited(i)
  <2>1. CASE outbox'[e].item = outbox[e].item
    BY <2>1 DEF ItemsInv, EntriesEdited
  <2>2. CASE outbox'[e].item # outbox[e].item
    <3>1. PICK c \in SyncClients : sreq[c].pc = "commit" /\ outbox'[e].item = sreq[c].item
      BY <1>0, <2>2, EntryItemSteps DEF EntryItemStep
    <3>. QED  BY <3>1 DEF ItemsInv, SyncReliesOn
  <2>. QED  BY <2>1, <2>2
<1>. QED  BY <1>1, ItemsStay

\* The sync requests keep relying on what they have read.
LEMMA StepSyncRelies ==
  ASSUME ItemsInv, [Next]_vars, NEW c \in SyncClients
  PROVE  SyncReliesOn(c)'
<1>0. TypeOK /\ OutboxInv /\ OutboxStep /\ SyncReliesOn(c)
  BY StepKinds DEF ItemsInv, OutboxInv
<1>1. ASSUME NEW i \in Item, Edited(i) PROVE Edited(i)'
  BY <1>1, ItemsStay
<1>2. ASSUME NEW e \in Entry, Created(e)
      PROVE  Created(e)' /\ outbox'[e].item = outbox[e].item
  BY <1>0, <1>2, EntriesGrow, EntryItemSteps DEF Grows, EntryItemStep
<1>3. CASE sreq'[c] = sreq[c]
  <2>1. sreq[c].pc \in {"active", "commit"} => sreq[c].item \in Item
    BY <1>0 DEF TypeOK, SyncTypeOK, SyncHolds
  <2>2. sreq[c].pc \in {"cancel", "reread", "logs", "answered"} => sreq[c].entry \in Entry
    BY <1>0 DEF TypeOK, SyncTypeOK, SyncHolds
  <2>3. ASSUME NEW i \in Item, i = sreq[c].item, sreq[c].pc \in {"active", "commit"}
        PROVE  Edited(i)'
    BY <1>0, <1>1, <2>3 DEF SyncReliesOn
  <2>. QED  BY <1>0, <1>2, <1>3, <2>1, <2>2, <2>3 DEF SyncReliesOn, Created, Edited
<1>4. CASE SyncNext(c) /\ UNCHANGED <<oreq, workerVars, sapVars>>
  <2> USE DEF SyncReliesOn
  <2>0. sreq \in [SyncClients -> SyncRequest] /\ SyncHolds(sreq[c])
    BY <1>0 DEF TypeOK, SyncTypeOK
  <2>1. CASE EndSync(c)
    BY <2>0, <2>1 DEF EndSync, SyncIdle
  <2>2. ASSUME NEW i \in Item, EnqueueSync(c, i) PROVE SyncReliesOn(c)'
    BY <2>0, <2>2 DEF EnqueueSync, SyncIdle
  <2>3. CASE EnqueueItem(c)
    <3>1. CASE CanSync(items[sreq[c].item].status) /\ ~EndSync(c)
      <4>1. /\ sreq'[c].pc = "active" /\ sreq'[c].item = sreq[c].item
            /\ UNCHANGED items
        BY <2>0, <2>3, <3>1 DEF EnqueueItem, SyncRequest, tables
      <4>. QED  BY <3>1, <4>1 DEF CanSync, Edited
    <3>. QED  BY <2>1, <2>3, <3>1 DEF EnqueueItem
  <2>4. CASE EnqueueActive(c)
    <3>1. CASE ~EndSync(c)
      <4>1. /\ sreq'[c].pc = "commit" /\ sreq'[c].item = sreq[c].item
            /\ sreq[c].pc = "active" /\ UNCHANGED items
        BY <2>0, <2>4, <3>1 DEF EnqueueActive, SyncRequest, tables
      <4>. QED  BY <1>0, <4>1 DEF Edited
    <3>. QED  BY <2>1, <3>1
  <2>5. ASSUME NEW e \in Entry, CancelSync(c, e) \/ ReadEntry(c, e) PROVE SyncReliesOn(c)'
    <3>1. /\ sreq'[c].pc \in {"cancel", "logs", "answered"}
          /\ sreq'[c].entry = e /\ sreq'[c].item = outbox[e].item
          /\ Created(e) /\ UNCHANGED outbox
      BY <2>0, <2>5 DEF CancelSync, ReadEntry, SyncIdle, tables
    <3>. QED  BY <3>1 DEF Created
  <2>6. CASE CancelRefused(c) \/ StatusLogs(c)
    <3>1. /\ sreq[c].pc \in {"cancel", "logs"} /\ sreq'[c].pc \in {"reread", "answered"}
          /\ sreq'[c].entry = sreq[c].entry /\ sreq'[c].item = sreq[c].item
          /\ UNCHANGED outbox
      BY <2>0, <2>6 DEF CancelRefused, StatusLogs, SyncRequest, tables
    <3>. QED  BY <1>0, <3>1 DEF Created
  <2>. QED
    BY <1>4, <2>1, <2>2, <2>3, <2>4, <2>5, <2>6
    DEF SyncNext, EnqueueCommit, CancelCommit, CancelReread, GetSyncStatus,
        GetLatestSyncStatus, StatusAnswer, SyncAbort, EntriesOf
<1>5. CASE \E d \in SyncClients : d # c /\ SyncNext(d)
  <2> PICK d \in SyncClients : d # c /\ SyncNext(d)
    BY <1>5
  <2>1. sreq'[c] = sreq[c]
    BY <1>0
    DEF SyncNext, EnqueueSync, EnqueueItem, EnqueueActive, EnqueueCommit, CancelSync,
        CancelCommit, CancelRefused, CancelReread, GetSyncStatus, GetLatestSyncStatus,
        ReadEntry, StatusLogs, StatusAnswer, SyncAbort, EntriesOf, EndSync, TypeOK, SyncTypeOK
  <2>. QED  BY <1>3, <2>1
<1>. QED
  BY <1>3, <1>4, <1>5 DEF Next, vars

\* So do the order requests.
LEMMA StepOrderRelies ==
  ASSUME ItemsInv, [Next]_vars, NEW c \in OrderClients
  PROVE  OrderReliesOn(c)'
<1>0. TypeOK /\ OutboxInv /\ OrderReliesOn(c)
  BY DEF ItemsInv, OutboxInv
<1>1. oreq \in [OrderClients -> OrderRequest] /\ OrderHolds(oreq[c])
  BY <1>0 DEF TypeOK, OrderTypeOK
<1>2. CASE oreq'[c] = oreq[c]
  <2>1. ASSUME oreq[c].pc \in {"current", "save"} PROVE oreq[c].item \in Item
    BY <1>1, <2>1 DEF OrderHolds
  <2>2. ASSUME NEW i \in Item, NEW s, i = oreq[c].item, s = oreq[c].status,
               oreq[c].pc = "save"
        PROVE  Evidence(i, s)'
    BY <1>0, <2>2, EvidenceStays DEF OrderReliesOn
  <2>3. oreq[c].pc = "save" => Evidence(oreq[c].item, oreq[c].status)'
    <3> SUFFICES ASSUME oreq[c].pc = "save"
                 PROVE  Evidence(oreq[c].item, oreq[c].status)'
      OBVIOUS
    <3>1. PICK i \in Item, s \in ItemStatus \cup {"ABSENT"} : i = oreq[c].item /\ s = oreq[c].status
      BY <1>1 DEF OrderHolds
    <3>2. Evidence(i, s)'
      BY <2>2, <3>1
    <3>. QED  BY <1>2, <3>1, <3>2
  <2>4. ASSUME NEW i \in Item, i = oreq[c].item
        PROVE  /\ ItemExists(i) => items'[i].status # "ABSENT"
               /\ Edited(i) => items'[i].status \notin {"ABSENT", "PENDING"}
    BY ItemsStay DEF ItemExists, Edited
  <2>. QED  BY <1>0, <1>2, <2>1, <2>3, <2>4 DEF OrderReliesOn, ItemExists, Edited
<1>3. CASE OrderNext(c)
  <2> USE DEF OrderReliesOn
  <2>1. CASE EndOrder(c)
    BY <1>1, <2>1 DEF EndOrder, OrderIdle
  <2>2. CASE oreq'[c].pc \notin {"current", "save"}
    BY <2>2
  <2>3. CASE UpdateItemRead(c)
    <3>1. CASE ~EndOrder(c)
      <4>1. /\ oreq'[c].pc = "current" /\ oreq'[c].item = oreq[c].item
            /\ oreq'[c].promote = ShouldPromoteOnEdit(items[oreq[c].item].status)
            /\ ItemExists(oreq[c].item) /\ UNCHANGED items
        BY <1>1, <2>3, <3>1 DEF UpdateItemRead, OrderRequest, tables
      <4>2. items[oreq[c].item].status \in ItemStatus \cup {"ABSENT"}
        BY <1>0, <1>1, <2>3 DEF UpdateItemRead, OrderHolds, TypeOK, TablesTypeOK, ItemRow
      <4>. QED  BY <4>1, <4>2 DEF ShouldPromoteOnEdit, ItemExists, Edited, ItemStatus
    <3>. QED  BY <2>1, <3>1
  <2>4. CASE UpdateItemCurrent(c)
    <3>1. /\ oreq[c].pc = "current" /\ oreq'[c].pc = "save"
          /\ oreq'[c].item = oreq[c].item
          /\ oreq'[c].status = IF oreq[c].promote THEN "UPDATED"
                               ELSE items[oreq[c].item].status
          /\ UNCHANGED <<items, outbox, syncLogs>>
      BY <1>1, <2>4 DEF UpdateItemCurrent, OrderRequest, tables
    <3>2. ItemExists(oreq[c].item) /\ (oreq[c].promote \/ Edited(oreq[c].item))
      BY <1>0, <3>1
    <3>3. oreq[c].item \in Item
      BY <1>1, <3>1 DEF OrderHolds
    <3>4. Evidence(oreq[c].item, oreq'[c].status)
      BY <3>1, <3>3 DEF ItemsInv, Evidence
    <3>5. Evidence(oreq[c].item, oreq[c].status)'
      BY <3>1, <3>4 DEF Evidence, EntriesOf
    <3>. QED  BY <3>1, <3>2, <3>5 DEF ItemExists, Edited
  <2>5. ASSUME NEW o \in Order, NEW s, UpdateOrder(c, o, s) PROVE OrderReliesOn(c)'
    BY <1>1, <2>2, <2>5 DEF UpdateOrder, OrderIdle
  <2>7. ASSUME NEW i \in Item, NEW t, AddItem(c, i, t) \/ UpdateItem(c, i, t)
        PROVE  OrderReliesOn(c)'
    BY <1>1, <2>2, <2>7 DEF AddItem, UpdateItem, OrderIdle
  <2>8. CASE UpdateOrderListItems(c) \/ AddItemInsert(c)
    BY <1>1, <2>1, <2>2, <2>8 DEF UpdateOrderListItems, AddItemInsert, OrderRequest
  <2>6. ASSUME NEW o \in Order, CreateOrder(c, o) PROVE OrderReliesOn(c)'
    BY <1>2, <2>6 DEF CreateOrder
  <2>. QED
    BY <1>3, <2>1, <2>3, <2>4, <2>5, <2>6, <2>7, <2>8
    DEF OrderNext, UpdateOrderWrite, AddItemPromote, UpdateItemWrite, OrderAbort
<1>4. ASSUME NEW d \in OrderClients, d # c, OrderNext(d) PROVE oreq'[c] = oreq[c]
  BY <1>1, <1>4
  DEF OrderNext, CreateOrder, UpdateOrder, UpdateOrderListItems, UpdateOrderWrite, AddItem,
      AddItemInsert, AddItemPromote, UpdateItem, UpdateItemRead, UpdateItemCurrent,
      UpdateItemWrite, OrderAbort, EndOrder
<1>. QED
  BY <1>2, <1>3, <1>4 DEF Next, vars

LEMMA NextItemsInv == ItemsInv /\ [Next]_vars => ItemsInv'
<1> SUFFICES ASSUME ItemsInv, [Next]_vars PROVE ItemsInv'
  OBVIOUS
<1>1. OutboxInv'
  BY NextOutboxInv DEF ItemsInv
<1>2. \A i \in Item : Evidence(i, items[i].status)'
  BY StepEvidence
<1>. QED
  BY <1>1, <1>2, StepEntriesEdited, StepSyncRelies, StepOrderRelies DEF ItemsInv

LEMMA ItemsInvariant == Spec => []ItemsInv
BY InitItemsInv, NextItemsInv, PTL DEF Spec

\* CanSync refuses PENDING, and no later step makes an item PENDING again, so
\* the unchecked insert of EnqueueSync never queues an item nobody has edited.
THEOREM PendingUntouched == Spec => []PendingItemUntouched
<1>1. ItemsInv => PendingItemUntouched
  BY DEF ItemsInv, EntriesEdited, Edited, PendingItemUntouched, EntriesOf
<1>. QED  BY <1>1, ItemsInvariant, PTL

\* Whatever status itemRepository.Update writes back, and however late, SYNCED
\* and FAILED always have the entry and the log they came from.
THEOREM TerminalEvidence == Spec => []TerminalItemHasEvidence
<1>1. ItemsInv => TerminalItemHasEvidence
  BY DEF ItemsInv, Evidence, TerminalItemHasEvidence
<1>. QED  BY <1>1, ItemsInvariant, PTL

\* An item is taken back to UPDATED only with its entry: the requeue with the
\* insert, the cancel and the retry with the entry's new status.
LEMMA ResetsQueue ==
  ASSUME ItemsInv, [Next]_vars, OrderClients = {}, NEW i \in Item,
         items[i].status \in TerminalItemStatus, items'[i].status = "UPDATED"
  PROVE  \E e \in Entry :
            /\ outbox'[e].item = i
            /\ outbox'[e].status \in {"PENDING", "CANCELLED"}
            /\ outbox'[e] # outbox[e]
<1>0. TypeOK /\ ClaimExclusive /\ items' # items
  BY DEF ItemsInv, OutboxInv, TerminalItemStatus
<1>1. ASSUME NEW e \in Entry, NEW status \in {"PENDING", "CANCELLED"},
             outbox' = WithEntryStatus(e, status), outbox[e].status # status
      PROVE  /\ outbox'[e].item = outbox[e].item
             /\ outbox'[e].status = status
             /\ outbox'[e] # outbox[e]
  <2> DEFINE r == [outbox[e] EXCEPT !.status = status]
  <2>1. r.item = outbox[e].item /\ r.status = status
    BY <1>0 DEF TypeOK, TablesTypeOK, OutboxRow
  <2>2. outbox' = [outbox EXCEPT ![e] = r]
    BY <1>1 DEF WithEntryStatus
  <2> HIDE DEF r
  <2>3. outbox'[e] = r
    BY <1>0, <2>2 DEF TypeOK, TablesTypeOK
  <2>. QED  BY <1>1, <2>1, <2>3
<1>2. ASSUME NEW c \in SyncClients, EnqueueCommit(c)
      PROVE  \E e \in Entry : /\ outbox'[e].item = i /\ outbox'[e].status = "PENDING"
                             /\ outbox'[e] # outbox[e]
  <2>1. sreq[c].item \in Item
    BY <1>0, <1>2 DEF EnqueueCommit, TypeOK, SyncTypeOK, SyncHolds
  <2>2. sreq[c].item = i
    BY <1>0, <1>2, <2>1, ItemStatusEffect DEF EnqueueCommit, TerminalItemStatus
  <2>3. PICK e \in Entry : FreeEntry(e) /\ outbox' = WithNewEntry(e, i, sreq[c].payload)
    BY <1>2, <2>2 DEF EnqueueCommit
  <2>4. outbox'[e] = [status |-> "PENDING", item |-> i, attempts |-> 0, payload |-> sreq[c].payload]
    BY <1>0, <2>3 DEF WithNewEntry, TypeOK, TablesTypeOK
  <2>. QED  BY <2>3, <2>4 DEF FreeEntry, Created
<1>3. ASSUME NEW c \in SyncClients, CancelCommit(c)
      PROVE  \E e \in Entry : /\ outbox'[e].item = i /\ outbox'[e].status = "CANCELLED"
                             /\ outbox'[e] # outbox[e]
  <2> DEFINE e == sreq[c].entry
  <2>1. e \in Entry /\ sreq[c].item \in Item /\ outbox[e].item = sreq[c].item
    BY <1>0, <1>3 DEF CancelCommit, TypeOK, SyncTypeOK, SyncHolds, ItemsInv, SyncReliesOn
  <2>2. sreq[c].item = i
    BY <1>0, <1>3, <2>1, ItemStatusEffect DEF CancelCommit, TerminalItemStatus
  <2>. QED  BY <1>1, <1>3, <2>1, <2>2 DEF CancelCommit
<1>4. ASSUME NEW w \in Workers, RecordOutcome(w)
      PROVE  \E e \in Entry : /\ outbox'[e].item = i /\ outbox'[e].status = "PENDING"
                             /\ outbox'[e] # outbox[e]
  <2> DEFINE e == current[w]
  <2>0. answer[w] # "none"
    BY <1>4 DEF RecordOutcome, RecordAccepted, RecordRejected, RecordError
  <2>1. e \in Entry /\ outbox[e].item \in Item /\ outbox[e].status = "PROCESSING"
    <3>1. e \in Entry /\ claimed[w][e] # 0
      BY <1>0, <2>0, MaxEntriesAssumption DEF TypeOK, WorkerTypeOK, NoEntry, Entry
    <3>2. outbox[e].status = "PROCESSING"
      BY <1>0, <3>1 DEF ClaimExclusive
    <3>. QED  BY <1>0, <3>1, <3>2 DEF TypeOK, TablesTypeOK
  <2>2. ASSUME NEW logged, NEW status, NEW newOutbox, Record(w, logged, status, newOutbox)
        PROVE  outbox[e].item = i /\ status = "UPDATED"
    BY <1>0, <2>1, <2>2, ItemStatusEffect DEF Record, TerminalItemStatus
  <2>3. RecordError(w) /\ Retry(w)
    BY <1>4, <2>2 DEF RecordOutcome, RecordAccepted, RecordRejected, RecordError
  <2>4. outbox[e].item = i /\ outbox' = WithEntryStatus(e, "PENDING")
    BY <2>2, <2>3 DEF RecordError, MarkFailed, Record
  <2>. QED  BY <1>1, <2>1, <2>4
<1>. QED
  BY <1>0, <1>2, <1>3, <1>4
  DEF Next, vars, tables, SyncNext, EnqueueSync, EnqueueItem, EnqueueActive, CancelSync,
      CancelRefused, CancelReread, GetSyncStatus, GetLatestSyncStatus, ReadEntry, StatusLogs,
      StatusAnswer, SyncAbort, EntriesOf, WorkerNext, RecordOutcome, Claim, ClaimPending,
      ClaimLost, Call, CallSAP, RecordFails, Crash

\* Where nobody edits, no sync is taken back without something queued, requeued
\* or cancelled in the same commit, for any clients, workers and faults.
THEOREM ResetsNotSilent ==
  ASSUME OrderClients = {}
  PROVE  Spec => NoSilentReset
<1>1. ItemsInv /\ [Next]_vars =>
        [\A i \in Item :
            items[i].status \in TerminalItemStatus /\ items'[i].status = "UPDATED" =>
              \E e \in Entry :
                  /\ outbox'[e].item = i
                  /\ outbox'[e].status \in {"PENDING", "CANCELLED"}
                  /\ outbox'[e] # outbox[e]]_vars
  BY ResetsQueue
<1>. QED  BY <1>1, ItemsInvariant, PTL DEF Spec, NoSilentReset

-----------------------------------------------------------------------------
(* Items whose enqueues did not race. *)

Lone ==
    \A d, e \in Entry :
        Active(d) /\ Active(e) /\ outbox[d].item = outbox[e].item /\ outbox[d].item \notin raced
            => d = e

NothingQueued(c) ==
    sreq[c].pc = "commit" /\ sreq[c].item \notin raced => ~HasActiveByItemID(sreq[c].item)

\* The history moves with the rows, or nothing does.
OverlapMoves == OverlapStep \/ UNCHANGED <<vars, overlaps>>

RacedStep == raced' = raced \cup {i \in Item : Racing(i)} \/ UNCHANGED <<vars, raced>>

\* No entry is created or becomes active.
NoneNew ==
    \A e \in Entry :
        /\ Created(e)' <=> Created(e)
        /\ Active(e)' => Active(e)
        /\ Created(e) => /\ outbox'[e].item = outbox[e].item
                         /\ outbox'[e].payload = outbox[e].payload

\* Only the commit of an enqueue makes an entry active.
LEMMA ActiveSteps ==
  ASSUME OutboxInv, [Next]_vars
  PROVE  \/ \E c \in SyncClients, e \in Entry :
                /\ sreq[c].pc = "commit" /\ EndSync(c) /\ FreeEntry(e)
                /\ outbox' = WithNewEntry(e, sreq[c].item, sreq[c].payload)
                /\ UNCHANGED sap
         \/ NoneNew
<1> USE DEF NoneNew, Created
<1>0. TypeOK /\ ClaimExclusive
  BY DEF OutboxInv
<1>1. ASSUME outbox' = outbox PROVE NoneNew
  BY <1>1 DEF Active
<1>2. ASSUME NEW d \in Entry, NEW status \in OutboxStatus,
             outbox' = WithEntryStatus(d, status), Active(d)
      PROVE  NoneNew
  <2> DEFINE r == [outbox[d] EXCEPT !.status = status]
  <2>1. r.item = outbox[d].item /\ r.payload = outbox[d].payload /\ r.status = status
    BY <1>0 DEF TypeOK, TablesTypeOK, OutboxRow
  <2>2. outbox' = [outbox EXCEPT ![d] = r]
    BY <1>2 DEF WithEntryStatus
  <2> HIDE DEF r
  <2>. QED  BY <1>0, <1>2, <2>1, <2>2 DEF Active, ActiveStatus, OutboxStatus, TypeOK, TablesTypeOK
<1>3. ASSUME NEW locked, outbox' = WithClaimed(Oldest(Claimable \ locked, BatchSize))
      PROVE  NoneNew
  <2> DEFINE S == Oldest(Claimable \ locked, BatchSize)
  <2>1. S \in SUBSET Claimable
    BY OldestSubset
  <2> HIDE DEF S
  <2>2. \A e \in Entry :
            /\ WithClaimed(S)[e].item = outbox[e].item
            /\ WithClaimed(S)[e].payload = outbox[e].payload
            /\ WithClaimed(S)[e].status = IF e \in S THEN "PROCESSING" ELSE outbox[e].status
    BY <1>0, <2>1, ClaimedTypes
  <2>. QED  BY <1>3, <2>1, <2>2 DEF S, Active, ActiveStatus, Claimable
<1>4. ASSUME NEW c \in SyncClients, SyncNext(c), ~EnqueueCommit(c) PROVE NoneNew
  <2>1. CASE CancelCommit(c)
    <3>1. sreq[c].entry \in Entry
      BY <1>0, <2>1 DEF CancelCommit, TypeOK, SyncTypeOK, SyncHolds
    <3>. QED  BY <1>2, <2>1, <3>1 DEF CancelCommit, Active, ActiveStatus, OutboxStatus
  <2>. QED
    BY <1>1, <1>4, <2>1
    DEF SyncNext, EnqueueSync, EnqueueItem, EnqueueActive, CancelSync, CancelRefused,
        CancelReread, GetSyncStatus, GetLatestSyncStatus, ReadEntry, StatusLogs,
        StatusAnswer, SyncAbort, EntriesOf, tables
<1>5. ASSUME NEW w \in Workers, WorkerNext(w) PROVE NoneNew
  <2>1. ASSUME NEW logged, NEW status \in OutboxStatus, NEW itemStatus, answer[w] # "none",
               Record(w, logged, itemStatus, WithEntryStatus(current[w], status))
        PROVE  NoneNew
    <3>1. current[w] \in Entry /\ claimed[w][current[w]] # 0
      BY <1>0, <2>1, MaxEntriesAssumption DEF TypeOK, WorkerTypeOK, NoEntry, Entry
    <3>2. Active(current[w])
      BY <1>0, <3>1 DEF ClaimExclusive, Active, ActiveStatus
    <3>. QED  BY <1>2, <2>1, <3>1, <3>2 DEF Record
  <2>2. CASE RecordAccepted(w) \/ RecordRejected(w) \/ RecordError(w)
    BY <2>1, <2>2
    DEF RecordAccepted, RecordRejected, RecordError, MarkCompleted, MarkFailed, OutboxStatus
  <2>3. ASSUME NEW locked, ClaimPending(w, locked) \/ ClaimLost(w, locked) PROVE NoneNew
    BY <1>3, <2>3 DEF ClaimPending, ClaimLost
  <2>4. CASE Call(w) \/ RecordFails(w) \/ Crash(w)
    BY <1>1, <2>4 DEF Call, CallSAP, RecordFails, Crash, tables
  <2>. QED  BY <1>5, <2>2, <2>3, <2>4 DEF WorkerNext, Claim
<1>6. ASSUME NEW c \in OrderClients, OrderNext(c) PROVE outbox' = outbox
  BY <1>6 DEF OrderNext, CreateOrder, UpdateOrder, UpdateOrderListItems, UpdateOrderWrite,
              AddItem, AddItemInsert, AddItemPromote, UpdateItem, UpdateItemRead,
              UpdateItemCurrent, UpdateItemWrite, OrderAbort, tables
<1>7. CASE UNCHANGED vars
  BY <1>1, <1>7 DEF vars, tables
<1>. QED
  BY <1>1, <1>4, <1>5, <1>6, <1>7 DEF Next, EnqueueCommit, sapVars

LEMMA StepNothingQueued ==
  ASSUME OutboxInv, [Next]_vars, NEW c \in SyncClients, NothingQueued(c),
         NoneNew, raced \subseteq raced'
  PROVE  NothingQueued(c)'
<1>0. sreq \in [SyncClients -> SyncRequest]
  BY DEF OutboxInv, TypeOK, SyncTypeOK
<1>1. ASSUME NEW i, ~HasActiveByItemID(i) PROVE ~HasActiveByItemID(i)'
  BY <1>1 DEF HasActiveByItemID, EntriesOf, NoneNew, Active, Created, ActiveStatus
<1>2. CASE sreq'[c] = sreq[c]
  BY <1>1, <1>2 DEF NothingQueued
<1>3. CASE EnqueueActive(c)
  <2>1. CASE EndSync(c)
    BY <1>0, <2>1 DEF NothingQueued, EndSync, SyncIdle
  <2>2. CASE ~EndSync(c)
    <3>1. sreq'[c].item = sreq[c].item /\ ~HasActiveByItemID(sreq[c].item)
      BY <1>0, <1>3, <2>2 DEF EnqueueActive, SyncRequest
    <3>. QED  BY <1>1, <3>1 DEF NothingQueued
  <2>. QED  BY <2>1, <2>2
<1>4. CASE SyncNext(c) /\ ~EnqueueActive(c)
  <2>1. CASE EndSync(c)
    BY <1>0, <2>1 DEF EndSync, SyncIdle, NothingQueued
  <2>2. CASE EnqueueItem(c) \/ CancelRefused(c) \/ StatusLogs(c)
    BY <1>0, <2>1, <2>2 DEF EnqueueItem, CancelRefused, StatusLogs, SyncRequest, NothingQueued
  <2>3. ASSUME NEW i \in Item, EnqueueSync(c, i) PROVE NothingQueued(c)'
    BY <1>0, <2>3 DEF EnqueueSync, SyncIdle, NothingQueued
  <2>4. ASSUME NEW e \in Entry, CancelSync(c, e) \/ ReadEntry(c, e) PROVE NothingQueued(c)'
    BY <1>0, <2>4 DEF CancelSync, ReadEntry, SyncIdle, NothingQueued
  <2>. QED
    BY <1>4, <2>1, <2>2, <2>3, <2>4
    DEF SyncNext, EnqueueCommit, CancelCommit, CancelReread, GetSyncStatus,
        GetLatestSyncStatus, EntriesOf, StatusAnswer, SyncAbort
<1>5. ASSUME NEW d \in SyncClients, d # c, SyncNext(d) PROVE sreq'[c] = sreq[c]
  BY <1>0, <1>5
  DEF SyncNext, EnqueueSync, EnqueueItem, EnqueueActive, EnqueueCommit, CancelSync,
      CancelCommit, CancelRefused, CancelReread, GetSyncStatus, GetLatestSyncStatus,
      ReadEntry, StatusLogs, StatusAnswer, SyncAbort, EntriesOf, EndSync
<1>. QED  BY <1>2, <1>3, <1>4, <1>5 DEF Next, vars

\* Whoever is about to insert an entry for an item that has not been raced finds
\* none active: the check has said so, and only another insert could change it.
LoneInv == Lone /\ \A c \in SyncClients : NothingQueued(c)

LEMMA InitLoneInv == Init => LoneInv
<1> SUFFICES ASSUME Init PROVE LoneInv
  OBVIOUS
<1>1. Lone
  BY DEF Lone, Active, ActiveStatus, Init, TablesInit, NoRow
<1>2. \A c \in SyncClients : NothingQueued(c)
  BY DEF NothingQueued, Init, SyncInit, SyncIdle
<1>. QED  BY <1>1, <1>2 DEF LoneInv

LEMMA RacedGrows ==
  ASSUME RacedStep
  PROVE  raced \subseteq raced'
BY DEF RacedStep

LEMMA StepLoneInv ==
  ASSUME OutboxInv, LoneInv, [Next]_vars, RacedStep
  PROVE  LoneInv'
<1>0. /\ outbox \in [Entry -> OutboxRow] /\ sreq \in [SyncClients -> SyncRequest]
      /\ \A c \in SyncClients : sreq[c].pc = "commit" => sreq[c].item \in Item
      /\ raced \subseteq raced'
  BY RacedGrows DEF OutboxInv, TypeOK, TablesTypeOK, SyncTypeOK, SyncHolds
<1>1. CASE NoneNew
  <2>1. Lone'
    BY <1>0, <1>1 DEF LoneInv, Lone, NoneNew, Active, Created, ActiveStatus
  <2>2. \A c \in SyncClients : NothingQueued(c)'
    BY <1>0, <1>1, StepNothingQueued DEF LoneInv
  <2>. QED  BY <2>1, <2>2 DEF LoneInv
<1>2. ASSUME NEW c \in SyncClients, NEW e \in Entry, sreq[c].pc = "commit", EndSync(c),
             FreeEntry(e), outbox' = WithNewEntry(e, sreq[c].item, sreq[c].payload)
      PROVE  LoneInv'
  <2> DEFINE i == sreq[c].item
  <2>1. /\ outbox'[e].item = i /\ outbox'[e].status # "ABSENT"
        /\ \A d \in Entry : d # e => outbox'[d] = outbox[d]
    BY <1>0, <1>2 DEF WithNewEntry
  <2>2. raced' = raced \cup {j \in Item : Racing(j)}
    <3>1. ~UNCHANGED vars
      BY <1>2, <2>1 DEF FreeEntry, Created, vars, tables
    <3>. QED  BY <3>1 DEF RacedStep
  <2>3. i \notin raced => \A d \in Entry : Active(d) => outbox[d].item # i
    BY <1>2 DEF LoneInv, NothingQueued, HasActiveByItemID, EntriesOf
  <2>4. Lone'
    BY <1>0, <2>1, <2>3 DEF LoneInv, Lone, Active
  <2>5. ASSUME NEW d \in SyncClients, sreq'[d].pc = "commit", sreq'[d].item \notin raced'
        PROVE  ~HasActiveByItemID(sreq[d].item)'
    <3>1. d # c /\ sreq'[d] = sreq[d]
      BY <1>0, <1>2, <2>5 DEF EndSync, SyncIdle
    <3>2. sreq[d].item # i
      <4> SUFFICES ASSUME sreq[d].item = i PROVE FALSE
        OBVIOUS
      <4>1. Racing(i) /\ i \in Item
        BY <1>0, <1>2, <2>5, <3>1 DEF Racing
      <4>. QED  BY <2>2, <2>5, <3>1, <4>1
    <3>3. ~HasActiveByItemID(sreq[d].item)
      BY <1>0, <2>5, <3>1 DEF LoneInv, NothingQueued
    <3>. QED  BY <2>1, <3>1, <3>2, <3>3 DEF HasActiveByItemID, EntriesOf, Active
  <2>. QED  BY <2>4, <2>5 DEF LoneInv, NothingQueued
<1>. QED  BY <1>1, <1>2, ActiveSteps

\* Every step of the history's specification is one of Backend's.
LEMMA OverlapImpliesSpec == OverlapSpec => Spec /\ [][OverlapMoves]_<<vars, overlaps>>
<1>1. [OverlapNext]_<<vars, overlaps>> => [Next]_vars /\ OverlapMoves
  BY DEF OverlapNext, OverlapMoves
<1>2. OverlapInit => Init
  BY DEF OverlapInit
<1>. QED  BY <1>1, <1>2, PTL DEF OverlapSpec, Spec

LEMMA OverlapSteps ==
  ASSUME [OverlapNext]_<<vars, overlaps>>
  PROVE  [Next]_vars /\ OverlapMoves /\ RacedStep
BY DEF OverlapNext, OverlapMoves, OverlapStep, RacedStep, overlaps

LEMMA OverlapOutboxInv == OverlapSpec => []OutboxInv
BY OverlapImpliesSpec, OutboxInvariant, PTL

LEMMA LoneInvariant == OverlapSpec => []LoneInv
<1>0. OverlapInit => LoneInv
  BY InitLoneInv DEF OverlapInit
<1>1. OutboxInv /\ LoneInv /\ [OverlapNext]_<<vars, overlaps>> => LoneInv'
  BY StepLoneInv, OverlapSteps
<1>. QED  BY <1>0, <1>1, OverlapOutboxInv, PTL DEF OverlapSpec

\* ErrSyncAlreadyActive keeps its promise for every item two enqueues were not
\* between the check and the insert for at once, whatever workers, cancels and
\* other enqueues do: none of them makes an entry active.
THEOREM OneActive == OverlapSpec => []OneActiveUnlessRaced
<1>1. Lone => OneActiveUnlessRaced
  <2> SUFFICES ASSUME Lone, NEW i \in Item \ raced
               PROVE  Cardinality({e \in EntriesOf(i) : Active(e)}) <= 1
    BY DEF OneActiveUnlessRaced
  <2> DEFINE S == {e \in EntriesOf(i) : Active(e)}
  <2>1. ASSUME NEW e \in S PROVE S = {e}
    BY <2>1 DEF Lone, EntriesOf
  <2>2. ASSUME NEW e \in S PROVE Cardinality(S) = 1
    BY <2>1, <2>2, FS_Singleton, Zenon
  <2>3. CASE S = {}
    <3>1. Cardinality(S) = 0
      BY <2>3, FS_EmptySet, Zenon
    <3>. QED  BY <3>1
  <2>4. CASE S # {}
    <3>1. Cardinality(S) = 1
      BY <2>2, <2>4
    <3>. QED  BY <3>1
  <2>. QED  BY <2>3, <2>4
<1>2. LoneInv => Lone
  BY DEF LoneInv
<1>. QED  BY <1>1, <1>2, LoneInvariant, PTL

\* What SAP took last for an item is not newer than what still waits for it.
SentBefore ==
    /\ \A d, e \in Entry : Created(e) /\ d < e => Created(d)
    /\ \A i \in Item : sap[i] # NoEntry => Created(sap[i])
    /\ \A e \in Entry : Active(e) /\ outbox[e].item \notin raced => sap[outbox[e].item] <= e

\* SAP is called only for an active entry.
LEMMA CallSteps ==
  ASSUME OutboxInv, [Next]_vars
  PROVE  \/ UNCHANGED sap
         \/ /\ UNCHANGED outbox
            /\ \E e \in Entry : Active(e) /\ sap' = [sap EXCEPT ![outbox[e].item] = e]
<1>1. ASSUME NEW w \in Workers, Call(w)
      PROVE  \/ UNCHANGED sap
             \/ /\ UNCHANGED outbox
                /\ \E e \in Entry : Active(e) /\ sap' = [sap EXCEPT ![outbox[e].item] = e]
  <2>1. PICK e \in Entry, outcome \in Answer, applied \in BOOLEAN : CallSAP(w, e, outcome, applied)
    BY <1>1 DEF Call
  <2>2. Active(e)
    BY <2>1 DEF CallSAP, OutboxInv, ClaimExclusive, Active, ActiveStatus
  <2>. QED  BY <2>1, <2>2 DEF CallSAP, tables
<1>2. ASSUME NEW w \in Workers, WorkerNext(w), ~Call(w) PROVE UNCHANGED sap
  BY <1>2
  DEF WorkerNext, Claim, ClaimPending, ClaimLost, RecordAccepted, RecordRejected,
      RecordError, Record, RecordFails, Crash, sapVars
<1>. QED  BY <1>1, <1>2 DEF Next, vars, sapVars

LEMMA StepSentBefore ==
  ASSUME OutboxInv, Lone, SentBefore, [Next]_vars, raced \subseteq raced'
  PROVE  SentBefore' /\ \A i \in Item \ raced : sap'[i] >= sap[i]
<1> USE DEF NoEntry, Entry, EntryRef
<1>0. /\ sap \in [Item -> EntryRef] /\ outbox \in [Entry -> OutboxRow] /\ MaxEntries \in Nat
      /\ \A e \in Entry : Created(e) => outbox[e].item \in Item
      /\ \A e \in Entry : Active(e) => Created(e)
  BY MaxEntriesAssumption
  DEF OutboxInv, TypeOK, TablesTypeOK, WorkerTypeOK, Active, ActiveStatus, Created
<1>1. ASSUME UNCHANGED sap, NoneNew PROVE SentBefore'
  BY <1>0, <1>1 DEF SentBefore, NoneNew
<1>2. ASSUME NEW c \in SyncClients, NEW e \in Entry, FreeEntry(e), UNCHANGED sap,
             outbox' = WithNewEntry(e, sreq[c].item, sreq[c].payload), sreq[c].item \in Item
      PROVE  SentBefore'
  <2>1. /\ Created(e)' /\ outbox'[e].item = sreq[c].item
        /\ \A d \in Entry : d # e => outbox'[d] = outbox[d]
    BY <1>0, <1>2 DEF WithNewEntry, Created
  <2>2. \A d \in Entry : d # e => (Created(d)' <=> Created(d)) /\ (Active(d)' <=> Active(d))
    BY <2>1 DEF Created, Active
  <2>3. \A d \in Entry : Created(d) <=> d < e
    BY <1>0, <1>2 DEF FreeEntry, SentBefore
  <2>4. \A i \in Item : sap[i] < e
    BY <1>0, <2>3 DEF SentBefore
  <2>5. \A d \in Entry : Created(d)' <=> d <= e
    BY <1>0, <2>1, <2>2, <2>3
  <2>6. \A i \in Item : sap'[i] # NoEntry => Created(sap[i])'
    BY <1>0, <1>2, <2>4, <2>5
  <2>7. \A d \in Entry : Active(d)' /\ outbox'[d].item \notin raced => sap'[outbox'[d].item] <= d
    BY <1>0, <1>2, <2>1, <2>2, <2>4 DEF SentBefore
  <2>. QED  BY <1>0, <1>2, <2>5, <2>6, <2>7 DEF SentBefore
<1>3. ASSUME UNCHANGED outbox, NEW e \in Entry, Active(e), sap' = [sap EXCEPT ![outbox[e].item] = e]
      PROVE  SentBefore' /\ \A i \in Item \ raced : sap'[i] >= sap[i]
  <2>1. /\ outbox[e].item \in Item /\ Created(e)
        /\ outbox[e].item \notin raced =>
               /\ sap[outbox[e].item] <= e
               /\ \A d \in Entry : Active(d) /\ outbox[d].item = outbox[e].item => d = e
    BY <1>0, <1>3 DEF SentBefore, Lone
  <2>2. \A i \in Item : sap'[i] = IF i = outbox[e].item THEN e ELSE sap[i]
    BY <1>0, <1>3
  <2>3. \A d \in Entry : (Created(d)' <=> Created(d)) /\ (Active(d)' <=> Active(d))
    BY <1>3 DEF Created, Active
  <2>4. \A i \in Item : sap'[i] # NoEntry => Created(sap[i])'
    BY <1>0, <2>1, <2>2, <2>3 DEF SentBefore
  <2>5. \A d \in Entry : Active(d)' /\ outbox'[d].item \notin raced => sap'[outbox'[d].item] <= d
    BY <1>0, <1>3, <2>1, <2>2, <2>3 DEF SentBefore
  <2>. QED  BY <1>0, <2>1, <2>2, <2>3, <2>4, <2>5 DEF SentBefore
<1>4. ASSUME UNCHANGED sap PROVE \A i \in Item \ raced : sap'[i] >= sap[i]
  BY <1>0, <1>4
<1>5. ASSUME UNCHANGED sap PROVE SentBefore'
  <2>1. ASSUME NEW c \in SyncClients, sreq[c].pc = "commit" PROVE sreq[c].item \in Item
    BY <2>1 DEF OutboxInv, TypeOK, SyncTypeOK, SyncHolds
  <2>. QED  BY <1>1, <1>2, <1>5, <2>1, ActiveSteps
<1>. QED  BY <1>3, <1>4, <1>5, CallSteps

\* SAP takes the entries of an item in the order they were created, for any
\* workers, retries and faults, unless two enqueues of the item raced: only one
\* is active at a time.
THEOREM InOrder == OverlapSpec => DeliveriesInOrder
<1>1. OverlapInit => SentBefore
  BY DEF SentBefore, OverlapInit, Init, TablesInit, WorkerInit, NoRow, Created, Active, ActiveStatus, NoEntry
<1>2. OutboxInv /\ LoneInv /\ SentBefore /\ [OverlapNext]_<<vars, overlaps>> =>
          SentBefore' /\ [\A i \in Item \ raced : sap'[i] >= sap[i]]_<<vars, overlaps>>
  BY StepSentBefore, OverlapSteps, RacedGrows DEF LoneInv
<1>. QED
  BY <1>1, <1>2, LoneInvariant, OverlapOutboxInv, PTL DEF OverlapSpec, DeliveriesInOrder
=============================================================================
