--------------------------- MODULE BackendTypes_proofs ---------------------------
(***************************************************************************)
(* TypeOK is an invariant of the whole service, for any sets of orders,    *)
(* items, clients and workers.  It is inductive as it stands: one lemma    *)
(* for each family of actions, one step for each action.                   *)
(***************************************************************************)
EXTENDS Backend, TLAPS

\* The initial states are of the right types.
LEMMA InitTypeOK == Init => TypeOK
<1> SUFFICES ASSUME Init PROVE TypeOK
  OBVIOUS
<1> USE OrderOfAssumption, TextAssumption, NoneAssumption, MaxEntriesAssumption,
        MaxAttemptsAssumption, SeedOrderAssumption, SeedItemAssumption
<1>1. TablesTypeOK
  BY DEF Init, TablesInit, TablesTypeOK, OrderStatus, ItemStatus, ItemRow, OutboxRow,
         OutboxStatus, NoRow, Entry, EntryRef, NoEntry, SyncStatus
<1>2. OrderTypeOK
  BY DEF Init, OrderInit, OrderTypeOK, OrderHolds, OrderRequest, OrderIdle, OrderPc
<1>3. SyncTypeOK
  BY DEF Init, SyncInit, SyncTypeOK, SyncHolds, SyncRequest, SyncIdle, SyncPc,
         EntryRef, NoEntry
<1>4. WorkerTypeOK
  BY DEF Init, WorkerInit, WorkerTypeOK, Entry, EntryRef, NoEntry, Answer, Created
<1>. QED
  BY <1>1, <1>2, <1>3, <1>4 DEF TypeOK

\* An edit of some of an item's columns leaves contents of both.
LEMMA MergedType ==
  ASSUME NEW edit \in Edit, NEW text \in Text
  PROVE  Merged(edit, text) \in Text
BY DEF Edit, Merged, Text

\* Every Text is an edit of both columns.
LEMMA TextIsEdit == Text \subseteq Edit
BY NoneAssumption DEF Text, Edit

\* Order requests keep the types of the tables.
LEMMA OrderTablesType ==
  ASSUME TypeOK, NEW c \in OrderClients, OrderNext(c)
  PROVE  TablesTypeOK'
<1> USE DEF TypeOK, TablesTypeOK, OrderTypeOK, OrderHolds
<1>1. ASSUME NEW o \in Order, CreateOrder(c, o) PROVE TablesTypeOK'
  BY <1>1 DEF CreateOrder, OrderStatus
<1>2. ASSUME UNCHANGED tables PROVE TablesTypeOK'
  BY <1>2 DEF tables
<1>3. CASE UpdateOrderWrite(c)
  BY <1>3 DEF UpdateOrderWrite, OrderStatus
<1>4. CASE AddItemInsert(c)
  <2>1. NewItemRow(oreq[c].text) \in ItemRow
    BY <1>4 DEF AddItemInsert, NewItemRow, ItemRow, ItemStatus
  <2>2. items' \in [Item -> ItemRow]
    BY <1>4, <2>1 DEF AddItemInsert
  <2>. QED  BY <1>4, <2>2 DEF AddItemInsert
<1>5. CASE AddItemPromote(c)
  BY <1>5 DEF AddItemPromote, OrderStatus
<1>6. CASE UpdateItemWrite(c)
  <2> DEFINE row == [status |-> oreq[c].status, text |-> Merged(oreq[c].text, oreq[c].row)]
  <2>1. oreq[c].text \in Edit /\ oreq[c].row \in Text
    BY <1>6 DEF UpdateItemWrite
  <2>2. row \in ItemRow
    BY <1>6, <2>1, MergedType DEF UpdateItemWrite, ItemRow
  <2> HIDE DEF row
  <2>3. items' = [items EXCEPT ![oreq[c].item] = row]
    BY <1>6 DEF UpdateItemWrite, row
  <2>. QED  BY <1>6, <2>2, <2>3 DEF UpdateItemWrite
<1>. QED
  BY <1>1, <1>2, <1>3, <1>4, <1>5, <1>6
  DEF OrderNext, UpdateOrder, UpdateOrderListItems, AddItem, UpdateItem, UpdateItemRead,
      UpdateItemCurrent, OrderAbort

\* Order requests keep the types of what their handlers hold.
LEMMA OrderRequestsType ==
  ASSUME TypeOK, NEW c \in OrderClients, OrderNext(c)
  PROVE  OrderTypeOK'
<1> USE TextIsEdit DEF OrderRequest, OrderPc
<1>0. oreq \in [OrderClients -> OrderRequest] /\ \A d \in OrderClients : OrderHolds(oreq[d])
  BY DEF TypeOK, OrderTypeOK
<1>. OrderIdle \in OrderRequest /\ OrderHolds(OrderIdle)
  BY DEF OrderIdle, OrderHolds
<1>1. ASSUME EndOrder(c) PROVE OrderTypeOK'
  BY <1>0, <1>1 DEF EndOrder, OrderTypeOK
<1>2. ASSUME UNCHANGED oreq PROVE OrderTypeOK'
  BY <1>0, <1>2 DEF OrderTypeOK
<1>3. ASSUME NEW r \in OrderRequest, OrderHolds(r), oreq' = [oreq EXCEPT ![c] = r]
      PROVE  OrderTypeOK'
  BY <1>0, <1>3 DEF OrderTypeOK
<1>4. ASSUME NEW o \in Order, NEW s \in OrderStatus, UpdateOrder(c, o, s)
      PROVE  OrderTypeOK'
  <2> DEFINE r == [OrderIdle EXCEPT !.pc = "items", !.order = o,
                                    !.saw = orders[o], !.status = s]
  <2>1. r \in OrderRequest /\ OrderHolds(r)
    BY <1>4 DEF OrderIdle, OrderHolds, TypeOK, TablesTypeOK, OrderStatus
  <2>. QED  BY <1>3, <1>4, <2>1 DEF UpdateOrder
<1>5. CASE UpdateOrderListItems(c)
  <2> DEFINE r == [oreq[c] EXCEPT !.pc = "write"]
  <2>1. CASE EndOrder(c)
    BY <1>1, <2>1
  <2>2. CASE oreq' = [oreq EXCEPT ![c] = r]
    BY <1>0, <1>3, <1>5, <2>2 DEF OrderHolds, UpdateOrderListItems
  <2>. QED  BY <1>5, <2>1, <2>2 DEF UpdateOrderListItems
<1>6. ASSUME NEW i \in Item, NEW t \in Text, AddItem(c, i, t) PROVE OrderTypeOK'
  <2> DEFINE r == [OrderIdle EXCEPT !.pc = "insert", !.order = OrderOf[i], !.item = i,
                                    !.saw = orders[OrderOf[i]], !.text = t]
  <2>1. r \in OrderRequest /\ OrderHolds(r)
    BY <1>6, OrderOfAssumption DEF OrderIdle, OrderHolds, TypeOK, TablesTypeOK, OrderStatus
  <2>. QED  BY <1>3, <1>6, <2>1 DEF AddItem
<1>7. CASE AddItemInsert(c)
  <2> DEFINE r == [oreq[c] EXCEPT !.pc = "promote"]
  <2>1. CASE EndOrder(c)
    BY <1>1, <2>1
  <2>2. CASE oreq' = [oreq EXCEPT ![c] = r]
    BY <1>0, <1>3, <1>7, <2>2 DEF OrderHolds, AddItemInsert
  <2>. QED  BY <1>7, <2>1, <2>2 DEF AddItemInsert
<1>8. ASSUME NEW i \in Item, NEW t \in Edit, UpdateItem(c, i, t) PROVE OrderTypeOK'
  <2> DEFINE r == [OrderIdle EXCEPT !.pc = "read", !.order = OrderOf[i], !.item = i,
                                    !.text = t]
  <2>1. r \in OrderRequest /\ OrderHolds(r)
    BY <1>8, OrderOfAssumption DEF OrderIdle, OrderHolds
  <2>. QED  BY <1>3, <1>8, <2>1 DEF UpdateItem
<1>9. CASE UpdateItemRead(c)
  <2> DEFINE p == ShouldPromoteOnEdit(items[oreq[c].item].status)
             r == [oreq[c] EXCEPT !.pc = "current", !.promote = p]
  <2>0. p \in BOOLEAN
    BY DEF ShouldPromoteOnEdit
  <2>1. CASE EndOrder(c)
    BY <1>1, <2>1
  <2>2. CASE oreq' = [oreq EXCEPT ![c] = r]
    <3>1. r \in OrderRequest /\ OrderHolds(r)
      BY <1>0, <1>9, <2>0 DEF OrderHolds, UpdateItemRead
    <3>. QED  BY <1>3, <2>2, <3>1
  <2>3. oreq' = [oreq EXCEPT ![c].pc = "current", ![c].promote = p] => oreq' = [oreq EXCEPT ![c] = r]
    BY <1>0
  <2>. QED  BY <1>9, <2>1, <2>2, <2>3 DEF UpdateItemRead
<1>10. CASE UpdateItemCurrent(c)
  <2> DEFINE s == IF oreq[c].promote THEN "UPDATED" ELSE items[oreq[c].item].status
             t == items[oreq[c].item].text
             r == [oreq[c] EXCEPT !.pc = "save", !.row = t, !.status = s]
  <2>1. s \in ItemStatus \cup {"ABSENT"} /\ t \in Text
    BY <1>0, <1>10 DEF UpdateItemCurrent, OrderHolds, TypeOK, TablesTypeOK, ItemRow, ItemStatus
  <2>2. /\ oreq[c] \in OrderRequest
        /\ oreq[c].item \in Item /\ oreq[c].text \in Edit
    BY <1>0, <1>10 DEF OrderHolds, UpdateItemCurrent
  <2>3. r \in OrderRequest /\ OrderHolds(r)
    <3> HIDE DEF s, t
    <3>1. r \in OrderRequest
      BY <2>1, <2>2
    <3>2. /\ r.pc = "save" /\ r.item = oreq[c].item /\ r.text = oreq[c].text
          /\ r.row = t /\ r.status = s
      BY <2>2
    <3> HIDE DEF r
    <3>. QED  BY <2>1, <2>2, <3>1, <3>2 DEF OrderHolds
  <2>4. oreq' = [oreq EXCEPT ![c].pc = "save", ![c].row = t, ![c].status = s]
        => oreq' = [oreq EXCEPT ![c] = r]
    BY <1>0
  <2>. QED  BY <1>3, <1>10, <2>3, <2>4 DEF UpdateItemCurrent
<1>. QED
  BY <1>1, <1>2, <1>4, <1>5, <1>6, <1>7, <1>8, <1>9, <1>10, EditsAssumption
  DEF OrderNext, CreateOrder, UpdateOrderWrite, AddItemPromote, UpdateItemWrite, OrderAbort

\* Sync requests keep the types of the tables.
LEMMA SyncTablesType ==
  ASSUME TypeOK, NEW c \in SyncClients, SyncNext(c)
  PROVE  TablesTypeOK' /\ \A e \in Entry : Created(e) => Created(e)'
<1> USE DEF TypeOK, TablesTypeOK, Created
<1>0. ASSUME UNCHANGED tables
      PROVE  TablesTypeOK' /\ \A e \in Entry : Created(e) => Created(e)'
  BY <1>0 DEF tables
<1>1. ASSUME NEW i \in Item, NEW s \in ItemStatus
      PROVE  WithItemStatus(i, s) \in [Item -> ItemRow]
  BY DEF WithItemStatus, ItemRow
<1>2. CASE EnqueueCommit(c)
  <2>1. sreq[c].item \in Item /\ sreq[c].payload \in Text
    BY <1>2 DEF EnqueueCommit, SyncTypeOK, SyncHolds
  <2>2. items' \in [Item -> ItemRow]
    BY <1>1, <1>2, <2>1 DEF EnqueueCommit, ItemStatus
  <2>3. PICK e \in Entry : outbox' = WithNewEntry(e, sreq[c].item, sreq[c].payload)
    BY <1>2 DEF EnqueueCommit
  <2>4. /\ outbox' \in [Entry -> OutboxRow]
        /\ \A d \in Entry : outbox'[d].status # "ABSENT" =>
               outbox'[d].item \in Item /\ outbox'[d].payload \in Text
        /\ \A d \in Entry : Created(d) => Created(d)'
    BY <2>1, <2>3, MaxAttemptsAssumption DEF WithNewEntry, OutboxRow, OutboxStatus
  <2>. QED  BY <1>2, <2>2, <2>4 DEF EnqueueCommit
<1>3. CASE CancelCommit(c)
  <2>1. sreq[c].item \in Item /\ sreq[c].entry \in Entry
    BY <1>3 DEF CancelCommit, SyncTypeOK, SyncHolds
  <2>2. items' \in [Item -> ItemRow]
    BY <1>1, <1>3, <2>1 DEF CancelCommit, ItemStatus
  <2>3. /\ outbox' \in [Entry -> OutboxRow]
        /\ \A d \in Entry : outbox'[d].status # "ABSENT" =>
               outbox'[d].item \in Item /\ outbox'[d].payload \in Text
        /\ \A d \in Entry : Created(d) => Created(d)'
    BY <1>3, <2>1 DEF CancelCommit, WithEntryStatus, OutboxRow, OutboxStatus
  <2>. QED  BY <1>3, <2>2, <2>3 DEF CancelCommit
<1>. QED
  BY <1>0, <1>2, <1>3
  DEF SyncNext, EnqueueSync, EnqueueItem, EnqueueActive, CancelSync, CancelRefused,
      CancelReread, GetSyncStatus, GetLatestSyncStatus, ReadEntry, StatusLogs, StatusAnswer, SyncAbort,
      EntriesOf

\* Sync requests keep the types of what their handlers hold.
LEMMA SyncRequestsType ==
  ASSUME TypeOK, NEW c \in SyncClients, SyncNext(c)
  PROVE  SyncTypeOK'
<1> USE DEF SyncRequest, SyncPc
<1>0. sreq \in [SyncClients -> SyncRequest] /\ \A d \in SyncClients : SyncHolds(sreq[d])
  BY DEF TypeOK, SyncTypeOK
<1>. SyncIdle \in SyncRequest /\ SyncHolds(SyncIdle)
  BY MaxEntriesAssumption DEF SyncIdle, SyncHolds, EntryRef, NoEntry
<1>1. ASSUME EndSync(c) PROVE SyncTypeOK'
  BY <1>0, <1>1 DEF EndSync, SyncTypeOK
<1>2. ASSUME NEW r \in SyncRequest, SyncHolds(r), sreq' = [sreq EXCEPT ![c] = r]
      PROVE  SyncTypeOK'
  BY <1>0, <1>2 DEF SyncTypeOK
<1>3. ASSUME NEW i \in Item, EnqueueSync(c, i) PROVE SyncTypeOK'
  <2> DEFINE r == [SyncIdle EXCEPT !.pc = "item", !.item = i]
  <2>1. r \in SyncRequest /\ SyncHolds(r)
    BY MaxEntriesAssumption DEF SyncIdle, SyncHolds, EntryRef, NoEntry
  <2>. QED  BY <1>2, <1>3, <2>1 DEF EnqueueSync
<1>4. CASE EnqueueItem(c)
  <2>0. sreq[c] \in SyncRequest /\ SyncHolds(sreq[c]) /\ sreq[c].pc = "item"
    BY <1>0, <1>4 DEF EnqueueItem
  <2> DEFINE row == items[sreq[c].item]
             r == [sreq[c] EXCEPT !.pc = "active", !.saw = row.status, !.payload = row.text]
  <2>1. CASE EndSync(c)
    BY <1>1, <2>1
  <2>2. CASE CanSync(row.status) /\ sreq' = [sreq EXCEPT ![c] = r]
    <3>1. row \in ItemRow
      BY <2>0 DEF SyncHolds, TypeOK, TablesTypeOK
    <3>2. row.status \in ItemStatus /\ row.text \in Text
      BY <2>2, <3>1 DEF ItemRow, ItemStatus, CanSync
    <3>3. r \in SyncRequest /\ SyncHolds(r)
      BY <2>0, <3>2 DEF SyncHolds
    <3>. QED  BY <1>2, <2>2, <3>3
  <2>3. sreq' = [sreq EXCEPT ![c].pc = "active", ![c].saw = row.status,
                             ![c].payload = row.text]
        => sreq' = [sreq EXCEPT ![c] = r]
    BY <1>0
  <2>. QED  BY <1>4, <2>1, <2>2, <2>3 DEF EnqueueItem
<1>5. CASE EnqueueActive(c)
  <2> DEFINE r == [sreq[c] EXCEPT !.pc = "commit"]
  <2>1. CASE EndSync(c)
    BY <1>1, <2>1
  <2>2. CASE sreq' = [sreq EXCEPT ![c] = r]
    BY <1>0, <1>2, <1>5, <2>2 DEF EnqueueActive, SyncHolds
  <2>. QED  BY <1>5, <2>1, <2>2 DEF EnqueueActive
<1>6. ASSUME NEW e \in Entry, CancelSync(c, e) PROVE SyncTypeOK'
  <2> DEFINE r == [SyncIdle EXCEPT !.pc = "cancel", !.entry = e, !.item = outbox[e].item]
  <2>0. outbox[e].item \in Item /\ e \in EntryRef
    BY <1>6, MaxEntriesAssumption
    DEF CancelSync, Created, TypeOK, TablesTypeOK, Entry, EntryRef
  <2>1. r \in SyncRequest /\ SyncHolds(r)
    BY <2>0 DEF SyncIdle, SyncHolds
  <2>. QED  BY <1>2, <1>6, <2>1 DEF CancelSync
<1>7. ASSUME NEW e \in Entry, ReadEntry(c, e) PROVE SyncTypeOK'
  <2> DEFINE pc == IF outbox[e].status \in {"COMPLETED", "FAILED"} THEN "logs" ELSE "answered"
             r == [SyncIdle EXCEPT !.pc = pc, !.item = outbox[e].item, !.entry = e,
                                   !.seen = outbox[e].status]
  <2>0. /\ outbox[e].item \in Item /\ e \in EntryRef
        /\ outbox[e].status \in OutboxStatus \cup {"ABSENT"}
    BY <1>7, MaxEntriesAssumption
    DEF ReadEntry, Created, TypeOK, TablesTypeOK, OutboxRow, Entry, EntryRef
  <2>1. r \in SyncRequest /\ SyncHolds(r)
    BY <2>0 DEF SyncIdle, SyncHolds
  <2>. QED  BY <1>2, <1>7, <2>1 DEF ReadEntry
<1>8. CASE StatusLogs(c)
  <2> DEFINE e == newestLog[sreq[c].item]
             log == IF e = NoEntry \/ syncLogs[e] = << >> THEN "none"
                    ELSE syncLogs[e][Len(syncLogs[e])]
             r == [sreq[c] EXCEPT !.pc = "answered", !.log = log]
  <2>1. e \in EntryRef
    BY <1>0, <1>8 DEF StatusLogs, SyncHolds, TypeOK, TablesTypeOK
  <2>2. log \in SyncStatus \cup {"none"}
    <3>1. CASE e = NoEntry \/ syncLogs[e] = << >>
      BY <3>1
    <3>2. CASE e \in Entry /\ syncLogs[e] # << >>
      <4>1. syncLogs[e] \in Seq(SyncStatus)
        BY <3>2 DEF TypeOK, TablesTypeOK
      <4>2. Len(syncLogs[e]) \in 1 .. Len(syncLogs[e])
        BY <3>2, <4>1
      <4>. QED  BY <3>2, <4>1, <4>2
    <3>. QED  BY <2>1, <3>1, <3>2 DEF EntryRef, Entry, NoEntry
  <2>3. r \in SyncRequest /\ SyncHolds(r)
    BY <1>0, <1>8, <2>2 DEF StatusLogs, SyncHolds
  <2>4. sreq' = [sreq EXCEPT ![c].pc = "answered", ![c].log = log]
        => sreq' = [sreq EXCEPT ![c] = r]
    BY <1>0
  <2>. QED  BY <1>2, <1>8, <2>3, <2>4 DEF StatusLogs
<1>9. CASE CancelRefused(c)
  <2> DEFINE r == [sreq[c] EXCEPT !.pc = "reread"]
  <2>. QED  BY <1>0, <1>2, <1>9 DEF CancelRefused, SyncHolds
<1>. QED
  BY <1>1, <1>3, <1>4, <1>5, <1>6, <1>7, <1>8, <1>9
  DEF SyncNext, EnqueueCommit, CancelCommit, CancelReread, GetSyncStatus,
      GetLatestSyncStatus, StatusAnswer, SyncAbort, EntriesOf

\* A step that leaves the workers alone and deletes no entry keeps their types.
LEMMA WorkerFrame ==
  ASSUME TypeOK, UNCHANGED <<workerVars, sapVars>>,
         \A e \in Entry : Created(e) => Created(e)'
  PROVE  WorkerTypeOK'
BY DEF TypeOK, WorkerTypeOK, workerVars, sapVars

\* The entries a claim takes, whichever rows are locked.
LEMMA ClaimedTypes ==
  ASSUME TypeOK, NEW S \in SUBSET Claimable
  PROVE  /\ WithClaimed(S) \in [Entry -> OutboxRow]
         /\ \A e \in Entry :
               /\ WithClaimed(S)[e].item = outbox[e].item
               /\ WithClaimed(S)[e].payload = outbox[e].payload
               /\ WithClaimed(S)[e].attempts =
                     IF e \in S THEN outbox[e].attempts + 1 ELSE outbox[e].attempts
               /\ WithClaimed(S)[e].status =
                     IF e \in S THEN "PROCESSING" ELSE outbox[e].status
<1> SUFFICES ASSUME NEW e \in Entry
             PROVE  /\ WithClaimed(S)[e] \in OutboxRow
                    /\ WithClaimed(S)[e].item = outbox[e].item
                    /\ WithClaimed(S)[e].payload = outbox[e].payload
                    /\ WithClaimed(S)[e].attempts =
                          IF e \in S THEN outbox[e].attempts + 1 ELSE outbox[e].attempts
                    /\ WithClaimed(S)[e].status =
                          IF e \in S THEN "PROCESSING" ELSE outbox[e].status
  BY DEF WithClaimed
<1>1. outbox[e] \in OutboxRow
  BY DEF TypeOK, TablesTypeOK
<1>2. CASE e \in S
  <2> DEFINE r == [outbox[e] EXCEPT !.status = "PROCESSING", !.attempts = @ + 1]
  <2>1. WithClaimed(S)[e] = r
    BY <1>2 DEF WithClaimed
  <2>2. outbox[e].attempts + 1 \in 0 .. MaxAttempts
    BY <1>1, <1>2, MaxAttemptsAssumption DEF Claimable, OutboxRow
  <2>3. /\ r \in OutboxRow /\ r.item = outbox[e].item /\ r.payload = outbox[e].payload
        /\ r.attempts = outbox[e].attempts + 1 /\ r.status = "PROCESSING"
    BY <1>1, <2>2 DEF OutboxRow, OutboxStatus
  <2>. QED  BY <1>2, <2>1, <2>3
<1>3. CASE e \notin S
  BY <1>1, <1>3 DEF WithClaimed
<1>. QED  BY <1>2, <1>3

\* The oldest entries are entries of the set.
LEMMA OldestSubset ==
  ASSUME NEW locked, NEW n
  PROVE  Oldest(Claimable \ locked, n) \in SUBSET Claimable
BY DEF Oldest

\* A worker keeps the types of the tables.
LEMMA WorkerTablesType ==
  ASSUME TypeOK, NEW w \in Workers, WorkerNext(w)
  PROVE  TablesTypeOK' /\ \A e \in Entry : Created(e) => Created(e)'
<1> USE DEF TypeOK, TablesTypeOK
<1>1. ASSUME NEW S \in SUBSET Claimable, outbox' = WithClaimed(S),
             UNCHANGED <<orders, items, syncLogs, newestLog>>
      PROVE  TablesTypeOK' /\ \A e \in Entry : Created(e) => Created(e)'
  <2>1. \A e \in S : e \in Entry /\ outbox[e].status = "PENDING"
    BY DEF Claimable
  <2>2. /\ outbox' \in [Entry -> OutboxRow]
        /\ \A e \in Entry :
              /\ outbox'[e].item = outbox[e].item /\ outbox'[e].payload = outbox[e].payload
              /\ outbox'[e].status = IF e \in S THEN "PROCESSING" ELSE outbox[e].status
    BY <1>1, ClaimedTypes
  <2>. QED  BY <1>1, <2>1, <2>2 DEF Created
<1>2. ASSUME UNCHANGED tables
      PROVE  TablesTypeOK' /\ \A e \in Entry : Created(e) => Created(e)'
  BY <1>2 DEF tables, Created
<1>3. ASSUME NEW logged \in SyncStatus, NEW itemStatus \in ItemStatus,
             NEW status \in OutboxStatus, answer[w] # "none",
             Record(w, logged, itemStatus, WithEntryStatus(current[w], status))
      PROVE  TablesTypeOK' /\ \A e \in Entry : Created(e) => Created(e)'
  <2>1. /\ current[w] \in Entry
        /\ outbox[current[w]].item \in Item /\ outbox[current[w]].payload \in Text
    <3>1. current[w] \in Entry
      BY <1>3 DEF WorkerTypeOK
    <3>2. current[w] # NoEntry
      BY <3>1, MaxEntriesAssumption DEF Entry, NoEntry
    <3>3. outbox[current[w]].status # "ABSENT"
      BY <3>1, <3>2 DEF WorkerTypeOK, Created
    <3>. QED  BY <3>1, <3>3
  <2>2. items' \in [Item -> ItemRow]
    BY <1>3, <2>1 DEF Record, WithItemStatus, ItemRow
  <2>3. /\ outbox' \in [Entry -> OutboxRow]
        /\ \A d \in Entry : outbox'[d].status # "ABSENT" =>
               outbox'[d].item \in Item /\ outbox'[d].payload \in Text
        /\ \A d \in Entry : Created(d) => Created(d)'
    BY <1>3, <2>1 DEF Record, WithEntryStatus, OutboxRow, OutboxStatus, Created
  <2>4. syncLogs' \in [Entry -> Seq(SyncStatus)]
    BY <1>3, <2>1 DEF Record, Log
  <2>5. newestLog' \in [Item -> EntryRef]
    BY <1>3, <2>1, MaxEntriesAssumption DEF Record, NewestLog, EntryRef, Entry
  <2>. QED  BY <1>3, <2>2, <2>3, <2>4, <2>5 DEF Record
<1>4. ASSUME NEW locked, ClaimPending(w, locked)
      PROVE  TablesTypeOK' /\ \A e \in Entry : Created(e) => Created(e)'
  BY <1>1, <1>4, OldestSubset DEF ClaimPending
<1>5. ASSUME NEW locked, ClaimLost(w, locked)
      PROVE  TablesTypeOK' /\ \A e \in Entry : Created(e) => Created(e)'
  BY <1>1, <1>5, OldestSubset DEF ClaimLost
<1>6. CASE RecordAccepted(w)
  BY <1>3, <1>6 DEF RecordAccepted, MarkCompleted, SyncStatus, ItemStatus, OutboxStatus
<1>7. CASE RecordRejected(w)
  BY <1>3, <1>7 DEF RecordRejected, MarkFailed, SyncStatus, ItemStatus, OutboxStatus
<1>8. CASE RecordError(w)
  BY <1>3, <1>8 DEF RecordError, MarkFailed, SyncStatus, ItemStatus, OutboxStatus
<1>. QED
  BY <1>2, <1>4, <1>5, <1>6, <1>7, <1>8
  DEF WorkerNext, Claim, Call, CallSAP, RecordFails, Crash

\* A worker keeps the types of what it holds.
LEMMA WorkerHoldsType ==
  ASSUME TypeOK, NEW w \in Workers, WorkerNext(w)
  PROVE  WorkerTypeOK'
<1> USE DEF TypeOK, WorkerTypeOK
<1>0. \A e \in Entry : Created(e) => Created(e)'
  BY WorkerTablesType
<1>1. ASSUME Done(w), UNCHANGED sapVars PROVE WorkerTypeOK'
  <2> DEFINE held == [claimed[w] EXCEPT ![current[w]] = 0]
  <2>0. held \in [Entry -> 0 .. MaxAttempts]
    <3>1. claimed[w] \in [Entry -> 0 .. MaxAttempts]
      OBVIOUS
    <3>2. 0 \in 0 .. MaxAttempts
      BY MaxAttemptsAssumption
    <3>3. ASSUME NEW T, NEW f \in [Entry -> T], NEW x, NEW z \in T
          PROVE  [f EXCEPT ![x] = z] \in [Entry -> T]
      OBVIOUS
    <3>. QED  BY <3>1, <3>2, <3>3
  <2>1. claimed' = [claimed EXCEPT ![w] = held]
    BY <1>1 DEF Done
  <2>6. claimed' \in [Workers -> [Entry -> 0 .. MaxAttempts]]
    <3> HIDE DEF held
    <3>. QED  BY <2>0, <2>1
  <2>2. /\ current' \in [Workers -> EntryRef]
        /\ answer' \in [Workers -> Answer]
    BY <1>1, MaxEntriesAssumption DEF Done, EntryRef, NoEntry, Answer
  <2>3. \A v \in Workers : answer'[v] # "none" => current'[v] \in Entry
    BY <1>1 DEF Done, Answer
  <2>4. \A v \in Workers : current'[v] # NoEntry => claimed'[v][current'[v]] # 0
    BY <1>1 DEF Done
  <2>5. \A v \in Workers, e \in Entry : claimed'[v][e] # 0 => Created(e)'
    BY <1>0, <1>1 DEF Done
  <2>. QED  BY <1>1, <2>6, <2>2, <2>3, <2>4, <2>5 DEF sapVars
<1>2. ASSUME NEW locked, ClaimPending(w, locked) PROVE WorkerTypeOK'
  <2> DEFINE S == Oldest(Claimable \ locked, BatchSize)
  <2>1. S \in SUBSET Claimable
    BY OldestSubset
  <2>2. outbox' = WithClaimed(S) /\ outbox' \in [Entry -> OutboxRow]
    BY <1>2, <2>1, ClaimedTypes DEF ClaimPending
  <2> DEFINE held == [e \in Entry |-> IF e \in S THEN outbox'[e].attempts ELSE 0]
  <2>3. held \in [Entry -> 0 .. MaxAttempts]
    <3> SUFFICES ASSUME NEW e \in Entry
                 PROVE  (IF e \in S THEN outbox'[e].attempts ELSE 0) \in 0 .. MaxAttempts
      OBVIOUS
    <3>1. outbox'[e] \in OutboxRow
      BY <2>2
    <3>. QED  BY <3>1, MaxAttemptsAssumption DEF OutboxRow
  <2>4. claimed' = [claimed EXCEPT ![w] = held]
    BY <1>2 DEF ClaimPending
  <2>5. \A e \in Entry : held[e] # 0 => Created(e)'
    BY <2>1, <2>2, ClaimedTypes DEF Created
  <2>6. current[w] = NoEntry
    BY <1>2, MaxEntriesAssumption DEF ClaimPending, Waiting, Batch, EntryRef, Entry, NoEntry
  <2> HIDE DEF held
  <2>. QED  BY <1>0, <1>2, <2>3, <2>4, <2>5, <2>6 DEF ClaimPending, sapVars
<1>3. ASSUME NEW locked, ClaimLost(w, locked) PROVE WorkerTypeOK'
  BY <1>0, <1>3 DEF ClaimLost, workerVars, sapVars
<1>4. ASSUME NEW e \in Entry, NEW outcome \in Answer \ {"none"}, NEW applied \in BOOLEAN,
             CallSAP(w, e, outcome, applied)
      PROVE  WorkerTypeOK'
  <2>1. e \in EntryRef
    BY MaxEntriesAssumption DEF Entry, EntryRef
  <2>2. outbox[e].item \in Item
    BY <1>4 DEF CallSAP, TablesTypeOK, Created
  <2>3. calls' \in [Entry -> Nat] /\ sap' \in [Item -> EntryRef]
    BY <1>4, <2>1, <2>2 DEF CallSAP
  <2>4. current' \in [Workers -> EntryRef] /\ answer' \in [Workers -> Answer]
    BY <1>4, <2>1 DEF CallSAP
  <2>. QED  BY <1>0, <1>4, <2>3, <2>4 DEF CallSAP
<1>5. CASE Crash(w)
  <2>1. claimed' \in [Workers -> [Entry -> 0 .. MaxAttempts]]
    BY <1>5, MaxAttemptsAssumption DEF Crash
  <2>2. /\ current' \in [Workers -> EntryRef]
        /\ answer' \in [Workers -> Answer]
    BY <1>5, MaxEntriesAssumption DEF Crash, EntryRef, NoEntry, Answer
  <2>. QED  BY <1>0, <1>5, <2>1, <2>2 DEF Crash, sapVars
<1>. QED
  BY <1>1, <1>2, <1>3, <1>4, <1>5
  DEF WorkerNext, Claim, Call, RecordAccepted, RecordRejected, RecordError, Record,
      RecordFails
-----------------------------------------------------------------------------
\* TypeOK is inductive.
LEMMA NextTypeOK == TypeOK /\ [Next]_vars => TypeOK'
<1> SUFFICES ASSUME TypeOK, [Next]_vars PROVE TypeOK'
  OBVIOUS
<1>1. ASSUME NEW c \in OrderClients, OrderNext(c), UNCHANGED <<sreq, workerVars, sapVars>>
      PROVE  TypeOK'
  <2>1. outbox' = outbox
    BY <1>1 DEF OrderNext, CreateOrder, UpdateOrder, UpdateOrderListItems, UpdateOrderWrite,
                AddItem, AddItemInsert, AddItemPromote, UpdateItem, UpdateItemRead,
                UpdateItemCurrent, UpdateItemWrite, OrderAbort, tables
  <2>2. WorkerTypeOK'
    BY <1>1, <2>1, WorkerFrame DEF Created
  <2>3. SyncTypeOK'
    BY <1>1 DEF TypeOK, SyncTypeOK
  <2>. QED  BY <1>1, <2>2, <2>3, OrderTablesType, OrderRequestsType DEF TypeOK
<1>2. ASSUME NEW c \in SyncClients, SyncNext(c), UNCHANGED <<oreq, workerVars, sapVars>>
      PROVE  TypeOK'
  <2>1. OrderTypeOK'
    BY <1>2 DEF TypeOK, OrderTypeOK
  <2>. QED  BY <1>2, <2>1, SyncTablesType, SyncRequestsType, WorkerFrame DEF TypeOK
<1>3. ASSUME NEW w \in Workers, WorkerNext(w), UNCHANGED <<oreq, sreq>>
      PROVE  TypeOK'
  <2>1. OrderTypeOK' /\ SyncTypeOK'
    BY <1>3 DEF TypeOK, OrderTypeOK, SyncTypeOK
  <2>. QED  BY <1>3, <2>1, WorkerTablesType, WorkerHoldsType DEF TypeOK
<1>4. CASE UNCHANGED vars
  BY <1>4 DEF vars, tables, workerVars, sapVars, TypeOK, TablesTypeOK, OrderTypeOK,
              SyncTypeOK, WorkerTypeOK, Created
<1>. QED
  BY <1>1, <1>2, <1>3, <1>4 DEF Next

\* In every reachable state, every variable holds values its column, struct or
\* program counter can hold, and every handler the values its next statement
\* uses.
THEOREM TypeCorrect == Spec => []TypeOK
BY InitTypeOK, NextTypeOK, PTL DEF Spec
=============================================================================
