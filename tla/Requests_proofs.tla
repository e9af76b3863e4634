------------------------------ MODULE Requests_proofs ------------------------------
(***************************************************************************)
(* What requests of several statements may rely on, for any numbers of     *)
(* clients and workers.                                                    *)
(*                                                                         *)
(* First the answers of the sync requests: a refused cancel is rightly     *)
(* refused, and a status answer about a finished entry carries a log row.  *)
(* Both join two statements; AnswerFollows says what the first of them     *)
(* found and nobody can undo before the second.                            *)
(*                                                                         *)
(* Then orders and their items: an order that has left OPEN has an item,   *)
(* although its status is written some statements after the items were     *)
(* read.  It holds because items are never deleted, so what a handler has  *)
(* seen of an order's items is still there when it writes (OrderFollows).  *)
(*                                                                         *)
(* Last, what the status of an order says of its items, and along which    *)
(* steps it moves.  A handler's write follows from what it has read, which *)
(* overlapping requests may have overtaken; the history of Overlaps names  *)
(* the items and orders this leaves in another state than it seems.        *)
(***************************************************************************)
EXTENDS Items_proofs

\* A worker has had the entry, or a cancel has withdrawn it.
Tried(e) == outbox[e].attempts > 0
Taken(e) == Tried(e) \/ outbox[e].status = "CANCELLED"

\* An entry a worker has had counts an attempt.
AttemptsCounted ==
    \A e \in Entry : outbox[e].status \in {"PROCESSING", "COMPLETED", "FAILED"} => Tried(e)

\* The newest log row of an item is there as soon as one of its entries has any.
Logs(e) == Len(syncLogs[e]) > 0

NewestLogged ==
    /\ \A e \in Entry : Logs(e) => newestLog[outbox[e].item] # NoEntry
    /\ \A i \in Item : newestLog[i] # NoEntry => Logs(newestLog[i])

AnswerFollows(c) ==
    /\ sreq[c].pc = "reread" => Taken(sreq[c].entry)
    /\ sreq[c].pc = "logs" => newestLog[sreq[c].item] # NoEntry
    /\ sreq[c].pc = "answered" /\ sreq[c].seen \in {"COMPLETED", "FAILED"} =>
           sreq[c].log # "none"

AnswersInv ==
    /\ ItemsInv
    /\ AttemptsCounted
    /\ NewestLogged
    /\ \A c \in SyncClients : AnswerFollows(c)

LEMMA InitAnswersInv == Init => AnswersInv
<1> SUFFICES ASSUME Init PROVE AnswersInv
  OBVIOUS
<1>1. AttemptsCounted
  BY DEF AttemptsCounted, Init, TablesInit, NoRow
<1>2. NewestLogged
  BY DEF NewestLogged, Logs, Init, TablesInit
<1>3. \A c \in SyncClients : AnswerFollows(c)
  BY DEF AnswerFollows, Init, SyncInit, SyncIdle
<1>. QED  BY <1>1, <1>2, <1>3, InitItemsInv DEF AnswersInv

LEMMA StepAttemptsCounted ==
  ASSUME AnswersInv, OutboxStep
  PROVE  AttemptsCounted'
<1> SUFFICES ASSUME NEW d \in Entry, outbox'[d].status \in {"PROCESSING", "COMPLETED", "FAILED"}
             PROVE  outbox'[d].attempts > 0
  BY DEF AttemptsCounted, Tried
<1>0. /\ TypeOK /\ OutboxInv /\ AttemptsCounted
      /\ outbox[d].attempts \in Nat
  BY MaxAttemptsAssumption
  DEF AnswersInv, ItemsInv, OutboxInv, TypeOK, TablesTypeOK, OutboxRow
<1>1. CASE outbox'[d] = outbox[d]
  BY <1>0, <1>1 DEF AttemptsCounted, Tried
<1>2. ASSUME NEW e \in Entry, Accepted(e) PROVE outbox'[d] = outbox[d]
  <2>1. PICK i \in Item, p \in Text : outbox' = WithNewEntry(e, i, p)
    BY <1>2 DEF Accepted
  <2>2. d # e
    BY <1>0, <2>1 DEF WithNewEntry, TypeOK, TablesTypeOK
  <2>. QED  BY <1>0, <2>1, <2>2 DEF WithNewEntry, TypeOK, TablesTypeOK
<1>3. ASSUME NEW e \in Entry, Withdrawn(e) PROVE outbox'[d] = outbox[d]
  BY <1>0, <1>3, EntryStatusEffect DEF Withdrawn
<1>4. ASSUME NEW S \in SUBSET Claimable, outbox' = WithClaimed(S)
      PROVE  outbox'[d].attempts > 0
  <2>1. /\ outbox'[d].attempts = IF d \in S THEN outbox[d].attempts + 1 ELSE outbox[d].attempts
        /\ outbox'[d].status = IF d \in S THEN "PROCESSING" ELSE outbox[d].status
    BY <1>0, <1>4, ClaimedTypes
  <2>. QED  BY <1>0, <2>1 DEF AttemptsCounted, Tried
<1>5. ASSUME NEW w \in Workers, NEW logged, NEW status, Recorded(w, logged, status)
      PROVE  outbox'[d].attempts > 0
  <2>1. current[w] \in Entry /\ outbox' = WithEntryStatus(current[w], status)
    BY <1>5 DEF Recorded
  <2>2. outbox[current[w]].status = "PROCESSING"
    <3>1. claimed[w][current[w]] # 0
      BY <1>0, <2>1, MaxEntriesAssumption DEF TypeOK, WorkerTypeOK, NoEntry, Entry
    <3>. QED  BY <1>0, <2>1, <3>1 DEF OutboxInv, ClaimExclusive
  <2>3. /\ outbox'[d].attempts = outbox[d].attempts
        /\ d # current[w] => outbox'[d] = outbox[d]
    BY <1>0, <2>1, EntryStatusEffect
  <2>. QED  BY <1>0, <2>2, <2>3 DEF AttemptsCounted, Tried
<1>. QED
  BY <1>1, <1>2, <1>3, <1>4, <1>5
  DEF OutboxStep, Kept, TakenBy, TakenLost, Called, Dropped, Stopped

\* A step logs nothing, or one outcome of the entry a worker is at.
LogStep ==
    \/ UNCHANGED <<syncLogs, newestLog>>
    \/ \E w \in Workers, logged \in SyncStatus :
           /\ current[w] \in Entry
           /\ syncLogs' = Log(current[w], logged)
           /\ newestLog' = NewestLog(current[w])

LEMMA LogSteps ==
  ASSUME TypeOK, [Next]_vars
  PROVE  LogStep
<1> USE DEF LogStep
<1>1. ASSUME NEW c \in OrderClients, OrderNext(c) PROVE UNCHANGED <<syncLogs, newestLog>>
  BY <1>1
  DEF OrderNext, CreateOrder, UpdateOrder, UpdateOrderListItems, UpdateOrderWrite, AddItem,
      AddItemInsert, AddItemPromote, UpdateItem, UpdateItemRead, UpdateItemCurrent,
      UpdateItemWrite, OrderAbort, tables
<1>2. ASSUME NEW c \in SyncClients, SyncNext(c) PROVE UNCHANGED <<syncLogs, newestLog>>
  BY <1>2
  DEF SyncNext, EnqueueSync, EnqueueItem, EnqueueActive, EnqueueCommit, CancelSync,
      CancelCommit, CancelRefused, CancelReread, GetSyncStatus, GetLatestSyncStatus,
      ReadEntry, StatusLogs, StatusAnswer, SyncAbort, EntriesOf, tables
<1>3. ASSUME NEW w \in Workers, WorkerNext(w) PROVE LogStep
  <2>1. ASSUME NEW logged \in SyncStatus, NEW status, NEW newOutbox, answer[w] # "none",
               Record(w, logged, status, newOutbox)
        PROVE  LogStep
    BY <2>1 DEF Record, TypeOK, WorkerTypeOK
  <2>2. CASE RecordAccepted(w) \/ RecordRejected(w) \/ RecordError(w)
    BY <2>1, <2>2 DEF RecordAccepted, RecordRejected, RecordError, SyncStatus
  <2>. QED
    BY <1>3, <2>2
    DEF WorkerNext, Claim, ClaimPending, ClaimLost, Call, CallSAP, RecordFails, Crash, tables
<1>4. CASE UNCHANGED vars
  BY <1>4 DEF vars, tables
<1>. QED  BY <1>1, <1>2, <1>3, <1>4 DEF Next

\* Once an item has a log row it keeps one.
LEMMA NewestStays ==
  ASSUME TypeOK, LogStep, NEW i \in Item, newestLog[i] # NoEntry
  PROVE  newestLog'[i] # NoEntry
BY MaxEntriesAssumption
DEF LogStep, NewestLog, NoEntry, Entry, TypeOK, TablesTypeOK

LEMMA StepNewestLogged ==
  ASSUME AnswersInv, [Next]_vars
  PROVE  NewestLogged'
<1>0. /\ TypeOK /\ OutboxInv /\ OutboxStep /\ LogStep /\ NewestLogged
      /\ \A e \in Entry : Grows(e) /\ EntryItemStep(e)
  BY StepKinds, LogSteps, EntriesGrow, EntryItemSteps DEF AnswersInv, ItemsInv, OutboxInv
<1>1. ASSUME NEW e \in Entry, Logs(e) PROVE Created(e)
  <2>1. /\ Len(syncLogs[e]) \in Nat /\ outbox[e].attempts \in Nat
    BY <1>0, MaxAttemptsAssumption DEF TypeOK, TablesTypeOK, OutboxRow
  <2>2. Len(syncLogs[e]) =
            outbox[e].attempts - (IF outbox[e].status = "PROCESSING" THEN 1 ELSE 0)
    BY <1>0 DEF OutboxInv, AuditComplete
  <2>3. outbox[e].attempts # 0
    BY <1>1, <2>1, <2>2 DEF Logs
  <2>. QED  BY <1>0, <2>3 DEF OutboxInv, AbsentIsBlank
<1>2. \A e \in Entry : Created(e) => outbox[e].item \in Item
  BY <1>0 DEF TypeOK, TablesTypeOK, Created
<1>3. \A e \in Entry : Logs(e) => Logs(e)'
  BY <1>0 DEF Logs, Grows, TypeOK, TablesTypeOK
<1>4. \A e \in Entry : syncLogs'[e] = syncLogs[e] => (Logs(e)' <=> Logs(e))
  BY DEF Logs
<1>5. CASE UNCHANGED <<syncLogs, newestLog>>
  BY <1>0, <1>1, <1>4, <1>5 DEF NewestLogged, EntryItemStep, Logs
<1>6. ASSUME NEW w \in Workers, NEW logged \in SyncStatus, NEW e \in Entry,
             current[w] = e, syncLogs' = Log(e, logged), newestLog' = NewestLog(e)
      PROVE  NewestLogged'
  <2>1. Created(e)
    <3>1. claimed[w][e] # 0
      BY <1>0, <1>6, MaxEntriesAssumption DEF TypeOK, WorkerTypeOK, NoEntry, Entry
    <3>. QED  BY <1>0, <1>6, <3>1 DEF TypeOK, WorkerTypeOK
  <2>2. Logs(e)'
    <3>1. syncLogs[e] \in Seq(SyncStatus) /\ syncLogs'[e] = Append(syncLogs[e], logged)
      BY <1>0, <1>6 DEF Log, TypeOK, TablesTypeOK
    <3>2. Len(syncLogs'[e]) = Len(syncLogs[e]) + 1 /\ Len(syncLogs[e]) \in Nat
      BY <3>1
    <3>. QED  BY <3>2 DEF Logs
  <2>3. \A d \in Entry : d # e => syncLogs'[d] = syncLogs[d]
    BY <1>0, <1>6 DEF Log, TypeOK, TablesTypeOK
  <2>4. newestLog' = [newestLog EXCEPT ![outbox[e].item] = e] /\ outbox[e].item \in Item
    BY <1>2, <1>6, <2>1 DEF NewestLog
  <2>5. e # NoEntry
    BY <1>6, MaxEntriesAssumption DEF NoEntry, Entry
  <2>6. ASSUME NEW d \in Entry, Logs(d)' PROVE newestLog'[outbox'[d].item] # NoEntry
    <3>1. CASE d = e
      <4>1. outbox'[d].item = outbox[e].item
        BY <1>0, <2>1, <3>1 DEF EntryItemStep
      <4>. QED  BY <1>0, <2>4, <2>5, <4>1 DEF TypeOK, TablesTypeOK
    <3>2. CASE d # e
      <4>1. Logs(d)
        BY <1>4, <2>3, <2>6, <3>2
      <4>2. outbox'[d].item = outbox[d].item /\ outbox[d].item \in Item
        BY <1>0, <1>1, <1>2, <4>1 DEF EntryItemStep
      <4>. QED  BY <1>0, <4>1, <4>2, NewestStays DEF NewestLogged
    <3>. QED  BY <3>1, <3>2
  <2>7. ASSUME NEW i \in Item, newestLog'[i] # NoEntry PROVE Logs(newestLog[i])'
    <3>1. CASE i = outbox[e].item
      BY <1>0, <2>2, <2>4, <3>1 DEF Logs, TypeOK, TablesTypeOK
    <3>2. CASE i # outbox[e].item
      <4>1. newestLog'[i] = newestLog[i] /\ newestLog[i] \in Entry
        BY <1>0, <2>4, <2>7, <3>2 DEF TypeOK, TablesTypeOK, EntryRef, NoEntry, Entry
      <4>. QED  BY <1>0, <1>3, <2>7, <4>1 DEF NewestLogged, Logs
    <3>. QED  BY <3>1, <3>2
  <2>. QED  BY <2>6, <2>7 DEF NewestLogged
<1>7. CASE \E w \in Workers, logged \in SyncStatus :
          /\ current[w] \in Entry
          /\ syncLogs' = Log(current[w], logged)
          /\ newestLog' = NewestLog(current[w])
  BY <1>6, <1>7
<1>. QED  BY <1>0, <1>5, <1>7 DEF LogStep

\* What is taken stays taken: attempts are never given back.
LEMMA TakenStays ==
  ASSUME OutboxInv, TypeOK', OutboxStep, NEW e \in Entry, Taken(e)
  PROVE  Taken(e)'
<1>0. outbox'[e].attempts \in Nat
  BY MaxAttemptsAssumption DEF TypeOK, TablesTypeOK, OutboxRow
<1>1. outbox[e].attempts \in Nat /\ outbox'[e].attempts >= outbox[e].attempts
  BY EntriesGrow, MaxAttemptsAssumption
  DEF Grows, OutboxInv, TypeOK, TablesTypeOK, OutboxRow
<1>2. CASE Tried(e)
  <2>1. outbox'[e].attempts > 0
    BY <1>0, <1>1, <1>2 DEF Tried
  <2>. QED  BY <2>1 DEF Taken, Tried
<1>3. CASE outbox[e].status = "CANCELLED"
  BY <1>3, StepFinished DEF Finished, Taken
<1>. QED  BY <1>2, <1>3 DEF Taken

LEMMA StepAnswerFollows ==
  ASSUME AnswersInv, [Next]_vars, NEW c \in SyncClients
  PROVE  AnswerFollows(c)'
<1>0. /\ TypeOK /\ OutboxInv /\ OutboxStep /\ LogStep /\ AttemptsCounted /\ NewestLogged
      /\ AnswerFollows(c) /\ SyncReliesOn(c)
      /\ \A e \in Entry : Taken(e) => Taken(e)'
      /\ \A i \in Item : newestLog[i] # NoEntry => newestLog'[i] # NoEntry
  <2>1. OutboxInv /\ TypeOK /\ TypeOK'
    BY NextItemsInv DEF AnswersInv, ItemsInv, OutboxInv
  <2>. QED
    BY <2>1, StepKinds, LogSteps, TakenStays, NewestStays DEF AnswersInv, ItemsInv
<1>1. sreq \in [SyncClients -> SyncRequest] /\ SyncHolds(sreq[c])
  BY <1>0 DEF TypeOK, SyncTypeOK
<1>2. CASE sreq'[c] = sreq[c]
  <2>1. ASSUME NEW e \in Entry, e = sreq[c].entry, Taken(e) PROVE Taken(sreq[c].entry)'
    <3>1. Taken(e)'
      BY <1>0, <2>1
    <3>. QED  BY <1>2, <2>1, <3>1
  <2>2. /\ sreq[c].pc = "reread" => sreq[c].entry \in Entry
        /\ sreq[c].pc = "logs" => sreq[c].item \in Item
    BY <1>1 DEF SyncHolds
  <2>. QED  BY <1>0, <1>2, <2>1, <2>2 DEF AnswerFollows
<1>3. CASE SyncNext(c)
  <2> USE DEF AnswerFollows
  <2>1. CASE EndSync(c)
    BY <1>1, <2>1 DEF EndSync, SyncIdle
  <2>2. CASE sreq'[c].pc \notin {"reread", "logs", "answered"}
    BY <2>2
  <2>3. ASSUME NEW i \in Item, EnqueueSync(c, i) PROVE AnswerFollows(c)'
    BY <1>1, <2>2, <2>3 DEF EnqueueSync, SyncIdle
  <2>4. CASE EnqueueItem(c) \/ EnqueueActive(c)
    BY <1>1, <2>1, <2>2, <2>4 DEF EnqueueItem, EnqueueActive, SyncRequest
  <2>5. ASSUME NEW e \in Entry, CancelSync(c, e) PROVE AnswerFollows(c)'
    BY <1>1, <2>2, <2>5 DEF CancelSync, SyncIdle
  <2>6. CASE CancelRefused(c)
    <3>1. /\ sreq[c].pc = "cancel" /\ sreq'[c].pc = "reread" /\ sreq'[c].entry = sreq[c].entry
          /\ outbox[sreq[c].entry].status # "PENDING" /\ UNCHANGED outbox
      BY <1>1, <2>6 DEF CancelRefused, SyncRequest, tables
    <3>2. sreq[c].entry \in Entry /\ Created(sreq[c].entry)
      BY <1>0, <1>1, <3>1 DEF SyncHolds, SyncReliesOn
    <3>3. Taken(sreq[c].entry)
      BY <1>0, <3>1, <3>2
      DEF Taken, AttemptsCounted, Created, TypeOK, TablesTypeOK, OutboxRow, OutboxStatus
    <3>. QED  BY <3>1, <3>3 DEF Taken, Tried
  <2>7. ASSUME NEW e \in Entry, ReadEntry(c, e) PROVE AnswerFollows(c)'
    <3>1. /\ sreq'[c].pc = IF outbox[e].status \in {"COMPLETED", "FAILED"}
                           THEN "logs" ELSE "answered"
          /\ sreq'[c].item = outbox[e].item /\ sreq'[c].seen = outbox[e].status
          /\ UNCHANGED newestLog
      BY <1>1, <2>7 DEF ReadEntry, SyncIdle, tables
    <3>2. outbox[e].status \in {"COMPLETED", "FAILED"} => Logs(e)
      <4>1. Len(syncLogs[e]) \in Nat /\ outbox[e].attempts \in Nat
        BY <1>0, MaxAttemptsAssumption DEF TypeOK, TablesTypeOK, OutboxRow
      <4>. QED  BY <1>0, <4>1 DEF OutboxInv, AuditComplete, AttemptsCounted, Tried, Logs
    <3>. QED  BY <1>0, <3>1, <3>2 DEF NewestLogged
  <2>8. CASE StatusLogs(c)
    <3>1. /\ sreq[c].pc = "logs" /\ sreq'[c].pc = "answered" /\ sreq[c].item \in Item
      BY <1>1, <2>8 DEF StatusLogs, SyncRequest, SyncHolds
    <3>2. newestLog[sreq[c].item] # NoEntry /\ Logs(newestLog[sreq[c].item])
      BY <1>0, <3>1 DEF NewestLogged
    <3> DEFINE e == newestLog[sreq[c].item]
    <3>3. e \in Entry /\ syncLogs[e] \in Seq(SyncStatus)
      BY <1>0, <3>1, <3>2 DEF TypeOK, TablesTypeOK, EntryRef, Entry, NoEntry
    <3>4. syncLogs[e] # << >> /\ syncLogs[e][Len(syncLogs[e])] \in SyncStatus
      BY <3>2, <3>3 DEF Logs
    <3>5. sreq'[c].log = syncLogs[e][Len(syncLogs[e])]
      BY <1>1, <2>8, <3>2, <3>4 DEF StatusLogs, SyncRequest
    <3>. QED  BY <3>1, <3>4, <3>5 DEF SyncStatus
  <2>. QED
    BY <1>3, <2>1, <2>3, <2>4, <2>5, <2>6, <2>7, <2>8
    DEF SyncNext, EnqueueCommit, CancelCommit, CancelReread, GetSyncStatus,
        GetLatestSyncStatus, StatusAnswer, SyncAbort, EntriesOf
<1>4. ASSUME NEW d \in SyncClients, d # c, SyncNext(d) PROVE sreq'[c] = sreq[c]
  BY <1>1, <1>4
  DEF SyncNext, EnqueueSync, EnqueueItem, EnqueueActive, EnqueueCommit, CancelSync,
      CancelCommit, CancelRefused, CancelReread, GetSyncStatus, GetLatestSyncStatus,
      ReadEntry, StatusLogs, StatusAnswer, SyncAbort, EntriesOf, EndSync
<1>. QED
  BY <1>2, <1>3, <1>4 DEF Next, vars

LEMMA AnswersInvariant == Spec => []AnswersInv
<1>1. AnswersInv /\ [Next]_vars => AnswersInv'
  <2> SUFFICES ASSUME AnswersInv, [Next]_vars PROVE AnswersInv'
    OBVIOUS
  <2>1. ItemsInv' /\ OutboxStep
    BY NextItemsInv, StepKinds DEF AnswersInv, ItemsInv, OutboxInv
  <2>. QED
    BY <2>1, StepAttemptsCounted, StepNewestLogged, StepAnswerFollows DEF AnswersInv
<1>. QED  BY <1>1, InitAnswersInv, PTL DEF Spec

\* Cancel's second read may find the entry PENDING again, but never one that
\* has only waited: a refusal always has a claim or a cancel behind it.
THEOREM RefusalsRight == Spec => []RefusedWasTaken
<1>1. AnswersInv => RefusedWasTaken
  BY DEF AnswersInv, AnswerFollows, RefusedWasTaken, Taken, Tried
<1>. QED  BY <1>1, AnswersInvariant, PTL

\* buildSyncStatusResponse finds a log row for every entry it read as COMPLETED
\* or FAILED, though entry and logs are read in two statements.
THEOREM FinishedHasLog == Spec => []FinishedStatusHasLog
<1>1. AnswersInv => FinishedStatusHasLog
  BY DEF AnswersInv, AnswerFollows, FinishedStatusHasLog
<1>. QED  BY <1>1, AnswersInvariant, PTL
-----------------------------------------------------------------------------
(* Orders and their items. *)

Started(o) == ItemsOf(o) # {}

\* What a request for an order may rely on until it writes.
OrderFollows(c) ==
    /\ oreq[c].pc = "items" /\ oreq[c].saw \in {"IN_PROGRESS", "CLOSED"} =>
           Started(oreq[c].order)
    /\ oreq[c].pc = "write" /\ oreq[c].status \in {"IN_PROGRESS", "CLOSED"} =>
           Started(oreq[c].order)
    /\ oreq[c].pc \in {"insert", "promote"} => oreq[c].order = OrderOf[oreq[c].item]
    /\ oreq[c].pc = "promote" => ItemExists(oreq[c].item)

OrdersInv ==
    /\ ItemsInv
    /\ NonOpenOrderHasItems
    /\ \A c \in OrderClients : OrderFollows(c)

LEMMA InitOrdersInv == Init => OrdersInv
<1> SUFFICES ASSUME Init PROVE OrdersInv
  OBVIOUS
<1>1. NonOpenOrderHasItems
  <2> SUFFICES ASSUME NEW o \in Order, orders[o] \in {"IN_PROGRESS", "CLOSED"}
               PROVE  ItemsOf(o) # {}
    BY DEF NonOpenOrderHasItems
  <2>1. SeedOrder[o] = "IN_PROGRESS"
    BY SeedOrderAssumption DEF Init, TablesInit
  <2>2. PICK i \in Item : OrderOf[i] = o /\ SeedItem[i] # "ABSENT"
    BY <2>1, SeedRowsAssumption
  <2>3. i \in ItemsOf(o)
    BY <2>2 DEF ItemsOf, ItemExists, Init, TablesInit
  <2>. QED  BY <2>3
<1>2. \A c \in OrderClients : OrderFollows(c)
  BY DEF OrderFollows, Init, OrderInit, OrderIdle
<1>. QED  BY <1>1, <1>2, InitItemsInv DEF OrdersInv

\* Items are never deleted.
LEMMA StartedStays ==
  ASSUME ItemsInv, [Next]_vars, NEW o \in Order, Started(o)
  PROVE  Started(o)'
<1>1. PICK i \in Item : OrderOf[i] = o /\ ItemExists(i)
  BY DEF Started, ItemsOf
<1>2. ItemExists(i)'
  BY <1>1, ItemsStay
<1>. QED  BY <1>1, <1>2 DEF Started, ItemsOf

\* An item's order is started.
LEMMA ItemStarts ==
  ASSUME NEW i \in Item, ItemExists(i)
  PROVE  Started(OrderOf[i])
BY DEF Started, ItemsOf

LEMMA StepNonOpen ==
  ASSUME OrdersInv, [Next]_vars
  PROVE  NonOpenOrderHasItems'
<1> SUFFICES ASSUME NEW o \in Order, orders'[o] \in {"IN_PROGRESS", "CLOSED"}
             PROVE  Started(o)'
  BY DEF NonOpenOrderHasItems, Started
<1>0. TypeOK /\ ItemsInv /\ (orders[o] \in {"IN_PROGRESS", "CLOSED"} => Started(o))
  BY DEF OrdersInv, ItemsInv, OutboxInv, NonOpenOrderHasItems, Started
<1>1. CASE orders'[o] = orders[o]
  BY <1>0, <1>1, StartedStays
<1>2. ASSUME NEW c \in OrderClients, UpdateOrderWrite(c) \/ AddItemPromote(c),
             orders'[o] # orders[o]
      PROVE  Started(o)
  <2>1. OrderFollows(c) /\ OrderHolds(oreq[c])
    BY <1>0 DEF OrdersInv, TypeOK, OrderTypeOK
  <2>2. CASE UpdateOrderWrite(c)
    <3>1. oreq[c].pc = "write" /\ o = oreq[c].order /\ orders'[o] = oreq[c].status
      BY <1>0, <1>2, <2>1, <2>2 DEF UpdateOrderWrite, TypeOK, TablesTypeOK
    <3>. QED  BY <2>1, <3>1 DEF OrderFollows
  <2>3. CASE AddItemPromote(c)
    <3>1. oreq[c].pc = "promote" /\ o = oreq[c].order /\ oreq[c].item \in Item
      BY <1>0, <1>2, <2>1, <2>3 DEF AddItemPromote, OrderHolds, TypeOK, TablesTypeOK
    <3>. QED  BY <2>1, <3>1, ItemStarts DEF OrderFollows
  <2>. QED  BY <1>2, <2>2, <2>3
<1>3. ASSUME NEW c \in OrderClients, NEW n \in Order, CreateOrder(c, n), o = n
      PROVE  orders'[o] = "OPEN"
  BY <1>0, <1>3 DEF CreateOrder, TypeOK, TablesTypeOK
<1>4. ASSUME NEW c \in OrderClients, NEW n \in Order, CreateOrder(c, n), o # n
      PROVE  orders'[o] = orders[o]
  BY <1>0, <1>4 DEF CreateOrder, TypeOK, TablesTypeOK
<1>5. ASSUME NEW c \in OrderClients, OrderNext(c), orders'[o] # orders[o]
      PROVE  UpdateOrderWrite(c) \/ AddItemPromote(c)
  <2>1. ASSUME NEW n \in Order, CreateOrder(c, n) PROVE FALSE
    BY <1>3, <1>4, <1>5, <2>1
  <2>. QED
    BY <1>5, <2>1
    DEF OrderNext, UpdateOrder, UpdateOrderListItems, AddItem, AddItemInsert, UpdateItem,
        UpdateItemRead, UpdateItemCurrent, UpdateItemWrite, OrderAbort, tables
<1>6. ASSUME NEW c \in SyncClients, SyncNext(c) PROVE orders' = orders
  BY <1>6
  DEF SyncNext, EnqueueSync, EnqueueItem, EnqueueActive, EnqueueCommit, CancelSync,
      CancelCommit, CancelRefused, CancelReread, GetSyncStatus, GetLatestSyncStatus,
      ReadEntry, StatusLogs, StatusAnswer, SyncAbort, EntriesOf, tables
<1>7. ASSUME NEW w \in Workers, WorkerNext(w) PROVE orders' = orders
  BY <1>7
  DEF WorkerNext, Claim, ClaimPending, ClaimLost, Call, CallSAP, RecordAccepted,
      RecordRejected, RecordError, Record, RecordFails, Crash, tables
<1>8. CASE UNCHANGED vars
  BY <1>1, <1>8 DEF vars, tables
<1>. QED
  BY <1>0, <1>1, <1>2, <1>5, <1>6, <1>7, <1>8, StartedStays DEF Next

LEMMA StepOrderFollows ==
  ASSUME OrdersInv, [Next]_vars, NEW c \in OrderClients
  PROVE  OrderFollows(c)'
<1>0. TypeOK /\ ItemsInv /\ NonOpenOrderHasItems /\ OrderFollows(c)
  BY DEF OrdersInv, ItemsInv, OutboxInv
<1>1. oreq \in [OrderClients -> OrderRequest] /\ OrderHolds(oreq[c])
  BY <1>0 DEF TypeOK, OrderTypeOK
<1>2. CASE oreq'[c] = oreq[c]
  <2>1. ASSUME NEW o \in Order, o = oreq[c].order, Started(o) PROVE Started(oreq[c].order)'
    <3>1. Started(o)'
      BY <1>0, <2>1, StartedStays
    <3>. QED  BY <1>2, <2>1, <3>1
  <2>2. ASSUME NEW i \in Item, i = oreq[c].item, ItemExists(i) PROVE ItemExists(oreq[c].item)'
    <3>1. ItemExists(i)'
      BY <1>0, <2>2, ItemsStay
    <3>. QED  BY <1>2, <2>2, <3>1
  <2>3. /\ oreq[c].pc \in {"items", "write"} => oreq[c].order \in Order
        /\ oreq[c].pc = "promote" => oreq[c].item \in Item
    BY <1>1 DEF OrderHolds
  <2>. QED  BY <1>0, <1>2, <2>1, <2>2, <2>3 DEF OrderFollows
<1>3. CASE OrderNext(c)
  <2> USE DEF OrderFollows
  <2>1. CASE EndOrder(c)
    BY <1>1, <2>1 DEF EndOrder, OrderIdle
  <2>2. ASSUME NEW o \in Order, NEW s, UpdateOrder(c, o, s) PROVE OrderFollows(c)'
    <3>1. /\ oreq'[c].pc = "items" /\ oreq'[c].order = o /\ oreq'[c].saw = orders[o]
          /\ UNCHANGED items
      BY <1>1, <2>2 DEF UpdateOrder, OrderIdle, tables
    <3>2. oreq'[c].saw \in {"IN_PROGRESS", "CLOSED"} => Started(o)
      BY <1>0, <3>1 DEF NonOpenOrderHasItems, Started
    <3>. QED  BY <3>1, <3>2 DEF Started, ItemsOf, ItemExists
  <2>3. CASE UpdateOrderListItems(c)
    <3>1. CASE ~EndOrder(c)
      <4>1. /\ oreq[c].pc = "items" /\ oreq'[c].pc = "write"
            /\ oreq'[c].order = oreq[c].order /\ oreq'[c].status = oreq[c].status
            /\ CanTransitionTo(oreq[c].saw, oreq[c].status, SeenStatuses(oreq[c].order))
            /\ UNCHANGED items
        BY <1>1, <2>3, <3>1 DEF UpdateOrderListItems, OrderRequest, tables
      <4>2. SeenStatuses(oreq[c].order) # {} => Started(oreq[c].order)
        BY DEF SeenStatuses, Started
      <4>3. oreq[c].status \in {"IN_PROGRESS", "CLOSED"} => Started(oreq[c].order)
        BY <1>0, <4>1, <4>2 DEF CanTransitionTo
      <4>. QED  BY <4>1, <4>3 DEF Started, ItemsOf, ItemExists
    <3>. QED  BY <2>1, <3>1
  <2>4. ASSUME NEW i \in Item, NEW t, AddItem(c, i, t) PROVE OrderFollows(c)'
    BY <1>1, <2>4 DEF AddItem, OrderIdle
  <2>5. CASE AddItemInsert(c)
    <3>1. CASE ~EndOrder(c)
      <4>1. /\ oreq[c].pc = "insert" /\ oreq'[c].pc = "promote"
            /\ oreq'[c].order = oreq[c].order /\ oreq'[c].item = oreq[c].item
            /\ items' = [items EXCEPT ![oreq[c].item] = NewItemRow(oreq[c].text)]
        BY <1>1, <2>5, <3>1 DEF AddItemInsert, OrderRequest
      <4>2. items'[oreq[c].item].status = "PENDING"
        BY <1>0, <1>1, <4>1 DEF OrderHolds, NewItemRow, TypeOK, TablesTypeOK
      <4>. QED  BY <1>0, <4>1, <4>2 DEF ItemExists
    <3>. QED  BY <2>1, <3>1
  <2>6. ASSUME NEW i \in Item, NEW t, UpdateItem(c, i, t) PROVE OrderFollows(c)'
    BY <1>1, <2>6 DEF UpdateItem, OrderIdle
  <2>7. CASE UpdateItemRead(c) \/ UpdateItemCurrent(c)
    BY <1>1, <2>1, <2>7 DEF UpdateItemRead, UpdateItemCurrent, OrderRequest
  <2>8. ASSUME NEW o \in Order, CreateOrder(c, o) PROVE OrderFollows(c)'
    BY <1>2, <2>8 DEF CreateOrder
  <2>. QED
    BY <1>3, <2>1, <2>2, <2>3, <2>4, <2>5, <2>6, <2>7, <2>8
    DEF OrderNext, UpdateOrderWrite, AddItemPromote, UpdateItemWrite, OrderAbort
<1>4. ASSUME NEW d \in OrderClients, d # c, OrderNext(d) PROVE oreq'[c] = oreq[c]
  BY <1>1, <1>4
  DEF OrderNext, CreateOrder, UpdateOrder, UpdateOrderListItems, UpdateOrderWrite, AddItem,
      AddItemInsert, AddItemPromote, UpdateItem, UpdateItemRead, UpdateItemCurrent,
      UpdateItemWrite, OrderAbort, EndOrder
<1>. QED
  BY <1>2, <1>3, <1>4 DEF Next, vars

\* An order is IN_PROGRESS or CLOSED only with an item, however requests that
\* add items and requests that set its status interleave or fail half way.
THEOREM NonOpenHasItems == Spec => []NonOpenOrderHasItems
<1>1. OrdersInv /\ [Next]_vars => OrdersInv'
  <2> SUFFICES ASSUME OrdersInv, [Next]_vars PROVE OrdersInv'
    OBVIOUS
  <2>1. ItemsInv'
    BY NextItemsInv DEF OrdersInv
  <2>. QED  BY <2>1, StepNonOpen, StepOrderFollows DEF OrdersInv
<1>2. OrdersInv => NonOpenOrderHasItems
  BY DEF OrdersInv
<1>. QED  BY <1>1, <1>2, InitOrdersInv, PTL DEF Spec

-----------------------------------------------------------------------------
(* The steps of an order's status. *)

\* What a handler is going to write follows from what it has read.
WriteFollows(c) ==
    /\ oreq[c].pc = "write" =>
           oreq[c].status = oreq[c].saw \/ LegalStep(oreq[c].saw, oreq[c].status)
    /\ oreq[c].pc = "promote" => oreq[c].saw = "OPEN"
    /\ oreq[c].pc = "insert" => /\ oreq[c].saw \in {"OPEN", "IN_PROGRESS"}
                               /\ oreq[c].order = OrderOf[oreq[c].item]

\* Nobody else writes an order.
LEMMA OrderWriters ==
  ASSUME [Next]_vars
  PROVE  \/ orders' = orders /\ oreq' = oreq
         \/ \E c \in OrderClients : OrderNext(c)
<1>1. ASSUME NEW c \in SyncClients, SyncNext(c) PROVE orders' = orders
  BY <1>1
  DEF SyncNext, EnqueueSync, EnqueueItem, EnqueueActive, EnqueueCommit, CancelSync,
      CancelCommit, CancelRefused, CancelReread, GetSyncStatus, GetLatestSyncStatus,
      ReadEntry, StatusLogs, StatusAnswer, SyncAbort, EntriesOf, tables
<1>2. ASSUME NEW w \in Workers, WorkerNext(w) PROVE orders' = orders
  BY <1>2
  DEF WorkerNext, Claim, ClaimPending, ClaimLost, Call, CallSAP, RecordAccepted,
      RecordRejected, RecordError, Record, RecordFails, Crash, tables
<1>. QED  BY <1>1, <1>2 DEF Next, vars, tables

\* A handler's steps are its own.
LEMMA OthersStand ==
  ASSUME TypeOK, NEW c \in OrderClients, NEW d \in OrderClients, d # c, OrderNext(d)
  PROVE  oreq'[c] = oreq[c]
BY DEF OrderNext, CreateOrder, UpdateOrder, UpdateOrderListItems, UpdateOrderWrite, AddItem,
       AddItemInsert, AddItemPromote, UpdateItem, UpdateItemRead, UpdateItemCurrent,
       UpdateItemWrite, OrderAbort, EndOrder, TypeOK, OrderTypeOK

\* How a handler's own step treats its order and what it has read.
LEMMA StepWriteFollows ==
  ASSUME TypeOK, NEW c \in OrderClients, OrderNext(c), WriteFollows(c)
  PROVE  /\ WriteFollows(c)'
         /\ \A o \in Order : orders'[o] # orders[o] =>
                \/ LegalStep(orders[o], orders'[o])
                \/ /\ Overtakes(c, o)
                   /\ orders'[o] = oreq[c].saw \/ LegalStep(oreq[c].saw, orders'[o])
<1> USE DEF WriteFollows
<1>0. /\ oreq \in [OrderClients -> OrderRequest] /\ OrderHolds(oreq[c])
      /\ orders \in [Order -> OrderStatus \cup {"ABSENT"}]
  BY DEF TypeOK, OrderTypeOK, TablesTypeOK
<1>1. ASSUME EndOrder(c) PROVE WriteFollows(c)' /\ oreq'[c].pc = "idle"
  BY <1>0, <1>1 DEF EndOrder, OrderIdle
<1>2. ASSUME NEW n \in Order, CreateOrder(c, n)
      PROVE  /\ WriteFollows(c)'
             /\ \A o \in Order : orders'[o] # orders[o] => LegalStep(orders[o], orders'[o])
  <2>1. oreq'[c].pc = "idle" /\ orders[n] = "ABSENT" /\ orders' = [orders EXCEPT ![n] = "OPEN"]
    BY <1>2 DEF CreateOrder
  <2>. QED  BY <1>0, <2>1 DEF LegalStep
<1>3. CASE UpdateOrderWrite(c)
  BY <1>0, <1>1, <1>3 DEF UpdateOrderWrite, OrderHolds, Overtakes
<1>4. CASE AddItemPromote(c)
  BY <1>0, <1>1, <1>4 DEF AddItemPromote, OrderHolds, Overtakes, LegalStep
<1>5. ASSUME NEW o \in Order, NEW s \in OrderStatus, UpdateOrder(c, o, s)
      PROVE  orders' = orders /\ WriteFollows(c)'
  BY <1>0, <1>5 DEF UpdateOrder, OrderIdle, tables
<1>6. CASE UpdateOrderListItems(c)
  <2>1. CASE ~EndOrder(c)
    <3>1. /\ oreq[c].pc = "items" /\ oreq'[c].pc = "write"
          /\ oreq'[c].status = oreq[c].status /\ oreq'[c].saw = oreq[c].saw
          /\ CanTransitionTo(oreq[c].saw, oreq[c].status, SeenStatuses(oreq[c].order))
          /\ orders' = orders
      BY <1>0, <1>6, <2>1 DEF UpdateOrderListItems, OrderRequest, tables
    <3>. QED  BY <3>1 DEF CanTransitionTo, LegalStep
  <2>. QED  BY <1>1, <1>6, <2>1 DEF UpdateOrderListItems, tables
<1>7. ASSUME NEW i \in Item, NEW t, AddItem(c, i, t)
      PROVE  orders' = orders /\ WriteFollows(c)'
  <2>1. orders[OrderOf[i]] \in {"OPEN", "IN_PROGRESS"}
    BY <1>0, <1>7, OrderOfAssumption DEF AddItem, OrderStatus
  <2>. QED  BY <1>0, <1>7, <2>1 DEF AddItem, OrderIdle, tables
<1>8. CASE AddItemInsert(c)
  <2>1. CASE ~EndOrder(c)
    <3>1. /\ oreq[c].pc = "insert" /\ oreq'[c].pc = "promote" /\ oreq'[c].saw = oreq[c].saw
          /\ oreq[c].saw = "OPEN" /\ orders' = orders
      BY <1>0, <1>8, <2>1 DEF AddItemInsert, OrderRequest
    <3>. QED  BY <3>1
  <2>. QED  BY <1>1, <1>8, <2>1 DEF AddItemInsert
<1>9. ASSUME NEW i \in Item, NEW t, UpdateItem(c, i, t)
      PROVE  orders' = orders /\ WriteFollows(c)'
  BY <1>0, <1>9 DEF UpdateItem, OrderIdle, tables
<1>10. CASE UpdateItemRead(c) \/ UpdateItemCurrent(c)
  BY <1>0, <1>1, <1>10 DEF UpdateItemRead, UpdateItemCurrent, OrderRequest, tables
<1>. QED
  BY <1>1, <1>2, <1>3, <1>4, <1>5, <1>6, <1>7, <1>8, <1>9, <1>10
  DEF OrderNext, UpdateItemWrite, OrderAbort, tables

WritesInv == TypeOK /\ \A c \in OrderClients : WriteFollows(c)

LEMMA InitWritesInv == Init => WritesInv
BY InitTypeOK DEF WritesInv, WriteFollows, Init, OrderInit, OrderIdle

LEMMA NextWritesInv == WritesInv /\ [Next]_vars => WritesInv'
<1> SUFFICES ASSUME WritesInv, [Next]_vars PROVE WritesInv'
  OBVIOUS
<1>1. TypeOK'
  BY NextTypeOK DEF WritesInv
<1>2. ASSUME NEW c \in OrderClients, oreq'[c] = oreq[c] PROVE WriteFollows(c)'
  BY <1>2 DEF WritesInv, WriteFollows
<1>3. ASSUME NEW c \in OrderClients, NEW d \in OrderClients, OrderNext(d)
      PROVE  WriteFollows(c)'
  <2>1. CASE d = c
    BY <1>3, <2>1, StepWriteFollows DEF WritesInv
  <2>2. CASE d # c
    BY <1>2, <1>3, <2>2, OthersStand DEF WritesInv
  <2>. QED  BY <2>1, <2>2
<1>. QED  BY <1>1, <1>2, <1>3, OrderWriters DEF WritesInv

LEMMA WritesInvariant == Spec => []WritesInv
BY InitWritesInv, NextWritesInv, PTL DEF Spec

\* CanTransitionTo is enforced, for any clients, syncs and workers: a request
\* moves an order along OPEN, IN_PROGRESS, CLOSED, and one whose write another
\* has overtaken still writes what was legal from the status it has read.  No
\* other change exists; doc_closed_final shows what an overtaken one does.
THEOREM StepsLegal == Spec => LegalOrderSteps
<1> DEFINE Step == \A o \in Order : orders'[o] # orders[o] =>
                      \/ LegalStep(orders[o], orders'[o])
                      \/ \E c \in OrderClients :
                             /\ Overtakes(c, o)
                             /\ \/ orders'[o] = oreq[c].saw
                                \/ LegalStep(oreq[c].saw, orders'[o])
<1>1. WritesInv /\ [Next]_vars => [Step]_vars
  <2> SUFFICES ASSUME WritesInv, [Next]_vars PROVE Step
    OBVIOUS
  <2>1. ASSUME NEW c \in OrderClients, OrderNext(c) PROVE Step
    BY <2>1, StepWriteFollows DEF WritesInv
  <2>. QED  BY <2>1, OrderWriters
<1>. QED  BY <1>1, WritesInvariant, PTL DEF Spec, LegalOrderSteps
-----------------------------------------------------------------------------
(* What CLOSED says of the items. *)

AllLogged(o) == \A i \in ItemsOf(o) \ late : newestLog[i] # NoEntry

\* What a close relies on: the items it has read had been sent, and none is
\* added behind its back.
ClosesLogged == \A c \in OrderClients, o \in Order : Closing(c, o) => AllLogged(o)

CloseInv == (\A o \in Order : orders[o] = "CLOSED" => AllLogged(o)) /\ ClosesLogged

\* A terminal item has been sent, and its outcome logged.
LEMMA TerminalLogged ==
  ASSUME AnswersInv, NEW i \in Item, items[i].status \in TerminalItemStatus
  PROVE  newestLog[i] # NoEntry
<1>0. /\ OutboxInv /\ AuditComplete /\ NewestLogged /\ Evidence(i, items[i].status)
      /\ syncLogs \in [Entry -> Seq(SyncStatus)]
  BY DEF AnswersInv, ItemsInv, OutboxInv, TypeOK, TablesTypeOK
<1>1. PICK e \in EntriesOf(i) : Len(syncLogs[e]) > 0
  <2>1. CASE items[i].status = "SYNCED"
    <3>1. PICK e \in EntriesOf(i) : outbox[e].status = "COMPLETED"
      BY <1>0, <2>1 DEF Evidence
    <3>. QED  BY <1>0, <3>1 DEF AuditComplete, EntriesOf
  <2>2. CASE items[i].status = "FAILED"
    <3>1. PICK e \in EntriesOf(i) : \E n \in 1 .. Len(syncLogs[e]) : TRUE
      BY <1>0, <2>2 DEF Evidence
    <3>2. Len(syncLogs[e]) \in Nat
      BY <1>0 DEF EntriesOf
    <3>. QED  BY <3>1, <3>2
  <2>. QED  BY <2>1, <2>2 DEF TerminalItemStatus
<1>. QED  BY <1>0, <1>1 DEF NewestLogged, Logs, EntriesOf

\* Only AddItem makes an item.
LEMMA ItemsInserted ==
  ASSUME ItemsInv, [Next]_vars, NEW i \in Item, ~ItemExists(i), ItemExists(i)'
  PROVE  \E c \in OrderClients : AddItemInsert(c) /\ oreq[c].item = i
<1>0. TypeOK /\ items[i].status = "ABSENT" /\ items'[i].status # "ABSENT"
  BY DEF ItemsInv, OutboxInv, ItemExists
<1>1. ASSUME NEW c \in OrderClients, OrderNext(c) PROVE AddItemInsert(c) /\ oreq[c].item = i
  <2>0. OrderHolds(oreq[c]) /\ OrderReliesOn(c)
    BY <1>0 DEF TypeOK, OrderTypeOK, ItemsInv
  <2>1. CASE AddItemInsert(c)
    BY <1>0, <2>0, <2>1 DEF AddItemInsert, OrderHolds, TypeOK, TablesTypeOK
  <2>2. CASE UpdateItemWrite(c)
    BY <1>0, <2>0, <2>2 DEF UpdateItemWrite, OrderHolds, OrderReliesOn, ItemExists, TypeOK, TablesTypeOK
  <2>. QED
    BY <1>0, <1>1, <2>1, <2>2
    DEF OrderNext, CreateOrder, UpdateOrder, UpdateOrderListItems, UpdateOrderWrite, AddItem,
        AddItemPromote, UpdateItem, UpdateItemRead, UpdateItemCurrent, OrderAbort, tables
<1>2. ASSUME NEW j \in Item, NEW status, items' = WithItemStatus(j, status), ItemExists(j)
      PROVE  FALSE
  BY <1>0, <1>2, ItemStatusEffect DEF ItemExists
<1>3. ASSUME NEW c \in SyncClients, SyncNext(c) PROVE FALSE
  <2>0. SyncHolds(sreq[c]) /\ SyncReliesOn(c) /\ EntriesEdited
    BY <1>0 DEF TypeOK, SyncTypeOK, ItemsInv
  <2>1. CASE EnqueueCommit(c)
    BY <1>0, <1>2, <2>0, <2>1 DEF EnqueueCommit, SyncHolds, SyncReliesOn, Edited, ItemExists
  <2>2. CASE CancelCommit(c)
    BY <1>2, <2>0, <2>2
    DEF CancelCommit, SyncHolds, SyncReliesOn, EntriesEdited, Edited, ItemExists
  <2>. QED
    BY <1>0, <1>3, <2>1, <2>2
    DEF SyncNext, EnqueueSync, EnqueueItem, EnqueueActive, CancelSync, CancelRefused,
        CancelReread, GetSyncStatus, GetLatestSyncStatus, ReadEntry, StatusLogs,
        StatusAnswer, SyncAbort, EntriesOf, tables
<1>4. ASSUME NEW w \in Workers, WorkerNext(w) PROVE FALSE
  <2>1. ASSUME NEW logged, NEW status, NEW newOutbox, answer[w] # "none",
               Record(w, logged, status, newOutbox)
        PROVE  FALSE
    <3>1. current[w] \in Entry /\ claimed[w][current[w]] # 0
      BY <1>0, <2>1, MaxEntriesAssumption DEF TypeOK, WorkerTypeOK, NoEntry, Entry
    <3>2. outbox[current[w]].item \in Item
      BY <1>0, <3>1 DEF TypeOK, TablesTypeOK, WorkerTypeOK, Created
    <3>3. ItemExists(outbox[current[w]].item)
      BY <3>1, <3>2 DEF ItemsInv, EntriesEdited, Edited, ItemExists
    <3>. QED  BY <1>2, <2>1, <3>2, <3>3 DEF Record
  <2>2. CASE RecordAccepted(w) \/ RecordRejected(w) \/ RecordError(w)
    BY <2>1, <2>2 DEF RecordAccepted, RecordRejected, RecordError
  <2>. QED
    BY <1>0, <1>4, <2>2
    DEF WorkerNext, Claim, ClaimPending, ClaimLost, Call, CallSAP, RecordFails, Crash, tables
<1>. QED  BY <1>0, <1>1, <1>3, <1>4 DEF Next, vars, tables

\* A sent order stays one while it is closed or about to be: an item that
\* appears then is late.
LEMMA LoggedStays ==
  ASSUME AnswersInv, [Next]_vars, OverlapMoves, NEW o \in Order, AllLogged(o),
         orders[o] = "CLOSED" \/ \E c \in OrderClients : Closing(c, o)
  PROVE  AllLogged(o)'
<1>0. TypeOK /\ LogStep
  BY LogSteps DEF AnswersInv, ItemsInv, OutboxInv
<1> SUFFICES ASSUME NEW i \in Item, OrderOf[i] = o, ItemExists(i)', i \notin late'
             PROVE  newestLog'[i] # NoEntry
  BY DEF AllLogged, ItemsOf
<1>1. CASE ItemExists(i)
  <2>1. i \notin late
    BY DEF OverlapMoves, OverlapStep, overlaps
  <2>. QED  BY <1>0, <1>1, <2>1, NewestStays DEF AllLogged, ItemsOf
<1>2. CASE ~ItemExists(i)
  <2>1. OverlapStep
    BY <1>2 DEF OverlapMoves, vars, tables, ItemExists
  <2>. QED  BY <1>2, <2>1 DEF OverlapStep
<1>. QED  BY <1>1, <1>2

\* A handler comes to close an order only when its items have been sent.
LEMMA BeginsClosing ==
  ASSUME AnswersInv, CloseInv, [Next]_vars, NEW c \in OrderClients, NEW o \in Order,
         Closing(c, o)', ~Closing(c, o)
  PROVE  AllLogged(o) /\ UNCHANGED items /\ UNCHANGED newestLog
<1>0. /\ TypeOK /\ OrderHolds(oreq[c]) /\ oreq \in [OrderClients -> OrderRequest]
  BY DEF AnswersInv, ItemsInv, OutboxInv, TypeOK, OrderTypeOK
<1>1. OrderNext(c) /\ oreq'[c] # oreq[c]
  <2>1. oreq'[c] # oreq[c]
    BY DEF Closing
  <2>. QED  BY <1>0, <2>1, OrderWriters, OthersStand
<1>2. ASSUME oreq'[c].pc \notin {"items", "write"} PROVE FALSE
  BY <1>2 DEF Closing
<1>3. ~EndOrder(c)
  BY <1>0, <1>2 DEF EndOrder, OrderIdle
<1>4. CASE UpdateOrderListItems(c)
  <2>1. /\ oreq[c].pc = "items" /\ oreq'[c].order = oreq[c].order
        /\ oreq'[c].status = oreq[c].status
        /\ CanTransitionTo(oreq[c].saw, oreq[c].status, SeenStatuses(oreq[c].order))
        /\ UNCHANGED tables
    BY <1>0, <1>3, <1>4 DEF UpdateOrderListItems, OrderRequest
  <2>2. oreq[c].order = o /\ oreq[c].status = "CLOSED" /\ oreq[c].saw # "CLOSED"
    BY <2>1 DEF Closing
  <2>3. AllItemsTerminal(SeenStatuses(o))
    BY <2>1, <2>2 DEF CanTransitionTo
  <2>4. ASSUME NEW i \in ItemsOf(o) PROVE newestLog[i] # NoEntry
    <3>1. i \in Item /\ items[i].status \in TerminalItemStatus
      BY <2>3 DEF AllItemsTerminal, SeenStatuses, ItemsOf
    <3>. QED  BY <3>1, TerminalLogged
  <2>. QED  BY <2>1, <2>4 DEF AllLogged, tables
<1>5. ASSUME NEW n \in Order, NEW s, UpdateOrder(c, n, s)
      PROVE  AllLogged(o) /\ UNCHANGED items /\ UNCHANGED newestLog
  <2>1. /\ oreq'[c].pc = "items" /\ oreq'[c].order = n /\ oreq'[c].saw = orders[n]
        /\ UNCHANGED tables
    BY <1>0, <1>5 DEF UpdateOrder, OrderIdle
  <2>2. n = o /\ orders[o] = "CLOSED"
    BY <2>1 DEF Closing
  <2>. QED  BY <2>1, <2>2 DEF CloseInv, tables
<1>6. ASSUME NEW i \in Item, NEW t, AddItem(c, i, t) \/ UpdateItem(c, i, t) PROVE FALSE
  BY <1>0, <1>2, <1>6 DEF AddItem, UpdateItem, OrderIdle
<1>7. ~(AddItemInsert(c) \/ UpdateItemRead(c) \/ UpdateItemCurrent(c))
  BY <1>0, <1>2, <1>3 DEF AddItemInsert, UpdateItemRead, UpdateItemCurrent, OrderRequest
<1>. QED
  BY <1>1, <1>3, <1>4, <1>5, <1>6, <1>7
  DEF OrderNext, CreateOrder, UpdateOrderWrite, AddItemPromote, UpdateItemWrite, OrderAbort

\* An order becomes CLOSED through a request that was closing it.
LEMMA EndsClosing ==
  ASSUME TypeOK, [Next]_vars, NEW o \in Order, orders'[o] = "CLOSED", orders[o] # "CLOSED"
  PROVE  \E c \in OrderClients : Closing(c, o)
<1>1. PICK c \in OrderClients : OrderNext(c)
  BY OrderWriters
<1>2. orders \in [Order -> OrderStatus \cup {"ABSENT"}] /\ OrderHolds(oreq[c])
  BY DEF TypeOK, TablesTypeOK, OrderTypeOK
<1>3. ASSUME NEW n \in Order, CreateOrder(c, n) PROVE FALSE
  BY <1>2, <1>3 DEF CreateOrder
<1>4. ~AddItemPromote(c)
  BY <1>2 DEF AddItemPromote
<1>5. CASE UpdateOrderWrite(c)
  BY <1>2, <1>5 DEF UpdateOrderWrite, Closing
<1>. QED
  BY <1>1, <1>3, <1>4, <1>5
  DEF OrderNext, UpdateOrder, UpdateOrderListItems, AddItem, AddItemInsert, UpdateItem,
      UpdateItemRead, UpdateItemCurrent, UpdateItemWrite, OrderAbort, tables

LEMMA StepCloseInv ==
  ASSUME AnswersInv, CloseInv, [Next]_vars, OverlapMoves
  PROVE  CloseInv'
<1>0. TypeOK
  BY DEF AnswersInv, ItemsInv, OutboxInv
<1>1. ASSUME NEW c \in OrderClients, NEW o \in Order, Closing(c, o)' PROVE AllLogged(o)'
  <2>1. CASE Closing(c, o)
    BY <2>1, LoggedStays DEF CloseInv, ClosesLogged
  <2>2. CASE ~Closing(c, o)
    <3>1. AllLogged(o) /\ UNCHANGED items /\ UNCHANGED newestLog
      BY <1>1, <2>2, BeginsClosing
    <3>2. late \subseteq late'
      BY DEF OverlapMoves, OverlapStep, overlaps
    <3>. QED  BY <3>1, <3>2 DEF AllLogged, ItemsOf, ItemExists
  <2>. QED  BY <2>1, <2>2
<1>2. ASSUME NEW o \in Order, orders'[o] = "CLOSED" PROVE AllLogged(o)'
  <2>1. CASE orders[o] = "CLOSED"
    BY <2>1, LoggedStays DEF CloseInv
  <2>2. CASE orders[o] # "CLOSED"
    <3>1. PICK c \in OrderClients : Closing(c, o)
      BY <1>0, <1>2, <2>2, EndsClosing
    <3>. QED  BY <3>1, LoggedStays DEF CloseInv, ClosesLogged
  <2>. QED  BY <2>1, <2>2
<1>. QED  BY <1>1, <1>2 DEF CloseInv, ClosesLogged

LEMMA OverlapAnswersInv == OverlapSpec => [](AnswersInv /\ WritesInv)
BY OverlapImpliesSpec, AnswersInvariant, WritesInvariant, PTL

\* An order closes only over items that were sent, whatever other requests,
\* syncs and workers do between the read of its items and its write, and also
\* when overlapping requests reopen it and close it again; the one item that
\* escapes is inserted behind a close, which AddItem does not see coming.
THEOREM ClosedSettled == OverlapSpec => []ClosedOrderSettled
<1>1. OverlapInit => CloseInv
  BY SeedOrderAssumption
  DEF CloseInv, ClosesLogged, Closing, OverlapInit, Init, TablesInit, OrderInit, OrderIdle
<1>2. AnswersInv /\ CloseInv /\ [OverlapNext]_<<vars, overlaps>> => CloseInv'
  BY StepCloseInv, OverlapSteps
<1>3. CloseInv => ClosedOrderSettled
  BY DEF CloseInv, AllLogged, ClosedOrderSettled
<1>. QED  BY <1>1, <1>2, <1>3, OverlapAnswersInv, PTL DEF OverlapSpec
-----------------------------------------------------------------------------
(* What OPEN says of the items. *)

\* What AddItem relies on between its statements: the order is there, and was
\* not reopened since it was read IN_PROGRESS, or else it is torn.
AddFollows(c) ==
    /\ oreq[c].pc \in {"insert", "promote"} => orders[oreq[c].order] # "ABSENT"
    /\ oreq[c].pc = "insert" /\ oreq[c].saw = "IN_PROGRESS" /\ orders[oreq[c].order] = "OPEN" =>
           oreq[c].order \in torn

OpenInv ==
    /\ OpenOrderIsEmpty
    /\ \A i \in Item : ItemExists(i) => orders[OrderOf[i]] # "ABSENT"
    /\ \A c \in OrderClients : AddFollows(c)

\* Orders are never deleted.
LEMMA OrdersStay ==
  ASSUME TypeOK, [Next]_vars, NEW o \in Order, orders[o] # "ABSENT"
  PROVE  orders'[o] # "ABSENT"
<1>1. ASSUME NEW c \in OrderClients, OrderNext(c) PROVE orders'[o] # "ABSENT"
  <2>0. orders \in [Order -> OrderStatus \cup {"ABSENT"}] /\ OrderHolds(oreq[c])
    BY DEF TypeOK, TablesTypeOK, OrderTypeOK
  <2>1. ASSUME NEW n \in Order, CreateOrder(c, n) PROVE orders'[o] # "ABSENT"
    BY <2>0, <2>1 DEF CreateOrder
  <2>2. CASE UpdateOrderWrite(c) \/ AddItemPromote(c)
    BY <2>0, <2>2 DEF UpdateOrderWrite, AddItemPromote, OrderHolds, OrderStatus
  <2>. QED
    BY <1>1, <2>1, <2>2
    DEF OrderNext, UpdateOrder, UpdateOrderListItems, AddItem, AddItemInsert, UpdateItem,
        UpdateItemRead, UpdateItemCurrent, UpdateItemWrite, OrderAbort, tables
<1>. QED  BY <1>1, OrderWriters

\* An order that comes to be OPEN again is torn.
LEMMA ReopenedIsTorn ==
  ASSUME TypeOK, [Next]_vars, OverlapMoves, NEW o \in Order,
         orders[o] # "ABSENT", orders'[o] = "OPEN", orders[o] = "OPEN" => o \in torn
  PROVE  o \in torn'
<1>1. orders[o] \in OrderStatus
  BY DEF TypeOK, TablesTypeOK
<1>. QED
  BY <1>1 DEF OverlapMoves, OverlapStep, overlaps, OrderStatus, vars, tables

LEMMA StepAddFollows ==
  ASSUME WritesInv, OpenInv, [Next]_vars, OverlapMoves, NEW c \in OrderClients
  PROVE  AddFollows(c)'
<1>0. /\ TypeOK /\ OrderHolds(oreq[c]) /\ oreq \in [OrderClients -> OrderRequest]
      /\ AddFollows(c)
  BY DEF WritesInv, TypeOK, OrderTypeOK, OpenInv
<1>1. ASSUME NEW o \in Order, orders[o] # "ABSENT"
      PROVE  /\ orders'[o] # "ABSENT"
             /\ (orders[o] = "OPEN" => o \in torn) => (orders'[o] = "OPEN" => o \in torn')
  BY <1>0, <1>1, OrdersStay, ReopenedIsTorn
<1>2. CASE oreq'[c] = oreq[c]
  <2>1. CASE oreq[c].pc \in {"insert", "promote"}
    <3>1. oreq[c].order \in Order /\ orders[oreq[c].order] # "ABSENT"
      BY <1>0, <2>1 DEF OrderHolds, AddFollows
    <3>. QED  BY <1>0, <1>1, <1>2, <3>1 DEF AddFollows
  <2>2. CASE oreq[c].pc \notin {"insert", "promote"}
    BY <1>2, <2>2 DEF AddFollows
  <2>. QED  BY <2>1, <2>2
<1>3. ASSUME OrderNext(c), oreq'[c].pc \in {"insert", "promote"} PROVE AddFollows(c)'
  <2>1. ~EndOrder(c)
    BY <1>0, <1>3 DEF EndOrder, OrderIdle
  <2>2. ASSUME NEW i \in Item, NEW t, AddItem(c, i, t) PROVE AddFollows(c)'
    <3>1. /\ oreq'[c].order = OrderOf[i] /\ oreq'[c].saw = orders[OrderOf[i]]
          /\ orders[OrderOf[i]] # "ABSENT" /\ orders' = orders /\ OrderOf[i] \in Order
      BY <1>0, <2>2, OrderOfAssumption DEF AddItem, OrderIdle, tables
    <3>. QED  BY <3>1 DEF AddFollows
  <2>3. CASE AddItemInsert(c)
    <3>1. /\ oreq'[c].pc = "promote" /\ oreq'[c].order = oreq[c].order /\ orders' = orders
          /\ oreq[c].pc = "insert"
      BY <1>0, <2>1, <2>3 DEF AddItemInsert, OrderRequest
    <3>. QED  BY <1>0, <3>1 DEF AddFollows
  <2>4. ASSUME NEW o \in Order, CreateOrder(c, o) PROVE AddFollows(c)'
    BY <1>2, <2>4 DEF CreateOrder
  <2>5. ASSUME NEW o \in Order, NEW s, UpdateOrder(c, o, s) PROVE FALSE
    BY <1>0, <1>3, <2>5 DEF UpdateOrder, OrderIdle
  <2>6. ASSUME NEW i \in Item, NEW t, UpdateItem(c, i, t) PROVE FALSE
    BY <1>0, <1>3, <2>6 DEF UpdateItem, OrderIdle
  <2>7. ~(UpdateOrderListItems(c) \/ UpdateItemRead(c) \/ UpdateItemCurrent(c))
    BY <1>0, <1>3, <2>1
    DEF UpdateOrderListItems, UpdateItemRead, UpdateItemCurrent, OrderRequest
  <2>. QED
    BY <1>3, <2>1, <2>2, <2>3, <2>4, <2>5, <2>6, <2>7
    DEF OrderNext, UpdateOrderWrite, AddItemPromote, UpdateItemWrite, OrderAbort
<1>4. ASSUME oreq'[c].pc \notin {"insert", "promote"} PROVE AddFollows(c)'
  BY <1>4 DEF AddFollows
<1>. QED  BY <1>0, <1>2, <1>3, <1>4, OrderWriters, OthersStand

\* An item in an OPEN order comes with its promotion, which comes or is given
\* up.
LEMMA StepOpenOrderIsEmpty ==
  ASSUME AnswersInv, WritesInv, OpenInv, [Next]_vars, OverlapMoves, NEW o \in Order \ torn',
         orders'[o] = "OPEN", Started(o)'
  PROVE  \E c \in OrderClients : Promoting(c, o)'
<1>0. TypeOK /\ ItemsInv /\ orders[o] \in OrderStatus \cup {"ABSENT"}
  BY DEF WritesInv, AnswersInv, TypeOK, TablesTypeOK
<1>1. PICK i \in Item : OrderOf[i] = o /\ ItemExists(i)'
  BY DEF Started, ItemsOf
<1>2. CASE Started(o)
  <2>1. orders[o] # "ABSENT"
    <3>1. PICK j \in Item : OrderOf[j] = o /\ ItemExists(j)
      BY <1>2 DEF Started, ItemsOf
    <3>. QED  BY <3>1 DEF OpenInv
  <2>2. orders[o] = "OPEN" /\ o \notin torn
    BY <1>0, <2>1, ReopenedIsTorn
  <2>3. PICK c \in OrderClients : Promoting(c, o)
    BY <1>2, <2>2 DEF OpenInv, OpenOrderIsEmpty, Started
  <2>4. CASE OverlapStep
    BY <2>3, <2>4 DEF OverlapStep
  <2>5. CASE UNCHANGED vars
    BY <2>3, <2>5 DEF Promoting, vars
  <2>. QED  BY <2>4, <2>5 DEF OverlapMoves
<1>3. CASE ~Started(o)
  <2>1. ~ItemExists(i)
    BY <1>1, <1>3, ItemStarts
  <2>2. PICK c \in OrderClients : AddItemInsert(c) /\ oreq[c].item = i
    BY <1>0, <1>1, <2>1, ItemsInserted
  <2>3. /\ oreq[c].pc = "insert" /\ oreq[c].order = o /\ orders' = orders
        /\ oreq[c].saw \in {"OPEN", "IN_PROGRESS"} /\ oreq \in [OrderClients -> OrderRequest]
    BY <1>0, <1>1, <2>2
    DEF AddItemInsert, WritesInv, WriteFollows, TypeOK, OrderTypeOK
  <2>4. o \notin torn
    BY <1>0, <2>3, ReopenedIsTorn
  <2>5. oreq[c].saw = "OPEN"
    BY <2>3, <2>4 DEF OpenInv, AddFollows
  <2>6. oreq'[c].pc = "promote" /\ oreq'[c].order = o
    BY <2>1, <2>2, <2>3, <2>5 DEF AddItemInsert, OrderRequest
  <2>. QED  BY <2>6 DEF Promoting
<1>. QED  BY <1>2, <1>3

\* The order of an item that comes into being is there.
LEMMA StepItemsHaveOrders ==
  ASSUME AnswersInv, WritesInv, OpenInv, [Next]_vars, NEW i \in Item, ItemExists(i)'
  PROVE  orders'[OrderOf[i]] # "ABSENT"
<1>0. TypeOK /\ ItemsInv /\ OrderOf[i] \in Order
  BY OrderOfAssumption DEF WritesInv, AnswersInv
<1>1. CASE ItemExists(i)
  BY <1>0, <1>1, OrdersStay DEF OpenInv
<1>2. CASE ~ItemExists(i)
  <2>1. PICK c \in OrderClients : AddItemInsert(c) /\ oreq[c].item = i
    BY <1>0, <1>2, ItemsInserted
  <2>2. oreq[c].pc = "insert" /\ oreq[c].order = OrderOf[i]
    BY <2>1 DEF AddItemInsert, WritesInv, WriteFollows
  <2>. QED  BY <1>0, <2>2, OrdersStay DEF OpenInv, AddFollows
<1>. QED  BY <1>1, <1>2

\* AddItem's two commits: an OPEN order with an item is one whose promotion is
\* under way, was given up, or was undone by a write another request overtook,
\* for any clients.
THEOREM OpenIsEmpty == OverlapSpec => []OpenOrderIsEmpty
<1>1. OverlapInit => OpenInv
  <2> SUFFICES ASSUME Init, OverlapInit PROVE OpenInv
    BY DEF OverlapInit
  <2>1. \A i \in Item : ItemExists(i) => orders[OrderOf[i]] # "ABSENT"
    BY SeedRowsAssumption DEF Init, TablesInit, ItemExists
  <2>2. \A c \in OrderClients : AddFollows(c)
    BY DEF AddFollows, Init, OrderInit, OrderIdle
  <2>. QED  BY <2>1, <2>2 DEF OpenInv, OpenOrderIsEmpty, OverlapInit
<1>2. AnswersInv /\ WritesInv /\ OpenInv /\ [OverlapNext]_<<vars, overlaps>> => OpenInv'
  <2> SUFFICES ASSUME AnswersInv, WritesInv, OpenInv, [OverlapNext]_<<vars, overlaps>>
               PROVE  OpenInv'
    OBVIOUS
  <2>1. [Next]_vars /\ OverlapMoves
    BY OverlapSteps
  <2>2. OpenOrderIsEmpty'
    BY <2>1, StepOpenOrderIsEmpty DEF OpenOrderIsEmpty, Started
  <2>. QED  BY <2>1, <2>2, StepAddFollows, StepItemsHaveOrders DEF OpenInv
<1>3. OpenInv => OpenOrderIsEmpty
  BY DEF OpenInv
<1>. QED  BY <1>1, <1>2, <1>3, OverlapAnswersInv, PTL DEF OverlapSpec
=============================================================================
