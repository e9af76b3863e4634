----------------------------- MODULE Honesty_proofs -----------------------------
(***************************************************************************)
(* What an item says and what SYNCED is worth, for any numbers of clients, *)
(* workers, items and entries and with every fault: edits that do not meet *)
(* add up, and SYNCED stands for the text SAP took last, but for what the  *)
(* history of SyncHonesty names.                                           *)
(*                                                                         *)
(* The text of an item is written by edits alone.  So whoever holds a copy *)
(* of it (the row an edit is to write back, the XML of an enqueue, the     *)
(* payload of an entry) holds the current one until an edit writes, and    *)
(* the history takes note of that.                                         *)
(***************************************************************************)
EXTENDS SyncHonesty, Transactions_proofs

\* Every step of the history's specification is one of Transactions'.
LEMMA HonestyImpliesTx == HonestySpec => TxSpec
<1>1. HonestyInit => TxInit
  BY DEF HonestyInit
<1>2. [HonestyNext]_<<txVars, overlaps, history>> => [TxNext]_txVars
  BY DEF HonestyNext
<1>. QED  BY <1>1, <1>2, PTL DEF HonestySpec, TxSpec

LEMMA HonestyTxInv == HonestySpec => []TxInv
BY HonestyImpliesTx, TxInvariant, PTL

\* The history moves with the rows, or nothing does.
HonestyMoves == HonestyStep \/ UNCHANGED <<txVars, history>>

LEMMA HonestySteps ==
  ASSUME TxInv, [HonestyNext]_<<txVars, overlaps, history>>
  PROVE  [Next]_vars /\ RacedStep /\ HonestyMoves
<1>1. [TxNext]_txVars
  BY DEF HonestyNext
<1>. QED
  BY <1>1, TxStepSimulates
  DEF HonestyNext, HonestyMoves, OverlapStep, RacedStep, overlaps, txVars
-----------------------------------------------------------------------------
(* Who writes the text of an item. *)

\* The edit c writes item i.
Writes(c, i) ==
    /\ oreq[c].pc = "save" /\ oreq[c].item = i /\ oreq'[c] = OrderIdle
    /\ items'[i] = [status |-> oreq[c].status, text |-> Merged(oreq[c].text, oreq[c].row)]
    /\ \A d \in OrderClients : d # c => oreq'[d] = oreq[d]

\* Nobody but an edit changes the text of an item, nor another client's edit.
LEMMA TextSteps ==
  ASSUME TypeOK, [Next]_vars, NEW i \in Item, ItemExists(i)
  PROVE  \/ items'[i].text = items[i].text /\ (items'[i] # items[i] => oreq' = oreq)
         \/ \E c \in OrderClients : Writes(c, i)
<1> DEFINE Goal == \/ items'[i].text = items[i].text /\ (items'[i] # items[i] => oreq' = oreq)
                   \/ \E c \in OrderClients : Writes(c, i)
<1> USE DEF TypeOK, TablesTypeOK
<1>0. ASSUME items' = items PROVE Goal
  BY <1>0
<1>1. ASSUME NEW c \in OrderClients, OrderNext(c) PROVE Goal
  <2>1. CASE AddItemInsert(c)
    <3>1. CASE items' = items
      BY <3>1
    <3>2. CASE /\ ~ItemExists(oreq[c].item)
               /\ items' = [items EXCEPT ![oreq[c].item] = NewItemRow(oreq[c].text)]
      BY <3>2
    <3>. QED  BY <2>1, <3>1, <3>2 DEF AddItemInsert
  <2>2. CASE UpdateItemWrite(c)
    <3> DEFINE row == [status |-> oreq[c].status, text |-> Merged(oreq[c].text, oreq[c].row)]
    <3>1. items' = [items EXCEPT ![oreq[c].item] = row] /\ oreq[c].pc = "save" /\ EndOrder(c)
      BY <2>2 DEF UpdateItemWrite
    <3>2. oreq \in [OrderClients -> OrderRequest]
      BY DEF OrderTypeOK
    <3>3. CASE i = oreq[c].item
      <4>1. items'[i] = row
        BY <3>1, <3>3
      <4>2. /\ oreq'[c] = OrderIdle
            /\ \A d \in OrderClients : d # c => oreq'[d] = oreq[d]
        BY <3>1, <3>2 DEF EndOrder
      <4>. QED  BY <3>1, <3>3, <4>1, <4>2 DEF Writes
    <3>4. CASE i # oreq[c].item
      BY <3>1, <3>4
    <3>. QED  BY <3>3, <3>4
  <2>. QED
    BY <1>0, <1>1, <2>1, <2>2
    DEF OrderNext, CreateOrder, UpdateOrder, UpdateOrderListItems, UpdateOrderWrite, AddItem,
        AddItemPromote, UpdateItem, UpdateItemRead, UpdateItemCurrent, OrderAbort, tables
<1>2. ASSUME NEW j, NEW status, items' = WithItemStatus(j, status)
      PROVE  items'[i].text = items[i].text
  BY <1>2 DEF WithItemStatus, ItemRow
<1>3. ASSUME NEW c \in SyncClients, SyncNext(c) PROVE items'[i].text = items[i].text
  BY <1>2, <1>3
  DEF SyncNext, EnqueueSync, EnqueueItem, EnqueueActive, EnqueueCommit, CancelSync,
      CancelCommit, CancelRefused, CancelReread, GetSyncStatus, GetLatestSyncStatus,
      ReadEntry, StatusLogs, StatusAnswer, SyncAbort, EntriesOf, tables
<1>4. ASSUME NEW w \in Workers, WorkerNext(w) PROVE items'[i].text = items[i].text
  BY <1>2, <1>4
  DEF WorkerNext, Claim, ClaimPending, ClaimLost, Call, CallSAP, RecordAccepted,
      RecordRejected, RecordError, Record, RecordFails, Crash, tables
<1>5. CASE UNCHANGED vars
  BY <1>0, <1>5 DEF vars, tables
<1>. QED  BY <1>1, <1>3, <1>4, <1>5 DEF Next

\* An edit that has read the row and one that starts to write read it now.
LEMMA EditReads ==
  ASSUME TypeOK, [Next]_vars, NEW c \in OrderClients,
         oreq'[c] # oreq[c], oreq'[c].pc \in {"current", "save"}
  PROVE  /\ items' = items /\ oreq'[c].item = oreq[c].item
         /\ \/ /\ oreq[c].pc = "read" /\ oreq'[c].pc = "current"
               /\ oreq'[c].promote = ShouldPromoteOnEdit(items[oreq[c].item].status)
            \/ /\ oreq[c].pc = "current" /\ oreq'[c].pc = "save"
               /\ oreq'[c].row = items[oreq[c].item].text
               /\ oreq'[c].status = IF oreq[c].promote THEN "UPDATED"
                                    ELSE items[oreq[c].item].status
<1>1. oreq \in [OrderClients -> OrderRequest]
  BY DEF TypeOK, OrderTypeOK
<1>2. OrderNext(c)
  <2>1. ASSUME NEW d \in OrderClients, d # c, OrderNext(d) PROVE oreq'[c] = oreq[c]
    BY <1>1, <2>1
    DEF OrderNext, CreateOrder, UpdateOrder, UpdateOrderListItems, UpdateOrderWrite, AddItem,
        AddItemInsert, AddItemPromote, UpdateItem, UpdateItemRead, UpdateItemCurrent,
        UpdateItemWrite, OrderAbort, EndOrder
  <2>. QED  BY <2>1 DEF Next, vars
<1>3. ~EndOrder(c)
  BY <1>1 DEF EndOrder, OrderIdle
<1>4. CASE UpdateItemRead(c)
  BY <1>1, <1>3, <1>4 DEF UpdateItemRead, OrderRequest, tables
<1>5. CASE UpdateItemCurrent(c)
  BY <1>1, <1>5 DEF UpdateItemCurrent, OrderRequest, tables
<1>6. ASSUME NEW o \in Order, NEW s, UpdateOrder(c, o, s) PROVE FALSE
  BY <1>1, <1>6 DEF UpdateOrder, OrderIdle
<1>7. ASSUME NEW i \in Item, NEW t, AddItem(c, i, t) \/ UpdateItem(c, i, t) PROVE FALSE
  BY <1>1, <1>7 DEF AddItem, UpdateItem, OrderIdle
<1>8. ASSUME UpdateOrderListItems(c) \/ AddItemInsert(c) PROVE FALSE
  BY <1>1, <1>3, <1>8 DEF UpdateOrderListItems, AddItemInsert, OrderRequest
<1>9. ASSUME NEW o \in Order, CreateOrder(c, o) PROVE FALSE
  BY <1>9 DEF CreateOrder
<1>. QED
  BY <1>2, <1>3, <1>4, <1>5, <1>6, <1>7, <1>8, <1>9
  DEF OrderNext, UpdateOrderWrite, AddItemPromote, UpdateItemWrite, OrderAbort
-----------------------------------------------------------------------------
(* What the edits of an item add up to. *)

\* The row an edit is to write back is the current one, for items of which no
\* two edits write at once.
RowsCurrent ==
    \A c \in OrderClients :
        oreq[c].pc = "save" /\ oreq[c].item \in apart =>
            oreq[c].row = items[oreq[c].item].text

EditsInv == apart \subseteq Item /\ RowsCurrent /\ EditsAddUp

LEMMA InitEditsInv == HonestyInit => EditsInv
BY DEF HonestyInit, TxInit, Init, OrderInit, OrderIdle, EditsInv, RowsCurrent, EditsAddUp

LEMMA StepRowsCurrent ==
  ASSUME ItemsInv, [Next]_vars, EditsInv, apart' \subseteq {i \in apart : ~Overlapping(i)},
         NEW c \in OrderClients, oreq'[c].pc = "save", oreq'[c].item \in apart'
  PROVE  oreq'[c].row = items'[oreq'[c].item].text
<1>0. TypeOK
  BY DEF ItemsInv, OutboxInv
<1>1. CASE oreq'[c] = oreq[c]
  <2> DEFINE i == oreq[c].item
  <2>1. i \in Item /\ i \in apart /\ ~Overlapping(i) /\ oreq[c].pc = "save"
    BY <1>1 DEF EditsInv
  <2>2. oreq[c].row = items[i].text
    BY <2>1 DEF EditsInv, RowsCurrent
  <2>3. ItemExists(i)
    BY <2>1 DEF ItemsInv, OrderReliesOn
  <2>4. ASSUME NEW d \in OrderClients, Writes(d, i) PROVE FALSE
    <3>1. d # c
      BY <1>1, <2>1, <2>4 DEF Writes, OrderIdle
    <3>. QED  BY <2>1, <2>4, <3>1 DEF Writes, Overlapping
  <2>5. items'[i].text = items[i].text
    BY <1>0, <2>1, <2>3, <2>4, TextSteps
  <2>. QED  BY <1>1, <2>2, <2>5
<1>2. CASE oreq'[c] # oreq[c]
  BY <1>0, <1>2, EditReads
<1>. QED  BY <1>1, <1>2

LEMMA StepEditsInv ==
  ASSUME ItemsInv, [Next]_vars, HonestyStep, EditsInv
  PROVE  EditsInv'
<1>0. TypeOK
  BY DEF ItemsInv, OutboxInv
<1>1. apart' = {i \in apart : ~Overlapping(i)} /\ apart' \subseteq Item
  BY DEF HonestyStep, EditsInv
<1>2. RowsCurrent'
  BY <1>1, StepRowsCurrent DEF RowsCurrent
<1>3. ASSUME NEW i \in apart' PROVE items'[i].text = intended'[i]
  <2>0. i \in Item /\ i \in apart /\ ~Overlapping(i) /\ items[i].text = intended[i]
    BY <1>1, <1>3 DEF EditsInv, EditsAddUp
  <2>1. CASE ~ItemExists(i)
    BY <2>0, <2>1 DEF HonestyStep
  <2>2. CASE ItemExists(i)
    <3>1. intended'[i] = IF Writers(i) = {} THEN intended[i]
                         ELSE Merged(oreq[CHOOSE c \in Writers(i) : TRUE].text, intended[i])
      BY <1>3, <2>0, <2>2 DEF HonestyStep
    <3>2. CASE items'[i].text = items[i].text /\ (items'[i] # items[i] => oreq' = oreq)
      <4>1. Writers(i) = {}
        BY <3>2 DEF Writers
      <4>. QED  BY <2>0, <3>1, <3>2, <4>1
    <3>3. ASSUME NEW c \in OrderClients, Writes(c, i) PROVE items'[i].text = intended'[i]
      <4>1. Writers(i) \subseteq {c}
        BY <3>3 DEF Writers, Writes
      <4>2. items'[i].text = Merged(oreq[c].text, intended[i])
        BY <1>3, <2>0, <3>3 DEF Writes, EditsInv, RowsCurrent
      <4>3. CASE Writers(i) = {}
        <5>1. items'[i] = items[i]
          BY <3>3, <4>3 DEF Writers, Writes, OrderIdle
        <5>. QED  BY <2>0, <3>1, <4>3, <5>1
      <4>4. CASE Writers(i) = {c}
        BY <3>1, <4>2, <4>4
      <4>. QED  BY <4>1, <4>3, <4>4
    <3>. QED  BY <1>0, <2>0, <2>2, <3>2, <3>3, TextSteps
  <2>. QED  BY <2>1, <2>2
<1>. QED  BY <1>1, <1>2, <1>3 DEF EditsInv, EditsAddUp

\* itemRepository.Update writes both columns back, and yet no edit is lost: as
\* long as no two edits of an item are between their reads and their writes at
\* once, the item says what its edits add up to, whatever the syncs, cancels
\* and workers write of the same row meanwhile.
THEOREM EditsKept == HonestySpec => []EditsAddUp
<1>1. TxInv /\ EditsInv /\ [HonestyNext]_<<txVars, overlaps, history>> => EditsInv'
  <2> SUFFICES ASSUME TxInv, EditsInv, [HonestyNext]_<<txVars, overlaps, history>> PROVE EditsInv'
    OBVIOUS
  <2>1. ItemsInv /\ [Next]_vars /\ HonestyMoves
    BY HonestySteps DEF TxInv
  <2>2. CASE UNCHANGED <<txVars, history>>
    BY <2>2
    DEF txVars, vars, tables, history, EditsInv, RowsCurrent, EditsAddUp
  <2>. QED  BY <2>1, <2>2, StepEditsInv DEF HonestyMoves
<1>2. EditsInv => EditsAddUp
  BY DEF EditsInv
<1>. QED  BY <1>1, <1>2, InitEditsInv, HonestyTxInv, PTL DEF HonestySpec
-----------------------------------------------------------------------------
(* What SYNCED is worth. *)

\* SAP was called for entries of the item only.
SapHolds == \A i \in Item : sap[i] # NoEntry => Created(sap[i]) /\ outbox[sap[i]].item = i

\* A clean entry that is still to be sent, or being sent, says what its item
\* says, and so does the XML of an enqueue that is fresh.
PayloadsCurrent ==
    \A e \in clean : Active(e) => items[outbox[e].item].text = outbox[e].payload

BuildsCurrent ==
    \A c \in fresh : Building(c) => items[sreq[c].item].text = sreq[c].payload

\* What a worker knows SAP took is what SAP took last for the item.
AcceptedIsLast ==
    \A w \in Workers : answer[w] = "accepted" /\ outbox[current[w]].item \notin raced =>
        sap[outbox[current[w]].item] = current[w]

\* An edit that is going to write SYNCED back has looked before: had it found
\* the item SYNCED, it would promote it.
EditsEarly ==
    \A c \in OrderClients :
        /\ oreq[c].pc = "current" /\ ~oreq[c].promote => c \in early
        /\ oreq[c].pc = "save" /\ oreq[c].status = "SYNCED" => c \in early

SentInv ==
    /\ clean \subseteq Entry /\ fresh \subseteq SyncClients
    /\ SapHolds /\ PayloadsCurrent /\ BuildsCurrent /\ AcceptedIsLast /\ EditsEarly
    /\ SyncedIsSent

LEMMA InitSentInv == HonestyInit => SentInv
<1> SUFFICES ASSUME HonestyInit PROVE SentInv
  OBVIOUS
<1>1. /\ \A e \in Entry : ~Active(e)
      /\ \A c \in SyncClients : ~Building(c)
      /\ \A w \in Workers : answer[w] = "none"
      /\ \A c \in OrderClients : oreq[c].pc = "idle"
  BY DEF HonestyInit, TxInit, Init, TablesInit, SyncInit, OrderInit, WorkerInit, Active,
         ActiveStatus, NoRow, Building, SyncIdle, OrderIdle
<1>2. /\ \A i \in Item : sap[i] = NoEntry /\ items[i].status # "SYNCED"
      /\ clean = Entry /\ fresh = SyncClients
  BY SeedItemAssumption DEF HonestyInit, TxInit, Init, TablesInit, WorkerInit
<1>. QED
  BY <1>1, <1>2
  DEF SentInv, SapHolds, PayloadsCurrent, BuildsCurrent, AcceptedIsLast, EditsEarly, SyncedIsSent

\* Where nobody writes, the text stays.
LEMMA TextStays ==
  ASSUME TypeOK, [Next]_vars, NEW i \in Item, ItemExists(i), Writers(i) = {}
  PROVE  items'[i].text = items[i].text
<1>1. ASSUME NEW c \in OrderClients, Writes(c, i) PROVE items'[i] = items[i]
  BY <1>1 DEF Writes, Writers, OrderIdle
<1>. QED  BY <1>1, TextSteps

\* A step that is one of the sync requests' is none of the edits'.
LEMMA OneActor ==
  ASSUME [Next]_vars
  PROVE  sreq' = sreq \/ oreq' = oreq
BY DEF Next, vars

\* What the history says of entries and requests.
LEMMA HistorySteps ==
  ASSUME HonestyStep
  PROVE  /\ clean' \subseteq clean
         /\ \A e \in clean' : Active(e) => Writers(outbox[e].item) = {}
         /\ \A e \in clean' : ~KeptSynced(outbox[e].item)
         /\ \A e \in clean', c \in SyncClients : InsertedBy(c, e) => c \in fresh
         /\ fresh' \subseteq SyncClients
         /\ \A c \in fresh' : Building(c)' /\ Building(c) => c \in fresh /\ Writers(sreq[c].item) = {}
BY DEF HonestyStep

\* An entry of an item that exists: the facts the steps below all use.
LEMMA EntryFacts ==
  ASSUME ItemsInv, NEW e \in Entry, Created(e)
  PROVE  /\ outbox[e].item \in Item /\ ItemExists(outbox[e].item)
<1>1. outbox[e].item \in Item
  BY DEF ItemsInv, OutboxInv, TypeOK, TablesTypeOK, Created
<1>. QED  BY <1>1 DEF ItemsInv, EntriesEdited, Edited, ItemExists

\* An entry keeps its row's item and payload.
LEMMA EntryStays ==
  ASSUME OutboxInv, [Next]_vars, NEW e \in Entry, Created(e)
  PROVE  outbox'[e].item = outbox[e].item /\ outbox'[e].payload = outbox[e].payload /\ Created(e)'
<1>1. ASSUME NEW c \in SyncClients, NEW d \in Entry, FreeEntry(d),
             outbox' = WithNewEntry(d, sreq[c].item, sreq[c].payload)
      PROVE  outbox'[e] = outbox[e]
  BY <1>1 DEF FreeEntry, WithNewEntry, OutboxInv, TypeOK, TablesTypeOK
<1>2. CASE NoneNew
  BY <1>2 DEF NoneNew
<1>. QED  BY <1>1, <1>2, ActiveSteps DEF Created

\* An entry that is active after a step was so before it, or has just been
\* inserted by an enqueue.
LEMMA BecomesActive ==
  ASSUME OutboxInv, [Next]_vars, NEW e \in Entry, Active(e)'
  PROVE  \/ Active(e)
         \/ /\ oreq' = oreq
            /\ \E c \in SyncClients :
                   /\ sreq[c].pc = "commit" /\ InsertedBy(c, e)
                   /\ outbox'[e].item = sreq[c].item /\ outbox'[e].payload = sreq[c].payload
<1>0. outbox \in [Entry -> OutboxRow] /\ sreq \in [SyncClients -> SyncRequest]
  BY DEF OutboxInv, TypeOK, TablesTypeOK, SyncTypeOK
<1>1. ASSUME NEW c \in SyncClients, NEW d \in Entry, sreq[c].pc = "commit", EndSync(c),
             FreeEntry(d), outbox' = WithNewEntry(d, sreq[c].item, sreq[c].payload), d = e
      PROVE  /\ oreq' = oreq /\ InsertedBy(c, e)
             /\ outbox'[e].item = sreq[c].item /\ outbox'[e].payload = sreq[c].payload
  <2>1. sreq'[c] = SyncIdle /\ SyncIdle.pc = "idle"
    BY <1>0, <1>1 DEF EndSync, SyncIdle
  <2>2. sreq'[c] # sreq[c]
    BY <1>1, <2>1
  <2>3. /\ outbox'[e].status = "PENDING"
        /\ outbox'[e].item = sreq[c].item /\ outbox'[e].payload = sreq[c].payload
    BY <1>0, <1>1 DEF WithNewEntry
  <2>. QED  BY <1>1, <2>2, <2>3, OneActor DEF InsertedBy, FreeEntry, Created
<1>2. ASSUME NEW c \in SyncClients, NEW d \in Entry, d # e,
             outbox' = WithNewEntry(d, sreq[c].item, sreq[c].payload)
      PROVE  Active(e)
  BY <1>0, <1>2 DEF WithNewEntry, Active
<1>3. CASE NoneNew
  BY <1>3 DEF NoneNew
<1>. QED  BY <1>1, <1>2, <1>3, ActiveSteps

\* SAP takes an entry of the item that is being sent, or holds what it held.
LEMMA SapSteps ==
  ASSUME OutboxInv, [Next]_vars, NEW i \in Item
  PROVE  \/ sap'[i] = sap[i]
         \/ /\ sap'[i] \in Entry /\ Active(sap'[i]) /\ outbox[sap'[i]].item = i
            /\ outbox' = outbox
BY CallSteps DEF OutboxInv, TypeOK, WorkerTypeOK

\* The XML of an enqueue is the item's text at the read.
LEMMA BuildSteps ==
  ASSUME TypeOK, [Next]_vars, NEW c \in SyncClients, Building(c)'
  PROVE  \/ Building(c) /\ sreq'[c].item = sreq[c].item /\ sreq'[c].payload = sreq[c].payload
         \/ /\ ~Building(c) /\ items' = items
            /\ sreq'[c].payload = items[sreq'[c].item].text
<1> USE DEF Building
<1>1. sreq \in [SyncClients -> SyncRequest]
  BY DEF TypeOK, SyncTypeOK
<1>2. CASE sreq'[c] = sreq[c]
  BY <1>2
<1>3. CASE SyncNext(c)
  <2>1. ~EndSync(c)
    BY <1>1 DEF EndSync, SyncIdle
  <2>2. CASE EnqueueItem(c)
    BY <1>1, <2>1, <2>2 DEF EnqueueItem, SyncRequest, tables
  <2>3. CASE EnqueueActive(c)
    BY <1>1, <2>1, <2>3 DEF EnqueueActive, SyncRequest
  <2>4. ASSUME NEW i \in Item, EnqueueSync(c, i) PROVE FALSE
    BY <1>1, <2>4 DEF EnqueueSync, SyncIdle
  <2>5. ASSUME NEW e \in Entry, CancelSync(c, e) PROVE FALSE
    BY <1>1, <2>5 DEF CancelSync, SyncIdle
  <2>6. ASSUME NEW e \in Entry, ReadEntry(c, e) PROVE FALSE
    BY <1>1, <2>6 DEF ReadEntry, SyncIdle
  <2>7. ASSUME CancelRefused(c) \/ StatusLogs(c) PROVE FALSE
    BY <1>1, <2>7 DEF CancelRefused, StatusLogs, SyncRequest
  <2>. QED
    BY <1>3, <2>1, <2>2, <2>3, <2>4, <2>5, <2>6, <2>7
    DEF SyncNext, EnqueueCommit, CancelCommit, CancelReread, GetSyncStatus,
        GetLatestSyncStatus, EntriesOf, StatusAnswer, SyncAbort
<1>4. ASSUME NEW d \in SyncClients, d # c, SyncNext(d) PROVE sreq'[c] = sreq[c]
  BY <1>1, <1>4
  DEF SyncNext, EnqueueSync, EnqueueItem, EnqueueActive, EnqueueCommit, CancelSync,
      CancelCommit, CancelRefused, CancelReread, GetSyncStatus, GetLatestSyncStatus,
      ReadEntry, StatusLogs, StatusAnswer, SyncAbort, EntriesOf, EndSync
<1>. QED  BY <1>2, <1>3, <1>4 DEF Next, vars

\* A worker has an answer of SAP's from its call on.
LEMMA AnswerSteps ==
  ASSUME OutboxInv, [Next]_vars, NEW w \in Workers, answer'[w] = "accepted"
  PROVE  \/ answer[w] = "accepted" /\ current'[w] = current[w]
         \/ /\ current'[w] \in Entry /\ outbox' = outbox
            /\ sap' = [sap EXCEPT ![outbox[current'[w]].item] = current'[w]]
<1> DEFINE Goal == \/ answer[w] = "accepted" /\ current'[w] = current[w]
                   \/ /\ current'[w] \in Entry /\ outbox' = outbox
                      /\ sap' = [sap EXCEPT ![outbox[current'[w]].item] = current'[w]]
<1>0. WorkerTypeOK
  BY DEF OutboxInv, TypeOK
<1>1. ASSUME UNCHANGED <<answer, current>> PROVE Goal
  BY <1>1
<1>2. ASSUME NEW v \in Workers, Done(v) PROVE Goal
  BY <1>0, <1>2 DEF Done, WorkerTypeOK
<1>3. ASSUME NEW v \in Workers, Call(v) PROVE Goal
  <2>1. PICK e \in Entry, outcome \in Answer, applied \in BOOLEAN : CallSAP(v, e, outcome, applied)
    BY <1>3 DEF Call
  <2>2. CASE v = w
    <3>1. current'[w] = e /\ outcome = "accepted"
      BY <1>0, <2>1, <2>2 DEF CallSAP, WorkerTypeOK
    <3>2. sap' = [sap EXCEPT ![outbox[e].item] = e]
      BY <2>1, <3>1, Zenon DEF CallSAP
    <3>. QED  BY <2>1, <3>1, <3>2 DEF CallSAP, tables
  <2>3. CASE v # w
    BY <1>0, <2>1, <2>3 DEF CallSAP, WorkerTypeOK
  <2>. QED  BY <2>2, <2>3
<1>4. ASSUME NEW v \in Workers, Crash(v) PROVE Goal
  BY <1>0, <1>4 DEF Crash, WorkerTypeOK
<1>5. ASSUME NEW v \in Workers, NEW locked, ClaimPending(v, locked) \/ ClaimLost(v, locked)
      PROVE  Goal
  BY <1>1, <1>5 DEF ClaimPending, ClaimLost, workerVars
<1>6. ASSUME NEW v \in Workers, WorkerNext(v) PROVE Goal
  BY <1>2, <1>3, <1>4, <1>5, <1>6
  DEF WorkerNext, Claim, RecordAccepted, RecordRejected, RecordError, Record, RecordFails
<1>. QED  BY <1>1, <1>6 DEF Next, vars, workerVars

\* A step that makes an item SYNCED is an edit's that has looked too early, or
\* the worker's whose entry SAP took.
LEMMA SyncedSteps ==
  ASSUME TypeOK, [Next]_vars, EditsEarly, NEW i \in Item,
         items'[i].status = "SYNCED", items[i].status # "SYNCED"
  PROVE  \/ KeptSynced(i)
         \/ \E w \in Workers : answer[w] = "accepted" /\ outbox[current[w]].item = i
<1>1. ASSUME NEW c \in OrderClients, Saved(c, i) PROVE KeptSynced(i)
  <2>1. /\ oreq[c].pc = "save" /\ oreq[c].item = i /\ oreq[c].status = "SYNCED"
        /\ oreq'[c] # oreq[c]
    BY <1>1 DEF Saved, OrderIdle
  <2>. QED  BY <2>1 DEF KeptSynced, Writers, EditsEarly
<1>. QED  BY <1>1, ItemSteps DEF ItemStep, Inserted, Reset, Settled
-----------------------------------------------------------------------------
LEMMA StepSapHolds ==
  ASSUME OutboxInv, [Next]_vars, SapHolds
  PROVE  SapHolds'
<1> SUFFICES ASSUME NEW i \in Item, sap'[i] # NoEntry
             PROVE  outbox'[sap'[i]].status # "ABSENT" /\ outbox'[sap'[i]].item = i
  BY DEF SapHolds, Created
<1>0. sap \in [Item -> EntryRef]
  BY DEF OutboxInv, TypeOK, WorkerTypeOK
<1>1. CASE sap'[i] = sap[i]
  <2>1. sap[i] \in Entry /\ Created(sap[i]) /\ outbox[sap[i]].item = i
    BY <1>0, <1>1, MaxEntriesAssumption DEF SapHolds, EntryRef, Entry, NoEntry
  <2>. QED  BY <1>1, <2>1, EntryStays DEF Created
<1>2. CASE Active(sap'[i]) /\ outbox[sap'[i]].item = i /\ outbox' = outbox
  BY <1>2 DEF Active, ActiveStatus
<1>. QED  BY <1>1, <1>2, SapSteps

LEMMA StepPayloadsCurrent ==
  ASSUME ItemsInv, [Next]_vars, HonestyStep, SentInv, NEW e \in clean', Active(e)'
  PROVE  items'[outbox'[e].item].text = outbox'[e].payload
<1>0. TypeOK /\ OutboxInv /\ e \in Entry /\ e \in clean
  BY HistorySteps DEF ItemsInv, OutboxInv, SentInv
<1>1. CASE Active(e)
  <2>1. Created(e) /\ Writers(outbox[e].item) = {}
    BY <1>1, HistorySteps DEF Active, ActiveStatus, Created
  <2>2. items'[outbox[e].item].text = items[outbox[e].item].text
    BY <1>0, <2>1, EntryFacts, TextStays
  <2>3. items[outbox[e].item].text = outbox[e].payload
    BY <1>0, <1>1 DEF SentInv, PayloadsCurrent
  <2>. QED  BY <1>0, <2>1, <2>2, <2>3, EntryStays
<1>2. ASSUME NEW c \in SyncClients, sreq[c].pc = "commit", InsertedBy(c, e), oreq' = oreq,
             outbox'[e].item = sreq[c].item, outbox'[e].payload = sreq[c].payload
      PROVE  items'[outbox'[e].item].text = outbox'[e].payload
  <2> DEFINE i == sreq[c].item
  <2>1. c \in fresh /\ Building(c)
    BY <1>2, HistorySteps DEF Building
  <2>2. items[i].text = sreq[c].payload
    BY <2>1 DEF SentInv, BuildsCurrent
  <2>3. i \in Item /\ ItemExists(i)
    BY <1>0, <1>2
    DEF TypeOK, SyncTypeOK, SyncHolds, ItemsInv, SyncReliesOn, Edited, ItemExists
  <2>4. \A d \in OrderClients : ~Writes(d, i)
    BY <1>2 DEF Writes, OrderIdle
  <2>5. items'[i].text = items[i].text
    BY <1>0, <2>3, <2>4, TextSteps
  <2>. QED  BY <1>2, <2>2, <2>5
<1>. QED  BY <1>0, <1>1, <1>2, BecomesActive

LEMMA StepBuildsCurrent ==
  ASSUME ItemsInv, [Next]_vars, HonestyStep, SentInv, NEW c \in fresh', Building(c)'
  PROVE  items'[sreq'[c].item].text = sreq'[c].payload
<1>0. TypeOK /\ c \in SyncClients /\ SyncReliesOn(c) /\ SyncHolds(sreq[c])
  BY HistorySteps DEF ItemsInv, OutboxInv, TypeOK, SyncTypeOK
<1>1. CASE Building(c) /\ sreq'[c].item = sreq[c].item /\ sreq'[c].payload = sreq[c].payload
  <2>1. c \in fresh /\ Writers(sreq[c].item) = {}
    BY <1>1, HistorySteps
  <2>2. sreq[c].item \in Item /\ ItemExists(sreq[c].item)
    BY <1>0, <1>1 DEF Building, SyncHolds, SyncReliesOn, Edited, ItemExists
  <2>3. items'[sreq[c].item].text = items[sreq[c].item].text
    BY <1>0, <2>1, <2>2, TextStays
  <2>. QED  BY <1>1, <2>1, <2>3 DEF SentInv, BuildsCurrent
<1>. QED  BY <1>0, <1>1, BuildSteps

LEMMA StepAcceptedIsLast ==
  ASSUME ItemsInv, Lone, [Next]_vars, RacedStep, SentInv, NEW w \in Workers,
         answer'[w] = "accepted", outbox'[current'[w]].item \notin raced'
  PROVE  sap'[outbox'[current'[w]].item] = current'[w]
<1>0. OutboxInv /\ TypeOK /\ sap \in [Item -> EntryRef] /\ raced \subseteq raced'
  BY RacedGrows DEF ItemsInv, OutboxInv, TypeOK, WorkerTypeOK
<1>1. CASE answer[w] = "accepted" /\ current'[w] = current[w]
  <2> DEFINE e == current[w]  i == outbox[e].item
  <2>1. e \in Entry /\ Active(e) /\ Created(e) /\ i \in Item
    BY <1>1, WorkerEntry DEF Active, ActiveStatus
  <2>2. outbox'[e].item = i /\ i \notin raced
    BY <1>0, <1>1, <2>1, EntryStays
  <2>3. sap[i] = e
    BY <1>1, <2>2 DEF SentInv, AcceptedIsLast
  <2>4. sap'[i] = e
    <3>1. CASE sap'[i] = sap[i]
      BY <2>3, <3>1
    <3>2. CASE sap'[i] \in Entry /\ Active(sap'[i]) /\ outbox[sap'[i]].item = i
      BY <2>1, <2>2, <3>2 DEF Lone
    <3>. QED  BY <1>0, <2>1, <3>1, <3>2, SapSteps
  <2>. QED  BY <1>1, <2>2, <2>4
<1>2. CASE /\ current'[w] \in Entry /\ outbox' = outbox
           /\ sap' = [sap EXCEPT ![outbox[current'[w]].item] = current'[w]]
  <2>1. TypeOK'
    BY <1>0, NextTypeOK
  <2>2. claimed'[w][current'[w]] # 0
    BY <1>2, <2>1, MaxEntriesAssumption DEF TypeOK, WorkerTypeOK, Entry, NoEntry
  <2>3. outbox[current'[w]].status # "ABSENT"
    BY <1>2, <2>1, <2>2 DEF TypeOK, WorkerTypeOK, Created
  <2>4. outbox[current'[w]].item \in Item
    BY <1>0, <1>2, <2>3 DEF TypeOK, TablesTypeOK
  <2>. QED  BY <1>0, <1>2, <2>4
<1>. QED  BY <1>0, <1>1, <1>2, AnswerSteps

LEMMA StepEditsEarly ==
  ASSUME TypeOK, [Next]_vars, HonestyStep, EditsEarly, NEW c \in OrderClients,
         \/ oreq'[c].pc = "current" /\ ~oreq'[c].promote
         \/ oreq'[c].pc = "save" /\ oreq'[c].status = "SYNCED"
  PROVE  c \in early'
<1>0. /\ oreq'[c].pc \in {"current", "save"}
      /\ oreq[c].pc # "read" /\ c \in early => c \in early'
      /\ oreq[c].pc = "read" /\ items[oreq[c].item].status # "SYNCED" => c \in early'
  BY DEF HonestyStep
<1>1. CASE oreq'[c] = oreq[c]
  BY <1>0, <1>1 DEF EditsEarly
<1>2. CASE oreq'[c] # oreq[c]
  <2>1. \/ /\ oreq[c].pc = "read" /\ oreq'[c].pc = "current"
           /\ oreq'[c].promote = ShouldPromoteOnEdit(items[oreq[c].item].status)
        \/ /\ oreq[c].pc = "current" /\ oreq'[c].pc = "save"
           /\ oreq'[c].status = IF oreq[c].promote THEN "UPDATED"
                                ELSE items[oreq[c].item].status
    BY <1>0, <1>2, EditReads
  <2>. QED  BY <1>0, <2>1 DEF EditsEarly, ShouldPromoteOnEdit
<1>. QED  BY <1>1, <1>2

LEMMA StepSyncedIsSent ==
  ASSUME ItemsInv, [Next]_vars, RacedStep, HonestyStep, SentInv,
         NEW i \in Item \ raced', items'[i].status = "SYNCED", sap'[i] \in clean'
  PROVE  items'[i].text = outbox'[sap'[i]].payload
<1> DEFINE e == sap'[i]
<1>0. /\ TypeOK /\ OutboxInv /\ SapHolds /\ EditsEarly /\ i \notin raced
      /\ e \in clean /\ e \in Entry
  BY HistorySteps, RacedGrows DEF ItemsInv, OutboxInv, SentInv
<1>1. Created(e) /\ outbox[e].item = i
  <2>1. CASE sap[i] = e
    BY <1>0, <2>1, MaxEntriesAssumption DEF SapHolds, Entry, NoEntry
  <2>2. CASE Active(e) /\ outbox[e].item = i
    BY <2>2 DEF Active, ActiveStatus, Created
  <2>. QED  BY <1>0, <2>1, <2>2, SapSteps
<1>2. ItemExists(i) /\ outbox'[e].payload = outbox[e].payload /\ ~KeptSynced(i)
  BY <1>0, <1>1, EntryFacts, EntryStays, HistorySteps
<1>3. CASE Active(e)
  <2>1. Writers(i) = {}
    BY <1>1, <1>3, HistorySteps
  <2>2. items'[i].text = items[i].text
    BY <1>0, <1>2, <2>1, TextStays
  <2>. QED  BY <1>0, <1>1, <1>2, <1>3, <2>2 DEF SentInv, PayloadsCurrent
<1>4. CASE ~Active(e)
  <2>1. sap[i] = e
    BY <1>0, <1>4, SapSteps
  <2>2. items[i].status = "SYNCED"
    <3> SUFFICES ASSUME items[i].status # "SYNCED" PROVE FALSE
      OBVIOUS
    <3>1. ASSUME NEW w \in Workers, answer[w] = "accepted", outbox[current[w]].item = i
          PROVE  FALSE
      BY <1>0, <1>4, <2>1, <3>1, WorkerEntry DEF SentInv, AcceptedIsLast, Active, ActiveStatus
    <3>. QED  BY <1>0, <1>2, <3>1, SyncedSteps
  <2>3. items[i].text = outbox[e].payload
    BY <1>0, <2>1, <2>2 DEF SentInv, SyncedIsSent
  <2>4. ASSUME NEW c \in OrderClients, Writes(c, i) PROVE items'[i] = items[i]
    <3>1. oreq[c].pc = "save" /\ oreq[c].status = "SYNCED" /\ oreq'[c] # oreq[c]
      BY <2>4 DEF Writes, OrderIdle
    <3>. QED  BY <1>0, <1>2, <2>4, <3>1 DEF Writes, Writers, KeptSynced, EditsEarly
  <2>5. items'[i].text = items[i].text
    BY <1>0, <1>2, <2>4, TextSteps
  <2>. QED  BY <1>2, <2>3, <2>5
<1>. QED  BY <1>3, <1>4

LEMMA StepSentInv ==
  ASSUME ItemsInv, Lone, [Next]_vars, RacedStep, HonestyStep, SentInv
  PROVE  SentInv'
<1>1. clean' \subseteq Entry /\ fresh' \subseteq SyncClients
  BY HistorySteps DEF SentInv
<1>2. SapHolds'
  BY StepSapHolds DEF ItemsInv, SentInv
<1>3. PayloadsCurrent' /\ BuildsCurrent'
  BY StepPayloadsCurrent, StepBuildsCurrent DEF PayloadsCurrent, BuildsCurrent
<1>4. AcceptedIsLast'
  BY StepAcceptedIsLast DEF AcceptedIsLast
<1>5. EditsEarly'
  <2>1. TypeOK /\ EditsEarly
    BY DEF ItemsInv, OutboxInv, SentInv
  <2>. QED  BY <2>1, StepEditsEarly DEF EditsEarly
<1>6. SyncedIsSent'
  BY StepSyncedIsSent DEF SyncedIsSent
<1>. QED  BY <1>1, <1>2, <1>3, <1>4, <1>5, <1>6 DEF SentInv

LEMMA HonestyLoneInv == HonestySpec => []LoneInv
<1>1. HonestyInit => LoneInv
  BY InitLoneInv DEF HonestyInit, TxInit
<1>2. TxInv /\ LoneInv /\ [HonestyNext]_<<txVars, overlaps, history>> => LoneInv'
  BY HonestySteps, StepLoneInv DEF TxInv, ItemsInv
<1>. QED  BY <1>1, <1>2, HonestyTxInv, PTL DEF HonestySpec

\* SYNCED is worth something: an item that is SYNCED says what SAP took last
\* for it, through retries, cancels, requeues, late answers and crashes, for
\* any clients.  What is excepted is what the runs of DocClaims refute: items
\* two enqueues raced for, entries whose item was written while they were built
\* or waited, and edits that have looked before the item was SYNCED.
THEOREM SyncedTrusted == HonestySpec => []SyncedIsSent
<1>1. TxInv /\ LoneInv /\ SentInv /\ [HonestyNext]_<<txVars, overlaps, history>> => SentInv'
  <2> SUFFICES ASSUME TxInv, LoneInv, SentInv, [HonestyNext]_<<txVars, overlaps, history>>
               PROVE  SentInv'
    OBVIOUS
  <2>1. ItemsInv /\ Lone /\ [Next]_vars /\ RacedStep /\ HonestyMoves
    BY HonestySteps DEF TxInv, LoneInv
  <2>2. CASE UNCHANGED <<txVars, overlaps, history>>
    BY <2>2
    DEF txVars, vars, tables, workerVars, sapVars, history, overlaps, SentInv, SapHolds,
        PayloadsCurrent, BuildsCurrent, AcceptedIsLast, EditsEarly, SyncedIsSent,
        Building, Active, Created
  <2>3. CASE HonestyStep
    BY <2>1, <2>3, StepSentInv
  <2>. QED  BY <2>2, <2>3 DEF HonestyNext
<1>2. SentInv => SyncedIsSent
  BY DEF SentInv
<1>. QED  BY <1>1, <1>2, InitSentInv, HonestyTxInv, HonestyLoneInv, PTL DEF HonestySpec
=============================================================================
