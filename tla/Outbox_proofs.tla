----------------------------- MODULE Outbox_proofs -----------------------------
(***************************************************************************)
(* What the outbox guarantees for any numbers of entries, attempts, items, *)
(* clients and workers and with every fault.                               *)
(*                                                                         *)
(* Every step of the service does one of nine things to the outbox         *)
(* (StepKinds).  OutboxInv is inductive over those, and the properties of  *)
(* Backend are its parts or follow from it in one step.  At the end the    *)
(* service is shown to implement DeliveryContract.                         *)
(***************************************************************************)
EXTENDS BackendTypes_proofs, DocClaims

untouched == <<syncLogs, claimed, current, answer, calls>>

\* What a step may do to the outbox, its logs and its workers.
Kept == UNCHANGED <<outbox, untouched>>

Accepted(e) ==
    /\ ~Created(e)
    /\ \E i \in Item, p \in Text : outbox' = WithNewEntry(e, i, p)
    /\ UNCHANGED untouched

Withdrawn(e) ==
    /\ outbox[e].status = "PENDING"
    /\ outbox' = WithEntryStatus(e, "CANCELLED")
    /\ UNCHANGED untouched

TakenBy(w, S) ==
    /\ Waiting(w)
    /\ outbox' = WithClaimed(S)
    /\ claimed' = [claimed EXCEPT ![w] =
                      [e \in Entry |-> IF e \in S THEN outbox'[e].attempts ELSE 0]]
    /\ UNCHANGED <<syncLogs, current, answer, calls>>

TakenLost(S) ==
    /\ Faults
    /\ outbox' = WithClaimed(S)
    /\ UNCHANGED untouched

Called(w, e) ==
    /\ claimed[w][e] # 0 /\ current[w] = NoEntry
    /\ current' = [current EXCEPT ![w] = e]
    /\ calls' = [calls EXCEPT ![e] = @ + 1]
    /\ UNCHANGED <<outbox, syncLogs, claimed>>

Recorded(w, logged, status) ==
    /\ current[w] \in Entry
    /\ \/ logged = "SUCCESS" /\ status = "COMPLETED"
       \/ logged = "FAILED" /\ status = "PENDING" /\ Retry(w)
       \/ logged = "FAILED" /\ status = "FAILED" /\ ~Retry(w)
    /\ outbox' = WithEntryStatus(current[w], status)
    /\ syncLogs' = Log(current[w], logged)
    /\ Done(w)
    /\ UNCHANGED calls

Dropped(w) ==
    /\ Faults
    /\ Done(w)
    /\ UNCHANGED <<outbox, syncLogs, calls>>

Stopped(w) ==
    /\ Faults
    /\ claimed' = [claimed EXCEPT ![w] = [e \in Entry |-> 0]]
    /\ current' = [current EXCEPT ![w] = NoEntry]
    /\ UNCHANGED <<outbox, syncLogs, calls>>

OutboxStep ==
    \/ Kept
    \/ \E e \in Entry : Accepted(e) \/ Withdrawn(e)
    \/ \E w \in Workers, S \in SUBSET Claimable : TakenBy(w, S)
    \/ \E S \in SUBSET Claimable : TakenLost(S)
    \/ \E w \in Workers, e \in Entry : Called(w, e)
    \/ \E w \in Workers, logged \in SyncStatus, status \in OutboxStatus :
           Recorded(w, logged, status)
    \/ \E w \in Workers : Dropped(w) \/ Stopped(w)

\* Every step of the service is one of these.
LEMMA StepKinds ==
  ASSUME TypeOK, [Next]_vars
  PROVE  OutboxStep
<1> USE DEF OutboxStep, untouched
<1>1. ASSUME NEW c \in OrderClients, OrderNext(c), UNCHANGED <<sreq, workerVars, sapVars>>
      PROVE  Kept
  BY <1>1 DEF Kept, OrderNext, CreateOrder, UpdateOrder, UpdateOrderListItems,
              UpdateOrderWrite, AddItem, AddItemInsert, AddItemPromote, UpdateItem,
              UpdateItemRead, UpdateItemCurrent, UpdateItemWrite, OrderAbort, tables,
              workerVars, sapVars
<1>2. ASSUME NEW c \in SyncClients, SyncNext(c), UNCHANGED <<oreq, workerVars, sapVars>>
      PROVE  OutboxStep
  <2>1. CASE EnqueueCommit(c)
    <3>1. sreq[c].item \in Item /\ sreq[c].payload \in Text
      BY <2>1 DEF EnqueueCommit, TypeOK, SyncTypeOK, SyncHolds
    <3>2. PICK e \in Entry : FreeEntry(e) /\ outbox' = WithNewEntry(e, sreq[c].item, sreq[c].payload)
      BY <2>1 DEF EnqueueCommit
    <3>3. Accepted(e)
      BY <1>2, <2>1, <3>1, <3>2 DEF EnqueueCommit, Accepted, FreeEntry, workerVars, sapVars
    <3>. QED  BY <3>3
  <2>2. CASE CancelCommit(c)
    <3>1. sreq[c].entry \in Entry
      BY <2>2 DEF CancelCommit, TypeOK, SyncTypeOK, SyncHolds
    <3>2. Withdrawn(sreq[c].entry)
      BY <1>2, <2>2 DEF CancelCommit, Withdrawn, workerVars, sapVars
    <3>. QED  BY <3>1, <3>2
  <2>3. CASE UNCHANGED tables
    BY <1>2, <2>3 DEF Kept, tables, workerVars, sapVars
  <2>. QED
    BY <1>2, <2>1, <2>2, <2>3
    DEF SyncNext, EnqueueSync, EnqueueItem, EnqueueActive, CancelSync, CancelRefused,
        CancelReread, GetSyncStatus, GetLatestSyncStatus, ReadEntry, StatusLogs, StatusAnswer, SyncAbort,
        EntriesOf
<1>3. ASSUME NEW w \in Workers, WorkerNext(w) PROVE OutboxStep
  <2>1. ASSUME NEW locked, ClaimPending(w, locked) PROVE OutboxStep
    <3> DEFINE S == Oldest(Claimable \ locked, BatchSize)
    <3>1. S \in SUBSET Claimable
      BY OldestSubset
    <3>2. TakenBy(w, S)
      BY <2>1 DEF ClaimPending, TakenBy, sapVars
    <3>. QED  BY <3>1, <3>2
  <2>2. ASSUME NEW locked, ClaimLost(w, locked) PROVE OutboxStep
    <3> DEFINE S == Oldest(Claimable \ locked, BatchSize)
    <3>1. S \in SUBSET Claimable
      BY OldestSubset
    <3>2. TakenLost(S)
      BY <2>2 DEF ClaimLost, TakenLost, workerVars, sapVars
    <3>. QED  BY <3>1, <3>2
  <2>3. ASSUME NEW e \in Entry, NEW outcome, NEW applied, CallSAP(w, e, outcome, applied)
        PROVE  OutboxStep
    BY <2>3 DEF CallSAP, Called, tables
  <2>4. ASSUME NEW logged \in SyncStatus, NEW itemStatus, NEW status \in OutboxStatus,
               answer[w] # "none",
               Record(w, logged, itemStatus, WithEntryStatus(current[w], status)),
               \/ logged = "SUCCESS" /\ status = "COMPLETED"
               \/ logged = "FAILED" /\ status = "PENDING" /\ Retry(w)
               \/ logged = "FAILED" /\ status = "FAILED" /\ ~Retry(w)
        PROVE  OutboxStep
    <3>1. Recorded(w, logged, status)
      BY <2>4 DEF Record, Recorded, sapVars, TypeOK, WorkerTypeOK
    <3>. QED  BY <3>1
  <2>5. CASE RecordAccepted(w)
    BY <2>4, <2>5 DEF RecordAccepted, MarkCompleted, SyncStatus, OutboxStatus
  <2>6. CASE RecordRejected(w)
    BY <2>4, <2>6 DEF RecordRejected, MarkFailed, SyncStatus, OutboxStatus
  <2>7. CASE RecordError(w)
    BY <2>4, <2>7 DEF RecordError, MarkFailed, SyncStatus, OutboxStatus
  <2>8. CASE RecordFails(w)
    BY <2>8 DEF RecordFails, Dropped, tables, sapVars
  <2>9. CASE Crash(w)
    BY <2>9 DEF Crash, Stopped, tables, sapVars
  <2>. QED
    BY <1>3, <2>1, <2>2, <2>3, <2>5, <2>6, <2>7, <2>8, <2>9 DEF WorkerNext, Claim, Call
<1>4. CASE UNCHANGED vars
  BY <1>4 DEF vars, tables, workerVars, sapVars, Kept
<1>. QED
  BY <1>1, <1>2, <1>3, <1>4 DEF Next
-----------------------------------------------------------------------------
\* A row that is not there yet has its defaults.
AbsentIsBlank == \A e \in Entry : ~Created(e) => outbox[e].attempts = 0

\* An entry of a batch that has not been called yet still has its attempt:
\* this is what keeps CallsWithinAttempts true when the call is made.
UncalledInBatch ==
    \A w \in Workers, e \in Entry :
        claimed[w][e] # 0 /\ current[w] # e => calls[e] < outbox[e].attempts

OutboxInv ==
    /\ TypeOK
    /\ PendingIsClaimable
    /\ ClaimExclusive
    /\ AuditComplete
    /\ CallsWithinAttempts
    /\ AbsentIsBlank
    /\ UncalledInBatch

LEMMA InitOutboxInv == Init => OutboxInv
<1> SUFFICES ASSUME Init PROVE OutboxInv
  OBVIOUS
<1>1. \A e \in Entry : outbox[e] = NoRow /\ syncLogs[e] = << >> /\ calls[e] = 0
  BY DEF Init, TablesInit, WorkerInit
<1>2. \A w \in Workers, e \in Entry : claimed[w][e] = 0
  BY DEF Init, WorkerInit
<1>. QED
  BY <1>1, <1>2, InitTypeOK
  DEF OutboxInv, PendingIsClaimable, ClaimExclusive, AuditComplete, CallsWithinAttempts,
      AbsentIsBlank, UncalledInBatch, NoRow, Created

\* What WithEntryStatus changes.
LEMMA EntryStatusEffect ==
  ASSUME TypeOK, NEW e \in Entry, NEW status, outbox' = WithEntryStatus(e, status)
  PROVE  \A d \in Entry : /\ outbox'[d].attempts = outbox[d].attempts
                          /\ outbox'[d].status = IF d = e THEN status ELSE outbox[d].status
                          /\ d # e => outbox'[d] = outbox[d]
<1> DEFINE r == [outbox[e] EXCEPT !.status = status]
<1>1. r.attempts = outbox[e].attempts /\ r.status = status
  <2>1. outbox[e] \in OutboxRow
    BY DEF TypeOK, TablesTypeOK
  <2>. QED  BY <2>1 DEF OutboxRow
<1>2. outbox' = [outbox EXCEPT ![e] = r]
  BY DEF WithEntryStatus
<1> HIDE DEF r
<1>. QED  BY <1>1, <1>2 DEF TypeOK, TablesTypeOK

\* A worker that is done with its current entry holds the others as before.
LEMMA DoneEffect ==
  ASSUME TypeOK, NEW w \in Workers, Done(w)
  PROVE  /\ \A v \in Workers, e \in Entry :
               claimed'[v][e] = IF v = w /\ e = current[w] THEN 0 ELSE claimed[v][e]
         /\ \A v \in Workers : v # w => current'[v] = current[v]
<1> DEFINE held == [claimed[w] EXCEPT ![current[w]] = 0]
<1>1. \A e \in Entry : held[e] = IF e = current[w] THEN 0 ELSE claimed[w][e]
  <2>1. claimed[w] \in [Entry -> 0 .. MaxAttempts]
    BY DEF TypeOK, WorkerTypeOK
  <2>. QED  BY <2>1
<1>2. claimed' = [claimed EXCEPT ![w] = held]
  BY DEF Done
<1>3. \A v \in Workers : v # w => current'[v] = current[v]
  BY DEF Done, TypeOK, WorkerTypeOK
<1> HIDE DEF held
<1>. QED
  BY <1>1, <1>2, <1>3 DEF TypeOK, WorkerTypeOK

\* PENDING entries keep an attempt.
LEMMA StepPendingIsClaimable ==
  ASSUME OutboxInv, TypeOK', OutboxStep
  PROVE  PendingIsClaimable'
<1> USE DEF OutboxInv, PendingIsClaimable
<1>0. \A e \in Entry : outbox[e] \in OutboxRow
  BY DEF TypeOK, TablesTypeOK
<1>1. ASSUME outbox' = outbox PROVE PendingIsClaimable'
  BY <1>1
<1>2. ASSUME NEW e \in Entry, Accepted(e) PROVE PendingIsClaimable'
  <2>1. PICK i \in Item, p \in Text : outbox' = WithNewEntry(e, i, p)
    BY <1>2 DEF Accepted
  <2>2. \A d \in Entry : outbox'[d].attempts = 0 \/ outbox'[d] = outbox[d]
    BY <2>1 DEF WithNewEntry, TypeOK, TablesTypeOK
  <2>. QED  BY <2>2, MaxAttemptsAssumption
<1>3. ASSUME NEW e \in Entry, Withdrawn(e) PROVE PendingIsClaimable'
  <2>1. \A d \in Entry : /\ outbox'[d].attempts = outbox[d].attempts
                         /\ outbox'[d].status = IF d = e THEN "CANCELLED" ELSE outbox[d].status
    BY <1>3, EntryStatusEffect DEF Withdrawn
  <2>. QED  BY <2>1
<1>4. ASSUME NEW S \in SUBSET Claimable, outbox' = WithClaimed(S)
      PROVE  PendingIsClaimable'
  BY <1>4, ClaimedTypes
<1>5. ASSUME NEW w \in Workers, NEW logged, NEW status, Recorded(w, logged, status)
      PROVE  PendingIsClaimable'
  <2>1. current[w] \in Entry /\ outbox' = WithEntryStatus(current[w], status)
    BY <1>5 DEF Recorded
  <2>2. outbox[current[w]].attempts = claimed[w][current[w]]
    BY <2>1, MaxEntriesAssumption DEF ClaimExclusive, TypeOK, WorkerTypeOK, NoEntry, Entry
  <2>3. status = "PENDING" => outbox[current[w]].attempts < MaxAttempts
    BY <1>5, <2>2 DEF Recorded, Retry
  <2>4. \A d \in Entry :
           /\ outbox'[d].attempts = outbox[d].attempts
           /\ outbox'[d].status = IF d = current[w] THEN status ELSE outbox[d].status
    BY <2>1, EntryStatusEffect
  <2>. QED  BY <2>3, <2>4
<1>. QED
  BY <1>1, <1>2, <1>3, <1>4, <1>5
  DEF OutboxStep, Kept, TakenBy, TakenLost, Called, Dropped, Stopped

\* Batches stay apart and current.
LEMMA StepClaimExclusive ==
  ASSUME OutboxInv, TypeOK', OutboxStep
  PROVE  ClaimExclusive'
<1> USE DEF OutboxInv, ClaimExclusive
<1>1. ASSUME NEW w \in Workers, NEW e \in Entry, Called(w, e) PROVE ClaimExclusive'
  BY <1>1 DEF Called
<1>2. ASSUME NEW e \in Entry, Accepted(e) PROVE ClaimExclusive'
  <2>1. \A w \in Workers : claimed[w][e] = 0
    BY <1>2 DEF Accepted, TypeOK, WorkerTypeOK
  <2>2. \A d \in Entry : d # e => outbox'[d] = outbox[d]
    BY <1>2 DEF Accepted, WithNewEntry, TypeOK, TablesTypeOK
  <2>. QED  BY <1>2, <2>1, <2>2 DEF Accepted, untouched
<1>3. ASSUME NEW e \in Entry, Withdrawn(e) PROVE ClaimExclusive'
  <2>1. \A w \in Workers : claimed[w][e] = 0
    BY <1>3 DEF Withdrawn
  <2>2. \A d \in Entry : d # e => outbox'[d] = outbox[d]
    BY <1>3, EntryStatusEffect DEF Withdrawn
  <2>. QED  BY <1>3, <2>1, <2>2 DEF Withdrawn, untouched
<1>4. ASSUME NEW S \in SUBSET Claimable
      PROVE  \A w \in Workers, e \in S : claimed[w][e] = 0
  BY DEF Claimable
<1>5. ASSUME NEW w \in Workers, NEW S \in SUBSET Claimable, TakenBy(w, S)
      PROVE  ClaimExclusive'
  <2>1. \A e \in Entry :
           /\ outbox'[e].attempts =
                 IF e \in S THEN outbox[e].attempts + 1 ELSE outbox[e].attempts
           /\ outbox'[e].status = IF e \in S THEN "PROCESSING" ELSE outbox[e].status
    BY <1>5, ClaimedTypes DEF TakenBy
  <2>2. \A v \in Workers, e \in Entry :
           claimed'[v][e] = IF v = w THEN IF e \in S THEN outbox'[e].attempts ELSE 0
                            ELSE claimed[v][e]
    BY <1>5 DEF TakenBy, TypeOK, WorkerTypeOK
  <2>3. SUFFICES ASSUME NEW v \in Workers, NEW e \in Entry, claimed'[v][e] # 0
                 PROVE  /\ outbox'[e].status = "PROCESSING"
                        /\ outbox'[e].attempts = claimed'[v][e]
                        /\ \A u \in Workers \ {v} : claimed'[u][e] = 0
    OBVIOUS
  <2>4. CASE e \in S
    BY <1>4, <2>1, <2>2, <2>3, <2>4
  <2>5. CASE e \notin S
    BY <2>1, <2>2, <2>3, <2>5
  <2>. QED  BY <2>4, <2>5
<1>6. ASSUME NEW S \in SUBSET Claimable, TakenLost(S) PROVE ClaimExclusive'
  <2>1. \A e \in Entry :
           /\ outbox'[e].attempts =
                 IF e \in S THEN outbox[e].attempts + 1 ELSE outbox[e].attempts
           /\ outbox'[e].status = IF e \in S THEN "PROCESSING" ELSE outbox[e].status
    BY <1>6, ClaimedTypes DEF TakenLost
  <2>. QED  BY <1>4, <1>6, <2>1 DEF TakenLost, untouched
<1>7. ASSUME NEW w \in Workers, NEW logged, NEW status, Recorded(w, logged, status)
      PROVE  ClaimExclusive'
  <2>1. current[w] \in Entry /\ outbox' = WithEntryStatus(current[w], status) /\ Done(w)
    BY <1>7 DEF Recorded
  <2>2. claimed[w][current[w]] # 0
    BY <2>1, MaxEntriesAssumption DEF TypeOK, WorkerTypeOK, NoEntry, Entry
  <2>3. \A v \in Workers : claimed'[v][current[w]] = 0
    BY <2>1, <2>2, DoneEffect
  <2>4. \A v \in Workers, e \in Entry :
           e # current[w] => claimed'[v][e] = claimed[v][e] /\ outbox'[e] = outbox[e]
    BY <2>1, DoneEffect, EntryStatusEffect
  <2>. QED  BY <2>3, <2>4
<1>8. ASSUME NEW w \in Workers, Dropped(w) PROVE ClaimExclusive'
  BY <1>8, DoneEffect DEF Dropped
<1>9. ASSUME NEW w \in Workers, Stopped(w) PROVE ClaimExclusive'
  BY <1>9 DEF Stopped, TypeOK, WorkerTypeOK
<1>10. CASE Kept
  BY <1>10 DEF Kept, untouched
<1>. QED
  BY <1>1, <1>2, <1>3, <1>5, <1>6, <1>7, <1>8, <1>9, <1>10 DEF OutboxStep

\* AuditComplete, entry by entry.
Audited(log, row) ==
    /\ Len(log) = row.attempts - (IF row.status = "PROCESSING" THEN 1 ELSE 0)
    /\ row.status = "COMPLETED" => Len(log) > 0 /\ log[Len(log)] = "SUCCESS"
    /\ \A n \in 1 .. Len(log) : log[n] = "SUCCESS" => n = Len(log) /\ row.status = "COMPLETED"

\* The audit trail grows by one row with each attempt that ends.
LEMMA StepAuditComplete ==
  ASSUME OutboxInv, TypeOK', OutboxStep
  PROVE  AuditComplete'
<1> USE DEF OutboxInv
<1>0. \A e \in Entry : Audited(syncLogs[e], outbox[e])
  BY DEF AuditComplete, Audited
<1>1. ASSUME \A e \in Entry : Audited(syncLogs'[e], outbox'[e]) PROVE AuditComplete'
  BY <1>1 DEF AuditComplete, Audited
<1>2. \A e \in Entry : outbox[e] \in OutboxRow /\ syncLogs[e] \in Seq(SyncStatus)
  BY DEF TypeOK, TablesTypeOK
<1>3. ASSUME UNCHANGED <<outbox, syncLogs>> PROVE AuditComplete'
  BY <1>0, <1>1, <1>3
<1>4. ASSUME NEW e \in Entry, Accepted(e) PROVE AuditComplete'
  <2>1. PICK i \in Item, p \in Text : outbox' = WithNewEntry(e, i, p)
    BY <1>4 DEF Accepted
  <2>2. syncLogs' = syncLogs
    BY <1>4 DEF Accepted, untouched
  <2>3. Len(syncLogs[e]) = 0
    BY <1>0, <1>4 DEF Accepted, Created, AbsentIsBlank, Audited
  <2>4. outbox'[e].attempts = 0 /\ outbox'[e].status = "PENDING"
    BY <2>1 DEF WithNewEntry, TypeOK, TablesTypeOK
  <2>5. Audited(syncLogs'[e], outbox'[e])
    BY <2>2, <2>3, <2>4 DEF Audited
  <2>6. \A d \in Entry : d # e => outbox'[d] = outbox[d]
    BY <2>1 DEF WithNewEntry, TypeOK, TablesTypeOK
  <2>. QED  BY <1>0, <1>1, <2>2, <2>5, <2>6
<1>5. ASSUME NEW e \in Entry, Withdrawn(e) PROVE AuditComplete'
  <2>1. syncLogs' = syncLogs
    BY <1>5 DEF Withdrawn, untouched
  <2>2. /\ outbox'[e].attempts = outbox[e].attempts
        /\ outbox'[e].status = "CANCELLED"
        /\ outbox[e].status = "PENDING"
        /\ \A d \in Entry : d # e => outbox'[d] = outbox[d]
    BY <1>5, EntryStatusEffect DEF Withdrawn
  <2>3. Audited(syncLogs'[e], outbox'[e])
    BY <1>0, <2>1, <2>2 DEF Audited
  <2>. QED  BY <1>0, <1>1, <2>1, <2>2, <2>3
<1>6. ASSUME NEW S \in SUBSET Claimable, outbox' = WithClaimed(S), syncLogs' = syncLogs
      PROVE  AuditComplete'
  <2>1. SUFFICES ASSUME NEW e \in Entry PROVE Audited(syncLogs[e], outbox'[e])
    BY <1>1, <1>6
  <2>2. /\ outbox'[e].attempts = IF e \in S THEN outbox[e].attempts + 1 ELSE outbox[e].attempts
        /\ outbox'[e].status = IF e \in S THEN "PROCESSING" ELSE outbox[e].status
    BY <1>6, ClaimedTypes
  <2>3. CASE e \in S
    <3>1. outbox[e].status = "PENDING" /\ outbox[e].attempts \in Nat
      BY <1>2, <2>3, MaxAttemptsAssumption DEF Claimable, OutboxRow
    <3>2. Audited(syncLogs[e], outbox[e])
      BY <1>0
    <3>. QED  BY <2>2, <2>3, <3>1, <3>2 DEF Audited
  <2>4. CASE e \notin S
    <3>1. Audited(syncLogs[e], outbox[e])
      BY <1>0
    <3>. QED  BY <2>2, <2>4, <3>1 DEF Audited
  <2>. QED  BY <2>3, <2>4
<1>7. ASSUME NEW w \in Workers, NEW logged \in SyncStatus, NEW status,
             Recorded(w, logged, status)
      PROVE  AuditComplete'
  <2> DEFINE e == current[w]
  <2>1. e \in Entry /\ outbox' = WithEntryStatus(e, status) /\ syncLogs' = Log(e, logged)
    BY <1>7 DEF Recorded
  <2>2. outbox[e].status = "PROCESSING"
    <3>1. claimed[w][e] # 0
      BY <2>1, MaxEntriesAssumption DEF TypeOK, WorkerTypeOK, NoEntry, Entry
    <3>. QED  BY <2>1, <3>1 DEF ClaimExclusive
  <2>3. /\ outbox'[e].attempts = outbox[e].attempts
        /\ outbox'[e].status = status
        /\ \A d \in Entry : d # e => outbox'[d] = outbox[d]
    BY <2>1, EntryStatusEffect
  <2>4. /\ syncLogs'[e] = Append(syncLogs[e], logged)
        /\ \A d \in Entry : d # e => syncLogs'[d] = syncLogs[d]
    BY <2>1 DEF Log, TypeOK, TablesTypeOK
  <2>5. status \in {"COMPLETED", "PENDING", "FAILED"} /\ (status = "COMPLETED" <=> logged = "SUCCESS")
    BY <1>7 DEF Recorded
  <2>6. Audited(syncLogs'[e], outbox'[e])
    <3>1. Audited(syncLogs[e], outbox[e]) /\ outbox[e].attempts \in Nat /\ syncLogs[e] \in Seq(SyncStatus)
      BY <1>0, <1>2, <2>1, MaxAttemptsAssumption DEF OutboxRow
    <3>2. Len(syncLogs'[e]) = Len(syncLogs[e]) + 1 /\ Len(syncLogs[e]) \in Nat
      BY <2>4, <3>1
    <3>3. /\ syncLogs'[e][Len(syncLogs[e]) + 1] = logged
          /\ \A n \in 1 .. Len(syncLogs[e]) : syncLogs'[e][n] = syncLogs[e][n]
      BY <2>4, <3>1
    <3>4. \A n \in 1 .. Len(syncLogs[e]) : syncLogs[e][n] # "SUCCESS"
      BY <2>2, <3>1 DEF Audited
    <3>5. Len(syncLogs[e]) + 1 = outbox[e].attempts
      BY <2>2, <3>1, <3>2 DEF Audited
    <3> HIDE DEF e
    <3>. QED  BY <2>3, <2>5, <3>2, <3>3, <3>4, <3>5 DEF Audited
  <2>. QED  BY <1>0, <1>1, <2>3, <2>4, <2>6
<1>. QED
  BY <1>3, <1>4, <1>5, <1>6, <1>7
  DEF OutboxStep, Kept, TakenBy, TakenLost, Called, Dropped, Stopped, untouched

\* Calls never overtake attempts.
LEMMA StepCalls ==
  ASSUME OutboxInv, TypeOK', OutboxStep
  PROVE  (CallsWithinAttempts /\ AbsentIsBlank /\ UncalledInBatch)'
<1> USE DEF OutboxInv
<1> DEFINE Goal == (CallsWithinAttempts /\ AbsentIsBlank /\ UncalledInBatch)'
<1>0. \A e \in Entry : outbox[e].attempts \in Nat /\ calls[e] \in Nat
  BY MaxAttemptsAssumption DEF TypeOK, TablesTypeOK, OutboxRow, WorkerTypeOK
<1> USE DEF CallsWithinAttempts, AbsentIsBlank, UncalledInBatch, Created
<1>1. CASE Kept
  BY <1>1 DEF Kept, untouched
<1>2. ASSUME NEW e \in Entry, Accepted(e) PROVE Goal
  <2>1. PICK i \in Item, p \in Text : outbox' = WithNewEntry(e, i, p)
    BY <1>2 DEF Accepted
  <2>2. outbox'[e].attempts = 0 /\ outbox[e].attempts = 0
    BY <1>2, <2>1 DEF Accepted, WithNewEntry, TypeOK, TablesTypeOK
  <2>3. \A d \in Entry : d # e => outbox'[d] = outbox[d]
    BY <2>1 DEF WithNewEntry, TypeOK, TablesTypeOK
  <2>. QED  BY <1>2, <2>2, <2>3 DEF Accepted, untouched
<1>3. ASSUME NEW e \in Entry, Withdrawn(e) PROVE Goal
  <2>1. \A d \in Entry :
           /\ outbox'[d].attempts = outbox[d].attempts
           /\ d # e => outbox'[d] = outbox[d]
    BY <1>3, EntryStatusEffect DEF Withdrawn
  <2>2. Created(e) /\ outbox'[e].status = "CANCELLED"
    BY <1>3, EntryStatusEffect DEF Withdrawn
  <2>. QED  BY <1>3, <2>1, <2>2 DEF Withdrawn, untouched
<1>4. ASSUME NEW S \in SUBSET Claimable, outbox' = WithClaimed(S)
      PROVE  \A e \in Entry :
                /\ outbox'[e].attempts =
                      IF e \in S THEN outbox[e].attempts + 1 ELSE outbox[e].attempts
                /\ outbox'[e].status = IF e \in S THEN "PROCESSING" ELSE outbox[e].status
  BY <1>4, ClaimedTypes
<1>5. ASSUME NEW w \in Workers, NEW S \in SUBSET Claimable, TakenBy(w, S) PROVE Goal
  <2>1. \A e \in Entry :
           /\ outbox'[e].attempts =
                 IF e \in S THEN outbox[e].attempts + 1 ELSE outbox[e].attempts
           /\ outbox'[e].status = IF e \in S THEN "PROCESSING" ELSE outbox[e].status
    BY <1>4, <1>5 DEF TakenBy
  <2>2. calls' = calls /\ current' = current
    BY <1>5 DEF TakenBy
  <2>3. \A v \in Workers, e \in Entry :
           claimed'[v][e] = IF v = w THEN IF e \in S THEN outbox'[e].attempts ELSE 0
                            ELSE claimed[v][e]
    BY <1>5 DEF TakenBy, TypeOK, WorkerTypeOK
  <2>4. CallsWithinAttempts' /\ AbsentIsBlank'
    BY <1>0, <2>1, <2>2
  <2>5. UncalledInBatch'
    BY <1>0, <2>1, <2>2, <2>3
  <2>. QED  BY <2>4, <2>5
<1>6. ASSUME NEW S \in SUBSET Claimable, TakenLost(S) PROVE Goal
  <2>1. \A e \in Entry :
           /\ outbox'[e].attempts =
                 IF e \in S THEN outbox[e].attempts + 1 ELSE outbox[e].attempts
           /\ outbox'[e].status = IF e \in S THEN "PROCESSING" ELSE outbox[e].status
    BY <1>4, <1>6 DEF TakenLost
  <2>2. calls' = calls /\ current' = current /\ claimed' = claimed
    BY <1>6 DEF TakenLost, untouched
  <2>. QED  BY <1>0, <2>1, <2>2
<1>7. ASSUME NEW w \in Workers, NEW e \in Entry, Called(w, e) PROVE Goal
  <2>1. calls[e] < outbox[e].attempts
    BY <1>7, MaxEntriesAssumption DEF Called, NoEntry, Entry
  <2>2. \A v \in Workers : v # w => claimed[v][e] = 0
    BY <1>7 DEF Called, ClaimExclusive
  <2>3. /\ outbox' = outbox /\ claimed' = claimed
        /\ \A d \in Entry : calls'[d] = IF d = e THEN calls[d] + 1 ELSE calls[d]
        /\ \A v \in Workers : current'[v] = IF v = w THEN e ELSE current[v]
        /\ current[w] = NoEntry
    BY <1>7 DEF Called, TypeOK, WorkerTypeOK
  <2>4. CallsWithinAttempts' /\ AbsentIsBlank'
    BY <1>0, <2>1, <2>3
  <2>5. UncalledInBatch'
    <3> SUFFICES ASSUME NEW v \in Workers, NEW d \in Entry,
                        claimed[v][d] # 0, current'[v] # d
                 PROVE  calls'[d] < outbox[d].attempts
      BY <2>3
    <3>1. d # e
      BY <2>2, <2>3
    <3>2. current[v] # d
      BY <2>3, MaxEntriesAssumption DEF NoEntry, Entry
    <3>. QED  BY <2>3, <3>1, <3>2
  <2>. QED  BY <2>4, <2>5
<1>8. ASSUME NEW w \in Workers, Done(w), calls' = calls,
             \A e \in Entry : /\ outbox'[e].attempts = outbox[e].attempts
                              /\ Created(e) => Created(e)'
      PROVE  Goal
  <2>1. \A v \in Workers, e \in Entry :
           claimed'[v][e] # 0 /\ current'[v] # e => claimed[v][e] # 0 /\ current[v] # e
    BY <1>8, DoneEffect
  <2>. QED  BY <1>8, <2>1
<1>9. ASSUME NEW w \in Workers, NEW logged, NEW status \in OutboxStatus,
             Recorded(w, logged, status)
      PROVE  Goal
  <2>1. \A d \in Entry :
           /\ outbox'[d].attempts = outbox[d].attempts
           /\ outbox'[d].status = IF d = current[w] THEN status ELSE outbox[d].status
    BY <1>9, EntryStatusEffect DEF Recorded
  <2>2. \A d \in Entry : Created(d) => Created(d)'
    BY <2>1 DEF OutboxStatus
  <2>. QED  BY <1>8, <1>9, <2>1, <2>2 DEF Recorded
<1>10. ASSUME NEW w \in Workers, Dropped(w) PROVE Goal
  BY <1>8, <1>10 DEF Dropped
<1>11. ASSUME NEW w \in Workers, Stopped(w) PROVE Goal
  <2>1. \A v \in Workers, e \in Entry :
           /\ claimed'[v][e] = IF v = w THEN 0 ELSE claimed[v][e]
           /\ current'[v] = IF v = w THEN NoEntry ELSE current[v]
    BY <1>11 DEF Stopped, TypeOK, WorkerTypeOK
  <2>. QED  BY <1>11, <2>1 DEF Stopped
<1>. QED
  BY <1>1, <1>2, <1>3, <1>5, <1>6, <1>7, <1>9, <1>10, <1>11 DEF OutboxStep

LEMMA NextOutboxInv == OutboxInv /\ [Next]_vars => OutboxInv'
<1> SUFFICES ASSUME OutboxInv, [Next]_vars PROVE OutboxInv'
  OBVIOUS
<1>1. TypeOK'
  BY NextTypeOK DEF OutboxInv
<1>2. OutboxStep
  BY StepKinds DEF OutboxInv
<1>. QED
  BY <1>1, <1>2, StepPendingIsClaimable, StepClaimExclusive, StepAuditComplete, StepCalls
  DEF OutboxInv

LEMMA OutboxInvariant == Spec => []OutboxInv
BY InitOutboxInv, NextOutboxInv, PTL DEF Spec
-----------------------------------------------------------------------------
\* MarkFailed returns an entry to PENDING only while ClaimPending's test
\* attempts < max_attempts still admits it: no entry waits for ever.
THEOREM PendingClaimable == Spec => []PendingIsClaimable
BY OutboxInvariant, PTL DEF OutboxInv

\* FOR UPDATE SKIP LOCKED and the status test of ClaimPending give each entry
\* to one worker at a time, and nothing but its worker changes it meanwhile,
\* so the updates WHERE id = $1 of ProcessOutboxEntry meet the row claimed.
THEOREM ClaimsExclusive == Spec => []ClaimExclusive
BY OutboxInvariant, PTL DEF OutboxInv

\* ProcessOutboxEntry logs each attempt in the transaction that ends it:
\* sap_sync_logs has one row for each ended attempt, and one SUCCESS at most.
THEOREM AuditTrail == Spec => []AuditComplete
BY OutboxInvariant, PTL DEF OutboxInv

\* The attempt is counted in the claim, before the RFC call, so whatever is
\* lost later SAP is never called more often than attempts says.
THEOREM CallsBounded == Spec => []CallsWithinAttempts
BY OutboxInvariant, PTL DEF OutboxInv
-----------------------------------------------------------------------------
\* A finished entry.
Finished(e) == outbox[e].status \in {"COMPLETED", "FAILED", "CANCELLED"}

LEMMA StepFinished ==
  ASSUME OutboxInv, OutboxStep, NEW d \in Entry, Finished(d)
  PROVE  outbox'[d] = outbox[d]
<1> USE DEF Finished, OutboxInv
<1>1. ASSUME NEW e \in Entry, Accepted(e) PROVE outbox'[d] = outbox[d]
  <2>1. d # e
    BY <1>1 DEF Accepted, Created
  <2>. QED  BY <1>1, <2>1 DEF Accepted, WithNewEntry, TypeOK, TablesTypeOK
<1>2. ASSUME NEW e \in Entry, Withdrawn(e) PROVE outbox'[d] = outbox[d]
  <2>1. d # e
    BY <1>2 DEF Withdrawn
  <2>. QED  BY <1>2, <2>1, EntryStatusEffect DEF Withdrawn
<1>3. ASSUME NEW S \in SUBSET Claimable, outbox' = WithClaimed(S)
      PROVE  outbox'[d] = outbox[d]
  <2>1. d \notin S
    BY DEF Claimable
  <2>. QED  BY <1>3, <2>1 DEF WithClaimed
<1>4. ASSUME NEW w \in Workers, NEW logged, NEW status, Recorded(w, logged, status)
      PROVE  outbox'[d] = outbox[d]
  <2>1. current[w] \in Entry /\ outbox' = WithEntryStatus(current[w], status)
    BY <1>4 DEF Recorded
  <2>2. claimed[w][current[w]] # 0
    BY <2>1, MaxEntriesAssumption DEF TypeOK, WorkerTypeOK, NoEntry, Entry
  <2>3. d # current[w]
    BY <2>1, <2>2 DEF ClaimExclusive
  <2>. QED  BY <2>1, <2>3, EntryStatusEffect
<1>. QED
  BY <1>1, <1>2, <1>3, <1>4
  DEF OutboxStep, Kept, TakenBy, TakenLost, Called, Dropped, Stopped

\* COMPLETED, FAILED and CANCELLED are final though every write of an entry's
\* status but the cancel's names the row by id alone: a late worker finds the
\* entry as it claimed it, for only a PENDING entry can be cancelled.
THEOREM TerminalFinal == Spec => TerminalEntriesFinal
<1>1. OutboxInv /\ [Next]_vars =>
        [\A e \in Entry :
            outbox[e].status \in {"COMPLETED", "FAILED", "CANCELLED"} =>
                outbox'[e] = outbox[e]]_vars
  BY StepKinds, StepFinished DEF OutboxInv, Finished
<1>. QED
  BY <1>1, OutboxInvariant, PTL DEF Spec, TerminalEntriesFinal
-----------------------------------------------------------------------------
\* What leaves a PROCESSING entry to nobody: of the steps, those of a fault.
LEMMA StepHeld ==
  ASSUME OutboxInv, ProcessingIsHeld, OutboxStep, Faults = FALSE, TypeOK'
  PROVE  ProcessingIsHeld'
<1> USE DEF OutboxInv, ProcessingIsHeld
<1>1. ASSUME UNCHANGED <<outbox, claimed>> PROVE ProcessingIsHeld'
  BY <1>1
<1>2. ASSUME NEW e \in Entry, Accepted(e) PROVE ProcessingIsHeld'
  <2>1. \A d \in Entry : outbox'[d].status = "PENDING" \/ outbox'[d] = outbox[d]
    BY <1>2 DEF Accepted, WithNewEntry, TypeOK, TablesTypeOK
  <2>. QED  BY <1>2, <2>1 DEF Accepted, untouched
<1>3. ASSUME NEW e \in Entry, Withdrawn(e) PROVE ProcessingIsHeld'
  <2>1. \A d \in Entry : outbox'[d].status \in {"CANCELLED", outbox[d].status}
    BY <1>3, EntryStatusEffect DEF Withdrawn
  <2>. QED  BY <1>3, <2>1 DEF Withdrawn, untouched
<1>4. ASSUME NEW w \in Workers, NEW S \in SUBSET Claimable, TakenBy(w, S)
      PROVE  ProcessingIsHeld'
  <2>1. \A e \in Entry :
           /\ outbox'[e].attempts =
                 IF e \in S THEN outbox[e].attempts + 1 ELSE outbox[e].attempts
           /\ outbox'[e].status = IF e \in S THEN "PROCESSING" ELSE outbox[e].status
    BY <1>4, ClaimedTypes DEF TakenBy
  <2>2. \A v \in Workers, e \in Entry :
           claimed'[v][e] = IF v = w THEN IF e \in S THEN outbox'[e].attempts ELSE 0
                            ELSE claimed[v][e]
    BY <1>4 DEF TakenBy, TypeOK, WorkerTypeOK
  <2>3. \A e \in Entry : claimed[w][e] = 0 /\ outbox[e].attempts \in Nat
    BY <1>4, MaxAttemptsAssumption
    DEF TakenBy, Waiting, Batch, TypeOK, TablesTypeOK, OutboxRow
  <2>4. SUFFICES ASSUME NEW e \in Entry, outbox'[e].status = "PROCESSING"
                 PROVE  \E v \in Workers : claimed'[v][e] # 0
    OBVIOUS
  <2>5. CASE e \in S
    <3>1. claimed'[w][e] # 0
      BY <2>1, <2>2, <2>3, <2>5
    <3>. QED  BY <3>1
  <2>6. CASE e \notin S
    <3>1. PICK v \in Workers : claimed[v][e] # 0
      BY <2>1, <2>4, <2>6
    <3>2. v # w
      BY <2>3, <3>1
    <3>. QED  BY <2>2, <3>1, <3>2
  <2>. QED  BY <2>5, <2>6
<1>5. ASSUME NEW w \in Workers, NEW logged, NEW status, Recorded(w, logged, status)
      PROVE  ProcessingIsHeld'
  <2>1. current[w] \in Entry /\ outbox' = WithEntryStatus(current[w], status) /\ Done(w)
        /\ status # "PROCESSING"
    BY <1>5 DEF Recorded
  <2>2. \A e \in Entry :
           outbox'[e].status = IF e = current[w] THEN status ELSE outbox[e].status
    BY <2>1, EntryStatusEffect
  <2>3. \A v \in Workers, e \in Entry : e # current[w] => claimed'[v][e] = claimed[v][e]
    BY <2>1, DoneEffect
  <2>. QED  BY <2>1, <2>2, <2>3
<1>. QED
  BY <1>1, <1>2, <1>3, <1>4, <1>5
  DEF OutboxStep, Kept, TakenLost, Called, Dropped, Stopped, untouched

\* The README's "em processamento pelo worker" is true as long as nothing fails:
\* only a lost claim, a recording that fails and a process that stops leave an
\* entry PROCESSING with no worker, so these are what a repair has to undo.
THEOREM HeldUnlessFault ==
  ASSUME Faults = FALSE
  PROVE  Spec => []ProcessingIsHeld
<1>1. Init => ProcessingIsHeld
  BY DEF Init, TablesInit, NoRow, ProcessingIsHeld
<1>2. OutboxInv /\ OutboxInv' /\ ProcessingIsHeld /\ [Next]_vars => ProcessingIsHeld'
  BY StepKinds, StepHeld DEF OutboxInv
<1>. QED  BY <1>1, <1>2, OutboxInvariant, PTL DEF Spec
-----------------------------------------------------------------------------
(* The service implements DeliveryContract: the initial states map to its   *)
(* initial state, and each kind of step maps to one of its actions or       *)
(* leaves its variables alone.                                              *)

\* The mapping, status by status.
PhaseOf(status) ==
    CASE status = "ABSENT"     -> "none"
      [] status = "PENDING"    -> "waiting"
      [] status = "PROCESSING" -> "trying"
      [] status = "COMPLETED"  -> "delivered"
      [] status = "FAILED"     -> "given_up"
      [] status = "CANCELLED"  -> "withdrawn"

tries == [e \in Entry |-> outbox[e].attempts]

LEMMA Phases ==
  /\ PhaseOf("ABSENT") = "none"
  /\ PhaseOf("PENDING") = "waiting"
  /\ PhaseOf("PROCESSING") = "trying"
  /\ PhaseOf("COMPLETED") = "delivered"
  /\ PhaseOf("FAILED") = "given_up"
  /\ PhaseOf("CANCELLED") = "withdrawn"
BY DEF PhaseOf

LEMMA PhaseDef ==
  /\ phase = [e \in Entry |-> PhaseOf(outbox[e].status)]
  /\ phase' = [e \in Entry |-> PhaseOf(outbox'[e].status)]
BY DEF phase, PhaseOf

LEMMA TriesDef ==
  /\ tries = [e \in Entry |-> outbox[e].attempts]
  /\ tries' = [e \in Entry |-> outbox'[e].attempts]
BY DEF tries

\* A step that changes the status of one entry and no attempts.
LEMMA OneEntry ==
  ASSUME NEW e \in Entry, NEW p,
         \A d \in Entry : outbox'[d].attempts = outbox[d].attempts,
         \A d \in Entry : d # e => outbox'[d].status = outbox[d].status,
         PhaseOf(outbox'[e].status) = p
  PROVE  /\ phase' = [phase EXCEPT ![e] = p]
         /\ tries' = tries
<1>1. \A d \in Entry : PhaseOf(outbox'[d].status) =
                          IF d = e THEN p ELSE PhaseOf(outbox[d].status)
  OBVIOUS
<1>2. phase' = [d \in Entry |-> IF d = e THEN p ELSE PhaseOf(outbox[d].status)]
  BY <1>1, PhaseDef
<1>3. [phase EXCEPT ![e] = p] =
         [d \in Entry |-> IF d = e THEN p ELSE PhaseOf(outbox[d].status)]
  BY PhaseDef
<1>4. tries' = tries
  BY TriesDef
<1>. QED  BY <1>2, <1>3, <1>4

LEMMA StepContract ==
  ASSUME OutboxInv, TypeOK', OutboxStep
  PROVE  Contract!Next \/ UNCHANGED <<phase, tries, syncLogs>>
<1> USE DEF OutboxInv
<1>1. ASSUME outbox' = outbox, syncLogs' = syncLogs
      PROVE  UNCHANGED <<phase, tries, syncLogs>>
  BY <1>1, PhaseDef, TriesDef
<1>2. ASSUME NEW e \in Entry, Accepted(e) PROVE Contract!Next
  <2>1. PICK i \in Item, p \in Text : outbox' = WithNewEntry(e, i, p)
    BY <1>2 DEF Accepted
  <2>2. /\ outbox[e].status = "ABSENT" /\ outbox[e].attempts = 0
        /\ outbox'[e].status = "PENDING" /\ outbox'[e].attempts = 0
        /\ \A d \in Entry : d # e => outbox'[d] = outbox[d]
    BY <1>2, <2>1 DEF Accepted, Created, AbsentIsBlank, WithNewEntry, TypeOK, TablesTypeOK
  <2>3. phase' = [phase EXCEPT ![e] = "waiting"] /\ tries' = tries
    BY <2>2, Phases, OneEntry
  <2>4. phase[e] = "none"
    BY <2>2, Phases, PhaseDef
  <2>5. syncLogs' = syncLogs
    BY <1>2 DEF Accepted, untouched
  <2>6. Contract!Accept(e)
    BY <2>3, <2>4, <2>5 DEF Contract!Accept, tries
  <2>. QED  BY <2>6 DEF Contract!Next
<1>3. ASSUME NEW e \in Entry, Withdrawn(e) PROVE Contract!Next
  <2>1. /\ outbox[e].status = "PENDING" /\ outbox'[e].status = "CANCELLED"
        /\ \A d \in Entry : outbox'[d].attempts = outbox[d].attempts
        /\ \A d \in Entry : d # e => outbox'[d].status = outbox[d].status
    BY <1>3, EntryStatusEffect DEF Withdrawn
  <2>2. phase' = [phase EXCEPT ![e] = "withdrawn"] /\ tries' = tries
    BY <2>1, Phases, OneEntry
  <2>3. phase[e] = "waiting"
    BY <2>1, Phases, PhaseDef
  <2>4. syncLogs' = syncLogs
    BY <1>3 DEF Withdrawn, untouched
  <2>5. Contract!Withdraw(e)
    BY <2>2, <2>3, <2>4 DEF Contract!Withdraw, tries
  <2>. QED  BY <2>5 DEF Contract!Next
<1>4. ASSUME NEW S \in SUBSET Claimable, outbox' = WithClaimed(S), syncLogs' = syncLogs
      PROVE  Contract!Next
  <2>1. \A e \in Entry :
           /\ outbox'[e].attempts = IF e \in S THEN outbox[e].attempts + 1 ELSE outbox[e].attempts
           /\ outbox'[e].status = IF e \in S THEN "PROCESSING" ELSE outbox[e].status
    BY <1>4, ClaimedTypes
  <2>2. S \in SUBSET Entry /\ \A e \in S : outbox[e].status = "PENDING" /\ outbox[e].attempts < MaxAttempts
    BY DEF Claimable
  <2>3. \A e \in S : phase[e] = "waiting" /\ tries[e] < MaxAttempts
    BY <2>2, Phases, PhaseDef, TriesDef
  <2>4. phase' = [e \in Entry |-> IF e \in S THEN "trying" ELSE phase[e]]
    BY <2>1, Phases, PhaseDef
  <2>5. tries' = [e \in Entry |-> IF e \in S THEN tries[e] + 1 ELSE tries[e]]
    BY <2>1, TriesDef
  <2>6. Contract!Attempt(S)
    BY <1>4, <2>3, <2>4, <2>5 DEF Contract!Attempt, tries
  <2>. QED  BY <2>2, <2>6 DEF Contract!Next
<1>5. ASSUME NEW w \in Workers, NEW logged \in SyncStatus, NEW status,
             Recorded(w, logged, status)
      PROVE  Contract!Next
  <2> DEFINE e == current[w]
  <2>1. /\ e \in Entry /\ outbox' = WithEntryStatus(e, status)
        /\ syncLogs' = [syncLogs EXCEPT ![e] = Append(@, logged)]
    BY <1>5 DEF Recorded, Log
  <2>2. outbox[e].status = "PROCESSING" /\ outbox[e].attempts = claimed[w][e]
    <3>1. claimed[w][e] # 0
      BY <2>1, MaxEntriesAssumption DEF TypeOK, WorkerTypeOK, NoEntry, Entry
    <3>. QED  BY <2>1, <3>1 DEF ClaimExclusive
  <2>3. /\ \A d \in Entry : outbox'[d].attempts = outbox[d].attempts
        /\ outbox'[e].status = status
        /\ \A d \in Entry : d # e => outbox'[d].status = outbox[d].status
    BY <2>1, EntryStatusEffect
  <2>4. phase' = [phase EXCEPT ![e] = PhaseOf(status)] /\ tries' = tries
    BY <2>1, <2>3, OneEntry
  <2>5. phase[e] = "trying" /\ tries[e] = outbox[e].attempts
    BY <2>1, <2>2, Phases, PhaseDef, TriesDef
  <2>6. CASE logged = "SUCCESS"
    <3>1. PhaseOf(status) = "delivered"
      BY <1>5, <2>6, Phases DEF Recorded
    <3>2. Contract!Succeed(e)
      BY <2>1, <2>4, <2>5, <2>6, <3>1 DEF Contract!Succeed, tries
    <3>. QED  BY <2>1, <3>2 DEF Contract!Next
  <2>7. CASE logged = "FAILED"
    <3>1. status = IF tries[e] < MaxAttempts THEN "PENDING" ELSE "FAILED"
      BY <1>5, <2>2, <2>5, <2>7 DEF Recorded, Retry
    <3>2. PhaseOf(status) = IF tries[e] < MaxAttempts THEN "waiting" ELSE "given_up"
      BY <3>1, Phases
    <3>3. Contract!Fail(e)
      BY <2>1, <2>4, <2>5, <2>7, <3>2 DEF Contract!Fail, tries
    <3>. QED  BY <2>1, <3>3 DEF Contract!Next
  <2>. QED  BY <2>6, <2>7 DEF SyncStatus
<1>. QED
  BY <1>1, <1>2, <1>3, <1>4, <1>5
  DEF OutboxStep, Kept, TakenBy, TakenLost, Called, Dropped, Stopped, untouched

LEMMA InitContract == Init => Contract!Init
<1> SUFFICES ASSUME Init PROVE Contract!Init
  OBVIOUS
<1>1. \A e \in Entry : outbox[e].status = "ABSENT" /\ outbox[e].attempts = 0
  BY DEF Init, TablesInit, NoRow
<1>2. phase = [e \in Entry |-> "none"]
  BY <1>1, Phases, PhaseDef
<1>3. [e \in Entry |-> outbox[e].attempts] = [e \in Entry |-> 0]
  BY <1>1
<1>4. syncLogs = [e \in Entry |-> << >>]
  BY DEF Init, TablesInit
<1>. QED  BY <1>2, <1>3, <1>4 DEF Contract!Init

\* Whatever clients, workers, lost claims, failed transactions and crashes do,
\* an accepted entry is delivered, withdrawn while it waits, or given up after
\* exactly max_attempts failed attempts, with one verdict for each attempt.
THEOREM RefinesContract == Spec => ImplementsContract
<1>1. OutboxInv /\ [Next]_vars => [Contract!Next]_Contract!vars
  <2> SUFFICES ASSUME OutboxInv, [Next]_vars PROVE [Contract!Next]_Contract!vars
    OBVIOUS
  <2>1. TypeOK'
    BY NextTypeOK DEF OutboxInv
  <2>2. OutboxStep
    BY StepKinds DEF OutboxInv
  <2>. QED  BY <2>1, <2>2, StepContract DEF Contract!vars, tries
<1>. QED
  BY <1>1, InitContract, OutboxInvariant, PTL DEF Spec, ImplementsContract, Contract!Spec
=============================================================================
