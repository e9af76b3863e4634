------------------------------ MODULE OutboxWorker ------------------------------
(***************************************************************************)
(* The outbox worker: processBatch of internal/worker/outbox_worker.go and *)
(* the ProcessOutboxEntry it calls, with the SAP system behind sap.Client. *)
(*                                                                         *)
(* A process runs one worker goroutine; several members of Workers are     *)
(* several processes on one database, for instance during a rolling        *)
(* restart.  A worker claims a batch in one statement, then for each entry *)
(* makes the RFC call and records its outcome in one transaction.  The     *)
(* batch comes back in no particular order (RETURNING), and the worker     *)
(* keeps the rows as they were when claimed.                               *)
(***************************************************************************)
EXTENDS Tables

CONSTANTS
    Workers,    \* worker processes
    BatchSize,  \* entries claimed at once, 10 in the code
    Faults      \* whether statements fail and processes stop

ASSUME BatchSizeAssumption == BatchSize \in Nat \ {0}
ASSUME FaultsAssumption    == Faults \in BOOLEAN

VARIABLES
    claimed,  \* attempts of each entry in the worker's batch, 0 outside it
    current,  \* the entry whose RFC call has been made
    answer,   \* what the call returned
    calls,    \* how many RFC calls were made for an entry
    sap       \* the entry whose text SAP last took for an item

workerVars == <<claimed, current, answer>>
sapVars    == <<calls, sap>>

Answer == {"none", "accepted", "rejected", "error"}

WorkerInit ==
    /\ claimed = [w \in Workers |-> [e \in Entry |-> 0]]
    /\ current = [w \in Workers |-> NoEntry]
    /\ answer = [w \in Workers |-> "none"]
    /\ calls = [e \in Entry |-> 0]
    /\ sap = [i \in Item |-> NoEntry]

WorkerTypeOK ==
    /\ claimed \in [Workers -> [Entry -> 0 .. MaxAttempts]]
    /\ current \in [Workers -> EntryRef]
    /\ answer \in [Workers -> Answer]
    /\ calls \in [Entry -> Nat]
    /\ sap \in [Item -> EntryRef]
    /\ \A w \in Workers : answer[w] # "none" => current[w] \in Entry
    /\ \A w \in Workers : current[w] # NoEntry => claimed[w][current[w]] # 0
    /\ \A w \in Workers, e \in Entry : claimed[w][e] # 0 => Created(e)

Batch(w) == {e \in Entry : claimed[w][e] # 0}

\* Between batches the goroutine waits for the next tick.
Waiting(w) == Batch(w) = {}

\* The worker goes on with the next entry of its batch.
Done(w) ==
    /\ claimed' = [claimed EXCEPT ![w][current[w]] = 0]
    /\ current' = [current EXCEPT ![w] = NoEntry]
    /\ answer' = [answer EXCEPT ![w] = "none"]
-----------------------------------------------------------------------------
\* A tick: claim the oldest claimable entries.  Rows another transaction has
\* locked are skipped before the limit is counted.
ClaimPending(w, locked) ==
    /\ Waiting(w)
    /\ LET S == Oldest(Claimable \ locked, BatchSize)
       IN  /\ S # {}
           /\ outbox' = WithClaimed(S)
           /\ claimed' = [claimed EXCEPT ![w] =
                             [e \in Entry |-> IF e \in S THEN outbox'[e].attempts ELSE 0]]
    /\ UNCHANGED <<orders, items, syncLogs, newestLog, current, answer, sapVars>>

\* The claim commits but its rows do not all reach the worker (the connection
\* is lost, a row does not scan, the process stops): processBatch gives up.
ClaimLost(w, locked) ==
    /\ Faults /\ Waiting(w)
    /\ LET S == Oldest(Claimable \ locked, BatchSize)
       IN  S # {} /\ outbox' = WithClaimed(S)
    /\ UNCHANGED <<orders, items, syncLogs, newestLog, workerVars, sapVars>>

\* A variant with a defect, for mutation runs only: an entry whose call failed
\* is called again at once.
CallSAPTwice(w, e, outcome, applied) ==
    /\ claimed[w][e] # 0 /\ current[w] = NoEntry
    /\ current' = [current EXCEPT ![w] = e]
    /\ answer' = [answer EXCEPT ![w] = outcome]
    /\ calls' = [calls EXCEPT ![e] = @ + (IF outcome = "error" THEN 2 ELSE 1)]
    /\ sap' = IF applied THEN [sap EXCEPT ![outbox[e].item] = e] ELSE sap
    /\ UNCHANGED <<tables, claimed>>

\* The RFC call for an entry of the batch.  SAP applies a demand update it
\* accepts and none it rejects; after an error nobody knows.
CallSAP(w, e, outcome, applied) ==
    /\ claimed[w][e] # 0 /\ current[w] = NoEntry
    /\ outcome = "accepted" => applied
    /\ outcome = "rejected" => ~applied
    /\ current' = [current EXCEPT ![w] = e]
    /\ answer' = [answer EXCEPT ![w] = outcome]
    /\ calls' = [calls EXCEPT ![e] = @ + 1]
    /\ sap' = IF applied THEN [sap EXCEPT ![outbox[e].item] = e] ELSE sap
    /\ UNCHANGED <<tables, claimed>>
-----------------------------------------------------------------------------
\* A variant with a defect, for mutation runs only: no log row.
RecordUnlogged(w, logged, itemStatus, newOutbox) ==
    /\ items' = WithItemStatus(outbox[current[w]].item, itemStatus)
    /\ outbox' = newOutbox
    /\ Done(w)
    /\ UNCHANGED <<orders, syncLogs, newestLog, sapVars>>

\* The transaction that records the outcome: the log row, the item's status
\* and the entry's.  Its statements name the rows by id only.
Record(w, logged, itemStatus, newOutbox) ==
    LET e == current[w]
    IN  /\ syncLogs' = Log(e, logged)
        /\ newestLog' = NewestLog(e)
        /\ items' = WithItemStatus(outbox[e].item, itemStatus)
        /\ outbox' = newOutbox
        /\ Done(w)
        /\ UNCHANGED <<orders, sapVars>>

\* entry.Attempts < entry.MaxAttempts, on the row held since the claim.
\* (RetryUpToMax is a variant with a defect, for mutation runs only.)
RetryUpToMax(w) == claimed[w][current[w]] <= MaxAttempts

Retry(w) == claimed[w][current[w]] < MaxAttempts

RecordAccepted(w) ==
    /\ answer[w] = "accepted"
    /\ Record(w, "SUCCESS", "SYNCED", MarkCompleted(current[w]))

\* SAP's refusal: the item is FAILED whether or not the entry is tried again.
RecordRejected(w) ==
    /\ answer[w] = "rejected"
    /\ Record(w, "FAILED", "FAILED", MarkFailed(current[w], Retry(w)))

\* handleSyncFailure: the item is FAILED only when the entry gives up.
RecordError(w) ==
    /\ answer[w] = "error"
    /\ Record(w, "FAILED", IF Retry(w) THEN "UPDATED" ELSE "FAILED",
              MarkFailed(current[w], Retry(w)))

\* A variant with a defect, for mutation runs only: the item's update was
\* committed before the transaction failed.
RecordFailsTorn(w) ==
    /\ Faults /\ answer[w] # "none"
    /\ items' = WithItemStatus(outbox[current[w]].item,
                              IF answer[w] = "accepted" THEN "SYNCED" ELSE "FAILED")
    /\ Done(w)
    /\ UNCHANGED <<orders, outbox, syncLogs, newestLog, sapVars>>

\* The transaction fails: processBatch logs the error and goes on, and the
\* entry stays PROCESSING.
RecordFails(w) ==
    /\ Faults /\ answer[w] # "none"
    /\ Done(w)
    /\ UNCHANGED <<tables, sapVars>>

\* The process stops, or shuts down (the context is cancelled and the worker
\* is not awaited): its batch is forgotten.
Crash(w) ==
    /\ Faults /\ ~Waiting(w)
    /\ claimed' = [claimed EXCEPT ![w] = [e \in Entry |-> 0]]
    /\ current' = [current EXCEPT ![w] = NoEntry]
    /\ answer' = [answer EXCEPT ![w] = "none"]
    /\ UNCHANGED <<tables, sapVars>>
=============================================================================
