# sap-orders-api in TLA+

Specifications, TLC runs and TLAPS proofs for the order API in `src/`: clients
edit orders and their items over HTTP, and an outbox in PostgreSQL carries
demand updates to SAP.

Run a configuration with `tlc -config sync_races.cfg MCOverlaps` (`PROJECT.json`
names the module of each run) and the proofs with `tlapm Outbox_proofs.tla`.

## The system

| Part | Code | State | Operations | Modelled in |
|---|---|---|---|---|
| Status rules | `internal/domain` | none | `CanTransitionTo`, `AllItemsTerminal`, `CanSync`, `ShouldPromoteOnEdit` | `StatusRules` |
| Tables, repositories | `internal/repository`, `migrations` | `orders`, `order_items`, `sap_outbox`, `sap_sync_logs` | one SQL statement each; `WithTransaction` joins several | `Tables`, `Transactions` |
| Order service | `internal/service/order_service.go` | what a handler holds between statements | `CreateOrder`, `UpdateOrder`, `AddItem`, `UpdateItem`, `ListOrders` | `OrderService`, `Listing` |
| Sync service | `internal/service/sync_service.go` | the same | `EnqueueSync`, `CancelSync`, `GetSyncStatus`, `GetLatestSyncStatus`, `ProcessOutboxEntry` | `SyncService`, `OutboxWorker`, `Transactions` |
| Outbox worker | `internal/worker`, `cmd/server/main.go` | the batch in memory | tick, claim, call, record; shutdown | `OutboxWorker` |
| SAP | `internal/sap` (`Client`, stub) | the demand data SAP holds (external) | `SyncDemandUpdate` | `OutboxWorker` (`CallSAP`) |
| HTTP handlers | `internal/handler` | none | decode, call the service, map the error to a code | `Server`; `Listing` for `GET /orders`; the table of codes: no |
| Pagination | `internal/domain/pagination.go`, `orderRepository.List` | none | count, offset, page, `totalPages` | `Listing` |
| Authentication | `internal/auth` | none | token to claims, scopes by role, scope of each route | `Access`, `Server` |
| Configuration, process life | `internal/config`, `cmd/server/main.go` | read at start | `Load`, `buildAuthenticator`, listen, shut down | `Access`, `Server` |
| Transport middleware | `internal/auth/security.go`, `internal/handler/body_limit.go` | none | headers, redirect, rate and body limits | no |
| Health, OpenAPI, Swagger | `internal/handler`, `internal/openapi` | none | static answers, a ping | no |

How they interact. Handlers run concurrently, one goroutine a request, and
share nothing but the database. The worker is one goroutine a process; during a
rolling restart two processes run on one database. `EnqueueSync` hands an item
to the worker through a `sap_outbox` row, and the worker answers by writing the
item's status, the row's status and a log row.

What is hard about it:

* **Checks and writes in different statements.** No order handler opens a
  transaction, and `EnqueueSync` opens one after its checks. Every write names
  its row by id alone, except `ClaimPending` and `Cancel`.
* **Whole rows written back.** `itemRepository.Update` reads a row, merges the
  request into it and writes both columns and the status.
* **Claim, call, record.** The claim commits before the RFC call, the outcome
  after it. A lost result set, a failed transaction or a stop may fall between.
* **Locks in opposite orders.** The recording locks the item's row before the
  entry's, `CancelSync` the entry's before the item's.
* **Retries.** An RFC error does not say whether SAP applied the update.
  `attempts` is counted at the claim and compared after the call.
* **Pages of a table that changes.** The count and the page are two statements,
  and a walk over the pages many requests.
* **Shutdown.** `main` cancels the context and does not wait for the worker.

What makes each part correct: statuses are never invented, orders start only
with items and edits are not lost (order service); an entry is queued once,
never for an unedited item, and a requeue and its entry commit together (sync
service); transactions are all or nothing and never wait for each other for
ever (repositories); an entry belongs to one worker at a time, has a verdict
for each attempt, comes to an end, and a finished one stays finished (outbox);
SAP receives an item's updates in order and at most `max_attempts` times each,
and SYNCED means that it holds them (worker and SAP); a walk over the pages
misses nothing, and rows carry the name of somebody who may write (HTTP). The hazards in `PROJECT.json` give the line for
each.

## The modules

* `StatusRules` — the enumerations and the pure rules. The code passes items;
  the rules read only their statuses, so the operators take the set of statuses.
* `Tables` — the tables as variables, and the statements as operators on them.
* `OrderService` — each handler as one action per statement. `oreq[c]` is the
  handler client `c` waits for: its program counter and the values it holds.
* `SyncService` — the same for the sync requests, in `sreq[c]`. The enqueue and
  cancel transactions are one action each.
* `OutboxWorker` — `claimed[w]` is the batch slice (the attempts of each entry
  as it was claimed), `current[w]` and `answer[w]` the call in hand. `calls` and
  `sap` are what SAP has seen.
* `Backend` — the composition, `Next` and the properties.
* `DeliveryContract` — the abstract specification of the outbox: an accepted
  entry is delivered, withdrawn while it waits, or given up after exactly
  `MaxTries` failed attempts, with one verdict an attempt. `Backend` implements
  it under `phase`, `attempts` and `syncLogs` (`ImplementsContract`).
* `Transactions` — `Backend` with the three transactions taken apart. `tx[p]`
  is the transaction a client or worker has open: the row versions it has
  written, which are locked until it ends. The tables stay the committed rows.
  It implements `Backend` (`ImplementsBackend`: the tables map to themselves),
  and holds the fairness and the liveness property.
* `Overlaps` — `Backend` with a history of the requests that met in the window
  between a read and the write that relies on it: items two enqueues were about
  to insert for at once (`raced`), items added behind the close of their order
  (`late`), orders left OPEN with an item (`torn`).
* `SyncHonesty` — `Transactions` with that history and one of the edits that
  overlap a sync or each other, which says when SYNCED and the text can be
  relied on.
* `Listing` — `GET /orders`: parameters, count, page and the client's walk.
* `Access` — tables of the HTTP layer: identity and scopes of a token, scope of
  each route, environments.
* `Server` — the process: start, requests through the middleware, shutdown.
  A call that writes orders is one action, known by what it may leave of them;
  `Listing` is composed with it.
* `DocClaims` — what the README, the error texts and the tests say and the code
  does not keep.
* `MCBackend`, `MCOverlaps`, `MCTransactions`, `MCHonesty`, `MCServer` — constants
  for TLC.
* `*_proofs` — the proofs, below.

| Code | Actions |
|---|---|
| `CreateOrder` | `CreateOrder` |
| `UpdateOrder` | `UpdateOrder`, `UpdateOrderListItems`, `UpdateOrderWrite` |
| `AddItem` | `AddItem`, `AddItemInsert`, `AddItemPromote` |
| `UpdateItem` and `itemRepository.Update` | `UpdateItem`, `UpdateItemRead`, `UpdateItemCurrent`, `UpdateItemWrite` |
| `EnqueueSync` | `EnqueueSync`, `EnqueueItem`, `EnqueueActive`, `EnqueueCommit`; in `Transactions` the last is `EnqueueRequeue`, `EnqueueInsert` |
| `CancelSync` | `CancelSync`, then `CancelCommit`, or `CancelRefused` and `CancelReread`; in `Transactions` the commit is `CancelWithdraw`, `CancelResetItem`, `CancelEnd` |
| `GetSyncStatus`, `GetLatestSyncStatus` | the same names, `StatusLogs`, `StatusAnswer` |
| `processBatch` | `ClaimPending` or `ClaimLost`, then for each entry `CallSAP` and one of `RecordAccepted`, `RecordRejected`, `RecordError`, `RecordFails`; in `Transactions` the first three are `RecordLog`, `RecordItem`, `RecordEntry`, `RecordEnd` |
| `WithTransaction` | `Close` at a commit, `Rollback` at an error |
| worker stopped, process crash | `Crash` |
| error returns between statements | `OrderAbort`, `SyncAbort` |
| `OrderHandler.List`, `ListOrders`, `orderRepository.List` | `ListOrders`, `ListCount`, `ListSelect`, `ListAnswer`, `ListEnd` |
| the handlers that write orders, behind the middleware | `Request` in `Server` |
| `main` | `Start`, `Stop`, `Exit` |

Some modules also hold operators commented as variants with a defect. They are
used by no specification; each is a plausible bug that can be put in the place
of the operator after it to see that a property notices.

### Abstractions

* An item stands for its pair of order and demand code, which is UNIQUE; items
  are never deleted. A text is the two columns a client can edit, description
  and delivery date; a request may give either or both.
* The XML's Status element is left out: the payload is the text it was built of.
* A delivery date in the past is an early return that may or may not be taken:
  a request that never starts, or an abort.
* Transactions are one action each in `Backend`. `Transactions` takes them
  apart, and a theorem says that nothing is lost by reading them as one.
* In `Transactions` a statement sees committed rows, an UPDATE waits for the
  lock of its row, and a lock is held to the end of the transaction. The last
  statement of a transaction and its commit are one action where the statement
  can neither wait nor be seen (`EnqueueInsert`; the reads before
  `CancelEnd` and `RecordEnd` change nothing).
* `created_at` and `synced_at` are `NOW()`, the start of the transaction.
  Entries and log rows are numbered when they are committed instead, so two
  transactions that overlap cannot be stamped the other way round. Orders are
  numbered too: the tie-break `ORDER BY created_at` lacks.
* `SKIP LOCKED`: in `Backend` it may skip the rows of any subset of the cancels
  in flight, in `Transactions` exactly the rows they have locked.
* `RETURNING` gives no order, so a worker takes its batch in any order.
* SAP applies what it accepts, nothing it rejects, and after an error either.
* A run starts empty, or with an order in progress whose items were edited: a
  state that `POST /orders`, `POST .../items` and an edit lead to.
* In `Server` a call that writes orders may leave any status, for it was
  checked against an older row; the calls that write none are no steps, and the
  codes of the answers are left out. Whether a token's signature and registered
  claims pass is a field of the token.
* Bounds: `MaxEntries` caps the outbox rows ever created (an enqueue at the
  bound can only abort), `MaxOrders` the orders, `Width` is the bits of Go's
  `int`. `MaxAttempts` is 3 in the code, `BatchSize` 10, `DefaultLimit` 20 and
  `MaxLimit` 100.

## What TLC checks

Deadlock is checked in every run but `server`, whose process ends.

| Run | Instance | Properties |
|---|---|---|
| `sync_races` | one item, 3 entries, 2 sync clients, 2 workers with batches of 2, 2 attempts, all faults | `PendingIsClaimable`, `ClaimExclusive`, `AuditComplete`, `CallsWithinAttempts`, `OneActiveUnlessRaced`, `TerminalEntriesFinal`, `NoSilentReset`, `ImplementsContract`, `DeliveriesInOrder` |
| `orders_races` | empty database, two items with one entry between them, 2 order clients with every request, a sync client, a worker, 2 attempts, all faults | `TypeOK`, `NonOpenOrderHasItems`, `PendingItemUntouched`, `TerminalItemHasEvidence`, `FinishedStatusHasLog`, `ClosedOrderSettled`, `OpenOrderIsEmpty`, `LegalOrderSteps` |
| `settles` | transactions taken apart: one item, 2 entries, 2 sync clients, one worker, 2 attempts, all faults, fairness | `TxTypeOK`, `NoWaitCycle`, `RefusedWasTaken`, `ImplementsBackend`, `EventuallySettled` |
| `honesty` | transactions taken apart: one item, one entry, 2 clients that edit one column each, a sync client that enqueues and cancels, a worker, 2 attempts, all faults | `SyncedIsSent`, `EditsAddUp` |
| `server` | every environment, 3 orders, pages of 1 and 2, a lister, 5 tokens | `WalkComplete`, `TotalsHold`, `AudienceIsKnown`, `CreatedByWriter` |

What the runs show:

* `sync_races`: the outbox keeps its contract even when two entries of one item
  are active. That takes two enqueues between check and insert at the same
  moment; nothing else, and no order of retries, cancels and crashes, makes a
  second active entry or sends the entries of an item out of order.
* `orders_races`: whatever two clients do statement by statement, no status is
  made up. A stale write can put an order back, but only to what was legal from
  the status its handler has read; an order that closes, or closes again, has
  only settled items, but for one inserted behind the close; and an OPEN order
  with an item is one whose promotion comes, failed, or was overtaken.
* `settles`: the statements of the transactions interleave without a state in
  between being seen, without a deadlock, and every accepted entry ends.
* `honesty`: the status SYNCED can be trusted, and edits are not lost, exactly
  up to the overlaps the history names. Each exception of SYNCED is a way it
  really fails, with a run of its own: an item written between the read its XML
  was built of and the end of the entry (`doc_synced_text`), an edit that writes
  back a SYNCED it has not decided on (`doc_edit_promotes`), two enqueues at
  once (`doc_one_active`). Two edits of an item at once lose a column.
* `server`: a client that walks the pages misses no order that was there when
  it began. Two excuses are needed and the property names them: an order that
  leaves the filter moves the others up, and an order created between the count
  and the page of the last request is not in the total that ends the walk.

Why the bounds are enough. Two attempts are the smallest number with a retry
and a last attempt. Three entries with two overlapping clients give two active
entries of one item and one after them; batches of 2 make a worker hold an
entry while it sends another. Two order clients give every pair of overlapping
handlers. There only one entry exists, so only one item is ever settled: an order
of both items must not close, and one that closes over the settled item can have
the other added behind it, which are the two cases `ClosedOrderSettled` is about;
orders that close over several settled items are left to the theorem
`ClosedSettled`, and more entries of an item to `sync_races`. In
`settles` two clients and the worker are enough to hold and want the item and
its entries in both orders. In `honesty` one entry is edited over, retried,
cancelled and settled; two clients make the two overlaps that matter, of an edit
with the entry and of two edits, and edits of different columns let one edit lose
the other's. A second entry of the same item (a requeue, a late answer to an
older entry) is beyond the time of a run there, and left to the theorem
`SyncedTrusted`. In `server` three orders make two pages, the second not full, or
three; page 0 and a limit of 7 exercise the defaults and the clamp, page 7 with
4-bit integers has an offset that wraps.

Clients of a kind and workers are interchangeable, and no safety property names
one, so safety runs with several of them use symmetry; `settles` does not, for
it checks liveness.

Fairness (`TxFairness`). For each worker: strong fairness of the claim, for the
5 s ticker fires for ever and is not in step with cancels, which may hold a row
at one tick but not at every tick; weak fairness of the call (the RFC call is
assumed to return) and of each statement and the end of its transaction. For
each client: an open transaction goes on to its end, by commit or by rollback.
The statements that wait for an item's lock are strongly fair, because
PostgreSQL grants a row lock in the order it was asked for. Nothing makes a
client send a request or finish one that has no transaction open, and nothing
prevents a fault. `EventuallySettled` therefore allows an entry to be left
PROCESSING with no worker on it (`Abandoned`), which only a fault does, and
`doc_processing_held` shows.

### Where the code and its documents part

| Run | Claim | What the code does |
|---|---|---|
| `doc_one_active` | `ErrSyncAlreadyActive`: no second pending or processing sync | two overlapping enqueues both pass the check and both insert |
| `doc_processing_held` | PROCESSING is "em processamento pelo worker" | a lost claim, failed recording or stop leaves the entry PROCESSING for ever, and the item can never be synced again |
| `doc_closed_frozen` | a closed order cannot be modified | a rejected entry makes its item FAILED while the retry waits, the order closes, and the cancel or the retry rewrites the item |
| `doc_closed_final` | "closed cannot change" | an update checked before the close writes after it |
| `doc_edit_promotes` | editing a SYNCED item makes it UPDATED | the edit decides on one read and writes back the status of another |
| `doc_synced_text` | an item that says something else than SAP was sent is UPDATED | an edit while the entry waits is not in its XML, and success marks the item SYNCED with the text nobody sent |
| `doc_status_log` | the status of one particular send | the answer carries the newest log of the item, which may be another entry's |

## What is proved

For every value of the constants (any numbers of items, entries, attempts,
clients, workers, orders and tokens, any batch size, faults or not):

| Theorem | Module | Statement |
|---|---|---|
| `TypeCorrect` | `BackendTypes_proofs` | `Spec => []TypeOK` |
| `PendingClaimable` | `Outbox_proofs` | `Spec => []PendingIsClaimable` |
| `ClaimsExclusive` | `Outbox_proofs` | `Spec => []ClaimExclusive` |
| `AuditTrail` | `Outbox_proofs` | `Spec => []AuditComplete` |
| `CallsBounded` | `Outbox_proofs` | `Spec => []CallsWithinAttempts` |
| `TerminalFinal` | `Outbox_proofs` | `Spec => TerminalEntriesFinal` |
| `HeldUnlessFault` (2) | `Outbox_proofs` | `Spec => []ProcessingIsHeld` |
| `RefinesContract` | `Outbox_proofs` | `Spec => ImplementsContract` |
| `PendingUntouched` | `Items_proofs` | `Spec => []PendingItemUntouched` |
| `TerminalEvidence` | `Items_proofs` | `Spec => []TerminalItemHasEvidence` |
| `ResetsNotSilent` (1) | `Items_proofs` | `Spec => NoSilentReset` |
| `OneActive` | `Items_proofs` | `OverlapSpec => []OneActiveUnlessRaced` |
| `InOrder` | `Items_proofs` | `OverlapSpec => DeliveriesInOrder` |
| `NonOpenHasItems` | `Requests_proofs` | `Spec => []NonOpenOrderHasItems` |
| `OpenIsEmpty` | `Requests_proofs` | `OverlapSpec => []OpenOrderIsEmpty` |
| `StepsLegal` | `Requests_proofs` | `Spec => LegalOrderSteps` |
| `ClosedSettled` | `Requests_proofs` | `OverlapSpec => []ClosedOrderSettled` |
| `RefusalsRight` | `Requests_proofs` | `Spec => []RefusedWasTaken` |
| `FinishedHasLog` | `Requests_proofs` | `Spec => []FinishedStatusHasLog` |
| `TxTypeCorrect` | `Transactions_proofs` | `TxSpec => []TxTypeOK` |
| `TransactionsAtomic` | `Transactions_proofs` | `TxSpec => ImplementsBackend` |
| `NoDeadlock` | `Transactions_proofs` | `TxSpec => []NoWaitCycle` |
| `EditsKept` | `Honesty_proofs` | `HonestySpec => []EditsAddUp` |
| `SyncedTrusted` | `Honesty_proofs` | `HonestySpec => []SyncedIsSent` |
| `AudienceKnown` | `Server_proofs` | `ServerSpec => []AudienceIsKnown` |
| `CreatorsWrite` | `Server_proofs` | `ServerSpec => []CreatedByWriter` |
| `WalksMissNothing` | `Listing_proofs` | `ServerSpec => []WalkComplete` |
| `TotalsRight` | `Listing_proofs` | `ServerSpec => []TotalsHold` |

Two theorems assume something more: (1) that no client edits orders or items,
(2) that nothing fails. The code guarantees neither: an edit of a FAILED item
makes it UPDATED with nothing queued, as it should, and `doc_processing_held`
shows a fault. No theorem assumes that requests do not overlap. Where a property holds only for what no
overlap has hit, `Overlaps` or `SyncHonesty` says in the state which items,
entries and orders were hit, and the theorem is about all the others.

The other assumptions are the named ASSUMEs of the modules: `MaxEntries`,
`MaxAttempts` and `BatchSize` are positive, every item has an order, the seed is
a state the API reaches, clients and workers are different processes, tokens
have four identity claims and known scopes, and the orders and a page more are
fewer than an `int` can count. `LimitsAssumption` also says that `Half`, which
is 2 to a natural power, is a natural number: the provers know nothing of
powers.

The arguments.

*Types and the outbox.* `TypeOK` is inductive because it also says what a
handler holds for the statements ahead of it (`OrderHolds`, `SyncHolds`) and
that a worker holds only rows that exist. `StepKinds` then shows that each step
does one of nine things to the outbox (`Kept`, `Accepted`, `Withdrawn`,
`TakenBy`, `TakenLost`, `Called`, `Recorded`, `Dropped` or `Stopped` of a
worker), so that the rest never looks at the handlers again. `OutboxInv` is
inductive over those. It needs two parts no run names: an entry in a batch that
was not called yet has fewer calls than attempts (`UncalledInBatch`), and a row
not there yet has no attempts (`AbsentIsBlank`). `ClaimExclusive` carries the
rest: what a worker records is what it claimed, so `Retry` compares the row's
own attempts, and a finished row is in no batch. Three of the nine kinds are
faults; without them an entry that turns PROCESSING is in the batch of the worker
that claimed it, and leaves both at once (`HeldUnlessFault`): what a repair of
stuck entries has to undo is these three and nothing else. For the contract
each kind is `Accept`, `Withdraw`, `Attempt`, `Succeed`, `Fail` or a stutter.

*Items and orders.* `ItemsInv` adds to `OutboxInv` that an item with an entry
has left PENDING, that a terminal status has its evidence, and the same of what
each handler has read and is going to write: `SyncReliesOn` for an enqueue that
has passed `CanSync`, `OrderReliesOn` for an edit about to write a status back.
It holds because an item never returns to PENDING and evidence never goes away,
so what was read stays good until it is written. `OrdersInv` adds, for orders,
that whoever is going to write IN_PROGRESS or CLOSED has seen an item, or has
inserted one, and that items are never deleted.

*Requests that meet.* `LoneInv` says, of an item that was not raced for, that it
has one active entry at most and that an enqueue past its active check still
finds none, for the other enqueue that would make one is not past its own
check: only an enqueue makes an entry active, and a worker puts back only an
entry that already was. Since one entry is active at a time and entries are
numbered as they are created, what SAP took last for an item is never newer than
the item's active entry. `WritesInv` says that what a handler of an order is about
to write was legal from what it has read, so that a write over a status it has
not read is the only other change. `ClosedSettled` carries the evidence over from
the read of the items to the write: a terminal item has its log
(`TerminalEvidence`, `NewestLogged`) and logs are never deleted, whatever is
written to the item meanwhile; an item the read did not see is `late`. For
`OpenIsEmpty`, the handler that inserts into an OPEN order holds on to it until
its promotion (`AddFollows`). `ResetsNotSilent` needs no more than `ItemsInv`: without edits only
an enqueue and a cancel write UPDATED, and each writes an entry of the item with
it.

*Answers.* `AnswersInv` adds that every ended attempt left a log and that a
request that has gone past a read holds what the read showed
(`AnswerFollows`): the entry is read before its logs, and both are written in
one transaction.

*Transactions.* `TxInv` says what each open transaction holds (`Holds`): the
rows it has written are the committed rows with the new status and nothing
else, and locks are exclusive. Each step is then a step of `Backend` at the
commit and a stutter before it: the versions a transaction has written cannot be
out of date, for whoever else would write those rows waits. No circle of waiting
transactions exists, because a transaction that has locked an item waits for
nobody: a worker's entry is PROCESSING and its own (`ClaimExclusive`), while a
cancel has locked only an entry it found PENDING.

*SYNCED and the edits.* Only edits write the text of an item, so a copy of it
is the current text until an edit writes: the row an edit is going to write back
(`RowsCurrent`, for an item whose edits never met), the XML of an enqueue and the
payload of an entry (`BuildsCurrent`, `PayloadsCurrent`, where the history says
that no edit was under way). Merging an edit into a current row changes the
fields it gives and keeps the others, which is `EditsAddUp`. For `SyncedIsSent`
the entry SAP took last has to be the one that made the item SYNCED: the worker
whose call was accepted sent the item's active entry, and nothing of that item
was called since (`AcceptedIsLast`), which needs one active entry, hence an item
that was not raced for. An edit that is going to write SYNCED back has looked at the item
before it was SYNCED, for otherwise it would promote (`EditsEarly`), and when it
writes, the history drops the entry (`KeptSynced`).

*HTTP.* `ServerInv` says that an audience missing from the environment never
stops the process, for `Load` has seen to one of its sources, and that
`created_by` is taken from claims that carry the scope the route asks for, which
stay presentable while the process serves.

*Lists.* The rank of an order in a list is the number of newer orders there. A
longer list only raises ranks (`RankGrows`), so what a walk is owed stays at or
beyond the page it is about to read, and beyond the page it has read (`Owing`).
`totalPages` promises a page exactly when the total goes beyond the pages before
it (`PagePromised`), so a walk that stops with a total at least as long as the list
it read from is owed nothing. A promised page is not empty because every rank below
the length of a list is taken by some order (`PlaceTaken`). That is a fact about
cardinalities usually shown by induction; here it follows from the oldest
order of rank at most `k`: the next older one would have the next rank.

Only model-checked: `EventuallySettled`, for liveness under fairness is out of the
prover's reach.

## Plan

Done: the order and sync services, the worker and their composition; the
contract of the outbox; the transactions with their locks; the honesty of
SYNCED; the HTTP layer; a proof of every safety property and of both refinements
the runs check.

For every exception a property names there is a behaviour that needs it: the runs
of `DocClaims` for `raced`, for the entries that are not `clean`, and for stale
writes of an order; `late` and `torn` have no claim of the documents against
them.

What is left: entries of one item with overlapping edits are model-checked for
one entry only, and the codes of the HTTP answers are not modelled.

## Not modelled

* The codes `HandleError` gives errors: a lookup without state. That an error
  follows no write is not true of every route anyway: `AddItem` may insert its
  item and then fail to promote the order (`OpenOrderIsEmpty`).
* Security headers, the HTTPS redirect, the body limit and the rate limit: they
  let a request pass or answer it before the handlers, and the only state, the
  rate limiter's counter, is a library's.
* Signatures, registered claims and OIDC discovery: libraries. A token passes
  them or does not.
* Health, OpenAPI and Swagger: static answers and a ping.
* `GetOrder` and `ListLogs` as statements: they change nothing, and what they
  read is what the modelled handlers read.
* The development seed (`000003`): its rows come from no history of the API.
* The SAP stub, which only ever accepts, and the layout of the XML.
