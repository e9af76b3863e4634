--------------------------------- MODULE Tables ---------------------------------
(***************************************************************************)
(* The PostgreSQL tables the service keeps its state in, and the           *)
(* statements of internal/repository that read and write them.             *)
(*                                                                         *)
(* A statement outside a transaction commits by itself, and a transaction  *)
(* commits all its statements together, so every operator below is used    *)
(* inside one atomic action.                                               *)
(*                                                                         *)
(* Item identity: (order_id, demand_code) is UNIQUE and items are never    *)
(* deleted, so a member of Item stands for one such pair and OrderOf gives *)
(* its order.  Order numbers are UNIQUE too: a member of Order stands for  *)
(* one of them.  Outbox entries are numbered in the order of created_at.   *)
(***************************************************************************)
EXTENDS StatusRules, Integers, Sequences, FiniteSets

CONSTANTS
    Order,         \* order numbers
    Item,          \* (order, demand code) pairs
    OrderOf,       \* the order of an item
    Description,   \* contents of the two columns of an item a client can set
    DeliveryDate,
    None,          \* no order, item or column value
    MaxEntries,    \* bound of the model on the outbox rows ever created
    MaxAttempts,   \* sap_outbox.max_attempts, 3 in the code
    SeedOrder,     \* statuses of the orders the run starts from
    SeedItem,      \* statuses of the items the run starts from
    SeedText       \* their contents

\* What an item says: the columns the XML is built of.
Text == [description : Description, date : DeliveryDate]

ASSUME OrderOfAssumption     == OrderOf \in [Item -> Order]
ASSUME TextAssumption        == SeedText \in Text
ASSUME NoneAssumption ==
    None \notin Order \cup Item \cup Description \cup DeliveryDate \cup Text
ASSUME MaxEntriesAssumption  == MaxEntries \in Nat \ {0}
ASSUME MaxAttemptsAssumption == MaxAttempts \in Nat \ {0}

\* A run starts from the empty database, or from rows an earlier history of
\* creations and edits left, none of which was ever sent to SAP.
ASSUME SeedOrderAssumption ==
    SeedOrder \in [Order -> {"ABSENT", "OPEN", "IN_PROGRESS"}]
ASSUME SeedItemAssumption ==
    SeedItem \in [Item -> {"ABSENT", "PENDING", "UPDATED"}]
ASSUME SeedRowsAssumption ==
    /\ \A i \in Item : SeedItem[i] # "ABSENT" => SeedOrder[OrderOf[i]] # "ABSENT"
    /\ \A o \in Order : SeedOrder[o] = "IN_PROGRESS" =>
           \E i \in Item : OrderOf[i] = o /\ SeedItem[i] # "ABSENT"

VARIABLES
    orders,    \* orders.status, ABSENT while there is no row
    items,     \* order_items: status and text
    outbox,    \* sap_outbox: status, order_item_id, attempts, xml_payload
    syncLogs,  \* sap_sync_logs: the statuses logged for each entry, in order
    newestLog  \* the entry the newest log row of each item was written for

tables == <<orders, items, outbox, syncLogs, newestLog>>

Entry    == 1 .. MaxEntries
NoEntry  == 0
EntryRef == 0 .. MaxEntries
ItemRow  == [status : ItemStatus \cup {"ABSENT"}, text : Text]
OutboxRow == [status   : OutboxStatus \cup {"ABSENT"},
              item     : Item \cup {None},
              attempts : 0 .. MaxAttempts,
              payload  : Text \cup {None}]

NoRow == [status |-> "ABSENT", item |-> None, attempts |-> 0, payload |-> None]

TablesInit ==
    /\ orders = SeedOrder
    /\ items = [i \in Item |-> [status |-> SeedItem[i], text |-> SeedText]]
    /\ outbox = [e \in Entry |-> NoRow]
    /\ syncLogs = [e \in Entry |-> << >>]
    /\ newestLog = [i \in Item |-> NoEntry]

TablesTypeOK ==
    /\ orders \in [Order -> OrderStatus \cup {"ABSENT"}]
    /\ items \in [Item -> ItemRow]
    /\ outbox \in [Entry -> OutboxRow]
    /\ \A e \in Entry : outbox[e].status # "ABSENT" =>
           outbox[e].item \in Item /\ outbox[e].payload \in Text
    /\ syncLogs \in [Entry -> Seq(SyncStatus)]
    /\ newestLog \in [Item -> EntryRef]
-----------------------------------------------------------------------------
\* Reads.

ItemExists(i) == items[i].status # "ABSENT"

ItemsOf(o) == {i \in Item : OrderOf[i] = o /\ ItemExists(i)}

\* The statuses listItemsByOrderID returns for the order.
SeenStatuses(o) == {items[i].status : i \in ItemsOf(o)}

Created(e) == outbox[e].status # "ABSENT"

EntriesOf(i) == {e \in Entry : outbox[e].item = i}

Active(e) == outbox[e].status \in ActiveStatus

\* Variants with a defect, for mutation runs only.
NothingActive(i) == FALSE
HasPendingByItemID(i) == \E e \in EntriesOf(i) : outbox[e].status = "PENDING"

HasActiveByItemID(i) == \E e \in EntriesOf(i) : Active(e)

\* Variants with a defect, for mutation runs only.
ClaimableAnyStatus == {e \in Entry : Created(e) /\ outbox[e].attempts < MaxAttempts}
ClaimableButLast ==
    {e \in Entry : outbox[e].status = "PENDING" /\ outbox[e].attempts + 1 < MaxAttempts}

\* The rows the inner SELECT of ClaimPending finds.
Claimable ==
    {e \in Entry : outbox[e].status = "PENDING" /\ outbox[e].attempts < MaxAttempts}

\* ORDER BY created_at ASC LIMIT n.
Oldest(S, n) == {e \in S : Cardinality({d \in S : d < e}) < n}
-----------------------------------------------------------------------------
\* Writes: each gives the new contents of one table.

WithItemStatus(i, status) == [items EXCEPT ![i].status = status]

\* A variant with a defect, for mutation runs only: the default of orders.
NewItemRowOpen(text) == [status |-> "OPEN", text |-> text]

\* The row an INSERT into order_items leaves: the column's default status.
NewItemRow(text) == [status |-> "PENDING", text |-> text]

\* INSERT into sap_outbox: attempts takes the column's default.
FreeEntry(e) == ~Created(e) /\ \A d \in Entry : d < e => Created(d)

WithNewEntry(e, i, payload) ==
    [outbox EXCEPT ![e] = [status |-> "PENDING", item |-> i,
                           attempts |-> 0, payload |-> payload]]

\* A variant with a defect, for mutation runs only: attempts is not counted.
WithClaimedUncounted(S) ==
    [e \in Entry |-> IF e \in S THEN [outbox[e] EXCEPT !.status = "PROCESSING"] ELSE outbox[e]]

WithClaimed(S) ==
    [e \in Entry |->
        IF e \in S
        THEN [outbox[e] EXCEPT !.status = "PROCESSING", !.attempts = @ + 1]
        ELSE outbox[e]]

WithEntryStatus(e, status) == [outbox EXCEPT ![e].status = status]

MarkCompleted(e) == WithEntryStatus(e, "COMPLETED")

\* A variant with a defect, for mutation runs only.
MarkFailedForGood(e, retry) == WithEntryStatus(e, "FAILED")

MarkFailed(e, retry) == WithEntryStatus(e, IF retry THEN "PENDING" ELSE "FAILED")

Log(e, status) == [syncLogs EXCEPT ![e] = Append(@, status)]

NewestLog(e) == [newestLog EXCEPT ![outbox[e].item] = e]
=============================================================================
