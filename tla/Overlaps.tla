-------------------------------- MODULE Overlaps --------------------------------
(***************************************************************************)
(* What the handlers guarantee although none of them locks what it reads.  *)
(*                                                                         *)
(* Each of these guarantees has a window, between a read and the write     *)
(* that relies on it, where another request can void it.  The module       *)
(* records, as history no step reads, exactly what was hit in such a       *)
(* window; for everything else the guarantee must hold, whatever other     *)
(* requests, workers and faults do.                                        *)
(***************************************************************************)
EXTENDS Backend

VARIABLES
    raced,  \* items two enqueues were about to insert an entry for at once
    late,   \* items inserted into an order closed or about to be closed
    torn    \* orders left OPEN with an item, or taken back to OPEN

overlaps == <<raced, late, torn>>

\* Two enqueues between the look for an active entry and the insert of theirs.
Racing(i) ==
    \E c, d \in SyncClients :
        c # d /\ \A x \in {c, d} : sreq[x].pc = "commit" /\ sreq[x].item = i

\* A request that will write CLOSED and does not look at the items again.
Closing(c, o) ==
    /\ oreq[c].order = o /\ oreq[c].status = "CLOSED"
    /\ \/ oreq[c].pc = "write"
       \/ oreq[c].pc = "items" /\ oreq[c].saw = "CLOSED"

\* A request that has inserted an item and not promoted the order yet.
Promoting(c, o) == oreq[c].pc = "promote" /\ oreq[c].order = o

OverlapInit ==
    /\ Init
    /\ raced = {}
    /\ late = {}
    /\ torn = {o \in Order : orders[o] = "OPEN" /\ ItemsOf(o) # {}}

\* A promotion is given up in the step that ends its request with the order
\* still OPEN; a stale write takes an order back.
OverlapStep ==
    /\ raced' = raced \cup {i \in Item : Racing(i)}
    /\ late' = late \cup {i \in Item :
                   /\ ~ItemExists(i) /\ ItemExists(i)'
                   /\ \/ orders[OrderOf[i]] = "CLOSED"
                      \/ \E c \in OrderClients : Closing(c, OrderOf[i])}
    /\ torn' = {o \in Order :
                   /\ orders'[o] = "OPEN"
                   /\ \/ o \in torn
                      \/ orders[o] \in {"IN_PROGRESS", "CLOSED"}
                      \/ \E c \in OrderClients : Promoting(c, o) /\ ~Promoting(c, o)'}

OverlapNext == Next /\ OverlapStep

OverlapSpec == OverlapInit /\ [][OverlapNext]_<<vars, overlaps>>
-----------------------------------------------------------------------------
\* At most one entry of an item waits or is being processed, the rule behind
\* ErrSyncAlreadyActive: cancels, retries, lost claims and enqueues one after
\* the other never make a second one.
OneActiveUnlessRaced ==
    \A i \in Item \ raced : Cardinality({e \in EntriesOf(i) : Active(e)}) <= 1

\* SAP takes the entries of an item in the order they were created, whatever
\* worker sends them and however often they are retried.
DeliveriesInOrder ==
    [][\A i \in Item \ raced : sap'[i] >= sap[i]]_<<vars, overlaps>>

\* An order is CLOSED only after an attempt to sync each of its items was
\* logged.  The items are read in another statement than the order's write, and
\* overlapping writes may reopen and close it again; only an item that appears
\* behind the back of a close escapes.
ClosedOrderSettled ==
    \A o \in Order : orders[o] = "CLOSED" =>
        \A i \in ItemsOf(o) \ late : newestLog[i] # NoEntry

\* An order with an item is not OPEN: AddItem promotes it in a statement of its
\* own, and every item inserted into an OPEN order is followed by a promotion
\* that comes, or that failed and left the order so.
OpenOrderIsEmpty ==
    \A o \in Order \ torn : orders[o] = "OPEN" /\ ItemsOf(o) # {} =>
        \E c \in OrderClients : Promoting(c, o)
=============================================================================
