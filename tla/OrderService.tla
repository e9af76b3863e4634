------------------------------ MODULE OrderService ------------------------------
(***************************************************************************)
(* The order requests: internal/service/order_service.go over the order    *)
(* and item repositories.                                                  *)
(*                                                                         *)
(* None of these handlers opens a transaction.  Each repository call is a  *)
(* statement that commits by itself, so a request is a sequence of actions *)
(* and everything another request or the worker does may come between two  *)
(* of them.  oreq[c] is the handler client c waits for: the next statement *)
(* (pc) and the values the handler holds in memory.                        *)
(*                                                                         *)
(* A request the handler refuses before its first write changes nothing:   *)
(* the refusals that depend on the tables end the request in the action    *)
(* that reads them; those that depend on the input alone (a missing field, *)
(* an invalid status, a past delivery date) are requests that never start, *)
(* or that OrderAbort ends.                                                *)
(***************************************************************************)
EXTENDS Tables

CONSTANTS
    OrderClients,  \* clients that send order requests
    OrderOps,      \* the kinds of request they send
    Edits          \* the fields their edits give

ASSUME OrderOpsAssumption == OrderOps \subseteq {"create", "status", "add", "edit"}

\* The body of an edit: a field is None when it is not given, and the service
\* refuses a body that gives neither.  Every Text is an edit of both fields.
Edit == {t \in [description : Description \cup {None}, date : DeliveryDate \cup {None}] :
             t.description # None \/ t.date # None}

ASSUME EditsAssumption == Edits \subseteq Edit

Merged(edit, text) ==
    [description |-> IF edit.description = None THEN text.description ELSE edit.description,
     date        |-> IF edit.date = None THEN text.date ELSE edit.date]

VARIABLE oreq

OrderPc == {"idle", "items", "write", "insert", "promote", "read", "current", "save"}

OrderRequest == [pc      : OrderPc,
                 order   : Order \cup {None},
                 item    : Item \cup {None},
                 saw     : OrderStatus \cup {"ABSENT"},    \* order status read
                 status  : OrderStatus \cup ItemStatus \cup {"ABSENT"}, \* to write
                 text    : Edit \cup {None},               \* the fields given
                 row     : Text \cup {None},               \* the item row read
                 promote : BOOLEAN]                        \* ShouldPromoteOnEdit held

OrderIdle == [pc |-> "idle", order |-> None, item |-> None, saw |-> "ABSENT",
              status |-> "ABSENT", text |-> None, row |-> None, promote |-> FALSE]

OrderInit == oreq = [c \in OrderClients |-> OrderIdle]

\* A handler holds what the statements still ahead of it use.
OrderHolds(r) ==
    /\ r.pc \in {"items", "write"} => r.order \in Order /\ r.status \in OrderStatus
    /\ r.pc \in {"insert", "promote"} =>
           r.order \in Order /\ r.item \in Item /\ r.text \in Text
    /\ r.pc \in {"read", "current", "save"} => r.item \in Item /\ r.text \in Edit
    /\ r.pc = "save" => r.status \in ItemStatus \cup {"ABSENT"} /\ r.row \in Text

OrderTypeOK ==
    /\ oreq \in [OrderClients -> OrderRequest]
    /\ \A c \in OrderClients : OrderHolds(oreq[c])

EndOrder(c) == oreq' = [oreq EXCEPT ![c] = OrderIdle]
-----------------------------------------------------------------------------
\* POST /orders: one INSERT, refused by the UNIQUE order number.
CreateOrder(c, o) ==
    /\ "create" \in OrderOps /\ oreq[c].pc = "idle"
    /\ orders[o] = "ABSENT"
    /\ orders' = [orders EXCEPT ![o] = "OPEN"]
    /\ UNCHANGED <<items, outbox, syncLogs, newestLog, oreq>>
-----------------------------------------------------------------------------
\* PATCH /orders/{id}: read the order row, read its items, check, write.

UpdateOrder(c, o, status) ==
    /\ "status" \in OrderOps /\ oreq[c].pc = "idle"
    /\ orders[o] # "ABSENT"
    /\ oreq' = [oreq EXCEPT ![c] = [OrderIdle EXCEPT !.pc = "items", !.order = o,
                                        !.saw = orders[o], !.status = status]]
    /\ UNCHANGED tables

\* A variant with a defect, for mutation runs only: no CanTransitionTo.
UpdateOrderUnchecked(c) ==
    /\ oreq[c].pc = "items"
    /\ oreq' = [oreq EXCEPT ![c].pc = "write"]
    /\ UNCHANGED tables

UpdateOrderListItems(c) ==
    /\ oreq[c].pc = "items"
    /\ IF CanTransitionTo(oreq[c].saw, oreq[c].status, SeenStatuses(oreq[c].order))
       THEN oreq' = [oreq EXCEPT ![c].pc = "write"]
       ELSE EndOrder(c)
    /\ UNCHANGED tables

\* The WHERE clause names the id only.
UpdateOrderWrite(c) ==
    /\ oreq[c].pc = "write"
    /\ orders' = [orders EXCEPT ![oreq[c].order] = oreq[c].status]
    /\ EndOrder(c)
    /\ UNCHANGED <<items, outbox, syncLogs, newestLog>>
-----------------------------------------------------------------------------
\* POST /orders/{id}/items: read the order, insert the item, and promote the
\* order if it was read OPEN.

AddItem(c, i, text) ==
    /\ "add" \in OrderOps /\ oreq[c].pc = "idle"
    /\ orders[OrderOf[i]] \notin {"ABSENT", "CLOSED"}
    /\ oreq' = [oreq EXCEPT ![c] = [OrderIdle EXCEPT !.pc = "insert",
                    !.order = OrderOf[i], !.item = i, !.saw = orders[OrderOf[i]],
                    !.text = text]]
    /\ UNCHANGED tables

\* A variant with a defect, for mutation runs only: the order is promoted
\* before its item exists.
AddItemPromoteFirst(c) ==
    /\ oreq[c].pc = "insert"
    /\ orders' = [orders EXCEPT ![oreq[c].order] = "IN_PROGRESS"]
    /\ EndOrder(c)
    /\ UNCHANGED <<items, outbox, syncLogs, newestLog>>

\* A variant with a defect, for mutation runs only: the order is not promoted.
AddItemNoPromote(c) ==
    /\ oreq[c].pc = "insert"
    /\ ~ItemExists(oreq[c].item)
    /\ items' = [items EXCEPT ![oreq[c].item] = NewItemRow(oreq[c].text)]
    /\ EndOrder(c)
    /\ UNCHANGED <<orders, outbox, syncLogs, newestLog>>

\* The INSERT is refused when the demand code is taken.
AddItemInsert(c) ==
    /\ oreq[c].pc = "insert"
    /\ IF ItemExists(oreq[c].item)
       THEN items' = items /\ EndOrder(c)
       ELSE /\ items' = [items EXCEPT ![oreq[c].item] = NewItemRow(oreq[c].text)]
            /\ IF oreq[c].saw = "OPEN"
               THEN oreq' = [oreq EXCEPT ![c].pc = "promote"]
               ELSE EndOrder(c)
    /\ UNCHANGED <<orders, outbox, syncLogs, newestLog>>

AddItemPromote(c) ==
    /\ oreq[c].pc = "promote"
    /\ orders' = [orders EXCEPT ![oreq[c].order] = "IN_PROGRESS"]
    /\ EndOrder(c)
    /\ UNCHANGED <<items, outbox, syncLogs, newestLog>>
-----------------------------------------------------------------------------
\* PATCH /orders/{id}/items/{itemId}: read the order, read the item to decide
\* the promotion, then itemRepository.Update: read the row again, and write
\* all of it back with the edited fields replaced.

UpdateItem(c, i, edit) ==
    /\ "edit" \in OrderOps /\ oreq[c].pc = "idle"
    /\ orders[OrderOf[i]] \notin {"ABSENT", "CLOSED"}
    /\ oreq' = [oreq EXCEPT ![c] = [OrderIdle EXCEPT !.pc = "read",
                    !.order = OrderOf[i], !.item = i, !.text = edit]]
    /\ UNCHANGED tables

UpdateItemRead(c) ==
    /\ oreq[c].pc = "read"
    /\ IF ItemExists(oreq[c].item)
       THEN oreq' = [oreq EXCEPT ![c].pc = "current",
                        ![c].promote = ShouldPromoteOnEdit(items[oreq[c].item].status)]
       ELSE EndOrder(c)
    /\ UNCHANGED tables

UpdateItemCurrent(c) ==
    /\ oreq[c].pc = "current"
    /\ oreq' = [oreq EXCEPT ![c].pc = "save",
                    ![c].row = items[oreq[c].item].text,
                    ![c].status = IF oreq[c].promote
                                  THEN "UPDATED"
                                  ELSE items[oreq[c].item].status]
    /\ UNCHANGED tables

UpdateItemWrite(c) ==
    /\ oreq[c].pc = "save"
    /\ items' = [items EXCEPT ![oreq[c].item] =
                    [status |-> oreq[c].status, text |-> Merged(oreq[c].text, oreq[c].row)]]
    /\ EndOrder(c)
    /\ UNCHANGED <<orders, outbox, syncLogs, newestLog>>
-----------------------------------------------------------------------------
\* A statement fails, or the client goes away and its context is cancelled:
\* what the request has written stays.
OrderAbort(c) ==
    /\ oreq[c].pc # "idle"
    /\ EndOrder(c)
    /\ UNCHANGED tables
=============================================================================
