--------------------------------- MODULE Listing ---------------------------------
(***************************************************************************)
(* GET /orders: OrderHandler.List, OrderService.ListOrders and             *)
(* orderRepository.List, which counts the orders in one statement and      *)
(* reads the page in the next.                                             *)
(*                                                                         *)
(* Orders are numbered in the order of created_at, which is stamped before *)
(* the commit, so an order may appear after a newer one.  None is deleted. *)
(* A lister that asks for page 1 walks on as totalPages tells it, unless   *)
(* it ends before; one that asks for another page sends one request.       *)
(***************************************************************************)
EXTENDS StatusRules, Integers, FiniteSets

CONSTANTS
    MaxOrders,     \* bound of the model on the orders ever created
    Width,         \* bits of Go's int, 64 in the builds of the code
    DefaultLimit,  \* 20 in the code
    MaxLimit,      \* 100 in the code
    Listers,       \* clients that list orders
    Pages,         \* page parameters they send
    Limits,        \* limit parameters they send
    Filters,       \* status parameters they send
    Missing        \* no parameter, or one that is not a number

\* Of Go's int, the numbers from -Half to Half - 1 are values.
Half == 2 ^ (Width - 1)

ASSUME LimitsAssumption ==
    /\ Width \in Nat \ {0} /\ Half \in Nat /\ MaxOrders \in Nat \ {0}
    /\ MaxLimit \in Nat /\ DefaultLimit \in 1 .. MaxLimit
    /\ MaxOrders + MaxLimit < Half
ASSUME ParametersAssumption ==
    /\ Pages \cup Limits \subseteq Int \cup {Missing}
    /\ Filters \subseteq OrderStatus \cup {Missing}

VARIABLES
    rows,  \* orders: the status of each, ABSENT while there is no row
    lreq   \* the request of each lister, and its walk

OrderNo == 1 .. MaxOrders
MaxInt  == Half - 1

\* What an int holds of the number n.
Wrapped(n) == ((n + Half) % (2 * Half)) - Half

queryInt(raw, fallback) == IF raw \in 1 .. MaxInt THEN raw ELSE fallback

Clamped(limit) == IF limit > MaxLimit THEN MaxLimit ELSE limit

\* A variant with a defect, for mutation runs only: the offset of page + 1.
OffsetFromOne(page, limit) == Wrapped(page * limit)

Offset(page, limit) == Wrapped((page - 1) * limit)

\* A variant with a defect, for mutation runs only: rounded down.
TotalPagesDown(total, limit) == total \div limit

TotalPages(total, limit) ==
    IF limit > 0 /\ total > 0 THEN (total + limit - 1) \div limit ELSE 0

Exists(o) == rows[o] # "ABSENT"

Matching(filter) == {o \in OrderNo : Exists(o) /\ (filter = Missing \/ rows[o] = filter)}

\* ORDER BY created_at DESC LIMIT limit OFFSET offset.
Newest(S, offset, limit) ==
    {o \in S : Cardinality({p \in S : p > o}) \in offset .. offset + limit - 1}
-----------------------------------------------------------------------------
ListIdle == [pc |-> "idle", page |-> 0, limit |-> 0, filter |-> Missing, total |-> 0,
             rows |-> {}, walking |-> FALSE, owed |-> {}, late |-> FALSE]

ListingInit ==
    /\ rows = [o \in OrderNo |-> "ABSENT"]
    /\ lreq = [c \in Listers |-> ListIdle]

Listed(c, r) == lreq' = [lreq EXCEPT ![c] = r] /\ UNCHANGED rows

\* A walk starts at page 1 and owes its client every order there is.
ListOrders(c, page, limit, filter) ==
    /\ lreq[c].pc = "idle"
    /\ LET asked == queryInt(page, 1)
       IN  Listed(c, [ListIdle EXCEPT !.pc = "count", !.page = asked,
                         !.limit = Clamped(queryInt(limit, DefaultLimit)), !.filter = filter,
                         !.walking = (asked = 1),
                         !.owed = IF asked = 1 THEN Matching(filter) ELSE {}])

ListCount(c) ==
    /\ lreq[c].pc = "count"
    /\ Listed(c, [lreq[c] EXCEPT !.pc = "select", !.late = FALSE,
                     !.total = Cardinality(Matching(lreq[c].filter))])

\* PostgreSQL refuses a negative OFFSET.
ListSelect(c) ==
    /\ lreq[c].pc = "select"
    /\ LET r == lreq[c]
           offset == Offset(r.page, r.limit)
           found == Newest(Matching(r.filter), offset, r.limit)
       IN  IF offset < 0
           THEN Listed(c, ListIdle)
           ELSE Listed(c, [r EXCEPT !.pc = "answered", !.rows = found,
                              !.owed = @ \ found])

\* The answer is sent.  A walk goes on to the next page while there is one.
ListAnswer(c) ==
    /\ lreq[c].pc = "answered"
    /\ LET r == lreq[c]
       IN  Listed(c, IF ~r.walking THEN ListIdle
                     ELSE IF r.page >= TotalPages(r.total, r.limit)
                          THEN [r EXCEPT !.pc = "walked", !.rows = {}]
                          ELSE [r EXCEPT !.pc = "count", !.page = @ + 1, !.rows = {}])

\* The walk is over, or a statement failed, or the client went away.
ListEnd(c) == lreq[c].pc # "idle" /\ Listed(c, ListIdle)

ListNext(c) ==
    \/ ListCount(c)
    \/ ListSelect(c)
    \/ ListAnswer(c)
    \/ ListEnd(c)

\* The orders change.  An order that leaves the filter of a walk moves the others
\* up: the walk owes nothing any more.
OrderBecomes(o, status) ==
    /\ rows' = [rows EXCEPT ![o] = status]
    /\ lreq' = [c \in Listers |->
          LET r == lreq[c]
              before == o \in Matching(r.filter)
              after == r.filter \in {Missing, status}
          IN  [r EXCEPT !.owed = IF before /\ ~after THEN {} ELSE @,
                        !.late = @ \/ (r.walking /\ r.pc = "select" /\ ~before /\ after)]]
-----------------------------------------------------------------------------
\* A client that reads page after page until totalPages misses no order that
\* was there when it began, however many are created meanwhile: a new order
\* moves the others to later pages only.  Two things excuse it: an order that
\* leaves the filter moves the others up, and one created between the count
\* and the page of the last request is not in the total that ended the walk.
WalkComplete ==
    \A c \in Listers :
        lreq[c].pc = "walked" /\ ~lreq[c].late => lreq[c].owed = {}

\* Of the list of all orders, a page that totalPages promises has orders on it,
\* though total is read a statement earlier, and a page past the last one is
\* empty, as long as its offset fits an int.
TotalsHold ==
    \A c \in Listers :
        LET r == lreq[c]
        IN  r.pc = "answered" /\ r.filter = Missing /\ (r.page - 1) * r.limit <= MaxInt =>
                /\ r.page <= TotalPages(r.total, r.limit) => r.rows # {}
                /\ r.page > TotalPages(Cardinality(Matching(Missing)), r.limit) => r.rows = {}
=============================================================================
