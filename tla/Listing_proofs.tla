------------------------------ MODULE Listing_proofs ------------------------------
(***************************************************************************)
(* GET /orders for any number of orders, listers and pages: a walk misses  *)
(* no order, and totalPages does not lie, though the total and the page    *)
(* are read in two statements while orders are created and change.         *)
(*                                                                         *)
(* An order's place in a list is its rank, the number of newer orders of   *)
(* the list.  A new order can only raise the ranks of those there are, so  *)
(* what a walk still owes stays beyond the page it has come to.            *)
(***************************************************************************)
EXTENDS Server_proofs, FiniteSetTheorems

\* The place of an order in a list of orders, newest first.
Rank(S, o) == Cardinality({p \in S : p > o})

\* Orders are finitely many, at most MaxOrders.
LEMMA OrdersFinite ==
  ASSUME NEW S \in SUBSET OrderNo
  PROVE  IsFiniteSet(S) /\ Cardinality(S) \in Nat /\ Cardinality(S) <= MaxOrders
<1>1. IsFiniteSet(OrderNo) /\ Cardinality(OrderNo) = MaxOrders
  BY FS_Interval, LimitsAssumption DEF OrderNo
<1>2. IsFiniteSet(S) /\ Cardinality(S) <= Cardinality(OrderNo)
  BY <1>1, FS_Subset
<1>. QED  BY <1>1, <1>2, FS_CardinalityType

\* The last place is below the length of the list, and a longer list moves its
\* members to later places only.
LEMMA RankBounds ==
  ASSUME NEW S \in SUBSET OrderNo, NEW o \in S
  PROVE  Rank(S, o) \in Nat /\ Rank(S, o) < Cardinality(S)
<1> DEFINE T == {p \in S : p > o}
<1>0. o \in Int
  BY LimitsAssumption DEF OrderNo
<1>1. T \in SUBSET OrderNo /\ T \in SUBSET S /\ o \notin T
  <2>1. ~(o > o)
    BY <1>0
  <2>. QED  BY <2>1
<1>2. T # S
  BY <1>1
<1> HIDE DEF T
<1>3. IsFiniteSet(S) /\ Cardinality(S) \in Nat /\ Cardinality(T) \in Nat
  BY <1>1, OrdersFinite
<1>4. Cardinality(T) <= Cardinality(S) /\ (Cardinality(S) = Cardinality(T) => S = T)
  BY <1>1, <1>3, FS_Subset
<1>5. Cardinality(T) < Cardinality(S)
  BY <1>2, <1>3, <1>4
<1>. QED  BY <1>3, <1>5 DEF Rank, T

LEMMA RankGrows ==
  ASSUME NEW R \in SUBSET OrderNo, NEW S \in SUBSET R, NEW o \in OrderNo
  PROVE  Rank(S, o) \in Nat /\ Rank(R, o) \in Nat /\ Rank(S, o) <= Rank(R, o)
<1> DEFINE T == {p \in S : p > o}
           U == {p \in R : p > o}
<1>1. T \in SUBSET OrderNo /\ U \in SUBSET OrderNo /\ T \in SUBSET U
  OBVIOUS
<1> HIDE DEF T, U
<1>2. IsFiniteSet(U) /\ Cardinality(T) \in Nat /\ Cardinality(U) \in Nat
  BY <1>1, OrdersFinite
<1>3. Cardinality(T) <= Cardinality(U)
  BY <1>1, <1>2, FS_Subset
<1>. QED  BY <1>2, <1>3 DEF Rank, T, U

\* Orders have a first and a last.
LEMMA FirstOrder ==
  ASSUME NEW S \in SUBSET Nat, S # {}
  PROVE  \E m \in S : \A n \in S : m <= n
<1>1. PICK m \in S : \A n \in S : <<n, m>> \notin OpToRel(<, Nat)
  BY NatLessThanWellFounded, WFMin
<1>2. ASSUME NEW n \in S, n < m PROVE FALSE
  BY <1>1, <1>2 DEF OpToRel
<1>. QED  BY <1>2

LEMMA LastOrder ==
  ASSUME NEW S \in SUBSET OrderNo, S # {}
  PROVE  \E m \in S : \A n \in S : n <= m
<1> DEFINE Back == {MaxOrders - n : n \in S}
<1>1. MaxOrders \in Nat /\ S \subseteq Int /\ \A n \in S : n <= MaxOrders
  BY LimitsAssumption DEF OrderNo
<1>2. Back \in SUBSET Nat /\ Back # {}
  BY <1>1
<1>3. PICK b \in Back : \A a \in Back : b <= a
  <2> HIDE DEF Back
  <2>. QED  BY <1>2, FirstOrder
<1>4. PICK m \in S : b = MaxOrders - m
  OBVIOUS
<1>5. ASSUME NEW n \in S PROVE n <= m
  <2>1. b <= MaxOrders - n
    BY <1>3
  <2>. QED  BY <1>1, <1>4, <2>1
<1>. QED  BY <1>5

\* Every place of a list is taken.  Among the orders at place k or before, take
\* the oldest: if it were before place k, the next older order would be one
\* place after it, and so at place k or before.
LEMMA PlaceTaken ==
  ASSUME NEW S \in SUBSET OrderNo, NEW k \in Nat, k < Cardinality(S)
  PROVE  \E o \in S : Rank(S, o) = k
<1> DEFINE G == {o \in S : Rank(S, o) <= k}
<1>0. /\ IsFiniteSet(S) /\ Cardinality(S) \in Nat
      /\ \A o \in S : o \in Nat /\ o \in Int /\ Rank(S, o) \in Nat
  BY OrdersFinite, RankBounds, LimitsAssumption DEF OrderNo
<1>1. S # {}
  <2>1. Cardinality({}) = 0
    BY FS_EmptySet
  <2>. QED  BY <1>0, <2>1
<1>2. G # {}
  <2>1. PICK o \in S : \A n \in S : n <= o
    BY <1>1, LastOrder
  <2>2. {p \in S : p > o} = {}
    <3>1. \A p \in S : ~(p > o)
      BY <1>0, <2>1
    <3>. QED  BY <3>1
  <2>3. Rank(S, o) = 0
    BY <2>2, FS_EmptySet DEF Rank
  <2>. QED  BY <2>3
<1>3. PICK m \in G : \A n \in G : m <= n
  <2>1. G \in SUBSET Nat
    BY <1>0
  <2> HIDE DEF G
  <2>. QED  BY <1>2, <2>1, FirstOrder
<1>4. Rank(S, m) = k
  <2> SUFFICES ASSUME Rank(S, m) < k PROVE FALSE
    BY <1>0
  <2> DEFINE T == {p \in S : p > m}
             L == {p \in S : p < m}
  <2>0. m \in S /\ m \in Int /\ ~(m > m)
    BY <1>0
  <2>1. T \in SUBSET OrderNo /\ L \in SUBSET OrderNo /\ m \in S /\ m \notin T
    BY <2>0
  <2>2. IsFiniteSet(T) /\ Cardinality(T) = Rank(S, m)
    BY <2>1, OrdersFinite DEF Rank
  <2>3. Cardinality(T \cup {m}) = Rank(S, m) + 1
    <3> HIDE DEF T
    <3>. QED  BY <2>1, <2>2, FS_AddElement
  <2>4. CASE L = {}
    <3>1. S = T \cup {m}
      <4>1. \A p \in S : p > m \/ p = m
        BY <1>0, <2>0, <2>4
      <4>. QED  BY <2>1, <4>1
    <3>. QED  BY <1>0, <2>1, <2>3, <3>1
  <2>5. CASE L # {}
    <3>1. PICK l \in L : \A n \in L : n <= l
      <4> HIDE DEF L
      <4>. QED  BY <2>1, <2>5, LastOrder
    <3>2. {p \in S : p > l} = T \cup {m}
      <4>1. l \in S /\ l < m /\ l \in Int
        BY <1>0
      <4>2. \A p \in S : p > l <=> p > m \/ p = m
        BY <1>0, <2>0, <3>1, <4>1
      <4>. QED  BY <2>1, <4>2
    <3>3. Rank(S, l) = Rank(S, m) + 1
      BY <2>3, <3>2 DEF Rank
    <3>4. l \in G
      BY <1>0, <2>1, <3>3
    <3>5. m <= l
      BY <1>3, <3>4
    <3>. QED  BY <1>0, <2>1, <3>1, <3>5
  <2>. QED  BY <2>4, <2>5
<1>. QED  BY <1>4
-----------------------------------------------------------------------------
(* The arithmetic of pages. *)

\* totalPages promises a page exactly when the total goes beyond those before.
LEMMA PagePromised ==
  ASSUME NEW total \in Nat, NEW limit \in Nat \ {0}, NEW page \in Nat \ {0}
  PROVE  page <= TotalPages(total, limit) <=> (page - 1) * limit < total
<1> DEFINE a == total + limit - 1
           q == a \div limit
<1>1. a \in Nat /\ q \in Int /\ a = limit * q + (a % limit) /\ a % limit \in 0 .. limit - 1
  OBVIOUS
<1> HIDE DEF a, q
<1>2. page <= q <=> page * limit <= a
  <2>1. ASSUME page <= q PROVE page * limit <= a
    <3>1. page * limit <= q * limit
      BY <1>1, <2>1
    <3>. QED  BY <1>1, <3>1
  <2>2. ASSUME page > q PROVE page * limit > a
    <3>1. page - (q + 1) \in Nat
      BY <1>1, <2>2
    <3>2. (page - (q + 1)) * limit >= 0
      BY <3>1
    <3>3. page * limit >= (q + 1) * limit
      BY <1>1, <3>2
    <3>. QED  BY <1>1, <3>3
  <2>. QED  BY <1>1, <2>1, <2>2
<1>3. page * limit <= a <=> (page - 1) * limit < total
  BY DEF a
<1>. QED  BY <1>2, <1>3 DEF TotalPages, a, q

\* An offset an int holds is the one meant.
LEMMA OffsetFits ==
  ASSUME NEW page \in Nat \ {0}, NEW limit \in Nat, (page - 1) * limit <= MaxInt
  PROVE  Offset(page, limit) = (page - 1) * limit /\ (page - 1) * limit \in Nat
<1> DEFINE n == (page - 1) * limit
<1>1. n \in Nat
  OBVIOUS
<1> HIDE DEF n
<1>2. Half \in Nat /\ n + Half \in Nat /\ n + Half < 2 * Half
  BY <1>1, LimitsAssumption DEF MaxInt, n
<1>3. (n + Half) % (2 * Half) = n + Half
  BY <1>2
<1>. QED  BY <1>1, <1>2, <1>3 DEF Offset, Wrapped, n
LEMMA PagesNumber ==
  ASSUME NEW total \in Nat, NEW limit \in Nat
  PROVE  TotalPages(total, limit) \in Int
<1>1. ASSUME limit > 0, total > 0 PROVE (total + limit - 1) \div limit \in Int
  BY <1>1
<1>. QED  BY <1>1 DEF TotalPages
-----------------------------------------------------------------------------
(* What holds of the request r of a lister when S are the orders its       *)
(* filter lets through.                                                    *)

ListRecord ==
    [pc : {"idle", "count", "select", "answered", "walked"}, page : Nat, limit : Nat,
     filter : Filters \cup {Missing}, total : 0 .. MaxOrders, rows : SUBSET OrderNo,
     walking : BOOLEAN, owed : SUBSET OrderNo, late : BOOLEAN]

Asked(r) ==
    /\ r \in ListRecord
    /\ r.pc = "idle" => ~r.walking
    /\ r.pc = "walked" => r.walking
    /\ r.pc # "idle" => r.page > 0 /\ r.limit \in 1 .. MaxLimit

\* What a walk owes lies at or beyond the page it asks for, and beyond the page
\* it was answered; so does the total that will tell it to go on, unless an
\* order came too late to be counted.
Owing(r, S) ==
    r.walking =>
        /\ (r.page - 1) * r.limit <= MaxOrders
        /\ r.owed \subseteq S
        /\ r.pc \in {"count", "select"} =>
               \A o \in r.owed : Rank(S, o) >= (r.page - 1) * r.limit
        /\ r.pc = "answered" => \A o \in r.owed : Rank(S, o) >= r.page * r.limit
        /\ r.pc = "select" /\ ~r.late => Cardinality(S) <= r.total
        /\ r.pc = "answered" /\ ~r.late /\ r.owed # {} => r.page * r.limit < r.total
        /\ r.pc = "walked" /\ ~r.late => r.owed = {}

\* The list of all orders only grows: it is no shorter than it was counted.
Counting(r, S) ==
    r.pc \in {"select", "answered"} /\ r.filter = Missing /\ (r.page - 1) * r.limit <= MaxInt =>
        /\ r.total <= Cardinality(S)
        /\ r.pc = "answered" =>
               /\ (r.page - 1) * r.limit < r.total => r.rows # {}
               /\ r.rows # {} => (r.page - 1) * r.limit < Cardinality(S)

Listable(r, S) == Asked(r) /\ Owing(r, S) /\ Counting(r, S)

\* Matching, of a given table.
MatchingIn(table, filter) ==
    {o \in OrderNo : table[o] # "ABSENT" /\ (filter = Missing \/ table[o] = filter)}

ListingInv ==
    /\ lreq = [c \in Listers |-> lreq[c]]
    /\ \A c \in Listers : Listable(lreq[c], MatchingIn(rows, lreq[c].filter))

LEMMA IdleListable == ASSUME NEW S PROVE Listable(ListIdle, S)
<1>1. ListIdle \in ListRecord
  BY LimitsAssumption DEF ListIdle, ListRecord
<1>. QED  BY <1>1 DEF Listable, Asked, Owing, Counting, ListIdle

\* The parameters as they are read.
LEMMA ParametersRead ==
  ASSUME NEW page, NEW limit
  PROVE  /\ queryInt(page, 1) \in Nat \ {0}
         /\ Clamped(queryInt(limit, DefaultLimit)) \in 1 .. MaxLimit
<1>1. queryInt(page, 1) \in Nat \ {0}
  BY LimitsAssumption DEF queryInt, MaxInt
<1>2. queryInt(limit, DefaultLimit) \in Nat \ {0}
  BY LimitsAssumption DEF queryInt, MaxInt
<1>. QED  BY <1>1, <1>2, LimitsAssumption DEF Clamped

\* A request for a page: a walk starts at the first one, and owes the list.
LEMMA FirstListable ==
  ASSUME NEW S \in SUBSET OrderNo, NEW l \in 1 .. MaxLimit, NEW filter \in Filters,
         NEW q, q = [pc |-> "count", page |-> 1, limit |-> l, filter |-> filter, total |-> 0,
                     rows |-> {}, walking |-> TRUE, owed |-> S, late |-> FALSE]
  PROVE  Listable(q, S) /\ q.filter = filter
<1>1. l \in Nat /\ 0 \in 0 .. MaxOrders /\ MaxOrders \in Nat
  BY LimitsAssumption
<1>2. q \in ListRecord
  BY <1>1 DEF ListRecord
<1>3. (1 - 1) * l = 0 /\ \A o \in S : Rank(S, o) >= 0
  BY <1>1, RankBounds
<1>. QED  BY <1>1, <1>2, <1>3 DEF Listable, Asked, Owing, Counting

LEMMA PageListable ==
  ASSUME NEW S \in SUBSET OrderNo, NEW p \in Nat \ {0}, NEW l \in 1 .. MaxLimit,
         NEW filter \in Filters,
         NEW q, q = [pc |-> "count", page |-> p, limit |-> l, filter |-> filter, total |-> 0,
                     rows |-> {}, walking |-> FALSE, owed |-> {}, late |-> FALSE]
  PROVE  Listable(q, S) /\ q.filter = filter
<1>1. l \in Nat /\ 0 \in 0 .. MaxOrders
  BY LimitsAssumption
<1>2. q \in ListRecord
  BY <1>1 DEF ListRecord
<1>. QED  BY <1>1, <1>2 DEF Listable, Asked, Owing, Counting

\* The count.
LEMMA CountListable ==
  ASSUME NEW S \in SUBSET OrderNo, NEW r, Listable(r, S), r.pc = "count",
         NEW q, q = [r EXCEPT !.pc = "select", !.late = FALSE, !.total = Cardinality(S)]
  PROVE  Listable(q, S) /\ q.filter = r.filter
<1>0. r \in ListRecord /\ Cardinality(S) \in 0 .. MaxOrders
  BY OrdersFinite, LimitsAssumption DEF Listable, Asked
<1>1. /\ q.pc = "select" /\ q.late = FALSE /\ q.total = Cardinality(S) /\ q.page = r.page
      /\ q.limit = r.limit /\ q.filter = r.filter /\ q.walking = r.walking /\ q.owed = r.owed
      /\ q.rows = r.rows
  BY <1>0 DEF ListRecord
<1>2. Asked(q)
  <2>1. q \in ListRecord
    BY <1>0 DEF ListRecord
  <2>. QED  BY <1>1, <2>1 DEF Listable, Asked
<1>3. Owing(q, S)
  BY <1>0, <1>1 DEF Listable, Owing
<1>4. Counting(q, S)
  BY <1>0, <1>1 DEF Counting
<1>. QED  BY <1>1, <1>2, <1>3, <1>4 DEF Listable

\* The page.  What a walk is still owed was at its offset or beyond, and not on
\* the page, so it is beyond the page.
LEMMA SelectListable ==
  ASSUME NEW S \in SUBSET OrderNo, NEW r, Listable(r, S), r.pc = "select",
         ~(Offset(r.page, r.limit) < 0),
         NEW q, q = [r EXCEPT !.pc = "answered",
                        !.rows = Newest(S, Offset(r.page, r.limit), r.limit),
                        !.owed = @ \ Newest(S, Offset(r.page, r.limit), r.limit)]
  PROVE  Listable(q, S) /\ q.filter = r.filter
<1> DEFINE n == (r.page - 1) * r.limit
           offset == Offset(r.page, r.limit)
           found == Newest(S, offset, r.limit)
<1>0. /\ r \in ListRecord /\ r.page \in Nat \ {0} /\ r.limit \in 1 .. MaxLimit
      /\ r.limit \in Nat /\ MaxLimit \in Nat /\ r.total \in Nat /\ found \in SUBSET S
  BY LimitsAssumption DEF Listable, Asked, ListRecord, Newest
<1>1. /\ q.pc = "answered" /\ q.late = r.late /\ q.total = r.total /\ q.page = r.page
      /\ q.limit = r.limit /\ q.filter = r.filter /\ q.walking = r.walking
      /\ q.owed = r.owed \ found /\ q.rows = found
  BY <1>0 DEF ListRecord
<1>2. Asked(q)
  <2>1. q \in ListRecord
    BY <1>0 DEF ListRecord
  <2>. QED  BY <1>0, <1>1, <2>1 DEF Listable, Asked
<1>3. n \in Nat /\ (n <= MaxInt => offset = n)
  <2>1. n \in Nat
    BY <1>0
  <2>. QED  BY <1>0, <2>1, OffsetFits
<1>4. n + r.limit = r.page * r.limit
  BY <1>0
<1> HIDE DEF n, offset
<1>5. \A o \in S : Rank(S, o) \in Nat /\ Rank(S, o) < Cardinality(S)
  BY RankBounds
<1>6. \A o \in S : o \in found <=> Rank(S, o) \in offset .. offset + r.limit - 1
  BY Zenon DEF Newest, Rank
<1> HIDE DEF found
<1>7. Cardinality(S) \in Nat /\ Cardinality(S) <= MaxOrders
  BY OrdersFinite
<1>8. Owing(q, S)
  <2> SUFFICES ASSUME r.walking PROVE Owing(q, S)
    BY <1>1 DEF Owing
  <2>1. /\ n <= MaxOrders /\ r.owed \subseteq S
        /\ \A o \in r.owed : Rank(S, o) >= n
        /\ ~r.late => Cardinality(S) <= r.total
    BY DEF Listable, Owing, n
  <2>2. offset = n
    BY <1>3, <2>1, LimitsAssumption DEF MaxInt
  <2>3. ASSUME NEW o \in r.owed \ found PROVE Rank(S, o) >= r.page * r.limit
    <3>1. o \in S /\ Rank(S, o) \in Nat /\ Rank(S, o) >= n /\ ~(Rank(S, o) \in n .. n + r.limit - 1)
      BY <1>5, <1>6, <2>1, <2>2
    <3>2. Rank(S, o) >= n + r.limit
      BY <1>0, <1>3, <3>1
    <3>. QED  BY <1>4, <3>2
  <2>4. ASSUME ~r.late, NEW o \in r.owed \ found PROVE r.page * r.limit < r.total
    <3>1. r.page * r.limit \in Nat
      BY <1>0
    <3> DEFINE m == r.page * r.limit
    <3>2. m \in Nat /\ Rank(S, o) >= m
      BY <2>3, <3>1
    <3> HIDE DEF m
    <3>3. Rank(S, o) \in Nat /\ Rank(S, o) < Cardinality(S) /\ Cardinality(S) <= r.total
      BY <1>5, <2>1, <2>4
    <3>4. m < r.total
      BY <1>0, <1>7, <3>2, <3>3
    <3>. QED  BY <3>4 DEF m
  <2>. QED  BY <1>1, <2>1, <2>3, <2>4 DEF Owing, n
<1>9. Counting(q, S)
  <2> SUFFICES ASSUME r.filter = Missing, n <= MaxInt
               PROVE  /\ r.total <= Cardinality(S)
                      /\ n < r.total => found # {}
                      /\ found # {} => n < Cardinality(S)
    BY <1>1 DEF Counting, n
  <2>1. r.total <= Cardinality(S) /\ offset = n
    BY <1>3 DEF Listable, Counting, n
  <2>2. ASSUME n < r.total PROVE found # {}
    <3>1. n < Cardinality(S)
      BY <1>0, <1>3, <1>7, <2>1, <2>2
    <3>2. PICK o \in S : Rank(S, o) = n
      BY <1>3, <3>1, PlaceTaken
    <3>3. n \in n .. n + r.limit - 1
      BY <1>0, <1>3
    <3>4. o \in found
      BY <1>6, <2>1, <3>2, <3>3
    <3>. QED  BY <3>4
  <2>3. ASSUME NEW o \in found PROVE n < Cardinality(S)
    <3>1. o \in S /\ Rank(S, o) \in n .. n + r.limit - 1
      BY <1>0, <1>6, <2>1
    <3>. QED  BY <1>0, <1>3, <1>5, <1>7, <3>1
  <2>. QED  BY <2>1, <2>2, <2>3
<1>. QED  BY <1>1, <1>2, <1>8, <1>9 DEF Listable

\* The answer of a walk is read: it ends when no page is promised after this
\* one, and then it is owed nothing, or asks for the page all it is owed is at.
LEMMA WalkedListable ==
  ASSUME NEW S \in SUBSET OrderNo, NEW r, Listable(r, S), r.pc = "answered", r.walking,
         r.page >= TotalPages(r.total, r.limit),
         NEW q, q = [r EXCEPT !.pc = "walked", !.rows = {}]
  PROVE  Listable(q, S) /\ q.filter = r.filter
<1>0. /\ r \in ListRecord /\ r.page \in Nat \ {0} /\ r.limit \in Nat \ {0}
      /\ r.limit \in 1 .. MaxLimit /\ r.total \in Nat
  BY LimitsAssumption DEF Listable, Asked, ListRecord
<1>1. /\ q.pc = "walked" /\ q.late = r.late /\ q.total = r.total /\ q.page = r.page
      /\ q.limit = r.limit /\ q.filter = r.filter /\ q.walking = r.walking /\ q.owed = r.owed
  BY <1>0 DEF ListRecord
<1>2. Asked(q)
  <2>1. q \in ListRecord
    BY <1>0 DEF ListRecord
  <2>. QED  BY <1>0, <1>1, <2>1 DEF Listable, Asked
<1>3. ~(r.page * r.limit < r.total)
  <2>1. r.page + 1 \in Nat \ {0} /\ (r.page + 1) - 1 = r.page
    BY <1>0
  <2>2. TotalPages(r.total, r.limit) \in Int
    BY <1>0, PagesNumber
  <2>3. ~(r.page + 1 <= TotalPages(r.total, r.limit))
    BY <1>0, <2>2
  <2>. QED  BY <1>0, <2>1, <2>3, PagePromised
<1>4. Owing(q, S)
  BY <1>1, <1>3 DEF Listable, Owing
<1>. QED  BY <1>1, <1>2, <1>4 DEF Listable, Counting

LEMMA NextListable ==
  ASSUME NEW S \in SUBSET OrderNo, NEW r, Listable(r, S), r.pc = "answered", r.walking,
         ~(r.page >= TotalPages(r.total, r.limit)),
         NEW q, q = [r EXCEPT !.pc = "count", !.page = @ + 1, !.rows = {}]
  PROVE  Listable(q, S) /\ q.filter = r.filter
<1>0. /\ r \in ListRecord /\ r.page \in Nat \ {0} /\ r.limit \in Nat \ {0}
      /\ r.limit \in 1 .. MaxLimit /\ r.total \in 0 .. MaxOrders /\ r.total \in Nat
  BY LimitsAssumption DEF Listable, Asked, ListRecord
<1>1. /\ q.pc = "count" /\ q.late = r.late /\ q.total = r.total /\ q.page = r.page + 1
      /\ q.limit = r.limit /\ q.filter = r.filter /\ q.walking = r.walking /\ q.owed = r.owed
  BY <1>0 DEF ListRecord
<1>2. Asked(q)
  <2>0. r.page + 1 \in Nat
    BY <1>0
  <2>1. q \in ListRecord
    <3> DEFINE p == r.page + 1
    <3>1. p \in Nat /\ q = [r EXCEPT !.pc = "count", !.page = p, !.rows = {}]
      BY <2>0
    <3> HIDE DEF p
    <3>. QED  BY <1>0, <3>1 DEF ListRecord
  <2>. QED  BY <1>0, <1>1, <2>1 DEF Listable, Asked
<1>3. r.page * r.limit <= MaxOrders
  <2>1. r.page + 1 \in Nat \ {0} /\ (r.page + 1) - 1 = r.page
    BY <1>0
  <2>2. TotalPages(r.total, r.limit) \in Int
    BY <1>0, PagesNumber
  <2>3. r.page + 1 <= TotalPages(r.total, r.limit)
    BY <1>0, <2>2
  <2>4. r.page * r.limit < r.total
    BY <1>0, <2>1, <2>3, PagePromised
  <2>5. r.page * r.limit \in Nat
    BY <1>0
  <2>. QED  BY <1>0, <2>4, <2>5, LimitsAssumption
<1>4. (q.page - 1) * q.limit = r.page * r.limit
  BY <1>0, <1>1
<1>5. Owing(q, S)
  BY <1>1, <1>3, <1>4 DEF Listable, Owing
<1>. QED  BY <1>1, <1>2, <1>5 DEF Listable, Counting

\* The orders change under a request.  The list may grow, and then a walk that
\* has counted it is late, or shrink, and then the walk is owed nothing.
LEMMA ChangeListable ==
  ASSUME NEW R \in SUBSET OrderNo, NEW S \in SUBSET OrderNo, NEW r, Listable(r, S),
         NEW q \in ListRecord,
         q.pc = r.pc, q.page = r.page, q.limit = r.limit, q.filter = r.filter,
         q.total = r.total, q.rows = r.rows, q.walking = r.walking,
         r.late => q.late,
         \/ S \subseteq R /\ q.owed = r.owed /\ (r.walking /\ r.pc = "select" /\ R # S => q.late)
         \/ R \subseteq S /\ q.owed = {} /\ r.filter # Missing
  PROVE  Listable(q, R)
<1>0. /\ r \in ListRecord /\ (r.pc # "idle" => r.limit \in 1 .. MaxLimit)
      /\ r.page \in Nat /\ r.limit \in Nat /\ r.total \in Nat /\ MaxLimit \in Nat
  BY LimitsAssumption DEF Listable, Asked, ListRecord
<1>1. Asked(q)
  BY DEF Listable, Asked
<1>2. /\ IsFiniteSet(R) /\ IsFiniteSet(S) /\ Cardinality(R) \in Nat /\ Cardinality(S) \in Nat
  BY OrdersFinite
<1>3. CASE S \subseteq R /\ q.owed = r.owed /\ (r.walking /\ r.pc = "select" /\ R # S => q.late)
  <2>1. Cardinality(S) <= Cardinality(R)
    BY <1>2, <1>3, FS_Subset
  <2>2. \A o \in OrderNo : Rank(S, o) \in Nat /\ Rank(R, o) \in Nat /\ Rank(S, o) <= Rank(R, o)
    BY <1>3, RankGrows
  <2>3. \A k \in Nat, o \in OrderNo : Rank(S, o) >= k => Rank(R, o) >= k
    BY <2>2
  <2>4. (r.page - 1) * r.limit \in Int /\ r.page * r.limit \in Nat
    BY <1>0
  <2>5. ASSUME r.walking PROVE Owing(q, R)
    <3>0. r.pc # "idle" /\ r.page > 0 /\ r.owed \in SUBSET OrderNo
      BY <1>0, <2>5 DEF Listable, Asked, Owing
    <3>1. (r.page - 1) * r.limit \in Nat
      BY <1>0, <3>0
    <3>2. r.pc \in {"count", "select"} =>
             \A o \in q.owed : Rank(R, o) >= (q.page - 1) * q.limit
      BY <1>3, <2>3, <2>5, <3>0, <3>1 DEF Listable, Owing
    <3>3. r.pc = "answered" => \A o \in q.owed : Rank(R, o) >= q.page * q.limit
      BY <1>3, <2>3, <2>4, <2>5, <3>0 DEF Listable, Owing
    <3>. QED  BY <1>3, <2>5, <3>2, <3>3 DEF Listable, Owing
  <2>6. Counting(q, R)
    <3> DEFINE n == (r.page - 1) * r.limit
    <3>1. n \in Int
      BY <2>4
    <3>2. ASSUME n < Cardinality(S) PROVE n < Cardinality(R)
      <4> HIDE DEF n
      <4>. QED  BY <1>2, <2>1, <3>1, <3>2
    <3>3. r.total <= Cardinality(S) => r.total <= Cardinality(R)
      BY <1>0, <1>2, <2>1
    <3>. QED  BY <3>2, <3>3 DEF Listable, Counting
  <2>7. Owing(q, R)
    BY <2>5 DEF Owing
  <2>. QED  BY <1>1, <2>6, <2>7 DEF Listable
<1>4. CASE R \subseteq S /\ q.owed = {} /\ r.filter # Missing
  <2>1. Cardinality(R) <= Cardinality(S)
    BY <1>2, <1>4, FS_Subset
  <2>2. Counting(q, R)
    BY <1>4 DEF Counting
  <2>3. Owing(q, R)
    <3>1. Cardinality(S) <= r.total => Cardinality(R) <= q.total
      BY <1>0, <1>2, <2>1
    <3>. QED  BY <1>4, <3>1 DEF Listable, Owing
  <2>. QED  BY <1>1, <2>2, <2>3 DEF Listable
<1>. QED  BY <1>3, <1>4
-----------------------------------------------------------------------------
(* The steps of the process. *)

\* What a step can do to the list and to the requests for it.
LEMMA ListKinds ==
  ASSUME [ServerNext]_serverVars
  PROVE  \/ \E c \in Listers, filter \in Filters : \E page, limit : ListOrders(c, page, limit, filter)
         \/ \E c \in Listers : ListNext(c)
         \/ \E o \in OrderNo, s \in OrderStatus : OrderBecomes(o, s)
         \/ UNCHANGED rows /\ lreq' = [c \in Listers |-> ListIdle]
         \/ UNCHANGED <<rows, lreq>>
<1>1. ASSUME NEW c \in Listers, ListRequest(c)
      PROVE  \/ \E filter \in Filters : \E page, limit : ListOrders(c, page, limit, filter)
             \/ ListNext(c)
  BY <1>1, Zenon DEF ListRequest
<1>2. ASSUME NEW route, NEW claims, Request(route, claims)
      PROVE  \E o \in OrderNo, s \in OrderStatus : OrderBecomes(o, s)
  <2>1. Effect(route, claims)
    BY <1>2, Zenon DEF Request
  <2>2. "OPEN" \in OrderStatus
    BY DEF OrderStatus
  <2>. QED  BY <2>1, <2>2, Zenon DEF Effect
<1>3. ASSUME \/ \E e \in Environment, database, provider \in BOOLEAN : Start(e, database, provider)
             \/ Stop
      PROVE  UNCHANGED <<rows, lreq>>
  BY <1>3, Zenon DEF Start, Stop
<1>4. ASSUME Exit PROVE UNCHANGED rows /\ lreq' = [c \in Listers |-> ListIdle]
  BY <1>4 DEF Exit
<1>5. ASSUME UNCHANGED serverVars PROVE UNCHANGED <<rows, lreq>>
  BY <1>5 DEF serverVars
<1>. QED  BY <1>1, <1>2, <1>3, <1>4, <1>5, Zenon DEF ServerNext

LEMMA MatchingIs ==
  ASSUME NEW filter
  PROVE  Matching(filter) = MatchingIn(rows, filter) /\ Matching(filter) \in SUBSET OrderNo
BY DEF Matching, MatchingIn, Exists

\* A statement, or a request, of one lister.
LEMMA OneListed ==
  ASSUME ListingInv, NEW c \in Listers, NEW q, Listed(c, q),
         Listable(q, MatchingIn(rows, q.filter))
  PROVE  ListingInv'
<1>1. lreq = [d \in Listers |-> lreq[d]] /\ rows' = rows
  BY DEF ListingInv, Listed
<1>2. lreq' = [d \in Listers |-> IF d = c THEN q ELSE lreq[d]]
  BY <1>1 DEF Listed
<1>3. ASSUME NEW d \in Listers
      PROVE  Listable(lreq'[d], MatchingIn(rows', lreq'[d].filter))
  <2>1. CASE d = c
    BY <1>1, <1>2, <2>1
  <2>2. CASE d # c
    <3>1. lreq'[d] = lreq[d]
      BY <1>2, <2>2
    <3>. QED  BY <1>1, <3>1 DEF ListingInv
  <2>. QED  BY <2>1, <2>2
<1>4. lreq' = [d \in Listers |-> lreq'[d]]
  BY <1>2
<1>. QED  BY <1>3, <1>4 DEF ListingInv

LEMMA ListStep ==
  ASSUME ListingInv, NEW c \in Listers, ListNext(c)
  PROVE  ListingInv'
<1> DEFINE r == lreq[c]
           S == Matching(r.filter)
<1>0. S \in SUBSET OrderNo /\ Listable(r, S)
  BY MatchingIs DEF ListingInv
<1>1. CASE ListCount(c)
  <2> DEFINE q == [r EXCEPT !.pc = "select", !.late = FALSE, !.total = Cardinality(S)]
  <2>1. r.pc = "count" /\ Listed(c, q)
    BY <1>1 DEF ListCount
  <2>2. Listable(q, S) /\ q.filter = r.filter
    <3> HIDE DEF r, S
    <3>. QED  BY <1>0, <2>1, CountListable
  <2> HIDE DEF q
  <2>. QED  BY <2>1, <2>2, MatchingIs, OneListed
<1>2. CASE ListSelect(c) /\ Listed(c, ListIdle)
  BY <1>2, IdleListable, MatchingIs, OneListed
<1>3. CASE ListSelect(c) /\ ~Listed(c, ListIdle)
  <2> DEFINE offset == Offset(r.page, r.limit)
             found == Newest(S, offset, r.limit)
             q == [r EXCEPT !.pc = "answered", !.rows = found, !.owed = @ \ found]
  <2>1. r.pc = "select" /\ ~(offset < 0) /\ Listed(c, q)
    BY <1>3 DEF ListSelect
  <2>2. Listable(q, S) /\ q.filter = r.filter
    <3> HIDE DEF r, S
    <3>. QED  BY <1>0, <2>1, SelectListable
  <2> HIDE DEF q
  <2>. QED  BY <2>1, <2>2, MatchingIs, OneListed
<1>4. CASE ListAnswer(c)
  <2>1. r.pc = "answered"
    BY <1>4 DEF ListAnswer
  <2>2. CASE ~r.walking
    <3>1. Listed(c, ListIdle)
      BY <1>4, <2>2 DEF ListAnswer
    <3>. QED  BY <3>1, IdleListable, MatchingIs, OneListed
  <2>3. CASE r.walking /\ r.page >= TotalPages(r.total, r.limit)
    <3> DEFINE q == [r EXCEPT !.pc = "walked", !.rows = {}]
    <3>1. Listed(c, q)
      BY <1>4, <2>3 DEF ListAnswer
    <3>2. Listable(q, S) /\ q.filter = r.filter
      <4> HIDE DEF r, S
      <4>. QED  BY <1>0, <2>1, <2>3, WalkedListable
    <3> HIDE DEF q
    <3>. QED  BY <3>1, <3>2, MatchingIs, OneListed
  <2>4. CASE r.walking /\ ~(r.page >= TotalPages(r.total, r.limit))
    <3> DEFINE q == [r EXCEPT !.pc = "count", !.page = @ + 1, !.rows = {}]
    <3>1. Listed(c, q)
      BY <1>4, <2>4 DEF ListAnswer
    <3>2. Listable(q, S) /\ q.filter = r.filter
      <4> HIDE DEF r, S
      <4>. QED  BY <1>0, <2>1, <2>4, NextListable
    <3> HIDE DEF q
    <3>. QED  BY <3>1, <3>2, MatchingIs, OneListed
  <2>. QED  BY <2>2, <2>3, <2>4
<1>5. CASE ListEnd(c)
  <2>1. Listed(c, ListIdle)
    BY <1>5 DEF ListEnd
  <2>. QED  BY <2>1, IdleListable, MatchingIs, OneListed
<1>. QED  BY <1>1, <1>2, <1>3, <1>4, <1>5 DEF ListNext

LEMMA OrdersStep ==
  ASSUME ListingInv, NEW c \in Listers, NEW page, NEW limit, NEW filter \in Filters,
         ListOrders(c, page, limit, filter)
  PROVE  ListingInv'
<1> DEFINE p == queryInt(page, 1)
           l == Clamped(queryInt(limit, DefaultLimit))
           S == Matching(filter)
           asked == [ListIdle EXCEPT !.pc = "count", !.page = p, !.limit = l, !.filter = filter,
                        !.walking = (p = 1), !.owed = IF p = 1 THEN S ELSE {}]
<1>0. Listed(c, asked)
  BY Zenon DEF ListOrders
<1>1. p \in Nat \ {0} /\ l \in 1 .. MaxLimit /\ S \in SUBSET OrderNo
  BY ParametersRead, MatchingIs
<1>2. CASE p = 1
  <2> DEFINE q == [pc |-> "count", page |-> 1, limit |-> l, filter |-> filter, total |-> 0,
                   rows |-> {}, walking |-> TRUE, owed |-> S, late |-> FALSE]
  <2>1. Listed(c, q)
    <3>1. ASSUME NEW x, x = asked PROVE x = q
      BY <1>2, <3>1 DEF ListIdle
    <3> HIDE DEF asked, q
    <3>. QED  BY <1>0, <3>1
  <2>2. Listable(q, S) /\ q.filter = filter
    <3> HIDE DEF p, l, S
    <3>. QED  BY <1>1, FirstListable
  <2> HIDE DEF q
  <2>. QED  BY <2>1, <2>2, MatchingIs, OneListed
<1>3. CASE p # 1
  <2> DEFINE q == [pc |-> "count", page |-> p, limit |-> l, filter |-> filter, total |-> 0,
                   rows |-> {}, walking |-> FALSE, owed |-> {}, late |-> FALSE]
  <2>1. Listed(c, q)
    <3>1. ASSUME NEW x, x = asked PROVE x = q
      BY <1>3, <3>1 DEF ListIdle
    <3> HIDE DEF asked, q
    <3>. QED  BY <1>0, <3>1
  <2>2. Listable(q, S) /\ q.filter = filter
    <3> HIDE DEF p, l, S
    <3>. QED  BY <1>1, PageListable
  <2> HIDE DEF q
  <2>. QED  BY <2>1, <2>2, MatchingIs, OneListed
<1>. QED  BY <1>2, <1>3

\* An order is created or changes its status.
LEMMA ChangeStep ==
  ASSUME ServerInv, ListingInv, NEW o \in OrderNo, NEW s \in OrderStatus, OrderBecomes(o, s)
  PROVE  ListingInv'
<1>1. rows' = [rows EXCEPT ![o] = s] /\ rows \in [OrderNo -> OrderStatus \cup {"ABSENT"}]
  BY DEF ServerInv, OrderBecomes
<1>2. s # "ABSENT"
  BY DEF OrderStatus
<1>3. ASSUME NEW filter
      PROVE  /\ filter \in {Missing, s} =>
                    MatchingIn(rows', filter) = MatchingIn(rows, filter) \cup {o}
             /\ filter \notin {Missing, s} =>
                    MatchingIn(rows', filter) = MatchingIn(rows, filter) \ {o}
  BY <1>1, <1>2 DEF MatchingIn
<1>4. ASSUME NEW c \in Listers
      PROVE  Listable(lreq'[c], MatchingIn(rows', lreq'[c].filter))
  <2> DEFINE r == lreq[c]
             S == MatchingIn(rows, r.filter)
             R == MatchingIn(rows', r.filter)
             before == o \in S
             after == r.filter \in {Missing, s}
             late == r.late \/ (r.walking /\ r.pc = "select" /\ ~before /\ after)
             owed == IF before /\ ~after THEN {} ELSE r.owed
             q == [r EXCEPT !.owed = owed, !.late = late]
  <2>1. lreq'[c] = q
    <3>1. Matching(r.filter) = S
      BY MatchingIs
    <3>2. lreq'[c] = [r EXCEPT
             !.owed = IF o \in Matching(r.filter) /\ ~after THEN {} ELSE r.owed,
             !.late = r.late \/ (r.walking /\ r.pc = "select"
                                   /\ ~(o \in Matching(r.filter)) /\ after)]
      BY Zenon DEF OrderBecomes
    <3>. QED  BY <3>1, <3>2, Zenon
  <2>2. S \in SUBSET OrderNo /\ R \in SUBSET OrderNo /\ Listable(r, S)
    BY DEF ListingInv, MatchingIn
  <2>3. r \in ListRecord /\ owed \in SUBSET OrderNo /\ r.late \in BOOLEAN
    BY <2>2 DEF Listable, Asked, ListRecord
  <2>4. late \in BOOLEAN /\ (r.late => late)
        /\ (r.walking /\ r.pc = "select" /\ ~before /\ after => late)
    BY <2>3, Zenon
  <2>5. \/ R = S /\ owed = r.owed
        \/ S \subseteq R /\ owed = r.owed /\ ~before /\ after
        \/ R \subseteq S /\ owed = {} /\ r.filter # Missing
    <3>1. CASE after
      <4>1. R = S \cup {o}
        BY <1>3, <3>1
      <4>2. owed = r.owed
        BY <3>1
      <4> HIDE DEF R, owed, S
      <4>. QED  BY <3>1, <4>1, <4>2
    <3>2. CASE ~after
      <4>1. R = S \ {o} /\ r.filter # Missing
        BY <1>3, <3>2
      <4>2. owed = IF before THEN {} ELSE r.owed
        BY <3>2
      <4> HIDE DEF R, owed, S
      <4>. QED  BY <4>1, <4>2
    <3>. QED  BY <3>1, <3>2
  <2> HIDE DEF before, after, late, owed
  <2>6. /\ q \in ListRecord /\ q.pc = r.pc /\ q.page = r.page /\ q.limit = r.limit
        /\ q.filter = r.filter /\ q.total = r.total /\ q.rows = r.rows /\ q.walking = r.walking
        /\ q.owed = owed /\ q.late = late
    <3> HIDE DEF r
    <3>. QED  BY <2>3, <2>4 DEF ListRecord
  <2>7. Listable(q, R)
    <3> HIDE DEF r, S, R, q
    <3>. QED  BY <2>2, <2>4, <2>5, <2>6, ChangeListable
  <2>8. R = MatchingIn(rows', q.filter)
    BY <2>6
  <2> HIDE DEF q, R
  <2>. QED  BY <2>1, <2>7, <2>8
<1>5. lreq' = [c \in Listers |-> lreq'[c]]
  BY DEF OrderBecomes
<1>. QED  BY <1>4, <1>5 DEF ListingInv

LEMMA InitListingInv == ServerInit => ListingInv
<1> SUFFICES ASSUME ServerInit PROVE ListingInv
  OBVIOUS
<1>1. lreq = [c \in Listers |-> ListIdle]
  BY DEF ServerInit, ListingInit
<1>. QED  BY <1>1, IdleListable DEF ListingInv

LEMMA NextListingInv == ServerInv /\ ListingInv /\ [ServerNext]_serverVars => ListingInv'
<1> SUFFICES ASSUME ServerInv, ListingInv, [ServerNext]_serverVars PROVE ListingInv'
  OBVIOUS
<1>1. ASSUME UNCHANGED rows, lreq' = [c \in Listers |-> ListIdle] PROVE ListingInv'
  BY <1>1, IdleListable DEF ListingInv
<1>2. ASSUME UNCHANGED <<rows, lreq>> PROVE ListingInv'
  BY <1>2 DEF ListingInv
<1>. QED  BY <1>1, <1>2, ListKinds, ListStep, OrdersStep, ChangeStep, Zenon

LEMMA ListingInvariant == ServerSpec => []ListingInv
BY InitListingInv, NextListingInv, ServerInvariant, PTL DEF ServerSpec
-----------------------------------------------------------------------------
\* A client that reads page after page until totalPages stops it misses no
\* order that was there when it began, unless one left its filter or came
\* between the last count and the last page.
THEOREM WalksMissNothing == ServerSpec => []WalkComplete
<1>1. ListingInv => WalkComplete
  <2> SUFFICES ASSUME ListingInv, NEW c \in Listers, lreq[c].pc = "walked", ~lreq[c].late
               PROVE  lreq[c].owed = {}
    BY DEF WalkComplete
  <2> DEFINE r == lreq[c]
             S == MatchingIn(rows, r.filter)
  <2>1. Listable(r, S) /\ r.pc = "walked" /\ ~r.late
    BY DEF ListingInv
  <2> HIDE DEF r, S
  <2>2. r.walking => r.owed = {}
    BY <2>1 DEF Listable, Owing
  <2>. QED  BY <2>1, <2>2 DEF r, Listable, Asked
<1>. QED  BY <1>1, ListingInvariant, PTL

\* Of the list of all orders, a promised page has orders on it and a page past
\* the last one none, though the total is read a statement before the page.
THEOREM TotalsRight == ServerSpec => []TotalsHold
<1>1. ListingInv => TotalsHold
  <2> SUFFICES ASSUME ListingInv, NEW c \in Listers, NEW r, r = lreq[c], r.pc = "answered",
                      r.filter = Missing, (r.page - 1) * r.limit <= MaxInt
               PROVE  /\ r.page <= TotalPages(r.total, r.limit) => r.rows # {}
                      /\ r.page > TotalPages(Cardinality(Matching(Missing)), r.limit) =>
                            r.rows = {}
    BY DEF TotalsHold
  <2> DEFINE n == Cardinality(Matching(Missing))
  <2>1. Listable(r, Matching(Missing))
    BY MatchingIs DEF ListingInv
  <2>2. r.page \in Nat \ {0} /\ r.limit \in Nat \ {0} /\ r.total \in Nat
    BY <2>1, LimitsAssumption DEF Listable, Asked, ListRecord
  <2>3. n \in Nat
    BY MatchingIs, OrdersFinite
  <2>4. /\ (r.page - 1) * r.limit < r.total => r.rows # {}
        /\ r.rows # {} => (r.page - 1) * r.limit < n
    BY <2>1 DEF Listable, Counting
  <2> HIDE DEF n
  <2>5. r.page <= TotalPages(r.total, r.limit) <=> (r.page - 1) * r.limit < r.total
    BY <2>2, PagePromised
  <2>6. r.page <= TotalPages(n, r.limit) <=> (r.page - 1) * r.limit < n
    BY <2>2, <2>3, PagePromised
  <2>7. r.page > TotalPages(n, r.limit) => ~(r.page <= TotalPages(n, r.limit))
    BY <2>2, <2>3, PagesNumber
  <2>. QED  BY <2>4, <2>5, <2>6, <2>7 DEF n
<1>. QED  BY <1>1, ListingInvariant, PTL
=============================================================================
