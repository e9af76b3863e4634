---------------------------------- MODULE Server ----------------------------------
(***************************************************************************)
(* The process as its clients see it: it starts or refuses its             *)
(* environment, carries out requests that pass the middleware, and stops.  *)
(*                                                                         *)
(* The services behind the routes are modules of their own; here a call is *)
(* one action, known by what it may leave of the orders, but for the list  *)
(* of orders, which is taken statement by statement while orders are       *)
(* created and change.  A call that leaves the orders alone is no step.    *)
(***************************************************************************)
EXTENDS Access, Listing

CONSTANT Tokens  \* the bearer tokens clients send

ASSUME TokensAssumption ==
    Tokens \subseteq {None} \cup
        [signed : BOOLEAN, registered : BOOLEAN, scopes : SUBSET Scope,
         roles : SUBSET {"Orders.Reader", "Orders.Writer", "Orders.Admin", "other"},
         names : [1 .. 4 -> {None} \cup STRING]]

VARIABLES
    phase,      \* of the process
    auth,       \* the authenticator it has built
    createdBy   \* orders.created_by

serverVars == <<rows, lreq, phase, auth, createdBy>>

ServerInit ==
    /\ ListingInit
    /\ phase = "starting"
    /\ auth = "none"
    /\ createdBy = [o \in OrderNo |-> None]
-----------------------------------------------------------------------------
\* The authenticator buildAuthenticator makes.
Authenticator(e) == IF DevBypass(e) THEN "development" ELSE "entra"

\* main up to ListenAndServe: Load, then the pool, which pings the database, then
\* buildAuthenticator, which may not reach the OIDC provider.
Start(e, database, provider) ==
    /\ phase = "starting"
    /\ phase' = IF ~Load(e) THEN "load config failed"
                ELSE IF ~database THEN "database connection failed"
                ELSE IF DevBypass(e) THEN "serving"
                ELSE IF ~AzureAudience(e) THEN "audience is required"
                ELSE IF provider THEN "serving" ELSE "provider unreachable"
    /\ auth' = IF phase' = "serving" THEN Authenticator(e) ELSE auth
    /\ UNCHANGED <<rows, lreq, createdBy>>

\* SIGTERM: no new requests.
Stop ==
    /\ phase = "serving"
    /\ phase' = "stopping"
    /\ UNCHANGED <<rows, lreq, auth, createdBy>>

\* Shutdown returns when the last request has been answered, or gives up after
\* 10 s; the process ends either way.
Exit ==
    /\ phase = "stopping"
    /\ phase' = IF \A c \in Listers : lreq[c].pc \in {"idle", "walked"}
                THEN "stopped" ELSE "shutdown failed"
    /\ lreq' = [c \in Listers |-> ListIdle]
    /\ UNCHANGED <<rows, auth, createdBy>>
-----------------------------------------------------------------------------
\* What the authenticator makes of the tokens clients send.
Presented ==
    {IF auth = "development" THEN DevClaims ELSE verifyAccessToken(token) : token \in Tokens}

\* The middleware lets the request through to its handler: no 401, no 403.
Admitted(claims, route) == claims # NoClaims /\ HasScope(claims, RouteScope(route))

\* What a write leaves of the orders: POST /orders inserts one, by whoever the
\* claims name; PATCH /orders/{id} and the promotion of AddItem give one a
\* status, any one: it was checked against an older row.  The other writes
\* leave the orders alone.
Effect(route, claims) ==
    \/ /\ route = "create"
       /\ \E o \in OrderNo :
              /\ ~Exists(o)
              /\ OrderBecomes(o, "OPEN")
              /\ createdBy' = [createdBy EXCEPT ![o] = claims.email]
    \/ /\ route \in {"update", "addItem"}
       /\ \E o \in OrderNo, s \in OrderStatus :
              /\ Exists(o)
              /\ route = "addItem" => s \in {rows[o], "IN_PROGRESS"}
              /\ OrderBecomes(o, s)
       /\ UNCHANGED createdBy

Request(route, claims) ==
    /\ phase = "serving"
    /\ Admitted(claims, route)
    /\ Effect(route, claims)
    /\ UNCHANGED <<phase, auth>>

\* A walk sends a request of its own for each page: it cannot go on to the
\* next one when the process has stopped listening.
ListRequest(c) ==
    /\ \/ /\ phase = "serving"
          /\ \E claims \in Presented : Admitted(claims, "list")
          /\ \E page \in Pages, limit \in Limits, filter \in Filters :
                 ListOrders(c, page, limit, filter)
       \/ /\ phase \in {"serving", "stopping"}
          /\ ListNext(c)
          /\ phase = "stopping" => ~(lreq[c].pc = "answered" /\ lreq'[c].pc = "count")
    /\ UNCHANGED <<phase, auth, createdBy>>

ServerNext ==
    \/ \E e \in Environment, database, provider \in BOOLEAN : Start(e, database, provider)
    \/ Stop
    \/ Exit
    \/ \E route \in Writes, claims \in Presented : Request(route, claims)
    \/ \E c \in Listers : ListRequest(c)

ServerSpec == ServerInit /\ [][ServerNext]_serverVars
-----------------------------------------------------------------------------
\* An environment Load accepts is enough to build an authenticator: a process
\* never stops for want of an audience, which is checked in another package.
AudienceIsKnown == phase # "audience is required"

\* created_by names somebody, and somebody with a verified token that grants
\* writing by scope or by role, whichever of its claims the name comes from.
CreatedByWriter ==
    \A o \in OrderNo : Exists(o) =>
        \/ auth = "development" /\ createdBy[o] = "dev@brunodias.dev"
        \/ \E token \in Tokens \ {None} :
               /\ token.signed /\ token.registered
               /\ \/ "orders.write" \in token.scopes
                  \/ token.roles \cap {"Orders.Writer", "Orders.Admin"} # {}
               /\ createdBy[o] # None
               /\ \E n \in 1 .. 4 : createdBy[o] = token.names[n]
=============================================================================
