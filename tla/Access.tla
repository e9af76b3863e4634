--------------------------------- MODULE Access ---------------------------------
(***************************************************************************)
(* Who may call which route (internal/auth and the routes of               *)
(* cmd/server/main.go), and which environments a process starts with       *)
(* (internal/config).                                                      *)
(*                                                                         *)
(* Verifying a signature, the registered claims and the OIDC discovery are *)
(* libraries: a token says whether it passes.                              *)
(***************************************************************************)
EXTENDS Integers

CONSTANT None  \* no claim, no token

Scope == {"orders.read", "orders.write"}

\* A variant with a defect, for mutation runs only: readers may write.
ReaderWrites(role) ==
    IF role \in {"Orders.Reader", "Orders.Writer", "Orders.Admin"} THEN Scope ELSE {}

roleScopes(role) ==
    CASE role = "Orders.Reader" -> {"orders.read"}
      [] role \in {"Orders.Writer", "Orders.Admin"} -> Scope
      [] OTHER -> {}

HasScope(claims, scope) ==
    scope \in claims.scopes \/ \E role \in claims.roles : scope \in roleScopes(role)

\* email, preferred_username, upn, sub: the first one there is.
Identity(token) ==
    LET given == {n \in 1 .. 4 : token.names[n] # None}
    IN  IF given = {} THEN None
        ELSE token.names[CHOOSE n \in given : \A m \in given : n <= m]

NoClaims == [email |-> None, scopes |-> {}, roles |-> {}]

verifyAccessToken(token) ==
    IF token # None /\ token.signed /\ token.registered /\ Identity(token) # None
    THEN [email |-> Identity(token), scopes |-> token.scopes, roles |-> token.roles]
    ELSE NoClaims

DevClaims == [email |-> "dev@brunodias.dev", scopes |-> Scope, roles |-> {"Orders.Admin"}]

Reads == {"list", "get", "latestStatus", "status", "logs"}
Writes == {"create", "update", "addItem", "updateItem", "sync", "cancel"}

\* RequireScope of each route.
RouteScope(route) == IF route \in Reads THEN "orders.read" ELSE "orders.write"
-----------------------------------------------------------------------------
\* The environment, as far as the start depends on it: which variables are
\* set, and whether the numbers and flags parse.
Environment ==
    [env : {"development", "staging", "production"}, parses : BOOLEAN, sslDisabled : BOOLEAN,
     onRailway : BOOLEAN, certificate : BOOLEAN, edge : BOOLEAN, tenant : BOOLEAN,
     client : BOOLEAN, audience : BOOLEAN, bypass : BOOLEAN]

DevBypass(e) == e.env = "development" /\ e.bypass

Load(e) ==
    /\ e.parses
    /\ e.env = "production" /\ ~e.onRailway =>
           ~e.sslDisabled /\ (e.edge \/ e.certificate)
    /\ DevBypass(e) \/ (e.tenant /\ e.client)

\* A variant with a defect, for mutation runs only: no fallback.
AudienceGiven(e) == e.audience

\* AZURE_AUDIENCE, or else AZURE_CLIENT_ID.
AzureAudience(e) == e.audience \/ e.client
=============================================================================
