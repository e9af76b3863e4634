------------------------------- MODULE Server_proofs -------------------------------
(***************************************************************************)
(* The process for any number of clients and orders, any tokens and any    *)
(* environment: it never stops for want of an audience, and orders are     *)
(* created by verified writers.                                            *)
(*                                                                         *)
(* The proofs use the tables of Access whole, so that a role given a scope *)
(* too many breaks them.                                                   *)
(***************************************************************************)
EXTENDS Server, TLAPS

\* Who has written is somebody Presented: the authenticator does not change
\* while the process serves.
WrittenBy(name) ==
    \E claims \in Presented :
        claims # NoClaims /\ HasScope(claims, "orders.write") /\ name = claims.email

ServerInv ==
    /\ rows \in [OrderNo -> OrderStatus \cup {"ABSENT"}]
    /\ createdBy = [o \in OrderNo |-> createdBy[o]]
    /\ phase = "starting" => \A o \in OrderNo : ~Exists(o)
    /\ \A o \in OrderNo : Exists(o) => WrittenBy(createdBy[o])
    /\ AudienceIsKnown

LEMMA InitServerInv == ServerInit => ServerInv
<1> SUFFICES ASSUME ServerInit PROVE ServerInv
  OBVIOUS
<1>1. rows \in [OrderNo -> OrderStatus \cup {"ABSENT"}] /\ \A o \in OrderNo : ~Exists(o)
  BY DEF ServerInit, ListingInit, Exists
<1>2. createdBy = [o \in OrderNo |-> createdBy[o]]
  BY DEF ServerInit
<1>3. AudienceIsKnown
  BY DEF AudienceIsKnown, ServerInit
<1>. QED  BY <1>1, <1>2, <1>3 DEF ServerInv

\* Who may write is presented under a fixed authenticator.
LEMMA SameWriters ==
  ASSUME auth' = auth, NEW name
  PROVE  WrittenBy(name)' <=> WrittenBy(name)
BY DEF WrittenBy, Presented

\* What a write does to the orders.
LEMMA StepOrders ==
  ASSUME ServerInv, phase = "serving", UNCHANGED <<phase, auth>>,
         NEW route \in Writes, NEW claims \in Presented, Admitted(claims, route),
         Effect(route, claims)
  PROVE  /\ rows' \in [OrderNo -> OrderStatus \cup {"ABSENT"}]
         /\ createdBy' = [o \in OrderNo |-> createdBy'[o]]
         /\ \A o \in OrderNo : Exists(o)' => WrittenBy(createdBy[o])'
<1>0. /\ rows \in [OrderNo -> OrderStatus \cup {"ABSENT"}]
      /\ createdBy = [o \in OrderNo |-> createdBy[o]]
      /\ \A o \in OrderNo : Exists(o) => WrittenBy(createdBy[o])
  BY DEF ServerInv
<1>1. Presented' = Presented
  BY DEF Presented
<1>2. ASSUME createdBy' = createdBy, \A o \in OrderNo : Exists(o)' => Exists(o)
      PROVE  \A o \in OrderNo : Exists(o)' => WrittenBy(createdBy[o])'
  BY <1>0, <1>1, <1>2 DEF WrittenBy
<1>4. ASSUME NEW o \in OrderNo, NEW s \in OrderStatus, Exists(o), OrderBecomes(o, s),
             UNCHANGED createdBy
      PROVE  /\ rows' \in [OrderNo -> OrderStatus \cup {"ABSENT"}]
             /\ \A d \in OrderNo : Exists(d)' => Exists(d)
  BY <1>0, <1>4 DEF OrderBecomes, Exists
<1>5. CASE route \in {"update", "addItem"}
  <2>1. PICK o \in OrderNo, s \in OrderStatus :
           Exists(o) /\ OrderBecomes(o, s) /\ UNCHANGED createdBy
    BY <1>5 DEF Effect
  <2>. QED  BY <1>0, <1>2, <1>4, <2>1
<1>6. CASE route = "create"
  <2>1. PICK o \in OrderNo : /\ ~Exists(o) /\ OrderBecomes(o, "OPEN")
                             /\ createdBy' = [createdBy EXCEPT ![o] = claims.email]
    BY <1>6 DEF Effect
  <2>2. claims # NoClaims /\ HasScope(claims, "orders.write")
    BY <1>6 DEF Admitted, RouteScope, Reads
  <2>3. createdBy'[o] = claims.email /\ \A d \in OrderNo : d # o => createdBy'[d] = createdBy[d]
    BY <1>0, <2>1
  <2>4. WrittenBy(createdBy[o])'
    BY <1>1, <2>2, <2>3 DEF WrittenBy
  <2>5. rows' \in [OrderNo -> OrderStatus \cup {"ABSENT"}]
        /\ \A d \in OrderNo : d # o => (Exists(d)' <=> Exists(d))
    BY <1>0, <2>1 DEF OrderBecomes, OrderStatus, Exists
  <2>6. \A d \in OrderNo : Exists(d)' => WrittenBy(createdBy[d])'
    BY <1>0, <1>1, <2>3, <2>4, <2>5 DEF WrittenBy
  <2>7. createdBy' = [d \in OrderNo |-> createdBy'[d]]
    BY <1>0, <2>1
  <2>. QED  BY <2>5, <2>6, <2>7
<1>. QED  BY <1>5, <1>6 DEF Effect

LEMMA NextServerInv == ServerInv /\ [ServerNext]_serverVars => ServerInv'
<1> SUFFICES ASSUME ServerInv, [ServerNext]_serverVars PROVE ServerInv'
  OBVIOUS
<1>0. /\ rows \in [OrderNo -> OrderStatus \cup {"ABSENT"}]
      /\ createdBy = [o \in OrderNo |-> createdBy[o]]
      /\ phase = "starting" => \A o \in OrderNo : ~Exists(o)
      /\ \A o \in OrderNo : Exists(o) => WrittenBy(createdBy[o])
      /\ AudienceIsKnown
  BY DEF ServerInv
<1>1. ASSUME UNCHANGED <<rows, createdBy, auth>>,
             phase' \notin {"starting", "audience is required"} \/ phase' = phase
      PROVE  ServerInv'
  <2>1. Presented' = Presented
    BY <1>1 DEF Presented
  <2>2. \A o \in OrderNo : Exists(o)' => WrittenBy(createdBy[o])'
    BY <1>0, <1>1, <2>1 DEF WrittenBy, Exists
  <2>. QED  BY <1>0, <1>1, <2>2 DEF ServerInv, AudienceIsKnown, Exists
<1>2. ASSUME NEW e \in Environment, NEW database \in BOOLEAN, NEW provider \in BOOLEAN,
             Start(e, database, provider)
      PROVE  ServerInv'
  <2>1. phase = "starting" /\ UNCHANGED <<rows, createdBy>> /\ phase' # "starting"
    BY <1>2 DEF Start
  <2>2. phase' # "audience is required"
    BY <1>2 DEF Start, Load, AzureAudience
  <2>. QED  BY <1>0, <2>1, <2>2 DEF ServerInv, AudienceIsKnown, Exists
<1>3. CASE Stop \/ Exit
  BY <1>1, <1>3 DEF Stop, Exit
<1>4. ASSUME NEW route \in Writes, NEW claims \in Presented, Request(route, claims)
      PROVE  ServerInv'
  <2>1. /\ phase = "serving" /\ UNCHANGED <<phase, auth>> /\ Admitted(claims, route)
        /\ Effect(route, claims)
    BY <1>4 DEF Request
  <2>2. /\ rows' \in [OrderNo -> OrderStatus \cup {"ABSENT"}]
        /\ createdBy' = [o \in OrderNo |-> createdBy'[o]]
        /\ \A o \in OrderNo : Exists(o)' => WrittenBy(createdBy[o])'
    BY <2>1, StepOrders
  <2>. QED  BY <1>0, <2>1, <2>2 DEF ServerInv, AudienceIsKnown
<1>5. ASSUME NEW c \in Listers, ListRequest(c) PROVE ServerInv'
  BY <1>1, <1>5
  DEF ListRequest, ListOrders, ListNext, ListCount, ListSelect, ListAnswer, ListEnd, Listed
<1>6. CASE UNCHANGED serverVars
  BY <1>1, <1>6 DEF serverVars
<1>. QED  BY <1>2, <1>3, <1>4, <1>5, <1>6 DEF ServerNext

LEMMA ServerInvariant == ServerSpec => []ServerInv
BY InitServerInv, NextServerInv, PTL DEF ServerSpec
-----------------------------------------------------------------------------
\* Of any environment Load lets pass, AzureAudience makes an audience: config
\* and auth agree on when one is needed.
THEOREM AudienceKnown == ServerSpec => []AudienceIsKnown
BY ServerInvariant, PTL DEF ServerInv

\* The first of the names a token gives.
LEMMA IdentityGiven ==
  ASSUME NEW token, Identity(token) # None
  PROVE  \E n \in 1 .. 4 : Identity(token) = token.names[n]
<1> DEFINE given == {n \in 1 .. 4 : token.names[n] # None}
<1>1. \E n \in given : \A m \in given : n <= m
  <2>1. PICK k \in 1 .. 4 : k \in given
    BY DEF Identity
  <2>2. ASSUME NEW n \in 1 .. 4 PROVE n = 1 \/ n = 2 \/ n = 3 \/ n = 4
    OBVIOUS
  <2>3. given \subseteq 1 .. 4
    OBVIOUS
  <2> HIDE DEF given
  <2>. QED  BY <2>1, <2>2, <2>3
<1>2. Identity(token) = token.names[CHOOSE n \in given : \A m \in given : n <= m]
  BY DEF Identity
<1>3. (CHOOSE n \in given : \A m \in given : n <= m) \in 1 .. 4
  BY <1>1
<1>. QED  BY <1>2, <1>3

\* created_by comes from the claims of a token that passed the middleware of
\* POST /orders: its name is never empty and never a reader's.
THEOREM CreatorsWrite == ServerSpec => []CreatedByWriter
<1>1. ServerInv => CreatedByWriter
  <2> SUFFICES ASSUME ServerInv, NEW o \in OrderNo, Exists(o)
               PROVE  \/ auth = "development" /\ createdBy[o] = "dev@brunodias.dev"
                      \/ \E token \in Tokens \ {None} :
                             /\ token.signed /\ token.registered
                             /\ \/ "orders.write" \in token.scopes
                                \/ token.roles \cap {"Orders.Writer", "Orders.Admin"} # {}
                             /\ createdBy[o] # None
                             /\ \E n \in 1 .. 4 : createdBy[o] = token.names[n]
    BY DEF CreatedByWriter
  <2>1. PICK claims \in Presented : /\ claims # NoClaims /\ HasScope(claims, "orders.write")
                                    /\ createdBy[o] = claims.email
    BY DEF ServerInv, WrittenBy
  <2>2. CASE auth = "development"
    BY <2>1, <2>2 DEF Presented, DevClaims
  <2>3. CASE auth # "development"
    <3>1. PICK token \in Tokens : claims = verifyAccessToken(token)
      BY <2>1, <2>3 DEF Presented
    <3>2. /\ token # None /\ token.signed /\ token.registered /\ Identity(token) # None
          /\ claims = [email |-> Identity(token), scopes |-> token.scopes,
                       roles |-> token.roles]
      BY <2>1, <3>1 DEF verifyAccessToken
    <3>3. /\ claims.email = Identity(token) /\ claims.scopes = token.scopes
          /\ claims.roles = token.roles
      BY <3>2
    <3>4. \/ "orders.write" \in token.scopes
          \/ token.roles \cap {"Orders.Writer", "Orders.Admin"} # {}
      <4>1. ASSUME NEW role, "orders.write" \in roleScopes(role)
            PROVE  role \in {"Orders.Writer", "Orders.Admin"}
        BY <4>1 DEF roleScopes
      <4>. QED  BY <2>1, <3>3, <4>1 DEF HasScope
    <3>. QED  BY <2>1, <3>2, <3>3, <3>4, IdentityGiven
  <2>. QED  BY <2>2, <2>3
<1>. QED  BY <1>1, ServerInvariant, PTL
=============================================================================
