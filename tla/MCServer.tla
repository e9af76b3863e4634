--------------------------------- MODULE MCServer ---------------------------------
(***************************************************************************)
(* Instances of the process for TLC.                                       *)
(***************************************************************************)
EXTENDS Server, TLC

Token(scopes, roles, names) ==
    [signed |-> TRUE, registered |-> TRUE, scopes |-> scopes, roles |-> roles, names |-> names]

Writer == Token({}, {"Orders.Writer"}, <<None, None, None, "writer">>)

\* A writer known by its subject only, a reader, and tokens that do not do.
MCTokens ==
    {None, Writer, [Writer EXCEPT !.registered = FALSE],
     Token({"orders.write"}, {}, <<None, None, None, None>>),
     Token({}, {"Orders.Reader", "other"}, <<None, "reader", "upn", "sub">>)}
=============================================================================
