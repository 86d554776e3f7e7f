---------------------------- MODULE MCControlApi ----------------------------
(***************************************************************************)
(* A small instance of ControlApi: three requests, over a file without     *)
(* users and over one with an owner, who has logged in, and an auditor.    *)
(* Routes that are not asked for have the contract of one that is.         *)
(***************************************************************************)
EXTENDS ControlApi, TLC

CONSTANTS c0, c1, c2, c3, sc, ann, bob

Ask(route) ==
    [route |-> route, well |-> TRUE, cred |-> None, ws |-> None, csrf |-> TRUE,
     user |-> None, right |-> TRUE, scopes |-> {}, workspace |-> "ws", target |-> None]

As(cred, route) == [Ask(route) EXCEPT !.cred = cred]
In(cred, route) == [As(cred, route) EXCEPT !.ws = "ws"]
Login(user) == [Ask("login") EXCEPT !.user = user]
Bootstrap(user) == [Ask("bootstrapOwner") EXCEPT !.user = user]
Token(scopes) == [As(c0, "createApiToken") EXCEPT !.scopes = scopes]

FirstAsks ==
    {Login(ann), [Login(ann) EXCEPT !.right = FALSE], Bootstrap(ann), Token({"run.execute"}),
     [Token({}) EXCEPT !.workspace = "other"], [Token({}) EXCEPT !.csrf = FALSE]}

SecondAsks ==
    {Login(ann), Login(bob), As(c0, "logout"), As(c1, "logout"),
     [As(c0, "deleteApiToken") EXCEPT !.target = c1], In(c0, "postRecallMap"),
     In(c1, "resetBootstrap")}

ThirdAsks ==
    {[Ask("getHealth") EXCEPT !.well = FALSE], Ask("getBootstrapStatus"),
     As("invalid", "getSession"), Ask("getSession"), As(c2, "listApiTokens"),
     [In(c0, "getRun") EXCEPT !.ws = "other"], [In(c0, "startRun") EXCEPT !.ws = "conflict"],
     In(c0, "postRecallMap"), In(c1, "startRun"), In(c2, "approveMemoryProposal"),
     In(c1, "streamEvents")}

Asks == (c0 :> {}) @@ (c1 :> FirstAsks) @@ (c2 :> SecondAsks) @@ (c3 :> ThirdAsks)
        @@ (sc :> {Bootstrap(bob)})

Files ==
    {NoUsers,
     [users |-> {ann, bob}, role |-> (ann :> "owner") @@ (bob :> "auditor"),
      sessions |-> (c0 :> [user |-> ann, scopes |-> None, revoked |-> FALSE]), tokens |-> <<>>]}
=============================================================================
