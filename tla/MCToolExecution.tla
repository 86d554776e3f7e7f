--------------------------- MODULE MCToolExecution ---------------------------
(***************************************************************************)
(* Small instances of ToolExecution: a registry with a write tool, a       *)
(* read-only tool, a tool whose write needs approval, one that is disabled,*)
(* one without a handler and one whose write asks for no key, and the      *)
(* requests that tell them apart.                                          *)
(***************************************************************************)
EXTENDS ToolExecution, TLC

CONSTANTS c1, c2, c3, k1, k2

Declared(class, write, approval, sandbox) ==
    [class |-> class, read |-> {<<>>}, write |-> write, network |-> {},
     secrets |-> {}, classes |-> {"workspace-private"}, sandbox |-> sandbox,
     limits |-> [runtimeMs |-> 2], approval |-> approval,
     idempotency |-> class # "read-only"]

Tool(enabled, bound, op) ==
    [enabled |-> enabled, bound |-> bound, operations |-> [invoke |-> op]]

Registry ==
    [write    |-> Tool(TRUE, TRUE, Declared("reversible-write", {<<"a">>}, FALSE, "fs")),
     read     |-> Tool(TRUE, TRUE, Declared("read-only", {}, FALSE, "fs")),
     approved |-> Tool(TRUE, TRUE, Declared("consequential-write", {<<"a">>}, TRUE, "fs")),
     disabled |-> Tool(FALSE, TRUE, Declared("read-only", {}, FALSE, "fs")),
     unbound  |-> Tool(TRUE, FALSE, Declared("read-only", {}, FALSE, "fs")),
     unkeyed  |-> Tool(TRUE, TRUE, [Declared("reversible-write", {<<"a">>}, FALSE, "fs")
                                       EXCEPT !.idempotency = FALSE])]

Principal == [id |-> "u", active |-> TRUE, method |-> "session",
              workspaces |-> None, scopes |-> None]
Member(role) == [workspace |-> "ws", role |-> role, active |-> TRUE]

Write == [tool |-> "write", operation |-> "invoke", wellFormed |-> TRUE,
          user |-> Principal, member |-> Member("owner"), workspace |-> "ws",
          requested |-> None, timeout |-> None, approval |-> None, key |-> k1,
          boundary |-> TRUE, path |-> <<"a">>, fits |-> TRUE, sink |-> TRUE]

\* A requested capability for the write tool.
Asked(class, write) ==
    [tool |-> "write", operation |-> "invoke", class |-> class,
     read |-> {}, write |-> write, network |-> {}, secrets |-> {},
     classes |-> {"workspace-private"}, sandbox |-> "fs"]

Unaudited == [Write EXCEPT !.sink = FALSE]
OtherPath == [Write EXCEPT !.path = <<"a", "b">>]
TooLarge == [Write EXCEPT !.fits = FALSE]
Wider == [Write EXCEPT !.requested = Asked("reversible-write", {<<>>}),
                       !.path = <<"b">>, !.key = k2]
Narrower == [Write EXCEPT !.requested = Asked("reversible-write", {<<"a", "b">>}),
                          !.key = k2]
Understated == [Write EXCEPT !.requested = Asked("read-only", {<<"a">>}),
                             !.key = k2]
Read == [Write EXCEPT !.tool = "read", !.key = None, !.boundary = FALSE]
NeedsApproval == [Write EXCEPT !.tool = "approved", !.key = k2]
Approval(actor) ==
    [active |-> TRUE, serverVerified |-> TRUE, workspace |-> "ws",
     actor |-> actor, expired |-> FALSE,
     operationFingerprint |-> Fingerprint(NeedsApproval)]

\* A write without a key that the policy takes for a read.
Unkeyed == [Understated EXCEPT !.tool = "unkeyed", !.requested.tool = "unkeyed",
                               !.key = None]

\* The third call retries the first.
ThirdRetries == (c1 :> None) @@ (c2 :> None) @@ (c3 :> c1)

\* Requests that meet every check of the registry and of the policy.
EveryCheck ==
    {Wider, Narrower, Understated, Unkeyed, NeedsApproval,
     [NeedsApproval EXCEPT !.approval = Approval("u")],
     [NeedsApproval EXCEPT !.approval = Approval("v")],
     [Write EXCEPT !.approval = Approval("u")],
     [Write EXCEPT !.wellFormed = FALSE], [Write EXCEPT !.member = None],
     [Write EXCEPT !.tool = "missing"], [Write EXCEPT !.operation = "other"],
     [Write EXCEPT !.boundary = FALSE], [Write EXCEPT !.timeout = 3],
     [Read EXCEPT !.tool = "disabled"], [Read EXCEPT !.tool = "unbound"]}

\* Two calls of one key that write the same file (through registries of which
\* one has no audit sink), different files, or a file and too large an output;
\* and every other request beside a read.
Mix ==
    {(c1 :> Write) @@ (c2 :> q) @@ (c3 :> Write) : q \in {Unaudited, OtherPath}}
    \cup {(c1 :> TooLarge) @@ (c2 :> Write) @@ (c3 :> TooLarge)}
    \cup {(c1 :> q) @@ (c2 :> Read) @@ (c3 :> q) : q \in EveryCheck}

Requests == {m[c] : m \in Mix, c \in Calls}
=============================================================================
