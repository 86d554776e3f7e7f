------------------------------ MODULE Identity ------------------------------
(***************************************************************************)
(* The local identity store (providers/native/identity-local): users,      *)
(* memberships, sessions and tokens in one JSON file.  An update reads the *)
(* file, works on the copy and renames a new file over the old one; the    *)
(* updates of a process wait in a queue, those of two processes do not     *)
(* know of each other.  One workspace; sessions and tokens carry the name  *)
(* of the call that made them.                                             *)
(***************************************************************************)
EXTENDS Naturals, Sequences, FiniteSets, Policy

CONSTANTS
    Calls,      \* calls of the control API and of the bootstrap script
    Users,
    Earlier,    \* the files that may be there at first
    Procs,      \* processes that use the file
    MaxFaults   \* bound on failed writes, crashes and expiries

\* A file in the form initialState() and the updates give it: an owner is the
\* first user there is, and none has a session or a token before.
StateForm(s) ==
    /\ s = [users |-> s.users, role |-> s.role, sessions |-> s.sessions, tokens |-> s.tokens]
    /\ s.users \subseteq Users
    /\ s.role = [u \in Users |-> s.role[u]]
    /\ \A rows \in {s.sessions, s.tokens}: \A x \in DOMAIN rows:
          rows[x] = [user |-> rows[x].user, scopes |-> rows[x].scopes, revoked |-> rows[x].revoked]
    /\ DOMAIN s.sessions \cap DOMAIN s.tokens = {}
    /\ \/ \E u \in Users: s.role[u] = "owner"
       \/ s.users = {} /\ DOMAIN s.sessions \cup DOMAIN s.tokens = {}

ASSUME IdentityAssumption ==
    /\ Procs = {"api", "script"}
    /\ \A s \in Earlier: StateForm(s)
    /\ None \notin {"already_bootstrapped", "user_not_found", "owner_membership_required",
                    "write_failed"}

VARIABLES
    file,       \* identity.json
    queue,      \* [Procs -> the updates that wait, the one at work first]
    snapshot,   \* [Procs -> what the update at work has read, or None]
    expired,    \* sessions and tokens past their expiresAt
    overlapped, \* history: an update wrote over one it had not read
    faults

identityVars == <<file, queue, snapshot, expired, overlapped, faults>>

NoUsers == [users |-> {}, role |-> [u \in Users |-> None], sessions |-> <<>>, tokens |-> <<>>]

IdentityInit ==
    /\ file \in Earlier
    /\ queue = [p \in Procs |-> <<>>]
    /\ snapshot = [p \in Procs |-> None]
    /\ expired = {}
    /\ overlapped = FALSE
    /\ faults = 0

Fault == faults < MaxFaults /\ faults' = faults + 1

-----------------------------------------------------------------------------
(* What is read of the file.                                               *)

IsBootstrapped == \E u \in Users: file.role[u] = "owner"

Active(x, record) ==
    ~record.revoked /\ x \notin expired /\ record.user \in file.users

Principal(record, method) ==
    [user |-> record.user, role |-> file.role[record.user], method |-> method,
     scopes |-> record.scopes]

\* mutant: a revoked session is as good as another
AuthenticateSession_Revoked(x) == Principal(file.sessions[x], "session")

\* who the session x stands for, or None
AuthenticateSession(x) ==
    IF Active(x, file.sessions[x]) THEN Principal(file.sessions[x], "session") ELSE None

\* a token also needs a membership of its workspace
AuthenticateApiToken(x) ==
    IF Active(x, file.tokens[x]) /\ file.role[file.tokens[x].user] # None
    THEN Principal(file.tokens[x], "bearer") ELSE None

Authenticated(x) ==
    IF x \in DOMAIN file.sessions THEN AuthenticateSession(x)
    ELSE IF x \in DOMAIN file.tokens THEN AuthenticateApiToken(x)
    ELSE None

-----------------------------------------------------------------------------
(* The updates: what one makes of the state it has read, or why it throws. *)

Throws(code) == [error |-> code, state |-> None]
Makes(state) == [error |-> None, state |-> state]

\* the rows of new, and those of rows that it has none for
Pushed(new, rows) ==
    [x \in DOMAIN new \cup DOMAIN rows |-> IF x \in DOMAIN new THEN new[x] ELSE rows[x]]

Revoked(rows, who) == [x \in DOMAIN rows |->
    IF x \in who THEN [rows[x] EXCEPT !.revoked = TRUE] ELSE rows[x]]

BootstrapOwner(s, j) ==
    IF \E u \in Users: s.role[u] = "owner" THEN Throws("already_bootstrapped")
    ELSE Makes([s EXCEPT !.users = @ \cup {j.user}, !.role[j.user] = "owner"])

\* a new session ends the earlier ones of its user
CreateSession(s, j) ==
    LET new == [x \in {j.call} |-> [user |-> j.user, scopes |-> None, revoked |-> FALSE]]
        own == {x \in DOMAIN s.sessions: s.sessions[x].user = j.user}
    IN  IF j.user \notin s.users THEN Throws("user_not_found")
        ELSE Makes([s EXCEPT !.sessions = Pushed(new, Revoked(@, own))])

RevokeSession(s, j) == Makes([s EXCEPT !.sessions = Revoked(@, {j.target})])

CreateApiToken(s, j) ==
    LET new == [x \in {j.call} |-> [user |-> j.user, scopes |-> j.scopes, revoked |-> FALSE]]
    IN
    IF j.user \notin s.users THEN Throws("user_not_found")
    ELSE IF j.workspace # "ws" \/ s.role[j.user] # "owner" THEN Throws("owner_membership_required")
    ELSE Makes([s EXCEPT !.tokens = Pushed(new, @)])

RevokeApiToken(s, j) == Makes([s EXCEPT !.tokens = Revoked(@, {j.target})])

\* the audit events are not part of the state; recording one is an update all the same
Work(s, j) ==
    CASE j.kind = "bootstrap" -> BootstrapOwner(s, j)
      [] j.kind = "session" -> CreateSession(s, j)
      [] j.kind = "logout" -> RevokeSession(s, j)
      [] j.kind = "token" -> CreateApiToken(s, j)
      [] j.kind = "revoke" -> RevokeApiToken(s, j)
      [] j.kind = "audit" -> Makes(s)

-----------------------------------------------------------------------------
(* #update, #write.                                                                *)

\* the next update of p's queue reads the file
UpdateReads(p) ==
    /\ queue[p] # <<>> /\ snapshot[p] = None
    /\ snapshot' = [snapshot EXCEPT ![p] = file]
    /\ UNCHANGED <<file, queue, expired, overlapped, faults>>

\* mutant: nobody waits for the rename
UpdateEnds_NotAwaited(p, error) ==
    LET done == Work(snapshot[p], Head(queue[p]))
    IN  /\ queue[p] # <<>> /\ snapshot[p] # None
        /\ error = done.error
        /\ snapshot' = [snapshot EXCEPT ![p] = None]
        /\ \/ /\ done.error = None
              /\ file' = done.state
              /\ overlapped' = (overlapped \/ snapshot[p] # file)
              /\ UNCHANGED faults
           \/ /\ done.error = None
              /\ Fault
              /\ UNCHANGED <<file, overlapped>>
           \/ /\ done.error # None
              /\ UNCHANGED <<file, overlapped, faults>>
        /\ UNCHANGED expired

\* how the update at work in p ends: its code, or None, and the file
UpdateEnds(p, error) ==
    LET done == Work(snapshot[p], Head(queue[p]))
    IN  /\ queue[p] # <<>> /\ snapshot[p] # None
        /\ snapshot' = [snapshot EXCEPT ![p] = None]
        /\ \/ /\ done.error = None /\ error = None
              /\ file' = done.state
              /\ overlapped' = (overlapped \/ snapshot[p] # file)
              /\ UNCHANGED faults
           \/ /\ done.error # None /\ error = done.error
              /\ UNCHANGED <<file, overlapped, faults>>
           \/ /\ done.error = None /\ error = "write_failed"
              /\ Fault
              /\ UNCHANGED <<file, overlapped>>
        /\ UNCHANGED expired

\* time passes
Expire(x) ==
    /\ x \in (DOMAIN file.sessions \cup DOMAIN file.tokens) \ expired
    /\ Fault
    /\ expired' = expired \cup {x}
    /\ UNCHANGED <<file, queue, snapshot, overlapped>>

=============================================================================
