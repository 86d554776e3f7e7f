----------------------------- MODULE ControlApi -----------------------------
(***************************************************************************)
(* The control API (services/control-api/src/server.mjs) over the identity *)
(* store, the policy engine and the state file: how a request is checked,  *)
(* authenticated, decided upon, executed and answered while others are,    *)
(* and while scripts/auth-bootstrap.mjs works on the same identity file.   *)
(*                                                                         *)
(* A request is a record of what the checks tell apart:                    *)
(*   route       the operationId of its contract                           *)
(*   well        whether it passes limits, route and schema                *)
(*   cred        the call whose session or token it carries, None or       *)
(*               "invalid" (two credentials, a malformed header...)        *)
(*   ws          the workspace it names, None, or "conflict" for two       *)
(*   csrf        whether it carries the csrf token of its session          *)
(*   user, right the name it logs in under, and whether the password is    *)
(*   scopes, workspace, target: of the token it makes or revokes           *)
(***************************************************************************)
EXTENDS Identity

CONSTANTS
    Offered,        \* [Calls -> the requests that a call may be]
    Script,         \* the call that is a run of auth-bootstrap.mjs
    LoginLimit,     \* attempts to log in per window
    RecallLimit     \* requests for a recall map per window

\* The script bootstraps; a name to bootstrap is one of Users; credentials of
\* an earlier life of the system carry names of calls that are not made again.
ASSUME RequestAssumption ==
    /\ Script \in Calls
    /\ \A q \in Offered[Script]: q.route = "bootstrapOwner"
    /\ \A c \in Calls: \A q \in Offered[c]: q.route = "bootstrapOwner" => q.user \in Users
    /\ \A s \in Earlier: \A x \in DOMAIN s.sessions \cup DOMAIN s.tokens:
          x \in Calls /\ Offered[x] = {}

VARIABLES
    calls,          \* [Calls -> how far the call is]
    attempts,       \* the buckets of the two rate limiters
    storeQueue,     \* the calls whose update of state.json waits
    runs,           \* state.json: the calls whose run is in it
    broken,         \* an update of state.json has failed in this process
    issued,         \* history: calls that were answered with a credential
    ended,          \* history: credentials whose end was answered
    kept            \* history: runs that were answered, since the last reset

apiVars == <<calls, attempts, storeQueue, runs, broken, issued, ended, kept>>
vars == <<identityVars, apiVars>>

-----------------------------------------------------------------------------
(* The contracts: who may call a route, and for which action of policy.    *)

Open == [public |-> TRUE]

Secured(action, type) ==
    [public |-> FALSE, action |-> action, type |-> type, workspace |-> TRUE,
     session |-> FALSE, csrf |-> FALSE, lookup |-> FALSE]

Guarded(action, type) == [Secured(action, type) EXCEPT !.csrf = TRUE]

Anywhere(contract) == [contract EXCEPT !.workspace = FALSE]

AuthRoutes ==
    [getHealth |-> Open,
     getBootstrapStatus |-> Open,
     bootstrapOwner |-> Open,
     login |-> Open,
     getSession |-> Anywhere(Secured(None, "workspace")),
     logout |-> Anywhere(Secured(None, "workspace"))]

TokenRoutes ==
    [createApiToken |-> [Anywhere(Guarded("token.manage", "token")) EXCEPT !.session = TRUE],
     listApiTokens |-> [Anywhere(Secured("token.manage", "token")) EXCEPT !.session = TRUE],
     deleteApiToken |-> [Anywhere(Guarded("token.manage", "token")) EXCEPT !.session = TRUE]]

DashboardRoutes ==
    [getProjectStatus |-> Anywhere(Secured("system.status.read", "system")),
     getDashboard |-> Secured("dashboard.read", "workspace"),
     getRecallMap |-> Secured("dashboard.read", "workspace"),
     postRecallMap |-> Guarded("dashboard.read", "workspace"),
     getLoopWorkbench |-> Secured("dashboard.read", "workspace"),
     getMemoryCockpit |-> Secured("dashboard.read", "workspace")]

MemoryRoutes ==
    [getMemoryGraph |-> Secured("dashboard.read", "memory"),
     intakeMemoryProposal |-> Guarded("memory.approve", "memory"),
     approveMemoryProposal |-> Secured("memory.approve", "memory")]

RunRoutes ==
    [listRuns |-> Secured("run.read", "run"),
     startRun |-> Guarded("run.execute", "run"),
     getRun |-> [Secured("run.read", "run") EXCEPT !.lookup = TRUE]]

ContextRoutes ==
    [compileContext |-> Guarded("context.compile", "context"),
     buildContextPack |-> Guarded("context.compile", "context"),
     pinContextPack |-> Guarded("context.compile", "context"),
     getContextPackRegistryStatus |-> Secured("context.compile", "context"),
     getContextPackReceiveReport |-> Secured("context.compile", "context"),
     preflightContextPackMemory |-> Guarded("context.compile", "context"),
     previewContextSources |-> Guarded("context.compile", "context"),
     detectGitChanges |-> Guarded("context.compile", "context"),
     previewContextGraph |-> Guarded("context.compile", "context")]

SystemRoutes ==
    [planHarnessSetup |-> [Guarded("workspace.read", "workspace") EXCEPT !.session = TRUE],
     resetBootstrap |-> Guarded("workspace.reset", "workspace"),
     streamEvents |-> Secured("stream.read", "run")]

Routes == Pushed(AuthRoutes, Pushed(TokenRoutes, Pushed(DashboardRoutes, Pushed(MemoryRoutes,
          Pushed(RunRoutes, Pushed(ContextRoutes, SystemRoutes))))))

\* createRoutePolicyRequest: what policy is asked about a call
PolicyRequest(call) ==
    LET q == call.ask
        contract == Routes[q.route]
        role == IF q.ws = "ws" \/ (q.ws = None /\ call.who.role = "owner")
                THEN call.who.role ELSE None
        space == IF q.ws # None THEN q.ws ELSE IF role # None THEN "ws" ELSE None
        bearer == call.who.method = "bearer"
    IN  [user |-> [id |-> call.who.user, active |-> TRUE, method |-> call.who.method,
                   workspaces |-> IF bearer THEN {"ws"} ELSE None,
                   scopes |-> IF bearer THEN call.who.scopes ELSE None],
         workspace |-> space,
         member |-> IF role = None THEN None
                    ELSE [workspace |-> "ws", role |-> role, active |-> TRUE],
         action |-> contract.action,
         type |-> contract.type,
         owner |-> space,
         dataClass |-> IF contract.type = "system" THEN "public" ELSE "workspace-private",
         capability |-> None, manifest |-> None, approval |-> None, key |-> None,
         operationFingerprint |-> None]

-----------------------------------------------------------------------------
(* What becomes of a call: its next stage, and the update it waits for.    *)

NoCall == [stage |-> "idle", ask |-> None, who |-> None, dead |-> FALSE, ok |-> FALSE]

InFlight(c) == calls[c].stage \notin {"idle", "done", "lost"}

Home(c) == IF c = Script THEN "script" ELSE "api"

Goes(call, stage) == [call |-> [call EXCEPT !.stage = stage], job |-> None, saves |-> FALSE]

Saves(call) == [Goes(call, "saving") EXCEPT !.saves = TRUE]

Waits(call, stage, job) == [Goes(call, stage) EXCEPT !.job = job]

\* sendValidatedJson, sendError
Answer(call, code) ==
    Goes([NoCall EXCEPT !.dead = call.dead, !.ok = (code = "ok")], "done")

\* the checks of host, limits, route, path, query, origin and body
WellFormed(q) == q.well

\* extractCredentials: more than one credential, or none that can be read
Unreadable(q) == q.cred = "invalid"

Job(kind, c, user, target, q) ==
    [kind |-> kind, call |-> c, user |-> user, target |-> target,
     scopes |-> q.scopes, workspace |-> q.workspace]

Audit(c, call) == Job("audit", c, None, None, call.ask)

\* mutant: the rejection of an update reaches nobody
Failed_Unanswered(call) == Goes(call, call.stage)

\* mapError: what is not an error of the API
Failed(call) == Answer(call, "internal_error")

\* executeOperation, up to its first wait
Perform(c, call) ==
    LET q == call.ask
        route == q.route
    IN  CASE route = "bootstrapOwner" ->
               Waits(call, "bootstrapping", Job("bootstrap", c, q.user, None, q))
          [] route = "login" -> Goes(call, "checking")
          [] route = "logout" ->
               \* only the principal of a session has one
               IF call.who.method = "bearer" THEN Failed(call)
               ELSE Waits(call, "revoking", Job("logout", c, call.who.user, q.cred, q))
          [] route = "createApiToken" ->
               Waits(call, "issuing", Job("token", c, call.who.user, None, q))
          [] route = "deleteApiToken" ->
               Waits(call, "revoking", Job("revoke", c, call.who.user, q.target, q))
          [] route = "streamEvents" -> Goes(call, "streaming")
          [] route = "startRun" -> Goes(call, "running")
          [] route = "resetBootstrap" -> Saves(call)
          [] OTHER -> Goes(call, "executing")

\* authenticateAndAuthorize, once the decision is made; the service of the
\* server always has an audit sink
Decided(c, call, audited) ==
    LET contract == Routes[call.ask.route]
        audit == IF audited THEN "recorded" ELSE "failed"
        allowed == /\ \E request \in {PolicyRequest(call)}: Allowed(request, audit)
                   /\ contract.session => call.who.method = "session"
    IN  IF ~allowed
        THEN Answer(call, IF contract.lookup THEN "resource_not_found" ELSE "forbidden")
        ELSE IF contract.csrf /\ call.who.method = "session" /\ ~call.ask.csrf
        THEN Answer(call, "csrf_failed")
        ELSE Perform(c, call)

\* authenticateAndAuthorize, once the principal is known
Identified(c, call) ==
    LET contract == Routes[call.ask.route]
    IN  IF call.who = None THEN Waits(call, "refusing", Audit(c, call))
        ELSE IF call.ask.ws = "conflict" THEN Answer(call, "workspace_context_conflict")
        ELSE IF contract.workspace /\ call.ask.ws = None
        THEN Answer(call, "request_validation_failed")
        ELSE IF contract.action # None THEN Waits(call, "deciding", Audit(c, call))
        ELSE Perform(c, call)

\* how a call goes on when the update it waited for has ended
Continue(c, call, error) ==
    LET opens(user) == Waits(call, "opening", Job("session", c, user, None, call.ask))
    IN  IF call.stage = "deciding" THEN Decided(c, call, error = None)
        ELSE IF error = "already_bootstrapped" THEN Answer(call, "already_bootstrapped")
        ELSE IF error # None THEN Failed(call)
        ELSE CASE call.stage = "refusing" -> Answer(call, "authentication_required")
               [] call.stage = "auditing" /\ call.who = None -> Answer(call, "invalid_credentials")
               [] call.stage = "auditing" /\ call.who # None -> opens(call.who.user)
               [] call.stage = "bootstrapping" /\ c # Script -> opens(call.ask.user)
               [] OTHER -> Answer(call, "ok")

-----------------------------------------------------------------------------
(* The actions.                                                            *)

Init ==
    /\ IdentityInit
    /\ calls = [c \in Calls |-> NoCall]
    /\ attempts = [k \in {"login", "recall"} \X Users |-> 0]
    /\ storeQueue = <<>>
    /\ runs = {}
    /\ broken = FALSE
    /\ issued = DOMAIN file.sessions
    /\ ended = {}
    /\ kept = {}

\* the call goes on as o says; rest is what is left of its process's queue
Moves(c, outcome, rest) == \E o \in {outcome}:
    /\ calls' = [calls EXCEPT ![c] = o.call]
    /\ queue' = [queue EXCEPT ![Home(c)] = IF o.job = None THEN rest ELSE Append(rest, o.job)]
    /\ storeQueue' = IF o.saves THEN Append(storeQueue, c) ELSE storeQueue

\* nothing but the call and the queues
Steps(c, o) ==
    /\ Moves(c, o, queue[Home(c)])
    /\ UNCHANGED <<file, snapshot, expired, overlapped, faults, runs, broken, issued, ended, kept>>

\* handleApi: a credential and the id of a token are known once answered
Receive(c) ==
    /\ c # Script /\ calls[c].stage = "idle"
    /\ \E q \in Offered[c]:
          LET call == [NoCall EXCEPT !.ask = q, !.dead = ~Routes[q.route].public /\ q.cred \in ended]
          IN  /\ {q.cred, q.target} \subseteq issued \cup {None, "invalid"}
              /\ Steps(c, IF ~WellFormed(q) THEN Answer(call, "request_validation_failed")
                          ELSE IF Routes[q.route].public THEN Perform(c, call)
                          ELSE Goes(call, "checking"))
    /\ UNCHANGED attempts

\* auth-bootstrap.mjs; where there is an owner it reads, throws and changes nothing
ScriptStarts ==
    /\ calls[Script].stage = "idle" /\ ~IsBootstrapped
    /\ \E q \in Offered[Script]:
          Steps(Script, Perform(Script, [NoCall EXCEPT !.ask = q]))
    /\ UNCHANGED attempts

\* whether there is an owner; then, for a route that is not public, the credential
CheckRequest(c) ==
    LET call == calls[c]
    IN  /\ call.stage = "checking" /\ call.ask.route # "login"
        /\ Steps(c, IF ~IsBootstrapped THEN Answer(call, "bootstrap_required")
                    ELSE IF Unreadable(call.ask) THEN Answer(call, "invalid_authentication")
                    ELSE IF call.ask.cred = None THEN Identified(c, call)
                    ELSE Goes(call, "authenticating"))
        /\ UNCHANGED attempts

\* createLoginRateLimiter
Counts(key) == attempts' = [attempts EXCEPT ![key] = @ + 1]

\* login
CheckLogin(c) ==
    LET call == calls[c]
        key == <<"login", call.ask.user>>
    IN  /\ call.stage = "checking" /\ call.ask.route = "login"
        /\ \/ /\ ~IsBootstrapped
              /\ Steps(c, Answer(call, "bootstrap_required"))
              /\ UNCHANGED attempts
           \/ /\ IsBootstrapped
              /\ Counts(key)
              /\ Steps(c, IF attempts[key] >= LoginLimit THEN Answer(call, "rate_limited")
                          ELSE Goes(call, "verifying"))

\* verifyPassword, up to the audit of its result
VerifyPassword(c) ==
    LET call == calls[c]
        q == call.ask
        who == IF q.user \in file.users /\ q.right
               THEN [user |-> q.user, role |-> None, method |-> "session", scopes |-> None]
               ELSE None
        known == [call EXCEPT !.who = who]
    IN  /\ call.stage = "verifying"
        /\ Steps(c, Waits(known, "auditing", Audit(c, known)))
        /\ UNCHANGED attempts

\* authenticateCredentials
Authenticate(c) ==
    LET known == [calls[c] EXCEPT !.who = Authenticated(calls[c].ask.cred)]
    IN  /\ calls[c].stage = "authenticating"
        /\ Steps(c, Identified(c, known))
        /\ UNCHANGED attempts

\* an operation that leaves the state of this module alone
Execute(c) ==
    /\ calls[c].stage = "executing" /\ calls[c].ask.route # "postRecallMap"
    /\ \E code \in {"ok", "internal_error"}: Steps(c, Answer(calls[c], code))
    /\ UNCHANGED attempts

\* postRecallMap
RecallMap(c) ==
    LET key == <<"recall", calls[c].who.user>>
    IN  /\ calls[c].stage = "executing" /\ calls[c].ask.route = "postRecallMap"
        /\ Counts(key)
        /\ \E code \in IF attempts[key] >= RecallLimit THEN {"rate_limited"}
                       ELSE {"ok", "internal_error"}:
              Steps(c, Answer(calls[c], code))

\* startRun: the workflow returns, or throws
WorkflowEnds(c) ==
    /\ calls[c].stage = "running"
    /\ \E o \in {Saves(calls[c]), Answer(calls[c], "internal_error")}: Steps(c, o)
    /\ UNCHANGED attempts

\* sendStream: the client goes
StreamCloses(c) ==
    /\ calls[c].stage = "streaming"
    /\ Steps(c, Answer(calls[c], "ok"))
    /\ UNCHANGED attempts

\* an update of the identity file ends, and the call that waited for it goes on
UpdateSettles(p) ==
    /\ queue[p] # <<>> /\ snapshot[p] # None
    /\ LET job == Head(queue[p])
           c == job.call
           seen == snapshot[p]
           answers(stage) == calls[c].stage = stage
           others == {x \in DOMAIN seen.sessions: seen.sessions[x].user = job.user}
           revoked == {job.target} \cap
                         DOMAIN (IF job.kind = "logout" THEN seen.sessions ELSE seen.tokens)
       IN  \E error \in {None, Work(seen, job).error, "write_failed"}:
             /\ UpdateEnds(p, error)
             /\ Moves(c, Continue(c, calls[c], error), Tail(queue[p]))
             /\ issued' = IF error = None /\ (answers("opening") \/ answers("issuing"))
                          THEN issued \cup {c} ELSE issued
             /\ ended' = IF error # None THEN ended
                         ELSE IF answers("opening") THEN ended \cup others
                         ELSE IF answers("revoking") THEN ended \cup revoked
                         ELSE ended
    /\ UNCHANGED <<attempts, runs, broken, kept>>

Ends(c, code) == calls' = [calls EXCEPT ![c] = Answer(@, code).call]

\* FileStateStore.update: after one that failed all are refused
SaveEnds ==
    /\ storeQueue # <<>>
    /\ LET c == Head(storeQueue)
           reset == calls[c].ask.route = "resetBootstrap"
       IN  \/ /\ broken
              /\ Ends(c, "internal_error")
              /\ UNCHANGED <<runs, kept, broken, faults>>
           \/ /\ ~broken
              /\ runs' = IF reset THEN {} ELSE runs \cup {c}
              /\ kept' = IF reset THEN {} ELSE kept \cup {c}
              /\ Ends(c, "ok")
              /\ UNCHANGED <<broken, faults>>
           \/ /\ ~broken
              /\ Fault
              /\ broken' = TRUE
              /\ Ends(c, "internal_error")
              /\ UNCHANGED <<runs, kept>>
    /\ storeQueue' = Tail(storeQueue)
    /\ UNCHANGED <<file, queue, snapshot, expired, overlapped, attempts, issued, ended>>

\* the window of a bucket is over, or the bucket is dropped to make room
WindowEnds(key) ==
    /\ attempts[key] > 0
    /\ attempts' = [attempts EXCEPT ![key] = 0]
    /\ UNCHANGED <<identityVars, calls, storeQueue, runs, broken, issued, ended, kept>>

\* a process dies; the server is started again
Crash(p) ==
    /\ \E c \in Calls: Home(c) = p /\ InFlight(c)
    /\ Fault
    /\ calls' = [c \in Calls |->
          IF Home(c) = p /\ InFlight(c) THEN [NoCall EXCEPT !.stage = "lost"] ELSE calls[c]]
    /\ queue' = [queue EXCEPT ![p] = <<>>]
    /\ snapshot' = [snapshot EXCEPT ![p] = None]
    /\ storeQueue' = IF p = "api" THEN <<>> ELSE storeQueue
    /\ broken' = (broken /\ p # "api")
    /\ attempts' = IF p = "api" THEN [k \in DOMAIN attempts |-> 0] ELSE attempts
    /\ UNCHANGED <<file, expired, overlapped, runs, issued, ended, kept>>

\* what a call does by itself
Advance(c) ==
    \/ CheckRequest(c) \/ CheckLogin(c) \/ VerifyPassword(c) \/ Authenticate(c)
    \/ Execute(c) \/ RecallMap(c) \/ WorkflowEnds(c)

Next ==
    \/ \E c \in Calls: Receive(c) \/ Advance(c) \/ StreamCloses(c)
    \/ ScriptStarts
    \/ \E p \in Procs: UpdateReads(p) /\ UNCHANGED apiVars
    \/ \E p \in Procs: UpdateSettles(p) \/ Crash(p)
    \/ SaveEnds
    \/ \E key \in DOMAIN attempts: WindowEnds(key)
    \/ \E x \in Calls: Expire(x) /\ UNCHANGED apiVars

\* the event loop of a process comes round to every wait that is over; reads,
\* writes and the local operations end
Fairness ==
    /\ \A c \in Calls: WF_vars(Advance(c))
    /\ \A p \in Procs: WF_vars(UpdateReads(p) /\ UNCHANGED apiVars) /\ WF_vars(UpdateSettles(p))
    /\ WF_vars(SaveEnds)

Spec == Init /\ [][Next]_vars /\ Fairness

-----------------------------------------------------------------------------
(* Properties.                                                             *)

\* What was answered stands: a session or token that a client was given is in
\* the identity file, a credential whose end was confirmed (logout, revocation
\* or a later login) is revoked there, and a run that was answered is in
\* state.json until a reset - after failed writes, crashes and other requests
\* in between.  A bootstrap by the script that overlaps one of the API may
\* write over what the API has written.
AnsweredKept ==
    /\ overlapped \/ \A x \in issued: x \in DOMAIN file.sessions \cup DOMAIN file.tokens
    /\ \A x \in ended:
          /\ x \in DOMAIN file.sessions => file.sessions[x].revoked
          /\ x \in DOMAIN file.tokens => file.tokens[x].revoked
    /\ kept \subseteq runs

\* A request that arrives after the end of its credential was answered, at a
\* route that asks for one, gets no further than authentication, whatever
\* updates wait or fail meanwhile.
EndedIsOut ==
    \A c \in Calls: calls[c].dead =>
        calls[c].stage \in {"checking", "authenticating", "refusing", "done"}
        /\ ~calls[c].ok

\* Every request is answered, becomes an open stream or is lost with its
\* process: no failed update and no waiting request holds another for ever (each
\* call is made once).
RequestsEnd ==
    <>[](\A c \in Calls: ~InFlight(c) \/ calls[c].stage = "streaming")

=============================================================================
