-------------------------------- MODULE Policy --------------------------------
(***************************************************************************)
(* The policy engine (packages/policy/src/index.mjs): the reasons for      *)
(* which a request is denied, as an operator of the request.  It is shared *)
(* by the tool executor and the control API.                               *)
(*                                                                         *)
(* A request is a record                                                   *)
(*   user        [id, active, method, workspaces, scopes] or None: the     *)
(*               principal; the last two are those of an API token or None *)
(*   workspace   the workspace asked for                                   *)
(*   member      [workspace, role, active] or None                         *)
(*   action, type, owner (the workspace of the resource) and dataClass     *)
(*   capability, manifest, approval: records or None                       *)
(*   key         the idempotency key or None                               *)
(*   operationFingerprint: what canonicalOperationFingerprint returns,     *)
(*               equal for two requests iff the fields it covers are       *)
(*                                                                         *)
(* A file system scope is a sequence of names, <<>> for workspace:root.    *)
(* Requests are well formed: shapes and unknown fields are left out.       *)
(***************************************************************************)
EXTENDS Integers, SequencesExt

CONSTANT None       \* null

AuthzActions ==
    {"system.status.read", "workspace.read", "workspace.manage",
     "dashboard.read", "run.read", "run.execute", "context.compile",
     "memory.approve", "stream.read", "workspace.reset", "token.manage",
     "audit.read"}

KnownActions == AuthzActions \cup {"tool.invoke"}

\* What each role may do.
RoleActions ==
    LET reader == {"workspace.read", "dashboard.read", "run.read",
                   "stream.read", "tool.invoke"}
        operator == reader \cup {"run.execute"}
    IN  [owner    |-> KnownActions,
         builder  |-> operator \cup {"context.compile", "memory.approve"},
         operator |-> operator,
         auditor  |-> reader \cup {"audit.read"}]

ResourceTypes ==
    {"system", "workspace", "run", "workflow", "context", "artifact",
     "source-snapshot", "memory", "tool", "token", "audit"}

DataClasses == {"public", "workspace-private", "confidential", "secret"}

RiskRank == [c \in {"read-only", "reversible-write", "consequential-write"} |->
                CASE c = "read-only" -> 0
                  [] c = "reversible-write" -> 1
                  [] OTHER -> 2]

\* The conditions of a record of conditions that hold.
Reasons(conditions) == {c \in DOMAIN conditions : conditions[c]}

ScopesAllowed(requested, allowed) ==
    \A s \in requested : \E root \in allowed : IsPrefix(root, s)

\* Limits that the manifest does not name are not bounded.
LimitsAllowed(requested, maxima) ==
    \A k \in DOMAIN requested \cap DOMAIN maxima : requested[k] <= maxima[k]

NetworkContains(allowed, requested) ==
    /\ \A k \in {"protocol", "host", "port", "locality", "consequence"} :
          allowed[k] = requested[k]
    /\ requested.methods \subseteq allowed.methods

\* What the capability asks beyond the declared operation of the tool.
CapabilityDenials(q) ==
    LET cap == q.capability
        man == q.manifest
    IN  IF man = None \/ cap = None THEN {"tool_not_registered"}
        ELSE Reasons([tool_not_registered |-> man.id # cap.tool]) \cup
             IF cap.operation \notin DOMAIN man.operations
             THEN {"operation_not_declared"}
             ELSE LET op == man.operations[cap.operation] IN Reasons(
               [capability_exceeds_manifest |->
                    RiskRank[cap.class] > RiskRank[op.class],
                filesystem_read_denied |-> ~ScopesAllowed(cap.read, op.read),
                filesystem_write_denied |-> ~ScopesAllowed(cap.write, op.write),
                external_writes_disabled |->
                    \E n \in cap.network : n.consequence = "write"
                                           /\ n.locality = "external",
                network_denied |->
                    \E n \in cap.network :
                       \A a \in op.network : ~NetworkContains(a, n),
                secret_scope_denied |-> ~(cap.secrets \subseteq op.secrets),
                data_class_denied |-> ~(cap.classes \subseteq op.classes),
                sandbox_denied |-> cap.sandbox # op.sandbox,
                budget_exceeded |-> ~LimitsAllowed(cap.limits, op.limits)])

\* An approval is for one operation of one actor and not yet over.
ApprovalDenials(q) ==
    LET a == q.approval IN Reasons(
      [approval_invalid |-> ~(a.active /\ a.serverVerified),
       approval_scope_mismatch |->
           \/ a.workspace # q.workspace
           \/ q.user = None
           \/ a.actor # q.user.id
           \/ a.operationFingerprint # q.operationFingerprint,
       approval_expired |-> a.expired])

SideEffectClass(q) ==
    IF q.capability = None THEN "read-only" ELSE q.capability.class

RequiresApproval(q) ==
    \/ SideEffectClass(q) = "consequential-write"
    \/ /\ q.manifest # None
       /\ q.capability # None
       /\ q.capability.operation \in DOMAIN q.manifest.operations
       /\ q.manifest.operations[q.capability.operation].approval

\* A bearer token is confined to its workspaces and scopes and never manages
\* tokens.
TokenDenies(q) ==
    /\ q.user # None
    /\ q.user.method = "bearer"
    /\ \/ q.user.workspaces # None /\ q.workspace \notin q.user.workspaces
       \/ q.user.scopes # None /\ q.action \notin q.user.scopes
       \/ q.action = "token.manage"

\* The resource is of another workspace.
Foreign(q) ==
    /\ q.owner # None
    /\ q.workspace # None
    /\ q.owner # q.workspace

\* evaluateContextualPolicy: the reasons to deny; none of them means allow.
Denials(q) ==
    LET role == IF q.member = None THEN None ELSE q.member.role
        supported == role # None /\ role \in DOMAIN RoleActions
    IN  Reasons(
          [missing_identity |-> q.user = None \/ ~q.user.active,
           missing_workspace |-> q.workspace = None,
           unknown_action |-> q.action \notin KnownActions,
           membership_required |->
               \/ q.member = None
               \/ ~q.member.active
               \/ q.member.workspace # q.workspace,
           unsupported_role |-> role # None /\ ~supported,
           resource_denied |->
               \/ supported /\ q.action \notin RoleActions[role]
               \/ TokenDenies(q)
               \/ q.type \notin ResourceTypes,
           workspace_mismatch |-> Foreign(q),
           data_class_denied |->
               \/ q.dataClass \notin DataClasses
               \/ q.dataClass = "secret"
                  /\ \/ q.action = "context.compile"
                     \/ q.type = "context"
                     \/ q.capability # None /\ q.capability.network # {}
               \/ q.dataClass = "confidential" /\ Foreign(q),
           approval_required |-> RequiresApproval(q) /\ q.approval = None,
           idempotency_required |-> SideEffectClass(q) # "read-only"
                                    /\ q.key = None])
        \cup (IF q.capability # None \/ q.action = "tool.invoke"
              THEN CapabilityDenials(q) ELSE {})
        \cup (IF RequiresApproval(q) /\ q.approval # None
              THEN ApprovalDenials(q) ELSE {})

\* What became of the audit of a decision: the service has no audit sink, the
\* sink took the event, or it threw.
Audits == {"none", "recorded", "failed"}

\* Mutant: a decision stands even if its audit failed.
Allowed_AuditOptional(q, audit) == Denials(q) = {}

\* createPolicyService: without a sink, or with the event recorded, the decision
\* stands; when the sink throws, a denial stands, a read is allowed all the same
\* and a write is denied.
Allowed(q, audit) ==
    /\ Denials(q) = {}
    /\ audit = "failed" => SideEffectClass(q) = "read-only"
=============================================================================
