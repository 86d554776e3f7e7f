---------------------------- MODULE ToolExecution ----------------------------
(***************************************************************************)
(* The tool executor (packages/tool-registry/src/index.mjs): invocations   *)
(* of registered tools that are validated, put to the policy, granted,     *)
(* run under a deadline and reported, with the effect boundary and the     *)
(* file broker through which a write reaches the workspace.                *)
(*                                                                         *)
(* Calls overlap.  An action is what one call does from one await to the   *)
(* next: the event sink, the audit of the policy decision and the file     *)
(* system answer in any order.  A deadline is a timer that may fire at any *)
(* point while the handler is awaited; the handler goes on behind it.      *)
(* A retry is a call with the request of another, made when that one was   *)
(* answered.                                                               *)
(***************************************************************************)
EXTENDS Policy, FiniteSets

CONSTANTS
    Calls,      \* invocations
    Tools,      \* [tool ids -> [enabled, bound, operations]]: the registry
    Offered,    \* requests
    Mixes,      \* the assignments of requests to calls that are tried
    RetryOf,    \* [Calls -> the call whose request it repeats, or None]
    Cancellable,\* calls whose caller may abort their signal
    MaxFaults   \* bound: failures of the event sink and of the audit

ASSUME ToolAssumption ==
    /\ Mixes \subseteq [Calls -> Offered]
    /\ RetryOf \in [Calls -> Calls \cup {None}]
    /\ Cancellable \subseteq Calls
    /\ MaxFaults \in Nat

VARIABLES
    req,        \* [Calls -> Offered]
    call,       \* [Calls -> the progress of the call]
    records,    \* [keys -> what the effect boundary recorded or None]
    files,      \* [paths -> the last call whose file is there or None]
    faults      \* failures of the sink so far

vars == <<req, call, records, files, faults>>

Keys == {q.key : q \in Offered} \ {None}
Paths == {q.path : q \in Offered}

\* The operation a request names, of a registered tool.
Operation(q) == Tools[q.tool].operations[q.operation]

\* canonicalOperationFingerprint, by the fields it hashes.
Fingerprint(q) ==
    <<q.user.id, q.workspace, q.tool, q.operation, q.requested, q.timeout,
      q.path, q.key>>

\* operationCapability: what is asked for, with the limits of the operation
\* and of the request over its own.
Capability(q) ==
    LET op == Operation(q)
        cap == IF q.requested # None THEN q.requested
               ELSE [tool |-> q.tool, operation |-> q.operation,
                     class |-> op.class, read |-> op.read, write |-> op.write,
                     network |-> op.network, secrets |-> op.secrets,
                     classes |-> op.classes, sandbox |-> op.sandbox]
        runtime == IF q.timeout # None THEN q.timeout ELSE op.limits.runtimeMs
    IN  [x \in DOMAIN cap \cup {"limits"} |->
            IF x = "limits" THEN [runtimeMs |-> runtime] ELSE cap[x]]

\* The request that execute puts to the policy.
PolicyRequest(q) ==
    [user |-> q.user, workspace |-> q.workspace, member |-> q.member,
     action |-> "tool.invoke", type |-> "tool", owner |-> q.workspace,
     dataClass |-> "workspace-private", capability |-> Capability(q),
     manifest |-> [id |-> q.tool, operations |-> Tools[q.tool].operations],
     approval |-> q.approval, key |-> q.key,
     operationFingerprint |-> Fingerprint(q)]

\* The code with which a request is refused before anything is awaited, or
\* None.
Refusal(q) ==
    CASE ~q.wellFormed -> "tool_request_invalid"
      [] q.user = None \/ q.member = None \/ ~q.member.active ->
            "tool_trusted_context_required"
      [] q.tool \notin DOMAIN Tools -> "tool_not_registered"
      [] ~Tools[q.tool].enabled -> "tool_disabled"
      [] q.operation \notin DOMAIN Tools[q.tool].operations ->
            "tool_operation_not_declared"
      [] q.approval # None /\ ~Operation(q).approval
            /\ Operation(q).class # "consequential-write" ->
            "tool_approval_invalid"
      [] OTHER -> None

\* The answer of the policy service to every request that gets that far, by
\* what became of the audit of the decision.
Decisions ==
    [q \in {o \in Offered : Refusal(o) = None} |->
        [audit \in Audits |-> Allowed(PolicyRequest(q), audit)]]

\* What is still missing when the policy has allowed the request, or None.
Unmet(q) ==
    CASE Operation(q).approval /\ q.approval = None -> "tool_approval_required"
      [] Operation(q).idempotency /\ q.key = None -> "tool_idempotency_required"
      [] Operation(q).class # "read-only" /\ ~q.boundary ->
            "tool_effect_boundary_required"
      [] OTHER -> None

Aborted == {"tool_timeout", "tool_cancelled"}

\* Null is none of the values that it stands beside.
ASSUME NullAssumption ==
    /\ None \notin Calls \cup Aborted \cup {"ok"}
    /\ \A q \in Offered : Refusal(q) = None =>
          /\ Capability(q) # None
          /\ \A c \in Calls : [by |-> c, fingerprint |-> Fingerprint(q)] # None

NewCall == [stage |-> "idle", code |-> None, active |-> TRUE,
            cancelled |-> FALSE, grant |-> "none", handler |-> "none",
            audit |-> "none", replayOf |-> None, wrote |-> FALSE,
            overlapped |-> FALSE]

Init ==
    /\ req \in {m \in Mixes : \A c \in Calls :
                  RetryOf[c] # None => m[c] = m[RetryOf[c]]}
    /\ call = [c \in Calls |-> NewCall]
    /\ records = [k \in Keys |-> None]
    /\ files = [p \in Paths |-> None]
    /\ faults = 0

-----------------------------------------------------------------------------
(* Changes of one call. *)

\* The catch clause of execute, up to the event it awaits.
Failed(k, code) == [k EXCEPT !.stage = "failing", !.code = code, !.active = FALSE]

\* The handler has ended.  If execute still waits for it, its output is
\* checked or its error caught; else nobody hears of it.
Settled(k, q, outcome) ==
    LET ended == [k EXCEPT !.handler = "ended"]
    IN  IF k.stage # "running" THEN ended
        ELSE IF outcome # "ok" THEN Failed(ended, outcome)
        ELSE IF ~q.fits THEN Failed(ended, "tool_output_too_large")
        ELSE [ended EXCEPT !.stage = "closing", !.active = FALSE]

\* The sink takes the event or, within the bound, throws.
Emit(Took, Threw) ==
    \/ Took /\ UNCHANGED faults
    \/ Threw /\ faults < MaxFaults /\ faults' = faults + 1

Set(c, k) == call' = [call EXCEPT ![c] = k]

-----------------------------------------------------------------------------
(* execute, from await to await. *)

\* execute up to the 'tool.requested' event.
Receive(c) ==
    /\ call[c].stage = "idle"
    /\ RetryOf[c] # None => call[RetryOf[c]].stage = "done"
    /\ Set(c, IF Refusal(req[c]) # None THEN Failed(call[c], Refusal(req[c]))
              ELSE [call[c] EXCEPT !.stage = "requesting"])
    /\ UNCHANGED <<req, records, files, faults>>

\* The event was taken; the policy has evaluated and awaits its audit.
Requested(c) ==
    /\ call[c].stage = "requesting"
    /\ Emit(Set(c, [call[c] EXCEPT !.stage = "deciding"]),
            Set(c, Failed(call[c], "tool_execution_failed")))
    /\ UNCHANGED <<req, records, files>>

\* The decision: a denial, an unmet condition, or a grant for this call.
Decided(c, audit) ==
    LET q == req[c]
        k == [call[c] EXCEPT !.audit = audit]
    IN  Set(c, IF ~Decisions[q][audit]
               THEN [k EXCEPT !.stage = "denying"]
               ELSE IF Unmet(q) # None THEN Failed(k, Unmet(q))
               ELSE [k EXCEPT !.stage = "authorizing", !.grant = "issued"])

\* The policy of a registry has an audit sink only if whoever built the registry
\* gave it one (sink); without one it answers at once.
Decide(c) ==
    /\ call[c].stage = "deciding"
    /\ IF req[c].sink THEN Emit(Decided(c, "recorded"), Decided(c, "failed"))
       ELSE Decided(c, "none") /\ UNCHANGED faults
    /\ UNCHANGED <<req, records, files>>

\* A denial is reported within the try block.
ReportDenial(c) ==
    /\ call[c].stage = "denying"
    /\ Emit(Set(c, [call[c] EXCEPT !.stage = "done",
                                   !.code = "tool_policy_denied"]),
            Set(c, Failed(call[c], "tool_execution_failed")))
    /\ UNCHANGED <<req, records, files>>

\* The lifetime of a grant, no longer than the deadline, ends while
\* 'tool.authorized' is awaited; or its holder revokes it.
GrantEnds(c) ==
    /\ call[c].stage = "authorizing"
    /\ call[c].grant = "issued"
    /\ \E g \in {"expired", "revoked"} : Set(c, [call[c] EXCEPT !.grant = g])
    /\ UNCHANGED <<req, records, files, faults>>

\* consume: the code with which the grant is refused, or None.
GrantRefused(k) ==
    CASE k.grant = "revoked" -> "tool_grant_invalid"
      [] k.grant = "expired" -> "tool_grant_expired"
      [] OTHER -> None

\* The call looks up its key while another one with this key is executing.
Overlaps(c) ==
    \E d \in Calls \ {c} :
       /\ req[d].key = req[c].key
       /\ call[d].handler \in {"writing", "renaming", "renamed"}

\* Mutant: the record of the key is not looked up.
StartWrite_NoLookup(c, k) ==
    IF ~ScopesAllowed({req[c].path}, Capability(req[c]).write)
    THEN Settled(k, req[c], "tool_filesystem_denied")
    ELSE [k EXCEPT !.handler = "writing", !.overlapped = Overlaps(c)]

\* Mutant: the record of the key answers whatever operation asks for it.
StartWrite_AnyOperation(c, k) ==
    IF records[req[c].key] # None
    THEN Settled([k EXCEPT !.replayOf = records[req[c].key].by], req[c], "ok")
    ELSE IF ~ScopesAllowed({req[c].path}, Capability(req[c]).write)
    THEN Settled(k, req[c], "tool_filesystem_denied")
    ELSE [k EXCEPT !.handler = "writing", !.overlapped = Overlaps(c)]

\* The write handler up to its first await: the effect boundary answers from
\* its record, refuses another operation under the key, or executes; the file
\* broker refuses a path outside the scopes of the effective capability.
StartWrite(c, k) ==
    LET q == req[c]
        r == records[q.key]
    IN  IF r # None
        THEN IF r.fingerprint # Fingerprint(q)
             THEN Settled(k, q, "tool_idempotency_conflict")
             ELSE Settled([k EXCEPT !.replayOf = r.by], q, "ok")
        ELSE IF ~ScopesAllowed({q.path}, Capability(q).write)
             THEN Settled(k, q, "tool_filesystem_denied")
             ELSE [k EXCEPT !.handler = "writing", !.overlapped = Overlaps(c)]

\* The handler of a call, started under the deadline.  A write goes to the
\* effect boundary, which asks for a key even if the operation does not.
StartHandler(c, k) ==
    CASE Operation(req[c]).class = "read-only" -> [k EXCEPT !.handler = "reading"]
      [] Operation(req[c]).class # "read-only" /\ req[c].key = None ->
            Settled(k, req[c], "tool_idempotency_required")
      [] OTHER -> StartWrite(c, k)

\* 'tool.authorized' was taken: the grant is consumed and the handler runs.
Authorized(c) ==
    LET k == call[c]
        run == [k EXCEPT !.grant = "consumed", !.stage = "running"]
    IN  /\ k.stage = "authorizing"
        /\ Emit(Set(c, CASE GrantRefused(k) # None -> Failed(k, GrantRefused(k))
                         [] ~Tools[req[c].tool].bound ->
                              Failed(run, "tool_sandbox_unavailable")
                         [] k.cancelled -> Failed(run, "tool_cancelled")
                         [] OTHER -> StartHandler(c, run)),
                Set(c, Failed(k, "tool_execution_failed")))
        /\ UNCHANGED <<req, records, files>>

\* Mutant: only calls that ask for a timeout have a deadline.
Deadline_OnlyAsked(c) ==
    /\ req[c].timeout # None
    /\ call[c].stage = "running"
    /\ Set(c, Failed(call[c], "tool_timeout"))
    /\ UNCHANGED <<req, records, files, faults>>

\* The deadline fires while the handler is awaited.
Deadline(c) ==
    /\ call[c].stage = "running"
    /\ Set(c, Failed(call[c], "tool_timeout"))
    /\ UNCHANGED <<req, records, files, faults>>

\* The caller's signal is aborted.  Before the handler runs it is looked at
\* once, when the deadline is set: aborting it earlier than in the stage
\* before that makes no difference, nor does aborting it afterwards.
Cancel(c) ==
    /\ c \in Cancellable
    /\ call[c].stage \in {"authorizing", "running"}
    /\ ~call[c].cancelled
    /\ LET k == [call[c] EXCEPT !.cancelled = TRUE]
       IN  Set(c, IF k.stage = "running" THEN Failed(k, "tool_cancelled") ELSE k)
    /\ UNCHANGED <<req, records, files, faults>>

\* 'tool.completed' was taken, or threw: then the call is reported failed.
Complete(c) ==
    /\ call[c].stage = "closing"
    /\ Emit(Set(c, [call[c] EXCEPT !.stage = "done", !.code = "ok"]),
            Set(c, Failed(call[c], "tool_execution_failed")))
    /\ UNCHANGED <<req, records, files>>

\* The event of the catch clause; its failure is swallowed.
ReportFailure(c) ==
    /\ call[c].stage = "failing"
    /\ Set(c, [call[c] EXCEPT !.stage = "done"])
    /\ UNCHANGED <<req, records, files, faults>>

-----------------------------------------------------------------------------
(* The handlers behind the deadline. *)

\* A read (file, loopback address, secret, echo) returns or throws.
ReadReturns(c) ==
    /\ call[c].handler = "reading"
    /\ \E outcome \in {"ok", "tool_filesystem_denied"} :
          Set(c, Settled(call[c], req[c], IF call[c].active THEN outcome
                                          ELSE "tool_cancelled"))
    /\ UNCHANGED <<req, records, files, faults>>

\* The temporary file is written: the broker looks whether the call is still
\* active and asks for the rename.
TempWritten(c) ==
    /\ call[c].handler = "writing"
    /\ Set(c, IF call[c].active THEN [call[c] EXCEPT !.handler = "renaming"]
              ELSE Settled(call[c], req[c], "tool_cancelled"))
    /\ UNCHANGED <<req, records, files, faults>>

\* The file system renames, whatever became of the call meanwhile.
RenameLands(c) ==
    /\ call[c].handler = "renaming"
    /\ files' = [files EXCEPT ![req[c].path] = c]
    /\ Set(c, [call[c] EXCEPT !.handler = "renamed", !.wrote = TRUE])
    /\ UNCHANGED <<req, records, faults>>

\* Writing or renaming fails.
WriteFails(c) ==
    /\ call[c].handler \in {"writing", "renaming"}
    /\ Set(c, Settled(call[c], req[c], "tool_execution_failed"))
    /\ UNCHANGED <<req, records, files, faults>>

\* Mutant: whether the call is still active is not looked at again.
RenameReturns_Unguarded(c) ==
    /\ call[c].handler = "renamed"
    /\ records' = [records EXCEPT ![req[c].key] =
                      [by |-> c, fingerprint |-> Fingerprint(req[c])]]
    /\ Set(c, Settled(call[c], req[c], "ok"))
    /\ UNCHANGED <<req, files, faults>>

\* execute of the guarded boundary returns: an active call is recorded under
\* its key, over whatever another call has recorded there meanwhile.
RenameReturns(c) ==
    /\ call[c].handler = "renamed"
    /\ IF call[c].active
       THEN /\ records' = [records EXCEPT ![req[c].key] =
                             [by |-> c, fingerprint |-> Fingerprint(req[c])]]
            /\ Set(c, Settled(call[c], req[c], "ok"))
       ELSE /\ Set(c, Settled(call[c], req[c], "tool_cancelled"))
            /\ UNCHANGED records
    /\ UNCHANGED <<req, files, faults>>

-----------------------------------------------------------------------------
Execute(c) ==
    \/ Requested(c) \/ Decide(c) \/ ReportDenial(c) \/ Authorized(c)
    \/ Deadline(c) \/ Complete(c) \/ ReportFailure(c)

Handle(c) ==
    \/ ReadReturns(c) \/ TempWritten(c) \/ RenameLands(c)
    \/ WriteFails(c) \/ RenameReturns(c)

Next ==
    \E c \in Calls :
       \/ Receive(c) \/ Execute(c) \/ GrantEnds(c) \/ Cancel(c) \/ Handle(c)

\* The sink answers and the timer fires; no handler is trusted to return.  A
\* call has finitely many steps, so none is left behind by the others.
Fairness == WF_vars(\E c \in Calls : Execute(c))

Spec == Init /\ [][Next]_vars /\ Fairness
-----------------------------------------------------------------------------
(* Properties. *)

\* A call that was reported as timed out or cancelled has no effect record,
\* however late its handler comes back: a retry is not answered from work
\* that the caller was told did not happen.
AbortedNeverRecords ==
    \A k \in Keys :
       records[k] # None => call[records[k].by].code \notin Aborted

\* Calls of one key whose write landed, leaving out those that were aborted
\* and those that looked up the key while another one was executing.
PlainWrites(k) ==
    {c \in Calls : /\ req[c].key = k
                   /\ call[c].wrote
                   /\ call[c].code \notin Aborted
                   /\ ~call[c].overlapped}

\* Retries of a key write once: whatever failed after the write (the event
\* sink, the size of the output), a later call under the key does not repeat
\* it.  The exceptions are the two PlainWrites leaves out.
EffectOnce == \A k \in Keys : Cardinality(PlainWrites(k)) <= 1

\* What a completed write reports has happened: the call, or the call it was
\* answered from, has written the file of this very operation and was active
\* when it was recorded.
CompletedWriteHappened ==
    \A c \in Calls :
       /\ call[c].code = "ok"
       /\ Operation(req[c]).class # "read-only"
       => \E d \in Calls :
             /\ d = IF call[c].replayOf = None THEN c ELSE call[c].replayOf
             /\ call[d].wrote
             /\ call[d].code \notin Aborted
             /\ Fingerprint(req[d]) = Fingerprint(req[c])

\* Through a registry whose policy has an audit sink, a file is written only under a
\* decision that was audited, whatever the sink fails to take.  There are two
\* exceptions in the code: without a sink, as a registry is built by default,
\* writes go on unaudited; and a request that understates the class of its
\* operation is taken for a read, since the policy service looks at the class
\* of the capability asked for.
WritesAudited ==
    \A c \in Calls :
       call[c].wrote /\ req[c].sink => \/ call[c].audit = "recorded"
                                      \/ Capability(req[c]).class = "read-only"

\* Every call is answered, even if its handler never returns.
EventuallyAnswered ==
    \A c \in Calls : call[c].stage # "idle" ~> call[c].stage = "done"
=============================================================================
