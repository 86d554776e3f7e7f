------------------------- MODULE ToolExecutionProofs -------------------------
(***************************************************************************)
(* Proofs about the tool executor, for any number of calls, tools,         *)
(* requests and faults: what a call that was timed out or cancelled leaves *)
(* behind, that a key has one effect, that a completed write has happened  *)
(* and that a registry with an audit sink writes only what was audited.    *)
(* What the policy and the registry say of a request is taken as it is: no *)
(* proof looks into Denials.                                               *)
(***************************************************************************)
EXTENDS ToolExecution, FiniteSetTheorems, TLAPS

-----------------------------------------------------------------------------
(* Types. *)

\* The stages before the handler runs, and those after execute let go of it.
Before == {"idle", "requesting", "deciding", "denying", "authorizing"}
After == {"closing", "failing", "done"}

\* The handlers that run the effect of a key, and all that are running.
Executing == {"writing", "renaming", "renamed"}
InFlight == {"reading"} \cup Executing

Codes == Aborted \cup {None, "ok", "tool_request_invalid",
    "tool_trusted_context_required", "tool_not_registered", "tool_disabled",
    "tool_operation_not_declared", "tool_approval_invalid",
    "tool_approval_required", "tool_idempotency_required",
    "tool_effect_boundary_required", "tool_policy_denied",
    "tool_grant_invalid", "tool_grant_expired", "tool_sandbox_unavailable",
    "tool_filesystem_denied", "tool_idempotency_conflict",
    "tool_output_too_large", "tool_execution_failed"}

CallRow == [stage : Before \cup {"running"} \cup After, code : Codes,
            active : BOOLEAN, cancelled : BOOLEAN,
            grant : {"none", "issued", "expired", "revoked", "consumed"},
            handler : {"none", "ended"} \cup InFlight, audit : Audits,
            replayOf : Calls \cup {None}, wrote : BOOLEAN, overlapped : BOOLEAN]

TypeOK ==
    /\ req \in [Calls -> Offered]
    /\ call \in [Calls -> CallRow]
    /\ DOMAIN records = Keys
    /\ files \in [Paths -> Calls \cup {None}]
    /\ faults \in 0 .. MaxFaults

-----------------------------------------------------------------------------
(* The inductive invariant. *)

\* What the progress of a call says by itself: execute waits for a handler
\* exactly while it is running, a handler that outlives it belongs to a call
\* that was aborted, and only a decision starts one.
Progress(k, q) ==
    /\ k.stage \in Before => k.handler = "none" /\ k.active
    /\ k.stage \in Before \cup {"running", "closing"} => k.code = None
    /\ k.stage = "running" => k.handler \in InFlight /\ k.active
    /\ k.stage = "closing" => k.handler = "ended"
    /\ k.handler \in InFlight /\ k.stage # "running" =>
          ~k.active /\ k.code \in Aborted
    /\ k.stage \in {"requesting", "deciding", "authorizing"} \/ k.handler # "none" =>
          Refusal(q) = None
    /\ q.sink /\ (k.stage = "authorizing" \/ k.handler # "none") =>
          k.audit = "recorded" \/ Capability(q).class = "read-only"
    /\ k.handler = "reading" => Operation(q).class = "read-only"
    /\ k.handler = "renamed" => k.wrote
    /\ k.wrote => k.handler \in {"renamed", "ended"}
    /\ k.wrote \/ k.handler \in Executing => q.key \in Keys
    /\ k.replayOf # None => k.handler = "ended"
    /\ k.stage = "closing" \/ k.code = "ok" =>
          Operation(q).class = "read-only" \/ k.replayOf # None
             \/ (k.handler = "ended" /\ k.wrote)

\* The write of a call has landed, the call was not aborted and is over.
Stands(k) == k.handler = "ended" /\ k.wrote /\ k.code \notin Aborted

\* A call that counts, now or later, as one that wrote under its key.
Touching(k) == k.handler \in Executing \/ (k.wrote /\ k.code \notin Aborted)

\* A record tells of a write that stands; and so does an answer from one.
RecordStands(key) ==
    records[key] # None =>
       LET d == records[key].by
       IN  /\ d \in Calls
           /\ Stands(call[d])
           /\ req[d].key = key
           /\ records[key].fingerprint = Fingerprint(req[d])

AnswerStands(c) ==
    call[c].replayOf # None =>
       LET d == call[c].replayOf
       IN  Stands(call[d]) /\ Fingerprint(req[d]) = Fingerprint(req[c])

\* A write that stands has left a record, its own or a later one.
WriteRecorded(c) == Stands(call[c]) => records[req[c].key] # None

\* Of two calls that write under a key, one began while the other executed.
OneOverlaps(c, d) ==
    /\ c # d
    /\ req[c].key = req[d].key
    /\ Touching(call[c])
    /\ Touching(call[d])
    => call[c].overlapped \/ call[d].overlapped

IInv ==
    /\ TypeOK
    /\ \A c \in Calls : Progress(call[c], req[c])
    /\ \A key \in Keys : RecordStands(key)
    /\ \A c \in Calls : AnswerStands(c)
    /\ \A c \in Calls : WriteRecorded(c)
    /\ \A c, d \in Calls : OneOverlaps(c, d)

-----------------------------------------------------------------------------
(* Steps of one call that no other call can tell. *)

\* A row that leaves everything as it was for the keys and the other calls.
Quiet(j, k, q) ==
    /\ k \in CallRow
    /\ Progress(k, q)
    /\ Stands(k) <=> Stands(j)
    /\ Touching(k) => Touching(j) /\ k.overlapped = j.overlapped
    /\ k.replayOf = j.replayOf

\* The progress of a call that has failed before its handler ran, while it
\* was awaited (only a deadline or a signal does that) or after it returned.
LEMMA FailQuiet ==
    ASSUME NEW j \in CallRow, NEW q, Progress(j, q), NEW code \in Codes \ {"ok"},
           j.stage \in Before \cup {"running", "closing"},
           j.stage = "running" <=> code \in Aborted
    PROVE  Quiet(j, Failed(j, code), q)
<1>. DEFINE k == Failed(j, code)
<1>1. k \in CallRow  BY DEF CallRow, Failed, After
<1>2. /\ k.stage = "failing" /\ k.code = code /\ ~k.active
      /\ k.handler = j.handler /\ k.audit = j.audit /\ k.wrote = j.wrote
      /\ k.replayOf = j.replayOf /\ k.overlapped = j.overlapped
  BY DEF CallRow, Failed
<1>. HIDE DEF k
<1>3. Progress(k, q)  BY <1>2 DEF Progress, Before, InFlight, Executing
<1>4. j.code = None /\ None \notin Aborted  BY NullAssumption DEF Progress
<1>5. j.handler \in {"none", "ended"} \cup InFlight  BY DEF CallRow
<1>6. Stands(k) <=> Stands(j)
  BY <1>2, <1>4 DEF Stands, Progress, InFlight, Executing
<1>7. Touching(k) => Touching(j)  BY <1>2, <1>4 DEF Touching
<1>. QED  BY <1>1, <1>2, <1>3, <1>6, <1>7 DEF Quiet, k

\* A handler that ends with an error, its write not landed or its call aborted.
LEMMA ErrorQuiet ==
    ASSUME NEW j \in CallRow, NEW q, Progress(j, q), NEW code \in Codes \ {"ok"},
           j.handler \in InFlight, j.wrote => ~j.active
    PROVE  Quiet(j, Settled(j, q, code), q)
<1>. DEFINE e == [j EXCEPT !.handler = "ended"]
            k == Settled(j, q, code)
<1>1. /\ e \in CallRow /\ e.handler = "ended" /\ e.stage = j.stage /\ e.code = j.code
      /\ e.audit = j.audit /\ e.wrote = j.wrote /\ e.active = j.active
      /\ e.replayOf = j.replayOf /\ e.overlapped = j.overlapped
  BY DEF CallRow
<1>2. k = IF j.stage # "running" THEN e ELSE Failed(e, code)  BY DEF Settled
<1>. HIDE DEF e, k
<1>3. CASE j.stage # "running"
  <2>1. Progress(e, q)
    BY <1>1, <1>3, NullAssumption DEF Progress, Before, InFlight, Executing
  <2>2. Stands(e) <=> Stands(j)
    BY <1>1, <1>3 DEF Stands, Progress, InFlight, Executing
  <2>3. Touching(e) => Touching(j)  BY <1>1 DEF Touching, Executing
  <2>. QED  BY <1>1, <1>2, <1>3, <2>1, <2>2, <2>3 DEF Quiet, k
<1>4. CASE j.stage = "running"
  <2>1. j.active /\ ~j.wrote  BY <1>4 DEF Progress
  <2>2. k \in CallRow  BY <1>1, <1>2, <1>4 DEF CallRow, Failed, After
  <2>3. /\ k.stage = "failing" /\ k.code = code /\ ~k.active
        /\ k.handler = "ended" /\ k.audit = j.audit /\ k.wrote = j.wrote
        /\ k.replayOf = j.replayOf /\ k.overlapped = j.overlapped
    BY <1>1, <1>2, <1>4 DEF CallRow, Failed
  <2>4. Progress(k, q)
    BY <1>4, <2>1, <2>3 DEF Progress, Before, InFlight, Executing
  <2>5. ~Stands(k) /\ ~Stands(j) /\ ~Touching(k)
    BY <2>1, <2>3 DEF Stands, Touching, Executing
  <2>. QED  BY <2>2, <2>3, <2>4, <2>5 DEF Quiet, k
<1>. QED  BY <1>3, <1>4

\* Such a step preserves the invariant.
LEMMA QuietStep ==
    ASSUME IInv, NEW c \in Calls, UNCHANGED <<req, records>>,
           call' = [call EXCEPT ![c] = call'[c]],
           Quiet(call[c], call'[c], req[c]),
           files' \in [Paths -> Calls \cup {None}], faults' \in 0 .. MaxFaults
    PROVE  IInv'
<1>1. TypeOK'  BY DEF IInv, TypeOK, Quiet
<1>2. /\ call \in [Calls -> CallRow]
      /\ \A d \in Calls : d # c => call'[d] = call[d]
  BY DEF IInv, TypeOK
<1>3. \A d \in Calls : Stands(call'[d]) <=> Stands(call[d])
  BY <1>2 DEF Quiet
<1>4. \A d \in Calls : Touching(call'[d]) =>
         Touching(call[d]) /\ call'[d].overlapped = call[d].overlapped
  BY <1>2 DEF Quiet
<1>5. \A d \in Calls : call'[d].replayOf = call[d].replayOf  BY <1>2 DEF Quiet
<1>6. \A d \in Calls : Progress(call'[d], req'[d])  BY <1>2 DEF IInv, Quiet
<1>7. \A key \in Keys : RecordStands(key)'  BY <1>3 DEF IInv, RecordStands
<1>8. ASSUME NEW d \in Calls  PROVE AnswerStands(d)'
  <2>1. CASE call[d].replayOf = None  BY <1>5, <2>1 DEF AnswerStands
  <2>2. CASE call[d].replayOf # None
    <3>1. call[d].replayOf \in Calls  BY <1>2, <2>2 DEF CallRow
    <3>. QED  BY <1>3, <1>5, <2>2, <3>1 DEF IInv, AnswerStands
  <2>. QED  BY <2>1, <2>2
<1>9. \A d \in Calls : WriteRecorded(d)'  BY <1>3 DEF IInv, WriteRecorded
<1>10. \A d, e \in Calls : OneOverlaps(d, e)'  BY <1>4 DEF IInv, OneOverlaps
<1>. QED  BY <1>1, <1>6, <1>7, <1>8, <1>9, <1>10 DEF IInv

\* What the actions read of the invariant.
LEMMA Reading ==
    ASSUME IInv, NEW c \in Calls
    PROVE  /\ call[c] \in CallRow /\ Progress(call[c], req[c])
           /\ req[c] \in Offered
           /\ files \in [Paths -> Calls \cup {None}] /\ faults \in 0 .. MaxFaults
           /\ \A k : [call EXCEPT ![c] = k][c] = k
BY DEF IInv, TypeOK

\* The bound on the failures of the sink.
LEMMA EmitFaults ==
    ASSUME faults \in 0 .. MaxFaults, faults < MaxFaults, faults' = faults + 1
    PROVE  faults' \in 0 .. MaxFaults
BY ToolAssumption

\* A row with another stage, grant or mark that is otherwise as it was.
LEMMA SameQuiet ==
    ASSUME NEW j \in CallRow, NEW k \in CallRow, NEW q, Progress(k, q),
           k.handler = j.handler, k.wrote = j.wrote,
           k.code \in Aborted <=> j.code \in Aborted,
           k.overlapped = j.overlapped, k.replayOf = j.replayOf
    PROVE  Quiet(j, k, q)
BY DEF Quiet, Stands, Touching

-----------------------------------------------------------------------------
(* execute, up to the handler. *)

LEMMA RefusalCodes == \A q : Refusal(q) \in Codes \ Aborted /\ Refusal(q) # "ok"
BY NullAssumption DEF Refusal, Codes, Aborted

LEMMA UnmetCodes == \A q : Unmet(q) \in Codes \ Aborted /\ Unmet(q) # "ok"
BY NullAssumption DEF Unmet, Codes, Aborted

\* Failing before the handler runs, in whatever way the step goes.
LEMMA FailStep ==
    ASSUME IInv, NEW c \in Calls, UNCHANGED <<req, records, files>>,
           faults' \in 0 .. MaxFaults,
           NEW code \in Codes \ ({"ok"} \cup Aborted),
           call[c].stage \in Before \cup {"closing"}, Set(c, Failed(call[c], code))
    PROVE  IInv'
<1>1. call[c].stage # "running"  BY DEF Before
<1>2. Quiet(call[c], Failed(call[c], code), req[c])  BY <1>1, Reading, FailQuiet
<1>3. call'[c] = Failed(call[c], code) /\ call' = [call EXCEPT ![c] = call'[c]]
  BY Reading DEF Set
<1>. QED  BY <1>2, <1>3, Reading, QuietStep

\* The stage moves on, and nothing else.
LEMMA StageStep ==
    ASSUME IInv, NEW c \in Calls, UNCHANGED <<req, records, files>>,
           faults' \in 0 .. MaxFaults,
           NEW stage \in Before \cup {"running"} \cup After,
           Set(c, [call[c] EXCEPT !.stage = stage]),
           \A k \in CallRow :
              /\ k.stage = stage /\ k.code = call[c].code /\ k.active = call[c].active
              /\ k.handler = call[c].handler /\ k.audit = call[c].audit
              /\ k.wrote = call[c].wrote /\ k.replayOf = call[c].replayOf
              => Progress(k, req[c])
    PROVE  IInv'
<1>. DEFINE j == call[c]
            k == [j EXCEPT !.stage = stage]
<1>1. j \in CallRow  BY Reading
<1>2. /\ k \in CallRow /\ k.stage = stage /\ k.code = j.code /\ k.active = j.active
      /\ k.handler = j.handler /\ k.audit = j.audit /\ k.wrote = j.wrote
      /\ k.replayOf = j.replayOf /\ k.overlapped = j.overlapped
  BY <1>1 DEF CallRow
<1>3. call'[c] = k /\ call' = [call EXCEPT ![c] = call'[c]]  BY Reading DEF Set
<1>. HIDE DEF k
<1>4. Progress(k, req[c])  BY <1>2
<1>5. Quiet(call[c], call'[c], req[c])  BY <1>1, <1>2, <1>3, <1>4, SameQuiet
<1>. QED  BY <1>3, <1>5, Reading, QuietStep

LEMMA ReceiveInv ==
    ASSUME IInv, NEW c \in Calls, Receive(c)
    PROVE  IInv'
<1>1. /\ UNCHANGED <<req, records, files>> /\ faults' \in 0 .. MaxFaults
      /\ call[c].stage = "idle" /\ Progress(call[c], req[c])
  BY Reading DEF Receive
<1>2. CASE Refusal(req[c]) # None
  <2>1. Set(c, Failed(call[c], Refusal(req[c])))  BY <1>2 DEF Receive
  <2>. QED  BY <1>1, <1>2, <2>1, RefusalCodes, FailStep DEF Before
<1>3. CASE Refusal(req[c]) = None
  <2>1. Set(c, [call[c] EXCEPT !.stage = "requesting"])  BY <1>3 DEF Receive
  <2>2. ASSUME NEW k \in CallRow, k.stage = "requesting", k.code = call[c].code,
               k.active = call[c].active, k.handler = call[c].handler,
               k.audit = call[c].audit, k.wrote = call[c].wrote,
               k.replayOf = call[c].replayOf
        PROVE  Progress(k, req[c])
    BY <1>1, <1>3, <2>2, NullAssumption DEF Progress, Before, InFlight, Executing
  <2>3. "requesting" \in Before \cup {"running"} \cup After  BY DEF Before
  <2>. QED  BY <1>1, <2>1, <2>2, <2>3, StageStep
<1>. QED  BY <1>2, <1>3

LEMMA RequestedInv ==
    ASSUME IInv, NEW c \in Calls, Requested(c)
    PROVE  IInv'
<1>1. /\ UNCHANGED <<req, records, files>> /\ faults' \in 0 .. MaxFaults
      /\ call[c].stage = "requesting" /\ Progress(call[c], req[c])
  BY Reading, EmitFaults DEF Requested, Emit
<1>2. CASE Set(c, Failed(call[c], "tool_execution_failed"))
  <2>1. "tool_execution_failed" \in Codes \ ({"ok"} \cup Aborted)
    BY DEF Codes, Aborted
  <2>2. call[c].stage \in Before \cup {"closing"}  BY <1>1 DEF Before
  <2>. QED  BY <1>1, <1>2, <2>1, <2>2, FailStep
<1>3. CASE Set(c, [call[c] EXCEPT !.stage = "deciding"])
  <2>1. ASSUME NEW k \in CallRow, k.stage = "deciding", k.code = call[c].code,
               k.active = call[c].active, k.handler = call[c].handler,
               k.audit = call[c].audit, k.wrote = call[c].wrote,
               k.replayOf = call[c].replayOf
        PROVE  Progress(k, req[c])
    BY <1>1, <2>1, NullAssumption DEF Progress, Before, InFlight, Executing
  <2>2. "deciding" \in Before \cup {"running"} \cup After  BY DEF Before
  <2>. QED  BY <1>1, <1>3, <2>1, <2>2, StageStep
<1>. QED  BY <1>2, <1>3 DEF Requested, Emit

\* A request is allowed in spite of a failed audit only if it asks for a read.
LEMMA DecisionAudited ==
    ASSUME NEW q \in Offered, Refusal(q) = None, NEW audit \in Audits,
           Decisions[q][audit]
    PROVE  audit = "failed" => Capability(q).class = "read-only"
<1>1. Allowed(PolicyRequest(q), audit)  BY DEF Decisions
<1>2. audit = "failed" => SideEffectClass(PolicyRequest(q)) = "read-only"
  BY <1>1 DEF Allowed
<1>3. PolicyRequest(q).capability = Capability(q)  BY DEF PolicyRequest
<1>. QED  BY <1>2, <1>3, NullAssumption DEF SideEffectClass

LEMMA DecidedInv ==
    ASSUME IInv, NEW c \in Calls, NEW audit \in Audits, Decided(c, audit),
           req[c].sink => audit # "none",
           UNCHANGED <<req, records, files>>, faults' \in 0 .. MaxFaults,
           call[c].stage = "deciding"
    PROVE  IInv'
<1>. DEFINE j == call[c]
            q == req[c]
            k == [j EXCEPT !.audit = audit]
            a == [k EXCEPT !.stage = "authorizing", !.grant = "issued"]
<1>1. j \in CallRow /\ Progress(j, q) /\ q \in Offered  BY Reading
<1>2. Refusal(q) = None /\ j.handler = "none" /\ j.code = None /\ ~j.wrote
      /\ j.replayOf = None /\ j.active
  BY <1>1 DEF Progress, Before, CallRow, InFlight, Executing
<1>3. /\ k \in CallRow /\ k.stage = "deciding" /\ k.code = None /\ ~k.wrote
      /\ k.wrote = j.wrote /\ k.active /\ k.handler = "none" /\ k.replayOf = None
      /\ k.overlapped = j.overlapped
  BY <1>1, <1>2 DEF CallRow
<1>4. /\ a \in CallRow /\ a.stage = "authorizing" /\ a.code = None /\ ~a.wrote
      /\ a.wrote = j.wrote /\ a.active /\ a.handler = "none" /\ a.replayOf = None
      /\ a.overlapped = j.overlapped
      /\ a.audit = audit
  BY <1>1, <1>2, <1>3 DEF CallRow, Before
<1>5. \/ ~Decisions[q][audit] /\ call'[c] = [k EXCEPT !.stage = "denying"]
      \/ Unmet(q) # None /\ call'[c] = Failed(k, Unmet(q))
      \/ Decisions[q][audit] /\ call'[c] = a
  BY Reading DEF Decided, Set
<1>6. call' = [call EXCEPT ![c] = call'[c]]
  <2>1. \E x : call' = [call EXCEPT ![c] = x]  BY DEF Decided, Set
  <2>. QED  BY <2>1, Reading
<1>. HIDE DEF a
<1>7. CASE ~Decisions[q][audit] /\ call'[c] = [k EXCEPT !.stage = "denying"]
  <2>. DEFINE n == [k EXCEPT !.stage = "denying"]
  <2>1. /\ n \in CallRow /\ n.stage = "denying" /\ n.code = None /\ ~n.wrote
        /\ n.wrote = j.wrote /\ n.active /\ n.handler = "none" /\ n.replayOf = None
        /\ n.overlapped = j.overlapped
    BY <1>3 DEF CallRow, Before
  <2>. HIDE DEF n, k
  <2>2. Progress(n, q)  BY <2>1, NullAssumption DEF Progress, Before, InFlight, Executing
  <2>3. Quiet(j, n, q)  BY <1>1, <1>2, <2>1, <2>2, SameQuiet
  <2>4. Quiet(call[c], call'[c], req[c])  BY <1>7, <2>3 DEF n
  <2>. QED  BY <1>6, <2>4, Reading, QuietStep
<1>. HIDE DEF k
<1>8. CASE Unmet(q) # None /\ call'[c] = Failed(k, Unmet(q))
  <2>1. Progress(k, q)  BY <1>2, <1>3, NullAssumption DEF Progress, Before, InFlight, Executing
  <2>2. Quiet(k, Failed(k, Unmet(q)), q)
    BY <1>3, <1>8, <2>1, UnmetCodes, FailQuiet DEF Before
  <2>3. Quiet(j, Failed(k, Unmet(q)), q)
    BY <1>2, <1>3, <2>2 DEF Quiet, Stands, Touching
  <2>. QED  BY <1>6, <1>8, <2>3, Reading, QuietStep
<1>9. CASE Decisions[q][audit] /\ call'[c] = a
  <2>1. q.sink => a.audit = "recorded" \/ Capability(q).class = "read-only"
    BY <1>1, <1>2, <1>4, <1>9, DecisionAudited DEF Audits
  <2>2. Progress(a, q)
    BY <1>2, <1>4, <2>1, NullAssumption DEF Progress, Before, InFlight, Executing
  <2>3. Quiet(j, a, q)  BY <1>1, <1>2, <1>4, <2>2, SameQuiet
  <2>. QED  BY <1>6, <1>9, <2>3, Reading, QuietStep
<1>. QED  BY <1>5, <1>7, <1>8, <1>9

LEMMA DecideInv ==
    ASSUME IInv, NEW c \in Calls, Decide(c)
    PROVE  IInv'
<1>1. /\ UNCHANGED <<req, records, files>> /\ faults' \in 0 .. MaxFaults
      /\ call[c].stage = "deciding"
  BY Reading, EmitFaults DEF Decide, Emit
<1>2. \E audit \in Audits :
         Decided(c, audit) /\ (req[c].sink => audit # "none")
  BY DEF Decide, Emit, Audits
<1>. QED  BY <1>1, <1>2, DecidedInv

LEMMA ReportDenialInv ==
    ASSUME IInv, NEW c \in Calls, ReportDenial(c)
    PROVE  IInv'
<1>1. /\ UNCHANGED <<req, records, files>> /\ faults' \in 0 .. MaxFaults
      /\ call[c].stage = "denying" /\ Progress(call[c], req[c]) /\ call[c] \in CallRow
  BY Reading, EmitFaults DEF ReportDenial, Emit
<1>2. CASE Set(c, Failed(call[c], "tool_execution_failed"))
  <2>1. "tool_execution_failed" \in Codes \ ({"ok"} \cup Aborted)
    BY DEF Codes, Aborted
  <2>2. call[c].stage \in Before \cup {"closing"}  BY <1>1 DEF Before
  <2>. QED  BY <1>1, <1>2, <2>1, <2>2, FailStep
<1>3. CASE Set(c, [call[c] EXCEPT !.stage = "done", !.code = "tool_policy_denied"])
  <2>. DEFINE j == call[c]
              k == [j EXCEPT !.stage = "done", !.code = "tool_policy_denied"]
  <2>1. j.code = None /\ j.handler = "none"  BY <1>1 DEF Progress, Before
  <2>2. /\ k \in CallRow /\ k.stage = "done" /\ k.code = "tool_policy_denied"
        /\ k.handler = j.handler /\ k.wrote = j.wrote
        /\ k.replayOf = j.replayOf /\ k.overlapped = j.overlapped
    BY <1>1 DEF CallRow, After, Codes
  <2>3. call'[c] = k /\ call' = [call EXCEPT ![c] = call'[c]]  BY <1>3, Reading DEF Set
  <2>. HIDE DEF k
  <2>4. Progress(k, req[c])
    BY <1>1, <2>1, <2>2 DEF Progress, Before, InFlight, Executing
  <2>5. k.code \in Aborted <=> j.code \in Aborted
    BY <2>1, <2>2, NullAssumption DEF Aborted
  <2>6. Quiet(call[c], call'[c], req[c])  BY <1>1, <2>2, <2>3, <2>4, <2>5, SameQuiet
  <2>. QED  BY <1>1, <2>3, <2>6, Reading, QuietStep
<1>. QED  BY <1>2, <1>3 DEF ReportDenial, Emit

LEMMA GrantEndsInv ==
    ASSUME IInv, NEW c \in Calls, GrantEnds(c)
    PROVE  IInv'
<1>1. PICK g \in {"expired", "revoked"} : Set(c, [call[c] EXCEPT !.grant = g])
  BY DEF GrantEnds
<1>. DEFINE j == call[c]
            k == [j EXCEPT !.grant = g]
<1>2. /\ UNCHANGED <<req, records, files>> /\ faults' \in 0 .. MaxFaults
      /\ j \in CallRow /\ Progress(j, req[c])
  BY Reading DEF GrantEnds
<1>3. /\ k \in CallRow /\ k.stage = j.stage /\ k.code = j.code /\ k.active = j.active
      /\ k.handler = j.handler /\ k.audit = j.audit /\ k.wrote = j.wrote
      /\ k.replayOf = j.replayOf /\ k.overlapped = j.overlapped
  BY <1>2 DEF CallRow
<1>4. call'[c] = k /\ call' = [call EXCEPT ![c] = call'[c]]  BY <1>1, Reading DEF Set
<1>. HIDE DEF k
<1>5. Progress(k, req[c])  BY <1>2, <1>3 DEF Progress
<1>6. Quiet(call[c], call'[c], req[c])  BY <1>2, <1>3, <1>4, <1>5, SameQuiet
<1>. QED  BY <1>2, <1>4, <1>6, Reading, QuietStep

LEMMA DeadlineInv ==
    ASSUME IInv, NEW c \in Calls, Deadline(c)
    PROVE  IInv'
<1>1. /\ UNCHANGED <<req, records, files>> /\ faults' \in 0 .. MaxFaults
      /\ call[c].stage = "running" /\ Progress(call[c], req[c]) /\ call[c] \in CallRow
      /\ Set(c, Failed(call[c], "tool_timeout"))
  BY Reading DEF Deadline
<1>2. "tool_timeout" \in Codes \ {"ok"} /\ "tool_timeout" \in Aborted
  BY DEF Codes, Aborted
<1>3. Quiet(call[c], Failed(call[c], "tool_timeout"), req[c])
  BY <1>1, <1>2, FailQuiet
<1>4. call'[c] = Failed(call[c], "tool_timeout") /\ call' = [call EXCEPT ![c] = call'[c]]
  BY <1>1, Reading DEF Set
<1>. QED  BY <1>1, <1>3, <1>4, Reading, QuietStep

LEMMA CancelInv ==
    ASSUME IInv, NEW c \in Calls, Cancel(c)
    PROVE  IInv'
<1>. DEFINE j == call[c]
            k == [j EXCEPT !.cancelled = TRUE]
<1>1. /\ UNCHANGED <<req, records, files>> /\ faults' \in 0 .. MaxFaults
      /\ j \in CallRow /\ Progress(j, req[c])
      /\ Set(c, IF k.stage = "running" THEN Failed(k, "tool_cancelled") ELSE k)
  BY Reading DEF Cancel
<1>2. /\ k \in CallRow /\ k.stage = j.stage /\ k.code = j.code /\ k.active = j.active
      /\ k.handler = j.handler /\ k.audit = j.audit /\ k.wrote = j.wrote
      /\ k.replayOf = j.replayOf /\ k.overlapped = j.overlapped
  BY <1>1 DEF CallRow
<1>. HIDE DEF k
<1>3. Progress(k, req[c])  BY <1>1, <1>2 DEF Progress
<1>4. Quiet(j, k, req[c])  BY <1>1, <1>2, <1>3, SameQuiet
<1>5. CASE k.stage # "running"
  <2>1. call'[c] = k /\ call' = [call EXCEPT ![c] = call'[c]]
    BY <1>1, <1>5, Reading DEF Set
  <2>. QED  BY <1>1, <1>4, <2>1, Reading, QuietStep
<1>6. CASE k.stage = "running"
  <2>1. "tool_cancelled" \in Codes \ {"ok"} /\ "tool_cancelled" \in Aborted
    BY DEF Codes, Aborted
  <2>2. Quiet(k, Failed(k, "tool_cancelled"), req[c])  BY <1>2, <1>3, <1>6, <2>1, FailQuiet
  <2>3. Quiet(j, Failed(k, "tool_cancelled"), req[c])  BY <1>2, <1>4, <2>2 DEF Quiet
  <2>4. call'[c] = Failed(k, "tool_cancelled") /\ call' = [call EXCEPT ![c] = call'[c]]
    BY <1>1, <1>6, Reading DEF Set
  <2>. QED  BY <1>1, <2>3, <2>4, Reading, QuietStep
<1>. QED  BY <1>5, <1>6

LEMMA CompleteInv ==
    ASSUME IInv, NEW c \in Calls, Complete(c)
    PROVE  IInv'
<1>1. /\ UNCHANGED <<req, records, files>> /\ faults' \in 0 .. MaxFaults
      /\ call[c].stage = "closing" /\ Progress(call[c], req[c]) /\ call[c] \in CallRow
  BY Reading, EmitFaults DEF Complete, Emit
<1>2. CASE Set(c, Failed(call[c], "tool_execution_failed"))
  <2>1. "tool_execution_failed" \in Codes \ ({"ok"} \cup Aborted)
    BY DEF Codes, Aborted
  <2>. QED  BY <1>1, <1>2, <2>1, FailStep
<1>3. CASE Set(c, [call[c] EXCEPT !.stage = "done", !.code = "ok"])
  <2>. DEFINE j == call[c]
              k == [j EXCEPT !.stage = "done", !.code = "ok"]
  <2>1. j.code = None /\ j.handler = "ended"  BY <1>1 DEF Progress
  <2>2. /\ k \in CallRow /\ k.stage = "done" /\ k.code = "ok"
        /\ k.handler = j.handler /\ k.wrote = j.wrote /\ k.audit = j.audit
        /\ k.replayOf = j.replayOf /\ k.overlapped = j.overlapped
    BY <1>1 DEF CallRow, After, Codes
  <2>3. call'[c] = k /\ call' = [call EXCEPT ![c] = call'[c]]  BY <1>3, Reading DEF Set
  <2>. HIDE DEF k
  <2>4. Progress(k, req[c])
    BY <1>1, <2>1, <2>2 DEF Progress, Before, InFlight, Executing
  <2>5. k.code \in Aborted <=> j.code \in Aborted
    BY <2>1, <2>2, NullAssumption DEF Aborted
  <2>6. Quiet(call[c], call'[c], req[c])  BY <1>1, <2>2, <2>3, <2>4, <2>5, SameQuiet
  <2>. QED  BY <1>1, <2>3, <2>6, Reading, QuietStep
<1>. QED  BY <1>2, <1>3 DEF Complete, Emit

LEMMA ReportFailureInv ==
    ASSUME IInv, NEW c \in Calls, ReportFailure(c)
    PROVE  IInv'
<1>1. /\ UNCHANGED <<req, records, files>> /\ faults' \in 0 .. MaxFaults
      /\ call[c].stage = "failing" /\ Progress(call[c], req[c])
      /\ Set(c, [call[c] EXCEPT !.stage = "done"])
  BY Reading DEF ReportFailure
<1>2. ASSUME NEW k \in CallRow, k.stage = "done", k.code = call[c].code,
             k.active = call[c].active, k.handler = call[c].handler,
             k.audit = call[c].audit, k.wrote = call[c].wrote,
             k.replayOf = call[c].replayOf
      PROVE  Progress(k, req[c])
  BY <1>1, <1>2 DEF Progress, Before, InFlight, Executing
<1>. QED  BY <1>1, <1>2, StageStep DEF After

-----------------------------------------------------------------------------
(* The handlers, as long as nothing is recorded. *)

\* A handler ends with an error.
LEMMA ErrorStep ==
    ASSUME IInv, NEW c \in Calls, UNCHANGED <<req, records, files, faults>>,
           NEW code \in Codes \ {"ok"}, call[c].handler \in InFlight,
           call[c].wrote => ~call[c].active, Set(c, Settled(call[c], req[c], code))
    PROVE  IInv'
<1>1. Quiet(call[c], Settled(call[c], req[c], code), req[c])  BY Reading, ErrorQuiet
<1>2. call'[c] = Settled(call[c], req[c], code) /\ call' = [call EXCEPT ![c] = call'[c]]
  BY Reading DEF Set
<1>. QED  BY <1>1, <1>2, Reading, QuietStep

\* A row without an effect beside another one.
LEMMA NoEffectQuiet ==
    ASSUME NEW j \in CallRow, NEW k \in CallRow, NEW q, Progress(k, q),
           ~j.wrote, ~k.wrote, k.handler \notin Executing, k.replayOf = j.replayOf
    PROVE  Quiet(j, k, q)
BY DEF Quiet, Stands, Touching

LEMMA ReadReturnsInv ==
    ASSUME IInv, NEW c \in Calls, ReadReturns(c)
    PROVE  IInv'
<1>. DEFINE j == call[c]
            q == req[c]
            e == [j EXCEPT !.handler = "ended"]
            n == [e EXCEPT !.stage = "closing", !.active = FALSE]
<1>1. /\ UNCHANGED <<req, records, files, faults>> /\ j.handler = "reading"
      /\ j \in CallRow /\ Progress(j, q)
  BY Reading DEF ReadReturns
<1>2. ~j.wrote /\ j.handler \in InFlight  BY <1>1 DEF Progress, InFlight
<1>3. PICK code \in {"ok", "tool_filesystem_denied", "tool_cancelled"} :
         /\ code = "ok" => j.active
         /\ Set(c, Settled(j, q, code))
  BY DEF ReadReturns
<1>4. CASE code # "ok"
  <2>1. code \in Codes \ {"ok"}  BY <1>4 DEF Codes, Aborted
  <2>. QED  BY <1>1, <1>2, <1>3, <2>1, ErrorStep
<1>5. CASE code = "ok"
  <2>1. j.stage = "running" /\ j.code = None
    BY <1>1, <1>2, <1>3, <1>5 DEF Progress
  <2>2. /\ e \in CallRow /\ e.handler = "ended" /\ e.code = None /\ e.stage = "running"
        /\ e.audit = j.audit /\ e.wrote = j.wrote /\ e.replayOf = j.replayOf
    BY <1>1, <2>1 DEF CallRow
  <2>3. Settled(j, q, "ok") = IF ~q.fits THEN Failed(e, "tool_output_too_large") ELSE n
    BY <2>1 DEF Settled
  <2>. HIDE DEF e
  <2>4. /\ n \in CallRow /\ n.stage = "closing" /\ n.code = None /\ n.handler = "ended"
        /\ n.audit = j.audit /\ n.wrote = j.wrote /\ n.replayOf = j.replayOf
    BY <2>2 DEF CallRow, After
  <2>5. "tool_output_too_large" \in Codes \ {"ok"}  BY DEF Codes, Aborted
  <2>6. CASE Settled(j, q, "ok") = n
    <3>. HIDE DEF n
    <3>1. Progress(n, q)
      BY <1>1, <1>2, <2>1, <2>4, NullAssumption DEF Progress, Before, InFlight, Executing
    <3>2. Quiet(j, n, q)  BY <1>1, <1>2, <2>4, <3>1, NoEffectQuiet DEF Executing
    <3>3. call'[c] = n /\ call' = [call EXCEPT ![c] = call'[c]]
      BY <1>3, <1>5, <2>6, Reading DEF Set
    <3>. QED  BY <1>1, <3>2, <3>3, Reading, QuietStep
  <2>7. CASE ~q.fits
    <3>1. Settled(j, q, "ok") = Settled(j, q, "tool_output_too_large")
      BY <2>1, <2>7 DEF Settled
    <3>. QED  BY <1>1, <1>2, <1>3, <1>5, <2>5, <3>1, ErrorStep
  <2>. QED  BY <2>3, <2>6, <2>7
<1>. QED  BY <1>4, <1>5

LEMMA TempWrittenInv ==
    ASSUME IInv, NEW c \in Calls, TempWritten(c)
    PROVE  IInv'
<1>. DEFINE j == call[c]
            k == [j EXCEPT !.handler = "renaming"]
<1>1. /\ UNCHANGED <<req, records, files, faults>> /\ j.handler = "writing"
      /\ j \in CallRow /\ Progress(j, req[c])
      /\ files \in [Paths -> Calls \cup {None}] /\ faults \in 0 .. MaxFaults
  BY Reading DEF TempWritten
<1>2. ~j.wrote /\ j.handler \in InFlight  BY <1>1 DEF Progress, InFlight, Executing
<1>3. CASE ~j.active
  <2>1. "tool_cancelled" \in Codes \ {"ok"}  BY DEF Codes, Aborted
  <2>2. Set(c, Settled(j, req[c], "tool_cancelled"))  BY <1>3 DEF TempWritten
  <2>. QED  BY <1>1, <1>2, <2>1, <2>2, ErrorStep
<1>4. CASE j.active
  <2>1. /\ k \in CallRow /\ k.stage = j.stage /\ k.code = j.code /\ k.active = j.active
        /\ k.handler = "renaming" /\ k.audit = j.audit /\ k.wrote = j.wrote
        /\ k.replayOf = j.replayOf /\ k.overlapped = j.overlapped
    BY <1>1 DEF CallRow, InFlight, Executing
  <2>2. call'[c] = k /\ call' = [call EXCEPT ![c] = call'[c]]
    BY <1>4, Reading DEF Set, TempWritten
  <2>. HIDE DEF k
  <2>3. Progress(k, req[c])
    BY <1>1, <1>2, <2>1 DEF Progress, Before, InFlight, Executing
  <2>4. Quiet(j, k, req[c])  BY <1>1, <1>2, <2>1, <2>3 DEF Quiet, Stands, Touching, Executing
  <2>. QED  BY <1>1, <2>2, <2>4, QuietStep
<1>. QED  BY <1>3, <1>4

LEMMA RenameLandsInv ==
    ASSUME IInv, NEW c \in Calls, RenameLands(c)
    PROVE  IInv'
<1>. DEFINE j == call[c]
            k == [j EXCEPT !.handler = "renamed", !.wrote = TRUE]
<1>1. /\ UNCHANGED <<req, records, faults>> /\ j.handler = "renaming"
      /\ j \in CallRow /\ Progress(j, req[c]) /\ faults \in 0 .. MaxFaults
      /\ files \in [Paths -> Calls \cup {None}]
      /\ files' = [files EXCEPT ![req[c].path] = c]
  BY Reading DEF RenameLands
<1>2. files' \in [Paths -> Calls \cup {None}]  BY <1>1
<1>3. /\ k \in CallRow /\ k.stage = j.stage /\ k.code = j.code /\ k.active = j.active
      /\ k.handler = "renamed" /\ k.audit = j.audit /\ k.wrote
      /\ k.replayOf = j.replayOf /\ k.overlapped = j.overlapped
  BY <1>1 DEF CallRow, InFlight, Executing
<1>4. call'[c] = k /\ call' = [call EXCEPT ![c] = call'[c]]  BY Reading DEF Set, RenameLands
<1>. HIDE DEF k
<1>5. ~j.wrote  BY <1>1 DEF Progress
<1>6. Progress(k, req[c])
  BY <1>1, <1>3, NullAssumption DEF Progress, Before, InFlight, Executing
<1>7. Quiet(j, k, req[c])
  BY <1>1, <1>3, <1>5, <1>6 DEF Quiet, Stands, Touching, Executing
<1>. QED  BY <1>1, <1>2, <1>4, <1>7, QuietStep

LEMMA WriteFailsInv ==
    ASSUME IInv, NEW c \in Calls, WriteFails(c)
    PROVE  IInv'
<1>1. /\ UNCHANGED <<req, records, files, faults>>
      /\ call[c].handler \in {"writing", "renaming"} /\ Progress(call[c], req[c])
      /\ Set(c, Settled(call[c], req[c], "tool_execution_failed"))
  BY Reading DEF WriteFails
<1>2. ~call[c].wrote  BY <1>1 DEF Progress
<1>3. "tool_execution_failed" \in Codes \ {"ok"}  BY DEF Codes, Aborted
<1>4. call[c].handler \in InFlight  BY <1>1 DEF InFlight, Executing
<1>. QED  BY <1>1, <1>2, <1>3, <1>4, ErrorStep

-----------------------------------------------------------------------------
(* The record of a key. *)

\* An active call that comes back from the rename: what becomes of its row.
LEMMA ReturnedRow ==
    ASSUME NEW j \in CallRow, NEW q, Progress(j, q), j.handler = "renamed", j.active
    PROVE  LET k == Settled(j, q, "ok")
           IN  /\ k \in CallRow
               /\ Progress(k, q)
               /\ Stands(k)
               /\ k.overlapped = j.overlapped
               /\ k.replayOf = None /\ j.replayOf = None
<1>. DEFINE e == [j EXCEPT !.handler = "ended"]
            k == Settled(j, q, "ok")
<1>1. j.stage = "running" /\ j.code = None /\ j.wrote /\ j.replayOf = None
  BY DEF Progress, InFlight, Executing, CallRow
<1>2. /\ e \in CallRow /\ e.handler = "ended" /\ e.code = None /\ e.stage = "running"
      /\ e.audit = j.audit /\ e.wrote /\ e.replayOf = None
      /\ e.overlapped = j.overlapped
  BY <1>1 DEF CallRow
<1>3. k = IF ~q.fits THEN Failed(e, "tool_output_too_large")
          ELSE [e EXCEPT !.stage = "closing", !.active = FALSE]
  BY <1>1 DEF Settled
<1>. HIDE DEF e, k
<1>4. /\ k \in CallRow /\ k.stage \in {"closing", "failing"} /\ k.handler = "ended"
      /\ k.code = None \/ (k.code = "tool_output_too_large" /\ k.stage = "failing")
      /\ k.audit = j.audit /\ k.wrote /\ k.replayOf = None
      /\ k.overlapped = j.overlapped
  BY <1>2, <1>3 DEF CallRow, After, Failed, Codes
<1>5. Progress(k, q)
  BY <1>1, <1>4, NullAssumption DEF Progress, Before, InFlight, Executing
<1>6. Stands(k)  BY <1>4, NullAssumption DEF Stands, Aborted
<1>. QED  BY <1>1, <1>4, <1>5, <1>6 DEF k

\* The write of an active call stands from here on, and is recorded.
LEMMA RecordInv ==
    ASSUME IInv, NEW c \in Calls, RenameReturns(c), call[c].active
    PROVE  IInv'
<1>. DEFINE j == call[c]
            k == Settled(j, req[c], "ok")
            key == req[c].key
            r == [by |-> c, fingerprint |-> Fingerprint(req[c])]
<1>1. /\ UNCHANGED <<req, files, faults>> /\ j.handler = "renamed"
      /\ j \in CallRow /\ Progress(j, req[c]) /\ req[c] \in Offered
      /\ records' = [records EXCEPT ![key] = r]
      /\ call' = [call EXCEPT ![c] = k]
  BY Reading DEF RenameReturns, Set
<1>2. /\ k \in CallRow /\ Progress(k, req[c]) /\ Stands(k)
      /\ k.overlapped = j.overlapped /\ k.replayOf = None /\ j.replayOf = None
  BY <1>1, ReturnedRow
<1>. HIDE DEF k, r
<1>3. key \in Keys /\ Refusal(req[c]) = None /\ Touching(j)
  BY <1>1 DEF Progress, Executing, Touching
<1>4. r # None /\ r.by = c /\ r.fingerprint = Fingerprint(req[c])
  BY <1>1, <1>3, NullAssumption DEF r
<1>5. /\ call \in [Calls -> CallRow] /\ call' \in [Calls -> CallRow]
      /\ call'[c] = k /\ \A d \in Calls : d # c => call'[d] = call[d]
  BY <1>1, <1>2 DEF IInv, TypeOK
<1>6. /\ DOMAIN records' = Keys /\ records'[key] = r
      /\ \A x \in Keys : x # key => records'[x] = records[x]
  BY <1>1, <1>3 DEF IInv, TypeOK
<1>7. \A d \in Calls : Stands(call[d]) => Stands(call'[d])  BY <1>2, <1>5
<1>8. TypeOK'  BY <1>1, <1>5, <1>6 DEF IInv, TypeOK
<1>9. \A d \in Calls : Progress(call'[d], req'[d])  BY <1>1, <1>2, <1>5 DEF IInv
<1>10. ASSUME NEW x \in Keys  PROVE RecordStands(x)'
  <2>1. CASE x = key  BY <1>1, <1>2, <1>4, <1>5, <1>6, <2>1 DEF RecordStands
  <2>2. CASE x # key
    <3>1. RecordStands(x) /\ records'[x] = records[x] /\ req' = req
      BY <1>1, <1>6, <2>2 DEF IInv
    <3>. QED  BY <1>7, <3>1 DEF RecordStands
  <2>. QED  BY <2>1, <2>2
<1>11. ASSUME NEW d \in Calls  PROVE AnswerStands(d)'
  <2>1. call'[d].replayOf = call[d].replayOf /\ req' = req  BY <1>1, <1>2, <1>5
  <2>2. call[d].replayOf \in Calls \cup {None}  BY <1>5 DEF CallRow
  <2>3. AnswerStands(d)  BY DEF IInv
  <2>. QED  BY <1>7, <2>1, <2>2, <2>3 DEF AnswerStands
<1>12. ASSUME NEW d \in Calls  PROVE WriteRecorded(d)'
  <2>1. CASE req[d].key = key  BY <1>1, <1>4, <1>6, <2>1 DEF WriteRecorded
  <2>2. CASE req[d].key # key /\ Stands(call'[d])
    <3>1. d # c /\ call'[d] = call[d]  BY <1>5, <2>2
    <3>2. WriteRecorded(d) /\ Progress(call[d], req[d])  BY DEF IInv
    <3>3. req[d].key \in Keys  BY <2>2, <3>1, <3>2 DEF Progress, Stands
    <3>. QED  BY <1>1, <1>6, <2>2, <3>1, <3>2, <3>3 DEF WriteRecorded
  <2>. QED  BY <2>1, <2>2 DEF WriteRecorded
<1>13. \A d \in Calls : Touching(call'[d]) =>
          Touching(call[d]) /\ call'[d].overlapped = call[d].overlapped
  BY <1>2, <1>3, <1>5
<1>14. \A d, e \in Calls : OneOverlaps(d, e)'
  BY <1>1, <1>13 DEF IInv, OneOverlaps
<1>. QED  BY <1>8, <1>9, <1>10, <1>11, <1>12, <1>14 DEF IInv

LEMMA RenameReturnsInv ==
    ASSUME IInv, NEW c \in Calls, RenameReturns(c)
    PROVE  IInv'
<1>1. CASE call[c].active  BY <1>1, RecordInv
<1>2. CASE ~call[c].active
  <2>1. /\ UNCHANGED <<req, records, files, faults>>
        /\ call[c].handler = "renamed" /\ Set(c, Settled(call[c], req[c], "tool_cancelled"))
    BY <1>2 DEF RenameReturns
  <2>2. "tool_cancelled" \in Codes \ {"ok"} /\ call[c].handler \in InFlight
    BY <2>1 DEF Codes, Aborted, InFlight, Executing
  <2>. QED  BY <1>2, <2>1, <2>2, ErrorStep
<1>. QED  BY <1>1, <1>2

-----------------------------------------------------------------------------
(* The start of a handler. *)

\* A row as the handler finds it, of a request that was decided.
Starting(k, q) ==
    /\ k \in CallRow
    /\ k.stage = "running" /\ k.handler = "none" /\ k.code = None /\ k.active
    /\ ~k.wrote /\ k.replayOf = None
    /\ Refusal(q) = None
    /\ q.sink => k.audit = "recorded" \/ Capability(q).class = "read-only"

\* The handler fails at once, or was not started.
LEMMA StartFails ==
    ASSUME IInv, NEW c \in Calls, UNCHANGED <<req, records, files>>,
           faults' \in 0 .. MaxFaults, NEW code \in Codes \ {"ok"},
           NEW k, Starting(k, req[c]), ~call[c].wrote, call[c].replayOf = None,
           \/ Set(c, Failed(k, code))
           \/ Set(c, Settled(k, req[c], code))
    PROVE  IInv'
<1>. DEFINE n == call'[c]
<1>1. call' = [call EXCEPT ![c] = n]
  <2>1. \E x : call' = [call EXCEPT ![c] = x]  BY DEF Set
  <2>. QED  BY <2>1, Reading
<1>2. n = Failed(k, code) \/ n = Settled(k, req[c], code)  BY Reading DEF Set
<1>. HIDE DEF n
<1>3. /\ n \in CallRow /\ n.stage = "failing" /\ n.code = code /\ ~n.active
      /\ n.handler \in {"none", "ended"} /\ n.audit = k.audit /\ ~n.wrote
      /\ n.replayOf = None
  <2>1. /\ k \in CallRow /\ k.stage = "running" /\ k.handler = "none"
        /\ ~k.wrote /\ k.replayOf = None
    BY DEF Starting
  <2>. DEFINE e == [k EXCEPT !.handler = "ended"]
  <2>2. /\ e \in CallRow /\ e.stage = "running" /\ e.handler = "ended"
        /\ e.audit = k.audit /\ ~e.wrote /\ e.replayOf = None
    BY <2>1 DEF CallRow
  <2>3. Settled(k, req[c], code) = Failed(e, code)  BY <2>1, <2>2 DEF Settled
  <2>. HIDE DEF e
  <2>4. CASE n = Failed(k, code)  BY <2>1, <2>4 DEF CallRow, Failed, After
  <2>5. CASE n = Failed(e, code)  BY <2>2, <2>5 DEF CallRow, Failed, After
  <2>. QED  BY <1>2, <2>3, <2>4, <2>5
<1>4. Progress(n, req[c])
  BY <1>3 DEF Starting, Progress, Before, InFlight, Executing
<1>5. Quiet(call[c], n, req[c])  BY <1>3, <1>4, Reading, NoEffectQuiet DEF Executing
<1>. QED  BY <1>1, <1>5, Reading, QuietStep DEF n

\* The handler reads.
LEMMA StartReads ==
    ASSUME IInv, NEW c \in Calls, UNCHANGED <<req, records, files>>,
           faults' \in 0 .. MaxFaults,
           NEW k, Starting(k, req[c]), ~call[c].wrote, call[c].replayOf = None,
           Operation(req[c]).class = "read-only",
           Set(c, [k EXCEPT !.handler = "reading"])
    PROVE  IInv'
<1>. DEFINE n == [k EXCEPT !.handler = "reading"]
<1>1. call'[c] = n /\ call' = [call EXCEPT ![c] = call'[c]]  BY Reading DEF Set
<1>2. /\ n \in CallRow /\ n.stage = "running" /\ n.code = None /\ n.active
      /\ n.handler = "reading" /\ n.audit = k.audit /\ ~n.wrote
      /\ n.replayOf = None
  BY DEF Starting, CallRow, InFlight
<1>. HIDE DEF n
<1>3. Progress(n, req[c])
  BY <1>2, NullAssumption DEF Starting, Progress, Before, InFlight, Executing
<1>4. Quiet(call[c], n, req[c])  BY <1>2, <1>3, Reading, NoEffectQuiet DEF Executing
<1>. QED  BY <1>1, <1>4, Reading, QuietStep

\* The effect boundary answers from the record of another call.
LEMMA StartAnswered ==
    ASSUME IInv, NEW c \in Calls, UNCHANGED <<req, records, files>>,
           faults' \in 0 .. MaxFaults,
           NEW k, Starting(k, req[c]), ~call[c].wrote,
           req[c].key \in Keys, records[req[c].key] # None,
           records[req[c].key].fingerprint = Fingerprint(req[c]),
           Set(c, Settled([k EXCEPT !.replayOf = records[req[c].key].by], req[c], "ok"))
    PROVE  IInv'
<1>. DEFINE b == records[req[c].key].by
            a == [k EXCEPT !.replayOf = b]
            n == Settled(a, req[c], "ok")
<1>1. /\ b \in Calls /\ Stands(call[b])
      /\ Fingerprint(req[b]) = Fingerprint(req[c])
  BY DEF IInv, RecordStands
<1>2. b # c  BY <1>1 DEF Stands
<1>3. call' = [call EXCEPT ![c] = n]  BY DEF Set
<1>. HIDE DEF b
<1>4. /\ a \in CallRow /\ a.stage = "running" /\ a.code = None /\ a.active
      /\ a.handler = "none" /\ a.audit = k.audit /\ ~a.wrote /\ a.replayOf = b
  BY <1>1 DEF Starting, CallRow
<1>. HIDE DEF a
<1>5. /\ n \in CallRow /\ n.stage \in {"closing", "failing"} /\ n.handler = "ended"
      /\ n.code = None \/ (n.code = "tool_output_too_large" /\ n.stage = "failing")
      /\ n.audit = k.audit /\ ~n.wrote /\ n.replayOf = b
  <2>. DEFINE e == [a EXCEPT !.handler = "ended"]
  <2>1. /\ e \in CallRow /\ e.stage = "running" /\ e.code = None
        /\ e.handler = "ended" /\ e.audit = k.audit /\ ~e.wrote /\ e.replayOf = b
    BY <1>4 DEF CallRow
  <2>2. n = IF ~req[c].fits THEN Failed(e, "tool_output_too_large")
            ELSE [e EXCEPT !.stage = "closing", !.active = FALSE]
    BY <1>4 DEF Settled
  <2>. HIDE DEF e, n
  <2>. QED  BY <2>1, <2>2 DEF CallRow, Failed, After, Codes
<1>. HIDE DEF n
<1>6. b # None  BY <1>1, NullAssumption
<1>7. Progress(n, req[c])
  BY <1>5, <1>6 DEF Starting, Progress, Before, InFlight, Executing
<1>8. /\ call \in [Calls -> CallRow] /\ call' \in [Calls -> CallRow]
      /\ call'[c] = n /\ \A d \in Calls : d # c => call'[d] = call[d]
  BY <1>3, <1>5 DEF IInv, TypeOK
<1>9. \A d \in Calls : Stands(call'[d]) <=> Stands(call[d])
  BY <1>5, <1>8 DEF Stands
<1>10. \A d \in Calls : Touching(call'[d]) =>
          Touching(call[d]) /\ call'[d].overlapped = call[d].overlapped
  BY <1>5, <1>8 DEF Touching, Executing
<1>11. TypeOK'  BY <1>8 DEF IInv, TypeOK
<1>12. \A d \in Calls : Progress(call'[d], req'[d])  BY <1>7, <1>8 DEF IInv
<1>13. \A x \in Keys : RecordStands(x)'  BY <1>9 DEF IInv, RecordStands
<1>14. ASSUME NEW d \in Calls  PROVE AnswerStands(d)'
  <2>1. CASE d = c  BY <1>1, <1>5, <1>8, <1>9, <2>1 DEF AnswerStands
  <2>2. CASE d # c
    <3>1. call'[d] = call[d] /\ AnswerStands(d)  BY <1>8, <2>2 DEF IInv
    <3>2. call[d].replayOf \in Calls \cup {None}  BY <1>8 DEF CallRow
    <3>. QED  BY <1>9, <3>1, <3>2 DEF AnswerStands
  <2>. QED  BY <2>1, <2>2
<1>15. \A d \in Calls : WriteRecorded(d)'  BY <1>9 DEF IInv, WriteRecorded
<1>16. \A d, e \in Calls : OneOverlaps(d, e)'  BY <1>10 DEF IInv, OneOverlaps
<1>. QED  BY <1>11, <1>12, <1>13, <1>14, <1>15, <1>16 DEF IInv

\* The effect boundary executes: no write of this key stands, and if one is
\* under way this call remembers that it began beside it.
LEMMA StartExecutes ==
    ASSUME IInv, NEW c \in Calls, UNCHANGED <<req, records, files>>,
           faults' \in 0 .. MaxFaults,
           NEW k, Starting(k, req[c]), ~call[c].wrote, call[c].replayOf = None,
           req[c].key \in Keys, records[req[c].key] = None,
           Operation(req[c]).class # "read-only",
           Set(c, [k EXCEPT !.handler = "writing", !.overlapped = Overlaps(c)])
    PROVE  IInv'
<1>. DEFINE n == [k EXCEPT !.handler = "writing", !.overlapped = Overlaps(c)]
<1>1. call' = [call EXCEPT ![c] = n]  BY DEF Set
<1>2. Overlaps(c) \in BOOLEAN  BY DEF Overlaps
<1>3. /\ n \in CallRow /\ n.stage = "running" /\ n.code = None /\ n.active
      /\ n.handler = "writing" /\ n.audit = k.audit /\ ~n.wrote
      /\ n.replayOf = None /\ n.overlapped = Overlaps(c)
  BY <1>2 DEF Starting, CallRow, InFlight, Executing
<1>. HIDE DEF n
<1>4. Progress(n, req[c])
  BY <1>3, NullAssumption DEF Starting, Progress, Before, InFlight, Executing
<1>5. /\ call \in [Calls -> CallRow] /\ call' \in [Calls -> CallRow]
      /\ call'[c] = n /\ \A d \in Calls : d # c => call'[d] = call[d]
  BY <1>1, <1>3 DEF IInv, TypeOK
<1>6. \A d \in Calls : Stands(call'[d]) <=> Stands(call[d])
  BY <1>3, <1>5 DEF Stands
<1>7. \A d \in Calls : call'[d].replayOf = call[d].replayOf  BY <1>3, <1>5
<1>8. TypeOK'  BY <1>5 DEF IInv, TypeOK
<1>9. \A d \in Calls : Progress(call'[d], req'[d])  BY <1>4, <1>5 DEF IInv
<1>10. \A x \in Keys : RecordStands(x)'  BY <1>6 DEF IInv, RecordStands
<1>11. ASSUME NEW d \in Calls  PROVE AnswerStands(d)'
  <2>1. call[d].replayOf \in Calls \cup {None} /\ AnswerStands(d)
    BY <1>5 DEF CallRow, IInv
  <2>. QED  BY <1>6, <1>7, <2>1 DEF AnswerStands
<1>12. \A d \in Calls : WriteRecorded(d)'  BY <1>6 DEF IInv, WriteRecorded
\* Another call that touches this key is executing.
<1>13. ASSUME NEW d \in Calls, d # c, req[d].key = req[c].key, Touching(call[d])
       PROVE  Overlaps(c)
  <2>1. Progress(call[d], req[d]) /\ WriteRecorded(d)  BY DEF IInv
  <2>2. ~Stands(call[d])  BY <1>13, <2>1 DEF WriteRecorded
  <2>3. call[d].handler \in Executing
    BY <1>13, <2>1, <2>2 DEF Touching, Stands, Progress, Executing
  <2>. QED  BY <1>13, <2>3 DEF Overlaps, Executing
<1>14. ASSUME NEW d \in Calls, NEW e \in Calls, d # e, req[d].key = req[e].key,
              Touching(call'[d]), Touching(call'[e])
       PROVE  call'[d].overlapped \/ call'[e].overlapped
  <2>1. CASE d = c
    <3>1. call'[e] = call[e]  BY <1>5, <1>14, <2>1
    <3>. QED  BY <1>3, <1>5, <1>13, <1>14, <2>1, <3>1
  <2>2. CASE e = c
    <3>1. call'[d] = call[d]  BY <1>5, <1>14, <2>2
    <3>. QED  BY <1>3, <1>5, <1>13, <1>14, <2>2, <3>1
  <2>3. CASE d # c /\ e # c  BY <1>5, <1>14, <2>3 DEF IInv, OneOverlaps
  <2>. QED  BY <2>1, <2>2, <2>3
<1>15. \A d, e \in Calls : OneOverlaps(d, e)'  BY <1>14 DEF OneOverlaps
<1>. QED  BY <1>8, <1>9, <1>10, <1>11, <1>12, <1>15 DEF IInv

LEMMA StartWriteInv ==
    ASSUME IInv, NEW c \in Calls, UNCHANGED <<req, records, files>>,
           faults' \in 0 .. MaxFaults,
           NEW k, Starting(k, req[c]), ~call[c].wrote, call[c].replayOf = None,
           req[c].key \in Keys, Operation(req[c]).class # "read-only",
           Set(c, StartWrite(c, k))
    PROVE  IInv'
<1>. DEFINE q == req[c]
            r == records[q.key]
<1>1. CASE r # None /\ r.fingerprint # Fingerprint(q)
  <2>1. Set(c, Settled(k, q, "tool_idempotency_conflict"))  BY <1>1 DEF StartWrite
  <2>2. "tool_idempotency_conflict" \in Codes \ {"ok"}  BY DEF Codes, Aborted
  <2>. QED  BY <2>1, <2>2, StartFails
<1>2. CASE r # None /\ r.fingerprint = Fingerprint(q)
  <2>1. Set(c, Settled([k EXCEPT !.replayOf = r.by], q, "ok"))  BY <1>2 DEF StartWrite
  <2>. QED  BY <1>2, <2>1, StartAnswered
<1>3. CASE r = None /\ ~ScopesAllowed({q.path}, Capability(q).write)
  <2>1. Set(c, Settled(k, q, "tool_filesystem_denied"))  BY <1>3 DEF StartWrite
  <2>2. "tool_filesystem_denied" \in Codes \ {"ok"}  BY DEF Codes, Aborted
  <2>. QED  BY <2>1, <2>2, StartFails
<1>4. CASE r = None /\ ScopesAllowed({q.path}, Capability(q).write)
  <2>1. Set(c, [k EXCEPT !.handler = "writing", !.overlapped = Overlaps(c)])
    BY <1>4 DEF StartWrite
  <2>. QED  BY <1>4, <2>1, StartExecutes
<1>. QED  BY <1>1, <1>2, <1>3, <1>4

LEMMA StartHandlerInv ==
    ASSUME IInv, NEW c \in Calls, UNCHANGED <<req, records, files>>,
           faults' \in 0 .. MaxFaults,
           NEW k, Starting(k, req[c]), ~call[c].wrote, call[c].replayOf = None,
           Set(c, StartHandler(c, k))
    PROVE  IInv'
<1>1. CASE Operation(req[c]).class = "read-only"
  <2>1. Set(c, [k EXCEPT !.handler = "reading"])  BY <1>1 DEF StartHandler
  <2>. QED  BY <1>1, <2>1, StartReads
<1>2. CASE Operation(req[c]).class # "read-only" /\ req[c].key = None
  <2>1. Set(c, Settled(k, req[c], "tool_idempotency_required"))
    BY <1>2 DEF StartHandler
  <2>2. "tool_idempotency_required" \in Codes \ {"ok"}  BY DEF Codes, Aborted
  <2>. QED  BY <2>1, <2>2, StartFails
<1>3. CASE Operation(req[c]).class # "read-only" /\ req[c].key # None
  <2>1. Set(c, StartWrite(c, k))  BY <1>3 DEF StartHandler
  <2>2. req[c].key \in Keys  BY <1>3, Reading DEF Keys
  <2>. QED  BY <1>3, <2>1, <2>2, StartWriteInv
<1>. QED  BY <1>1, <1>2, <1>3

LEMMA AuthorizedInv ==
    ASSUME IInv, NEW c \in Calls, Authorized(c)
    PROVE  IInv'
<1>. DEFINE j == call[c]
            run == [j EXCEPT !.grant = "consumed", !.stage = "running"]
<1>1. /\ UNCHANGED <<req, records, files>> /\ faults' \in 0 .. MaxFaults
      /\ j.stage = "authorizing" /\ Progress(j, req[c]) /\ j \in CallRow
  BY Reading, EmitFaults DEF Authorized, Emit
<1>2. j.handler = "none" /\ ~j.wrote /\ j.replayOf = None /\ j.stage \in Before
  BY <1>1 DEF Progress, Before, CallRow
<1>3. \/ GrantRefused(j) # None /\ Set(c, Failed(j, GrantRefused(j)))
      \/ Set(c, Failed(run, "tool_sandbox_unavailable"))
      \/ Set(c, Failed(run, "tool_cancelled"))
      \/ Set(c, StartHandler(c, run))
      \/ Set(c, Failed(j, "tool_execution_failed"))
  BY DEF Authorized, Emit
<1>4. ASSUME NEW x \in Codes \ ({"ok"} \cup Aborted), Set(c, Failed(j, x))
      PROVE  IInv'
  BY <1>1, <1>2, <1>4, FailStep
<1>5. CASE Set(c, Failed(j, "tool_execution_failed"))
  <2>1. "tool_execution_failed" \in Codes \ ({"ok"} \cup Aborted)
    BY DEF Codes, Aborted
  <2>. QED  BY <1>4, <1>5, <2>1
<1>6. CASE GrantRefused(j) # None /\ Set(c, Failed(j, GrantRefused(j)))
  <2>1. GrantRefused(j) \in {"tool_grant_invalid", "tool_grant_expired"}
    BY <1>6 DEF GrantRefused
  <2>2. GrantRefused(j) \in Codes \ ({"ok"} \cup Aborted)  BY <2>1 DEF Codes, Aborted
  <2>. QED  BY <1>4, <1>6, <2>2
\* From here on the grant is consumed.  A call that waits for its event is active.
<1>7. Starting(run, req[c])
  <2>1. j.active /\ j.code = None  BY <1>1 DEF Progress, Before
  <2>2. /\ run \in CallRow /\ run.stage = "running" /\ run.handler = "none"
        /\ run.code = None /\ run.active /\ ~run.wrote /\ run.replayOf = None
        /\ run.audit = j.audit
    BY <1>1, <1>2, <2>1 DEF CallRow
  <2>. QED  BY <1>1, <2>2 DEF Starting, Progress
<1>. HIDE DEF run
<1>8. CASE Set(c, Failed(run, "tool_sandbox_unavailable"))
  <2>1. "tool_sandbox_unavailable" \in Codes \ {"ok"}  BY DEF Codes, Aborted
  <2>. QED  BY <1>1, <1>2, <1>7, <1>8, <2>1, StartFails
<1>9. CASE Set(c, Failed(run, "tool_cancelled"))
  <2>1. "tool_cancelled" \in Codes \ {"ok"}  BY DEF Codes, Aborted
  <2>. QED  BY <1>1, <1>2, <1>7, <1>9, <2>1, StartFails
<1>10. CASE Set(c, StartHandler(c, run))
  BY <1>1, <1>2, <1>7, <1>10, StartHandlerInv
<1>. QED  BY <1>3, <1>5, <1>6, <1>8, <1>9, <1>10

-----------------------------------------------------------------------------
(* The theorems. *)

LEMMA InvInit == Init => IInv
<1>. SUFFICES ASSUME Init PROVE IInv  OBVIOUS
<1>1. req \in [Calls -> Offered]  BY ToolAssumption DEF Init
<1>2. NewCall \in CallRow
  BY DEF NewCall, CallRow, Before, After, Codes, InFlight, Audits
<1>3. TypeOK  BY <1>1, <1>2, ToolAssumption DEF Init, TypeOK
<1>4. \A c \in Calls : call[c] = NewCall  BY DEF Init
<1>5. \A q : Progress(NewCall, q)
  BY NullAssumption DEF NewCall, Progress, Before, InFlight, Executing
<1>6. ~Stands(NewCall) /\ ~Touching(NewCall) /\ NewCall.replayOf = None
  BY DEF NewCall, Stands, Touching, Executing
<1>7. \A key \in Keys : RecordStands(key)  BY DEF Init, RecordStands
<1>. QED
  BY <1>3, <1>4, <1>5, <1>6, <1>7
     DEF IInv, AnswerStands, WriteRecorded, OneOverlaps

LEMMA InvNext == IInv /\ [Next]_vars => IInv'
<1>. SUFFICES ASSUME IInv, [Next]_vars PROVE IInv'  OBVIOUS
<1>1. CASE UNCHANGED vars
  BY <1>1 DEF vars, IInv, TypeOK, Progress, RecordStands, AnswerStands,
              WriteRecorded, OneOverlaps, Stands, Touching
<1>2. ASSUME NEW c \in Calls, Receive(c)  PROVE IInv'  BY <1>2, ReceiveInv
<1>3. ASSUME NEW c \in Calls, Execute(c)  PROVE IInv'
  BY <1>3, RequestedInv, DecideInv, ReportDenialInv, AuthorizedInv, DeadlineInv,
     CompleteInv, ReportFailureInv DEF Execute
<1>4. ASSUME NEW c \in Calls, GrantEnds(c)  PROVE IInv'  BY <1>4, GrantEndsInv
<1>5. ASSUME NEW c \in Calls, Cancel(c)  PROVE IInv'  BY <1>5, CancelInv
<1>6. ASSUME NEW c \in Calls, Handle(c)  PROVE IInv'
  BY <1>6, ReadReturnsInv, TempWrittenInv, RenameLandsInv, WriteFailsInv,
     RenameReturnsInv DEF Handle
<1>. QED  BY <1>1, <1>2, <1>3, <1>4, <1>5, <1>6 DEF Next

\* In every reachable state the inductive invariant holds: what a call has
\* done and what the effect boundary has recorded are as execute, the deadline
\* and the guarded boundary leave them.
THEOREM ExecutorInvariant == Spec => []IInv
BY InvInit, InvNext, PTL DEF Spec

\* A call that was reported as timed out or cancelled never leaves an effect
\* record, however late its handler comes back (guardedEffectBoundary).
THEOREM AbortedLeaveNoRecord == Spec => []AbortedNeverRecords
<1>1. IInv => AbortedNeverRecords
  BY DEF IInv, RecordStands, Stands, AbortedNeverRecords
<1>. QED  BY <1>1, ExecutorInvariant, PTL

\* Under a key one call writes, if those are left out that were aborted or
\* that began while another call of the key was executing (effect).
THEOREM OneEffectPerKey == Spec => []EffectOnce
<1>1. ASSUME IInv, NEW key \in Keys  PROVE Cardinality(PlainWrites(key)) <= 1
  <2>1. \A c, d \in PlainWrites(key) : c = d
    BY <1>1 DEF PlainWrites, IInv, OneOverlaps, Touching
  <2>2. CASE PlainWrites(key) = {}  BY <2>2, FS_EmptySet
  <2>3. CASE PlainWrites(key) # {}
    <3>1. PICK c : PlainWrites(key) = {c}  BY <2>1, <2>3
    <3>2. Cardinality({c}) = 1  BY FS_Singleton
    <3>. QED  BY <3>1, <3>2
  <2>. QED  BY <2>2, <2>3
<1>2. IInv => EffectOnce  BY <1>1 DEF EffectOnce
<1>. QED  BY <1>2, ExecutorInvariant, PTL

\* What a completed write reports has happened: its own write, or the recorded
\* one it was answered from, landed for this very operation (effect).
THEOREM CompletedHasWritten == Spec => []CompletedWriteHappened
<1>1. ASSUME IInv, NEW c \in Calls, call[c].code = "ok",
             Operation(req[c]).class # "read-only"
      PROVE  \E d \in Calls :
                /\ d = IF call[c].replayOf = None THEN c ELSE call[c].replayOf
                /\ call[d].wrote
                /\ call[d].code \notin Aborted
                /\ Fingerprint(req[d]) = Fingerprint(req[c])
  <2>1. /\ call[c] \in CallRow /\ AnswerStands(c)
        /\ call[c].replayOf # None \/ (call[c].handler = "ended" /\ call[c].wrote)
    BY <1>1 DEF IInv, TypeOK, Progress
  <2>2. CASE call[c].replayOf = None
    BY <1>1, <2>1, <2>2 DEF Aborted
  <2>3. CASE call[c].replayOf # None
    <3>1. call[c].replayOf \in Calls  BY <2>1, <2>3 DEF CallRow
    <3>. QED  BY <2>1, <2>3, <3>1 DEF AnswerStands, Stands
  <2>. QED  BY <2>2, <2>3
<1>2. IInv => CompletedWriteHappened  BY <1>1 DEF CompletedWriteHappened
<1>. QED  BY <1>2, ExecutorInvariant, PTL

\* Through a registry whose policy has an audit sink, no file is written without an
\* audited decision, but for a request that asks for less than its operation
\* does (createPolicyService).
THEOREM WritesAreAudited == Spec => []WritesAudited
<1>1. IInv => WritesAudited  BY DEF IInv, Progress, WritesAudited
<1>. QED  BY <1>1, ExecutorInvariant, PTL
=============================================================================
