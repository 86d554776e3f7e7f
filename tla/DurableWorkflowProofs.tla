------------------------ MODULE DurableWorkflowProofs ------------------------
(***************************************************************************)
(* Proofs about DurableWorkflow for every number of runs, processes,       *)
(* workers, steps, overruns and crashes: type correctness, what a          *)
(* completed run has done, what a superseded worker cannot do, and, for    *)
(* workers that share one process, how rows, approvals, histories and      *)
(* leases go together.                                                     *)
(***************************************************************************)
EXTENDS DurableWorkflow, TLAPS

-----------------------------------------------------------------------------
(* Type correctness: what the table updates yield. *)

\* A run row whose lease is given up is a run row.
LEMMA UnleasedType ==
    ASSUME TypeOK, NEW r \in Runs, NEW s \in RunStatus
    PROVE  Unleased(r, s) \in [Runs -> RunRow]
<1>1. [run[r] EXCEPT !.status = s, !.owner = None, !.lapsed = FALSE] \in RunRow
  <2>1. run[r] \in RunRow  BY DEF TypeOK
  <2>. QED  BY <2>1 DEF RunRow
<1>. QED  BY <1>1 DEF TypeOK, Unleased

\* A run row with another status, or another holder of the lease, is a run row.
LEMMA RunRowType ==
    ASSUME TypeOK, NEW r \in Runs
    PROVE  /\ \A s \in RunStatus : [run EXCEPT ![r].status = s] \in [Runs -> RunRow]
           /\ \A o \in Ids \cup {None} :
                [run EXCEPT ![r].owner = o, ![r].lapsed = FALSE] \in [Runs -> RunRow]
           /\ [run EXCEPT ![r].lapsed = TRUE] \in [Runs -> RunRow]
           /\ [run EXCEPT ![r].resumed = TRUE] \in [Runs -> RunRow]
<1>1. run[r] \in RunRow  BY DEF TypeOK
<1>2. \A s \in RunStatus : [run[r] EXCEPT !.status = s] \in RunRow
  BY <1>1 DEF RunRow
<1>3. \A o \in Ids \cup {None} : [run[r] EXCEPT !.owner = o, !.lapsed = FALSE] \in RunRow
  BY <1>1 DEF RunRow
<1>4. [run[r] EXCEPT !.lapsed = TRUE] \in RunRow  BY <1>1 DEF RunRow
<1>5. [run[r] EXCEPT !.resumed = TRUE] \in RunRow  BY <1>1 DEF RunRow
<1>. QED  BY <1>2, <1>3, <1>4, <1>5 DEF TypeOK

\* Recording a terminal event keeps the histories sequences of such events.
LEMMA RecordType ==
    ASSUME TypeOK, NEW r \in Runs, NEW e \in Terminal, Record(r, e)
    PROVE  ended' \in [Runs -> Seq(Terminal)]
BY DEF TypeOK, Record

\* A step row in another status, with or without another due flag, approval,
\* attempt or output, is a step row.
LEMMA StepRowType ==
    ASSUME TypeOK, NEW r \in Runs, NEW i \in Steps, NEW s \in StepStatus
    PROVE  /\ [step EXCEPT ![r][i].status = s] \in [Runs -> [Steps -> StepRow]]
           /\ [step EXCEPT ![r][i].status = s, ![r][i].due = FALSE]
                \in [Runs -> [Steps -> StepRow]]
           /\ [step EXCEPT ![r][i].due = TRUE] \in [Runs -> [Steps -> StepRow]]
           /\ \A a \in Approvals : [step EXCEPT ![r][i].status = s, ![r][i].appr = a]
                \in [Runs -> [Steps -> StepRow]]
           /\ \A n \in Nat : [step EXCEPT ![r][i].status = s, ![r][i].attempt = n]
                \in [Runs -> [Steps -> StepRow]]
           /\ \A o \in Outputs : [step EXCEPT ![r][i].status = s, ![r][i].out = o]
                \in [Runs -> [Steps -> StepRow]]
<1>1. step[r][i] \in StepRow  BY DEF TypeOK
<1>2. [step[r][i] EXCEPT !.status = s] \in StepRow  BY <1>1 DEF StepRow
<1>3. [step[r][i] EXCEPT !.status = s, !.due = FALSE] \in StepRow  BY <1>1 DEF StepRow
<1>4. [step[r][i] EXCEPT !.due = TRUE] \in StepRow  BY <1>1 DEF StepRow
<1>5. \A a \in Approvals : [step[r][i] EXCEPT !.status = s, !.appr = a] \in StepRow
  BY <1>1 DEF StepRow
<1>6. \A n \in Nat : [step[r][i] EXCEPT !.status = s, !.attempt = n] \in StepRow
  BY <1>1 DEF StepRow
<1>7. \A o \in Outputs : [step[r][i] EXCEPT !.status = s, !.out = o] \in StepRow
  BY <1>1 DEF StepRow
<1>8. \A row \in StepRow : [step EXCEPT ![r][i] = row] \in [Runs -> [Steps -> StepRow]]
  BY DEF TypeOK
<1>. QED  BY <1>2, <1>3, <1>4, <1>5, <1>6, <1>7, <1>8 DEF TypeOK

\* #completeStep keeps the types of the three tables it writes.
LEMMA CompleteStepType ==
    ASSUME TypeOK, NEW w, NEW r \in Runs, NEW i \in Steps, NEW o \in Outputs,
           CompleteStep(w, r, i, o)
    PROVE  /\ run' \in [Runs -> RunRow]
           /\ step' \in [Runs -> [Steps -> StepRow]]
           /\ ended' \in [Runs -> Seq(Terminal)]
<1>1. "completed" \in StepStatus /\ "completed" \in RunStatus /\ "running" \in RunStatus
      /\ "completed" \in Terminal
  BY DEF StepStatus, RunStatus, Terminal, Runnable
<1>2. CASE ~Holds(w, r)  BY <1>2 DEF CompleteStep, TypeOK
<1>3. CASE Holds(w, r)
  <2>1. step' \in [Runs -> [Steps -> StepRow]]
    <3>1. [step EXCEPT ![r][i].status = "completed", ![r][i].out = o]
            \in [Runs -> [Steps -> StepRow]]
      BY <1>1, StepRowType
    <3>. QED  BY <1>3, <3>1 DEF CompleteStep
  <2>2. run' \in [Runs -> RunRow]
    BY <1>1, <1>3, UnleasedType DEF CompleteStep
  <2>3. ended' \in [Runs -> Seq(Terminal)]
    BY <1>1, <1>3, RecordType DEF CompleteStep, TypeOK
  <2>. QED  BY <2>1, <2>2, <2>3
<1>. QED  BY <1>2, <1>3

\* #expireApprovalLocked keeps the types of the tables it writes.
LEMMA ExpireApprovalType ==
    ASSUME TypeOK, NEW a \in Approvals, approval[a].state = "pending", ExpireApproval(a)
    PROVE  /\ run' \in [Runs -> RunRow]
           /\ step' \in [Runs -> [Steps -> StepRow]]
           /\ approval' \in [Approvals -> ApprovalRow]
           /\ ended' \in [Runs -> Seq(Terminal)]
<1>1. approval[a] \in ApprovalRow  BY DEF TypeOK
<1>2. approval[a].run \in Runs /\ approval[a].step \in Steps  BY <1>1 DEF ApprovalRow
<1>3. [approval[a] EXCEPT !.state = "expired"] \in ApprovalRow
  BY <1>1, <1>2 DEF ApprovalRow
<1>4. "failed" \in StepStatus /\ "failed" \in RunStatus /\ "failed" \in Terminal
  BY DEF StepStatus, RunStatus, Terminal
<1>5. approval' \in [Approvals -> ApprovalRow]  BY <1>3 DEF ExpireApproval, TypeOK
<1>6. step' \in [Runs -> [Steps -> StepRow]]
  BY <1>2, <1>4, StepRowType DEF ExpireApproval
<1>7. run' \in [Runs -> RunRow]  BY <1>2, <1>4, UnleasedType DEF ExpireApproval
<1>8. ended' \in [Runs -> Seq(Terminal)]
  BY <1>2, <1>4, RecordType DEF ExpireApproval
<1>. QED  BY <1>5, <1>6, <1>7, <1>8

-----------------------------------------------------------------------------
(* Type correctness: what a worker knows. *)

\* Where the control points lie.
LEMMA ControlPoints ==
    /\ HasStep \subseteq HasRun /\ HasRun \subseteq PCs
    /\ {"cas", "work"} \subseteq HasRun \ HasStep
    /\ {"idle", "expire", "rescan", "pick"} \subseteq PCs \ HasRun
    /\ {"start", "resume", "schedule", "request", "complete", "lookup", "begin",
        "failing", "handler", "effect"} \subseteq HasStep
BY DEF HasStep, HasRun, PCs, Async, Sync

LEMMA IdleIsLocal == IdleLocal \in Local
BY DEF IdleLocal, Local, HasRun, HasStep, PCs, Async, Sync

\* A worker past #claim knows its run, past #workClaim's reads its step too.
LEMMA WorkerKnows ==
    ASSUME TypeOK, NEW w \in Workers
    PROVE  /\ wk[w] \in Local
           /\ wk[w].pc \in HasRun => R(w) \in Runs
           /\ wk[w].pc \in HasStep =>
                /\ R(w) \in Runs
                /\ I(w) \in Steps
                /\ wk[w].attempt \in Nat
                /\ wk[w].then \in HasStep
                /\ wk[w].out \in Outputs \cup {None}
                /\ Own(w) \in Outputs
<1>1. wk[w] \in Local  BY DEF TypeOK
<1>2. wk[w].pc \in HasRun => R(w) \in Runs  BY <1>1 DEF Local, R
<1>3. wk[w].pc \in HasStep =>
        /\ R(w) \in Runs
        /\ I(w) \in Steps
        /\ wk[w].attempt \in Nat
        /\ wk[w].then \in HasStep
        /\ wk[w].out \in Outputs \cup {None}
  BY <1>1 DEF Local, R, I, HasStep
<1>. QED  BY <1>1, <1>2, <1>3 DEF Own, Outputs

LEMMA DoneType ==
    ASSUME TypeOK, NEW w \in Workers, Done(w)
    PROVE  wk' \in [Workers -> Local]
BY IdleIsLocal DEF TypeOK, Done

LEMMA GotoType ==
    ASSUME TypeOK, NEW w \in Workers, NEW pc \in HasStep, wk[w].pc \in HasStep, Goto(w, pc)
    PROVE  wk' \in [Workers -> Local]
<1>1. [wk[w] EXCEPT !.pc = pc] \in Local  BY WorkerKnows DEF Local, HasStep, HasRun
<1>. QED  BY <1>1 DEF TypeOK, Goto

LEMMA LeaveType ==
    ASSUME TypeOK, NEW w \in Workers, wk[w].pc \in HasStep, Leave(w)
    PROVE  /\ wk' \in [Workers -> Local]
           /\ active' \in [Procs -> [Runs -> Workers \cup {None}]]
<1>1. wk' \in [Workers -> Local]  BY DoneType DEF Leave
<1>2. active' \in [Procs -> [Runs -> Workers \cup {None}]]
  BY WorkerKnows, ConstantTypes DEF Leave, TypeOK
<1>. QED  BY <1>1, <1>2

LEMMA FailType ==
    ASSUME TypeOK, NEW w \in Workers, NEW b \in BOOLEAN, wk[w].pc \in HasStep, Fail(w, b)
    PROVE  /\ wk' \in [Workers -> Local]
           /\ active' \in [Procs -> [Runs -> Workers \cup {None}]]
<1>1. CASE ~Holds(w, R(w))  BY <1>1, LeaveType DEF Fail
<1>2. CASE Holds(w, R(w))
  <2>. wk[w].run \in Runs /\ wk[w].step \in Steps /\ wk[w].then \in HasStep
    BY WorkerKnows DEF R, I
  <2>1. \A c \in BOOLEAN : [wk[w] EXCEPT !.pc = "failing", !.retry = c] \in Local
    BY WorkerKnows, ControlPoints DEF Local
  <2>2. (b /\ wk[w].attempt < MaxAttempts[I(w)]) \in BOOLEAN
    OBVIOUS
  <2>3. wk' \in [Workers -> Local]  BY <1>2, <2>1, <2>2 DEF Fail, TypeOK
  <2>. QED  BY <1>2, <2>3 DEF Fail, TypeOK
<1>. QED  BY <1>1, <1>2

-----------------------------------------------------------------------------
(* Type correctness: the actions. *)

USE DEF tables, others

\* Client calls.
LEMMA ClientType ==
    ASSUME TypeOK, NEW p \in Procs, Client(p)
    PROVE  TypeOK'
<1>1. ASSUME NEW r \in Runs, Start(p, r)  PROVE TypeOK'
  <2>1. "queued" \in RunStatus  BY DEF RunStatus, Runnable
  <2>. QED  BY <1>1, <2>1, RunRowType DEF Start, TypeOK
<1>2. ASSUME NEW r \in Runs, Cancel(p, r)  PROVE TypeOK'
  <2>1. "cancelled" \in RunStatus /\ "cancelled" \in StepStatus /\ "cancelled" \in Terminal
    BY DEF RunStatus, StepStatus, Terminal
  <2>2. run' \in [Runs -> RunRow]  BY <1>2, <2>1, UnleasedType DEF Cancel
  <2>3. ended' \in [Runs -> Seq(Terminal)]  BY <1>2, <2>1, RecordType DEF Cancel
  <2>4. \A w \in Workers : [wk[w] EXCEPT !.aborted = TRUE] \in Local
    <3>1. \A w \in Workers : wk[w] \in Local  BY DEF TypeOK
    <3>. QED  BY <3>1 DEF Local
  <2>5. wk' \in [Workers -> Local]
    BY <1>2, <2>4 DEF Cancel, AbortActive, TypeOK
  <2>6. \A i \in Steps : [step[r][i] EXCEPT !.status = "cancelled"] \in StepRow
    <3>1. \A i \in Steps : step[r][i] \in StepRow  BY DEF TypeOK
    <3>. QED  BY <2>1, <3>1 DEF StepRow
  <2>7. step' \in [Runs -> [Steps -> StepRow]]
    BY <1>2, <2>6 DEF Cancel, TypeOK
  <2>. QED  BY <1>2, <2>2, <2>3, <2>5, <2>7 DEF Cancel, TypeOK
<1>3. ASSUME NEW a \in Approvals, NEW d \in {"approved", "rejected"}, Resolve(p, a, d)
      PROVE  TypeOK'
  <2>. DEFINE r == approval[a].run
              i == approval[a].step
  <2>1. approval[a] \in ApprovalRow /\ approval[a].state = "pending"
    BY <1>3 DEF TypeOK, Resolve
  <2>2. r \in Runs /\ i \in Steps  BY <2>1 DEF ApprovalRow
  <2>3. CASE approval[a].due /\ ExpireApproval(a)
    BY <1>3, <2>1, <2>3, ExpireApprovalType DEF Resolve, TypeOK
  <2>4. ASSUME approval' = [approval EXCEPT ![a].state = d]
        PROVE  approval' \in [Approvals -> ApprovalRow]
    <3>1. [approval[a] EXCEPT !.state = d] \in ApprovalRow
      BY <2>1, <2>2 DEF ApprovalRow
    <3>. QED  BY <2>4, <3>1 DEF TypeOK
  <2>5. CASE /\ approval' = [approval EXCEPT ![a].state = d]
             /\ step' = [step EXCEPT ![r][i].status = "approval_resolved"]
             /\ run' = Unleased(r, "running")
             /\ UNCHANGED ended
    <3>1. "approval_resolved" \in StepStatus /\ "running" \in RunStatus
      BY DEF StepStatus, RunStatus, Runnable
    <3>2. step' \in [Runs -> [Steps -> StepRow]]  BY <2>2, <2>5, <3>1, StepRowType
    <3>3. run' \in [Runs -> RunRow]  BY <2>2, <2>5, <3>1, UnleasedType
    <3>. QED  BY <1>3, <2>4, <2>5, <3>2, <3>3 DEF Resolve, TypeOK
  <2>6. CASE /\ approval' = [approval EXCEPT ![a].state = d]
             /\ step' = [step EXCEPT ![r][i].status = "failed"]
             /\ run' = [run EXCEPT ![r].status = "failed"]
             /\ Record(r, "failed")
    <3>1. "failed" \in StepStatus /\ "failed" \in RunStatus /\ "failed" \in Terminal
      BY DEF StepStatus, RunStatus, Terminal
    <3>2. step' \in [Runs -> [Steps -> StepRow]]  BY <2>2, <2>6, <3>1, StepRowType
    <3>3. run' \in [Runs -> RunRow]  BY <2>2, <2>6, <3>1, RunRowType
    <3>4. ended' \in [Runs -> Seq(Terminal)]  BY <2>2, <2>6, <3>1, RecordType
    <3>. QED  BY <1>3, <2>4, <2>6, <3>2, <3>3, <3>4 DEF Resolve, TypeOK
  <2>. QED  BY <1>3, <2>3, <2>5, <2>6 DEF Resolve
<1>. QED  BY <1>1, <1>2, <1>3 DEF Client

\* The part of a tick that finds a run and claims it.
LEMMA ClaimingType ==
    ASSUME TypeOK, NEW w \in Workers,
           \/ TickBegin(w) \/ Scan(w) \/ ScanDone(w) \/ Claim(w)
           \/ \E a \in Approvals : ExpireOne(w, a)
           \/ \E r \in Runs : TryRow(w, r)
    PROVE  TypeOK'
<1>. wk[w] \in Local  BY WorkerKnows
<1>1. CASE TickBegin(w)
  <2>1. \A D \in SUBSET Approvals : [wk[w] EXCEPT !.pc = "expire", !.due = D] \in Local
    BY ControlPoints DEF Local
  <2>. QED  BY <1>1, <2>1 DEF TickBegin, TypeOK
<1>2. CASE Scan(w)
  <2>1. \A Q \in SUBSET Runs : [wk[w] EXCEPT !.pc = "pick", !.rows = Q] \in Local
    BY ControlPoints DEF Local
  <2>. QED  BY <1>2, <2>1 DEF Scan, TypeOK
<1>3. CASE ScanDone(w)  BY <1>3, DoneType DEF ScanDone, TypeOK
<1>4. CASE Claim(w)
  <2>1. R(w) \in Runs /\ wk[w].run \in Runs
    BY <1>4, WorkerKnows, ControlPoints DEF Claim, At, R
  <2>2. [wk[w] EXCEPT !.pc = "work", !.rows = {}] \in Local
    BY <2>1, ControlPoints DEF Local
  <2>3. [wk[w] EXCEPT !.pc = "pick", !.run = None] \in Local
    BY ControlPoints DEF Local
  <2>4. wk' \in [Workers -> Local]  BY <1>4, <2>2, <2>3 DEF Claim, TypeOK
  <2>5. IdOf[w] \in Ids \cup {None}  BY DEF Ids
  <2>6. run' \in [Runs -> RunRow]
    <3>1. [run EXCEPT ![R(w)].owner = IdOf[w], ![R(w)].lapsed = FALSE] \in [Runs -> RunRow]
      BY <2>1, <2>5, RunRowType
    <3>. QED  BY <1>4, <3>1 DEF Claim, TypeOK
  <2>. QED  BY <1>4, <2>4, <2>6 DEF Claim, TypeOK
<1>5. ASSUME NEW a \in Approvals, ExpireOne(w, a)  PROVE TypeOK'
  <2>1. [wk[w] EXCEPT !.due = @ \ {a}] \in Local  BY DEF Local
  <2>2. wk' \in [Workers -> Local]  BY <1>5, <2>1 DEF ExpireOne, TypeOK
  <2>3. CASE UNCHANGED <<run, step, approval, ended>>
    BY <1>5, <2>2, <2>3 DEF ExpireOne, TypeOK
  <2>4. CASE approval[a].state = "pending" /\ ExpireApproval(a)
    BY <1>5, <2>2, <2>4, ExpireApprovalType DEF ExpireOne, TypeOK
  <2>. QED  BY <1>5, <2>3, <2>4 DEF ExpireOne
<1>6. ASSUME NEW r \in Runs, TryRow(w, r)  PROVE TypeOK'
  <2>1. wk[w].pc = "pick"  BY <1>6 DEF TryRow, At
  <2>2. [wk[w] EXCEPT !.rows = @ \ {r}, !.run = r, !.pc = "cas"] \in Local
    BY <2>1, ControlPoints DEF Local
  <2>3. [wk[w] EXCEPT !.rows = @ \ {r}] \in Local  BY DEF Local
  <2>. QED  BY <1>6, <2>2, <2>3 DEF TryRow, TypeOK
<1>. QED  BY <1>1, <1>2, <1>3, <1>4, <1>5, <1>6

\* The part of a tick that works on the claimed run, up to the handler, and
\* the transaction that records a failure.
LEMMA WorkingType ==
    ASSUME TypeOK, NEW w \in Workers,
           \/ WorkRead(w) \/ MarkStarted(w) \/ MarkResumed(w) \/ ScheduleTimer(w)
           \/ CompleteWait(w) \/ LookupEffect(w) \/ BeginAttempt(w) \/ FailCommit(w)
           \/ \E a \in Approvals : RequestApproval(w, a)
    PROVE  TypeOK'
<1>. wk[w] \in Local  BY WorkerKnows
<1>1. CASE WorkRead(w)
  <2>1. wk[w].pc = "work" /\ wk[w].run \in Runs /\ R(w) \in Runs
    BY <1>1, WorkerKnows, ControlPoints DEF WorkRead, At, R
  <2>2. CASE Done(w) /\ UNCHANGED run
    BY <1>1, <2>2, DoneType DEF WorkRead, TypeOK
  <2>3. CASE Done(w) /\ run' = [run EXCEPT ![R(w)].owner = None, ![R(w)].lapsed = FALSE]
    <3>1. run' \in [Runs -> RunRow]  BY <2>1, <2>3, RunRowType
    <3>. QED  BY <1>1, <2>3, <3>1, DoneType DEF WorkRead, TypeOK
  <2>4. ASSUME NEW i \in NextRunnableStep(R(w)),
               wk' = [wk EXCEPT ![w].step = i,
                        ![w].attempt = step[R(w)][i].attempt,
                        ![w].appr = step[R(w)][i].appr,
                        ![w].then = Handling(R(w), i),
                        ![w].pc = IF run[R(w)].status = "queued" THEN "start"
                                  ELSE IF ~run[R(w)].resumed THEN "resume"
                                  ELSE Handling(R(w), i)],
               UNCHANGED run
        PROVE  TypeOK'
    <3>1. i \in Steps  BY DEF NextRunnableStep, Open
    <3>2. step[R(w)][i] \in StepRow  BY <2>1, <3>1 DEF TypeOK
    <3>3. step[R(w)][i].attempt \in Nat /\ step[R(w)][i].appr \in Approvals \cup {None}
      BY <3>2 DEF StepRow
    <3>4. Handling(R(w), i) \in HasStep  BY ControlPoints DEF Handling
    <3>5. \A pc \in HasStep :
            [wk[w] EXCEPT !.step = i, !.attempt = step[R(w)][i].attempt,
               !.appr = step[R(w)][i].appr, !.then = Handling(R(w), i), !.pc = pc] \in Local
      BY <2>1, <3>1, <3>3, <3>4, ControlPoints DEF Local
    <3>6. (IF run[R(w)].status = "queued" THEN "start"
           ELSE IF ~run[R(w)].resumed THEN "resume" ELSE Handling(R(w), i)) \in HasStep
      BY <3>4, ControlPoints
    <3>7. wk' \in [Workers -> Local]  BY <2>4, <3>5, <3>6 DEF TypeOK
    <3>. QED  BY <1>1, <2>4, <3>7 DEF WorkRead, TypeOK
  <2>. QED  BY <1>1, <2>2, <2>3, <2>4 DEF WorkRead
<1>2. CASE MarkStarted(w)
  <2>1. wk[w].pc \in HasStep  BY <1>2, ControlPoints DEF MarkStarted, At
  <2>2. "running" \in RunStatus  BY DEF RunStatus, Runnable
  <2>3. run' \in [Runs -> RunRow]
    BY <1>2, <2>1, <2>2, WorkerKnows, RunRowType DEF MarkStarted
  <2>4. wk' \in [Workers -> Local]  BY <1>2, <2>1, WorkerKnows, GotoType DEF MarkStarted
  <2>. QED  BY <1>2, <2>3, <2>4 DEF MarkStarted, TypeOK
<1>3. CASE MarkResumed(w)
  <2>1. wk[w].pc \in HasStep  BY <1>3, ControlPoints DEF MarkResumed, At
  <2>2. run' \in [Runs -> RunRow]
    BY <1>3, <2>1, WorkerKnows, RunRowType DEF MarkResumed
  <2>3. wk' \in [Workers -> Local]  BY <1>3, <2>1, WorkerKnows, GotoType DEF MarkResumed
  <2>. QED  BY <1>3, <2>2, <2>3 DEF MarkResumed, TypeOK
<1>4. CASE ScheduleTimer(w)
  <2>1. R(w) \in Runs /\ I(w) \in Steps
    BY <1>4, WorkerKnows, ControlPoints DEF ScheduleTimer, At
  <2>2. "waiting_timer" \in RunStatus /\ "waiting_timer" \in StepStatus
    BY DEF RunStatus, StepStatus, Runnable
  <2>3. run' \in [Runs -> RunRow]  BY <1>4, <2>1, <2>2, UnleasedType DEF ScheduleTimer
  <2>4. step' \in [Runs -> [Steps -> StepRow]]
    BY <1>4, <2>1, <2>2, StepRowType DEF ScheduleTimer
  <2>. QED  BY <1>4, <2>3, <2>4, DoneType DEF ScheduleTimer, TypeOK
<1>5. ASSUME NEW a \in Approvals, RequestApproval(w, a)  PROVE TypeOK'
  <2>1. R(w) \in Runs /\ I(w) \in Steps
    BY <1>5, WorkerKnows, ControlPoints DEF RequestApproval, At
  <2>2. "waiting_approval" \in RunStatus /\ "waiting_approval" \in StepStatus
    BY DEF RunStatus, StepStatus
  <2>3. run' \in [Runs -> RunRow]  BY <1>5, <2>1, <2>2, UnleasedType DEF RequestApproval
  <2>4. step' \in [Runs -> [Steps -> StepRow]]
    BY <1>5, <2>1, <2>2, StepRowType DEF RequestApproval
  <2>5. [run |-> R(w), step |-> I(w), state |-> "pending", due |-> FALSE] \in ApprovalRow
    BY <2>1 DEF ApprovalRow
  <2>6. approval' \in [Approvals -> ApprovalRow]
    BY <1>5, <2>5 DEF RequestApproval, TypeOK
  <2>. QED  BY <1>5, <2>3, <2>4, <2>6, DoneType DEF RequestApproval, TypeOK
<1>6. CASE CompleteWait(w)
  <2>1. R(w) \in Runs /\ I(w) \in Steps /\ Own(w) \in Outputs
    BY <1>6, WorkerKnows, ControlPoints DEF CompleteWait, At
  <2>2. CASE Done(w) /\ UNCHANGED <<run, step, ended>>
    BY <1>6, <2>2, DoneType DEF CompleteWait, TypeOK
  <2>3. CASE /\ CompleteStep(w, R(w), I(w), Own(w))
             /\ wk' = [wk EXCEPT ![w] =
                         IF Kind[I(w)] = "timer" THEN [IdleLocal EXCEPT !.pc = "rescan"]
                         ELSE IdleLocal]
    <3>1. [IdleLocal EXCEPT !.pc = "rescan"] \in Local
      BY ControlPoints, IdleIsLocal DEF Local
    <3>2. wk' \in [Workers -> Local]  BY <2>3, <3>1, IdleIsLocal DEF TypeOK
    <3>. QED  BY <1>6, <2>1, <2>3, <3>2, CompleteStepType DEF CompleteWait, TypeOK
  <2>. QED  BY <1>6, <2>2, <2>3 DEF CompleteWait
<1>7. CASE LookupEffect(w)
  <2>1. wk[w].pc \in HasStep /\ R(w) \in Runs /\ I(w) \in Steps
    BY <1>7, WorkerKnows, ControlPoints DEF LookupEffect, At
  <2>2. CASE Done(w) /\ UNCHANGED <<run, step, ended>>
    BY <1>7, <2>2, DoneType DEF LookupEffect, TypeOK
  <2>3. CASE Goto(w, "begin") /\ UNCHANGED <<run, step, ended>>
    <3>1. wk' \in [Workers -> Local]  BY <2>1, <2>3, GotoType, ControlPoints
    <3>. QED  BY <1>7, <2>3, <3>1 DEF LookupEffect, TypeOK
  <2>4. CASE /\ effect[Key(w)] # None /\ Done(w)
             /\ CompleteStep(w, R(w), I(w), Recorded(w))
    <3>1. Key(w) \in EffectKeys  BY <2>1 DEF Key, EffectKeys
    <3>2. effect[Key(w)] \in EffectRow  BY <2>4, <3>1 DEF TypeOK
    <3>3. Recorded(w) \in Outputs  BY <3>2 DEF Recorded, EffectRow
    <3>. QED  BY <1>7, <2>1, <2>4, <3>3, CompleteStepType, DoneType DEF LookupEffect, TypeOK
  <2>. QED  BY <1>7, <2>2, <2>3, <2>4 DEF LookupEffect
<1>8. CASE BeginAttempt(w)
  <2>. DEFINE n == wk[w].attempt + 1
  <2>1. wk[w].pc \in HasStep  BY <1>8, ControlPoints DEF BeginAttempt, At
  <2>2. /\ R(w) \in Runs /\ I(w) \in Steps /\ n \in Nat
        /\ wk[w].run \in Runs /\ wk[w].step \in Steps /\ wk[w].then \in HasStep
    BY <2>1, WorkerKnows DEF R, I
  <2>3. [wk[w] EXCEPT !.pc = "handler", !.attempt = n] \in Local
    BY <2>2, ControlPoints DEF Local
  <2>4. wk' \in [Workers -> Local]  BY <1>8, <2>3 DEF BeginAttempt, TypeOK
  <2>5. active' \in [Procs -> [Runs -> Workers \cup {None}]]
    BY <1>8, <2>2, ConstantTypes DEF BeginAttempt, TypeOK
  <2>6. "running" \in RunStatus /\ "running" \in StepStatus
    BY DEF RunStatus, StepStatus, Runnable
  <2>7. run' \in [Runs -> RunRow]
    <3>1. [run EXCEPT ![R(w)].status = "running"] \in [Runs -> RunRow]
      BY <2>2, <2>6, RunRowType
    <3>. QED  BY <1>8, <3>1 DEF BeginAttempt, TypeOK
  <2>8. step' \in [Runs -> [Steps -> StepRow]]
    <3>1. [step EXCEPT ![R(w)][I(w)].status = "running", ![R(w)][I(w)].attempt = n]
            \in [Runs -> [Steps -> StepRow]]
      BY <2>2, <2>6, StepRowType
    <3>. QED  BY <1>8, <3>1 DEF BeginAttempt, TypeOK
  <2>. QED  BY <1>8, <2>4, <2>5, <2>7, <2>8 DEF BeginAttempt, TypeOK
<1>9. CASE FailCommit(w)
  <2>1. wk[w].pc \in HasStep /\ R(w) \in Runs /\ I(w) \in Steps
    BY <1>9, WorkerKnows, ControlPoints DEF FailCommit, At
  <2>2. /\ {"waiting_retry", "failed"} \subseteq RunStatus
        /\ {"waiting_retry", "failed"} \subseteq StepStatus /\ "failed" \in Terminal
    BY DEF RunStatus, StepStatus, Runnable, Terminal
  <2>3. run' \in [Runs -> RunRow]  BY <1>9, <2>1, <2>2, UnleasedType DEF FailCommit
  <2>4. step' \in [Runs -> [Steps -> StepRow]]
    <3>1. [step EXCEPT ![R(w)][I(w)].status = "waiting_retry", ![R(w)][I(w)].due = FALSE]
            \in [Runs -> [Steps -> StepRow]]
      BY <2>1, <2>2, StepRowType
    <3>2. [step EXCEPT ![R(w)][I(w)].status = "failed"] \in [Runs -> [Steps -> StepRow]]
      BY <2>1, <2>2, StepRowType
    <3>. QED  BY <1>9, <3>1, <3>2 DEF FailCommit
  <2>5. ended' \in [Runs -> Seq(Terminal)]
    BY <1>9, <2>1, <2>2, RecordType DEF FailCommit, TypeOK
  <2>. QED  BY <1>9, <2>1, <2>3, <2>4, <2>5, LeaveType DEF FailCommit, TypeOK
<1>. QED  BY <1>1, <1>2, <1>3, <1>4, <1>5, <1>6, <1>7, <1>8, <1>9

\* What handlers do.
LEMMA HandlerType ==
    ASSUME TypeOK, NEW w \in Workers, Handler(w)
    PROVE  TypeOK'
<1>1. CASE EffectBegin(w)
  <2>1. wk[w].pc \in HasStep  BY <1>1, ControlPoints DEF EffectBegin, At
  <2>2. /\ R(w) \in Runs /\ I(w) \in Steps /\ wk[w] \in Local
        /\ wk[w].run \in Runs /\ wk[w].step \in Steps /\ wk[w].then \in HasStep
    BY <2>1, WorkerKnows DEF R, I
  <2>3. CASE Leave(w)  BY <1>1, <2>1, <2>3, LeaveType DEF EffectBegin, TypeOK
  <2>4. CASE Fail(w, TRUE)  BY <1>1, <2>1, <2>4, FailType DEF EffectBegin, TypeOK
  <2>5. CASE Goto(w, "effect") /\ UNCHANGED active
    <3>1. wk' \in [Workers -> Local]  BY <2>1, <2>5, GotoType, ControlPoints
    <3>. QED  BY <1>1, <2>5, <3>1 DEF EffectBegin, TypeOK
  <2>6. CASE /\ effect[Key(w)] # None
             /\ wk' = [wk EXCEPT ![w].out = Recorded(w)] /\ UNCHANGED active
    <3>1. Key(w) \in EffectKeys  BY <2>2 DEF Key, EffectKeys
    <3>2. effect[Key(w)] \in EffectRow  BY <2>6, <3>1 DEF TypeOK
    <3>3. Recorded(w) \in Outputs  BY <3>2 DEF Recorded, EffectRow
    <3>4. [wk[w] EXCEPT !.out = Recorded(w)] \in Local  BY <2>2, <3>3 DEF Local
    <3>. QED  BY <1>1, <2>6, <3>4 DEF EffectBegin, TypeOK
  <2>. QED  BY <1>1, <2>3, <2>4, <2>5, <2>6 DEF EffectBegin
<1>2. CASE EffectCommit(w)
  <2>1. wk[w].pc \in HasStep  BY <1>2, ControlPoints DEF EffectCommit, At
  <2>2. /\ R(w) \in Runs /\ I(w) \in Steps /\ Own(w) \in Outputs /\ wk[w] \in Local
        /\ wk[w].run \in Runs /\ wk[w].step \in Steps /\ wk[w].then \in HasStep
    BY <2>1, WorkerKnows DEF R, I
  <2>3. CASE Leave(w) /\ UNCHANGED effect
    BY <1>2, <2>1, <2>3, LeaveType DEF EffectCommit, TypeOK
  <2>4. CASE Fail(w, TRUE) /\ UNCHANGED effect
    BY <1>2, <2>1, <2>4, FailType DEF EffectCommit, TypeOK
  <2>5. CASE /\ wk' = [wk EXCEPT ![w].pc = "handler", ![w].out = Own(w)]
             /\ effect' = IF effect[Key(w)] # None THEN effect
                          ELSE [effect EXCEPT ![Key(w)] = [fp |-> Fp(w), by |-> Own(w)]]
             /\ UNCHANGED active
    <3>1. [wk[w] EXCEPT !.pc = "handler", !.out = Own(w)] \in Local
      BY <2>2, ControlPoints DEF Local
    <3>2. wk' \in [Workers -> Local]  BY <2>5, <3>1 DEF TypeOK
    <3>3. Fp(w) \in Fingerprints  BY <2>2 DEF Fp, Fingerprints
    <3>4. [fp |-> Fp(w), by |-> Own(w)] \in EffectRow  BY <2>2, <3>3 DEF EffectRow
    <3>5. effect' \in [EffectKeys -> EffectRow \cup {None}]  BY <2>5, <3>4 DEF TypeOK
    <3>. QED  BY <1>2, <2>5, <3>2, <3>5 DEF EffectCommit, TypeOK
  <2>. QED  BY <1>2, <2>3, <2>4, <2>5 DEF EffectCommit
<1>3. CASE HandlerReturns(w)
  <2>1. wk[w].pc \in HasStep  BY <1>3, ControlPoints DEF HandlerReturns, At
  <2>2. /\ R(w) \in Runs /\ I(w) \in Steps /\ Own(w) \in Outputs
        /\ wk[w].out \in Outputs \cup {None}
    BY <2>1, WorkerKnows
  <2>3. CASE Fail(w, TRUE) /\ UNCHANGED <<run, step, ended>>
    BY <1>3, <2>1, <2>3, FailType DEF HandlerReturns, TypeOK
  <2>4. CASE /\ CompleteStep(w, R(w), I(w),
                             IF I(w) \in Idempotent THEN wk[w].out ELSE Own(w))
             /\ Leave(w)
    <3>1. (IF I(w) \in Idempotent THEN wk[w].out ELSE Own(w)) \in Outputs
      BY <1>3, <2>2 DEF HandlerReturns
    <3>. QED
      BY <1>3, <2>1, <2>2, <2>4, <3>1, CompleteStepType, LeaveType DEF HandlerReturns, TypeOK
  <2>. QED  BY <1>3, <2>3, <2>4 DEF HandlerReturns
<1>4. ASSUME NEW b \in BOOLEAN, HandlerThrows(w, b)  PROVE TypeOK'
  <2>1. wk[w].pc \in HasStep  BY <1>4, ControlPoints DEF HandlerThrows
  <2>. QED  BY <1>4, <2>1, FailType, LeaveType DEF HandlerThrows, TypeOK
<1>5. CASE Timeout(w)
  <2>1. wk[w].pc \in HasStep  BY <1>5, ControlPoints DEF Timeout
  <2>2. R(w) \in Runs /\ I(w) \in Steps /\ wk[w].attempt \in Nat  BY <2>1, WorkerKnows
  <2>3. [worker |-> w, run |-> R(w), step |-> I(w), attempt |-> wk[w].attempt,
         aborted |-> TRUE, executing |-> wk[w].pc = "effect"] \in Zombies
    BY <2>2 DEF Zombies
  <2>4. zombie' \subseteq Zombies  BY <1>5, <2>3 DEF Timeout, TypeOK
  <2>. QED  BY <1>5, <2>1, <2>4, FailType DEF Timeout, TypeOK
<1>. QED  BY <1>1, <1>2, <1>3, <1>4, <1>5 DEF Handler

\* Timed-out invocations, deadlines and crashes.
LEMMA EnvironmentType ==
    ASSUME TypeOK,
           \/ \E z \in zombie : ZombieReturns(z)
           \/ \E p \in Procs : Crash(p)
           \/ Deadline
           \/ \E r \in Runs : LeaseOverrun(r)
    PROVE  TypeOK'
<1>1. ASSUME NEW z \in zombie, ZombieReturns(z)  PROVE TypeOK'
  <2>1. z \in Zombies  BY DEF TypeOK
  <2>2. z.run \in Runs /\ z.step \in Steps /\ z.attempt \in Nat  BY <2>1 DEF Zombies
  <2>3. Fingerprint[z.run][z.step] \in Fingerprints  BY <2>2 DEF Fingerprints
  <2>4. [run |-> z.run, step |-> z.step, attempt |-> z.attempt] \in Outputs
    BY <2>2 DEF Outputs
  <2>5. [fp |-> Fingerprint[z.run][z.step],
         by |-> [run |-> z.run, step |-> z.step, attempt |-> z.attempt]] \in EffectRow
    BY <2>3, <2>4 DEF EffectRow
  <2>6. effect' \in [EffectKeys -> EffectRow \cup {None}]
    BY <1>1, <2>5 DEF ZombieReturns, TypeOK
  <2>. QED  BY <1>1, <2>6 DEF ZombieReturns, TypeOK
<1>2. ASSUME NEW p \in Procs, Crash(p)  PROVE TypeOK'
  <2>1. wk' \in [Workers -> Local]  BY <1>2, IdleIsLocal DEF Crash, TypeOK
  <2>2. active' \in [Procs -> [Runs -> Workers \cup {None}]]  BY <1>2 DEF Crash, TypeOK
  <2>3. crashes' \in 0 .. MaxCrashes  BY <1>2, ConstantTypes DEF Crash, TypeOK
  <2>. QED  BY <1>2, <2>1, <2>2, <2>3 DEF Crash, TypeOK
<1>3. ASSUME NEW r \in Runs, LeaseLapse(r)  PROVE TypeOK'
  BY <1>3, RunRowType DEF LeaseLapse, TypeOK
<1>4. ASSUME NEW r \in Runs, LeaseOverrun(r)  PROVE TypeOK'
  <2>1. overruns' \in 0 .. MaxOverruns  BY <1>4, ConstantTypes DEF LeaseOverrun, TypeOK
  <2>. QED  BY <1>4, <2>1, RunRowType DEF LeaseOverrun, TypeOK
<1>5. ASSUME NEW r \in Runs, NEW i \in Steps, TimerDue(r, i)  PROVE TypeOK'
  <2>1. "queued" \in StepStatus  BY DEF StepStatus, Runnable
  <2>. QED  BY <1>5, <2>1, StepRowType DEF TimerDue, TypeOK
<1>6. ASSUME NEW a \in Approvals, ApprovalDue(a)  PROVE TypeOK'
  <2>1. approval[a] \in ApprovalRow  BY DEF TypeOK
  <2>2. [approval[a] EXCEPT !.due = TRUE] \in ApprovalRow  BY <2>1 DEF ApprovalRow
  <2>. QED  BY <1>6, <2>2 DEF ApprovalDue, TypeOK
<1>. QED  BY <1>1, <1>2, <1>3, <1>4, <1>5, <1>6 DEF Deadline

LEMMA InitType == Init => TypeOK
<1>. SUFFICES ASSUME Init PROVE TypeOK  OBVIOUS
<1>1. [status |-> "none", owner |-> None, lapsed |-> FALSE, resumed |-> FALSE] \in RunRow
  BY DEF RunRow, RunStatus
<1>2. [status |-> "queued", attempt |-> 0, due |-> FALSE, appr |-> None, out |-> None]
        \in StepRow
  BY DEF StepRow, StepStatus, Runnable
<1>3. [run |-> None, step |-> 0, state |-> "none", due |-> FALSE] \in ApprovalRow
  BY DEF ApprovalRow
<1>. QED  BY <1>1, <1>2, <1>3, IdleIsLocal, ConstantTypes DEF Init, TypeOK

LEMMA NextType ==
    ASSUME TypeOK, [Next]_vars
    PROVE  TypeOK'
<1>1. CASE UNCHANGED vars  BY <1>1 DEF vars, TypeOK
<1>2. ASSUME NEW w \in Workers, Tick(w)  PROVE TypeOK'
  BY <1>2, ClaimingType, WorkingType DEF Tick
<1>. QED  BY <1>1, <1>2, ClientType, HandlerType, EnvironmentType DEF Next

\* The tables and the workers' variables have their types in every reachable
\* state, however many workers and processes interleave, crash and stall.
THEOREM TypeCorrect == Spec => []TypeOK
<1>1. Init => TypeOK  BY InitType
<1>2. TypeOK /\ [Next]_vars => TypeOK'  BY NextType
<1>. QED  BY <1>1, <1>2, PTL DEF Spec

-----------------------------------------------------------------------------
(* What the shared updates do to a row, and that they leave others alone. *)

LEMMA UnleasedRow ==
    ASSUME TypeOK, NEW r \in Runs, NEW s
    PROVE  /\ Unleased(r, s)[r].status = s
           /\ Unleased(r, s)[r].owner = None
           /\ \A q \in Runs \ {r} : Unleased(r, s)[q] = run[q]
<1>1. run \in [Runs -> RunRow] /\ run[r] \in RunRow  BY DEF TypeOK
<1>2. Unleased(r, s)[r] = [run[r] EXCEPT !.status = s, !.owner = None, !.lapsed = FALSE]
  BY <1>1 DEF Unleased
<1>3. \A q \in Runs \ {r} : Unleased(r, s)[q] = run[q]  BY <1>1 DEF Unleased
<1>4. /\ [run[r] EXCEPT !.status = s, !.owner = None, !.lapsed = FALSE].status = s
      /\ [run[r] EXCEPT !.status = s, !.owner = None, !.lapsed = FALSE].owner = None
  BY <1>1 DEF RunRow
<1>. QED  BY <1>2, <1>3, <1>4

-----------------------------------------------------------------------------
(* CompletedMeansAll *)

\* The invariant is kept by a step after which a completed run was completed
\* before and kept the statuses of its steps, or has all its steps completed.
LEMMA CompletedKept ==
    ASSUME CompletedMeansAll,
           \A q \in Runs : run'[q].status = "completed" =>
               \/ /\ run[q].status = "completed"
                  /\ \A i \in Steps : step'[q][i].status = step[q][i].status
               \/ \A i \in Steps : step'[q][i].status = "completed"
    PROVE  CompletedMeansAll'
BY DEF CompletedMeansAll

\* A transaction that moves run r to a status other than completed may do
\* anything to the steps of r, as long as it leaves those of others alone.
LEMMA CompletedReopened ==
    ASSUME TypeOK, CompletedMeansAll, NEW r \in Runs,
           run'[r].status # "completed",
           \A q \in Runs \ {r} : run'[q] = run[q] /\ step'[q] = step[q]
    PROVE  CompletedMeansAll'
BY DEF CompletedMeansAll

LEMMA CompleteStepCompleted ==
    ASSUME TypeOK, CompletedMeansAll, NEW w, NEW r \in Runs, NEW i \in Steps, NEW o,
           CompleteStep(w, r, i, o)
    PROVE  CompletedMeansAll'
<1>1. CASE ~Holds(w, r)  BY <1>1 DEF CompleteStep, CompletedMeansAll
<1>2. CASE Holds(w, r)
  <2>. step \in [Runs -> [Steps -> StepRow]]  BY DEF TypeOK
  <2>1. \A q \in Runs \ {r} : run'[q] = run[q] /\ step'[q] = step[q]
    BY <1>2, UnleasedRow DEF CompleteStep
  <2>2. CASE ~LastOpen(r, i)
    <3>1. run'[r].status = "running"  BY <1>2, <2>2, UnleasedRow DEF CompleteStep
    <3>. QED  BY <2>1, <3>1, CompletedReopened
  <2>3. CASE LastOpen(r, i)
    <3>1. step'[r] = [step[r] EXCEPT ![i] = [step[r][i] EXCEPT !.status = "completed", !.out = o]]
      BY <1>2 DEF CompleteStep
    <3>2. step[r] \in [Steps -> StepRow] /\ step[r][i] \in StepRow  OBVIOUS
    <3>3. [step[r][i] EXCEPT !.status = "completed", !.out = o].status = "completed"
      BY <3>2 DEF StepRow
    <3>4. step'[r][i].status = "completed"  BY <3>1, <3>2, <3>3
    <3>5. \A j \in Steps \ {i} : step'[r][j].status = "completed"
      BY <2>3, <3>1, <3>2 DEF LastOpen
    <3>. QED  BY <2>1, <3>4, <3>5 DEF CompletedMeansAll
  <2>. QED  BY <2>2, <2>3
<1>. QED  BY <1>1, <1>2

LEMMA ExpireApprovalCompleted ==
    ASSUME TypeOK, CompletedMeansAll, NEW a \in Approvals,
           approval[a].state = "pending", ExpireApproval(a)
    PROVE  CompletedMeansAll'
<1>. DEFINE r == approval[a].run
<1>1. approval[a] \in ApprovalRow  BY DEF TypeOK
<1>2. r \in Runs  BY <1>1 DEF ApprovalRow
<1>3. run'[r].status # "completed" /\ \A q \in Runs \ {r} : run'[q] = run[q]
  BY <1>2, UnleasedRow DEF ExpireApproval
<1>4. \A q \in Runs \ {r} : step'[q] = step[q]  BY <1>2 DEF ExpireApproval, TypeOK
<1>. QED  BY <1>2, <1>3, <1>4, CompletedReopened

LEMMA NextCompleted ==
    ASSUME TypeOK, CompletedMeansAll, [Next]_vars
    PROVE  CompletedMeansAll'
<1>. /\ run \in [Runs -> RunRow] /\ \A r \in Runs : run[r] \in RunRow
     /\ step \in [Runs -> [Steps -> StepRow]]
  BY DEF TypeOK
<1>1. CASE UNCHANGED <<run, step>>  BY <1>1 DEF CompletedMeansAll
<1>2. ASSUME NEW p \in Procs, NEW r \in Runs, Start(p, r)  PROVE CompletedMeansAll'
  <2>1. run'[r].status = "queued" /\ \A q \in Runs \ {r} : run'[q] = run[q]
    BY <1>2 DEF Start, RunRow
  <2>. QED  BY <1>2, <2>1, CompletedReopened DEF Start
<1>3. ASSUME NEW p \in Procs, NEW r \in Runs, Cancel(p, r)  PROVE CompletedMeansAll'
  <2>1. run'[r].status = "cancelled" /\ \A q \in Runs \ {r} : run'[q] = run[q]
    BY <1>3, UnleasedRow DEF Cancel
  <2>2. \A q \in Runs \ {r} : step'[q] = step[q]  BY <1>3 DEF Cancel
  <2>. QED  BY <2>1, <2>2, CompletedReopened
<1>4. ASSUME NEW p \in Procs, NEW a \in Approvals, NEW d \in {"approved", "rejected"},
             Resolve(p, a, d)
      PROVE  CompletedMeansAll'
  <2>. DEFINE r == approval[a].run
  <2>1. approval[a] \in ApprovalRow /\ approval[a].state = "pending"
    BY <1>4 DEF TypeOK, Resolve
  <2>2. r \in Runs  BY <2>1 DEF ApprovalRow
  <2>3. CASE ExpireApproval(a)  BY <2>1, <2>3, ExpireApprovalCompleted
  <2>4. CASE /\ step' = [step EXCEPT ![r][approval[a].step].status = "approval_resolved"]
             /\ run' = Unleased(r, "running")
    <3>1. run'[r].status = "running" /\ \A q \in Runs \ {r} : run'[q] = run[q]
      BY <2>2, <2>4, UnleasedRow
    <3>2. \A q \in Runs \ {r} : step'[q] = step[q]  BY <2>2, <2>4
    <3>. QED  BY <2>2, <3>1, <3>2, CompletedReopened
  <2>5. CASE /\ step' = [step EXCEPT ![r][approval[a].step].status = "failed"]
             /\ run' = [run EXCEPT ![r].status = "failed"]
    <3>1. run'[r].status = "failed" /\ \A q \in Runs \ {r} : run'[q] = run[q]
      BY <2>2, <2>5 DEF RunRow
    <3>2. \A q \in Runs \ {r} : step'[q] = step[q]  BY <2>2, <2>5
    <3>. QED  BY <2>2, <3>1, <3>2, CompletedReopened
  <2>. QED  BY <1>4, <2>3, <2>4, <2>5 DEF Resolve
<1>5. ASSUME NEW w \in Workers, Claim(w) \/ WorkRead(w) \/ MarkResumed(w)
      PROVE  CompletedMeansAll'
  <2>1. wk[w].pc \in HasRun
    BY <1>5, ControlPoints DEF Claim, WorkRead, MarkResumed, At
  <2>2. R(w) \in Runs  BY <2>1, WorkerKnows
  <2>. DEFINE row == run[R(w)]
  <2>. row \in RunRow  BY <2>2
  <2>5. /\ \A o : [row EXCEPT !.owner = o, !.lapsed = FALSE].status = row.status
        /\ [row EXCEPT !.resumed = TRUE].status = row.status
    BY DEF RunRow
  <2>6. \/ UNCHANGED run
        \/ \E o : run' = [run EXCEPT ![R(w)] = [row EXCEPT !.owner = o, !.lapsed = FALSE]]
        \/ run' = [run EXCEPT ![R(w)] = [row EXCEPT !.resumed = TRUE]]
    BY <1>5, <2>2 DEF Claim, WorkRead, MarkResumed
  <2>3. \A q \in Runs : run'[q].status = run[q].status
    BY <2>2, <2>5, <2>6
  <2>4. UNCHANGED step  BY <1>5 DEF Claim, WorkRead, MarkResumed
  <2>. QED  BY <2>3, <2>4, CompletedKept
<1>6. ASSUME NEW w \in Workers, MarkStarted(w)  PROVE CompletedMeansAll'
  <2>1. R(w) \in Runs  BY <1>6, WorkerKnows, ControlPoints DEF MarkStarted, At
  <2>2. run'[R(w)].status = "running" /\ \A q \in Runs \ {R(w)} : run'[q] = run[q]
    BY <1>6, <2>1 DEF MarkStarted, RunRow
  <2>. QED  BY <1>6, <2>1, <2>2, CompletedReopened DEF MarkStarted
<1>7. ASSUME NEW w \in Workers, ScheduleTimer(w) \/ FailCommit(w)
      PROVE  CompletedMeansAll'
  <2>1. R(w) \in Runs
    BY <1>7, WorkerKnows, ControlPoints DEF ScheduleTimer, FailCommit, At
  <2>2. /\ run'[R(w)].status \in {"waiting_timer", "waiting_retry", "failed"}
        /\ \A q \in Runs \ {R(w)} : run'[q] = run[q]
    BY <1>7, <2>1, UnleasedRow DEF ScheduleTimer, FailCommit
  <2>3. \A q \in Runs \ {R(w)} : step'[q] = step[q]
    BY <1>7, <2>1 DEF ScheduleTimer, FailCommit
  <2>. QED  BY <2>1, <2>2, <2>3, CompletedReopened
<1>8. ASSUME NEW w \in Workers, NEW a \in Approvals, RequestApproval(w, a)
      PROVE  CompletedMeansAll'
  <2>1. R(w) \in Runs  BY <1>8, WorkerKnows, ControlPoints DEF RequestApproval, At
  <2>2. run'[R(w)].status = "waiting_approval" /\ \A q \in Runs \ {R(w)} : run'[q] = run[q]
    BY <1>8, <2>1, UnleasedRow DEF RequestApproval
  <2>3. \A q \in Runs \ {R(w)} : step'[q] = step[q]  BY <1>8, <2>1 DEF RequestApproval
  <2>. QED  BY <2>1, <2>2, <2>3, CompletedReopened
<1>9. ASSUME NEW w \in Workers, CompleteWait(w) \/ LookupEffect(w) \/ HandlerReturns(w)
      PROVE  CompletedMeansAll'
  <2>1. R(w) \in Runs /\ I(w) \in Steps
    BY <1>9, WorkerKnows, ControlPoints DEF CompleteWait, LookupEffect, HandlerReturns, At
  <2>2. \/ UNCHANGED <<run, step>>
        \/ \E o : CompleteStep(w, R(w), I(w), o)
    BY <1>9 DEF CompleteWait, LookupEffect, HandlerReturns
  <2>. QED  BY <1>1, <2>1, <2>2, CompleteStepCompleted
<1>10. ASSUME NEW w \in Workers, BeginAttempt(w)  PROVE CompletedMeansAll'
  <2>1. R(w) \in Runs  BY <1>10, WorkerKnows, ControlPoints DEF BeginAttempt, At
  <2>2. CASE ~Holds(w, R(w))  BY <1>1, <1>10, <2>2 DEF BeginAttempt
  <2>3. CASE Holds(w, R(w))
    <3>1. run'[R(w)].status = "running" /\ \A q \in Runs \ {R(w)} : run'[q] = run[q]
      BY <1>10, <2>1, <2>3 DEF BeginAttempt, RunRow
    <3>2. \A q \in Runs \ {R(w)} : step'[q] = step[q]  BY <1>10, <2>1, <2>3 DEF BeginAttempt
    <3>. QED  BY <2>1, <3>1, <3>2, CompletedReopened
  <2>. QED  BY <2>2, <2>3
<1>11. ASSUME NEW w \in Workers, NEW a \in Approvals, ExpireOne(w, a)
       PROVE  CompletedMeansAll'
  BY <1>1, <1>11, ExpireApprovalCompleted DEF ExpireOne
<1>12. ASSUME NEW r \in Runs, NEW i \in Steps, TimerDue(r, i)  PROVE CompletedMeansAll'
  <2>1. step[r][i] \in StepRow  OBVIOUS
  <2>2. [step[r][i] EXCEPT !.due = TRUE].status = step[r][i].status  BY <2>1 DEF StepRow
  <2>3. \A q \in Runs, j \in Steps : step'[q][j].status = step[q][j].status
    BY <1>12, <2>2 DEF TimerDue
  <2>. QED  BY <1>12, <2>3, CompletedKept DEF TimerDue
<1>13. ASSUME NEW r \in Runs, LeaseLapse(r) \/ LeaseOverrun(r)  PROVE CompletedMeansAll'
  <2>1. \A q \in Runs : run'[q].status = run[q].status
    BY <1>13 DEF LeaseLapse, LeaseOverrun, RunRow
  <2>. QED  BY <1>13, <2>1, CompletedKept DEF LeaseLapse, LeaseOverrun
<1>14. ASSUME NEW w \in Workers, Tick(w) \/ Handler(w)  PROVE CompletedMeansAll'
  <2>1. CASE TickBegin(w) \/ Scan(w) \/ ScanDone(w) \/ \E r \in Runs : TryRow(w, r)
    BY <1>1, <2>1 DEF TickBegin, Scan, ScanDone, TryRow, tables
  <2>2. CASE \/ EffectBegin(w) \/ EffectCommit(w) \/ Timeout(w)
             \/ \E b \in BOOLEAN : HandlerThrows(w, b)
    BY <1>1, <2>2 DEF EffectBegin, EffectCommit, Timeout, HandlerThrows, tables
  <2>. QED
    BY <1>5, <1>6, <1>7, <1>8, <1>9, <1>10, <1>11, <1>14, <2>1, <2>2 DEF Tick, Handler
<1>15. CASE \/ \E z \in zombie : ZombieReturns(z)
            \/ \E p \in Procs : Crash(p)
            \/ \E a \in Approvals : ApprovalDue(a)
            \/ UNCHANGED vars
  BY <1>1, <1>15 DEF ZombieReturns, Crash, ApprovalDue, vars, tables
<1>. QED  BY <1>2, <1>3, <1>4, <1>12, <1>13, <1>14, <1>15 DEF Next, Client, Deadline

\* A run is reported completed only while all its steps are, in every
\* deployment: the unfenced transactions (handleTimer, handleApproval,
\* handleFailure, the first claim) of stale workers always move the run too.
THEOREM CompletedCorrect == Spec => []CompletedMeansAll
<1>1. Init => CompletedMeansAll
  BY DEF Init, CompletedMeansAll
<1>2. TypeOK /\ CompletedMeansAll /\ [Next]_vars => CompletedMeansAll'
  BY NextCompleted
<1>. QED  BY <1>1, <1>2, TypeCorrect, PTL DEF Spec

-----------------------------------------------------------------------------
(* The fence and the effects table.

   Worker ids tell workers apart in a deployment with DistinctIds, effect
   keys tell steps apart in one with DistinctKeys.  A worker that finds its
   own id in lease_owner has then held the lease since it read the step, so
   that what it remembers of the step is what the table says; and an effect
   that is missing when execute() starts is missing when it returns.

   One transaction ends a run and leaves lease_owner in place: the rejection
   of an approval.  The owner's next attempt is then not counted, and a third
   worker that still has run.started to write brings the run back, so that
   the owner completes its step with an attempt the table has not seen.  What
   is said of attempts is therefore said of definitions with NoApprovals.   *)

DistinctIds == \A v, w \in Workers : IdOf[v] = IdOf[w] => v = w

DistinctKeys ==
    \A q, r \in Runs : \A i, j \in Steps :
       KeyOf[q][i] = KeyOf[r][j] => q = r /\ i = j

NoApprovals == \A i \in Steps : Kind[i] # "approval"

\* What a worker remembers: an output only inside the handler, and what it
\* will do with its step as the kind of the step says.
Prepared(w) ==
    /\ wk[w].out # None => wk[w].pc \in {"handler", "failing"}
    /\ wk[w].pc \in {"start", "resume"} =>
          wk[w].then \in {"complete", "schedule", "request", "lookup"}
    /\ wk[w].pc = "complete" \/ (wk[w].pc \in {"start", "resume"} /\ wk[w].then = "complete") =>
          Kind[wk[w].step] # "activity"

\* The output that effect() gave a handler is that of a record of its operation.
Backed(w) ==
    wk[w].pc = "handler" /\ wk[w].out # None =>
       /\ effect[Key(w)] # None
       /\ effect[Key(w)].fp = Fp(w)
       /\ DistinctIds /\ DistinctKeys => wk[w].out = effect[Key(w)].by

\* The worker whose id is in lease_owner is up to date.
UpToDate(w) ==
    DistinctIds /\ wk[w].pc \in HasStep /\ run[R(w)].owner = IdOf[w] =>
       /\ NoApprovals => step[R(w)][I(w)].attempt = wk[w].attempt
       /\ DistinctKeys /\ wk[w].pc = "effect" => effect[Key(w)] = None

WorkerInv(w) == Prepared(w) /\ Backed(w) /\ UpToDate(w)

\* What a completed step rests on.
CompletionInv(r, i) ==
    step[r][i].status = "completed" =>
       /\ i \in Idempotent =>
             /\ effect[KeyOf[r][i]] # None
             /\ effect[KeyOf[r][i]].fp = Fingerprint[r][i]
             /\ DistinctIds /\ DistinctKeys => step[r][i].out = effect[KeyOf[r][i]].by
       /\ DistinctIds /\ NoApprovals /\ Kind[i] = "activity" /\ i \notin Idempotent =>
             step[r][i].out = [run |-> r, step |-> i, attempt |-> step[r][i].attempt]

FenceInv ==
    /\ TypeOK
    /\ \A w \in Workers : WorkerInv(w)
    /\ \A r \in Runs, i \in Steps : CompletionInv(r, i)
    /\ \A z \in zombie : z.aborted

\* What a step does not do to the tables: give a lease, count an attempt,
\* complete a step or change what a completed one says.
OwnersKept == \A q \in Runs : run'[q].owner \in {run[q].owner, None}
AttemptsKept == \A q \in Runs, i \in Steps : step'[q][i].attempt = step[q][i].attempt
CompletionsKept ==
    \A q \in Runs, i \in Steps :
       step'[q][i].status = "completed" => step'[q][i] = step[q][i]
EffectsKept == \A k \in EffectKeys : effect[k] # None => effect'[k] = effect[k]

\* Nothing that worker v relies on has changed.
Untouched(v) ==
    DistinctIds /\ wk[v].pc \in HasStep /\ run'[R(v)].owner = IdOf[v] =>
       /\ run[R(v)].owner = IdOf[v]
       /\ NoApprovals => step'[R(v)][I(v)].attempt = step[R(v)][I(v)].attempt
       /\ DistinctKeys /\ wk[v].pc = "effect" => effect'[Key(v)] = effect[Key(v)]

\* Worker v is where it was, but for its signal.
Stays(v) ==
    /\ wk'[v].pc = wk[v].pc /\ wk'[v].run = wk[v].run /\ wk'[v].step = wk[v].step
    /\ wk'[v].then = wk[v].then /\ wk'[v].attempt = wk[v].attempt
    /\ wk'[v].out = wk[v].out

LEMMA KeyKnown ==
    ASSUME TypeOK, NEW v \in Workers, wk[v].pc \in HasStep
    PROVE  Key(v) \in EffectKeys
BY WorkerKnows DEF Key, EffectKeys

LEMMA WorkerKept ==
    ASSUME TypeOK, NEW v \in Workers, WorkerInv(v), Stays(v), EffectsKept, Untouched(v)
    PROVE  WorkerInv(v)'
<1>1. R(v)' = R(v) /\ I(v)' = I(v) /\ Key(v)' = Key(v) /\ Fp(v)' = Fp(v)
  BY DEF Stays, R, I, Key, Fp
<1>2. Prepared(v)'  BY DEF WorkerInv, Prepared, Stays
<1>3. Backed(v)'
  <2>. SUFFICES ASSUME wk'[v].pc = "handler", wk'[v].out # None PROVE Backed(v)'
    BY DEF Backed
  <2>1. Key(v) \in EffectKeys  BY KeyKnown, ControlPoints DEF Stays
  <2>2. effect[Key(v)] # None  BY DEF WorkerInv, Backed, Stays
  <2>. QED  BY <1>1, <2>1, <2>2 DEF WorkerInv, Backed, Stays, EffectsKept
<1>4. UpToDate(v)'  BY <1>1 DEF WorkerInv, UpToDate, Stays, Untouched
<1>. QED  BY <1>2, <1>3, <1>4 DEF WorkerInv

\* A worker without a step has nothing to keep.
LEMMA WorkerFree ==
    ASSUME NEW v, wk'[v].pc \notin HasStep, wk'[v].out = None
    PROVE  WorkerInv(v)'
BY ControlPoints DEF WorkerInv, Prepared, Backed, UpToDate

LEMMA QuietTables ==
    ASSUME TypeOK, NEW v \in Workers, OwnersKept, AttemptsKept, UNCHANGED effect
    PROVE  Untouched(v) /\ EffectsKept
<1>1. IdOf[v] # None  BY NoneIsNoValue DEF Ids
<1>. QED  BY <1>1, WorkerKnows DEF Untouched, OwnersKept, AttemptsKept, EffectsKept

LEMMA CompletionsStand ==
    ASSUME TypeOK, FenceInv, CompletionsKept, EffectsKept,
           NEW r \in Runs, NEW i \in Steps
    PROVE  CompletionInv(r, i)'
<1>1. CASE step'[r][i].status # "completed"  BY <1>1 DEF CompletionInv
<1>2. CASE step'[r][i].status = "completed"
  <2>1. step'[r][i] = step[r][i] /\ CompletionInv(r, i)
    BY <1>2 DEF CompletionsKept, FenceInv
  <2>2. KeyOf[r][i] \in EffectKeys  BY DEF EffectKeys
  <2>. QED  BY <1>2, <2>1, <2>2 DEF CompletionInv, EffectsKept
<1>. QED  BY <1>1, <1>2

\* A step that keeps the tables and moves one worker at most.
LEMMA QuietStep ==
    ASSUME FenceInv, TypeOK', OwnersKept, AttemptsKept, CompletionsKept,
           UNCHANGED effect, zombie' \subseteq zombie,
           \A v \in Workers : Stays(v) \/ WorkerInv(v)'
    PROVE  FenceInv'
<1>. TypeOK  BY DEF FenceInv
<1>1. \A v \in Workers : WorkerInv(v)'
  BY QuietTables, WorkerKept DEF FenceInv
<1>2. EffectsKept  BY DEF EffectsKept
<1>3. \A r \in Runs, i \in Steps : CompletionInv(r, i)'  BY <1>2, CompletionsStand
<1>. QED  BY <1>1, <1>3 DEF FenceInv

-----------------------------------------------------------------------------
(* What the transactions keep. *)

LEMMA UnleasedKept ==
    ASSUME TypeOK, NEW r \in Runs, NEW s, run' = Unleased(r, s)
    PROVE  OwnersKept
BY UnleasedRow DEF OwnersKept

LEMMA RunKept ==
    ASSUME TypeOK, NEW r \in Runs,
           \/ UNCHANGED run
           \/ \E s : run' = [run EXCEPT ![r].status = s]
           \/ run' = [run EXCEPT ![r].lapsed = TRUE]
           \/ run' = [run EXCEPT ![r].resumed = TRUE]
           \/ run' = [run EXCEPT ![r].owner = None, ![r].lapsed = FALSE]
    PROVE  OwnersKept
<1>1. run \in [Runs -> RunRow] /\ run[r] \in RunRow  BY DEF TypeOK
<1>2. /\ \A s : [run[r] EXCEPT !.status = s].owner = run[r].owner
      /\ [run[r] EXCEPT !.lapsed = TRUE].owner = run[r].owner
      /\ [run[r] EXCEPT !.resumed = TRUE].owner = run[r].owner
      /\ [run[r] EXCEPT !.owner = None, !.lapsed = FALSE].owner = None
  BY <1>1 DEF RunRow
<1>3. \A q \in Runs : q # r => run'[q] = run[q]  BY <1>1
<1>4. run'[r].owner \in {run[r].owner, None}  BY <1>1, <1>2
<1>. QED  BY <1>3, <1>4 DEF OwnersKept

\* A step is moved to another status than completed.
LEMMA StepMoved ==
    ASSUME TypeOK, NEW r \in Runs, NEW i \in Steps,
           NEW row, step' = [step EXCEPT ![r][i] = row],
           row.attempt = step[r][i].attempt, row.status # "completed"
    PROVE  AttemptsKept /\ CompletionsKept
BY DEF TypeOK, AttemptsKept, CompletionsKept

LEMMA StatusMoved ==
    ASSUME TypeOK, NEW r \in Runs, NEW i \in Steps, NEW s, s # "completed",
           \/ step' = [step EXCEPT ![r][i].status = s]
           \/ step' = [step EXCEPT ![r][i].status = s, ![r][i].due = FALSE]
           \/ \E a : step' = [step EXCEPT ![r][i].status = s, ![r][i].appr = a]
    PROVE  AttemptsKept /\ CompletionsKept
<1>1. step[r][i] \in StepRow /\ step \in [Runs -> [Steps -> StepRow]]  BY DEF TypeOK
<1>2. CASE step' = [step EXCEPT ![r][i].status = s]
  <2>. DEFINE row == [step[r][i] EXCEPT !.status = s]
  <2>1. row.attempt = step[r][i].attempt /\ row.status = s  BY <1>1 DEF StepRow
  <2>2. step' = [step EXCEPT ![r][i] = row]  BY <1>1, <1>2
  <2>. QED  BY <2>1, <2>2, StepMoved
<1>3. CASE step' = [step EXCEPT ![r][i].status = s, ![r][i].due = FALSE]
  <2>. DEFINE row == [step[r][i] EXCEPT !.status = s, !.due = FALSE]
  <2>1. row.attempt = step[r][i].attempt /\ row.status = s  BY <1>1 DEF StepRow
  <2>2. step' = [step EXCEPT ![r][i] = row]  BY <1>1, <1>3
  <2>. QED  BY <2>1, <2>2, StepMoved
<1>4. ASSUME NEW a, step' = [step EXCEPT ![r][i].status = s, ![r][i].appr = a]
      PROVE  AttemptsKept /\ CompletionsKept
  <2>. DEFINE row == [step[r][i] EXCEPT !.status = s, !.appr = a]
  <2>1. row.attempt = step[r][i].attempt /\ row.status = s  BY <1>1 DEF StepRow
  <2>2. step' = [step EXCEPT ![r][i] = row]  BY <1>1, <1>4
  <2>. QED  BY <2>1, <2>2, StepMoved
<1>. QED  BY <1>2, <1>3, <1>4

LEMMA ExpireKept ==
    ASSUME TypeOK, NEW a \in Approvals, approval[a].state = "pending", ExpireApproval(a)
    PROVE  OwnersKept /\ AttemptsKept /\ CompletionsKept
<1>1. approval[a] \in ApprovalRow  BY DEF TypeOK
<1>2. approval[a].run \in Runs /\ approval[a].step \in Steps  BY <1>1 DEF ApprovalRow
<1>. QED  BY <1>2, UnleasedKept, StatusMoved DEF ExpireApproval

-----------------------------------------------------------------------------
(* What the workers keep. *)

LEMMA OthersStay ==
    ASSUME TypeOK, NEW w \in Workers, NEW x, wk' = [wk EXCEPT ![w] = x]
    PROVE  wk'[w] = x /\ \A v \in Workers : v # w => wk'[v] = wk[v] /\ Stays(v)
BY DEF TypeOK, Stays

LEMMA AllStay == UNCHANGED wk => \A v \in Workers : Stays(v)
BY DEF Stays

\* A worker that is not inside a handler has no output.
LEMMA NoOutput ==
    ASSUME FenceInv, NEW w \in Workers, wk[w].pc \notin {"handler", "failing"}
    PROVE  wk[w].out = None
BY DEF FenceInv, WorkerInv, Prepared

LEMMA DoneFree ==
    ASSUME TypeOK, NEW w \in Workers, Done(w)
    PROVE  WorkerInv(w)' /\ \A v \in Workers : v # w => Stays(v)
<1>1. wk'[w] = IdleLocal /\ \A v \in Workers : v # w => Stays(v)
  BY OthersStay DEF Done
<1>2. IdleLocal.pc \notin HasStep /\ IdleLocal.out = None
  BY ControlPoints DEF IdleLocal
<1>. QED  BY <1>1, <1>2, WorkerFree

\* A worker that goes on with its step, its output as the new place wants it.
LEMMA WorkerMoves ==
    ASSUME FenceInv, NEW w \in Workers, wk[w].pc \in HasStep, NEW pc \in HasStep,
           Goto(w, pc), Untouched(w), wk[w].out = None,
           pc \notin {"start", "resume"}, pc = "complete" => Kind[I(w)] # "activity",
           pc = "effect" /\ DistinctKeys => effect'[Key(w)] = None
    PROVE  WorkerInv(w)' /\ \A v \in Workers : v # w => Stays(v)
<1>. TypeOK  BY DEF FenceInv
<1>1. wk[w] \in Local  BY WorkerKnows
<1>. DEFINE l == [wk[w] EXCEPT !.pc = pc]
<1>2. /\ l.pc = pc /\ l.run = wk[w].run /\ l.step = wk[w].step
      /\ l.attempt = wk[w].attempt /\ l.out = None
  BY <1>1 DEF Local
<1>3. wk'[w] = l /\ \A v \in Workers : v # w => Stays(v)  BY OthersStay DEF Goto
<1>. HIDE DEF l
<1>4. R(w)' = R(w) /\ I(w)' = I(w) /\ Key(w)' = Key(w)  BY <1>2, <1>3 DEF R, I, Key
<1>5. Prepared(w)'  BY <1>2, <1>3 DEF Prepared, I
<1>6. Backed(w)'  BY <1>2, <1>3 DEF Backed
<1>7. UpToDate(w)'
  BY <1>2, <1>3, <1>4 DEF FenceInv, WorkerInv, UpToDate, Untouched
<1>. QED  BY <1>3, <1>5, <1>6, <1>7 DEF WorkerInv

\* #handleFailure up to its transaction.
LEMMA FailMoves ==
    ASSUME FenceInv, NEW w \in Workers, wk[w].pc \in HasStep, NEW b, Fail(w, b),
           Untouched(w)
    PROVE  WorkerInv(w)' /\ \A v \in Workers : v # w => Stays(v)
<1>. TypeOK  BY DEF FenceInv
<1>1. CASE ~Holds(w, R(w))  BY <1>1, DoneFree DEF Fail, Leave
<1>2. CASE Holds(w, R(w))
  <2>1. wk[w] \in Local  BY WorkerKnows
  <2>. DEFINE c == b /\ wk[w].attempt < MaxAttempts[I(w)]
              l == [wk[w] EXCEPT !.pc = "failing", !.retry = c]
  <2>2. /\ l.pc = "failing" /\ l.run = wk[w].run /\ l.step = wk[w].step
        /\ l.attempt = wk[w].attempt
    BY <2>1 DEF Local
  <2>3. wk' = [wk EXCEPT ![w] = l]  BY <1>2, <2>1 DEF Fail, TypeOK
  <2>. HIDE DEF l
  <2>4. wk'[w] = l /\ \A v \in Workers : v # w => Stays(v)  BY <2>3, OthersStay
  <2>5. R(w)' = R(w) /\ I(w)' = I(w) /\ Key(w)' = Key(w)  BY <2>2, <2>4 DEF R, I, Key
  <2>6. Prepared(w)'  BY <2>2, <2>4 DEF Prepared
  <2>7. Backed(w)'  BY <2>2, <2>4 DEF Backed
  <2>8. UpToDate(w)'
    BY <2>2, <2>4, <2>5 DEF FenceInv, WorkerInv, UpToDate, Untouched
  <2>. QED  BY <2>4, <2>6, <2>7, <2>8 DEF WorkerInv
<1>. QED  BY <1>1, <1>2

-----------------------------------------------------------------------------
(* The actions. *)

USE DEF tables, others

LEMMA ClientFence ==
    ASSUME FenceInv, TypeOK', NEW p \in Procs, Client(p)
    PROVE  FenceInv'
<1>. TypeOK  BY DEF FenceInv
<1>. step \in [Runs -> [Steps -> StepRow]]  BY DEF TypeOK
<1>1. ASSUME NEW r \in Runs, Start(p, r)  PROVE FenceInv'
  <2>1. OwnersKept  BY <1>1, RunKept DEF Start
  <2>2. AttemptsKept /\ CompletionsKept  BY <1>1 DEF Start, AttemptsKept, CompletionsKept
  <2>. QED  BY <1>1, <2>1, <2>2, AllStay, QuietStep DEF Start
<1>2. ASSUME NEW r \in Runs, Cancel(p, r)  PROVE FenceInv'
  <2>1. OwnersKept  BY <1>2, UnleasedKept DEF Cancel
  <2>2. AttemptsKept /\ CompletionsKept
    <3>1. \A i \in Steps : /\ step[r][i] \in StepRow
                           /\ step'[r][i] = IF step[r][i].status = "completed" THEN step[r][i]
                                            ELSE [step[r][i] EXCEPT !.status = "cancelled"]
      BY <1>2 DEF Cancel
    <3>2. \A i \in Steps : step'[r][i].attempt = step[r][i].attempt
                           /\ (step'[r][i].status = "completed" => step'[r][i] = step[r][i])
      BY <3>1 DEF StepRow
    <3>3. \A q \in Runs : q # r => step'[q] = step[q]  BY <1>2 DEF Cancel
    <3>. QED  BY <3>2, <3>3 DEF AttemptsKept, CompletionsKept
  <2>3. \A v \in Workers : Stays(v)
    <3>1. \A v \in Workers : wk[v] \in Local  BY DEF TypeOK
    <3>. QED  BY <1>2, <3>1 DEF Cancel, AbortActive, Stays, Local
  <2>. QED  BY <1>2, <2>1, <2>2, <2>3, QuietStep DEF Cancel
<1>3. ASSUME NEW a \in Approvals, NEW d \in {"approved", "rejected"}, Resolve(p, a, d)
      PROVE  FenceInv'
  <2>1. approval[a] \in ApprovalRow /\ approval[a].state = "pending"
    BY <1>3 DEF TypeOK, Resolve
  <2>2. approval[a].run \in Runs /\ approval[a].step \in Steps  BY <2>1 DEF ApprovalRow
  <2>3. OwnersKept /\ AttemptsKept /\ CompletionsKept
    <3>1. CASE ExpireApproval(a)  BY <2>1, <3>1, ExpireKept
    <3>2. CASE /\ step' = [step EXCEPT ![approval[a].run][approval[a].step].status =
                                         "approval_resolved"]
               /\ run' = Unleased(approval[a].run, "running")
      BY <2>2, <3>2, UnleasedKept, StatusMoved
    <3>3. CASE /\ step' = [step EXCEPT ![approval[a].run][approval[a].step].status = "failed"]
               /\ run' = [run EXCEPT ![approval[a].run].status = "failed"]
      BY <2>2, <3>3, RunKept, StatusMoved
    <3>. QED  BY <1>3, <3>1, <3>2, <3>3 DEF Resolve
  <2>. QED  BY <1>3, <2>3, AllStay, QuietStep DEF Resolve
<1>. QED  BY <1>1, <1>2, <1>3 DEF Client

LEMMA EnvironmentFence ==
    ASSUME FenceInv, TypeOK',
           \/ \E z \in zombie : ZombieReturns(z)
           \/ \E p \in Procs : Crash(p)
           \/ Deadline
           \/ \E r \in Runs : LeaseOverrun(r)
    PROVE  FenceInv'
<1>. TypeOK  BY DEF FenceInv
<1>0. ASSUME UNCHANGED step  PROVE AttemptsKept /\ CompletionsKept
  BY <1>0 DEF AttemptsKept, CompletionsKept
<1>00. ASSUME UNCHANGED run  PROVE OwnersKept  BY <1>00 DEF OwnersKept
\* An invocation that timed out finds its signal aborted.
<1>1. ASSUME NEW z \in zombie, ZombieReturns(z)  PROVE FenceInv'
  <2>1. ~ActiveStep(z.worker, z.run, z.step, z.aborted)  BY DEF FenceInv, ActiveStep
  <2>2. UNCHANGED effect  BY <1>1, <2>1 DEF ZombieReturns
  <2>. QED  BY <1>0, <1>00, <1>1, <2>2, AllStay, QuietStep DEF ZombieReturns
<1>2. ASSUME NEW p \in Procs, Crash(p)  PROVE FenceInv'
  <2>1. \A v \in Workers : Stays(v) \/ WorkerInv(v)'
    <3>1. IdleLocal.pc \notin HasStep /\ IdleLocal.out = None
      BY ControlPoints DEF IdleLocal
    <3>2. \A v \in Workers : wk'[v] = wk[v] \/ wk'[v] = IdleLocal  BY <1>2 DEF Crash
    <3>. QED  BY <3>1, <3>2, WorkerFree DEF Stays
  <2>2. zombie' \subseteq zombie  BY <1>2 DEF Crash
  <2>. QED  BY <1>0, <1>00, <1>2, <2>1, <2>2, QuietStep DEF Crash
<1>3. ASSUME NEW r \in Runs, LeaseLapse(r) \/ LeaseOverrun(r)  PROVE FenceInv'
  <2>1. OwnersKept  BY <1>3, RunKept DEF LeaseLapse, LeaseOverrun
  <2>. QED  BY <1>0, <1>3, <2>1, AllStay, QuietStep DEF LeaseLapse, LeaseOverrun
<1>4. ASSUME NEW r \in Runs, NEW i \in Steps, TimerDue(r, i)  PROVE FenceInv'
  <2>1. step[r][i] \in StepRow /\ step \in [Runs -> [Steps -> StepRow]]  BY DEF TypeOK
  <2>. DEFINE row == [step[r][i] EXCEPT !.due = TRUE]
  <2>2. row.attempt = step[r][i].attempt /\ row.status = step[r][i].status
    BY <2>1 DEF StepRow
  <2>3. step' = [step EXCEPT ![r][i] = row]  BY <1>4, <2>1 DEF TimerDue
  <2>4. row.status # "completed"  BY <1>4, <2>2 DEF TimerDue
  <2>5. AttemptsKept /\ CompletionsKept  BY <2>2, <2>3, <2>4, StepMoved
  <2>. QED  BY <1>00, <1>4, <2>5, AllStay, QuietStep DEF TimerDue
<1>5. ASSUME NEW a \in Approvals, ApprovalDue(a)  PROVE FenceInv'
  BY <1>0, <1>00, <1>5, AllStay, QuietStep DEF ApprovalDue
<1>. QED  BY <1>1, <1>2, <1>3, <1>4, <1>5 DEF Deadline

\* The part of a tick that finds a run.
LEMMA FindingFence ==
    ASSUME FenceInv, TypeOK', NEW w \in Workers,
           \/ TickBegin(w) \/ Scan(w) \/ ScanDone(w)
           \/ \E a \in Approvals : ExpireOne(w, a)
           \/ \E r \in Runs : TryRow(w, r)
    PROVE  FenceInv'
<1>. TypeOK  BY DEF FenceInv
<1>1. wk[w] \in Local /\ wk \in [Workers -> Local]  BY DEF TypeOK
<1>2. wk[w].out = None
  BY NoOutput DEF TickBegin, Scan, ScanDone, ExpireOne, TryRow, At
<1>3. /\ \A v \in Workers : v # w => Stays(v)
      /\ wk'[w].pc \in {"idle", "expire", "pick", "cas"} /\ wk'[w].out = None
  <2>1. CASE TickBegin(w) \/ Scan(w)
    BY <1>1, <1>2, <2>1 DEF TickBegin, Scan, Stays, Local
  <2>2. CASE ScanDone(w)  BY <1>1, <2>2 DEF ScanDone, Done, Stays, IdleLocal
  <2>3. CASE \E a \in Approvals : ExpireOne(w, a)
    BY <1>1, <1>2, <2>3 DEF ExpireOne, At, Stays, Local
  <2>4. ASSUME NEW r \in Runs, TryRow(w, r)
        PROVE  /\ \A v \in Workers : v # w => Stays(v)
               /\ wk'[w].pc \in {"pick", "cas"} /\ wk'[w].out = None
    <3>1. wk[w].pc = "pick"  BY <2>4 DEF TryRow, At
    <3>. DEFINE a == [wk[w] EXCEPT !.rows = @ \ {r}]
                b == [wk[w] EXCEPT !.rows = @ \ {r}, !.run = r, !.pc = "cas"]
    <3>2. a.pc = "pick" /\ a.out = None /\ b.pc = "cas" /\ b.out = None
      BY <1>1, <1>2, <3>1 DEF Local
    <3>3. wk' = [wk EXCEPT ![w] = a] \/ wk' = [wk EXCEPT ![w] = b]
      BY <1>1, <2>4 DEF TryRow
    <3>. HIDE DEF a, b
    <3>. QED  BY <3>2, <3>3, OthersStay
  <2>. QED  BY <2>1, <2>2, <2>3, <2>4
<1>4. WorkerInv(w)'  BY <1>3, WorkerFree, ControlPoints
<1>5. OwnersKept /\ AttemptsKept /\ CompletionsKept
  <2>1. CASE UNCHANGED <<run, step>>
    BY <2>1 DEF OwnersKept, AttemptsKept, CompletionsKept
  <2>2. ASSUME NEW a \in Approvals, ExpireOne(w, a)
        PROVE  OwnersKept /\ AttemptsKept /\ CompletionsKept
    BY <2>1, <2>2, ExpireKept DEF ExpireOne
  <2>. QED  BY <2>1, <2>2 DEF TickBegin, Scan, ScanDone, TryRow
<1>6. UNCHANGED effect /\ zombie' \subseteq zombie
  BY DEF TickBegin, Scan, ScanDone, ExpireOne, TryRow
<1>. QED  BY <1>3, <1>4, <1>5, <1>6, QuietStep

\* The lease is given to a worker that has not read its step yet.
LEMMA ClaimFence ==
    ASSUME FenceInv, TypeOK', NEW w \in Workers, Claim(w)
    PROVE  FenceInv'
<1>. TypeOK  BY DEF FenceInv
<1>1. wk[w] \in Local /\ wk \in [Workers -> Local] /\ run \in [Runs -> RunRow]
  BY DEF TypeOK
<1>2. wk[w].out = None /\ R(w) \in Runs
  BY NoOutput, WorkerKnows, ControlPoints DEF Claim, At
<1>3. /\ \A v \in Workers : v # w => Stays(v)
      /\ wk'[w].pc \in {"work", "pick"} /\ wk'[w].out = None
  BY <1>1, <1>2 DEF Claim, Stays, Local
<1>4. WorkerInv(w)'  BY <1>3, WorkerFree, ControlPoints
<1>5. UNCHANGED <<step, effect, zombie>>  BY DEF Claim
<1>6. \A q \in Runs : run'[q].owner \in {run[q].owner, IdOf[w]}
  <2>1. run[R(w)] \in RunRow  BY <1>1, <1>2
  <2>2. [run[R(w)] EXCEPT !.owner = IdOf[w], !.lapsed = FALSE].owner = IdOf[w]
    BY <2>1 DEF RunRow
  <2>. QED  BY <1>1, <1>2, <2>2 DEF Claim
<1>7. ASSUME NEW v \in Workers, v # w  PROVE Untouched(v)
  BY <1>5, <1>6, <1>7, WorkerKnows DEF Untouched, DistinctIds
<1>8. EffectsKept /\ CompletionsKept  BY <1>5 DEF EffectsKept, CompletionsKept
<1>9. \A v \in Workers : WorkerInv(v)'
  BY <1>3, <1>4, <1>7, <1>8, WorkerKept DEF FenceInv
<1>10. \A r \in Runs, i \in Steps : CompletionInv(r, i)'  BY <1>8, CompletionsStand
<1>. QED  BY <1>5, <1>9, <1>10 DEF FenceInv

\* Without approval steps no approval is ever asked for, and a run that has
\* ended has no owner.
NoRequest == \A w \in Workers : wk[w].pc # "request" /\ wk[w].then # "request"
EndedUnowned == \A r \in Runs : run[r].status \in Terminal => run[r].owner = None
Unasked ==
    NoApprovals =>
       (\A a \in Approvals : approval[a].state = "none") /\ NoRequest /\ EndedUnowned

LEMMA HandlingKinds ==
    ASSUME NEW r \in Runs, NEW i \in Steps
    PROVE  /\ Handling(r, i) \in {"complete", "schedule", "request", "lookup"}
           /\ Handling(r, i) = "complete" => Kind[i] # "activity"
           /\ Handling(r, i) = "request" => Kind[i] = "approval"
BY DEF Handling

\* The reads of #workClaim: what the worker remembers is what it has read.
LEMMA WorkReadFence ==
    ASSUME FenceInv, TypeOK', NEW w \in Workers, WorkRead(w)
    PROVE  FenceInv'
<1>. TypeOK  BY DEF FenceInv
<1>1. wk[w] \in Local /\ wk \in [Workers -> Local]  BY DEF TypeOK
<1>2. wk[w].out = None /\ R(w) \in Runs
  BY NoOutput, WorkerKnows, ControlPoints DEF WorkRead, At
<1>3. AttemptsKept /\ CompletionsKept  BY DEF WorkRead, AttemptsKept, CompletionsKept
<1>4. OwnersKept  BY <1>2, RunKept DEF WorkRead
<1>5. \A v \in Workers : Stays(v) \/ WorkerInv(v)'
  <2>1. CASE Done(w)  BY <2>1, DoneFree
  <2>2. ASSUME NEW i \in NextRunnableStep(R(w)),
               NEW pc \in {"start", "resume", Handling(R(w), i)},
               wk' = [wk EXCEPT ![w].step = i,
                        ![w].attempt = step[R(w)][i].attempt,
                        ![w].appr = step[R(w)][i].appr,
                        ![w].then = Handling(R(w), i),
                        ![w].pc = pc]
        PROVE  \A v \in Workers : Stays(v) \/ WorkerInv(v)'
    <3>0. i \in Steps  BY DEF NextRunnableStep, Open
    <3>. DEFINE h == Handling(R(w), i)
                l == [wk[w] EXCEPT !.step = i, !.attempt = step[R(w)][i].attempt,
                        !.appr = step[R(w)][i].appr, !.then = h, !.pc = pc]
    <3>1. /\ h \in {"complete", "schedule", "request", "lookup"}
          /\ h = "complete" => Kind[i] # "activity"
      BY <1>2, <3>0, HandlingKinds
    <3>2. /\ l.pc = pc /\ l.run = wk[w].run /\ l.step = i /\ l.then = h
          /\ l.attempt = step[R(w)][i].attempt /\ l.out = None
      BY <1>1, <1>2 DEF Local
    <3>3. wk' = [wk EXCEPT ![w] = l]  BY <1>1, <2>2
    <3>. HIDE DEF h, l
    <3>4. pc \in {"start", "resume", h}  BY DEF h
    <3>5. wk'[w] = l /\ \A v \in Workers : v # w => Stays(v)  BY <3>3, OthersStay
    <3>6. Prepared(w)'  BY <3>1, <3>2, <3>4, <3>5 DEF Prepared
    <3>7. Backed(w)'  BY <3>2, <3>5 DEF Backed
    <3>8. UpToDate(w)'
      <4>1. UNCHANGED step  BY DEF WorkRead
      <4>. QED  BY <3>1, <3>2, <3>4, <3>5, <4>1 DEF UpToDate, R, I
    <3>. QED  BY <3>5, <3>6, <3>7, <3>8 DEF WorkerInv
  <2>. QED  BY <2>1, <2>2 DEF WorkRead
<1>. QED  BY <1>3, <1>4, <1>5, QuietStep DEF WorkRead

\* run.started and run.resumed: the worker goes on with the step it has read.
LEMMA MarkFence ==
    ASSUME FenceInv, TypeOK', NEW w \in Workers, MarkStarted(w) \/ MarkResumed(w)
    PROVE  FenceInv'
<1>. TypeOK  BY DEF FenceInv
<1>1. wk[w].pc \in {"start", "resume"}  BY DEF MarkStarted, MarkResumed, At
<1>2. wk[w].out = None /\ R(w) \in Runs /\ wk[w].pc \in HasStep
  BY <1>1, NoOutput, WorkerKnows, ControlPoints
<1>3. AttemptsKept /\ CompletionsKept
  BY DEF MarkStarted, MarkResumed, AttemptsKept, CompletionsKept
<1>4. OwnersKept  BY <1>2, RunKept DEF MarkStarted, MarkResumed
<1>5. /\ wk[w].then \in {"complete", "schedule", "request", "lookup"}
      /\ wk[w].then = "complete" => Kind[I(w)] # "activity"
  BY <1>1 DEF FenceInv, WorkerInv, Prepared, I
<1>6. UNCHANGED effect  BY DEF MarkStarted, MarkResumed
<1>7. Untouched(w)  BY <1>3, <1>4, <1>6, QuietTables
<1>8. wk[w].then \in HasStep  BY <1>5, ControlPoints
<1>9. WorkerInv(w)' /\ \A v \in Workers : v # w => Stays(v)
  BY <1>2, <1>5, <1>7, <1>8, WorkerMoves DEF MarkStarted, MarkResumed
<1>. QED  BY <1>3, <1>4, <1>6, <1>9, QuietStep DEF MarkStarted, MarkResumed

\* The transactions that suspend or fail the step and give up the lease.
LEMMA SuspendFence ==
    ASSUME FenceInv, TypeOK', NEW w \in Workers,
           \/ ScheduleTimer(w) \/ FailCommit(w)
           \/ \E a \in Approvals : RequestApproval(w, a)
    PROVE  FenceInv'
<1>. TypeOK  BY DEF FenceInv
<1>1. wk[w].pc \in {"schedule", "failing", "request"}
  BY DEF ScheduleTimer, FailCommit, RequestApproval, At
<1>2. R(w) \in Runs /\ I(w) \in Steps  BY <1>1, WorkerKnows, ControlPoints
<1>3. OwnersKept  BY <1>2, UnleasedKept DEF ScheduleTimer, FailCommit, RequestApproval
<1>4. AttemptsKept /\ CompletionsKept
  <2>1. CASE ScheduleTimer(w)  BY <1>2, <2>1, StatusMoved DEF ScheduleTimer
  <2>2. CASE FailCommit(w)  BY <1>2, <2>2, StatusMoved DEF FailCommit
  <2>3. ASSUME NEW a \in Approvals, RequestApproval(w, a)
        PROVE  AttemptsKept /\ CompletionsKept
    <3>1. step' = [step EXCEPT ![R(w)][I(w)].status = "waiting_approval",
                               ![R(w)][I(w)].appr = a]
      BY <2>3 DEF RequestApproval
    <3>. QED  BY <1>2, <3>1, StatusMoved
  <2>. QED  BY <2>1, <2>2, <2>3
<1>5. WorkerInv(w)' /\ \A v \in Workers : v # w => Stays(v)
  BY DoneFree DEF ScheduleTimer, FailCommit, RequestApproval, Leave
<1>6. UNCHANGED effect /\ zombie' \subseteq zombie
  BY DEF ScheduleTimer, FailCommit, RequestApproval
<1>. QED  BY <1>3, <1>4, <1>5, <1>6, QuietStep

\* #completeStep with an output that the step may rest on.
LEMMA CompleteFence ==
    ASSUME FenceInv, TypeOK', NEW w \in Workers, wk[w].pc \in HasStep, NEW o,
           CompleteStep(w, R(w), I(w), o),
           Holds(w, R(w)) =>
              /\ I(w) \in Idempotent =>
                    /\ effect[Key(w)] # None
                    /\ effect[Key(w)].fp = Fp(w)
                    /\ DistinctIds /\ DistinctKeys => o = effect[Key(w)].by
              /\ DistinctIds /\ NoApprovals /\ Kind[I(w)] = "activity"
                 /\ I(w) \notin Idempotent =>
                    o = [run |-> R(w), step |-> I(w), attempt |-> step[R(w)][I(w)].attempt],
           WorkerInv(w)', \A v \in Workers : v # w => Stays(v),
           UNCHANGED <<effect, zombie>>
    PROVE  FenceInv'
<1>. TypeOK  BY DEF FenceInv
<1>1. PICK r \in Runs, i \in Steps : r = R(w) /\ i = I(w)  BY WorkerKnows
<1>2. step[r][i] \in StepRow /\ step \in [Runs -> [Steps -> StepRow]]  BY <1>1 DEF TypeOK
<1>3. CASE ~Holds(w, r)
  <2>1. UNCHANGED <<run, step>>  BY <1>1, <1>3 DEF CompleteStep
  <2>2. OwnersKept /\ AttemptsKept /\ CompletionsKept
    BY <2>1 DEF OwnersKept, AttemptsKept, CompletionsKept
  <2>. QED  BY <2>2, QuietStep
<1>4. CASE Holds(w, r)
  <2>1. OwnersKept  BY <1>1, <1>4, UnleasedKept DEF CompleteStep
  <2>. DEFINE row == [step[r][i] EXCEPT !.status = "completed", !.out = o]
  <2>2. row.attempt = step[r][i].attempt /\ row.out = o  BY <1>2 DEF StepRow
  <2>3. step' = [step EXCEPT ![r][i] = row]
    <3>1. step' = [step EXCEPT ![r][i].status = "completed", ![r][i].out = o]
      BY <1>1, <1>4 DEF CompleteStep
    <3>. QED  BY <1>2, <3>1
  <2>. HIDE DEF row
  <2>4. /\ step'[r][i] = row
        /\ \A q \in Runs, j \in Steps : q # r \/ j # i => step'[q][j] = step[q][j]
    BY <1>1, <1>2, <2>3
  <2>5. AttemptsKept  BY <2>2, <2>4 DEF AttemptsKept
  <2>6. \A v \in Workers : WorkerInv(v)'
    BY <2>1, <2>5, QuietTables, WorkerKept DEF FenceInv
  <2>7. CompletionInv(r, i)'
    <3>1. KeyOf[r][i] = Key(w) /\ Fingerprint[r][i] = Fp(w)  BY <1>1 DEF Key, Fp
    <3>. QED  BY <1>1, <1>4, <2>2, <2>4, <3>1 DEF CompletionInv
  <2>8. ASSUME NEW q \in Runs, NEW j \in Steps, q # r \/ j # i  PROVE CompletionInv(q, j)'
    BY <2>4, <2>8 DEF FenceInv, CompletionInv
  <2>. QED  BY <2>6, <2>7, <2>8 DEF FenceInv
<1>. QED  BY <1>3, <1>4

LEMMA CompleteWaitFence ==
    ASSUME FenceInv, TypeOK', NEW w \in Workers, CompleteWait(w)
    PROVE  FenceInv'
<1>. TypeOK  BY DEF FenceInv
<1>1. wk[w].pc = "complete" /\ wk[w].pc \in HasStep
  BY ControlPoints DEF CompleteWait, At
<1>2. I(w) \in Steps /\ Kind[I(w)] # "activity" /\ I(w) \notin Idempotent
  BY <1>1, WorkerKnows, ConstantTypes DEF FenceInv, WorkerInv, Prepared, I
<1>3. UNCHANGED <<effect, zombie>>  BY DEF CompleteWait
<1>4. CASE CompletionThrows(w, R(w), I(w))
  <2>1. Done(w) /\ UNCHANGED <<run, step>>  BY <1>4 DEF CompleteWait
  <2>2. OwnersKept /\ AttemptsKept /\ CompletionsKept
    BY <2>1 DEF OwnersKept, AttemptsKept, CompletionsKept
  <2>. QED  BY <1>3, <2>1, <2>2, DoneFree, QuietStep
<1>5. CASE ~CompletionThrows(w, R(w), I(w))
  <2>. DEFINE l == [IdleLocal EXCEPT !.pc = "rescan"]
  <2>1. wk' = [wk EXCEPT ![w] = l] \/ wk' = [wk EXCEPT ![w] = IdleLocal]
    BY <1>5 DEF CompleteWait
  <2>2. /\ l.pc \notin HasStep /\ l.out = None
        /\ IdleLocal.pc \notin HasStep /\ IdleLocal.out = None
    BY ControlPoints DEF IdleLocal
  <2>. HIDE DEF l
  <2>3. WorkerInv(w)' /\ \A v \in Workers : v # w => Stays(v)
    BY <2>1, <2>2, OthersStay, WorkerFree
  <2>4. CompleteStep(w, R(w), I(w), Own(w))  BY <1>5 DEF CompleteWait
  <2>. QED  BY <1>1, <1>2, <1>3, <2>3, <2>4, CompleteFence
<1>. QED  BY <1>4, <1>5

LEMMA LookupFence ==
    ASSUME FenceInv, TypeOK', NEW w \in Workers, LookupEffect(w)
    PROVE  FenceInv'
<1>. TypeOK  BY DEF FenceInv
<1>1. wk[w].pc = "lookup" /\ wk[w].pc \in HasStep  BY ControlPoints DEF LookupEffect, At
<1>2. wk[w].out = None  BY <1>1, NoOutput
<1>3. UNCHANGED <<effect, zombie>>  BY DEF LookupEffect
<1>4. ASSUME UNCHANGED <<run, step>>  PROVE OwnersKept /\ AttemptsKept /\ CompletionsKept
  BY <1>4 DEF OwnersKept, AttemptsKept, CompletionsKept
<1>5. CASE Done(w) /\ UNCHANGED <<run, step>>  BY <1>3, <1>4, <1>5, DoneFree, QuietStep
<1>6. CASE /\ I(w) \in Idempotent /\ effect[Key(w)] # None /\ ~Conflict(w)
           /\ Done(w) /\ CompleteStep(w, R(w), I(w), Recorded(w))
  <2>1. effect[Key(w)].fp = Fp(w)  BY <1>6 DEF Conflict
  <2>. QED  BY <1>1, <1>3, <1>6, <2>1, DoneFree, CompleteFence DEF Recorded
<1>7. CASE Goto(w, "begin") /\ UNCHANGED <<run, step>>
  <2>1. Untouched(w)  BY <1>3, <1>4, <1>7, QuietTables
  <2>2. "begin" \in HasStep  BY ControlPoints
  <2>3. WorkerInv(w)' /\ \A v \in Workers : v # w => Stays(v)
    BY <1>1, <1>2, <1>7, <2>1, <2>2, WorkerMoves
  <2>. QED  BY <1>3, <1>4, <1>7, <2>3, QuietStep
<1>. QED  BY <1>5, <1>6, <1>7 DEF LookupEffect

\* step.started: the attempt is counted in the table exactly when the worker
\* that counts it holds the lease.
LEMMA BeginFence ==
    ASSUME FenceInv, Unasked, TypeOK', NEW w \in Workers, BeginAttempt(w)
    PROVE  FenceInv'
<1>. TypeOK  BY DEF FenceInv
<1>1. wk[w].pc = "begin" /\ wk[w].pc \in HasStep  BY ControlPoints DEF BeginAttempt, At
<1>2. PICK r \in Runs, i \in Steps : r = R(w) /\ i = I(w)  BY <1>1, WorkerKnows
<1>3. step[r][i] \in StepRow /\ step \in [Runs -> [Steps -> StepRow]]  BY DEF TypeOK
<1>4. wk[w].out = None /\ wk[w] \in Local /\ wk \in [Workers -> Local]
  BY <1>1, NoOutput DEF TypeOK
<1>5. PICK n : n = wk[w].attempt + 1  OBVIOUS
<1>6. UNCHANGED <<effect, zombie>>  BY DEF BeginAttempt
<1>. DEFINE l == [wk[w] EXCEPT !.pc = "handler", !.attempt = n]
<1>7. /\ l.pc = "handler" /\ l.run = r /\ l.step = i /\ l.attempt = n /\ l.out = None
  BY <1>2, <1>4 DEF Local, R, I
<1>8. wk' = [wk EXCEPT ![w] = l]  BY <1>4, <1>5 DEF BeginAttempt
<1>. HIDE DEF l
<1>9. wk'[w] = l /\ \A v \in Workers : v # w => Stays(v)  BY <1>8, OthersStay
<1>10. OwnersKept /\ \A q \in Runs : run'[q].owner = run[q].owner
  <2>1. run \in [Runs -> RunRow] /\ run[r] \in RunRow  BY DEF TypeOK
  <2>2. UNCHANGED run \/ run' = [run EXCEPT ![r].status = "running"]
    BY <1>2 DEF BeginAttempt
  <2>3. [run[r] EXCEPT !.status = "running"].owner = run[r].owner  BY <2>1 DEF RunRow
  <2>4. \A q \in Runs : run'[q].owner = run[q].owner  BY <2>1, <2>2, <2>3
  <2>. QED  BY <2>4 DEF OwnersKept
<1>11. CASE ~Holds(w, r)
  <2>1. UNCHANGED step  BY <1>2, <1>11 DEF BeginAttempt
  <2>2. AttemptsKept /\ CompletionsKept  BY <2>1 DEF AttemptsKept, CompletionsKept
  <2>3. WorkerInv(w)'
    <3>1. Prepared(w)' /\ Backed(w)'  BY <1>7, <1>9 DEF Prepared, Backed
    <3>2. NoApprovals => run[r].owner # IdOf[w]
      <4>1. IdOf[w] # None  BY NoneIsNoValue DEF Ids
      <4>. QED  BY <1>11, <4>1 DEF Unasked, EndedUnowned, Holds
    <3>3. UpToDate(w)'  BY <1>7, <1>9, <1>10, <3>2 DEF UpToDate, R
    <3>. QED  BY <3>1, <3>3 DEF WorkerInv
  <2>. QED  BY <1>6, <1>9, <1>10, <2>2, <2>3, QuietStep
<1>12. CASE Holds(w, r)
  <2>. DEFINE row == [step[r][i] EXCEPT !.status = "running", !.attempt = n]
  <2>1. row.status = "running" /\ row.attempt = n  BY <1>3 DEF StepRow
  <2>2. step' = [step EXCEPT ![r][i] = row]
    <3>1. step' = [step EXCEPT ![r][i].status = "running", ![r][i].attempt = n]
      BY <1>2, <1>5, <1>12 DEF BeginAttempt
    <3>. QED  BY <1>3, <3>1
  <2>. HIDE DEF row
  <2>3. /\ step'[r][i] = row
        /\ \A q \in Runs, j \in Steps : q # r \/ j # i => step'[q][j] = step[q][j]
    BY <1>3, <2>2
  <2>4. CompletionsKept  BY <2>1, <2>3 DEF CompletionsKept
  <2>5. EffectsKept  BY <1>6 DEF EffectsKept
  <2>6. WorkerInv(w)'
    <3>1. Prepared(w)' /\ Backed(w)'  BY <1>7, <1>9 DEF Prepared, Backed
    <3>2. UpToDate(w)'  BY <1>7, <1>9, <2>1, <2>3 DEF UpToDate, R, I
    <3>. QED  BY <3>1, <3>2 DEF WorkerInv
  <2>7. ASSUME NEW v \in Workers, v # w  PROVE Untouched(v)
    <3>. SUFFICES ASSUME DistinctIds, wk[v].pc \in HasStep, run'[R(v)].owner = IdOf[v]
                  PROVE  /\ run[R(v)].owner = IdOf[v]
                         /\ step'[R(v)][I(v)].attempt = step[R(v)][I(v)].attempt
      BY <1>6 DEF Untouched
    <3>1. R(v) \in Runs /\ I(v) \in Steps  BY WorkerKnows
    <3>2. run[R(v)].owner = IdOf[v]  BY <1>10, <3>1
    <3>3. R(v) # r  BY <1>12, <2>7, <3>2 DEF Holds, DistinctIds
    <3>. QED  BY <2>3, <3>1, <3>2, <3>3
  <2>8. \A v \in Workers : WorkerInv(v)'
    BY <1>9, <2>5, <2>6, <2>7, WorkerKept DEF FenceInv
  <2>9. \A q \in Runs, j \in Steps : CompletionInv(q, j)'
    BY <2>4, <2>5, CompletionsStand
  <2>. QED  BY <1>6, <2>8, <2>9 DEF FenceInv
<1>. QED  BY <1>11, <1>12

\* A handler is given an output.
LEMMA OutputMoves ==
    ASSUME FenceInv, NEW w \in Workers, wk[w].pc \in {"handler", "effect"}, NEW o,
           \/ wk[w].pc = "handler" /\ wk' = [wk EXCEPT ![w].out = o]
           \/ wk' = [wk EXCEPT ![w].pc = "handler", ![w].out = o],
           UNCHANGED <<run, step>>,
           effect'[Key(w)] # None, effect'[Key(w)].fp = Fp(w),
           DistinctIds /\ DistinctKeys => o = effect'[Key(w)].by
    PROVE  WorkerInv(w)' /\ \A v \in Workers : v # w => Stays(v)
<1>. TypeOK  BY DEF FenceInv
<1>1. wk[w] \in Local /\ wk \in [Workers -> Local] /\ wk[w].pc \in HasStep
  BY ControlPoints DEF TypeOK
<1>. DEFINE l == [wk[w] EXCEPT !.pc = "handler", !.out = o]
<1>2. /\ l.pc = "handler" /\ l.run = wk[w].run /\ l.step = wk[w].step
      /\ l.attempt = wk[w].attempt /\ l.out = o
  BY <1>1 DEF Local
<1>3. wk' = [wk EXCEPT ![w] = l]
  <2>1. CASE wk[w].pc = "handler" /\ wk' = [wk EXCEPT ![w].out = o]
    <3>1. [wk[w] EXCEPT !.out = o] = l  BY <1>1, <2>1 DEF Local
    <3>. HIDE DEF l
    <3>. QED  BY <1>1, <2>1, <3>1
  <2>2. CASE wk' = [wk EXCEPT ![w].pc = "handler", ![w].out = o]  BY <1>1, <2>2
  <2>. QED  BY <2>1, <2>2
<1>. HIDE DEF l
<1>4. wk'[w] = l /\ \A v \in Workers : v # w => Stays(v)  BY <1>3, OthersStay
<1>5. R(w)' = R(w) /\ I(w)' = I(w) /\ Key(w)' = Key(w) /\ Fp(w)' = Fp(w)
  BY <1>2, <1>4 DEF R, I, Key, Fp
<1>6. Prepared(w)'  BY <1>2, <1>4 DEF Prepared
<1>7. Backed(w)'  BY <1>2, <1>4, <1>5 DEF Backed
<1>8. UpToDate(w)'
  BY <1>1, <1>2, <1>4, <1>5 DEF FenceInv, WorkerInv, UpToDate, Untouched
<1>. QED  BY <1>4, <1>6, <1>7, <1>8 DEF WorkerInv

\* What a handler does before effect() has returned, and how it rejects.
LEMMA HandlerFence ==
    ASSUME FenceInv, TypeOK', NEW w \in Workers,
           EffectBegin(w) \/ \E b \in BOOLEAN : HandlerThrows(w, b)
    PROVE  FenceInv'
<1>. TypeOK  BY DEF FenceInv
<1>1. wk[w].pc \in {"handler", "effect"} /\ wk[w].pc \in HasStep
  BY ControlPoints DEF EffectBegin, HandlerThrows, At
<1>2. UNCHANGED <<run, step, effect, zombie>>  BY DEF EffectBegin, HandlerThrows
<1>3. OwnersKept /\ AttemptsKept /\ CompletionsKept
  BY <1>2 DEF OwnersKept, AttemptsKept, CompletionsKept
<1>4. Untouched(w)  BY <1>2, <1>3, QuietTables
<1>5. WorkerInv(w)' /\ \A v \in Workers : v # w => Stays(v)
  <2>1. CASE Leave(w)  BY <2>1, DoneFree DEF Leave
  <2>2. ASSUME NEW b, Fail(w, b)
        PROVE  WorkerInv(w)' /\ \A v \in Workers : v # w => Stays(v)
    BY <1>1, <1>4, <2>2, FailMoves
  <2>3. CASE wk[w].out = None /\ effect[Key(w)] = None /\ Goto(w, "effect")
    <3>1. "effect" \in HasStep  BY ControlPoints
    <3>. QED  BY <1>1, <1>2, <1>4, <2>3, <3>1, WorkerMoves
  <2>4. CASE /\ effect[Key(w)] # None /\ ~Conflict(w)
             /\ wk[w].pc = "handler" /\ wk' = [wk EXCEPT ![w].out = Recorded(w)]
    <3>1. effect[Key(w)].fp = Fp(w)  BY <2>4 DEF Conflict
    <3>. QED  BY <1>1, <1>2, <1>4, <2>4, <3>1, OutputMoves DEF Recorded
  <2>. QED  BY <2>1, <2>2, <2>3, <2>4 DEF EffectBegin, HandlerThrows, At
<1>. QED  BY <1>2, <1>3, <1>5, QuietStep

\* The rest of #commitEffect: a worker whose lease and signal are in order
\* finds the key free, or recorded for its own operation.
LEMMA EffectFence ==
    ASSUME FenceInv, TypeOK', NEW w \in Workers, EffectCommit(w)
    PROVE  FenceInv'
<1>. TypeOK  BY DEF FenceInv
<1>1. wk[w].pc = "effect" /\ wk[w].pc \in HasStep  BY ControlPoints DEF EffectCommit, At
<1>2. UNCHANGED <<run, step, zombie>>  BY DEF EffectCommit
<1>3. OwnersKept /\ AttemptsKept /\ CompletionsKept
  BY <1>2 DEF OwnersKept, AttemptsKept, CompletionsKept
<1>4. CASE UNCHANGED effect /\ (Leave(w) \/ Fail(w, TRUE))
  <2>1. Untouched(w)  BY <1>3, <1>4, QuietTables
  <2>2. WorkerInv(w)' /\ \A v \in Workers : v # w => Stays(v)
    BY <1>1, <1>4, <2>1, DoneFree, FailMoves DEF Leave
  <2>. QED  BY <1>2, <1>3, <1>4, <2>2, QuietStep
<1>5. CASE /\ ActiveStep(w, R(w), I(w), wk[w].aborted) /\ ~Conflict(w)
           /\ wk' = [wk EXCEPT ![w].pc = "handler", ![w].out = Own(w)]
           /\ effect' = IF effect[Key(w)] # None THEN effect
                        ELSE [effect EXCEPT ![Key(w)] = [fp |-> Fp(w), by |-> Own(w)]]
  <2>1. Key(w) \in EffectKeys /\ R(w) \in Runs /\ I(w) \in Steps
    BY <1>1, KeyKnown, WorkerKnows
  <2>2. effect \in [EffectKeys -> EffectRow \cup {None}]
        /\ effect' \in [EffectKeys -> EffectRow \cup {None}]
    BY DEF TypeOK
  <2>3. \A k \in EffectKeys : k # Key(w) => effect'[k] = effect[k]  BY <1>5, <2>2
  <2>4. EffectsKept  BY <1>5, <2>1, <2>3 DEF EffectsKept
  <2>5. run[R(w)].owner = IdOf[w]  BY <1>5 DEF ActiveStep, Holds
  <2>6. DistinctIds /\ DistinctKeys => effect[Key(w)] = None
    BY <1>1, <2>5 DEF FenceInv, WorkerInv, UpToDate
  <2>7. /\ effect'[Key(w)] # None /\ effect'[Key(w)].fp = Fp(w)
        /\ effect[Key(w)] = None => effect'[Key(w)].by = Own(w)
    <3>1. CASE effect[Key(w)] # None  BY <1>5, <3>1 DEF Conflict
    <3>2. CASE effect[Key(w)] = None
      <4>. DEFINE e == [fp |-> Fp(w), by |-> Own(w)]
      <4>1. e.fp = Fp(w) /\ e.by = Own(w)  OBVIOUS
      <4>2. Own(w) \in Outputs /\ Fp(w) \in Fingerprints
        BY <2>1, WorkerKnows DEF Own, Outputs, Fp, Fingerprints, TypeOK, Local
      <4>3. e \in EffectRow  BY <4>2 DEF EffectRow
      <4>. HIDE DEF e
      <4>4. effect'[Key(w)] = e  BY <1>5, <2>1, <2>2, <3>2 DEF e
      <4>. QED  BY <4>1, <4>3, <4>4, NoneIsNoEffect
    <3>. QED  BY <3>1, <3>2
  <2>8. WorkerInv(w)' /\ \A v \in Workers : v # w => Stays(v)
    BY <1>1, <1>2, <1>5, <2>6, <2>7, OutputMoves
  <2>9. ASSUME NEW v \in Workers, v # w  PROVE Untouched(v)
    <3>. SUFFICES ASSUME DistinctIds, DistinctKeys, wk[v].pc \in HasStep,
                         run[R(v)].owner = IdOf[v]
                  PROVE  effect'[Key(v)] = effect[Key(v)]
      BY <1>2 DEF Untouched
    <3>1. Key(v) \in EffectKeys /\ R(v) \in Runs /\ I(v) \in Steps
      BY KeyKnown, WorkerKnows
    <3>2. R(v) # R(w)  BY <2>5, <2>9 DEF DistinctIds
    <3>3. Key(v) # Key(w)  BY <2>1, <3>1, <3>2 DEF DistinctKeys, Key
    <3>. QED  BY <2>3, <3>1, <3>3
  <2>10. \A v \in Workers : WorkerInv(v)'
    BY <2>4, <2>8, <2>9, WorkerKept DEF FenceInv
  <2>11. \A q \in Runs, j \in Steps : CompletionInv(q, j)'
    BY <1>3, <2>4, CompletionsStand
  <2>. QED  BY <1>2, <2>10, <2>11 DEF FenceInv
<1>. QED  BY <1>4, <1>5 DEF EffectCommit

LEMMA ReturnFence ==
    ASSUME FenceInv, TypeOK', NEW w \in Workers, HandlerReturns(w)
    PROVE  FenceInv'
<1>. TypeOK  BY DEF FenceInv
<1>1. wk[w].pc = "handler" /\ wk[w].pc \in HasStep
  BY ControlPoints DEF HandlerReturns, At
<1>2. UNCHANGED <<effect, zombie>>  BY DEF HandlerReturns
<1>3. CASE CompletionThrows(w, R(w), I(w))
  <2>1. Fail(w, TRUE) /\ UNCHANGED <<run, step>>  BY <1>3 DEF HandlerReturns
  <2>2. OwnersKept /\ AttemptsKept /\ CompletionsKept
    BY <2>1 DEF OwnersKept, AttemptsKept, CompletionsKept
  <2>3. Untouched(w)  BY <1>2, <2>2, QuietTables
  <2>. QED  BY <1>1, <1>2, <2>1, <2>2, <2>3, FailMoves, QuietStep
<1>4. CASE ~CompletionThrows(w, R(w), I(w))
  <2>. DEFINE o == IF I(w) \in Idempotent THEN wk[w].out ELSE Own(w)
  <2>1. CompleteStep(w, R(w), I(w), o) /\ Leave(w)  BY <1>4 DEF HandlerReturns
  <2>2. WorkerInv(w)' /\ \A v \in Workers : v # w => Stays(v)
    BY <2>1, DoneFree DEF Leave
  <2>3. WorkerInv(w)  BY DEF FenceInv
  <2>4. ASSUME I(w) \in Idempotent
        PROVE  /\ effect[Key(w)] # None
               /\ effect[Key(w)].fp = Fp(w)
               /\ DistinctIds /\ DistinctKeys => o = effect[Key(w)].by
    BY <1>1, <2>3, <2>4 DEF HandlerReturns, WorkerInv, Backed
  <2>5. ASSUME Holds(w, R(w)), DistinctIds, NoApprovals, I(w) \notin Idempotent
        PROVE  o = [run |-> R(w), step |-> I(w), attempt |-> step[R(w)][I(w)].attempt]
    BY <1>1, <2>3, <2>5 DEF WorkerInv, UpToDate, Holds, Own
  <2>. HIDE DEF o
  <2>. QED  BY <1>1, <1>2, <2>1, <2>2, <2>4, <2>5, CompleteFence
<1>. QED  BY <1>3, <1>4

LEMMA TimeoutFence ==
    ASSUME FenceInv, TypeOK', NEW w \in Workers, Timeout(w)
    PROVE  FenceInv'
<1>. TypeOK  BY DEF FenceInv
<1>1. wk[w].pc \in HasStep  BY ControlPoints DEF Timeout
<1>2. UNCHANGED <<run, step, effect>> /\ Fail(w, TRUE)  BY DEF Timeout
<1>3. OwnersKept /\ AttemptsKept /\ CompletionsKept
  BY <1>2 DEF OwnersKept, AttemptsKept, CompletionsKept
<1>4. EffectsKept /\ \A v \in Workers : Untouched(v)  BY <1>2, <1>3, QuietTables
<1>5. WorkerInv(w)' /\ \A v \in Workers : v # w => Stays(v)
  BY <1>1, <1>2, <1>4, FailMoves
<1>6. \A v \in Workers : WorkerInv(v)'  BY <1>4, <1>5, WorkerKept DEF FenceInv
<1>7. \A q \in Runs, j \in Steps : CompletionInv(q, j)'
  BY <1>3, <1>4, CompletionsStand
<1>8. \A z \in zombie' : z.aborted  BY DEF Timeout, FenceInv
<1>. QED  BY <1>6, <1>7, <1>8 DEF FenceInv
-----------------------------------------------------------------------------
(* Definitions without approval steps. *)

LEMMA UnaskedInit == Init => Unasked
BY DEF Init, Unasked, NoRequest, EndedUnowned, IdleLocal, Terminal

\* Every transaction but the rejection of an approval that ends a run, gives up
\* the lease.
LEMMA EndedKept ==
    ASSUME TypeOK, EndedUnowned, NEW r \in Runs,
           \/ UNCHANGED run
           \/ \E s : run' = Unleased(r, s)
           \/ \E s : s \notin Terminal /\ run' = [run EXCEPT ![r].status = s]
           \/ run' = [run EXCEPT ![r].lapsed = TRUE]
           \/ run' = [run EXCEPT ![r].resumed = TRUE]
           \/ run' = [run EXCEPT ![r].owner = None, ![r].lapsed = FALSE]
           \/ \E o : /\ run[r].status \notin Terminal
                     /\ run' = [run EXCEPT ![r].owner = o, ![r].lapsed = FALSE]
    PROVE  EndedUnowned'
<1>1. run \in [Runs -> RunRow] /\ run[r] \in RunRow  BY DEF TypeOK
<1>2. \A q \in Runs : q # r => run'[q] = run[q]  BY <1>1 DEF Unleased
<1>. SUFFICES ASSUME run'[r].status \in Terminal  PROVE run'[r].owner = None
  BY <1>2 DEF EndedUnowned
<1>3. CASE \E s : run' = Unleased(r, s)  BY <1>3, UnleasedRow
<1>4. CASE \E s : s \notin Terminal /\ run' = [run EXCEPT ![r].status = s]
  BY <1>1, <1>4 DEF RunRow
<1>5. CASE \/ UNCHANGED run
           \/ run' = [run EXCEPT ![r].lapsed = TRUE]
           \/ run' = [run EXCEPT ![r].resumed = TRUE]
  BY <1>1, <1>5 DEF RunRow, EndedUnowned
<1>6. CASE run' = [run EXCEPT ![r].owner = None, ![r].lapsed = FALSE]
  BY <1>1, <1>6 DEF RunRow
<1>7. CASE \E o : /\ run[r].status \notin Terminal
                  /\ run' = [run EXCEPT ![r].owner = o, ![r].lapsed = FALSE]
  BY <1>1, <1>7 DEF RunRow
<1>. QED  BY <1>3, <1>4, <1>5, <1>6, <1>7

LEMMA RequestKept ==
    ASSUME TypeOK, NoRequest, NEW w \in Workers, NEW l, wk' = [wk EXCEPT ![w] = l],
           l.pc # "request", l.then # "request"
    PROVE  NoRequest'
BY OthersStay DEF NoRequest

LEMMA RequestDone ==
    ASSUME TypeOK, NoRequest, NEW w \in Workers, Done(w)
    PROVE  NoRequest'
<1>1. IdleLocal.pc # "request" /\ IdleLocal.then # "request"  BY DEF IdleLocal
<1>. QED  BY <1>1, RequestKept DEF Done

LEMMA RequestFails ==
    ASSUME TypeOK, NoRequest, NEW w \in Workers, NEW b, Fail(w, b)
    PROVE  NoRequest'
<1>1. wk \in [Workers -> Local] /\ wk[w] \in Local  BY DEF TypeOK
<1>. DEFINE c == b /\ wk[w].attempt < MaxAttempts[I(w)]
            l == [wk[w] EXCEPT !.pc = "failing", !.retry = c]
<1>2. l.pc = "failing" /\ l.then = wk[w].then  BY <1>1 DEF Local
<1>3. Done(w) \/ wk' = [wk EXCEPT ![w] = l]  BY <1>1 DEF Fail, Leave
<1>. HIDE DEF l
<1>. QED  BY <1>2, <1>3, RequestDone, RequestKept DEF NoRequest

LEMMA RequestGoto ==
    ASSUME TypeOK, NoRequest, NEW w \in Workers, NEW pc, pc # "request", Goto(w, pc)
    PROVE  NoRequest'
<1>1. wk \in [Workers -> Local] /\ wk[w] \in Local  BY DEF TypeOK
<1>. DEFINE l == [wk[w] EXCEPT !.pc = pc]
<1>2. l.pc = pc /\ l.then = wk[w].then  BY <1>1 DEF Local
<1>3. wk' = [wk EXCEPT ![w] = l]  BY <1>1 DEF Goto
<1>. HIDE DEF l
<1>. QED  BY <1>2, <1>3, RequestKept DEF NoRequest

\* The part of a tick up to the handler.
LEMMA TickUnasked ==
    ASSUME TypeOK, NoRequest, EndedUnowned, NoApprovals,
           \A a \in Approvals : approval[a].state = "none",
           NEW w \in Workers, Tick(w)
    PROVE  UNCHANGED approval /\ NoRequest' /\ EndedUnowned'
<1>1. wk \in [Workers -> Local] /\ wk[w] \in Local /\ wk[w].then # "request"
  BY DEF TypeOK, NoRequest
<1>2. ASSUME UNCHANGED run  PROVE EndedUnowned'  BY <1>2 DEF EndedUnowned
<1>3. CASE TickBegin(w) \/ Scan(w) \/ \E a \in Approvals : ExpireOne(w, a)
  <2>1. UNCHANGED <<run, approval>>
    BY <1>3 DEF TickBegin, Scan, ExpireOne
  <2>2. PICK D, S : \/ wk' = [wk EXCEPT ![w].pc = "expire", ![w].due = D]
                    \/ wk' = [wk EXCEPT ![w].pc = "pick", ![w].rows = S]
                    \/ wk[w].pc = "expire" /\ wk' = [wk EXCEPT ![w].due = D]
    BY <1>3 DEF TickBegin, Scan, ExpireOne, At
  <2>3. \A v \in Workers : v # w => wk'[v] = wk[v]  BY <1>1, <2>2
  <2>4. wk'[w].pc \in {"expire", "pick"} /\ wk'[w].then = wk[w].then
    BY <1>1, <2>2 DEF Local
  <2>. QED  BY <1>1, <1>2, <2>1, <2>3, <2>4 DEF NoRequest
<1>4. ASSUME NEW r \in Runs, TryRow(w, r)
      PROVE  UNCHANGED approval /\ NoRequest' /\ EndedUnowned'
  <2>1. UNCHANGED <<run, approval>> /\ wk[w].pc = "pick"  BY <1>4 DEF TryRow, At
  <2>2. \/ wk' = [wk EXCEPT ![w].rows = @ \ {r}]
        \/ wk' = [wk EXCEPT ![w].rows = @ \ {r}, ![w].run = r, ![w].pc = "cas"]
    BY <1>4 DEF TryRow
  <2>3. \A v \in Workers : v # w => wk'[v] = wk[v]  BY <1>1, <2>2
  <2>4. wk'[w].pc \in {"pick", "cas"} /\ wk'[w].then = wk[w].then
    BY <1>1, <2>1, <2>2 DEF Local
  <2>. QED  BY <1>1, <1>2, <2>1, <2>3, <2>4 DEF NoRequest
<1>5. CASE ScanDone(w)  BY <1>2, <1>5, RequestDone DEF ScanDone
<1>6. CASE Claim(w)
  <2>1. UNCHANGED approval /\ R(w) \in Runs
    BY <1>6, WorkerKnows, ControlPoints DEF Claim, At
  <2>2. \/ wk' = [wk EXCEPT ![w].pc = "work", ![w].rows = {}]
        \/ wk' = [wk EXCEPT ![w].pc = "pick", ![w].run = None]
    BY <1>6 DEF Claim
  <2>3. \A v \in Workers : v # w => wk'[v] = wk[v]  BY <1>1, <2>2
  <2>4. wk'[w].pc \in {"work", "pick"} /\ wk'[w].then = wk[w].then
    BY <1>1, <2>2 DEF Local
  <2>5. EndedUnowned'  BY <1>6, <2>1, EndedKept DEF Claim
  <2>. QED  BY <1>1, <2>1, <2>3, <2>4, <2>5 DEF NoRequest
<1>7. CASE WorkRead(w)
  <2>1. UNCHANGED approval /\ R(w) \in Runs
    BY <1>7, WorkerKnows, ControlPoints DEF WorkRead, At
  <2>2. EndedUnowned'  BY <1>7, <2>1, EndedKept DEF WorkRead
  <2>3. CASE Done(w)  BY <2>1, <2>2, <2>3, RequestDone
  <2>4. ASSUME NEW i \in NextRunnableStep(R(w)),
               NEW pc \in {"start", "resume", Handling(R(w), i)},
               wk' = [wk EXCEPT ![w].step = i,
                        ![w].attempt = step[R(w)][i].attempt,
                        ![w].appr = step[R(w)][i].appr,
                        ![w].then = Handling(R(w), i),
                        ![w].pc = pc]
        PROVE  NoRequest'
    <3>0. i \in Steps  BY DEF NextRunnableStep, Open
    <3>. DEFINE h == Handling(R(w), i)
                l == [wk[w] EXCEPT !.step = i, !.attempt = step[R(w)][i].attempt,
                        !.appr = step[R(w)][i].appr, !.then = h, !.pc = pc]
    <3>1. h # "request"  BY <2>1, <3>0, HandlingKinds DEF NoApprovals
    <3>2. l.pc = pc /\ l.then = h  BY <1>1 DEF Local
    <3>3. wk' = [wk EXCEPT ![w] = l]  BY <1>1, <2>4
    <3>. HIDE DEF h, l
    <3>4. pc # "request"  BY <3>1 DEF h
    <3>. QED  BY <3>1, <3>2, <3>3, <3>4, RequestKept
  <2>. QED  BY <1>7, <2>1, <2>2, <2>3, <2>4 DEF WorkRead
<1>8. CASE MarkStarted(w) \/ MarkResumed(w)
  <2>1. UNCHANGED approval /\ R(w) \in Runs
    BY <1>8, WorkerKnows, ControlPoints DEF MarkStarted, MarkResumed, At
  <2>2. EndedUnowned'
    BY <1>8, <2>1, EndedKept DEF MarkStarted, MarkResumed, Terminal
  <2>. QED  BY <1>1, <1>8, <2>1, <2>2, RequestGoto DEF MarkStarted, MarkResumed
<1>9. CASE ScheduleTimer(w) \/ FailCommit(w)
  <2>1. UNCHANGED approval /\ R(w) \in Runs
    BY <1>9, WorkerKnows, ControlPoints DEF ScheduleTimer, FailCommit, At
  <2>2. EndedUnowned'  BY <1>9, <2>1, EndedKept DEF ScheduleTimer, FailCommit
  <2>. QED  BY <1>9, <2>1, <2>2, RequestDone DEF ScheduleTimer, FailCommit, Leave
<1>10. CASE CompleteWait(w) \/ LookupEffect(w)
  <2>1. UNCHANGED approval /\ R(w) \in Runs
    BY <1>10, WorkerKnows, ControlPoints DEF CompleteWait, LookupEffect, At
  <2>2. EndedUnowned'
    <3>1. UNCHANGED run \/ \E s : run' = Unleased(R(w), s)
      BY <1>10 DEF CompleteWait, LookupEffect, CompleteStep
    <3>. QED  BY <2>1, <3>1, EndedKept
  <2>3. NoRequest'
    <3>. DEFINE l == [IdleLocal EXCEPT !.pc = "rescan"]
    <3>1. Done(w) \/ Goto(w, "begin") \/ wk' = [wk EXCEPT ![w] = l]
      BY <1>10 DEF CompleteWait, LookupEffect, Done
    <3>2. l.pc # "request" /\ l.then # "request"  BY DEF IdleLocal
    <3>. HIDE DEF l
    <3>. QED  BY <3>1, <3>2, RequestDone, RequestGoto, RequestKept
  <2>. QED  BY <2>1, <2>2, <2>3
<1>11. CASE BeginAttempt(w)
  <2>1. UNCHANGED approval /\ R(w) \in Runs
    BY <1>11, WorkerKnows, ControlPoints DEF BeginAttempt, At
  <2>2. EndedUnowned'
    <3>1. "running" \notin Terminal  BY DEF Terminal
    <3>. QED  BY <1>11, <2>1, <3>1, EndedKept DEF BeginAttempt
  <2>3. PICK n : wk' = [wk EXCEPT ![w].pc = "handler", ![w].attempt = n]
    BY <1>11 DEF BeginAttempt
  <2>4. \A v \in Workers : v # w => wk'[v] = wk[v]  BY <1>1, <2>3
  <2>5. wk'[w].pc = "handler" /\ wk'[w].then = wk[w].then  BY <1>1, <2>3 DEF Local
  <2>. QED  BY <1>1, <2>1, <2>2, <2>4, <2>5 DEF NoRequest
<1>12. \A a \in Approvals : ~RequestApproval(w, a)  BY DEF RequestApproval, At, NoRequest
<1>. QED  BY <1>3, <1>4, <1>5, <1>6, <1>7, <1>8, <1>9, <1>10, <1>11, <1>12 DEF Tick

LEMMA HandlerUnasked ==
    ASSUME TypeOK, NoRequest, EndedUnowned, NEW w \in Workers, Handler(w)
    PROVE  UNCHANGED approval /\ NoRequest' /\ EndedUnowned'
<1>1. wk \in [Workers -> Local] /\ wk[w] \in Local /\ wk[w].then # "request"
  BY DEF TypeOK, NoRequest
<1>2. wk[w].pc \in {"handler", "effect"}
  BY DEF Handler, EffectBegin, EffectCommit, HandlerReturns, Timeout, HandlerThrows, At
<1>3. UNCHANGED approval
  BY DEF Handler, EffectBegin, EffectCommit, HandlerReturns, Timeout, HandlerThrows
<1>4. EndedUnowned'
  <2>1. R(w) \in Runs  BY <1>2, WorkerKnows, ControlPoints
  <2>2. UNCHANGED run \/ \E s : run' = Unleased(R(w), s)
    BY DEF Handler, EffectBegin, EffectCommit, HandlerReturns, CompleteStep, Timeout,
       HandlerThrows
  <2>. QED  BY <2>1, <2>2, EndedKept
<1>5. NoRequest'
  <2>1. CASE Leave(w)  BY <2>1, RequestDone DEF Leave
  <2>2. ASSUME NEW b, Fail(w, b)  PROVE NoRequest'  BY <2>2, RequestFails
  <2>3. CASE Goto(w, "effect")  BY <2>3, RequestGoto
  <2>4. ASSUME NEW o, \/ wk' = [wk EXCEPT ![w].out = o]
                      \/ wk' = [wk EXCEPT ![w].pc = "handler", ![w].out = o]
        PROVE  NoRequest'
    <3>1. \A v \in Workers : v # w => wk'[v] = wk[v]  BY <1>1, <2>4
    <3>2. wk'[w].pc \in {wk[w].pc, "handler"} /\ wk'[w].then = wk[w].then
      BY <1>1, <2>4 DEF Local
    <3>. QED  BY <1>1, <1>2, <3>1, <3>2 DEF NoRequest
  <2>5. CASE EffectBegin(w)  BY <2>1, <2>2, <2>3, <2>4, <2>5 DEF EffectBegin
  <2>6. CASE EffectCommit(w)  BY <2>1, <2>2, <2>4, <2>6 DEF EffectCommit
  <2>7. CASE HandlerReturns(w) \/ Timeout(w) \/ \E b \in BOOLEAN : HandlerThrows(w, b)
    BY <2>1, <2>2, <2>7 DEF HandlerReturns, Timeout, HandlerThrows
  <2>. QED  BY <2>5, <2>6, <2>7 DEF Handler
<1>. QED  BY <1>3, <1>4, <1>5

LEMMA UnaskedNext ==
    ASSUME TypeOK, Unasked, [Next]_vars
    PROVE  Unasked'
<1>. SUFFICES ASSUME NoApprovals
              PROVE  /\ \A a \in Approvals : approval'[a].state = "none"
                     /\ NoRequest' /\ EndedUnowned'
  BY DEF Unasked
<1>1. (\A a \in Approvals : approval[a].state = "none") /\ NoRequest /\ EndedUnowned
  BY DEF Unasked
<1>. SUFFICES UNCHANGED approval /\ NoRequest' /\ EndedUnowned'  BY <1>1
<1>2. ASSUME UNCHANGED wk  PROVE NoRequest'  BY <1>1, <1>2 DEF NoRequest
<1>3. ASSUME UNCHANGED run  PROVE EndedUnowned'  BY <1>1, <1>3 DEF EndedUnowned
<1>4. CASE UNCHANGED vars  BY <1>2, <1>3, <1>4 DEF vars
<1>5. ASSUME NEW w \in Workers, Tick(w) \/ Handler(w)
      PROVE  UNCHANGED approval /\ NoRequest' /\ EndedUnowned'
  BY <1>1, <1>5, TickUnasked, HandlerUnasked
<1>6. CASE \E z \in zombie : ZombieReturns(z)
  BY <1>2, <1>3, <1>6 DEF ZombieReturns
<1>7. ASSUME NEW p \in Procs, Client(p)
      PROVE  UNCHANGED approval /\ NoRequest' /\ EndedUnowned'
  <2>1. ASSUME NEW r \in Runs, Start(p, r)
        PROVE  UNCHANGED approval /\ NoRequest' /\ EndedUnowned'
    <3>1. "queued" \notin Terminal  BY DEF Terminal
    <3>. QED  BY <1>1, <1>2, <2>1, <3>1, EndedKept DEF Start
  <2>2. ASSUME NEW r \in Runs, Cancel(p, r)
        PROVE  UNCHANGED approval /\ NoRequest' /\ EndedUnowned'
    <3>1. NoRequest'
      <4>1. \A v \in Workers : wk[v] \in Local  BY DEF TypeOK
      <4>. QED  BY <1>1, <2>2, <4>1 DEF Cancel, AbortActive, NoRequest, Local
    <3>. QED  BY <1>1, <2>2, <3>1, EndedKept DEF Cancel
  <2>3. \A a \in Approvals, d \in {"approved", "rejected"} : ~Resolve(p, a, d)
    BY <1>1 DEF Resolve
  <2>. QED  BY <1>7, <2>1, <2>2, <2>3 DEF Client
<1>8. CASE \E p \in Procs : Crash(p)
  <2>1. IdleLocal.pc # "request" /\ IdleLocal.then # "request"  BY DEF IdleLocal
  <2>2. \A v \in Workers : wk'[v] = wk[v] \/ wk'[v] = IdleLocal  BY <1>8 DEF Crash
  <2>. QED  BY <1>1, <1>3, <1>8, <2>1, <2>2 DEF Crash, NoRequest
<1>9. CASE \E r \in Runs : LeaseLapse(r) \/ LeaseOverrun(r)
  BY <1>1, <1>2, <1>9, EndedKept DEF LeaseLapse, LeaseOverrun
<1>10. CASE \E r \in Runs, i \in Steps : TimerDue(r, i)
  BY <1>2, <1>3, <1>10 DEF TimerDue
<1>11. \A a \in Approvals : ~ApprovalDue(a)  BY <1>1 DEF ApprovalDue
<1>. QED
  BY <1>4, <1>5, <1>6, <1>7, <1>8, <1>9, <1>10, <1>11 DEF Next, Deadline

-----------------------------------------------------------------------------
(* The theorems. *)

LEMMA FenceInit == Init => FenceInv /\ Unasked
<1>. SUFFICES ASSUME Init  PROVE FenceInv  BY UnaskedInit
<1>1. TypeOK  BY InitType
<1>2. \A w \in Workers : WorkerInv(w)
  <2>1. \A w \in Workers : wk[w] = IdleLocal  BY DEF Init
  <2>2. IdleLocal.pc \notin HasStep /\ IdleLocal.out = None
    BY ControlPoints DEF IdleLocal
  <2>. QED  BY <2>1, <2>2, ControlPoints DEF WorkerInv, Prepared, Backed, UpToDate
<1>3. \A r \in Runs, i \in Steps : CompletionInv(r, i)  BY DEF Init, CompletionInv
<1>4. \A z \in zombie : z.aborted  BY DEF Init
<1>. QED  BY <1>1, <1>2, <1>3, <1>4 DEF FenceInv

LEMMA FenceNext ==
    ASSUME FenceInv, Unasked, [Next]_vars
    PROVE  FenceInv' /\ Unasked'
<1>. TypeOK  BY DEF FenceInv
<1>. TypeOK'  BY NextType
<1>1. Unasked'  BY UnaskedNext
<1>2. CASE UNCHANGED vars
  <2>1. UNCHANGED <<run, step, effect, wk, zombie>>  BY <1>2 DEF vars
  <2>2. OwnersKept /\ AttemptsKept /\ CompletionsKept
    BY <2>1 DEF OwnersKept, AttemptsKept, CompletionsKept
  <2>3. \A v \in Workers : Stays(v)  BY <2>1, AllStay
  <2>4. UNCHANGED effect /\ zombie' \subseteq zombie  BY <2>1
  <2>. QED  BY <1>1, <2>2, <2>3, <2>4, QuietStep
<1>3. ASSUME NEW w \in Workers, Tick(w)  PROVE FenceInv'
  BY <1>3, FindingFence, ClaimFence, WorkReadFence, MarkFence, SuspendFence,
     CompleteWaitFence, LookupFence, BeginFence DEF Tick
<1>4. ASSUME NEW w \in Workers, Handler(w)  PROVE FenceInv'
  BY <1>4, HandlerFence, EffectFence, ReturnFence, TimeoutFence DEF Handler
<1>. QED  BY <1>1, <1>2, <1>3, <1>4, ClientFence, EnvironmentFence DEF Next

\* In every deployment, and whatever expires, crashes or is retried, the fence
\* invariant holds: what a worker remembers of its step, what a completed step
\* rests on, and that every timed-out invocation has been told to abort.
THEOREM FenceInvariant == Spec => [](FenceInv /\ Unasked)
<1>1. FenceInv /\ Unasked /\ [Next]_vars => (FenceInv /\ Unasked)'  BY FenceNext
<1>. QED  BY <1>1, FenceInit, PTL DEF Spec

\* A completed idempotent step never rests on another operation's record under
\* its key: #handleActivity and #commitEffect compare fingerprints whenever they
\* use a record, also across the await of execute().
THEOREM KeysKeepOperations == Spec => []KeyKeepsOperation
<1>1. FenceInv => KeyKeepsOperation
  BY ConstantTypes DEF FenceInv, CompletionInv, KeyKeepsOperation
<1>. QED  BY <1>1, FenceInvariant, PTL

\* Workers with ids of their own: the output of a completed activity is that of
\* the attempt in its row.  The fence of #completeStep keeps out every attempt
\* that was superseded, in every definition without approval steps.
THEOREM NoStaleResult ==
    ASSUME DistinctIds, NoApprovals
    PROVE  Spec => []NoStaleCommit
<1>1. FenceInv => NoStaleCommit  BY DEF FenceInv, CompletionInv, NoStaleCommit
<1>. QED  BY <1>1, FenceInvariant, PTL

\* Workers with ids and steps with effect keys of their own: a completed
\* idempotent step has the output that the effects table has, also when a crash,
\* a timeout or a reclaim came between #commitEffect and #completeStep.
THEOREM EffectsAgree ==
    ASSUME DistinctIds, DistinctKeys
    PROVE  Spec => []EffectOutputAgrees
<1>1. ASSUME FenceInv  PROVE EffectOutputAgrees
  <2>. SUFFICES ASSUME NEW r \in Runs, NEW i \in Idempotent, step[r][i].status = "completed"
                PROVE  effect[KeyOf[r][i]] # None /\ step[r][i].out = effect[KeyOf[r][i]].by
    BY DEF EffectOutputAgrees
  <2>1. CompletionInv(r, i)  BY <1>1, ConstantTypes DEF FenceInv
  <2>. QED  BY <2>1 DEF CompletionInv
<1>. QED  BY <1>1, FenceInvariant, PTL

\* Only EffectCommit records an effect, for the attempt in the step's row and
\* never over another record: an invocation that timed out, or whose run was
\* cancelled or reclaimed while execute() was awaited, records nothing.
THEOREM EffectsByLiveAttempts ==
    ASSUME DistinctIds, NoApprovals
    PROVE  Spec => EffectByLiveAttempt
<1>1. ASSUME FenceInv, [Next]_vars, NEW k \in EffectKeys, effect'[k] # effect[k]
      PROVE  LET o == effect'[k].by IN
             /\ effect[k] = None
             /\ run[o.run].status \notin Terminal
             /\ step[o.run][o.step].status = "running"
             /\ step[o.run][o.step].attempt = o.attempt
  <2>. TypeOK  BY <1>1 DEF FenceInv
  <2>1. \A z \in zombie : ~ZombieReturns(z)
    BY <1>1 DEF FenceInv, ZombieReturns, ActiveStep
  <2>2. PICK w \in Workers : EffectCommit(w)
    <3>1. ~UNCHANGED effect  BY <1>1
    <3>2. ASSUME NEW w \in Workers  PROVE ~Tick(w)
      <4>1. ~(TickBegin(w) \/ Scan(w) \/ ScanDone(w) \/ Claim(w) \/ WorkRead(w))
        BY <3>1 DEF TickBegin, Scan, ScanDone, Claim, WorkRead
      <4>2. ~(MarkStarted(w) \/ MarkResumed(w) \/ ScheduleTimer(w) \/ CompleteWait(w))
        BY <3>1 DEF MarkStarted, MarkResumed, ScheduleTimer, CompleteWait
      <4>3. ~(LookupEffect(w) \/ BeginAttempt(w) \/ FailCommit(w))
        BY <3>1 DEF LookupEffect, BeginAttempt, FailCommit
      <4>4. \A a \in Approvals : ~ExpireOne(w, a) /\ ~RequestApproval(w, a)
        BY <3>1 DEF ExpireOne, RequestApproval
      <4>5. \A r \in Runs : ~TryRow(w, r)  BY <3>1 DEF TryRow
      <4>. QED  BY <4>1, <4>2, <4>3, <4>4, <4>5 DEF Tick
    <3>3. \A w \in Workers : Handler(w) => EffectCommit(w)
      BY <3>1 DEF Handler, EffectBegin, HandlerReturns, Timeout, HandlerThrows
    <3>4. \A p \in Procs : ~Client(p) /\ ~Crash(p)
      BY <3>1 DEF Client, Start, Cancel, Resolve, Crash
    <3>5. ~Deadline /\ \A r \in Runs : ~LeaseOverrun(r)
      BY <3>1 DEF Deadline, LeaseLapse, TimerDue, ApprovalDue, LeaseOverrun
    <3>. QED  BY <1>1, <2>1, <3>1, <3>2, <3>3, <3>4, <3>5 DEF Next, vars
  <2>3. wk[w].pc = "effect" /\ wk[w].pc \in HasStep
    BY <2>2, ControlPoints DEF EffectCommit, At
  <2>4. /\ ActiveStep(w, R(w), I(w), wk[w].aborted) /\ effect[Key(w)] = None
        /\ effect' = [effect EXCEPT ![Key(w)] = [fp |-> Fp(w), by |-> Own(w)]]
    BY <1>1, <2>2 DEF EffectCommit
  <2>5. k = Key(w) /\ effect'[k] = [fp |-> Fp(w), by |-> Own(w)]
    BY <1>1, <2>4 DEF TypeOK
  <2>6. effect'[k].by = Own(w)  BY <2>5
  <2>7. step[R(w)][I(w)].attempt = wk[w].attempt
    BY <1>1, <2>3, <2>4 DEF FenceInv, WorkerInv, UpToDate, ActiveStep, Holds
  <2>8. Own(w).run = R(w) /\ Own(w).step = I(w) /\ Own(w).attempt = wk[w].attempt
    BY DEF Own
  <2>. QED  BY <2>4, <2>5, <2>6, <2>7, <2>8 DEF ActiveStep, Holds
<1>2. FenceInv /\ [Next]_vars =>
         [\A k \in EffectKeys :
            effect'[k] # effect[k] =>
               LET o == effect'[k].by IN
               /\ effect[k] = None
               /\ run[o.run].status \notin Terminal
               /\ step[o.run][o.step].status = "running"
               /\ step[o.run][o.step].attempt = o.attempt]_vars
  BY <1>1
<1>. QED  BY <1>2, FenceInvariant, PTL DEF Spec, EffectByLiveAttempt

-----------------------------------------------------------------------------
(* One process.

   The unfenced transactions write what a worker has read before.  Inside one
   process nobody comes between: from the claim to the next await a worker has
   the event loop, so that it holds the lease and its step is the first open one
   when it writes.  A worker that comes back from its handler tests the fence
   before it writes; if it still holds the lease, nobody has touched the step
   meanwhile.                                                                 *)

\* All workers and clients share one event loop.
OneLoop ==
    \E p \in Procs : ClientProcs \subseteq {p} /\ \A w \in Workers : ProcOf[w] = p

\* Where a worker relies on what #workClaim has read, and where it is once the
\* handler was invoked.
Fresh == {"start", "resume", "schedule", "request", "complete", "lookup", "begin"}
Inside == {"handler", "effect", "failing"}

\* One worker at a time is between two awaits.
LoopShared ==
    \A v, w \in Workers :
       v # w /\ ProcOf[v] = ProcOf[w] => wk[v].pc \in Async \/ wk[w].pc \in Async

Before(r, i) == \A j \in Steps : j < i => step[r][j].status = "completed"

\* What a step's row says goes with the run's row and the kind of the step.
RowInv(r, i) ==
    LET row == step[r][i] IN
    /\ row.status \notin {"queued", "cancelled"} => Before(r, i)
    /\ row.status = "queued" => \A j \in Steps : j < i => step[r][j].status # "cancelled"
    /\ row.status = "failed" => run[r].status = "failed"
    /\ row.status = "running" => run[r].status = "running"
    /\ row.status \in {"running", "waiting_retry"} => Kind[i] = "activity"
    /\ row.status = "waiting_timer" => Kind[i] = "timer"
    /\ row.status \in {"waiting_approval", "approval_resolved"} => Kind[i] = "approval"
    /\ row.status = "queued" => row.attempt = 0 /\ row.appr = None
    /\ Kind[i] # "activity" => row.attempt = 0
    /\ row.appr # None => Kind[i] = "approval"

\* An approval is the one its step names; a pending one belongs to the step that
\* waits for it, or that was cancelled while it waited.
ApprovalInv(r, a) ==
    LET i == approval[a].step IN
    approval[a].run = r /\ approval[a].state # "none" =>
       /\ step[r][i].appr = a
       /\ approval[a].state = "pending" =>
             /\ Before(r, i)
             /\ \/ step[r][i].status = "waiting_approval" /\ run[r].status = "waiting_approval"
                \/ step[r][i].status = "cancelled" /\ run[r].status = "cancelled"

\* What wakes a suspended run.
Woken(r) ==
    /\ run[r].status = "waiting_approval" =>
          \E a \in Approvals : /\ approval[a].state = "pending"
                               /\ approval[a].run = r
                               /\ step[r][approval[a].step].status = "waiting_approval"
    /\ run[r].status \in {"waiting_timer", "waiting_retry"} =>
          \E i \in Steps : Before(r, i) /\ step[r][i].status = run[r].status

Answered(r) ==
    \E a \in Approvals : approval[a].run = r /\ approval[a].state \notin {"none", "pending"}

History(r) ==
    \/ run[r].status \notin Terminal /\ ended[r] = <<>>
    \/ run[r].status \in Terminal /\ ended[r] = <<run[r].status>>
    \/ ended[r] # <<>> /\ Head(ended[r]) = "cancelled" /\ Answered(r)

TablesInv(r) ==
    /\ \A i \in Steps : RowInv(r, i)
    /\ \A a \in Approvals : ApprovalInv(r, a)
    /\ Woken(r)
    /\ History(r)

Budget(i) == MaxAttempts[i] + overruns + crashes

\* A worker is at work on step i of r under a lease that has not lapsed.
AtWorkOn(w, r, i) ==
    wk[w].pc \in Inside /\ R(w) = r /\ I(w) = i /\ Holds(w, r) /\ ~run[r].lapsed

\* The last attempt is only reached by a worker that is still at it.
BudgetInv(r, i) ==
    /\ step[r][i].attempt <= Budget(i)
    /\ i \in Open(r) => step[r][i].attempt < Budget(i) \/ \E w \in Workers : AtWorkOn(w, r, i)

\* What another attempt at step i of r may rely on.
Spare(r, i) ==
    /\ step[r][i].attempt < Budget(i)
    /\ run[r].lapsed => step[r][i].attempt + 1 < Budget(i)

\* A worker between its claim and its next await.
ClaimInv(w) ==
    /\ wk[w].pc \in Fresh \cup {"work"} =>
          /\ Holds(w, R(w))
          /\ \A i \in Open(R(w)) : Spare(R(w), i)
          /\ overruns = 0 => ~run[R(w)].lapsed
    /\ wk[w].pc \in Fresh =>
          LET row == step[R(w)][I(w)] IN
          /\ I(w) \in NextRunnableStep(R(w))
          /\ wk[w].attempt = row.attempt
          /\ wk[w].appr = row.appr
          /\ wk[w].then = Handling(R(w), I(w))
          /\ wk[w].pc = "start" => run[R(w)].status = "queued"
          /\ wk[w].pc \in {"schedule", "request", "complete"} => wk[w].pc = wk[w].then
          /\ wk[w].pc \in {"lookup", "begin"} => wk[w].then = "lookup"

\* A worker whose handler was invoked; nobody else is told to abort.
InsideInv(w) ==
    /\ wk[w].aborted => wk[w].pc \in Inside
    /\ wk[w].pc \in Inside =>
       /\ Kind[I(w)] = "activity"
       /\ wk[w].pc = "failing" =>
             Holds(w, R(w)) /\ (wk[w].retry => wk[w].attempt < MaxAttempts[I(w)])
       /\ wk[w].aborted => run[R(w)].owner # IdOf[w]
       /\ Holds(w, R(w)) => /\ step[R(w)][I(w)].status = "running"
                            /\ step[R(w)][I(w)].attempt = wk[w].attempt

\* While no lease has lapsed under a worker: it is alone with its run, until the
\* run has ended for good, and the process's map has its controller.
LoneInv(w) ==
    overruns = 0 /\ wk[w].pc \in Inside =>
       /\ \A v \in Workers : v # w => ~(wk[v].pc \in Inside /\ R(v) = R(w))
       /\ active[ProcOf[w]][R(w)] = w
       /\ \/ Holds(w, R(w)) /\ ~run[R(w)].lapsed
          \/ /\ run[R(w)].status \in Terminal
             /\ \A a \in Approvals : approval[a].run = R(w) => approval[a].state # "pending"
       /\ run[R(w)].status = "cancelled" => wk[w].aborted

ActiveInv ==
    \A p \in Procs, r \in Runs : active[p][r] # None =>
       /\ wk[active[p][r]].pc \in Inside /\ R(active[p][r]) = r
       /\ ProcOf[active[p][r]] = p

OneInv ==
    /\ LoopShared
    /\ \A r \in Runs : TablesInv(r)
    /\ \A r \in Runs, i \in Steps : BudgetInv(r, i)
    /\ \A w \in Workers : ClaimInv(w) /\ InsideInv(w) /\ LoneInv(w)
    /\ ActiveInv

-----------------------------------------------------------------------------
(* Who moves. *)

LEMMA PlacesApart ==
    /\ Fresh \subseteq Sync /\ "work" \in Sync /\ "failing" \in Sync
    /\ Fresh \cap Inside = {} /\ "work" \notin Inside /\ "idle" \notin Inside
    /\ Fresh \cap Async = {} /\ "work" \notin Async
    /\ {"idle", "expire", "rescan", "pick", "cas"} \cap (Fresh \cup Inside \cup {"work"}) = {}
    /\ Fresh \cup Inside \subseteq HasStep
    /\ Inside \cap Async = {"handler", "effect"}
BY DEF Fresh, Inside, Sync, Async, HasStep, HasRun, PCs

\* A step of worker w moves no other worker, and has the event loop.
LEMMA TickMovesOwn ==
    ASSUME TypeOK, NEW w \in Workers, Tick(w)
    PROVE  MayStep(w) /\ \A v \in Workers : v # w => wk'[v] = wk[v]
<1>1. wk \in [Workers -> Local]  BY DEF TypeOK
<1>2. CASE TickBegin(w) \/ Scan(w) \/ ScanDone(w) \/ Claim(w)
  BY <1>1, <1>2 DEF TickBegin, Scan, ScanDone, Claim, At, Done
<1>3. CASE WorkRead(w)
  BY <1>1, <1>3 DEF WorkRead, At, Done
<1>4. CASE MarkStarted(w) \/ MarkResumed(w) \/ ScheduleTimer(w) \/ CompleteWait(w)
  BY <1>1, <1>4 DEF MarkStarted, MarkResumed, ScheduleTimer, CompleteWait, At, Done, Goto
<1>5. CASE LookupEffect(w) \/ BeginAttempt(w) \/ FailCommit(w)
  BY <1>1, <1>5 DEF LookupEffect, BeginAttempt, FailCommit, At, Done, Goto, Leave
<1>6. ASSUME NEW a \in Approvals, ExpireOne(w, a) \/ RequestApproval(w, a)
      PROVE  MayStep(w) /\ \A v \in Workers : v # w => wk'[v] = wk[v]
  BY <1>1, <1>6 DEF ExpireOne, RequestApproval, At, Done
<1>7. ASSUME NEW r \in Runs, TryRow(w, r)
      PROVE  MayStep(w) /\ \A v \in Workers : v # w => wk'[v] = wk[v]
  BY <1>1, <1>7 DEF TryRow, At
<1>. QED  BY <1>2, <1>3, <1>4, <1>5, <1>6, <1>7 DEF Tick

LEMMA HandlerMovesOwn ==
    ASSUME TypeOK, NEW w \in Workers, Handler(w)
    PROVE  MayStep(w) /\ \A v \in Workers : v # w => wk'[v] = wk[v]
<1>1. wk \in [Workers -> Local]  BY DEF TypeOK
<1>2. ASSUME NEW b, Fail(w, b)  PROVE \A v \in Workers : v # w => wk'[v] = wk[v]
  BY <1>1, <1>2 DEF Fail, Leave, Done
<1>3. CASE EffectBegin(w)
  BY <1>1, <1>2, <1>3 DEF EffectBegin, At, Leave, Done, Goto
<1>4. CASE EffectCommit(w)
  BY <1>1, <1>2, <1>4 DEF EffectCommit, At, Leave, Done
<1>5. CASE HandlerReturns(w) \/ Timeout(w)
  BY <1>1, <1>2, <1>5 DEF HandlerReturns, Timeout, At, Leave, Done
<1>6. ASSUME NEW b, HandlerThrows(w, b)
      PROVE  MayStep(w) /\ \A v \in Workers : v # w => wk'[v] = wk[v]
  BY <1>1, <1>2, <1>6 DEF HandlerThrows, Leave, Done
<1>. QED  BY <1>3, <1>4, <1>5, <1>6 DEF Handler

\* While a worker moves, the others are at an await.
LEMMA OthersWait ==
    ASSUME OneLoop, NEW w \in Workers, MayStep(w), NEW v \in Workers, v # w
    PROVE  wk[v].pc \in Async
BY DEF OneLoop, MayStep, LoopFree

LEMMA ClientsWait ==
    ASSUME OneLoop, NEW p, MayCall(p), NEW v \in Workers, None \notin Workers
    PROVE  wk[v].pc \in Async /\ ProcOf[v] = p
BY DEF OneLoop, MayCall, LoopFree

LEMMA LoopNext ==
    ASSUME TypeOK, LoopShared, [Next]_vars
    PROVE  LoopShared'
<1>1. ASSUME NEW w \in Workers, MayStep(w), \A v \in Workers : v # w => wk'[v] = wk[v]
      PROVE  LoopShared'
  BY <1>1 DEF LoopShared, MayStep, LoopFree
<1>2. CASE \A v \in Workers : wk'[v].pc = wk[v].pc  BY <1>2 DEF LoopShared
<1>3. ASSUME NEW w \in Workers, Tick(w) \/ Handler(w)  PROVE LoopShared'
  BY <1>1, <1>3, TickMovesOwn, HandlerMovesOwn
<1>4. ASSUME NEW p \in Procs, Client(p)  PROVE LoopShared'
  <2>1. \A v \in Workers : wk[v] \in Local  BY DEF TypeOK
  <2>2. ASSUME NEW r \in Runs, Cancel(p, r)  PROVE \A v \in Workers : wk'[v].pc = wk[v].pc
    BY <2>1, <2>2 DEF Cancel, AbortActive, Local
  <2>. QED  BY <1>2, <1>4, <2>2 DEF Client, Start, Resolve
<1>5. ASSUME NEW p \in Procs, Crash(p)  PROVE LoopShared'
  <2>1. \A v \in Workers : wk'[v] = wk[v] \/ wk'[v].pc \in Async
    BY <1>5 DEF Crash, IdleLocal, Async
  <2>. QED  BY <2>1 DEF LoopShared
<1>6. ASSUME UNCHANGED wk  PROVE LoopShared'  BY <1>2, <1>6
<1>7. UNCHANGED vars => UNCHANGED wk  BY DEF vars
<1>8. Deadline \/ (\E r \in Runs : LeaseOverrun(r)) \/ (\E z \in zombie : ZombieReturns(z)) => UNCHANGED wk
  BY DEF Deadline, LeaseLapse, TimerDue, ApprovalDue, LeaseOverrun, ZombieReturns
<1>. QED  BY <1>3, <1>4, <1>5, <1>6, <1>7, <1>8 DEF Next

-----------------------------------------------------------------------------
(* What a step keeps. *)

\* The rows of run q say what they said; the approvals of run q do; its lease
\* stands as it stood.
SameRows(q) ==
    /\ run'[q].status = run[q].status /\ ended'[q] = ended[q]
    /\ \A i \in Steps : /\ step'[q][i].status = step[q][i].status
                        /\ step'[q][i].attempt = step[q][i].attempt
                        /\ step'[q][i].appr = step[q][i].appr
SameAsked(q) ==
    \A a \in Approvals :
       (approval[a].run = q /\ approval[a].state # "none") \/ approval'[a].run = q =>
          /\ approval'[a].run = approval[a].run /\ approval'[a].step = approval[a].step
          /\ approval'[a].state = approval[a].state
SameLease(q) == run'[q].owner = run[q].owner /\ run'[q].lapsed = run[q].lapsed
SameRun(q) == SameRows(q) /\ SameAsked(q) /\ SameLease(q)

LEMMA AskedKnown ==
    ASSUME TypeOK, NEW a \in Approvals, approval[a].state # "none"
    PROVE  approval[a].run \in Runs /\ approval[a].step \in Steps
<1>1. approval[a] \in ApprovalRow  BY DEF TypeOK
<1>. QED  BY <1>1 DEF ApprovalRow

LEMMA SameTables ==
    ASSUME TypeOK, NEW q \in Runs, TablesInv(q), SameRows(q), SameAsked(q)
    PROVE  TablesInv(q)'
<1>1. \A i \in Steps : RowInv(q, i)'
  BY DEF TablesInv, RowInv, Before, SameRows
<1>2. ASSUME NEW a \in Approvals  PROVE ApprovalInv(q, a)'
  <2>. SUFFICES ASSUME approval'[a].run = q, approval'[a].state # "none"
                PROVE  ApprovalInv(q, a)'
    BY DEF ApprovalInv
  <2>1. /\ approval[a].run = q /\ approval'[a].step = approval[a].step
        /\ approval'[a].state = approval[a].state
    BY DEF SameAsked
  <2>2. approval[a].step \in Steps  BY <2>1, AskedKnown
  <2>3. ApprovalInv(q, a)  BY DEF TablesInv
  <2>. QED  BY <2>1, <2>2, <2>3 DEF ApprovalInv, Before, SameRows
<1>3. Woken(q)'
  <2>1. ASSUME run'[q].status = "waiting_approval"
        PROVE  \E a \in Approvals : /\ approval'[a].state = "pending"
                                    /\ approval'[a].run = q
                                    /\ step'[q][approval'[a].step].status = "waiting_approval"
    <3>1. PICK a \in Approvals : /\ approval[a].state = "pending" /\ approval[a].run = q
                                 /\ step[q][approval[a].step].status = "waiting_approval"
      BY <2>1 DEF TablesInv, Woken, SameRows
    <3>2. approval[a].step \in Steps  BY <3>1, AskedKnown
    <3>. QED  BY <3>1, <3>2 DEF SameAsked, SameRows
  <2>2. ASSUME run'[q].status \in {"waiting_timer", "waiting_retry"}
        PROVE  \E i \in Steps : Before(q, i)' /\ step'[q][i].status = run'[q].status
    <3>1. PICK i \in Steps : Before(q, i) /\ step[q][i].status = run[q].status
      BY <2>2 DEF TablesInv, Woken, SameRows
    <3>. QED  BY <3>1 DEF Before, SameRows
  <2>. QED  BY <2>1, <2>2 DEF Woken
<1>4. History(q)'
  <2>1. Answered(q) => Answered(q)'  BY DEF Answered, SameAsked
  <2>. QED  BY <2>1 DEF TablesInv, History, SameRows
<1>. QED  BY <1>1, <1>2, <1>3, <1>4 DEF TablesInv

\* The attempts of a step stay within their bound if the step is not counted
\* up or reopened, and whoever was at work on it still is, or the bound rises.
LEMMA BudgetKept ==
    ASSUME TypeOK, TypeOK', NEW q \in Runs, NEW i \in Steps, BudgetInv(q, i),
           step'[q][i].attempt = step[q][i].attempt,
           i \in Open(q)' => i \in Open(q),
           overruns' + crashes' >= overruns + crashes,
           \A v \in Workers : AtWorkOn(v, q, i) =>
              \/ AtWorkOn(v, q, i)'
              \/ i \notin Open(q)'
              \/ overruns' + crashes' > overruns + crashes
              \/ step[q][i].attempt < Budget(i)
    PROVE  BudgetInv(q, i)'
<1>1. /\ overruns \in Nat /\ crashes \in Nat /\ overruns' \in Nat /\ crashes' \in Nat
      /\ MaxAttempts[i] \in Nat
  BY ConstantTypes DEF TypeOK
<1>2. step[q][i].attempt \in Nat
  <2>1. step[q][i] \in StepRow  BY DEF TypeOK
  <2>. QED  BY <2>1 DEF StepRow
<1>3. Budget(i)' >= Budget(i)
      /\ (overruns' + crashes' > overruns + crashes => Budget(i)' > Budget(i))
      /\ Budget(i) \in Nat /\ Budget(i)' \in Nat
  <2>1. /\ Budget(i) = MaxAttempts[i] + overruns + crashes
        /\ Budget(i)' = MaxAttempts[i] + overruns' + crashes'
    BY DEF Budget
  <2>2. PICK m \in Nat, a \in Nat, b \in Nat, c \in Nat, d \in Nat :
           /\ m = MaxAttempts[i] /\ a = overruns /\ b = crashes
           /\ c = overruns' /\ d = crashes'
    BY <1>1
  <2>3. c + d >= a + b  BY <2>2
  <2>4. /\ m + c + d >= m + a + b /\ m + a + b \in Nat /\ m + c + d \in Nat
        /\ c + d > a + b => m + c + d > m + a + b
    BY <2>3
  <2>. QED  BY <2>1, <2>2, <2>4
<1>4. step'[q][i].attempt <= Budget(i)'  BY <1>2, <1>3 DEF BudgetInv
<1>5. ASSUME i \in Open(q)'
      PROVE  step'[q][i].attempt < Budget(i)' \/ \E v \in Workers : AtWorkOn(v, q, i)'
  <2>1. CASE step[q][i].attempt < Budget(i)  BY <1>2, <1>3, <2>1
  <2>2. CASE ~(step[q][i].attempt < Budget(i))
    <3>1. PICK v \in Workers : AtWorkOn(v, q, i)  BY <1>5, <2>2 DEF BudgetInv
    <3>2. CASE overruns' + crashes' > overruns + crashes
      <4>1. step[q][i].attempt <= Budget(i)  BY DEF BudgetInv
      <4>. QED  BY <1>2, <1>3, <3>2, <4>1
    <3>. QED  BY <1>5, <2>2, <3>1, <3>2
  <2>. QED  BY <2>1, <2>2
<1>. QED  BY <1>4, <1>5 DEF BudgetInv

\* A worker that is not between its claim and its next await, or not inside a
\* handler, has nothing to keep there.
LEMMA ClaimFree ==
    ASSUME NEW w \in Workers, wk'[w].pc \notin Fresh \cup {"work"}
    PROVE  ClaimInv(w)'
BY DEF ClaimInv

LEMMA InsideFree ==
    ASSUME NEW w \in Workers, wk'[w].pc \notin Inside, ~wk'[w].aborted
    PROVE  InsideInv(w)' /\ LoneInv(w)'
BY DEF InsideInv, LoneInv, Inside

\* A worker inside a handler which others leave alone.
LEMMA InsideKept ==
    ASSUME TypeOK, NEW v \in Workers, InsideInv(v), wk'[v] = wk[v],
           wk[v].pc \in Inside =>
              /\ run'[R(v)].owner # IdOf[v] \/ run'[R(v)].owner = run[R(v)].owner
              /\ wk[v].pc = "failing" => Holds(v, R(v))'
              /\ Holds(v, R(v))' =>
                    /\ Holds(v, R(v))
                    /\ step'[R(v)][I(v)].status = step[R(v)][I(v)].status
                    /\ step'[R(v)][I(v)].attempt = step[R(v)][I(v)].attempt
    PROVE  InsideInv(v)'
<1>1. R(v)' = R(v) /\ I(v)' = I(v)  BY DEF R, I
<1>. QED  BY <1>1 DEF InsideInv

\* Nobody else enters the run, and the run is as it was.
LEMMA LoneKept ==
    ASSUME TypeOK, NEW v \in Workers, LoneInv(v), wk'[v] = wk[v],
           overruns' = 0 => overruns = 0,
           overruns = 0 /\ wk[v].pc \in Inside =>
              /\ SameRun(R(v))
              /\ active'[ProcOf[v]][R(v)] = active[ProcOf[v]][R(v)]
              /\ \A u \in Workers : u # v /\ wk'[u].pc \in Inside /\ wk'[u].run = R(v) =>
                    wk[u].pc \in Inside /\ wk[u].run = R(v)
    PROVE  LoneInv(v)'
<1>. SUFFICES ASSUME overruns' = 0, wk'[v].pc \in Inside  PROVE LoneInv(v)'
  BY DEF LoneInv
<1>1. R(v)' = R(v)  BY DEF R
<1>2. SameRun(R(v)) /\ R(v) = wk[v].run /\ overruns = 0 /\ wk[v].pc \in Inside  BY DEF R
<1>3. \A a \in Approvals : approval'[a].run = R(v) =>
         approval[a].run = R(v) /\ approval'[a].state = approval[a].state
  BY <1>2 DEF SameRun, SameAsked
<1>4. /\ \A u \in Workers : u # v => ~(wk'[u].pc \in Inside /\ wk'[u].run = R(v))
      /\ active'[ProcOf[v]][R(v)] = v
  BY <1>2 DEF LoneInv, R
<1>5. \/ Holds(v, R(v))' /\ ~run'[R(v)].lapsed
      \/ /\ run'[R(v)].status \in Terminal
         /\ \A a \in Approvals : approval'[a].run = R(v) => approval'[a].state # "pending"
  BY <1>1, <1>2, <1>3 DEF LoneInv, Holds, SameRun, SameRows, SameLease
<1>6. run'[R(v)].status = "cancelled" => wk'[v].aborted
  BY <1>1, <1>2 DEF LoneInv, SameRun, SameRows
<1>. QED  BY <1>1, <1>4, <1>5, <1>6 DEF LoneInv, R

-----------------------------------------------------------------------------
(* Nobody comes between. *)

LEMMA StepsAreNumbers == Steps \subseteq Int
BY ConstantTypes DEF Steps

LEMMA OneParts ==
    ASSUME OneInv
    PROVE  /\ LoopShared /\ ActiveInv
           /\ \A r \in Runs : TablesInv(r)
           /\ \A r \in Runs, i \in Steps : BudgetInv(r, i) /\ RowInv(r, i)
           /\ \A r \in Runs, a \in Approvals : ApprovalInv(r, a)
           /\ \A w \in Workers : ClaimInv(w) /\ InsideInv(w) /\ LoneInv(w)
BY DEF OneInv, TablesInv

\* While an approval of a run is pending, nobody holds the run's lease inside a
\* handler: the step of such a worker is 'running', and so is the run.
LEMMA PendingUnheld ==
    ASSUME TypeOK, OneInv, NEW a \in Approvals, approval[a].state = "pending",
           NEW v \in Workers, wk[v].pc \in Inside, R(v) = approval[a].run, Holds(v, R(v))
    PROVE  FALSE
<1>1. R(v) \in Runs /\ I(v) \in Steps  BY WorkerKnows, PlacesApart
<1>2. step[R(v)][I(v)].status = "running"  BY OneParts DEF InsideInv
<1>3. run[R(v)].status = "running"  BY <1>1, <1>2, OneParts DEF RowInv
<1>4. ApprovalInv(R(v), a)  BY <1>1, OneParts
<1>. QED  BY <1>3, <1>4 DEF ApprovalInv

\* No lease has lapsed under a worker: nobody is inside a handler of a run that
\* waits for an answer, and whoever may write a run is alone with it.
LEMMA PendingAlone ==
    ASSUME TypeOK, OneInv, overruns = 0, NEW a \in Approvals, approval[a].state = "pending",
           NEW v \in Workers, wk[v].pc \in Inside, R(v) = approval[a].run
    PROVE  FALSE
BY PendingUnheld, OneParts DEF LoneInv

LEMMA AloneOn ==
    ASSUME TypeOK, OneInv, DistinctIds, overruns = 0, NEW r \in Runs,
           NEW w \in Workers, NEW v \in Workers, v # w,
           Holds(w, r) \/ (LeaseFree(r) /\ run[r].status \notin Terminal)
    PROVE  ~(wk[v].pc \in Inside /\ R(v) = r)
<1>. SUFFICES ASSUME wk[v].pc \in Inside, R(v) = r  PROVE FALSE  OBVIOUS
<1>1. IdOf[v] # None  BY NoneIsNoValue DEF Ids
<1>2. (Holds(v, r) /\ ~run[r].lapsed) \/ run[r].status \in Terminal
  BY OneParts DEF LoneInv
<1>. QED  BY <1>1, <1>2 DEF Holds, LeaseFree, DistinctIds

\* In a run that goes on, the steps before the first open one are completed and
\* those after it are untouched; nobody has been asked, unless that step waits.
LEMMA FirstOpen ==
    ASSUME TypeOK, OneInv, NEW r \in Runs, NEW i \in Steps, i \in Open(r),
           \A j \in Open(r) : i <= j, step[r][i].status # "waiting_approval",
           run[r].status \notin Terminal
    PROVE  /\ Before(r, i)
           /\ \A j \in Steps : j > i => step[r][j].status \in {"queued", "cancelled"}
           /\ \A a \in Approvals : approval[a].run = r => approval[a].state # "pending"
<1>. Steps \subseteq Int  BY StepsAreNumbers
<1>1. step[r][i].status \notin Terminal  BY DEF Open
<1>2. ASSUME NEW j \in Steps, j < i  PROVE step[r][j].status = "completed"
  <2>1. CASE step[r][i].status = "queued"
    <3>1. ~(i <= j)  BY <1>2
    <3>2. step[r][j].status \in Terminal  BY <3>1 DEF Open
    <3>3. step[r][j].status # "cancelled"  BY <1>2, <2>1, OneParts DEF RowInv
    <3>4. step[r][j].status # "failed"  BY OneParts DEF RowInv, Terminal
    <3>. QED  BY <3>2, <3>3, <3>4 DEF Terminal
  <2>2. CASE step[r][i].status # "queued"
    <3>1. Before(r, i)  BY <1>1, <2>2, OneParts DEF RowInv, Terminal
    <3>. QED  BY <1>2, <3>1 DEF Before
  <2>. QED  BY <2>1, <2>2
<1>3. \A j \in Steps : Before(r, j) => ~(i < j)  BY <1>1 DEF Before, Terminal
<1>4. ASSUME NEW j \in Steps, j > i  PROVE step[r][j].status \in {"queued", "cancelled"}
  <2>1. i < j  BY <1>4
  <2>2. ~Before(r, j)  BY <1>3, <2>1
  <2>. QED  BY <2>2, OneParts DEF RowInv
<1>5. ASSUME NEW a \in Approvals, approval[a].run = r, approval[a].state = "pending"
      PROVE  FALSE
  <2>1. PICK k \in Steps : k = approval[a].step  BY <1>5, AskedKnown
  <2>2. ApprovalInv(r, a)  BY OneParts
  <2>3. Before(r, k) /\ step[r][k].status = "waiting_approval"
    BY <1>5, <2>1, <2>2 DEF ApprovalInv, Terminal
  <2>4. k \in Open(r)  BY <2>3 DEF Open, Terminal
  <2>5. i <= k /\ i # k  BY <2>3, <2>4
  <2>6. i < k  BY <2>5
  <2>. QED  BY <1>3, <2>3, <2>6
<1>. QED  BY <1>2, <1>4, <1>5 DEF Before

\* A worker that relies on its claim, or that still has its lease inside its
\* handler, is at the first open step, which does not wait.
LEMMA AtFirstOpen ==
    ASSUME TypeOK, OneInv, NEW w \in Workers,
           wk[w].pc \in Fresh \/ (wk[w].pc \in Inside /\ Holds(w, R(w)))
    PROVE  /\ R(w) \in Runs /\ I(w) \in Steps /\ Holds(w, R(w))
           /\ run[R(w)].status \notin Terminal
           /\ I(w) \in Open(R(w)) /\ \A j \in Open(R(w)) : I(w) <= j
           /\ step[R(w)][I(w)].status # "waiting_approval"
           /\ step[R(w)][I(w)].attempt = wk[w].attempt
<1>. PICK r, i : r = R(w) /\ i = I(w)  OBVIOUS
<1>. Steps \subseteq Int  BY StepsAreNumbers
<1>1. r \in Runs /\ i \in Steps  BY WorkerKnows, PlacesApart
<1>2. Holds(w, r)  BY OneParts DEF ClaimInv
<1>3. CASE wk[w].pc \in Fresh
  <2>1. i \in NextRunnableStep(r) /\ wk[w].attempt = step[r][i].attempt
    BY <1>3, OneParts DEF ClaimInv
  <2>. QED  BY <1>1, <1>2, <2>1 DEF NextRunnableStep, Holds
<1>4. CASE wk[w].pc \in Inside
  <2>1. step[r][i].status = "running" /\ step[r][i].attempt = wk[w].attempt
    BY <1>2, <1>4, OneParts DEF InsideInv
  <2>2. Before(r, i)  BY <1>1, <2>1, OneParts DEF RowInv
  <2>3. i \in Open(r)  BY <1>1, <2>1 DEF Open, Terminal
  <2>4. ASSUME NEW j \in Open(r)  PROVE i <= j
    <3>1. j \in Steps /\ step[r][j].status # "completed"  BY DEF Open, Terminal
    <3>2. ~(j < i)  BY <3>1, <2>2 DEF Before
    <3>3. i \in Int /\ j \in Int  BY <1>1, <3>1
    <3>. QED  BY <3>2, <3>3
  <2>. QED  BY <1>1, <1>2, <2>1, <2>3, <2>4 DEF Holds
<1>. QED  BY <1>3, <1>4

-----------------------------------------------------------------------------
(* A step of one worker. *)

\* Worker w moves, in its own run r, and takes no lease from another.
OwnStep(w, r) ==
    /\ MayStep(w)
    /\ \A v \in Workers : v # w => wk'[v] = wk[v]
    /\ \A q \in Runs : q # r => SameRun(q)
    /\ \A p \in Procs, q \in Runs : q # r => active'[p][q] = active[p][q]
    /\ UNCHANGED <<overruns, crashes>>
    /\ wk[w].pc \in Inside => wk[w].run = r
    /\ wk'[w].pc \in Inside => wk'[w].run = r
    /\ run'[r].owner \in {None, IdOf[w]}
    /\ overruns = 0 => \A v \in Workers : v # w => ~(wk[v].pc \in Inside /\ R(v) = r)

\* The others, and their runs, keep what they have.
LEMMA OthersKeep ==
    ASSUME TypeOK, TypeOK', DistinctIds, OneLoop, OneInv, NEW w \in Workers,
           NEW r \in Runs, OwnStep(w, r)
    PROVE  /\ \A q \in Runs : q # r => TablesInv(q)' /\ \A i \in Steps : BudgetInv(q, i)'
           /\ \A v \in Workers : v # w => ClaimInv(v)' /\ InsideInv(v)' /\ LoneInv(v)'
<1>1. ASSUME NEW q \in Runs, q # r  PROVE TablesInv(q)'
  BY <1>1, OneParts, SameTables DEF OwnStep, SameRun
<1>2. ASSUME NEW q \in Runs, q # r, NEW i \in Steps  PROVE BudgetInv(q, i)'
  <2>1. ASSUME NEW v \in Workers, AtWorkOn(v, q, i)  PROVE AtWorkOn(v, q, i)'
    <3>1. v # w  BY <1>2, <2>1 DEF OwnStep, AtWorkOn, R
    <3>. QED
      BY <1>2, <2>1, <3>1 DEF OwnStep, AtWorkOn, R, I, Holds, SameRun, SameRows, SameLease
  <2>2. /\ step'[q][i].attempt = step[q][i].attempt
        /\ i \in Open(q)' => i \in Open(q)
    BY <1>2 DEF OwnStep, SameRun, SameRows, Open
  <2>3. BudgetInv(q, i)  BY OneParts
  <2>4. overruns' + crashes' >= overruns + crashes
    BY DEF OwnStep, TypeOK
  <2>. QED  BY <2>1, <2>2, <2>3, <2>4, BudgetKept
<1>3. ASSUME NEW v \in Workers, v # w  PROVE ClaimInv(v)' /\ InsideInv(v)' /\ LoneInv(v)'
  <2>0. wk'[v] = wk[v] /\ wk[v].pc \in Async  BY <1>3, OthersWait DEF OwnStep
  <2>1. ClaimInv(v)'  BY <2>0, ClaimFree, PlacesApart
  <2>2. wk[v].pc # "failing"  BY <2>0 DEF Async
  <2>3. ASSUME wk[v].pc \in Inside  PROVE InsideInv(v)' /\ LoneInv(v)'
    <3>1. R(v) \in Runs /\ I(v) \in Steps /\ R(v) = wk[v].run /\ ProcOf[v] \in Procs
      BY <2>3, WorkerKnows, PlacesApart, ConstantTypes DEF R
    <3>2. IdOf[v] # None /\ IdOf[v] # IdOf[w]
      BY <1>3, NoneIsNoValue DEF Ids, DistinctIds
    <3>3. R(v)' = R(v)  BY <2>0 DEF R
    <3>4. R(v) = r => run'[R(v)].owner # IdOf[v]  BY <3>2 DEF OwnStep
    <3>5. R(v) # r => SameRun(R(v))  BY <3>1 DEF OwnStep
    <3>6. Holds(v, R(v))' <=> run'[R(v)].owner = IdOf[v] /\ run'[R(v)].status \notin Terminal
      BY <3>3 DEF Holds
    <3>7. InsideInv(v)'
      BY <2>0, <2>2, <3>1, <3>4, <3>5, <3>6, InsideKept, OneParts
      DEF Holds, SameRun, SameRows, SameLease
    <3>8. overruns = 0 => R(v) # r  BY <1>3, <2>3 DEF OwnStep
    <3>9. \A u \in Workers : u # v /\ wk'[u].pc \in Inside /\ wk'[u].run = R(v) /\ R(v) # r =>
            wk[u].pc \in Inside /\ wk[u].run = R(v)
      BY DEF OwnStep
    <3>10. overruns' = 0 => overruns = 0  BY DEF OwnStep
    <3>11. R(v) # r => active'[ProcOf[v]][R(v)] = active[ProcOf[v]][R(v)]
      BY <3>1 DEF OwnStep
    <3>12. LoneInv(v)'
      BY <2>0, <3>5, <3>8, <3>9, <3>10, <3>11, LoneKept, OneParts
    <3>. QED  BY <3>7, <3>12
  <2>4. ASSUME wk[v].pc \notin Inside  PROVE InsideInv(v)' /\ LoneInv(v)'
    <3>1. wk'[v].pc \notin Inside /\ ~wk'[v].aborted
      BY <2>0, <2>4, OneParts DEF InsideInv
    <3>. QED  BY <3>1, InsideFree
  <2>. QED  BY <2>1, <2>3, <2>4
<1>. QED  BY <1>1, <1>2, <1>3

LEMMA OwnStepInv ==
    ASSUME TypeOK, TypeOK', DistinctIds, OneLoop, OneInv, NEW w \in Workers,
           NEW r \in Runs, OwnStep(w, r),
           TablesInv(r)', \A i \in Steps : BudgetInv(r, i)',
           ClaimInv(w)', InsideInv(w)', LoneInv(w)', ActiveInv', LoopShared'
    PROVE  OneInv'
<1>1. \A q \in Runs : TablesInv(q)'  BY OthersKeep
<1>2. \A q \in Runs, i \in Steps : BudgetInv(q, i)'  BY OthersKeep
<1>3. \A v \in Workers : ClaimInv(v)' /\ InsideInv(v)' /\ LoneInv(v)'  BY OthersKeep
<1>. QED  BY <1>1, <1>2, <1>3 DEF OneInv

\* The map of controllers: of the worker's process the entry of its run at most.
LEMMA ActiveKept ==
    ASSUME TypeOK, ActiveInv, NEW w \in Workers, \A v \in Workers : v # w => wk'[v] = wk[v],
           \/ /\ UNCHANGED active
              /\ wk[w].pc \in Inside => wk'[w].pc \in Inside /\ wk'[w].run = wk[w].run
           \/ active' = [active EXCEPT ![ProcOf[w]][R(w)] = None]
    PROVE  ActiveInv'
<1>. SUFFICES ASSUME NEW p \in Procs, NEW q \in Runs, active'[p][q] # None
              PROVE  /\ wk'[active'[p][q]].pc \in Inside /\ wk'[active'[p][q]].run = q
                     /\ ProcOf[active'[p][q]] = p
  BY DEF ActiveInv, R
<1>0. active \in [Procs -> [Runs -> Workers \cup {None}]]  BY DEF TypeOK
<1>1. active'[p][q] = active[p][q]  BY <1>0
<1>2. PICK u \in Workers : u = active[p][q]  BY <1>0, <1>1
<1>3. wk[u].pc \in Inside /\ wk[u].run = q /\ ProcOf[u] = p
  BY <1>1, <1>2 DEF ActiveInv, R
<1>4. CASE u = w
  <2>1. active' = [active EXCEPT ![ProcOf[w]][R(w)] = None] => active'[p][q] = None
    BY <1>0, <1>3, <1>4 DEF R
  <2>. QED  BY <1>1, <1>2, <1>3, <1>4, <2>1
<1>5. CASE u # w  BY <1>1, <1>2, <1>3, <1>5
<1>. QED  BY <1>4, <1>5

\* Worker w moves and writes no row: it stays inside its handler with the lease
\* that it has, or has none to lose, or was not there.
QuietMove(w) ==
    /\ MayStep(w)
    /\ \A v \in Workers : v # w => wk'[v] = wk[v]
    /\ UNCHANGED <<run, step, approval, ended, overruns, crashes>>
    /\ wk'[w].pc \in Inside =>
          /\ wk[w].pc \in Inside /\ wk'[w].run = wk[w].run /\ wk'[w].step = wk[w].step
    /\ wk[w].pc \in Inside =>
          \/ wk'[w].pc \in Inside /\ UNCHANGED active
          \/ /\ wk'[w].pc \notin Inside /\ ~Holds(w, R(w))
             /\ active' = [active EXCEPT ![ProcOf[w]][R(w)] = None]
    /\ wk[w].pc \notin Inside => UNCHANGED active

LEMMA QuietMoveInv ==
    ASSUME TypeOK, TypeOK', OneLoop, OneInv, NEW w \in Workers, QuietMove(w),
           ClaimInv(w)', InsideInv(w)', LoneInv(w)', LoopShared'
    PROVE  OneInv'
<1>1. \A q \in Runs : SameRun(q)
  BY DEF QuietMove, SameRun, SameRows, SameAsked, SameLease
<1>2. ASSUME NEW q \in Runs  PROVE TablesInv(q)'
  BY <1>1, OneParts, SameTables DEF SameRun
<1>3. ASSUME NEW q \in Runs, NEW i \in Steps  PROVE BudgetInv(q, i)'
  <2>1. ASSUME NEW v \in Workers, AtWorkOn(v, q, i)  PROVE AtWorkOn(v, q, i)'
    <3>1. wk'[v].pc \in Inside /\ wk'[v].run = wk[v].run /\ wk'[v].step = wk[v].step
      BY <2>1 DEF QuietMove, AtWorkOn
    <3>. QED  BY <2>1, <3>1 DEF QuietMove, AtWorkOn, R, I, Holds
  <2>2. /\ step'[q][i].attempt = step[q][i].attempt
        /\ i \in Open(q)' => i \in Open(q)
    BY DEF QuietMove, Open
  <2>3. BudgetInv(q, i)  BY OneParts
  <2>4. overruns' + crashes' >= overruns + crashes  BY DEF QuietMove, TypeOK
  <2>. QED  BY <2>1, <2>2, <2>3, <2>4, BudgetKept
<1>4. ASSUME NEW v \in Workers, v # w  PROVE ClaimInv(v)' /\ InsideInv(v)' /\ LoneInv(v)'
  <2>0. wk'[v] = wk[v] /\ wk[v].pc \in Async  BY <1>4, OthersWait DEF QuietMove
  <2>1. ClaimInv(v)'  BY <2>0, ClaimFree, PlacesApart
  <2>2. wk[v].pc # "failing"  BY <2>0 DEF Async
  <2>3. InsideInv(v)'
    <3>1. R(v)' = R(v)  BY <2>0 DEF R
    <3>. QED  BY <2>0, <2>2, <3>1, InsideKept, OneParts DEF QuietMove, Holds
  <2>4. ASSUME wk[v].pc \in Inside, overruns = 0
        PROVE  /\ SameRun(R(v)) /\ active'[ProcOf[v]][R(v)] = active[ProcOf[v]][R(v)]
               /\ \A u \in Workers : u # v /\ wk'[u].pc \in Inside /\ wk'[u].run = R(v) =>
                     wk[u].pc \in Inside /\ wk[u].run = R(v)
    <3>1. R(v) \in Runs /\ ProcOf[v] \in Procs
      BY <2>4, WorkerKnows, PlacesApart, ConstantTypes
    <3>2. ~(wk[w].pc \in Inside /\ R(w) = R(v))  BY <1>4, <2>4, OneParts DEF LoneInv
    <3>3. active'[ProcOf[v]][R(v)] = active[ProcOf[v]][R(v)]
      BY <3>1, <3>2 DEF QuietMove, TypeOK
    <3>. QED  BY <1>1, <3>1, <3>3 DEF QuietMove
  <2>5. LoneInv(v)'
    <3>1. overruns' = 0 => overruns = 0  BY DEF QuietMove
    <3>. QED  BY <2>0, <2>4, <3>1, LoneKept, OneParts
  <2>. QED  BY <2>1, <2>3, <2>5
<1>5. ActiveInv'
  <2>1. ActiveInv /\ \A v \in Workers : v # w => wk'[v] = wk[v]  BY OneParts DEF QuietMove
  <2>2. \/ /\ UNCHANGED active
           /\ wk[w].pc \in Inside => wk'[w].pc \in Inside /\ wk'[w].run = wk[w].run
        \/ active' = [active EXCEPT ![ProcOf[w]][R(w)] = None]
    BY DEF QuietMove
  <2>. QED  BY <2>1, <2>2, ActiveKept
<1>6. \A v \in Workers : ClaimInv(v)' /\ InsideInv(v)' /\ LoneInv(v)'  BY <1>4
<1>. QED  BY <1>2, <1>3, <1>5, <1>6 DEF OneInv

-----------------------------------------------------------------------------
(* What the transactions write. *)

\* One step changes its status and keeps its attempt and its approval.
OnlyStatus(r, i, s) ==
    /\ \A q \in Runs, j \in Steps : q # r \/ j # i => step'[q][j] = step[q][j]
    /\ step'[r][i].status = s
    /\ step'[r][i].attempt = step[r][i].attempt
    /\ step'[r][i].appr = step[r][i].appr

LEMMA StatusWritten ==
    ASSUME TypeOK, NEW r \in Runs, NEW i \in Steps, NEW s,
           \/ step' = [step EXCEPT ![r][i].status = s]
           \/ step' = [step EXCEPT ![r][i].status = s, ![r][i].due = FALSE]
           \/ \E o : step' = [step EXCEPT ![r][i].status = s, ![r][i].out = o]
    PROVE  OnlyStatus(r, i, s)
<1>1. step[r][i] \in StepRow /\ step \in [Runs -> [Steps -> StepRow]]  BY DEF TypeOK
<1>2. ASSUME NEW row, row.status = s, row.attempt = step[r][i].attempt,
             row.appr = step[r][i].appr, step' = [step EXCEPT ![r][i] = row]
      PROVE  OnlyStatus(r, i, s)
  BY <1>1, <1>2 DEF OnlyStatus
<1>3. CASE step' = [step EXCEPT ![r][i].status = s]
  <2>. DEFINE row == [step[r][i] EXCEPT !.status = s]
  <2>1. row.status = s /\ row.attempt = step[r][i].attempt /\ row.appr = step[r][i].appr
    BY <1>1 DEF StepRow
  <2>2. step' = [step EXCEPT ![r][i] = row]  BY <1>1, <1>3
  <2>. QED  BY <1>2, <2>1, <2>2
<1>4. CASE step' = [step EXCEPT ![r][i].status = s, ![r][i].due = FALSE]
  <2>. DEFINE row == [step[r][i] EXCEPT !.status = s, !.due = FALSE]
  <2>1. row.status = s /\ row.attempt = step[r][i].attempt /\ row.appr = step[r][i].appr
    BY <1>1 DEF StepRow
  <2>2. step' = [step EXCEPT ![r][i] = row]  BY <1>1, <1>4
  <2>. QED  BY <1>2, <2>1, <2>2
<1>5. ASSUME NEW o, step' = [step EXCEPT ![r][i].status = s, ![r][i].out = o]
      PROVE  OnlyStatus(r, i, s)
  <2>. DEFINE row == [step[r][i] EXCEPT !.status = s, !.out = o]
  <2>1. row.status = s /\ row.attempt = step[r][i].attempt /\ row.appr = step[r][i].appr
    BY <1>1 DEF StepRow
  <2>2. step' = [step EXCEPT ![r][i] = row]  BY <1>1, <1>5
  <2>. QED  BY <1>2, <2>1, <2>2
<1>. QED  BY <1>3, <1>4, <1>5

\* The history goes with the status: a run that goes on adds no event, or ends
\* with its event; an answer allows whatever follows a cancellation.
LEMMA HistoryKept ==
    ASSUME TypeOK, TypeOK', NEW r \in Runs, History(r), Answered(r) => Answered(r)',
           \/ /\ run[r].status \notin Terminal
              /\ run'[r].status \notin Terminal /\ ended'[r] = ended[r]
           \/ /\ run[r].status \notin Terminal
              /\ run'[r].status \in Terminal
              /\ ended'[r] = Append(ended[r], run'[r].status)
           \/ /\ run[r].status = "cancelled" /\ Answered(r)'
              /\ ended'[r] = ended[r] \/ \E e \in Terminal : ended'[r] = Append(ended[r], e)
    PROVE  History(r)'
<1>1. ended[r] \in Seq(Terminal)  BY DEF TypeOK
<1>2. ASSUME ended[r] # <<>>, Head(ended[r]) = "cancelled", NEW e \in Terminal
      PROVE  Append(ended[r], e) # <<>> /\ Head(Append(ended[r], e)) = "cancelled"
  BY <1>1, <1>2
<1>3. \A e \in Terminal : Append(<<>>, e) = <<e>>  OBVIOUS
<1>4. CASE run[r].status \notin Terminal
  BY <1>2, <1>3, <1>4 DEF History, Terminal
<1>5. CASE run[r].status = "cancelled" /\ Answered(r)'
  <2>1. ended[r] # <<>> /\ Head(ended[r]) = "cancelled"
    <3>1. Head(<<"cancelled">>) = "cancelled" /\ <<"cancelled">> # <<>>  OBVIOUS
    <3>2. ended[r] = <<"cancelled">> \/ (ended[r] # <<>> /\ Head(ended[r]) = "cancelled")
      BY <1>5 DEF History, Terminal
    <3>. QED  BY <3>1, <3>2
  <2>. QED  BY <1>2, <1>5, <2>1 DEF History
<1>. QED  BY <1>4, <1>5

\* Recording an event appends it to the history of its run.
LEMMA Recorded1 ==
    ASSUME TypeOK, NEW r \in Runs, NEW e, Record(r, e)
    PROVE  /\ ended'[r] = Append(ended[r], e)
           /\ \A q \in Runs : q # r => ended'[q] = ended[q]
BY DEF TypeOK, Record

\* Moving the first open step of a run leaves the rows of the others sound.
LEMMA AdvanceRows ==
    ASSUME TypeOK, OneInv, NEW r \in Runs, NEW i \in Steps, Before(r, i),
           \A j \in Steps : j > i => step[r][j].status \in {"queued", "cancelled"},
           \A j \in Steps : j # i => step'[r][j] = step[r][j],
           step'[r][i].status # "cancelled", NEW j \in Steps, j # i
    PROVE  RowInv(r, j)' /\ Before(r, i)'
<1>. Steps \subseteq Int  BY StepsAreNumbers
<1>1. Before(r, i)' /\ (j < i => Before(r, j) /\ Before(r, j)')  BY DEF Before
<1>2. RowInv(r, j) /\ step'[r][j] = step[r][j]  BY OneParts
<1>3. CASE j < i
  <2>1. step[r][j].status = "completed"  BY <1>3 DEF Before
  <2>. QED  BY <1>1, <1>2, <1>3, <2>1 DEF RowInv
<1>4. CASE j > i
  <2>1. step[r][j].status \in {"queued", "cancelled"}  BY <1>4
  <2>2. \A k \in Steps : step[r][k].status # "cancelled" => step'[r][k].status # "cancelled"
    OBVIOUS
  <2>. QED  BY <1>1, <1>2, <2>1, <2>2 DEF RowInv
<1>. QED  BY <1>3, <1>4

\* A worker's transaction moves the first open step of a run that goes on, and
\* the run with it.
LEMMA AdvanceTables ==
    ASSUME TypeOK, TypeOK', OneInv, NEW r \in Runs, NEW i \in Steps, NEW s,
           i \in Open(r), \A j \in Open(r) : i <= j,
           step[r][i].status # "waiting_approval", run[r].status \notin Terminal,
           SameAsked(r), \A j \in Steps : j # i => step'[r][j] = step[r][j],
           step'[r][i].status = s, step'[r][i].appr = step[r][i].appr,
           Kind[i] # "activity" => step'[r][i].attempt = step[r][i].attempt,
           \/ s \in {"running", "waiting_retry"} /\ Kind[i] = "activity" /\ run'[r].status = s
           \/ s = "waiting_timer" /\ Kind[i] = "timer" /\ run'[r].status = s
           \/ s = "failed" /\ run'[r].status = s
           \/ s = "completed" /\ run'[r].status \in {"running", "completed"},
           run'[r].status \notin Terminal => ended'[r] = ended[r],
           run'[r].status \in Terminal => ended'[r] = Append(ended[r], run'[r].status)
    PROVE  TablesInv(r)'
<1>. Steps \subseteq Int  BY StepsAreNumbers
<1>1. /\ Before(r, i)
      /\ \A j \in Steps : j > i => step[r][j].status \in {"queued", "cancelled"}
      /\ \A a \in Approvals : approval[a].run = r => approval[a].state # "pending"
  BY FirstOpen
<1>2. Before(r, i)'  BY <1>1 DEF Before
<1>3. \A j \in Steps : j # i => RowInv(r, j)'
  <2>1. step'[r][i].status # "cancelled"  OBVIOUS
  <2>. QED  BY <1>1, <2>1, AdvanceRows
<1>4. RowInv(r, i)'
  <2>1. RowInv(r, i)  BY OneParts
  <2>. QED  BY <1>2, <2>1 DEF RowInv
<1>5. ASSUME NEW a \in Approvals  PROVE ApprovalInv(r, a)'
  <2>. SUFFICES ASSUME approval'[a].run = r, approval'[a].state # "none"
                PROVE  ApprovalInv(r, a)'
    BY DEF ApprovalInv
  <2>1. /\ approval[a].run = r /\ approval'[a].step = approval[a].step
        /\ approval'[a].state = approval[a].state
    BY DEF SameAsked
  <2>2. approval[a].step \in Steps  BY <2>1, AskedKnown
  <2>3. ApprovalInv(r, a) /\ approval'[a].state # "pending"  BY <1>1, <2>1, OneParts
  <2>. QED  BY <2>1, <2>2, <2>3 DEF ApprovalInv
<1>6. Woken(r)'
  BY <1>2 DEF Woken
<1>7. History(r)'
  <2>1. Answered(r) => Answered(r)'  BY DEF Answered, SameAsked
  <2>2. History(r)  BY OneParts DEF TablesInv
  <2>. QED  BY <2>1, <2>2, HistoryKept
<1>. QED  BY <1>3, <1>4, <1>5, <1>6, <1>7 DEF TablesInv

\* What is left of the budget of the run's steps when its worker moves step i:
\* nobody else is at work in the run.
LEMMA AdvanceBudget ==
    ASSUME TypeOK, TypeOK', DistinctIds, OneInv, NEW w \in Workers, NEW r \in Runs,
           NEW i \in Steps, Holds(w, r), wk[w].pc \in Inside => R(w) = r /\ I(w) = i,
           UNCHANGED <<overruns, crashes>>,
           \A j \in Steps : j # i => step'[r][j] = step[r][j]
    PROVE  \A j \in Steps : j # i => BudgetInv(r, j)'
<1>. SUFFICES ASSUME NEW j \in Steps, j # i  PROVE BudgetInv(r, j)'
  OBVIOUS
<1>1. \A v \in Workers : ~AtWorkOn(v, r, j)
  BY DEF AtWorkOn, Holds, DistinctIds
<1>2. step'[r][j] = step[r][j] /\ (j \in Open(r)' => j \in Open(r))
  BY DEF Open
<1>3. overruns' + crashes' >= overruns + crashes  BY DEF TypeOK
<1>4. BudgetInv(r, j)  BY OneParts
<1>. QED  BY <1>1, <1>2, <1>3, <1>4, BudgetKept

-----------------------------------------------------------------------------
(* The transactions that finish, suspend or fail a step. *)

\* The worker moves its step and the run, and gives up the lease.
LEMMA HolderWrites ==
    ASSUME TypeOK, TypeOK', DistinctIds, OneLoop, OneInv, LoopShared',
           NEW w \in Workers, MayStep(w), \A v \in Workers : v # w => wk'[v] = wk[v],
           wk[w].pc \in Fresh \/ (wk[w].pc \in Inside /\ Holds(w, R(w))),
           NEW s, NEW t, OnlyStatus(R(w), I(w), s), run' = Unleased(R(w), t),
           UNCHANGED <<approval, overruns, crashes>>,
           \/ /\ s = "waiting_retry" /\ t = s /\ Kind[I(w)] = "activity"
              /\ wk[w].attempt < MaxAttempts[I(w)]
           \/ s = "waiting_timer" /\ t = s /\ Kind[I(w)] = "timer" /\ wk[w].pc \in Fresh
           \/ s = "failed" /\ t = s
           \/ s = "completed" /\ t \in {"running", "completed"},
           t \notin Terminal => UNCHANGED ended, t \in Terminal => Record(R(w), t),
           wk'[w].pc \notin Fresh \cup Inside \cup {"work"}, ~wk'[w].aborted,
           wk[w].pc \in Inside => active' = [active EXCEPT ![ProcOf[w]][R(w)] = None],
           wk[w].pc \notin Inside => UNCHANGED active
    PROVE  OneInv'
<1>1. PICK r, i : r = R(w) /\ i = I(w)  OBVIOUS
<1>2. /\ r \in Runs /\ i \in Steps /\ Holds(w, r) /\ run[r].status \notin Terminal
      /\ i \in Open(r) /\ (\A j \in Open(r) : i <= j)
      /\ step[r][i].status # "waiting_approval" /\ step[r][i].attempt = wk[w].attempt
  BY <1>1, AtFirstOpen
<1>. r \in Runs /\ i \in Steps  BY <1>2
<1>3. /\ run'[r].status = t /\ run'[r].owner = None
      /\ \A q \in Runs : q # r => run'[q] = run[q]
  BY <1>1, UnleasedRow
<1>4. /\ \A q \in Runs, j \in Steps : q # r \/ j # i => step'[q][j] = step[q][j]
      /\ step'[r][i].status = s /\ step'[r][i].attempt = step[r][i].attempt
      /\ step'[r][i].appr = step[r][i].appr
  BY <1>1 DEF OnlyStatus
<1>5. /\ t \in Terminal => ended'[r] = Append(ended[r], t)
      /\ t \notin Terminal => ended'[r] = ended[r]
      /\ \A q \in Runs : q # r => ended'[q] = ended[q]
  BY <1>1, Recorded1
<1>6. \A q \in Runs : SameAsked(q)  BY DEF SameAsked
<1>7. \A q \in Runs : q # r => SameRun(q)
  BY <1>3, <1>4, <1>5, <1>6 DEF SameRun, SameRows, SameLease
<1>8. OwnStep(w, r)
  <2>1. \A p \in Procs, q \in Runs : q # r => active'[p][q] = active[p][q]
    <3>1. active \in [Procs -> [Runs -> Workers \cup {None}]]  BY DEF TypeOK
    <3>2. CASE wk[w].pc \in Inside  BY <1>1, <3>1, <3>2
    <3>3. CASE wk[w].pc \notin Inside  BY <3>3
    <3>. QED  BY <3>2, <3>3
  <2>2. overruns = 0 => \A v \in Workers : v # w => ~(wk[v].pc \in Inside /\ R(v) = r)
    BY <1>2, AloneOn
  <2>. QED  BY <1>1, <1>3, <1>7, <2>1, <2>2 DEF OwnStep, R
<1>9. TablesInv(r)'
  <2>1. \A j \in Steps : j # i => step'[r][j] = step[r][j]  BY <1>4
  <2>2. \/ s \in {"running", "waiting_retry"} /\ Kind[i] = "activity" /\ run'[r].status = s
        \/ s = "waiting_timer" /\ Kind[i] = "timer" /\ run'[r].status = s
        \/ s = "failed" /\ run'[r].status = s
        \/ s = "completed" /\ run'[r].status \in {"running", "completed"}
    BY <1>1, <1>3
  <2>3. SameAsked(r)  BY <1>6
  <2>. QED  BY <1>2, <1>3, <1>4, <1>5, <2>1, <2>2, <2>3, AdvanceTables
<1>10. ASSUME NEW j \in Steps  PROVE BudgetInv(r, j)'
  <2>1. CASE j # i
    <3>1. wk[w].pc \in Inside => R(w) = r /\ I(w) = i  BY <1>1
    <3>2. \A k \in Steps : k # i => step'[r][k] = step[r][k]  BY <1>4
    <3>. QED  BY <1>2, <2>1, <3>1, <3>2, AdvanceBudget
  <2>2. CASE j = i
    <3>1. s \in {"failed", "completed"} => i \notin Open(r)'
      BY <1>4 DEF Open, Terminal
    <3>2. s = "waiting_timer" => step[r][i].attempt < Budget(i)
      <4>1. wk[w].pc \in Fresh => Spare(r, i)  BY <1>1, <1>2, OneParts DEF ClaimInv
      <4>. QED  BY <4>1, PlacesApart DEF Spare
    <3>3. s = "waiting_retry" => step[r][i].attempt < Budget(i)
      <4>1. /\ wk[w].attempt \in Nat /\ MaxAttempts[i] \in Nat /\ overruns \in Nat
            /\ crashes \in Nat
        BY WorkerKnows, PlacesApart, ConstantTypes DEF TypeOK
      <4>2. PICK n \in Nat, m \in Nat, a \in Nat, b \in Nat :
              n = wk[w].attempt /\ m = MaxAttempts[i] /\ a = overruns /\ b = crashes
        BY <4>1
      <4>3. n < m => n < m + a + b  OBVIOUS
      <4>. QED  BY <1>1, <1>2, <4>2, <4>3 DEF Budget
    <3>4. BudgetInv(r, i) /\ i \in Open(r)  BY <1>2, OneParts
    <3>5. overruns' + crashes' >= overruns + crashes  BY DEF TypeOK
    <3>6. i \notin Open(r)' \/ step[r][i].attempt < Budget(i)  BY <3>1, <3>2, <3>3
    <3>. QED  BY <1>4, <2>2, <3>4, <3>5, <3>6, BudgetKept
  <2>. QED  BY <2>1, <2>2
<1>11. ClaimInv(w)' /\ InsideInv(w)' /\ LoneInv(w)'  BY ClaimFree, InsideFree
<1>12. ActiveInv'
  <2>1. \/ /\ UNCHANGED active
           /\ wk[w].pc \in Inside => wk'[w].pc \in Inside /\ wk'[w].run = wk[w].run
        \/ active' = [active EXCEPT ![ProcOf[w]][R(w)] = None]
    OBVIOUS
  <2>. QED  BY <2>1, OneParts, ActiveKept
<1>. QED  BY <1>8, <1>9, <1>10, <1>11, <1>12, OwnStepInv

\* #completeStep by the holder of the lease.
LEMMA CompleteWrites ==
    ASSUME TypeOK, NEW w, NEW r \in Runs, NEW i \in Steps, NEW o, Holds(w, r),
           CompleteStep(w, r, i, o)
    PROVE  /\ OnlyStatus(r, i, "completed")
           /\ \/ run' = Unleased(r, "running") /\ UNCHANGED ended
              \/ run' = Unleased(r, "completed") /\ Record(r, "completed")
BY StatusWritten DEF CompleteStep

\* Where a finished tick leaves its worker.
LEMMA DonePlace ==
    ASSUME TypeOK, NEW w \in Workers, Done(w)
    PROVE  /\ wk'[w].pc \notin Fresh \cup Inside \cup {"work"} /\ ~wk'[w].aborted
           /\ \A v \in Workers : v # w => wk'[v] = wk[v]
<1>1. wk'[w] = IdleLocal /\ \A v \in Workers : v # w => wk'[v] = wk[v]
  BY OthersStay DEF Done
<1>2. IdleLocal.pc = "idle" /\ ~IdleLocal.aborted  BY DEF IdleLocal
<1>. QED  BY <1>1, <1>2, PlacesApart

\* The kind of step that a worker between its claim and its next await is at.
LEMMA FreshKinds ==
    ASSUME TypeOK, OneInv, NEW w \in Workers, wk[w].pc \in Fresh
    PROVE  /\ wk[w].pc = "schedule" => Kind[I(w)] = "timer"
           /\ wk[w].pc = "request" => Kind[I(w)] = "approval"
           /\ wk[w].pc = "complete" => Kind[I(w)] # "activity"
           /\ wk[w].pc \in {"lookup", "begin"} => Kind[I(w)] = "activity"
           /\ wk[w].then \in {"schedule", "request", "complete", "lookup"}
<1>1. PICK r \in Runs, i \in Steps : r = R(w) /\ i = I(w)  BY WorkerKnows, PlacesApart
<1>2. Kind[i] \in {"activity", "timer", "approval"}  BY ConstantTypes
<1>3. wk[w].then = Handling(r, i)  BY <1>1, OneParts DEF ClaimInv
<1>4. /\ wk[w].pc \in {"schedule", "request", "complete"} => wk[w].pc = wk[w].then
      /\ wk[w].pc \in {"lookup", "begin"} => wk[w].then = "lookup"
  BY OneParts DEF ClaimInv
<1>5. /\ Handling(r, i) \in {"schedule", "request", "complete", "lookup"}
      /\ Handling(r, i) = "schedule" => Kind[i] = "timer"
      /\ Handling(r, i) = "request" => Kind[i] = "approval"
      /\ Handling(r, i) = "complete" => Kind[i] # "activity"
      /\ Handling(r, i) = "lookup" => Kind[i] = "activity"
  BY <1>2 DEF Handling
<1>. QED  BY <1>1, <1>3, <1>4, <1>5

-----------------------------------------------------------------------------
(* Handlers. *)

\* A worker inside its handler goes on there, and writes no row.
LEMMA InsideGoesOn ==
    ASSUME TypeOK, OneInv, NEW w \in Workers, QuietMove(w),
           wk[w].pc \in Inside, wk'[w].pc \in Inside,
           wk'[w].attempt = wk[w].attempt, wk'[w].aborted = wk[w].aborted,
           wk'[w].pc = "failing" => Holds(w, R(w)),
           wk'[w].pc = "failing" /\ wk'[w].retry => wk[w].attempt < MaxAttempts[I(w)]
    PROVE  ClaimInv(w)' /\ InsideInv(w)' /\ LoneInv(w)'
<1>1. /\ R(w)' = R(w) /\ I(w)' = I(w) /\ R(w) = wk[w].run /\ I(w) = wk[w].step
      /\ Holds(w, R(w))' <=> Holds(w, R(w))
  BY DEF QuietMove, R, I, Holds
<1>2. InsideInv(w) /\ LoneInv(w)  BY OneParts
<1>3. InsideInv(w)'  BY <1>1, <1>2 DEF InsideInv, QuietMove
<1>4. LoneInv(w)'
  <2>. SUFFICES ASSUME overruns = 0 PROVE LoneInv(w)'  BY DEF LoneInv, QuietMove
  <2>1. \A v \in Workers : v # w => ~(wk'[v].pc \in Inside /\ wk'[v].run = R(w))
    BY <1>2 DEF LoneInv, QuietMove, R
  <2>2. run' = run /\ approval' = approval /\ active' = active  BY DEF QuietMove
  <2>. QED  BY <1>1, <1>2, <2>1, <2>2 DEF LoneInv, R
<1>5. ClaimInv(w)'
  <2>1. wk'[w].pc \notin Fresh \cup {"work"}  BY PlacesApart
  <2>. QED  BY <2>1, ClaimFree
<1>. QED  BY <1>3, <1>4, <1>5

\* A worker whose checks before a write do not let it through has no lease.
LEMMA InactiveUnheld ==
    ASSUME OneInv, NEW w \in Workers, wk[w].pc \in Inside,
           ~ActiveStep(w, R(w), I(w), wk[w].aborted) \/ wk[w].aborted
    PROVE  ~Holds(w, R(w))
BY OneParts DEF ActiveStep, InsideInv, Holds

\* The tick returns from the handler without having written.
LEMMA LeaveOne ==
    ASSUME TypeOK, TypeOK', OneLoop, OneInv, LoopShared', NEW w \in Workers, MayStep(w),
           wk[w].pc \in Inside, ~Holds(w, R(w)), Leave(w),
           UNCHANGED <<run, step, approval, ended, overruns, crashes>>
    PROVE  OneInv'
<1>1. /\ wk'[w].pc \notin Fresh \cup Inside \cup {"work"} /\ ~wk'[w].aborted
      /\ \A v \in Workers : v # w => wk'[v] = wk[v]
  BY DonePlace DEF Leave
<1>2. QuietMove(w)  BY <1>1 DEF QuietMove, Leave
<1>3. ClaimInv(w)' /\ InsideInv(w)' /\ LoneInv(w)'  BY <1>1, ClaimFree, InsideFree
<1>. QED  BY <1>2, <1>3, QuietMoveInv

\* A handler's failure, up to the transaction that records it.
LEMMA FailOne ==
    ASSUME TypeOK, TypeOK', OneLoop, OneInv, LoopShared', NEW w \in Workers, MayStep(w),
           wk[w].pc \in Inside, NEW b, Fail(w, b),
           UNCHANGED <<run, step, approval, ended, overruns, crashes>>
    PROVE  OneInv'
<1>1. CASE ~Holds(w, R(w))  BY <1>1, LeaveOne DEF Fail
<1>2. CASE Holds(w, R(w))
  <2>1. wk[w] \in Local /\ wk \in [Workers -> Local]  BY DEF TypeOK
  <2>. DEFINE c == b /\ wk[w].attempt < MaxAttempts[I(w)]
              l == [wk[w] EXCEPT !.pc = "failing", !.retry = c]
  <2>2. /\ l.pc = "failing" /\ l.run = wk[w].run /\ l.step = wk[w].step
        /\ l.attempt = wk[w].attempt /\ l.aborted = wk[w].aborted /\ l.retry = c
    BY <2>1 DEF Local
  <2>3. wk' = [wk EXCEPT ![w] = l] /\ UNCHANGED active  BY <1>2, <2>1 DEF Fail
  <2>4. l.retry => wk[w].attempt < MaxAttempts[I(w)]  BY <2>2
  <2>. HIDE DEF l, c
  <2>5. wk'[w] = l /\ \A v \in Workers : v # w => wk'[v] = wk[v]  BY <2>3, OthersStay
  <2>6. wk'[w].pc \in Inside  BY <2>2, <2>5 DEF Inside
  <2>7. QuietMove(w)  BY <2>2, <2>3, <2>5, <2>6 DEF QuietMove
  <2>8. ClaimInv(w)' /\ InsideInv(w)' /\ LoneInv(w)'
    BY <1>2, <2>2, <2>4, <2>5, <2>6, <2>7, InsideGoesOn
  <2>. QED  BY <2>7, <2>8, QuietMoveInv
<1>. QED  BY <1>1, <1>2

\* effect() goes on, with or without an output.
LEMMA EffectOne ==
    ASSUME TypeOK, TypeOK', OneLoop, OneInv, LoopShared', NEW w \in Workers, MayStep(w),
           wk[w].pc \in Inside, NEW l, wk' = [wk EXCEPT ![w] = l],
           l.pc \in {"handler", "effect"}, l.run = wk[w].run, l.step = wk[w].step,
           l.attempt = wk[w].attempt, l.aborted = wk[w].aborted, l.retry = wk[w].retry,
           UNCHANGED <<run, step, approval, ended, active, overruns, crashes>>
    PROVE  OneInv'
<1>1. wk'[w] = l /\ \A v \in Workers : v # w => wk'[v] = wk[v]  BY OthersStay
<1>2. wk'[w].pc \in Inside /\ wk'[w].pc # "failing"  BY <1>1 DEF Inside
<1>3. QuietMove(w)  BY <1>1, <1>2 DEF QuietMove
<1>4. ClaimInv(w)' /\ InsideInv(w)' /\ LoneInv(w)'
  BY <1>1, <1>2, <1>3, InsideGoesOn
<1>. QED  BY <1>3, <1>4, QuietMoveInv

LEMMA HandlerOne ==
    ASSUME TypeOK, TypeOK', DistinctIds, OneLoop, OneInv, LoopShared',
           NEW w \in Workers, Handler(w)
    PROVE  OneInv'
<1>0. wk[w] \in Local /\ wk \in [Workers -> Local]  BY DEF TypeOK
<1>00. wk[w].pc \in {"handler", "effect"} => wk[w].pc \in Inside  BY DEF Inside
<1>1. CASE EffectBegin(w)
  <2>1. /\ MayStep(w) /\ wk[w].pc = "handler" /\ wk[w].pc \in Inside /\ wk[w].out = None
        /\ UNCHANGED <<run, step, approval, ended, overruns, crashes>>
    BY <1>1, <1>00 DEF EffectBegin, At
  <2>2. CASE ~ActiveStep(w, R(w), I(w), wk[w].aborted) /\ Leave(w)
    BY <2>1, <2>2, InactiveUnheld, LeaveOne
  <2>3. CASE Fail(w, TRUE)  BY <2>1, <2>3, FailOne
  <2>4. CASE Goto(w, "effect") /\ UNCHANGED active
    <3>. DEFINE l == [wk[w] EXCEPT !.pc = "effect"]
    <3>1. /\ l.pc \in {"handler", "effect"} /\ l.run = wk[w].run /\ l.step = wk[w].step
          /\ l.attempt = wk[w].attempt /\ l.aborted = wk[w].aborted
          /\ l.retry = wk[w].retry
      BY <1>0, <2>1 DEF Local
    <3>2. wk' = [wk EXCEPT ![w] = l]  BY <1>0, <2>4 DEF Goto
    <3>. HIDE DEF l
    <3>. QED  BY <2>1, <2>4, <3>1, <3>2, EffectOne
  <2>5. CASE wk' = [wk EXCEPT ![w].out = Recorded(w)] /\ UNCHANGED active
    <3>. DEFINE l == [wk[w] EXCEPT !.out = Recorded(w)]
    <3>1. /\ l.pc \in {"handler", "effect"} /\ l.run = wk[w].run /\ l.step = wk[w].step
          /\ l.attempt = wk[w].attempt /\ l.aborted = wk[w].aborted
          /\ l.retry = wk[w].retry
      BY <1>0, <2>1 DEF Local
    <3>2. wk' = [wk EXCEPT ![w] = l]  BY <1>0, <2>5
    <3>. HIDE DEF l
    <3>. QED  BY <2>1, <2>5, <3>1, <3>2, EffectOne
  <2>. QED  BY <1>1, <2>2, <2>3, <2>4, <2>5 DEF EffectBegin
<1>2. CASE EffectCommit(w)
  <2>1. /\ MayStep(w) /\ wk[w].pc \in Inside
        /\ UNCHANGED <<run, step, approval, ended, overruns, crashes>>
    BY <1>2, <1>00 DEF EffectCommit, At
  <2>2. CASE ~ActiveStep(w, R(w), I(w), wk[w].aborted) /\ Leave(w)
    BY <2>1, <2>2, InactiveUnheld, LeaveOne
  <2>3. CASE Fail(w, TRUE)  BY <2>1, <2>3, FailOne
  <2>4. CASE wk' = [wk EXCEPT ![w].pc = "handler", ![w].out = Own(w)] /\ UNCHANGED active
    <3>. DEFINE l == [wk[w] EXCEPT !.pc = "handler", !.out = Own(w)]
    <3>1. /\ l.pc \in {"handler", "effect"} /\ l.run = wk[w].run /\ l.step = wk[w].step
          /\ l.attempt = wk[w].attempt /\ l.aborted = wk[w].aborted
          /\ l.retry = wk[w].retry
      BY <1>0, <2>1 DEF Local
    <3>2. wk' = [wk EXCEPT ![w] = l]  BY <1>0, <2>4
    <3>. HIDE DEF l
    <3>. QED  BY <2>1, <2>4, <3>1, <3>2, EffectOne
  <2>. QED  BY <1>2, <2>2, <2>3, <2>4 DEF EffectCommit
<1>3. CASE HandlerReturns(w)
  <2>1. /\ MayStep(w) /\ wk[w].pc \in Inside /\ UNCHANGED <<approval, overruns, crashes>>
    BY <1>3, <1>00 DEF HandlerReturns, At
  <2>2. CASE Fail(w, TRUE) /\ UNCHANGED <<run, step, ended>>
    BY <2>1, <2>2, FailOne
  <2>3. ASSUME NEW o, CompleteStep(w, R(w), I(w), o), Leave(w)  PROVE OneInv'
    <3>1. R(w) \in Runs /\ I(w) \in Steps  BY <2>1, WorkerKnows, PlacesApart
    <3>2. CASE ~Holds(w, R(w))
      <4>1. UNCHANGED <<run, step, ended>>  BY <2>3, <3>2 DEF CompleteStep
      <4>. QED  BY <2>1, <2>3, <3>2, <4>1, LeaveOne
    <3>3. CASE Holds(w, R(w))
      <4>1. /\ wk'[w].pc \notin Fresh \cup Inside \cup {"work"} /\ ~wk'[w].aborted
            /\ \A v \in Workers : v # w => wk'[v] = wk[v]
            /\ active' = [active EXCEPT ![ProcOf[w]][R(w)] = None]
        BY <2>3, DonePlace DEF Leave
      <4>2. /\ OnlyStatus(R(w), I(w), "completed")
            /\ \/ run' = Unleased(R(w), "running") /\ UNCHANGED ended
               \/ run' = Unleased(R(w), "completed") /\ Record(R(w), "completed")
        BY <2>3, <3>1, <3>3, CompleteWrites
      <4>3. "running" \notin Terminal /\ "completed" \in Terminal  BY DEF Terminal
      <4>4. CASE run' = Unleased(R(w), "running") /\ UNCHANGED ended
        BY <2>1, <3>3, <4>1, <4>2, <4>3, <4>4, HolderWrites
      <4>5. CASE run' = Unleased(R(w), "completed") /\ Record(R(w), "completed")
        BY <2>1, <3>3, <4>1, <4>2, <4>3, <4>5, HolderWrites
      <4>. QED  BY <4>2, <4>4, <4>5
    <3>. QED  BY <3>2, <3>3
  <2>. QED  BY <1>3, <2>2, <2>3 DEF HandlerReturns
<1>4. ASSUME NEW b \in BOOLEAN, HandlerThrows(w, b)  PROVE OneInv'
  <2>1. /\ MayStep(w) /\ wk[w].pc \in Inside
        /\ UNCHANGED <<run, step, approval, ended, overruns, crashes>>
    BY <1>4, <1>00 DEF HandlerThrows
  <2>2. CASE Fail(w, b)  BY <2>1, <2>2, FailOne
  <2>3. CASE wk[w].aborted /\ Leave(w)  BY <2>1, <2>3, InactiveUnheld, LeaveOne
  <2>. QED  BY <1>4, <2>2, <2>3 DEF HandlerThrows
<1>5. CASE Timeout(w)
  <2>1. /\ MayStep(w) /\ wk[w].pc \in Inside /\ Fail(w, TRUE)
        /\ UNCHANGED <<run, step, approval, ended, overruns, crashes>>
    BY <1>5, <1>00 DEF Timeout
  <2>. QED  BY <2>1, FailOne
<1>. QED  BY <1>1, <1>2, <1>3, <1>4, <1>5 DEF Handler

-----------------------------------------------------------------------------
(* From the claim to the handler. *)

\* The tick ends without having written, outside of a handler.
LEMMA DoneOne ==
    ASSUME TypeOK, TypeOK', OneLoop, OneInv, LoopShared', NEW w \in Workers, MayStep(w),
           wk[w].pc \notin Inside, Done(w),
           UNCHANGED <<run, step, approval, ended, active, overruns, crashes>>
    PROVE  OneInv'
<1>1. /\ wk'[w].pc \notin Fresh \cup Inside \cup {"work"} /\ ~wk'[w].aborted
      /\ \A v \in Workers : v # w => wk'[v] = wk[v]
  BY DonePlace
<1>2. QuietMove(w)  BY <1>1 DEF QuietMove
<1>. QED  BY <1>1, <1>2, ClaimFree, InsideFree, QuietMoveInv

\* #completeStep by a worker that relies on its claim.
LEMMA CompleteOne ==
    ASSUME TypeOK, TypeOK', DistinctIds, OneLoop, OneInv, LoopShared',
           NEW w \in Workers, MayStep(w), \A v \in Workers : v # w => wk'[v] = wk[v],
           wk[w].pc \in Fresh, NEW o, CompleteStep(w, R(w), I(w), o),
           UNCHANGED <<approval, active, overruns, crashes>>,
           wk'[w].pc \notin Fresh \cup Inside \cup {"work"}, ~wk'[w].aborted
    PROVE  OneInv'
<1>1. R(w) \in Runs /\ I(w) \in Steps /\ Holds(w, R(w))  BY AtFirstOpen
<1>2. /\ OnlyStatus(R(w), I(w), "completed")
      /\ \/ run' = Unleased(R(w), "running") /\ UNCHANGED ended
         \/ run' = Unleased(R(w), "completed") /\ Record(R(w), "completed")
  BY <1>1, CompleteWrites
<1>3. "running" \notin Terminal /\ "completed" \in Terminal  BY DEF Terminal
<1>4. wk[w].pc \notin Inside  BY PlacesApart
<1>5. CASE run' = Unleased(R(w), "running") /\ UNCHANGED ended
  BY <1>1, <1>2, <1>3, <1>4, <1>5, HolderWrites
<1>6. CASE run' = Unleased(R(w), "completed") /\ Record(R(w), "completed")
  BY <1>1, <1>2, <1>3, <1>4, <1>6, HolderWrites
<1>. QED  BY <1>2, <1>5, <1>6

LEMMA FinishOne ==
    ASSUME TypeOK, TypeOK', DistinctIds, OneLoop, OneInv, LoopShared',
           NEW w \in Workers, ScheduleTimer(w) \/ CompleteWait(w) \/ FailCommit(w)
    PROVE  OneInv'
<1>1. CASE ScheduleTimer(w)
  <2>1. MayStep(w) /\ wk[w].pc = "schedule" /\ wk[w].pc \in Fresh /\ wk[w].pc \notin Inside
    BY <1>1, PlacesApart DEF ScheduleTimer, At, Fresh
  <2>2. R(w) \in Runs /\ I(w) \in Steps /\ Kind[I(w)] = "timer"
    BY <2>1, WorkerKnows, PlacesApart, FreshKinds
  <2>3. OnlyStatus(R(w), I(w), "waiting_timer")
    BY <1>1, <2>2, StatusWritten DEF ScheduleTimer
  <2>4. /\ wk'[w].pc \notin Fresh \cup Inside \cup {"work"} /\ ~wk'[w].aborted
        /\ \A v \in Workers : v # w => wk'[v] = wk[v]
    BY <1>1, DonePlace DEF ScheduleTimer
  <2>5. "waiting_timer" \notin Terminal  BY DEF Terminal
  <2>6. /\ run' = Unleased(R(w), "waiting_timer")
        /\ UNCHANGED <<approval, overruns, crashes, ended, active>>
    BY <1>1 DEF ScheduleTimer
  <2>. QED  BY <2>1, <2>2, <2>3, <2>4, <2>5, <2>6, HolderWrites
<1>2. CASE CompleteWait(w)
  <2>1. MayStep(w) /\ wk[w].pc = "complete" /\ wk[w].pc \in Fresh /\ wk[w].pc \notin Inside
    BY <1>2, PlacesApart DEF CompleteWait, At, Fresh
  <2>2. UNCHANGED <<approval, active, overruns, crashes>>  BY <1>2 DEF CompleteWait
  <2>3. CASE Done(w) /\ UNCHANGED <<run, step, ended>>  BY <2>1, <2>2, <2>3, DoneOne
  <2>4. CASE /\ CompleteStep(w, R(w), I(w), Own(w))
             /\ wk' = [wk EXCEPT ![w] =
                         IF Kind[I(w)] = "timer" THEN [IdleLocal EXCEPT !.pc = "rescan"]
                         ELSE IdleLocal]
    <3>. DEFINE l == [IdleLocal EXCEPT !.pc = "rescan"]
    <3>1. /\ l.pc = "rescan" /\ ~l.aborted /\ IdleLocal.pc = "idle" /\ ~IdleLocal.aborted
      BY DEF IdleLocal
    <3>2. wk' = [wk EXCEPT ![w] = l] \/ wk' = [wk EXCEPT ![w] = IdleLocal]  BY <2>4
    <3>. HIDE DEF l
    <3>3. (wk'[w] = l \/ wk'[w] = IdleLocal) /\ \A v \in Workers : v # w => wk'[v] = wk[v]
      BY <3>2, OthersStay
    <3>4. wk'[w].pc \notin Fresh \cup Inside \cup {"work"} /\ ~wk'[w].aborted
      BY <3>1, <3>3, PlacesApart
    <3>. QED  BY <2>1, <2>2, <2>4, <3>3, <3>4, CompleteOne
  <2>. QED  BY <1>2, <2>3, <2>4 DEF CompleteWait
<1>3. CASE FailCommit(w)
  <2>1. MayStep(w) /\ wk[w].pc = "failing" /\ wk[w].pc \in Inside
    BY <1>3 DEF FailCommit, At, Inside
  <2>2. /\ R(w) \in Runs /\ I(w) \in Steps /\ Holds(w, R(w)) /\ Kind[I(w)] = "activity"
        /\ wk[w].retry => wk[w].attempt < MaxAttempts[I(w)]
    BY <2>1, WorkerKnows, PlacesApart, OneParts DEF InsideInv
  <2>3. /\ wk'[w].pc \notin Fresh \cup Inside \cup {"work"} /\ ~wk'[w].aborted
        /\ \A v \in Workers : v # w => wk'[v] = wk[v]
        /\ active' = [active EXCEPT ![ProcOf[w]][R(w)] = None]
        /\ UNCHANGED <<approval, overruns, crashes>>
    BY <1>3, DonePlace DEF FailCommit, Leave
  <2>4. CASE /\ wk[w].retry
             /\ step' = [step EXCEPT ![R(w)][I(w)].status = "waiting_retry",
                                     ![R(w)][I(w)].due = FALSE]
             /\ run' = Unleased(R(w), "waiting_retry")
             /\ UNCHANGED ended
    <3>1. OnlyStatus(R(w), I(w), "waiting_retry")  BY <2>2, <2>4, StatusWritten
    <3>2. "waiting_retry" \notin Terminal  BY DEF Terminal
    <3>. QED  BY <2>1, <2>2, <2>3, <2>4, <3>1, <3>2, HolderWrites
  <2>5. CASE /\ step' = [step EXCEPT ![R(w)][I(w)].status = "failed"]
             /\ run' = Unleased(R(w), "failed")
             /\ Record(R(w), "failed")
    <3>1. OnlyStatus(R(w), I(w), "failed")  BY <2>2, <2>5, StatusWritten
    <3>2. "failed" \in Terminal  BY DEF Terminal
    <3>. QED  BY <2>1, <2>2, <2>3, <2>5, <3>1, <3>2, HolderWrites
  <2>. QED  BY <1>3, <2>4, <2>5 DEF FailCommit
<1>. QED  BY <1>1, <1>2, <1>3

\* A worker goes on with the step it has read.
LEMMA GoesOn ==
    ASSUME TypeOK, TypeOK', OneInv, NEW w \in Workers, wk[w].pc \in Fresh,
           NEW pc \in Fresh, Goto(w, pc), pc # "start",
           pc \in {"schedule", "request", "complete"} => pc = wk[w].then,
           pc \in {"lookup", "begin"} => wk[w].then = "lookup",
           UNCHANGED <<step, overruns, crashes>>,
           run'[R(w)].owner = run[R(w)].owner, run'[R(w)].lapsed = run[R(w)].lapsed,
           run'[R(w)].status \notin Terminal
    PROVE  /\ ClaimInv(w)' /\ InsideInv(w)' /\ LoneInv(w)'
           /\ wk'[w].pc \notin Inside
           /\ \A v \in Workers : v # w => wk'[v] = wk[v]
<1>1. wk[w] \in Local  BY DEF TypeOK
<1>. DEFINE l == [wk[w] EXCEPT !.pc = pc]
<1>2. /\ l.pc = pc /\ l.run = wk[w].run /\ l.step = wk[w].step /\ l.then = wk[w].then
      /\ l.attempt = wk[w].attempt /\ l.appr = wk[w].appr /\ l.aborted = wk[w].aborted
  BY <1>1 DEF Local
<1>3. wk'[w] = l /\ \A v \in Workers : v # w => wk'[v] = wk[v]  BY OthersStay DEF Goto
<1>. HIDE DEF l
<1>4. R(w)' = R(w) /\ I(w)' = I(w)  BY <1>2, <1>3 DEF R, I
<1>5. PICK r \in Runs, i \in Steps : r = R(w) /\ i = I(w)  BY WorkerKnows, PlacesApart
<1>6. /\ wk'[w].pc \notin Inside /\ wk[w].pc \notin Inside
      /\ ~wk'[w].aborted
  <2>1. wk[w].pc \notin Inside /\ pc \notin Inside  BY PlacesApart
  <2>. QED  BY <1>2, <1>3, <2>1, OneParts DEF InsideInv
<1>7. ClaimInv(w)  BY OneParts
<1>8. ClaimInv(w)'
  <2>1. Holds(w, r)'  BY <1>5, <1>7 DEF ClaimInv, Holds
  <2>2. Open(r)' = Open(r) /\ NextRunnableStep(r)' = NextRunnableStep(r)
        /\ Handling(r, i)' = Handling(r, i)
    BY DEF Open, NextRunnableStep, Handling
  <2>3. \A j \in Steps : Budget(j)' = Budget(j)  BY DEF Budget
  <2>4. \A j \in Steps : Spare(r, j) => Spare(r, j)'  BY <1>5, <2>3 DEF Spare
  <2>5. Open(r) \subseteq Steps  BY DEF Open
  <2>. QED
    BY <1>2, <1>3, <1>4, <1>5, <1>7, <2>1, <2>2, <2>4, <2>5 DEF ClaimInv
<1>9. InsideInv(w)' /\ LoneInv(w)'  BY <1>6, InsideFree
<1>. QED  BY <1>3, <1>6, <1>8, <1>9

LEMMA LookupOne ==
    ASSUME TypeOK, TypeOK', DistinctIds, OneLoop, OneInv, LoopShared',
           NEW w \in Workers, LookupEffect(w)
    PROVE  OneInv'
<1>1. MayStep(w) /\ wk[w].pc = "lookup" /\ wk[w].pc \in Fresh /\ wk[w].pc \notin Inside
  BY PlacesApart DEF LookupEffect, At, Fresh
<1>2. UNCHANGED <<approval, active, overruns, crashes>>  BY DEF LookupEffect
<1>3. CASE Done(w) /\ UNCHANGED <<run, step, ended>>  BY <1>1, <1>2, <1>3, DoneOne
<1>4. CASE Done(w) /\ CompleteStep(w, R(w), I(w), Recorded(w))
  <2>1. /\ wk'[w].pc \notin Fresh \cup Inside \cup {"work"} /\ ~wk'[w].aborted
        /\ \A v \in Workers : v # w => wk'[v] = wk[v]
    BY <1>4, DonePlace
  <2>. QED  BY <1>1, <1>2, <1>4, <2>1, CompleteOne
<1>5. CASE Goto(w, "begin") /\ UNCHANGED <<run, step, ended>>
  <2>1. /\ "begin" \in Fresh /\ wk[w].then = "lookup" /\ run[R(w)].status \notin Terminal
    BY <1>1, OneParts, AtFirstOpen DEF Fresh, ClaimInv
  <2>2. run'[R(w)] = run[R(w)]  BY <1>5
  <2>3. /\ ClaimInv(w)' /\ InsideInv(w)' /\ LoneInv(w)' /\ wk'[w].pc \notin Inside
        /\ \A v \in Workers : v # w => wk'[v] = wk[v]
    BY <1>1, <1>2, <1>5, <2>1, <2>2, GoesOn
  <2>4. QuietMove(w)  BY <1>1, <1>2, <1>5, <2>3 DEF QuietMove
  <2>. QED  BY <2>3, <2>4, QuietMoveInv
<1>. QED  BY <1>3, <1>4, <1>5 DEF LookupEffect

\* The tables of a run that is queued, or that goes from none to queued or from
\* queued to running, while its steps and approvals stay.
LEMMA WakeTables ==
    ASSUME TypeOK, TypeOK', OneInv, NEW r \in Runs,
           \/ run[r].status = "none" /\ run'[r].status = "queued"
           \/ run[r].status = "queued" /\ run'[r].status = "running",
           UNCHANGED <<step, approval, ended>>
    PROVE  TablesInv(r)'
<1>1. \A i \in Steps : RowInv(r, i)'
  <2>1. \A i \in Steps : Before(r, i)' <=> Before(r, i)  BY DEF Before
  <2>2. \A i \in Steps : RowInv(r, i)  BY OneParts
  <2>. QED  BY <2>1, <2>2 DEF RowInv
<1>2. \A a \in Approvals : approval[a].run = r => approval[a].state # "pending"
  BY OneParts DEF ApprovalInv
<1>3. \A a \in Approvals : ApprovalInv(r, a)'
  BY <1>2, OneParts DEF ApprovalInv
<1>4. Woken(r)'  BY DEF Woken
<1>5. History(r)'
  <2>1. Answered(r) => Answered(r)'  BY DEF Answered
  <2>2. History(r)  BY OneParts DEF TablesInv
  <2>3. run[r].status \notin Terminal /\ run'[r].status \notin Terminal  BY DEF Terminal
  <2>. QED  BY <2>1, <2>2, <2>3, HistoryKept
<1>. QED  BY <1>1, <1>3, <1>4, <1>5 DEF TablesInv

\* As long as the open steps of a run have attempts to spare, and none is counted
\* up or reopened.
LEMMA SpareKept ==
    ASSUME TypeOK, TypeOK', OneInv, NEW r \in Runs,
           \A j \in Open(r) : step[r][j].attempt < Budget(j),
           UNCHANGED <<step, overruns, crashes>>
    PROVE  \A j \in Steps : BudgetInv(r, j)'
<1>. SUFFICES ASSUME NEW j \in Steps  PROVE BudgetInv(r, j)'  OBVIOUS
<1>1. overruns' + crashes' >= overruns + crashes  BY DEF TypeOK
<1>2. /\ step'[r][j].attempt = step[r][j].attempt
      /\ j \in Open(r)' => j \in Open(r)
      /\ j \notin Open(r)' \/ step[r][j].attempt < Budget(j)
  BY DEF Open
<1>3. BudgetInv(r, j)  BY OneParts
<1>. QED  BY <1>1, <1>2, <1>3, BudgetKept

\* run.started and run.resumed.
LEMMA MarkOne ==
    ASSUME TypeOK, TypeOK', DistinctIds, OneLoop, OneInv, LoopShared',
           NEW w \in Workers, MarkStarted(w) \/ MarkResumed(w)
    PROVE  OneInv'
<1>1. /\ MayStep(w) /\ wk[w].pc \in {"start", "resume"} /\ wk[w].pc \in Fresh
      /\ wk[w].pc \notin Inside
  BY PlacesApart DEF MarkStarted, MarkResumed, At, Fresh
<1>2. PICK r \in Runs : r = R(w)  BY <1>1, AtFirstOpen
<1>3. Holds(w, r) /\ run[r].status \notin Terminal /\ run[r] \in RunRow /\ run \in [Runs -> RunRow]
  BY <1>1, <1>2, AtFirstOpen DEF TypeOK
<1>4. UNCHANGED <<step, approval, ended, active, overruns, crashes>>
  BY DEF MarkStarted, MarkResumed
<1>5. /\ run'[r].owner = run[r].owner /\ run'[r].lapsed = run[r].lapsed
      /\ \A q \in Runs : q # r => run'[q] = run[q]
      /\ \/ run'[r].status = run[r].status
         \/ run[r].status = "queued" /\ run'[r].status = "running"
  <2>1. CASE MarkStarted(w)
    <3>1. wk[w].pc = "start"  BY <2>1 DEF MarkStarted, At
    <3>2. run[r].status = "queued"  BY <1>1, <1>2, <3>1, OneParts DEF ClaimInv
    <3>. QED  BY <1>2, <1>3, <2>1, <3>2 DEF MarkStarted, RunRow
  <2>2. CASE MarkResumed(w)  BY <1>2, <1>3, <2>2 DEF MarkResumed, RunRow
  <2>. QED  BY <2>1, <2>2
<1>6. run'[r].status \notin Terminal  BY <1>3, <1>5 DEF Terminal
<1>7. wk[w].then \in Fresh \ {"start"} /\ Goto(w, wk[w].then)
  BY <1>1, FreshKinds DEF Fresh, MarkStarted, MarkResumed
<1>8. /\ wk[w].then \in {"lookup", "begin"} => wk[w].then = "lookup"
  BY <1>1, FreshKinds
<1>9. /\ ClaimInv(w)' /\ InsideInv(w)' /\ LoneInv(w)' /\ wk'[w].pc \notin Inside
      /\ \A v \in Workers : v # w => wk'[v] = wk[v]
  BY <1>1, <1>2, <1>4, <1>5, <1>6, <1>7, <1>8, GoesOn
<1>10. OwnStep(w, r)
  <2>1. \A q \in Runs : q # r => SameRun(q)
    BY <1>4, <1>5 DEF SameRun, SameRows, SameAsked, SameLease
  <2>2. overruns = 0 => \A v \in Workers : v # w => ~(wk[v].pc \in Inside /\ R(v) = r)
    BY <1>3, AloneOn
  <2>. QED  BY <1>1, <1>3, <1>4, <1>5, <1>9, <2>1, <2>2 DEF OwnStep, Holds
<1>11. TablesInv(r)'
  <2>1. CASE run'[r].status = run[r].status
    <3>1. SameRows(r) /\ SameAsked(r)  BY <1>4, <2>1 DEF SameRows, SameAsked
    <3>. QED  BY <3>1, OneParts, SameTables
  <2>. QED  BY <1>4, <1>5, <2>1, WakeTables
<1>12. \A j \in Steps : BudgetInv(r, j)'
  <2>1. \A j \in Open(r) : step[r][j].attempt < Budget(j)
    BY <1>1, <1>2, OneParts DEF ClaimInv, Spare
  <2>. QED  BY <1>4, <2>1, SpareKept
<1>13. ActiveInv'  BY <1>1, <1>4, <1>9, OneParts, ActiveKept
<1>. QED  BY <1>9, <1>10, <1>11, <1>12, <1>13, OwnStepInv

\* step.started: the attempt is counted, and its worker is at it.
LEMMA BeginOne ==
    ASSUME TypeOK, TypeOK', DistinctIds, OneLoop, OneInv, LoopShared',
           NEW w \in Workers, BeginAttempt(w)
    PROVE  OneInv'
<1>1. /\ MayStep(w) /\ wk[w].pc = "begin" /\ wk[w].pc \in Fresh /\ wk[w].pc \notin Inside
  BY PlacesApart DEF BeginAttempt, At, Fresh
<1>2. PICK r \in Runs, i \in Steps : r = R(w) /\ i = I(w)  BY <1>1, AtFirstOpen
<1>3. /\ Holds(w, r) /\ run[r].status \notin Terminal /\ i \in Open(r)
      /\ (\A j \in Open(r) : i <= j) /\ step[r][i].status # "waiting_approval"
      /\ step[r][i].attempt = wk[w].attempt /\ Kind[i] = "activity"
  BY <1>1, <1>2, AtFirstOpen, FreshKinds
<1>4. /\ run[r] \in RunRow /\ run \in [Runs -> RunRow] /\ step[r][i] \in StepRow
      /\ step \in [Runs -> [Steps -> StepRow]] /\ wk[w] \in Local
      /\ active \in [Procs -> [Runs -> Workers \cup {None}]] /\ ProcOf[w] \in Procs
  BY ConstantTypes DEF TypeOK
<1>5. UNCHANGED <<approval, ended, overruns, crashes>>  BY DEF BeginAttempt
<1>6. PICK n \in Nat : n = wk[w].attempt + 1  BY <1>1, WorkerKnows, PlacesApart
<1>7. /\ run'[r].status = "running" /\ run'[r].owner = run[r].owner
      /\ run'[r].lapsed = run[r].lapsed
      /\ \A q \in Runs : q # r => run'[q] = run[q]
  <2>1. run' = [run EXCEPT ![r].status = "running"]  BY <1>2, <1>3 DEF BeginAttempt
  <2>. QED  BY <1>4, <2>1 DEF RunRow
<1>8. /\ \A q \in Runs, j \in Steps : q # r \/ j # i => step'[q][j] = step[q][j]
      /\ step'[r][i].status = "running" /\ step'[r][i].attempt = n
      /\ step'[r][i].appr = step[r][i].appr
  <2>1. step' = [step EXCEPT ![r][i].status = "running", ![r][i].attempt = n]
    BY <1>2, <1>3, <1>6 DEF BeginAttempt
  <2>. DEFINE row == [step[r][i] EXCEPT !.status = "running", !.attempt = n]
  <2>2. row.status = "running" /\ row.attempt = n /\ row.appr = step[r][i].appr
    BY <1>4 DEF StepRow
  <2>3. step' = [step EXCEPT ![r][i] = row]  BY <1>4, <2>1
  <2>. HIDE DEF row
  <2>. QED  BY <1>4, <2>2, <2>3
<1>9. /\ wk'[w].pc = "handler" /\ wk'[w].run = r /\ wk'[w].step = i /\ wk'[w].attempt = n
      /\ wk'[w].aborted = wk[w].aborted
      /\ \A v \in Workers : v # w => wk'[v] = wk[v]
  <2>. DEFINE l == [wk[w] EXCEPT !.pc = "handler", !.attempt = n]
  <2>1. /\ l.pc = "handler" /\ l.run = wk[w].run /\ l.step = wk[w].step /\ l.attempt = n
        /\ l.aborted = wk[w].aborted
    BY <1>4 DEF Local
  <2>2. wk' = [wk EXCEPT ![w] = l]  BY <1>6 DEF BeginAttempt, TypeOK
  <2>. HIDE DEF l
  <2>3. wk'[w] = l /\ \A v \in Workers : v # w => wk'[v] = wk[v]  BY <2>2, OthersStay
  <2>. QED  BY <1>2, <2>1, <2>3 DEF R, I
<1>10. ~wk[w].aborted  BY <1>1, OneParts DEF InsideInv
<1>11. active' = [active EXCEPT ![ProcOf[w]][r] = w]  BY <1>2 DEF BeginAttempt
<1>12. \A q \in Runs : SameAsked(q)  BY <1>5 DEF SameAsked
<1>13. overruns = 0 => \A v \in Workers : v # w => ~(wk[v].pc \in Inside /\ R(v) = r)
  BY <1>3, AloneOn
<1>14. OwnStep(w, r)
  <2>1. \A q \in Runs : q # r => SameRun(q)
    BY <1>5, <1>7, <1>8, <1>12 DEF SameRun, SameRows, SameLease
  <2>2. \A p \in Procs, q \in Runs : q # r => active'[p][q] = active[p][q]
    BY <1>4, <1>11
  <2>. QED  BY <1>1, <1>3, <1>5, <1>7, <1>9, <1>13, <2>1, <2>2 DEF OwnStep, Holds
<1>15. TablesInv(r)'
  <2>1. PICK s : s = "running"  OBVIOUS
  <2>2. run'[r].status \notin Terminal  BY <1>7 DEF Terminal
  <2>3. \A j \in Steps : j # i => step'[r][j] = step[r][j]  BY <1>8
  <2>. QED  BY <1>3, <1>5, <1>7, <1>8, <1>12, <2>1, <2>2, <2>3, AdvanceTables
<1>16. Holds(w, r)'  BY <1>3, <1>7 DEF Holds, Terminal
<1>17. \A j \in Steps : BudgetInv(r, j)'
  <2>1. \A j \in Steps : j # i => step'[r][j] = step[r][j]  BY <1>8
  <2>2. \A j \in Steps : j # i => BudgetInv(r, j)'
    BY <1>1, <1>3, <1>5, <2>1, AdvanceBudget
  <2>3. BudgetInv(r, i)'
    <3>1. Spare(r, i)  BY <1>1, <1>2, <1>3, OneParts DEF ClaimInv
    <3>2. PICK b : b = Budget(i)  OBVIOUS
    <3>3. b \in Nat /\ Budget(i)' = b  BY <1>5, <3>2, ConstantTypes DEF Budget, TypeOK
    <3>4. step[r][i].attempt \in Nat /\ n = step[r][i].attempt + 1
      BY <1>3, <1>4, <1>6 DEF StepRow
    <3>5. n <= b /\ (run[r].lapsed => n < b)  BY <3>1, <3>2, <3>3, <3>4 DEF Spare
    <3>6. ~run[r].lapsed => AtWorkOn(w, r, i)'
      BY <1>7, <1>9, <1>16 DEF AtWorkOn, R, I, Inside
    <3>. QED  BY <1>8, <3>3, <3>5, <3>6 DEF BudgetInv
  <2>. QED  BY <2>2, <2>3
<1>18. wk'[w].pc \in Inside /\ wk'[w].pc \notin Fresh \cup {"work"} /\ wk'[w].pc # "failing"
  BY <1>9 DEF Inside, Fresh
<1>19. ClaimInv(w)'  BY <1>18, ClaimFree
<1>20. R(w)' = r /\ I(w)' = i  BY <1>9 DEF R, I
<1>21. InsideInv(w)'
  BY <1>3, <1>8, <1>9, <1>10, <1>18, <1>20 DEF InsideInv
<1>22. LoneInv(w)'
  <2>. SUFFICES ASSUME overruns = 0 PROVE LoneInv(w)'  BY <1>5 DEF LoneInv
  <2>1. ~run[r].lapsed  BY <1>1, <1>2, OneParts DEF ClaimInv
  <2>2. active'[ProcOf[w]][r] = w  BY <1>4, <1>11
  <2>3. \A v \in Workers : v # w => ~(wk'[v].pc \in Inside /\ wk'[v].run = r)
    BY <1>9, <1>13 DEF R
  <2>. QED  BY <1>7, <1>16, <1>20, <2>1, <2>2, <2>3 DEF LoneInv, R
<1>23. ActiveInv'
  <2>. SUFFICES ASSUME NEW p \in Procs, NEW q \in Runs, active'[p][q] # None
                PROVE  /\ wk'[active'[p][q]].pc \in Inside /\ wk'[active'[p][q]].run = q
                       /\ ProcOf[active'[p][q]] = p
    BY DEF ActiveInv, R
  <2>1. CASE p = ProcOf[w] /\ q = r  BY <1>4, <1>9, <1>11, <1>18, <2>1
  <2>2. CASE ~(p = ProcOf[w] /\ q = r)
    <3>1. active'[p][q] = active[p][q]  BY <1>4, <1>11, <2>2
    <3>2. PICK u \in Workers : u = active[p][q]  BY <1>4, <3>1
    <3>3. wk[u].pc \in Inside /\ wk[u].run = q /\ ProcOf[u] = p
      BY <3>1, <3>2, OneParts DEF ActiveInv, R
    <3>. QED  BY <1>1, <1>9, <3>1, <3>2, <3>3
  <2>. QED  BY <2>1, <2>2
<1>. QED  BY <1>14, <1>15, <1>17, <1>19, <1>21, <1>22, <1>23, OwnStepInv

\* #handleApproval: its step was never asked before, so that a fresh approval is
\* drawn.
LEMMA RequestOne ==
    ASSUME TypeOK, TypeOK', DistinctIds, OneLoop, OneInv, LoopShared',
           NEW w \in Workers, NEW a \in Approvals, RequestApproval(w, a)
    PROVE  OneInv'
<1>1. /\ MayStep(w) /\ wk[w].pc = "request" /\ wk[w].pc \in Fresh /\ wk[w].pc \notin Inside
  BY PlacesApart DEF RequestApproval, At, Fresh
<1>2. PICK r \in Runs, i \in Steps : r = R(w) /\ i = I(w)  BY <1>1, AtFirstOpen
<1>3. /\ Holds(w, r) /\ run[r].status \notin Terminal /\ i \in Open(r)
      /\ (\A j \in Open(r) : i <= j) /\ step[r][i].status # "waiting_approval"
      /\ Kind[i] = "approval"
  BY <1>1, <1>2, AtFirstOpen, FreshKinds
<1>4. /\ Before(r, i)
      /\ \A j \in Steps : j > i => step[r][j].status \in {"queued", "cancelled"}
      /\ \A b \in Approvals : approval[b].run = r => approval[b].state # "pending"
  BY <1>3, FirstOpen
<1>5. wk[w].appr = None /\ step[r][i].appr = None
  <2>1. wk[w].appr = step[r][i].appr /\ Handling(r, i) = "request"
    BY <1>1, <1>2, OneParts DEF ClaimInv
  <2>2. step[r][i].status # "approval_resolved"  BY <1>3, <2>1 DEF Handling
  <2>3. RowInv(r, i) /\ step[r][i].status \in StepStatus
    <3>1. step[r][i] \in StepRow  BY DEF TypeOK
    <3>. QED  BY <3>1, OneParts DEF StepRow
  <2>4. step[r][i].status = "queued"
    BY <1>3, <2>2, <2>3 DEF RowInv, StepStatus, Runnable, Open
  <2>. QED  BY <2>1, <2>3, <2>4 DEF RowInv
<1>6. approval[a].state = "none"  BY <1>5 DEF RequestApproval
<1>7. /\ approval'[a].run = r /\ approval'[a].step = i /\ approval'[a].state = "pending"
      /\ \A b \in Approvals : b # a => approval'[b] = approval[b]
  <2>1. approval' = [approval EXCEPT ![a] = [run |-> r, step |-> i,
                                             state |-> "pending", due |-> FALSE]]
    BY <1>2, <1>6 DEF RequestApproval
  <2>. QED  BY <2>1 DEF TypeOK
<1>8. /\ \A q \in Runs, j \in Steps : q # r \/ j # i => step'[q][j] = step[q][j]
      /\ step'[r][i].status = "waiting_approval" /\ step'[r][i].appr = a
      /\ step'[r][i].attempt = step[r][i].attempt
  <2>1. step[r][i] \in StepRow /\ step \in [Runs -> [Steps -> StepRow]]  BY DEF TypeOK
  <2>2. step' = [step EXCEPT ![r][i].status = "waiting_approval", ![r][i].appr = a]
    BY <1>2 DEF RequestApproval
  <2>. DEFINE row == [step[r][i] EXCEPT !.status = "waiting_approval", !.appr = a]
  <2>3. row.status = "waiting_approval" /\ row.attempt = step[r][i].attempt /\ row.appr = a
    BY <2>1 DEF StepRow
  <2>4. step' = [step EXCEPT ![r][i] = row]  BY <2>1, <2>2
  <2>. HIDE DEF row
  <2>. QED  BY <2>1, <2>3, <2>4
<1>9. /\ run'[r].status = "waiting_approval" /\ run'[r].owner = None
      /\ \A q \in Runs : q # r => run'[q] = run[q]
  BY <1>2, UnleasedRow DEF RequestApproval
<1>10. UNCHANGED <<ended, active, overruns, crashes>>  BY DEF RequestApproval
<1>11. /\ wk'[w].pc \notin Fresh \cup Inside \cup {"work"} /\ ~wk'[w].aborted
       /\ \A v \in Workers : v # w => wk'[v] = wk[v]
  BY DonePlace DEF RequestApproval
<1>12. OwnStep(w, r)
  <2>1. \A q \in Runs : q # r => SameRun(q)
    BY <1>6, <1>7, <1>8, <1>9, <1>10 DEF SameRun, SameRows, SameLease, SameAsked
  <2>2. overruns = 0 => \A v \in Workers : v # w => ~(wk[v].pc \in Inside /\ R(v) = r)
    BY <1>3, AloneOn
  <2>. QED  BY <1>1, <1>9, <1>10, <1>11, <2>1, <2>2 DEF OwnStep
<1>13. TablesInv(r)'
  <2>1. Before(r, i)' /\ step'[r][i].status # "cancelled"
    <3>1. Steps \subseteq Int  BY StepsAreNumbers
    <3>. QED  BY <1>4, <1>8, <3>1 DEF Before
  <2>2. \A j \in Steps : j # i => RowInv(r, j)'
    BY <1>4, <1>8, <2>1, AdvanceRows
  <2>3. RowInv(r, i)'
    <3>1. RowInv(r, i) /\ a # None  BY OneParts, NoneIsNoValue
    <3>. QED  BY <1>3, <1>8, <2>1, <3>1 DEF RowInv
  <2>4. ASSUME NEW b \in Approvals  PROVE ApprovalInv(r, b)'
    <3>1. CASE b = a  BY <1>7, <1>8, <1>9, <2>1, <3>1 DEF ApprovalInv
    <3>2. CASE b # a
      <4>1. approval'[b] = approval[b] /\ ApprovalInv(r, b)  BY <1>7, <3>2, OneParts
      <4>2. CASE approval[b].run = r /\ approval[b].state # "none"
        <5>1. PICK k \in Steps : k = approval[b].step  BY <4>2, AskedKnown
        <5>2. step[r][k].appr = b  BY <4>1, <4>2, <5>1 DEF ApprovalInv
        <5>3. k # i  BY <1>5, <5>2, NoneIsNoValue
        <5>4. step'[r][k] = step[r][k]  BY <1>8, <5>3
        <5>5. approval[b].state # "pending"  BY <1>4, <4>2
        <5>. QED  BY <4>1, <5>1, <5>2, <5>4, <5>5 DEF ApprovalInv
      <4>3. CASE ~(approval[b].run = r /\ approval[b].state # "none")
        BY <4>1, <4>3 DEF ApprovalInv
      <4>. QED  BY <4>2, <4>3
    <3>. QED  BY <3>1, <3>2
  <2>5. Woken(r)'  BY <1>7, <1>8, <1>9 DEF Woken
  <2>6. History(r)'
    <3>1. Answered(r) => Answered(r)'  BY <1>6, <1>7 DEF Answered
    <3>2. History(r) /\ run'[r].status \notin Terminal  BY <1>9, OneParts DEF TablesInv, Terminal
    <3>. QED  BY <1>3, <1>10, <3>1, <3>2, HistoryKept
  <2>. QED  BY <2>2, <2>3, <2>4, <2>5, <2>6 DEF TablesInv
<1>14. ASSUME NEW j \in Steps  PROVE BudgetInv(r, j)'
  <2>1. j \in Open(r) => step[r][j].attempt < Budget(j)
    BY <1>1, <1>2, OneParts DEF ClaimInv, Spare
  <2>2. step'[r][j].attempt = step[r][j].attempt  BY <1>8
  <2>3. j \in Open(r)' => j \in Open(r)  BY <1>3, <1>8 DEF Open
  <2>4. overruns' + crashes' >= overruns + crashes  BY <1>10 DEF TypeOK
  <2>5. BudgetInv(r, j)  BY OneParts
  <2>6. j \notin Open(r)' \/ step[r][j].attempt < Budget(j)  BY <2>1, <2>3
  <2>. QED  BY <2>2, <2>3, <2>4, <2>5, <2>6, BudgetKept
<1>15. ClaimInv(w)' /\ InsideInv(w)' /\ LoneInv(w)'  BY <1>11, ClaimFree, InsideFree
<1>16. ActiveInv'  BY <1>1, <1>10, <1>11, OneParts, ActiveKept
<1>. QED  BY <1>12, <1>13, <1>14, <1>15, <1>16, OwnStepInv

\* The lease is taken when nobody holds it: the open steps have attempts to spare.
LEMMA ClaimOne ==
    ASSUME TypeOK, TypeOK', DistinctIds, OneLoop, OneInv, LoopShared',
           NEW w \in Workers, Claim(w)
    PROVE  OneInv'
<1>1. MayStep(w) /\ wk[w].pc = "cas" /\ wk[w].pc \notin Inside
  BY PlacesApart DEF Claim, At
<1>2. PICK r \in Runs : r = R(w)  BY <1>1, WorkerKnows, ControlPoints
<1>3. /\ run[r] \in RunRow /\ run \in [Runs -> RunRow] /\ wk[w] \in Local
      /\ wk \in [Workers -> Local]
  BY DEF TypeOK
<1>4. UNCHANGED <<step, approval, ended, active, overruns, crashes>>  BY DEF Claim
<1>5. ~wk[w].aborted  BY <1>1, OneParts DEF InsideInv
<1>6. CASE LeaseFree(r) /\ run[r].status \notin Terminal
  <2>1. /\ run'[r].status = run[r].status /\ run'[r].owner = IdOf[w] /\ ~run'[r].lapsed
        /\ \A q \in Runs : q # r => run'[q] = run[q]
    <3>1. run' = [run EXCEPT ![r].owner = IdOf[w], ![r].lapsed = FALSE]
      BY <1>2, <1>6 DEF Claim
    <3>. QED  BY <1>3, <3>1 DEF RunRow
  <2>2. /\ wk'[w].pc = "work" /\ wk'[w].run = r /\ ~wk'[w].aborted
        /\ \A v \in Workers : v # w => wk'[v] = wk[v]
    <3>. DEFINE l == [wk[w] EXCEPT !.pc = "work", !.rows = {}]
    <3>1. l.pc = "work" /\ l.run = wk[w].run /\ l.aborted = wk[w].aborted  BY <1>3 DEF Local
    <3>2. wk' = [wk EXCEPT ![w] = l]  BY <1>2, <1>3, <1>6 DEF Claim
    <3>. HIDE DEF l
    <3>3. wk'[w] = l /\ \A v \in Workers : v # w => wk'[v] = wk[v]  BY <3>2, OthersStay
    <3>. QED  BY <1>2, <1>5, <3>1, <3>3 DEF R
  <2>3. wk'[w].pc \notin Inside /\ wk'[w].pc \notin Fresh  BY <2>2 DEF Fresh, Inside
  <2>4. OwnStep(w, r)
    <3>1. \A q \in Runs : q # r => SameRun(q)
      BY <1>4, <2>1 DEF SameRun, SameRows, SameAsked, SameLease
    <3>2. overruns = 0 => \A v \in Workers : v # w => ~(wk[v].pc \in Inside /\ R(v) = r)
      BY <1>6, AloneOn
    <3>. QED  BY <1>1, <1>4, <2>1, <2>2, <2>3, <3>1, <3>2 DEF OwnStep
  <2>5. TablesInv(r)'
    <3>1. SameRows(r) /\ SameAsked(r)  BY <1>4, <2>1 DEF SameRows, SameAsked
    <3>. QED  BY <3>1, OneParts, SameTables
  <2>6. \A j \in Open(r) : step[r][j].attempt < Budget(j)
    <3>1. \A v \in Workers : IdOf[v] # None  BY NoneIsNoValue DEF Ids
    <3>2. \A v \in Workers, j \in Steps : ~AtWorkOn(v, r, j)
      BY <1>6, <3>1 DEF AtWorkOn, LeaseFree, Holds
    <3>3. Open(r) \subseteq Steps  BY DEF Open
    <3>. QED  BY <3>2, <3>3, OneParts DEF BudgetInv
  <2>7. \A j \in Steps : BudgetInv(r, j)'  BY <1>4, <2>6, SpareKept
  <2>8. ClaimInv(w)'
    <3>1. R(w)' = r  BY <2>2 DEF R
    <3>2. Holds(w, r)'  BY <1>6, <2>1 DEF Holds
    <3>3. Open(r)' = Open(r)  BY <1>4 DEF Open
    <3>4. \A j \in Open(r) : Spare(r, j)'
      <4>1. \A j \in Steps : Budget(j)' = Budget(j)  BY <1>4 DEF Budget
      <4>2. Open(r) \subseteq Steps  BY DEF Open
      <4>. QED  BY <1>4, <2>1, <2>6, <4>1, <4>2 DEF Spare
    <3>. QED  BY <2>1, <2>3, <3>1, <3>2, <3>3, <3>4 DEF ClaimInv
  <2>9. InsideInv(w)' /\ LoneInv(w)'  BY <2>2, <2>3, InsideFree
  <2>10. ActiveInv'  BY <1>1, <1>4, <2>2, OneParts, ActiveKept
  <2>. QED  BY <2>4, <2>5, <2>7, <2>8, <2>9, <2>10, OwnStepInv
<1>7. CASE ~(LeaseFree(r) /\ run[r].status \notin Terminal)
  <2>1. UNCHANGED run  BY <1>2, <1>7 DEF Claim
  <2>2. /\ wk'[w].pc = "pick" /\ ~wk'[w].aborted
        /\ \A v \in Workers : v # w => wk'[v] = wk[v]
    <3>. DEFINE l == [wk[w] EXCEPT !.pc = "pick", !.run = None]
    <3>1. l.pc = "pick" /\ l.aborted = wk[w].aborted  BY <1>3 DEF Local
    <3>2. wk' = [wk EXCEPT ![w] = l]  BY <1>2, <1>3, <1>7 DEF Claim
    <3>. HIDE DEF l
    <3>3. wk'[w] = l /\ \A v \in Workers : v # w => wk'[v] = wk[v]  BY <3>2, OthersStay
    <3>. QED  BY <1>5, <3>1, <3>3
  <2>3. wk'[w].pc \notin Fresh \cup Inside \cup {"work"}  BY <2>2, PlacesApart
  <2>4. QuietMove(w)  BY <1>1, <1>4, <2>1, <2>2, <2>3 DEF QuietMove
  <2>. QED  BY <2>2, <2>3, <2>4, ClaimFree, InsideFree, QuietMoveInv
<1>. QED  BY <1>6, <1>7

\* The reads of #workClaim.
LEMMA ReadOne ==
    ASSUME TypeOK, TypeOK', DistinctIds, OneLoop, OneInv, LoopShared',
           NEW w \in Workers, WorkRead(w)
    PROVE  OneInv'
<1>1. MayStep(w) /\ wk[w].pc = "work" /\ wk[w].pc \notin Inside
  BY PlacesApart DEF WorkRead, At
<1>2. PICK r \in Runs : r = R(w)  BY <1>1, WorkerKnows, ControlPoints
<1>3. /\ run[r] \in RunRow /\ run \in [Runs -> RunRow] /\ wk[w] \in Local
      /\ wk \in [Workers -> Local]
  BY DEF TypeOK
<1>4. UNCHANGED <<step, approval, ended, active, overruns, crashes>>  BY DEF WorkRead
<1>5. /\ Holds(w, r) /\ (\A i \in Open(r) : Spare(r, i)) /\ ~wk[w].aborted
      /\ overruns = 0 => ~run[r].lapsed
  BY <1>1, <1>2, OneParts DEF ClaimInv, InsideInv
<1>6. CASE run' = [run EXCEPT ![r].owner = None, ![r].lapsed = FALSE] /\ Done(w)
  <2>1. /\ run'[r].status = run[r].status /\ run'[r].owner = None
        /\ \A q \in Runs : q # r => run'[q] = run[q]
    BY <1>3, <1>6 DEF RunRow
  <2>2. /\ wk'[w].pc \notin Fresh \cup Inside \cup {"work"} /\ ~wk'[w].aborted
        /\ \A v \in Workers : v # w => wk'[v] = wk[v]
    BY <1>6, DonePlace
  <2>3. OwnStep(w, r)
    <3>1. \A q \in Runs : q # r => SameRun(q)
      BY <1>4, <2>1 DEF SameRun, SameRows, SameAsked, SameLease
    <3>2. overruns = 0 => \A v \in Workers : v # w => ~(wk[v].pc \in Inside /\ R(v) = r)
      BY <1>5, AloneOn
    <3>. QED  BY <1>1, <1>4, <2>1, <2>2, <3>1, <3>2 DEF OwnStep
  <2>4. TablesInv(r)'
    <3>1. SameRows(r) /\ SameAsked(r)  BY <1>4, <2>1 DEF SameRows, SameAsked
    <3>. QED  BY <3>1, OneParts, SameTables
  <2>5. \A j \in Steps : BudgetInv(r, j)'
    <3>1. \A j \in Open(r) : step[r][j].attempt < Budget(j)  BY <1>5 DEF Spare
    <3>. QED  BY <1>4, <3>1, SpareKept
  <2>6. ClaimInv(w)' /\ InsideInv(w)' /\ LoneInv(w)'  BY <2>2, ClaimFree, InsideFree
  <2>7. ActiveInv'  BY <1>1, <1>4, <2>2, OneParts, ActiveKept
  <2>. QED  BY <2>3, <2>4, <2>5, <2>6, <2>7, OwnStepInv
<1>7. CASE Done(w) /\ UNCHANGED run  BY <1>1, <1>4, <1>7, DoneOne
<1>8. ASSUME NEW i \in NextRunnableStep(r), UNCHANGED run,
             wk' = [wk EXCEPT ![w].step = i,
                      ![w].attempt = step[r][i].attempt,
                      ![w].appr = step[r][i].appr,
                      ![w].then = Handling(r, i),
                      ![w].pc = IF run[r].status = "queued" THEN "start"
                                ELSE IF ~run[r].resumed THEN "resume"
                                ELSE Handling(r, i)]
      PROVE  OneInv'
  <2>. DEFINE h == Handling(r, i)
  <2>1. PICK pc : pc = IF run[r].status = "queued" THEN "start"
                       ELSE IF ~run[r].resumed THEN "resume" ELSE h
    OBVIOUS
  <2>2. i \in Steps  BY DEF NextRunnableStep, Open
  <2>3. h \in {"complete", "schedule", "request", "lookup"}
    BY <2>2, HandlingKinds
  <2>. DEFINE l == [wk[w] EXCEPT !.step = i, !.attempt = step[r][i].attempt,
                      !.appr = step[r][i].appr, !.then = h, !.pc = pc]
  <2>4. /\ l.pc = pc /\ l.run = wk[w].run /\ l.step = i /\ l.then = h
        /\ l.attempt = step[r][i].attempt /\ l.appr = step[r][i].appr
        /\ l.aborted = wk[w].aborted
    BY <1>3 DEF Local
  <2>5. wk' = [wk EXCEPT ![w] = l]  BY <1>3, <1>8, <2>1
  <2>. HIDE DEF l
  <2>6. wk'[w] = l /\ \A v \in Workers : v # w => wk'[v] = wk[v]  BY <2>5, OthersStay
  <2>7. /\ pc = "start" => run[r].status = "queued"
        /\ pc \in {"schedule", "request", "complete"} => pc = h
        /\ pc \in {"lookup", "begin"} => h = "lookup"
        /\ pc \in {"start", "resume", "complete", "schedule", "request", "lookup"}
    BY <2>1, <2>3
  <2>8. pc \in Fresh /\ pc \notin Inside  BY <2>7 DEF Fresh, Inside
  <2>9. /\ R(w)' = r /\ I(w)' = i /\ ~wk'[w].aborted /\ wk'[w].pc = pc
    BY <1>2, <1>5, <2>4, <2>6 DEF R, I
  <2>10. ClaimInv(w)'
    <3>1. /\ Open(r)' = Open(r) /\ NextRunnableStep(r)' = NextRunnableStep(r)
          /\ Handling(r, i)' = Handling(r, i)
      BY <1>4 DEF Open, NextRunnableStep, Handling
    <3>2. Holds(w, r)' /\ (\A j \in Open(r) : Spare(r, j)')
      <4>1. \A j \in Steps : Budget(j)' = Budget(j)  BY <1>4 DEF Budget
      <4>2. Open(r) \subseteq Steps  BY DEF Open
      <4>. QED  BY <1>4, <1>5, <1>8, <4>1, <4>2 DEF Spare, Holds
    <3>3. overruns' = 0 => ~run'[r].lapsed  BY <1>4, <1>5, <1>8
    <3>4. /\ I(w)' \in NextRunnableStep(r)'
          /\ wk'[w].attempt = step'[r][i].attempt /\ wk'[w].appr = step'[r][i].appr
          /\ wk'[w].then = Handling(r, i)'
          /\ wk'[w].pc = "start" => run'[r].status = "queued"
          /\ wk'[w].pc \in {"schedule", "request", "complete"} => wk'[w].pc = wk'[w].then
          /\ wk'[w].pc \in {"lookup", "begin"} => wk'[w].then = "lookup"
      BY <1>4, <1>8, <2>4, <2>6, <2>7, <2>9, <3>1
    <3>. QED  BY <2>9, <3>1, <3>2, <3>3, <3>4 DEF ClaimInv
  <2>11. InsideInv(w)' /\ LoneInv(w)'  BY <2>8, <2>9, InsideFree
  <2>12. QuietMove(w)
    <3>1. UNCHANGED run /\ \A v \in Workers : v # w => wk'[v] = wk[v]  BY <1>8, <2>6
    <3>. QED  BY <1>1, <1>4, <2>8, <2>9, <3>1 DEF QuietMove
  <2>. QED  BY <2>10, <2>11, <2>12, QuietMoveInv
<1>. QED  BY <1>2, <1>6, <1>7, <1>8 DEF WorkRead

\* A row of #claim's loop is taken or passed over.
LEMMA RowTried ==
    ASSUME TypeOK, NEW w \in Workers, NEW r \in Runs, TryRow(w, r)
    PROVE  /\ \A v \in Workers : v # w => wk'[v] = wk[v]
           /\ wk'[w].pc \in {"pick", "cas"} /\ wk'[w].aborted = wk[w].aborted
<1>1. wk[w].pc = "pick"  BY DEF TryRow, At
<1>2. wk[w] \in Local /\ wk \in [Workers -> Local]  BY DEF TypeOK
<1>. DEFINE a == [wk[w] EXCEPT !.rows = @ \ {r}]
            b == [wk[w] EXCEPT !.rows = @ \ {r}, !.run = r, !.pc = "cas"]
<1>3. /\ a.pc = "pick" /\ a.aborted = wk[w].aborted
      /\ b.pc = "cas" /\ b.aborted = wk[w].aborted
  BY <1>1, <1>2 DEF Local
<1>4. wk' = [wk EXCEPT ![w] = a] \/ wk' = [wk EXCEPT ![w] = b]  BY <1>2 DEF TryRow
<1>. HIDE DEF a, b
<1>. QED  BY <1>3, <1>4, OthersStay

\* The part of a tick that looks for a run.
LEMMA FindOne ==
    ASSUME TypeOK, TypeOK', OneLoop, OneInv, LoopShared', NEW w \in Workers,
           \/ TickBegin(w) \/ Scan(w) \/ ScanDone(w)
           \/ \E r \in Runs : TryRow(w, r)
    PROVE  OneInv'
<1>1. /\ MayStep(w) /\ wk[w].pc \in {"idle", "expire", "rescan", "pick"}
      /\ UNCHANGED <<run, step, approval, ended, active, overruns, crashes>>
  BY DEF TickBegin, Scan, ScanDone, TryRow, At
<1>2. wk[w].pc \notin Inside  BY <1>1 DEF Inside
<1>3. ~wk[w].aborted  BY <1>2, OneParts DEF InsideInv
<1>4. wk[w] \in Local /\ wk \in [Workers -> Local]  BY DEF TypeOK
<1>5. /\ \A v \in Workers : v # w => wk'[v] = wk[v]
      /\ wk'[w].pc \in {"idle", "expire", "pick", "cas"} /\ ~wk'[w].aborted
  <2>1. CASE TickBegin(w) \/ Scan(w)
    BY <1>3, <1>4, <2>1 DEF TickBegin, Scan, Local
  <2>2. CASE ScanDone(w)  BY <1>4, <2>2 DEF ScanDone, Done, IdleLocal
  <2>3. ASSUME NEW r \in Runs, TryRow(w, r)
        PROVE  /\ \A v \in Workers : v # w => wk'[v] = wk[v]
               /\ wk'[w].pc \in {"pick", "cas"} /\ ~wk'[w].aborted
    BY <1>3, <2>3, RowTried
  <2>. QED  BY <2>1, <2>2, <2>3
<1>6. wk'[w].pc \notin Fresh \cup Inside \cup {"work"}  BY <1>5 DEF Fresh, Inside
<1>7. QuietMove(w)  BY <1>1, <1>2, <1>5, <1>6 DEF QuietMove
<1>. QED  BY <1>5, <1>6, <1>7, ClaimFree, InsideFree, QuietMoveInv

-----------------------------------------------------------------------------
(* Answers to approvals: one that expires, one that is resolved. *)

\* Approval a of step i of run r is answered: the step takes status s, and the
\* run goes on or fails.
Answers(a, r, i, s) ==
    /\ OnlyStatus(r, i, s)
    /\ approval'[a].run = r /\ approval'[a].step = i
    /\ approval'[a].state \notin {"none", "pending"}
    /\ \A b \in Approvals : b # a => approval'[b] = approval[b]
    /\ \/ s = "failed" /\ run'[r].status = "failed" /\ ended'[r] = Append(ended[r], "failed")
       \/ s = "approval_resolved" /\ run'[r].status = "running" /\ ended'[r] = ended[r]
    /\ run'[r].owner = None \/ (s = "failed" /\ run'[r].owner = run[r].owner)
    /\ \A q \in Runs : q # r => run'[q] = run[q] /\ ended'[q] = ended[q]

\* What a pending approval says of its run: its step is the first that is not
\* completed, waiting or cancelled with the run, and there is no other.
LEMMA PendingSays ==
    ASSUME TypeOK, OneInv, NEW a \in Approvals, approval[a].state = "pending",
           NEW r \in Runs, NEW i \in Steps, approval[a].run = r, approval[a].step = i
    PROVE  /\ Before(r, i) /\ step[r][i].appr = a /\ Kind[i] = "approval"
           /\ \/ step[r][i].status = "waiting_approval" /\ run[r].status = "waiting_approval"
              \/ step[r][i].status = "cancelled" /\ run[r].status = "cancelled"
           /\ \A j \in Steps : j > i => step[r][j].status \in {"queued", "cancelled"}
           /\ \A b \in Approvals : approval[b].run = r /\ approval[b].state = "pending" => b = a
<1>. Steps \subseteq Int  BY StepsAreNumbers
<1>1. /\ Before(r, i) /\ step[r][i].appr = a
      /\ \/ step[r][i].status = "waiting_approval" /\ run[r].status = "waiting_approval"
         \/ step[r][i].status = "cancelled" /\ run[r].status = "cancelled"
  BY OneParts DEF ApprovalInv
<1>2. Kind[i] = "approval"
  <2>1. a # None  BY NoneIsNoValue
  <2>. QED  BY <1>1, <2>1, OneParts DEF RowInv
<1>3. \A j \in Steps : Before(r, j) => ~(i < j)  BY <1>1 DEF Before
<1>4. ASSUME NEW j \in Steps, j > i  PROVE step[r][j].status \in {"queued", "cancelled"}
  <2>1. ~Before(r, j)  BY <1>3, <1>4
  <2>. QED  BY <2>1, OneParts DEF RowInv
<1>5. ASSUME NEW b \in Approvals, approval[b].run = r, approval[b].state = "pending"
      PROVE  b = a
  <2>1. PICK k \in Steps : k = approval[b].step  BY <1>5, AskedKnown
  <2>2. /\ Before(r, k) /\ step[r][k].appr = b
        /\ step[r][k].status \in {"waiting_approval", "cancelled"}
    BY <1>5, <2>1, OneParts DEF ApprovalInv
  <2>3. ~(i < k) /\ ~(k < i)  BY <1>1, <1>3, <2>2 DEF Before
  <2>4. i = k  BY <2>3
  <2>. QED  BY <1>1, <2>2, <2>4
<1>. QED  BY <1>1, <1>2, <1>4, <1>5

LEMMA AnswerTables ==
    ASSUME TypeOK, TypeOK', OneInv, NEW a \in Approvals, approval[a].state = "pending",
           NEW r \in Runs, NEW i \in Steps, approval[a].run = r, approval[a].step = i,
           NEW s, Answers(a, r, i, s)
    PROVE  TablesInv(r)'
<1>. Steps \subseteq Int  BY StepsAreNumbers
<1>1. /\ Before(r, i) /\ step[r][i].appr = a /\ Kind[i] = "approval"
      /\ \/ step[r][i].status = "waiting_approval" /\ run[r].status = "waiting_approval"
         \/ step[r][i].status = "cancelled" /\ run[r].status = "cancelled"
      /\ \A j \in Steps : j > i => step[r][j].status \in {"queued", "cancelled"}
      /\ \A b \in Approvals : approval[b].run = r /\ approval[b].state = "pending" => b = a
  BY PendingSays
<1>2. /\ \A j \in Steps : j # i => step'[r][j] = step[r][j]
      /\ step'[r][i].status = s /\ s \in {"failed", "approval_resolved"}
      /\ step'[r][i].attempt = step[r][i].attempt /\ step'[r][i].appr = a
  BY <1>1 DEF Answers, OnlyStatus
<1>3. Before(r, i)'  BY <1>1, <1>2 DEF Before
<1>4. \A j \in Steps : j # i => RowInv(r, j)'  BY <1>1, <1>2, AdvanceRows
<1>5. RowInv(r, i)'
  <2>1. RowInv(r, i)  BY OneParts
  <2>. QED  BY <1>1, <1>2, <1>3, <2>1 DEF RowInv, Answers
<1>6. ASSUME NEW b \in Approvals  PROVE ApprovalInv(r, b)'
  <2>1. CASE b = a  BY <1>2, <2>1 DEF ApprovalInv, Answers
  <2>2. CASE b # a /\ approval[b].run = r /\ approval[b].state # "none"
    <3>1. PICK k \in Steps : k = approval[b].step  BY <2>2, AskedKnown
    <3>2. approval'[b] = approval[b] /\ approval[b].state # "pending"
      BY <1>1, <2>2 DEF Answers
    <3>3. step[r][k].appr = b  BY <2>2, <3>1, OneParts DEF ApprovalInv
    <3>4. step'[r][k].appr = b  BY <1>1, <1>2, <3>3
    <3>. QED  BY <3>1, <3>2, <3>4 DEF ApprovalInv
  <2>3. CASE b # a /\ ~(approval[b].run = r /\ approval[b].state # "none")
    BY <2>3 DEF ApprovalInv, Answers
  <2>. QED  BY <2>1, <2>2, <2>3
<1>7. Woken(r)'  BY DEF Woken, Answers
<1>8. History(r)'
  <2>1. Answered(r)'  BY DEF Answered, Answers
  <2>2. History(r)  BY OneParts DEF TablesInv
  <2>3. "failed" \in Terminal /\ "running" \notin Terminal /\ "waiting_approval" \notin Terminal
    BY DEF Terminal
  <2>. QED  BY <1>1, <2>1, <2>2, <2>3, HistoryKept DEF Answers
<1>. QED  BY <1>4, <1>5, <1>6, <1>7, <1>8 DEF TablesInv

LEMMA AnswerBudget ==
    ASSUME TypeOK, TypeOK', OneInv, NEW a \in Approvals, approval[a].state = "pending",
           NEW r \in Runs, NEW i \in Steps, approval[a].run = r, approval[a].step = i,
           NEW s, Answers(a, r, i, s), UNCHANGED <<overruns, crashes>>,
           NEW j \in Steps
    PROVE  BudgetInv(r, j)'
<1>1. BudgetInv(r, j) /\ overruns' + crashes' >= overruns + crashes
  BY OneParts DEF TypeOK
<1>2. \A v \in Workers : ~AtWorkOn(v, r, j)  BY PendingUnheld DEF AtWorkOn
<1>3. CASE j # i
  <2>1. step'[r][j] = step[r][j]  BY <1>3 DEF Answers, OnlyStatus
  <2>2. step'[r][j].attempt = step[r][j].attempt /\ (j \in Open(r)' => j \in Open(r))
    BY <2>1 DEF Open
  <2>. QED  BY <1>1, <1>2, <2>2, BudgetKept
<1>4. CASE j = i
  <2>1. Kind[i] = "approval"  BY PendingSays
  <2>2. step[r][i].attempt = 0  BY <2>1, OneParts DEF RowInv
  <2>3. step'[r][i].attempt = 0  BY <2>2 DEF Answers, OnlyStatus
  <2>4. PICK m \in Nat, b \in Nat, c \in Nat :
           m = MaxAttempts[i] /\ m > 0 /\ b = overruns' /\ c = crashes'
    <3>1. MaxAttempts[i] \in Nat \ {0}  BY ConstantTypes
    <3>2. overruns' \in Nat /\ crashes' \in Nat  BY ConstantTypes DEF TypeOK
    <3>. QED  BY <3>1, <3>2
  <2>5. Budget(i)' = m + b + c  BY <2>4 DEF Budget
  <2>6. 0 < m + b + c  BY <2>4
  <2>7. step'[r][i].attempt < Budget(i)'  BY <2>3, <2>5, <2>6
  <2>8. step'[r][i].attempt <= Budget(i)'  BY <2>3, <2>5, <2>6
  <2>. QED  BY <1>4, <2>7, <2>8 DEF BudgetInv
<1>. QED  BY <1>3, <1>4

\* No other run is touched.
LEMMA AnswerElsewhere ==
    ASSUME TypeOK, NEW a \in Approvals, approval[a].state = "pending",
           NEW r \in Runs, NEW i \in Steps, approval[a].run = r, approval[a].step = i,
           NEW s, Answers(a, r, i, s), NEW q \in Runs, q # r
    PROVE  SameRun(q)
<1>1. SameRows(q) /\ SameLease(q)  BY DEF SameRows, SameLease, Answers, OnlyStatus
<1>2. SameAsked(q)  BY DEF SameAsked, Answers
<1>. QED  BY <1>1, <1>2 DEF SameRun

\* #expireApprovalLocked
LEMMA ExpireAnswers ==
    ASSUME TypeOK, NEW a \in Approvals, approval[a].state = "pending",
           NEW r \in Runs, NEW i \in Steps, approval[a].run = r, approval[a].step = i,
           ExpireApproval(a)
    PROVE  Answers(a, r, i, "failed") /\ run'[r].owner = None
<1>1. OnlyStatus(r, i, "failed")  BY StatusWritten DEF ExpireApproval
<1>2. /\ approval'[a].run = r /\ approval'[a].step = i /\ approval'[a].state = "expired"
      /\ \A b \in Approvals : b # a => approval'[b] = approval[b]
  <2>1. /\ approval[a] \in ApprovalRow /\ approval \in [Approvals -> ApprovalRow]
        /\ approval' = [approval EXCEPT ![a].state = "expired"]
    BY DEF TypeOK, ExpireApproval
  <2>. QED  BY <2>1 DEF ApprovalRow
<1>3. /\ run'[r].status = "failed" /\ run'[r].owner = None
      /\ \A q \in Runs : q # r => run'[q] = run[q]
  BY UnleasedRow DEF ExpireApproval
<1>4. /\ ended'[r] = Append(ended[r], "failed")
      /\ \A q \in Runs : q # r => ended'[q] = ended[q]
  BY Recorded1 DEF ExpireApproval
<1>. QED  BY <1>1, <1>2, <1>3, <1>4 DEF Answers

\* An approval found overdue by a tick.
LEMMA ExpireOneInv ==
    ASSUME TypeOK, TypeOK', DistinctIds, OneLoop, OneInv, LoopShared',
           NEW w \in Workers, NEW a \in Approvals, ExpireOne(w, a)
    PROVE  OneInv'
<1>1. /\ MayStep(w) /\ wk[w].pc = "expire" /\ wk[w].pc \notin Inside
      /\ UNCHANGED <<active, overruns, crashes>>
  BY DEF ExpireOne, At, Inside
<1>2. /\ wk'[w].pc = "expire" /\ ~wk'[w].aborted
      /\ \A v \in Workers : v # w => wk'[v] = wk[v]
  <2>1. wk[w] \in Local  BY DEF TypeOK
  <2>. DEFINE l == [wk[w] EXCEPT !.due = @ \ {a}]
  <2>2. l.pc = wk[w].pc /\ l.aborted = wk[w].aborted  BY <2>1 DEF Local
  <2>3. wk' = [wk EXCEPT ![w] = l]  BY DEF ExpireOne, TypeOK
  <2>. HIDE DEF l
  <2>4. wk'[w] = l /\ \A v \in Workers : v # w => wk'[v] = wk[v]  BY <2>3, OthersStay
  <2>5. ~wk[w].aborted  BY <1>1, OneParts DEF InsideInv
  <2>. QED  BY <1>1, <2>2, <2>4, <2>5
<1>3. wk'[w].pc \notin Fresh \cup Inside \cup {"work"}  BY <1>2 DEF Fresh, Inside
<1>4. ClaimInv(w)' /\ InsideInv(w)' /\ LoneInv(w)'  BY <1>2, <1>3, ClaimFree, InsideFree
<1>5. CASE approval[a].state = "pending" /\ ExpireApproval(a)
  <2>1. PICK r \in Runs, i \in Steps : r = approval[a].run /\ i = approval[a].step
    BY <1>5, AskedKnown
  <2>2. Answers(a, r, i, "failed") /\ run'[r].owner = None  BY <1>5, <2>1, ExpireAnswers
  <2>3. TablesInv(r)'  BY <1>5, <2>1, <2>2, AnswerTables
  <2>4. \A j \in Steps : BudgetInv(r, j)'  BY <1>1, <1>5, <2>1, <2>2, AnswerBudget
  <2>5. OwnStep(w, r)
    <3>1. \A q \in Runs : q # r => SameRun(q)  BY <1>5, <2>1, <2>2, AnswerElsewhere
    <3>2. overruns = 0 => \A v \in Workers : v # w => ~(wk[v].pc \in Inside /\ R(v) = r)
      BY <1>5, <2>1, PendingAlone
    <3>. QED  BY <1>1, <1>2, <1>3, <2>2, <3>1, <3>2 DEF OwnStep
  <2>6. ActiveInv'  BY <1>1, <1>2, OneParts, ActiveKept
  <2>. QED  BY <1>4, <2>3, <2>4, <2>5, <2>6, OwnStepInv
<1>6. CASE UNCHANGED <<run, step, approval, ended>>
  <2>1. QuietMove(w)  BY <1>1, <1>2, <1>3, <1>6 DEF QuietMove
  <2>. QED  BY <1>4, <2>1, QuietMoveInv
<1>. QED  BY <1>5, <1>6 DEF ExpireOne

LEMMA TickOne ==
    ASSUME TypeOK, TypeOK', DistinctIds, OneLoop, OneInv, LoopShared',
           NEW w \in Workers, Tick(w)
    PROVE  OneInv'
<1>1. CASE TickBegin(w) \/ Scan(w) \/ ScanDone(w)  BY <1>1, FindOne
<1>2. ASSUME NEW r \in Runs, TryRow(w, r)  PROVE OneInv'  BY <1>2, FindOne
<1>3. CASE Claim(w)  BY <1>3, ClaimOne
<1>4. CASE WorkRead(w)  BY <1>4, ReadOne
<1>5. CASE MarkStarted(w) \/ MarkResumed(w)  BY <1>5, MarkOne
<1>6. CASE ScheduleTimer(w) \/ CompleteWait(w) \/ FailCommit(w)  BY <1>6, FinishOne
<1>7. CASE LookupEffect(w)  BY <1>7, LookupOne
<1>8. CASE BeginAttempt(w)  BY <1>8, BeginOne
<1>9. ASSUME NEW a \in Approvals, ExpireOne(w, a)  PROVE OneInv'  BY <1>9, ExpireOneInv
<1>10. ASSUME NEW a \in Approvals, RequestApproval(w, a)  PROVE OneInv'
  BY <1>10, RequestOne
<1>. QED  BY <1>1, <1>2, <1>3, <1>4, <1>5, <1>6, <1>7, <1>8, <1>9, <1>10 DEF Tick

-----------------------------------------------------------------------------
(* Client calls: every worker is at an await. *)

\* A call on run r tells at most a worker of that run to abort.
CallOn(r) ==
    /\ \A v \in Workers : wk[v].pc \in Async
    /\ \A v \in Workers : /\ wk'[v].pc = wk[v].pc /\ wk'[v].run = wk[v].run
                          /\ wk'[v].step = wk[v].step /\ wk'[v].attempt = wk[v].attempt
                          /\ wk'[v] = wk[v] \/ (wk[v].pc \in Inside /\ wk[v].run = r)
    /\ \A q \in Runs : q # r => SameRun(q)
    /\ UNCHANGED <<active, overruns, crashes>>

LEMMA CallOnInv ==
    ASSUME TypeOK, TypeOK', OneInv, LoopShared', NEW r \in Runs, CallOn(r),
           TablesInv(r)', \A i \in Steps : BudgetInv(r, i)',
           \A v \in Workers : wk[v].pc \in Inside /\ wk[v].run = r =>
              InsideInv(v)' /\ LoneInv(v)'
    PROVE  OneInv'
<1>1. ASSUME NEW q \in Runs, q # r  PROVE TablesInv(q)'
  BY <1>1, OneParts, SameTables DEF CallOn, SameRun
<1>2. ASSUME NEW q \in Runs, q # r, NEW i \in Steps  PROVE BudgetInv(q, i)'
  <2>1. ASSUME NEW v \in Workers, AtWorkOn(v, q, i)  PROVE AtWorkOn(v, q, i)'
    BY <1>2, <2>1 DEF CallOn, AtWorkOn, R, I, Holds, SameRun, SameRows, SameLease
  <2>2. /\ step'[q][i].attempt = step[q][i].attempt
        /\ i \in Open(q)' => i \in Open(q)
    BY <1>2 DEF CallOn, SameRun, SameRows, Open
  <2>3. BudgetInv(q, i)  BY OneParts
  <2>4. overruns' + crashes' >= overruns + crashes  BY DEF CallOn, TypeOK
  <2>. QED  BY <2>1, <2>2, <2>3, <2>4, BudgetKept
<1>3. ASSUME NEW v \in Workers  PROVE ClaimInv(v)'
  <2>1. wk'[v].pc \notin Fresh \cup {"work"}  BY PlacesApart DEF CallOn
  <2>. QED  BY <2>1, ClaimFree
<1>4. ASSUME NEW v \in Workers  PROVE InsideInv(v)' /\ LoneInv(v)'
  <2>1. CASE wk[v].pc \in Inside /\ wk[v].run = r  BY <2>1
  <2>2. CASE wk[v].pc \in Inside /\ wk[v].run # r
    <3>1. wk'[v] = wk[v] /\ wk[v].pc # "failing"  BY <2>2 DEF CallOn, Async
    <3>2. R(v) \in Runs /\ I(v) \in Steps /\ R(v) = wk[v].run /\ R(v)' = R(v)
          /\ ProcOf[v] \in Procs
      BY <2>2, <3>1, WorkerKnows, PlacesApart, ConstantTypes DEF R
    <3>3. SameRun(R(v))  BY <2>2, <3>2 DEF CallOn
    <3>4. InsideInv(v)'
      BY <3>1, <3>2, <3>3, InsideKept, OneParts DEF Holds, SameRun, SameRows, SameLease
    <3>5. /\ active'[ProcOf[v]][R(v)] = active[ProcOf[v]][R(v)]
          /\ overruns' = 0 => overruns = 0
          /\ \A u \in Workers : u # v /\ wk'[u].pc \in Inside /\ wk'[u].run = R(v) =>
                wk[u].pc \in Inside /\ wk[u].run = R(v)
      BY DEF CallOn
    <3>6. LoneInv(v)'  BY <3>1, <3>3, <3>5, LoneKept, OneParts
    <3>. QED  BY <3>4, <3>6
  <2>3. CASE wk[v].pc \notin Inside
    <3>1. wk'[v].pc \notin Inside /\ ~wk'[v].aborted
      BY <2>3, OneParts DEF CallOn, InsideInv
    <3>. QED  BY <3>1, InsideFree
  <2>. QED  BY <2>1, <2>2, <2>3
<1>5. ActiveInv'
  <2>1. ASSUME NEW p \in Procs, NEW q \in Runs, active'[p][q] # None
        PROVE  /\ wk'[active'[p][q]].pc \in Inside /\ wk'[active'[p][q]].run = q
               /\ ProcOf[active'[p][q]] = p
    <3>1. active'[p][q] = active[p][q]  BY DEF CallOn
    <3>2. active[p][q] \in Workers  BY <2>1, <3>1 DEF TypeOK
    <3>. QED  BY <2>1, <3>1, <3>2, OneParts DEF ActiveInv, CallOn, R
  <2>. QED  BY <2>1 DEF ActiveInv, R
<1>6. \A q \in Runs : TablesInv(q)'  BY <1>1
<1>7. \A q \in Runs, i \in Steps : BudgetInv(q, i)'  BY <1>2
<1>8. \A v \in Workers : ClaimInv(v)' /\ InsideInv(v)' /\ LoneInv(v)'  BY <1>3, <1>4
<1>. QED  BY <1>5, <1>6, <1>7, <1>8 DEF OneInv

\* start
LEMMA StartOne ==
    ASSUME TypeOK, TypeOK', OneLoop, OneInv, LoopShared', NEW p \in Procs,
           NEW r \in Runs, Start(p, r)
    PROVE  OneInv'
<1>1. /\ MayCall(p) /\ run[r].status = "none" /\ run \in [Runs -> RunRow]
      /\ run[r] \in RunRow /\ run' = [run EXCEPT ![r].status = "queued"]
      /\ UNCHANGED <<step, approval, ended, wk, active, overruns, crashes>>
  BY DEF Start, TypeOK
<1>2. /\ run'[r].status = "queued" /\ run'[r].owner = run[r].owner
      /\ run'[r].lapsed = run[r].lapsed
      /\ \A q \in Runs : q # r => run'[q] = run[q]
  BY <1>1 DEF RunRow
<1>3. \A v \in Workers : wk[v].pc \in Async  BY <1>1, ClientsWait, NoneIsNoValue
<1>4. CallOn(r)
  <2>1. \A q \in Runs : q # r => SameRun(q)
    BY <1>1, <1>2 DEF SameRun, SameRows, SameAsked, SameLease
  <2>. QED  BY <1>1, <1>3, <2>1 DEF CallOn
<1>5. TablesInv(r)'  BY <1>1, <1>2, WakeTables
<1>6. \A v \in Workers : Holds(v, r) <=> Holds(v, r)'
  BY <1>1, <1>2 DEF Holds, Terminal
<1>7. ASSUME NEW i \in Steps  PROVE BudgetInv(r, i)'
  <2>1. \A v \in Workers : AtWorkOn(v, r, i) => AtWorkOn(v, r, i)'
    BY <1>1, <1>2, <1>6 DEF AtWorkOn, R, I
  <2>2. step'[r][i].attempt = step[r][i].attempt /\ (i \in Open(r)' => i \in Open(r))
    BY <1>1 DEF Open
  <2>3. BudgetInv(r, i) /\ overruns' + crashes' >= overruns + crashes
    BY <1>1, OneParts DEF TypeOK
  <2>. QED  BY <2>1, <2>2, <2>3, BudgetKept
<1>8. ASSUME NEW v \in Workers, wk[v].pc \in Inside, wk[v].run = r
      PROVE  InsideInv(v)' /\ LoneInv(v)'
  <2>1. R(v) = r /\ R(v)' = r /\ I(v) \in Steps /\ wk'[v] = wk[v] /\ wk[v].pc # "failing"
    BY <1>1, <1>3, <1>8, WorkerKnows, PlacesApart DEF R, Async
  <2>2. InsideInv(v)'  BY <1>1, <1>2, <1>6, <2>1, InsideKept, OneParts
  <2>3. overruns # 0
    <3>1. ~Holds(v, r)
      BY <1>1, <1>8, <2>1, OneParts DEF InsideInv, RowInv
    <3>. QED  BY <1>1, <1>8, <2>1, <3>1, OneParts DEF LoneInv, Terminal
  <2>4. LoneInv(v)'  BY <1>1, <2>3 DEF LoneInv
  <2>. QED  BY <2>2, <2>4
<1>. QED  BY <1>4, <1>5, <1>7, <1>8, CallOnInv

\* resolveApproval: looks at the approval only.
LEMMA ResolveOne ==
    ASSUME TypeOK, TypeOK', OneLoop, OneInv, LoopShared', NEW p \in Procs,
           NEW a \in Approvals, NEW d \in {"approved", "rejected"}, Resolve(p, a, d)
    PROVE  OneInv'
<1>1. /\ MayCall(p) /\ approval[a].state = "pending"
      /\ UNCHANGED <<wk, active, overruns, crashes>>
  BY DEF Resolve
<1>2. PICK r \in Runs, i \in Steps : r = approval[a].run /\ i = approval[a].step
  BY <1>1, AskedKnown
<1>3. \A v \in Workers : wk[v].pc \in Async  BY <1>1, ClientsWait, NoneIsNoValue
<1>4. \E s : Answers(a, r, i, s)
  <2>1. CASE ExpireApproval(a)  BY <1>1, <1>2, <2>1, ExpireAnswers
  <2>2. ASSUME approval' = [approval EXCEPT ![a].state = d]
        PROVE  /\ approval'[a].run = r /\ approval'[a].step = i
               /\ approval'[a].state \notin {"none", "pending"}
               /\ \A b \in Approvals : b # a => approval'[b] = approval[b]
    <3>1. approval[a] \in ApprovalRow /\ approval \in [Approvals -> ApprovalRow]
      BY DEF TypeOK
    <3>. QED  BY <1>2, <2>2, <3>1 DEF ApprovalRow
  <2>3. CASE /\ approval' = [approval EXCEPT ![a].state = d]
             /\ step' = [step EXCEPT ![r][i].status = "approval_resolved"]
             /\ run' = Unleased(r, "running")
             /\ UNCHANGED ended
    <3>1. OnlyStatus(r, i, "approval_resolved")  BY <2>3, StatusWritten
    <3>2. /\ run'[r].status = "running" /\ run'[r].owner = None
          /\ \A q \in Runs : q # r => run'[q] = run[q]
      BY <2>3, UnleasedRow
    <3>3. Answers(a, r, i, "approval_resolved")  BY <2>2, <2>3, <3>1, <3>2 DEF Answers
    <3>. QED  BY <3>3
  <2>4. CASE /\ approval' = [approval EXCEPT ![a].state = d]
             /\ step' = [step EXCEPT ![r][i].status = "failed"]
             /\ run' = [run EXCEPT ![r].status = "failed"]
             /\ Record(r, "failed")
    <3>1. OnlyStatus(r, i, "failed")  BY <2>4, StatusWritten
    <3>2. /\ run'[r].status = "failed" /\ run'[r].owner = run[r].owner
          /\ \A q \in Runs : q # r => run'[q] = run[q]
      <4>1. run \in [Runs -> RunRow] /\ run[r] \in RunRow  BY DEF TypeOK
      <4>. QED  BY <2>4, <4>1 DEF RunRow
    <3>3. /\ ended'[r] = Append(ended[r], "failed")
          /\ \A q \in Runs : q # r => ended'[q] = ended[q]
      BY <2>4, Recorded1
    <3>4. Answers(a, r, i, "failed")  BY <2>2, <2>4, <3>1, <3>2, <3>3 DEF Answers
    <3>. QED  BY <3>4
  <2>. QED  BY <1>2, <2>1, <2>3, <2>4 DEF Resolve
<1>5. PICK s : Answers(a, r, i, s)  BY <1>4
<1>6. TablesInv(r)'  BY <1>1, <1>2, <1>5, AnswerTables
<1>7. \A j \in Steps : BudgetInv(r, j)'  BY <1>1, <1>2, <1>5, AnswerBudget
<1>8. CallOn(r)
  <2>1. \A q \in Runs : q # r => SameRun(q)  BY <1>1, <1>2, <1>5, AnswerElsewhere
  <2>. QED  BY <1>1, <1>3, <2>1 DEF CallOn
<1>9. ASSUME NEW v \in Workers, wk[v].pc \in Inside, wk[v].run = r
      PROVE  InsideInv(v)' /\ LoneInv(v)'
  <2>1. R(v) = r /\ R(v)' = r /\ wk'[v] = wk[v] /\ wk[v].pc # "failing"
    BY <1>1, <1>3, <1>9 DEF R, Async
  <2>2. ~Holds(v, r)'
    <3>1. IdOf[v] # None  BY NoneIsNoValue DEF Ids
    <3>. QED  BY <1>5, <3>1 DEF Answers, Holds, Terminal
  <2>3. run'[r].owner # IdOf[v] \/ run'[r].owner = run[r].owner
    <3>1. IdOf[v] # None  BY NoneIsNoValue DEF Ids
    <3>. QED  BY <1>5, <3>1 DEF Answers
  <2>4. InsideInv(v)'  BY <2>1, <2>2, <2>3, InsideKept, OneParts
  <2>5. overruns # 0  BY <1>1, <1>2, <1>9, <2>1, PendingAlone
  <2>6. LoneInv(v)'  BY <1>1, <2>5 DEF LoneInv
  <2>. QED  BY <2>4, <2>6
<1>. QED  BY <1>6, <1>7, <1>8, <1>9, CallOnInv

\* cancel: whoever is inside a handler of the run is told to abort.
LEMMA CancelOne ==
    ASSUME TypeOK, TypeOK', OneLoop, OneInv, LoopShared', NEW p \in Procs,
           NEW r \in Runs, Cancel(p, r)
    PROVE  OneInv'
<1>1. /\ MayCall(p) /\ run[r].status \notin Terminal /\ wk' = AbortActive(p, r)
      /\ UNCHANGED <<approval, active, overruns, crashes>>
  BY DEF Cancel, Cancellable
<1>2. \A v \in Workers : wk[v].pc \in Async /\ ProcOf[v] = p
  BY <1>1, ClientsWait, NoneIsNoValue
<1>3. /\ run'[r].status = "cancelled" /\ run'[r].owner = None
      /\ \A q \in Runs : q # r => run'[q] = run[q]
  BY UnleasedRow DEF Cancel
<1>4. /\ ended'[r] = Append(ended[r], "cancelled")
      /\ \A q \in Runs : q # r => ended'[q] = ended[q]
  BY Recorded1 DEF Cancel
<1>5. /\ \A q \in Runs : q # r => step'[q] = step[q]
      /\ \A i \in Steps : /\ step'[r][i].attempt = step[r][i].attempt
                          /\ step'[r][i].appr = step[r][i].appr
                          /\ step'[r][i].status = IF step[r][i].status = "completed"
                                                  THEN "completed" ELSE "cancelled"
  <2>1. step \in [Runs -> [Steps -> StepRow]]  BY DEF TypeOK
  <2>2. step' = [step EXCEPT ![r] = [i \in Steps |->
                   IF step[r][i].status = "completed" THEN step[r][i]
                   ELSE [step[r][i] EXCEPT !.status = "cancelled"]]]
    BY DEF Cancel
  <2>3. ASSUME NEW i \in Steps
        PROVE  /\ step'[r][i].attempt = step[r][i].attempt
               /\ step'[r][i].appr = step[r][i].appr
               /\ step'[r][i].status = IF step[r][i].status = "completed"
                                       THEN "completed" ELSE "cancelled"
    <3>1. step[r][i] \in StepRow  BY <2>1
    <3>2. step'[r][i] = IF step[r][i].status = "completed" THEN step[r][i]
                        ELSE [step[r][i] EXCEPT !.status = "cancelled"]
      BY <2>1, <2>2
    <3>3. LET row == [step[r][i] EXCEPT !.status = "cancelled"]
          IN  /\ row.status = "cancelled" /\ row.attempt = step[r][i].attempt
              /\ row.appr = step[r][i].appr
      BY <3>1 DEF StepRow
    <3>. QED  BY <3>2, <3>3
  <2>4. \A q \in Runs : q # r => step'[q] = step[q]  BY <2>1, <2>2
  <2>. QED  BY <2>3, <2>4
<1>6. \A v \in Workers :
         /\ wk'[v].pc = wk[v].pc /\ wk'[v].run = wk[v].run
         /\ wk'[v].step = wk[v].step /\ wk'[v].attempt = wk[v].attempt
         /\ v = active[p][r] => wk'[v].aborted
         /\ v # active[p][r] => wk'[v] = wk[v]
  <2>. SUFFICES ASSUME NEW v \in Workers
                PROVE  /\ wk'[v].pc = wk[v].pc /\ wk'[v].run = wk[v].run
                       /\ wk'[v].step = wk[v].step /\ wk'[v].attempt = wk[v].attempt
                       /\ v = active[p][r] => wk'[v].aborted
                       /\ v # active[p][r] => wk'[v] = wk[v]
    OBVIOUS
  <2>1. wk[v] \in Local  BY DEF TypeOK
  <2>. DEFINE l == [wk[v] EXCEPT !.aborted = TRUE]
  <2>2. /\ l.pc = wk[v].pc /\ l.run = wk[v].run /\ l.step = wk[v].step
        /\ l.attempt = wk[v].attempt /\ l.aborted
    BY <2>1 DEF Local
  <2>3. wk'[v] = IF v = active[p][r] THEN l ELSE wk[v]  BY <1>1 DEF AbortActive
  <2>. HIDE DEF l
  <2>. QED  BY <2>2, <2>3
<1>7. CallOn(r)
  <2>1. \A v \in Workers : v = active[p][r] => wk[v].pc \in Inside /\ wk[v].run = r
    BY OneParts, NoneIsNoValue DEF ActiveInv, R
  <2>2. \A q \in Runs : q # r => SameRun(q)
    BY <1>1, <1>3, <1>4, <1>5 DEF SameRun, SameRows, SameAsked, SameLease
  <2>. QED  BY <1>1, <1>2, <1>6, <2>1, <2>2 DEF CallOn
<1>8. TablesInv(r)'
  <2>1. \A i \in Steps : Before(r, i)' <=> Before(r, i)  BY <1>5 DEF Before
  <2>2. ASSUME NEW i \in Steps  PROVE RowInv(r, i)'
    <3>1. RowInv(r, i)  BY OneParts
    <3>2. step'[r][i].status = "completed" => step[r][i].status = "completed"  BY <1>5
    <3>3. step'[r][i].status = "completed" => Before(r, i)'  BY <2>1, <3>1, <3>2 DEF RowInv
    <3>. QED  BY <1>5, <3>1, <3>3 DEF RowInv
  <2>3. ASSUME NEW a \in Approvals  PROVE ApprovalInv(r, a)'
    <3>. SUFFICES ASSUME approval[a].run = r, approval[a].state # "none"
                  PROVE  ApprovalInv(r, a)'
      BY <1>1 DEF ApprovalInv
    <3>1. PICK k \in Steps : k = approval[a].step  BY AskedKnown
    <3>2. ApprovalInv(r, a)  BY OneParts
    <3>3. step'[r][k].appr = a  BY <1>5, <3>1, <3>2 DEF ApprovalInv
    <3>4. approval[a].state = "pending" =>
             Before(r, k)' /\ step'[r][k].status = "cancelled"
      BY <1>5, <2>1, <3>1, <3>2 DEF ApprovalInv
    <3>. QED  BY <1>1, <1>3, <3>1, <3>3, <3>4 DEF ApprovalInv
  <2>4. Woken(r)'  BY <1>3 DEF Woken
  <2>5. History(r)'
    <3>1. Answered(r) => Answered(r)'  BY <1>1 DEF Answered
    <3>2. History(r) /\ "cancelled" \in Terminal  BY OneParts DEF TablesInv, Terminal
    <3>. QED  BY <1>1, <1>3, <1>4, <3>1, <3>2, HistoryKept
  <2>. QED  BY <2>2, <2>3, <2>4, <2>5 DEF TablesInv
<1>9. ASSUME NEW i \in Steps  PROVE BudgetInv(r, i)'
  <2>1. step'[r][i].attempt = step[r][i].attempt /\ i \notin Open(r)'
    BY <1>5 DEF Open, Terminal
  <2>2. BudgetInv(r, i) /\ overruns' + crashes' >= overruns + crashes
    BY <1>1, OneParts DEF TypeOK
  <2>. QED  BY <2>1, <2>2, BudgetKept
<1>10. ASSUME NEW v \in Workers, wk[v].pc \in Inside, wk[v].run = r
       PROVE  InsideInv(v)' /\ LoneInv(v)'
  <2>1. /\ R(v) = r /\ R(v)' = r /\ I(v)' = I(v) /\ wk'[v].pc = wk[v].pc
        /\ wk[v].pc # "failing" /\ IdOf[v] # None
    BY <1>2, <1>6, <1>10, NoneIsNoValue DEF R, I, Async, Ids
  <2>2. ~Holds(v, r)'  BY <1>3, <2>1 DEF Holds
  <2>3. InsideInv(v)'
    <3>1. Kind[I(v)] = "activity"  BY <1>10, OneParts DEF InsideInv
    <3>. QED  BY <1>3, <1>10, <2>1, <2>2, <3>1 DEF InsideInv
  <2>4. ASSUME overruns = 0  PROVE LoneInv(v)'
    <3>1. /\ \A u \in Workers : u # v => ~(wk[u].pc \in Inside /\ wk[u].run = r)
          /\ active[ProcOf[v]][r] = v
      BY <1>10, <2>1, <2>4, OneParts DEF LoneInv, R
    <3>2. \A a \in Approvals : approval[a].run = r => approval[a].state # "pending"
      BY <1>10, <2>1, <2>4, PendingAlone
    <3>3. wk'[v].aborted  BY <1>2, <1>6, <3>1
    <3>4. \A u \in Workers : u # v => ~(wk'[u].pc \in Inside /\ wk'[u].run = r)
      BY <1>6, <3>1
    <3>. QED  BY <1>1, <1>3, <2>1, <3>1, <3>2, <3>3, <3>4 DEF LoneInv, R, Terminal
  <2>5. overruns # 0 => LoneInv(v)'  BY <1>1 DEF LoneInv
  <2>. QED  BY <2>3, <2>4, <2>5
<1>. QED  BY <1>7, <1>8, <1>9, <1>10, CallOnInv

-----------------------------------------------------------------------------
(* The environment. *)

\* Nothing moves but what no part of the invariant reads, and due times that pass.
LEMMA QuietEnv ==
    ASSUME TypeOK, TypeOK', OneInv, LoopShared',
           UNCHANGED <<wk, active, overruns, crashes>>, \A q \in Runs : SameRun(q),
           \A q \in Runs, i \in Steps : step[q][i].due => step'[q][i].due
    PROVE  OneInv'
<1>1. ASSUME NEW q \in Runs  PROVE TablesInv(q)'
  BY OneParts, SameTables DEF SameRun
<1>2. ASSUME NEW q \in Runs, NEW i \in Steps  PROVE BudgetInv(q, i)'
  <2>1. ASSUME NEW v \in Workers, AtWorkOn(v, q, i)  PROVE AtWorkOn(v, q, i)'
    BY <2>1 DEF AtWorkOn, R, I, Holds, SameRun, SameRows, SameLease
  <2>2. /\ step'[q][i].attempt = step[q][i].attempt
        /\ i \in Open(q)' => i \in Open(q)
    BY DEF SameRun, SameRows, Open
  <2>3. BudgetInv(q, i) /\ overruns' + crashes' >= overruns + crashes
    BY OneParts DEF TypeOK
  <2>. QED  BY <2>1, <2>2, <2>3, BudgetKept
<1>3. ASSUME NEW v \in Workers  PROVE ClaimInv(v)'
  <2>. SUFFICES ASSUME wk[v].pc \in Fresh \cup {"work"}  PROVE ClaimInv(v)'
    BY ClaimFree
  <2>1. PICK r \in Runs : r = R(v) /\ r = R(v)'
    BY WorkerKnows, PlacesApart, ControlPoints DEF R
  <2>2. /\ SameRows(r) /\ SameLease(r) /\ ClaimInv(v)  BY <2>1, OneParts DEF SameRun
  <2>3. Open(r)' = Open(r) /\ Open(r) \subseteq Steps  BY <2>2 DEF Open, SameRows
  <2>4. Holds(v, r)' /\ \A i \in Open(r) : Spare(r, i)'
    <3>1. \A i \in Steps : Budget(i)' = Budget(i)  BY DEF Budget
    <3>. QED  BY <2>1, <2>2, <2>3, <3>1 DEF ClaimInv, Holds, Spare, SameRows, SameLease
  <2>5. overruns' = 0 => ~run'[r].lapsed  BY <2>1, <2>2 DEF ClaimInv, SameLease
  <2>6. CASE wk[v].pc = "work"
    BY <2>1, <2>3, <2>4, <2>5, <2>6 DEF ClaimInv, Fresh
  <2>7. CASE wk[v].pc \in Fresh
    <3>1. PICK i \in Steps : i = I(v) /\ i = I(v)'  BY <2>7, WorkerKnows, PlacesApart DEF I
    <3>2. i \in NextRunnableStep(r)  BY <2>1, <2>2, <2>7, <3>1 DEF ClaimInv
    <3>3. i \in NextRunnableStep(r)'
      BY <2>2, <2>3, <3>2 DEF NextRunnableStep, SameRows
    <3>4. Handling(r, i)' = Handling(r, i)  BY <2>2 DEF Handling, SameRows
    <3>. QED
      BY <2>1, <2>2, <2>3, <2>4, <2>5, <2>7, <3>1, <3>3, <3>4 DEF ClaimInv, SameRows
  <2>. QED  BY <2>6, <2>7
<1>4. ASSUME NEW v \in Workers  PROVE InsideInv(v)'
  <2>1. wk[v].pc \in Inside => SameRun(R(v)) /\ R(v)' = R(v) /\ I(v) \in Steps
    BY WorkerKnows, PlacesApart DEF R
  <2>. QED  BY <2>1, InsideKept, OneParts DEF InsideInv, Holds, SameRun, SameRows, SameLease
<1>5. ASSUME NEW v \in Workers  PROVE LoneInv(v)'
  <2>1. wk[v].pc \in Inside => SameRun(R(v))  BY WorkerKnows, PlacesApart
  <2>. QED  BY <2>1, LoneKept, OneParts
<1>6. ActiveInv'  BY OneParts DEF ActiveInv, R
<1>. QED  BY <1>1, <1>2, <1>3, <1>4, <1>5, <1>6 DEF OneInv

\* A due time passes, an invocation that was given up ends, nothing happens.
LEMMA PassiveOne ==
    ASSUME TypeOK, TypeOK', OneInv, LoopShared',
           \/ \E r \in Runs, i \in Steps : TimerDue(r, i)
           \/ \E a \in Approvals : ApprovalDue(a)
           \/ \E z \in zombie : ZombieReturns(z)
           \/ UNCHANGED vars
    PROVE  OneInv'
<1>1. ASSUME NEW r \in Runs, NEW i \in Steps, TimerDue(r, i)  PROVE OneInv'
  <2>1. UNCHANGED <<run, approval, ended, wk, active, overruns, crashes>>
    BY <1>1 DEF TimerDue
  <2>2. /\ \A q \in Runs, j \in Steps :
              /\ step'[q][j].status = step[q][j].status
              /\ step'[q][j].attempt = step[q][j].attempt
              /\ step'[q][j].appr = step[q][j].appr
              /\ step[q][j].due => step'[q][j].due
    <3>1. step[r][i] \in StepRow /\ step \in [Runs -> [Steps -> StepRow]]  BY DEF TypeOK
    <3>. DEFINE row == [step[r][i] EXCEPT !.due = TRUE]
    <3>2. /\ row.status = step[r][i].status /\ row.attempt = step[r][i].attempt
          /\ row.appr = step[r][i].appr /\ row.due
      BY <3>1 DEF StepRow
    <3>3. step' = [step EXCEPT ![r][i] = row]  BY <1>1, <3>1 DEF TimerDue
    <3>. HIDE DEF row
    <3>4. step'[r][i] = row /\ \A q \in Runs, j \in Steps : q # r \/ j # i => step'[q][j] = step[q][j]
      BY <3>1, <3>3
    <3>. QED  BY <3>2, <3>4
  <2>3. \A q \in Runs : SameRun(q)
    BY <2>1, <2>2 DEF SameRun, SameRows, SameAsked, SameLease
  <2>. QED  BY <2>1, <2>2, <2>3, QuietEnv
<1>2. ASSUME NEW a \in Approvals, ApprovalDue(a)  PROVE OneInv'
  <2>1. UNCHANGED <<run, step, ended, wk, active, overruns, crashes>>
    BY <1>2 DEF ApprovalDue
  <2>2. \A b \in Approvals : /\ approval'[b].run = approval[b].run
                             /\ approval'[b].step = approval[b].step
                             /\ approval'[b].state = approval[b].state
    <3>1. approval[a] \in ApprovalRow /\ approval \in [Approvals -> ApprovalRow]  BY DEF TypeOK
    <3>. DEFINE row == [approval[a] EXCEPT !.due = TRUE]
    <3>2. /\ row.run = approval[a].run /\ row.step = approval[a].step
          /\ row.state = approval[a].state
      BY <3>1 DEF ApprovalRow
    <3>3. approval' = [approval EXCEPT ![a] = row]  BY <1>2, <3>1 DEF ApprovalDue
    <3>. HIDE DEF row
    <3>. QED  BY <3>1, <3>2, <3>3
  <2>3. \A q \in Runs : SameRun(q)
    BY <2>1, <2>2 DEF SameRun, SameRows, SameAsked, SameLease
  <2>. QED  BY <2>1, <2>3, QuietEnv
<1>3. ASSUME UNCHANGED <<run, step, approval, ended, wk, active, overruns, crashes>>
      PROVE  OneInv'
  <2>1. \A q \in Runs : SameRun(q)
    BY <1>3 DEF SameRun, SameRows, SameAsked, SameLease
  <2>2. \A q \in Runs, i \in Steps : step[q][i].due => step'[q][i].due  BY <1>3
  <2>. QED  BY <1>3, <2>1, <2>2, QuietEnv
<1>4. ASSUME NEW z \in zombie, ZombieReturns(z)  PROVE OneInv'
  BY <1>3, <1>4 DEF ZombieReturns
<1>5. UNCHANGED vars => UNCHANGED <<run, step, approval, ended, wk, active, overruns, crashes>>
  BY DEF vars
<1>. QED  BY <1>1, <1>2, <1>3, <1>4, <1>5

\* The lease of a run lapses.
LEMMA LapsedRow ==
    ASSUME TypeOK, NEW r \in Runs, run' = [run EXCEPT ![r].lapsed = TRUE]
    PROVE  /\ \A q \in Runs : run'[q].status = run[q].status /\ run'[q].owner = run[q].owner
           /\ \A q \in Runs : q # r => run'[q] = run[q]
<1>1. run[r] \in RunRow /\ run \in [Runs -> RunRow]  BY DEF TypeOK
<1>. QED  BY <1>1 DEF RunRow

\* Nobody is at work: only workers that have lost the run know it.
LEMMA LapseOne ==
    ASSUME TypeOK, TypeOK', OneInv, LoopShared', NEW r \in Runs, LeaseLapse(r)
    PROVE  OneInv'
<1>1. /\ ~Attended(r) /\ run' = [run EXCEPT ![r].lapsed = TRUE]
      /\ UNCHANGED <<step, approval, ended, wk, active, overruns, crashes>>
  BY DEF LeaseLapse
<1>2. /\ \A q \in Runs : run'[q].status = run[q].status /\ run'[q].owner = run[q].owner
      /\ \A q \in Runs : q # r => run'[q] = run[q]
  BY <1>1, LapsedRow
<1>3. \A q \in Runs : SameRows(q) /\ SameAsked(q)
  BY <1>1, <1>2 DEF SameRows, SameAsked
<1>4. \A q \in Runs : q # r => SameRun(q)  BY <1>2, <1>3 DEF SameRun, SameLease
<1>5. ASSUME NEW v \in Workers, R(v) = r, Holds(v, r),
             wk[v].pc \in Fresh \cup Inside \cup {"work"}
      PROVE  FALSE
  <2>1. wk[v].pc # "cas"  BY <1>5 DEF Fresh, Inside
  <2>. QED  BY <1>1, <1>5, <2>1 DEF Attended, Holds, R
<1>6. ASSUME NEW q \in Runs  PROVE TablesInv(q)'
  BY <1>3, OneParts, SameTables
<1>7. ASSUME NEW q \in Runs, NEW i \in Steps  PROVE BudgetInv(q, i)'
  <2>1. ASSUME NEW v \in Workers, AtWorkOn(v, q, i)  PROVE AtWorkOn(v, q, i)'
    <3>1. q # r  BY <1>5, <2>1 DEF AtWorkOn
    <3>. QED  BY <1>1, <1>2, <2>1, <3>1 DEF AtWorkOn, R, I, Holds
  <2>2. /\ step'[q][i].attempt = step[q][i].attempt
        /\ i \in Open(q)' => i \in Open(q)
    BY <1>1 DEF Open
  <2>3. BudgetInv(q, i) /\ overruns' + crashes' >= overruns + crashes
    BY <1>1, OneParts DEF TypeOK
  <2>. QED  BY <2>1, <2>2, <2>3, BudgetKept
<1>8. \A v \in Workers : R(v)' = R(v) /\ I(v)' = I(v)  BY <1>1 DEF R, I
<1>9. ASSUME NEW v \in Workers  PROVE ClaimInv(v)'
  <2>. SUFFICES ASSUME wk[v].pc \in Fresh \cup {"work"}  PROVE ClaimInv(v)'
    BY <1>1, ClaimFree
  <2>1. PICK q \in Runs : q = R(v)  BY WorkerKnows, PlacesApart, ControlPoints
  <2>2. ClaimInv(v) /\ Holds(v, q)  BY <2>1, OneParts DEF ClaimInv
  <2>3. q # r  BY <1>5, <2>1, <2>2
  <2>4. run'[q] = run[q]  BY <1>2, <2>3
  <2>5. /\ Holds(v, q)' /\ Open(q)' = Open(q) /\ NextRunnableStep(q)' = NextRunnableStep(q)
        /\ \A i \in Steps : Handling(q, i)' = Handling(q, i)
        /\ \A i \in Open(q) : Spare(q, i) => Spare(q, i)'
    <3>1. \A i \in Steps : Budget(i)' = Budget(i)  BY <1>1 DEF Budget
    <3>2. Open(q)' = Open(q) /\ Open(q) \subseteq Steps  BY <1>1 DEF Open
    <3>. QED  BY <1>1, <2>2, <2>4, <3>1, <3>2 DEF Holds, NextRunnableStep, Handling, Spare
  <2>6. wk[v].pc \in Fresh => I(v) \in Steps  BY WorkerKnows, PlacesApart
  <2>. QED  BY <1>1, <1>8, <2>1, <2>2, <2>4, <2>5, <2>6 DEF ClaimInv
<1>10. ASSUME NEW v \in Workers  PROVE InsideInv(v)'
  <2>1. wk[v].pc \in Inside => R(v) \in Runs  BY WorkerKnows, PlacesApart
  <2>. QED  BY <1>1, <1>2, <1>8, <2>1, InsideKept, OneParts DEF InsideInv, Holds
<1>11. ASSUME NEW v \in Workers  PROVE LoneInv(v)'
  <2>1. CASE wk[v].pc \in Inside /\ R(v) = r
    <3>1. ~Holds(v, r)  BY <1>5, <2>1
    <3>. QED  BY <1>1, <1>2, <1>8, <2>1, <3>1, OneParts DEF LoneInv
  <2>2. CASE wk[v].pc \in Inside /\ R(v) # r
    <3>1. SameRun(R(v))  BY <1>4, <2>2, WorkerKnows, PlacesApart
    <3>. QED  BY <1>1, <3>1, LoneKept, OneParts
  <2>3. CASE wk[v].pc \notin Inside  BY <1>1, <2>3 DEF LoneInv
  <2>. QED  BY <2>1, <2>2, <2>3
<1>12. ActiveInv'  BY <1>1, OneParts DEF ActiveInv, R
<1>. QED  BY <1>6, <1>7, <1>9, <1>10, <1>11, <1>12 DEF OneInv

\* A worker outlasts its lease: one attempt more may be made.
LEMMA OverrunOne ==
    ASSUME TypeOK, TypeOK', OneInv, LoopShared', NEW r \in Runs, LeaseOverrun(r)
    PROVE  OneInv'
<1>1. /\ run' = [run EXCEPT ![r].lapsed = TRUE] /\ overruns' = overruns + 1
      /\ UNCHANGED <<step, approval, ended, wk, active, crashes>>
  BY DEF LeaseOverrun
<1>2. /\ \A q \in Runs : run'[q].status = run[q].status /\ run'[q].owner = run[q].owner
      /\ \A q \in Runs : q # r => run'[q] = run[q]
  BY <1>1, LapsedRow
<1>3. overruns \in Nat /\ crashes \in Nat /\ overruns' # 0
      /\ overruns' + crashes' > overruns + crashes
  BY <1>1, ConstantTypes DEF TypeOK
<1>4. ASSUME NEW q \in Runs  PROVE TablesInv(q)'
  <2>1. SameRows(q) /\ SameAsked(q)  BY <1>1, <1>2 DEF SameRows, SameAsked
  <2>. QED  BY <2>1, OneParts, SameTables
<1>5. ASSUME NEW q \in Runs, NEW i \in Steps  PROVE BudgetInv(q, i)'
  <2>1. /\ step'[q][i].attempt = step[q][i].attempt
        /\ i \in Open(q)' => i \in Open(q)
    BY <1>1 DEF Open
  <2>2. overruns' + crashes' >= overruns + crashes  BY <1>1, <1>3
  <2>3. BudgetInv(q, i)  BY OneParts
  <2>. QED  BY <1>3, <2>1, <2>2, <2>3, BudgetKept
<1>6. \A v \in Workers : R(v)' = R(v) /\ I(v)' = I(v)  BY <1>1 DEF R, I
<1>7. ASSUME NEW v \in Workers  PROVE ClaimInv(v)'
  <2>. SUFFICES ASSUME wk[v].pc \in Fresh \cup {"work"}  PROVE ClaimInv(v)'
    BY <1>1, ClaimFree
  <2>1. PICK q \in Runs : q = R(v)  BY WorkerKnows, PlacesApart, ControlPoints
  <2>2. ClaimInv(v) /\ Holds(v, q)  BY <2>1, OneParts DEF ClaimInv
  <2>3. Open(q)' = Open(q) /\ Open(q) \subseteq Steps  BY <1>1 DEF Open
  <2>4. ASSUME NEW i \in Open(q)  PROVE Spare(q, i)'
    <3>1. i \in Steps /\ Spare(q, i)  BY <2>1, <2>2, <2>3 DEF ClaimInv
    <3>2. PICK m \in Nat, b \in Nat, c \in Nat, n \in Nat :
             m = MaxAttempts[i] /\ b = overruns /\ c = crashes /\ n = step[q][i].attempt
      <4>1. step[q][i] \in StepRow  BY <3>1 DEF TypeOK
      <4>2. step[q][i].attempt \in Nat /\ MaxAttempts[i] \in Nat
        BY <3>1, <4>1, ConstantTypes DEF StepRow
      <4>. QED  BY <1>3, <4>2
    <3>3. Budget(i) = m + b + c /\ Budget(i)' = m + (b + 1) + c
      BY <1>1, <3>2 DEF Budget
    <3>4. n < m + b + c => n < m + (b + 1) + c /\ n + 1 < m + (b + 1) + c  BY <3>2
    <3>5. step'[q][i].attempt = n /\ n < m + b + c  BY <1>1, <3>1, <3>2, <3>3 DEF Spare
    <3>. QED  BY <3>3, <3>4, <3>5 DEF Spare
  <2>5. /\ Holds(v, q)' /\ NextRunnableStep(q)' = NextRunnableStep(q)
        /\ \A i \in Steps : Handling(q, i)' = Handling(q, i)
    BY <1>1, <1>2, <2>2, <2>3 DEF Holds, NextRunnableStep, Handling
  <2>6. wk[v].pc \in Fresh => I(v) \in Steps  BY WorkerKnows, PlacesApart
  <2>. QED
    BY <1>1, <1>2, <1>3, <1>6, <2>1, <2>2, <2>3, <2>4, <2>5, <2>6 DEF ClaimInv
<1>8. ASSUME NEW v \in Workers  PROVE InsideInv(v)'
  <2>1. wk[v].pc \in Inside => R(v) \in Runs  BY WorkerKnows, PlacesApart
  <2>. QED  BY <1>1, <1>2, <1>6, <2>1, InsideKept, OneParts DEF InsideInv, Holds
<1>9. \A v \in Workers : LoneInv(v)'  BY <1>3 DEF LoneInv
<1>10. ActiveInv'  BY <1>1, OneParts DEF ActiveInv, R
<1>. QED  BY <1>4, <1>5, <1>7, <1>8, <1>9, <1>10 DEF OneInv

\* The process dies: nobody is at work any more, and one attempt more may be made.
LEMMA CrashOne ==
    ASSUME TypeOK, TypeOK', OneLoop, OneInv, LoopShared', NEW p \in Procs, Crash(p)
    PROVE  OneInv'
<1>1. /\ UNCHANGED <<run, step, approval, ended, overruns>> /\ crashes' = crashes + 1
      /\ active' = [active EXCEPT ![p] = [r \in Runs |-> None]]
  BY DEF Crash
<1>2. \A w \in Workers : ProcOf[w] = p  BY DEF OneLoop, Crash
<1>3. /\ \A w \in Workers : wk'[w] = IdleLocal
      /\ IdleLocal.pc = "idle" /\ ~IdleLocal.aborted
  BY <1>2 DEF Crash, IdleLocal
<1>4. overruns' + crashes' > overruns + crashes
  <2>1. overruns \in Nat /\ crashes \in Nat  BY ConstantTypes DEF TypeOK
  <2>. QED  BY <1>1, <2>1
<1>5. ASSUME NEW q \in Runs  PROVE TablesInv(q)'
  <2>1. SameRows(q) /\ SameAsked(q)  BY <1>1 DEF SameRows, SameAsked
  <2>. QED  BY <2>1, OneParts, SameTables
<1>6. ASSUME NEW q \in Runs, NEW i \in Steps  PROVE BudgetInv(q, i)'
  <2>1. /\ step'[q][i].attempt = step[q][i].attempt
        /\ i \in Open(q)' => i \in Open(q)
    BY <1>1 DEF Open
  <2>2. overruns' + crashes' >= overruns + crashes
    BY <1>1, ConstantTypes DEF TypeOK
  <2>. QED  BY <1>4, <2>1, <2>2, OneParts, BudgetKept
<1>7. ASSUME NEW v \in Workers  PROVE ClaimInv(v)' /\ InsideInv(v)' /\ LoneInv(v)'
  <2>1. wk'[v].pc \notin Fresh \cup {"work"} /\ wk'[v].pc \notin Inside /\ ~wk'[v].aborted
    BY <1>3, PlacesApart
  <2>. QED  BY <2>1, ClaimFree, InsideFree
<1>8. ActiveInv'
  <2>1. ASSUME NEW q \in Procs, NEW r \in Runs, active'[q][r] # None  PROVE FALSE
    <3>1. active \in [Procs -> [Runs -> Workers \cup {None}]]  BY DEF TypeOK
    <3>2. q # p /\ active[q][r] # None /\ active[q][r] \in Workers  BY <1>1, <2>1, <3>1
    <3>. QED  BY <1>2, <3>2, OneParts DEF ActiveInv
  <2>. QED  BY <2>1 DEF ActiveInv
<1>. QED  BY <1>5, <1>6, <1>7, <1>8 DEF OneInv

-----------------------------------------------------------------------------
(* The invariant of one process, and what it says. *)

LEMMA OneInit ==
    ASSUME Init
    PROVE  OneInv
<1>1. /\ \A w \in Workers : wk[w] = IdleLocal
      /\ IdleLocal.pc = "idle" /\ ~IdleLocal.aborted
  BY DEF Init, IdleLocal
<1>2. LoopShared  BY <1>1 DEF LoopShared, Async
<1>3. \A w \in Workers : ClaimInv(w) /\ InsideInv(w) /\ LoneInv(w)
  BY <1>1, PlacesApart DEF ClaimInv, InsideInv, LoneInv
<1>4. ASSUME NEW r \in Runs  PROVE TablesInv(r)
  <2>1. /\ run[r].status = "none" /\ ended[r] = <<>>
        /\ \A i \in Steps : /\ step[r][i].status = "queued" /\ step[r][i].attempt = 0
                            /\ step[r][i].appr = None
        /\ \A a \in Approvals : approval[a].state = "none"
    BY DEF Init
  <2>2. \A i \in Steps : RowInv(r, i)  BY <2>1 DEF RowInv
  <2>3. \A a \in Approvals : ApprovalInv(r, a)  BY <2>1 DEF ApprovalInv
  <2>4. Woken(r)  BY <2>1 DEF Woken
  <2>5. History(r)  BY <2>1 DEF History, Terminal
  <2>. QED  BY <2>2, <2>3, <2>4, <2>5 DEF TablesInv
<1>5. ASSUME NEW r \in Runs, NEW i \in Steps  PROVE BudgetInv(r, i)
  <2>1. step[r][i].attempt = 0 /\ overruns = 0 /\ crashes = 0  BY DEF Init
  <2>2. PICK m \in Nat : m = MaxAttempts[i] /\ m > 0
    <3>1. MaxAttempts[i] \in Nat \ {0}  BY ConstantTypes
    <3>. QED  BY <3>1
  <2>3. Budget(i) = m  BY <2>1, <2>2 DEF Budget
  <2>. QED  BY <2>1, <2>2, <2>3 DEF BudgetInv
<1>6. ActiveInv  BY DEF Init, ActiveInv
<1>. QED  BY <1>2, <1>3, <1>4, <1>5, <1>6 DEF OneInv

LEMMA OneNext ==
    ASSUME DistinctIds, OneLoop, TypeOK, OneInv, [Next]_vars
    PROVE  OneInv'
<1>. TypeOK' /\ LoopShared'  BY NextType, LoopNext, OneParts
<1>1. ASSUME NEW w \in Workers, Tick(w) \/ Handler(w)  PROVE OneInv'
  BY <1>1, TickOne, HandlerOne
<1>2. ASSUME NEW p \in Procs, Client(p)  PROVE OneInv'
  BY <1>2, StartOne, CancelOne, ResolveOne DEF Client
<1>3. ASSUME NEW p \in Procs, Crash(p)  PROVE OneInv'  BY <1>3, CrashOne
<1>4. CASE Deadline  BY <1>4, LapseOne, PassiveOne DEF Deadline
<1>5. ASSUME NEW r \in Runs, LeaseOverrun(r)  PROVE OneInv'  BY <1>5, OverrunOne
<1>6. CASE (\E z \in zombie : ZombieReturns(z)) \/ UNCHANGED vars  BY <1>6, PassiveOne
<1>. QED  BY <1>1, <1>2, <1>3, <1>4, <1>5, <1>6 DEF Next

\* In one process the rows, the approvals, the histories and the leases go
\* together, although most of the transactions do not look at what they change.
THEOREM OneProcess ==
    ASSUME DistinctIds, OneLoop
    PROVE  Spec => [](TypeOK /\ OneInv)
<1>1. Init => TypeOK /\ OneInv  BY InitType, OneInit
<1>2. TypeOK /\ OneInv /\ [Next]_vars => (TypeOK /\ OneInv)'  BY NextType, OneNext
<1>. QED  BY <1>1, <1>2, PTL DEF Spec

\* Steps are worked in definition order: #nextRunnableStep reads the rows before
\* the lease's holder writes them, and no retry, reclaim, answered approval or
\* cancellation lets anything happen to a step while an earlier one is open.
THEOREM StepsAreInOrder ==
    ASSUME DistinctIds, OneLoop
    PROVE  Spec => []StepsInOrder
<1>1. OneInv => StepsInOrder
  BY OneParts DEF StepsInOrder, RowInv, Before
<1>. QED  BY <1>1, OneProcess, PTL

\* Whatever suspends a run leaves what wakes it: the approval that #handleApproval
\* wrote is still pending, the step that waits for its due time is still the first
\* open one.
THEOREM SuspendedRunsWake ==
    ASSUME DistinctIds, OneLoop
    PROVE  Spec => []SuspendedHasWaker
<1>1. ASSUME OneInv, NEW r \in Runs, run[r].status \in {"waiting_timer", "waiting_retry"}
      PROVE  \E i \in Open(r) : /\ \A j \in Open(r) : i <= j
                                /\ step[r][i].status = run[r].status
  <2>1. PICK i \in Steps : Before(r, i) /\ step[r][i].status = run[r].status
    BY <1>1, OneParts DEF TablesInv, Woken
  <2>2. i \in Open(r)  BY <1>1, <2>1 DEF Open, Terminal
  <2>3. ASSUME NEW j \in Open(r)  PROVE i <= j
    <3>1. j \in Steps /\ step[r][j].status # "completed"  BY DEF Open, Terminal
    <3>2. ~(j < i)  BY <2>1, <3>1 DEF Before
    <3>3. i \in Int /\ j \in Int  BY <3>1, StepsAreNumbers
    <3>. QED  BY <3>2, <3>3
  <2>. QED  BY <2>1, <2>2, <2>3
<1>2. ASSUME OneInv, NEW r \in Runs, run[r].status = "waiting_approval"
      PROVE  \E a \in Approvals : /\ approval[a].state = "pending"
                                  /\ approval[a].run = r
                                  /\ step[r][approval[a].step].status = "waiting_approval"
  BY <1>2, OneParts DEF TablesInv, Woken
<1>3. OneInv => SuspendedHasWaker  BY Zenon, <1>1, <1>2 DEF SuspendedHasWaker
<1>. QED  BY <1>3, OneProcess, PTL

\* #handleApproval writes an approval once for a step, also when the process dies
\* before it answers, or the run is cancelled and answered afterwards.
THEOREM ApprovalsAskOnce ==
    ASSUME DistinctIds, OneLoop
    PROVE  Spec => []OneApprovalPerStep
<1>1. ASSUME TypeOK, OneInv, NEW a \in Approvals, NEW b \in Approvals,
             approval[a].state # "none", approval[b].state # "none",
             approval[a].run = approval[b].run, approval[a].step = approval[b].step
      PROVE  a = b
  <2>1. PICK r \in Runs : r = approval[a].run  BY <1>1, AskedKnown
  <2>2. ApprovalInv(r, a) /\ ApprovalInv(r, b)  BY <1>1, OneParts
  <2>. QED  BY <1>1, <2>1, <2>2 DEF ApprovalInv
<1>2. TypeOK /\ OneInv => OneApprovalPerStep  BY <1>1 DEF OneApprovalPerStep
<1>. QED  BY <1>2, OneProcess, PTL

\* #handleActivity counts an attempt before it invokes the handler and tries a
\* 'running' step again unchecked; only a crash or an outlasted lease leaves one.
THEOREM AttemptsAreBounded ==
    ASSUME DistinctIds, OneLoop
    PROVE  Spec => []AttemptBudget
<1>1. OneInv => AttemptBudget
  BY OneParts DEF AttemptBudget, BudgetInv, Budget
<1>. QED  BY <1>1, OneProcess, PTL

\* Every transaction that ends a run records one event and none records a second,
\* but for an answer to an approval of a cancelled run.
THEOREM RunsEndOnce ==
    ASSUME DistinctIds, OneLoop
    PROVE  Spec => []OneTerminalEvent
<1>1. ASSUME OneInv, NEW r \in Runs
      PROVE  \/ /\ Len(ended[r]) <= 1
                /\ run[r].status \in Terminal <=> ended[r] # <<>>
             \/ ended[r] # <<>> /\ Head(ended[r]) = "cancelled" /\ Answered(r)
  <2>1. History(r)  BY <1>1, OneParts DEF TablesInv
  <2>2. Len(<<>>) <= 1 /\ \A s : Len(<<s>>) <= 1 /\ <<s>> # <<>>  OBVIOUS
  <2>. QED  BY <2>1, <2>2 DEF History
<1>2. OneInv => OneTerminalEvent  BY Zenon, <1>1 DEF OneTerminalEvent, Answered
<1>. QED  BY <1>2, OneProcess, PTL

\* The map this.active has one controller per run.  While no step outlasts its
\* lease that is enough: nobody else is inside a handler of the run, and cancel
\* finds the controller of the one who is.
THEOREM AbortsAreDelivered ==
    ASSUME DistinctIds, OneLoop
    PROVE  Spec => []AbortDelivered
<1>1. ASSUME OneInv, overruns = 0
      PROVE  /\ ~Overlap
             /\ \A w \in Workers :
                   wk[w].pc \in {"handler", "effect"} /\ run[wk[w].run].status = "cancelled" =>
                       wk[w].aborted
  <2>1. {"handler", "effect"} \subseteq Inside  BY DEF Inside
  <2>2. \A w \in Workers : LoneInv(w)  BY <1>1, OneParts
  <2>3. ~Overlap  BY <1>1, <2>1, <2>2 DEF Overlap, LoneInv, R
  <2>. QED  BY <1>1, <2>1, <2>2, <2>3 DEF LoneInv, R
<1>2. OneInv => AbortDelivered  BY <1>1 DEF AbortDelivered
<1>. QED  BY <1>2, OneProcess, PTL
=============================================================================
