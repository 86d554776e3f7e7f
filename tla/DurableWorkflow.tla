--------------------------- MODULE DurableWorkflow ---------------------------
(***************************************************************************)
(* The durable SQLite workflow runtime                                     *)
(* (providers/native/workflow-durable-sqlite/src/index.mjs): runs and      *)
(* their steps, approvals and effect records in one database, and workers  *)
(* in several processes that claim a run under a lease, work one step of   *)
(* it and give it back.                                                    *)
(*                                                                         *)
(* One action is one SQL statement or one BEGIN IMMEDIATE transaction, so  *)
(* processes interleave between statements, as SQLite lets them.  Inside a *)
(* process JavaScript runs to completion: a worker that is between two     *)
(* awaits (a pc in Sync) keeps every other worker and client call of its   *)
(* process waiting.                                                        *)
(*                                                                         *)
(* Time is abstracted to one flag per deadline, raised by the actions      *)
(* TimerDue, ApprovalDue, LeaseLapse and LeaseOverrun; a deadline may pass *)
(* at any moment after it was set.                                         *)
(***************************************************************************)
EXTENDS Integers, Sequences

CONSTANTS
    Runs,           \* run identifiers
    StartKey,       \* [Runs -> start idempotency keys]
    Procs,          \* operating-system processes sharing the database file
    ClientProcs,    \* the processes in which start/cancel/resolve are called
    Workers,        \* worker loops (callers of tick)
    ProcOf,         \* [Workers -> Procs]
    IdOf,           \* [Workers -> worker ids]: what tick writes in lease_owner
    NSteps,         \* number of steps of the registered definition
    Kind,           \* [Steps -> {"activity", "timer", "approval"}]
    MaxAttempts,    \* [Steps -> Nat \ {0}]: retry.maxAttempts
    Idempotent,     \* steps whose definition has idempotency.required
    KeyOf,          \* [Runs -> [Steps -> effect keys]]
    Fingerprint,    \* [Runs -> [Steps -> operation fingerprints]]
    Registered,     \* [Procs -> SUBSET Steps]: handlers the process registered
    Oversized,      \* steps whose handler output exceeds stepOutputBytes
    RunOversized,   \* the outputs of all steps together exceed the run's bound
    Approvals,      \* approval identifiers (prefixedId('app') draws fresh ones)
    MaxOverruns,    \* bound: leases that lapse under a worker still at work
    MaxCrashes,     \* bound: process crashes
    None            \* SQL NULL, and the absence of a local value

Steps == 1 .. NSteps
Ids == {IdOf[w] : w \in Workers}
EffectKeys == {KeyOf[r][i] : r \in Runs, i \in Steps}
Fingerprints == {Fingerprint[r][i] : r \in Runs, i \in Steps}

ASSUME ConstantTypes ==
    /\ NSteps \in Nat \ {0}
    /\ ClientProcs \subseteq Procs
    /\ ProcOf \in [Workers -> Procs]
    /\ Kind \in [Steps -> {"activity", "timer", "approval"}]
    /\ MaxAttempts \in [Steps -> Nat \ {0}]
    /\ Idempotent \subseteq {i \in Steps : Kind[i] = "activity"}
    /\ Oversized \subseteq {i \in Steps : Kind[i] = "activity"}
    /\ Registered \in [Procs -> SUBSET Steps]
    /\ RunOversized \in BOOLEAN
    /\ MaxOverruns \in Nat
    /\ MaxCrashes \in Nat

ASSUME NoneIsNoValue ==
    /\ None \notin Runs
    /\ None \notin Workers
    /\ None \notin Ids
    /\ None \notin Approvals

VARIABLES
    run,        \* the runs table
    step,       \* the steps table, per run in step_index order
    approval,   \* the approvals table
    effect,     \* the effects table, by idempotency key
    ended,      \* per run, the run.completed/failed/cancelled events in order
    wk,         \* the local state of every worker
    active,     \* per process, the map of abort controllers (this.active)
    zombie,     \* timed-out handler invocations that have not settled yet
    overruns,   \* leases that lapsed under a worker so far
    crashes     \* process crashes so far

tables == <<run, step, approval, effect, ended>>
others == <<active, zombie, overruns, crashes>>
vars == <<run, step, approval, effect, ended, wk, active, zombie, overruns, crashes>>

-----------------------------------------------------------------------------
(* Values. *)

Terminal == {"completed", "failed", "cancelled"}
Runnable == {"queued", "running", "waiting_retry", "waiting_timer"}
RunStatus == Runnable \cup Terminal \cup {"none", "waiting_approval"}
StepStatus == Runnable \cup Terminal \cup {"waiting_approval", "approval_resolved"}

\* The result of one invocation of a handler, named after the attempt that
\* produced it; timers and approvals produce attempt 0.
Outputs == [run : Runs, step : Steps, attempt : Nat]

RunRow == [status : RunStatus, owner : Ids \cup {None}, lapsed : BOOLEAN,
           resumed : BOOLEAN]
StepRow == [status : StepStatus, attempt : Nat, due : BOOLEAN,
            appr : Approvals \cup {None}, out : Outputs \cup {None}]
ApprovalRow ==
    {a \in [run : Runs \cup {None}, step : Steps \cup {0},
            state : {"none", "pending", "approved", "rejected", "expired"},
            due : BOOLEAN] :
        a.state # "none" => a.run \in Runs /\ a.step \in Steps}
EffectRow == [fp : Fingerprints, by : Outputs]

ASSUME NoneIsNoEffect == None \notin EffectRow

\* A worker awaits at idle (runWorker), handler (handler.run) and effect
\* (execute); everywhere else it occupies its process's event loop.
Async == {"idle", "handler", "effect"}
Sync == {"expire", "rescan", "pick", "cas", "work", "start", "resume",
         "schedule", "request", "complete", "lookup", "begin", "failing"}
PCs == Async \cup Sync
HasRun == PCs \ {"idle", "expire", "rescan", "pick"}   \* past #claim's choice
HasStep == HasRun \ {"cas", "work"}                    \* past #workClaim's reads

Local ==
    {l \in [pc : PCs, run : Runs \cup {None}, step : Steps \cup {0}, then : PCs,
            attempt : Nat, appr : Approvals \cup {None}, due : SUBSET Approvals,
            rows : SUBSET Runs, out : Outputs \cup {None}, aborted : BOOLEAN,
            retry : BOOLEAN] :
        /\ l.pc \in HasRun => l.run \in Runs
        /\ l.pc \in HasStep => l.step \in Steps /\ l.then \in HasStep}

IdleLocal == [pc |-> "idle", run |-> None, step |-> 0, then |-> "idle",
              attempt |-> 0, appr |-> None, due |-> {}, rows |-> {},
              out |-> None, aborted |-> FALSE, retry |-> FALSE]

Zombies == [worker : Workers, run : Runs, step : Steps, attempt : Nat,
            aborted : BOOLEAN, executing : BOOLEAN]

Init ==
    /\ run = [r \in Runs |-> [status |-> "none", owner |-> None,
                              lapsed |-> FALSE, resumed |-> FALSE]]
    /\ step = [r \in Runs |-> [i \in Steps |->
                 [status |-> "queued", attempt |-> 0, due |-> FALSE,
                  appr |-> None, out |-> None]]]
    /\ approval = [a \in Approvals |-> [run |-> None, step |-> 0,
                                        state |-> "none", due |-> FALSE]]
    /\ effect = [k \in EffectKeys |-> None]
    /\ ended = [r \in Runs |-> <<>>]
    /\ wk = [w \in Workers |-> IdleLocal]
    /\ active = [p \in Procs |-> [r \in Runs |-> None]]
    /\ zombie = {}
    /\ overruns = 0
    /\ crashes = 0

-----------------------------------------------------------------------------
(* Reads. *)

R(w) == wk[w].run
I(w) == wk[w].step
Key(w) == KeyOf[R(w)][I(w)]
Fp(w) == Fingerprint[R(w)][I(w)]
Own(w) == [run |-> R(w), step |-> I(w), attempt |-> wk[w].attempt]

\* The event loop of process p is free of every worker but w.
LoopFree(p, w) == \A v \in Workers : v # w /\ ProcOf[v] = p => wk[v].pc \in Async
MayStep(w) == LoopFree(ProcOf[w], w)
At(w, pc) == MayStep(w) /\ wk[w].pc = pc
MayCall(p) == p \in ClientProcs /\ LoopFree(p, None)

\* Seeded fault: the lease of a dead worker is never reclaimed.
LeaseFree_NoReclaim(r) == run[r].owner = None

LeaseFree(r) == run[r].owner = None \/ run[r].lapsed

\* Seeded fault: the fence looks at the status only.
Holds_AnyOwner(w, r) == run[r].status \notin Terminal

\* The fence: the run's lease_owner is this worker's id and the run goes on.
Holds(w, r) == run[r].owner = IdOf[w] /\ run[r].status \notin Terminal

Open(r) == {i \in Steps : step[r][i].status \notin Terminal}

\* Seeded fault: any open step will do.
NextRunnableStep_AnyOpen(r) ==
    {i \in Open(r) :
        /\ step[r][i].status \in {"waiting_retry", "waiting_timer"} => step[r][i].due
        /\ step[r][i].status # "waiting_approval"}

\* #nextRunnableStep: the first step that is neither completed, cancelled nor
\* failed, unless it waits for a due time or an approval.
NextRunnableStep(r) ==
    {i \in Open(r) :
        /\ \A j \in Open(r) : i <= j
        /\ step[r][i].status \in {"waiting_retry", "waiting_timer"} => step[r][i].due
        /\ step[r][i].status # "waiting_approval"}

\* Seeded fault: the signal is not looked at.
ActiveStep_IgnoresSignal(w, r, i, aborted) ==
    Holds(w, r) /\ step[r][i].status = "running"

\* #assertActiveStep, for the invocation that worker w made for step i of r.
ActiveStep(w, r, i, aborted) ==
    /\ ~aborted
    /\ Holds(w, r)
    /\ step[r][i].status = "running"

\* The key is taken by another operation (idempotency_fingerprint_conflict).
Conflict_Unchecked(w) == FALSE  \* Seeded fault: fingerprints are not compared.
Conflict(w) == effect[Key(w)] # None /\ effect[Key(w)].fp # Fp(w)

\* The output a recorded effect gives a step that finds it.
Recorded_Reexecuted(w) == [Own(w) EXCEPT !.attempt = @ + 1]  \* Seeded fault.
Recorded(w) == effect[Key(w)].by

\* Seeded fault: the step with the last index ends the run.
LastOpen_ByIndex(r, i) == i = NSteps

\* No other step of the run is left to complete after i.
LastOpen(r, i) == \A j \in Steps \ {i} : step[r][j].status = "completed"

-----------------------------------------------------------------------------
(* Transactions shared by several callers. *)

\* The status a transaction leaves the run in, with the lease given up.
Unleased(r, status) ==
    [run EXCEPT ![r].status = status, ![r].owner = None, ![r].lapsed = FALSE]

Record(r, event) == ended' = [ended EXCEPT ![r] = Append(@, event)]

\* #completeStep, unless one of its boundedJson calls throws.
CompleteStep(w, r, i, out) ==
    IF ~Holds(w, r)
    THEN UNCHANGED <<run, step, ended>>
    ELSE /\ step' = [step EXCEPT ![r][i].status = "completed", ![r][i].out = out]
         /\ IF LastOpen(r, i)
            THEN run' = Unleased(r, "completed") /\ Record(r, "completed")
            ELSE run' = Unleased(r, "running") /\ UNCHANGED ended

\* The transaction of #completeStep rolls back: an output over the bound.
CompletionThrows(w, r, i) ==
    Holds(w, r) /\ (i \in Oversized \/ (RunOversized /\ LastOpen(r, i)))

\* Seeded fault: the run is left waiting for the expired approval.
ExpireApproval_KeepsRun(a) ==
    /\ approval' = [approval EXCEPT ![a].state = "expired"]
    /\ step' = [step EXCEPT ![approval[a].run][approval[a].step].status = "failed"]
    /\ UNCHANGED <<run, ended>>

\* #expireApprovalLocked
ExpireApproval(a) ==
    LET r == approval[a].run IN
    /\ approval' = [approval EXCEPT ![a].state = "expired"]
    /\ step' = [step EXCEPT ![r][approval[a].step].status = "failed"]
    /\ run' = Unleased(r, "failed")
    /\ Record(r, "failed")

Goto(w, pc) == wk' = [wk EXCEPT ![w].pc = pc]
Done(w) == wk' = [wk EXCEPT ![w] = IdleLocal]

\* The end of #handleActivity: its finally clause, and the tick returns.
Leave(w) ==
    /\ Done(w)
    /\ active' = [active EXCEPT ![ProcOf[w]][R(w)] = None]

\* Seeded fault: one retry too many.
Fail_OneMore(w, retryable) ==
    IF Holds(w, R(w))
    THEN /\ wk' = [wk EXCEPT ![w].pc = "failing",
                     ![w].retry = retryable /\ wk[w].attempt <= MaxAttempts[I(w)]]
         /\ UNCHANGED active
    ELSE Leave(w)

\* #handleFailure up to its transaction: the checks, made outside of it.
Fail(w, retryable) ==
    IF Holds(w, R(w))
    THEN /\ wk' = [wk EXCEPT ![w].pc = "failing",
                     ![w].retry = retryable /\ wk[w].attempt < MaxAttempts[I(w)]]
         /\ UNCHANGED active
    ELSE Leave(w)

-----------------------------------------------------------------------------
(* Client calls. *)

\* start: the primary key and the unique start key make a repeated call, and
\* the loser of two concurrent ones, change nothing.
Start(p, r) ==
    /\ MayCall(p)
    /\ run[r].status = "none"
    /\ \A q \in Runs : run[q].status # "none" => StartKey[q] # StartKey[r]
    /\ run' = [run EXCEPT ![r].status = "queued"]
    /\ UNCHANGED <<step, approval, effect, ended, wk, others>>

\* Seeded fault: a run that has ended can be cancelled.
Cancellable_EndedToo(r) == run[r].status # "none"
Cancellable(r) == run[r].status \notin Terminal \cup {"none"}

\* The workers once the controller in this process's map is aborted.
AbortActive_Forgotten(p, r) == wk  \* Seeded fault: nobody is told.
AbortActive(p, r) ==
    [w \in Workers |->
        IF w = active[p][r] THEN [wk[w] EXCEPT !.aborted = TRUE] ELSE wk[w]]

\* cancel: aborts the controller this process has in its map, then the
\* transaction.  Pending approvals of the run are left as they are.
Cancel(p, r) ==
    /\ MayCall(p)
    /\ Cancellable(r)
    /\ wk' = AbortActive(p, r)
    /\ run' = Unleased(r, "cancelled")
    /\ step' = [step EXCEPT ![r] = [i \in Steps |->
                  IF @[i].status = "completed" THEN @[i]
                  ELSE [@[i] EXCEPT !.status = "cancelled"]]]
    /\ Record(r, "cancelled")
    /\ UNCHANGED <<approval, effect, others>>

\* resolveApproval (and signal): looks at the approval only, not at the run.
Resolve(p, a, decision) ==
    LET r == approval[a].run
        i == approval[a].step
    IN
    /\ MayCall(p)
    /\ approval[a].state = "pending"
    /\ \/ approval[a].due /\ ExpireApproval(a)
       \/ /\ ~approval[a].due
          /\ approval' = [approval EXCEPT ![a].state = decision]
          /\ \/ /\ decision = "approved"
                /\ step' = [step EXCEPT ![r][i].status = "approval_resolved"]
                /\ run' = Unleased(r, "running")
                /\ UNCHANGED ended
             \/ /\ decision = "rejected"
                /\ step' = [step EXCEPT ![r][i].status = "failed"]
                /\ run' = [run EXCEPT ![r].status = "failed"]
                /\ Record(r, "failed")
    /\ UNCHANGED <<effect, wk, others>>

-----------------------------------------------------------------------------
(* tick: expire approvals, claim a run, work one step. *)

\* The query of #expirePendingApprovals.
TickBegin(w) ==
    /\ At(w, "idle")
    /\ wk' = [wk EXCEPT ![w].pc = "expire",
                ![w].due = {a \in Approvals :
                    /\ approval[a].state = "pending"
                    /\ approval[a].due
                    /\ run[approval[a].run].status = "waiting_approval"}]
    /\ UNCHANGED <<tables, others>>

\* One row of its loop: a transaction that checks the row again.
ExpireOne(w, a) ==
    /\ At(w, "expire")
    /\ a \in wk[w].due
    /\ wk' = [wk EXCEPT ![w].due = @ \ {a}]
    /\ IF approval[a].state = "pending" /\ run[approval[a].run].status = "waiting_approval"
       THEN ExpireApproval(a)
       ELSE UNCHANGED <<run, step, approval, ended>>
    /\ UNCHANGED <<effect, others>>

\* The query of #claim; rows under a live lease are skipped.
Scan(w) ==
    /\ MayStep(w)
    /\ wk[w].pc = "rescan" \/ (wk[w].pc = "expire" /\ wk[w].due = {})
    /\ wk' = [wk EXCEPT ![w].pc = "pick",
                ![w].rows = {r \in Runs : run[r].status \in Runnable /\ LeaseFree(r)}]
    /\ UNCHANGED <<tables, others>>

\* One row of #claim's loop: is there a step to work on?
TryRow(w, r) ==
    /\ At(w, "pick")
    /\ r \in wk[w].rows
    /\ IF NextRunnableStep(r) = {}
       THEN wk' = [wk EXCEPT ![w].rows = @ \ {r}]
       ELSE wk' = [wk EXCEPT ![w].rows = @ \ {r}, ![w].run = r, ![w].pc = "cas"]
    /\ UNCHANGED <<tables, others>>

\* #claim found nothing: the tick returns.
ScanDone(w) ==
    /\ At(w, "pick")
    /\ wk[w].rows = {}
    /\ Done(w)
    /\ UNCHANGED <<tables, others>>

\* The conditional UPDATE of #claim.
Claim(w) ==
    /\ At(w, "cas")
    /\ IF LeaseFree(R(w)) /\ run[R(w)].status \notin Terminal
       THEN /\ run' = [run EXCEPT ![R(w)].owner = IdOf[w], ![R(w)].lapsed = FALSE]
            /\ wk' = [wk EXCEPT ![w].pc = "work", ![w].rows = {}]
       ELSE /\ wk' = [wk EXCEPT ![w].pc = "pick", ![w].run = None]
            /\ UNCHANGED run
    /\ UNCHANGED <<step, approval, effect, ended, others>>

\* What #workClaim does with step i of run r, as its row reads now.
Handling(r, i) ==
    CASE Kind[i] = "timer" ->
            IF step[r][i].status = "waiting_timer" THEN "complete" ELSE "schedule"
      [] Kind[i] = "approval" ->
            IF step[r][i].status = "approval_resolved" THEN "complete" ELSE "request"
      [] OTHER -> "lookup"

\* The reads of #workClaim: give up, release, or remember the step row.
WorkRead(w) ==
    LET r == R(w) IN
    /\ At(w, "work")
    /\ \/ /\ ~Holds(w, r)
          /\ Done(w)
          /\ UNCHANGED run
       \/ /\ Holds(w, r)
          /\ NextRunnableStep(r) = {}
          /\ run' = [run EXCEPT ![r].owner = None, ![r].lapsed = FALSE]
          /\ Done(w)
       \/ \E i \in NextRunnableStep(r) :
          /\ Holds(w, r)
          /\ wk' = [wk EXCEPT ![w].step = i,
                      ![w].attempt = step[r][i].attempt,
                      ![w].appr = step[r][i].appr,
                      ![w].then = Handling(r, i),
                      ![w].pc = IF run[r].status = "queued" THEN "start"
                                ELSE IF ~run[r].resumed THEN "resume"
                                ELSE Handling(r, i)]
          /\ UNCHANGED run
    /\ UNCHANGED <<step, approval, effect, ended, others>>

\* queued -> running (run.started); no check of lease or status.
MarkStarted(w) ==
    /\ At(w, "start")
    /\ run' = [run EXCEPT ![R(w)].status = "running"]
    /\ Goto(w, wk[w].then)
    /\ UNCHANGED <<step, approval, effect, ended, others>>

\* resume_recorded (run.resumed)
MarkResumed(w) ==
    /\ At(w, "resume")
    /\ run' = [run EXCEPT ![R(w)].resumed = TRUE]
    /\ Goto(w, wk[w].then)
    /\ UNCHANGED <<step, approval, effect, ended, others>>

\* #handleTimer, first visit: no check of lease or status.
ScheduleTimer(w) ==
    /\ At(w, "schedule")
    /\ step' = [step EXCEPT ![R(w)][I(w)].status = "waiting_timer",
                            ![R(w)][I(w)].due = FALSE]
    /\ run' = Unleased(R(w), "waiting_timer")
    /\ Done(w)
    /\ UNCHANGED <<approval, effect, ended, others>>

\* Seeded fault: the approval is not written back to the step.
RequestApproval_StepForgotten(w, a) ==
    /\ At(w, "request")
    /\ approval[a].state = "none"
    /\ approval' = [approval EXCEPT ![a] = [run |-> R(w), step |-> I(w),
                                            state |-> "pending", due |-> FALSE]]
    /\ run' = Unleased(R(w), "running")
    /\ Done(w)
    /\ UNCHANGED <<step, effect, ended, others>>

\* #handleApproval, first visit: a fresh approval unless the row names one.
RequestApproval(w, a) ==
    /\ At(w, "request")
    /\ IF wk[w].appr = None THEN approval[a].state = "none" ELSE a = wk[w].appr
    /\ approval' = IF approval[a].state # "none" THEN approval
                   ELSE [approval EXCEPT ![a] = [run |-> R(w), step |-> I(w),
                                                 state |-> "pending", due |-> FALSE]]
    /\ step' = [step EXCEPT ![R(w)][I(w)].status = "waiting_approval",
                            ![R(w)][I(w)].appr = a]
    /\ run' = Unleased(R(w), "waiting_approval")
    /\ Done(w)
    /\ UNCHANGED <<effect, ended, others>>

\* A due timer or a resolved approval: #completeStep.  After a timer the
\* worker claims again in the same tick; a rollback rejects the tick and
\* leaves the lease in place.
CompleteWait(w) ==
    /\ At(w, "complete")
    /\ IF CompletionThrows(w, R(w), I(w))
       THEN Done(w) /\ UNCHANGED <<run, step, ended>>
       ELSE /\ CompleteStep(w, R(w), I(w), Own(w))
            /\ wk' = [wk EXCEPT ![w] =
                        IF Kind[I(w)] = "timer" THEN [IdleLocal EXCEPT !.pc = "rescan"]
                        ELSE IdleLocal]
    /\ UNCHANGED <<approval, effect, others>>

-----------------------------------------------------------------------------
(* #handleActivity. *)

\* The handler lookup and the effects lookup.  A missing handler or another
\* operation under the key rejects the tick and leaves the lease in place; a
\* recorded effect completes the step without a new attempt.
LookupEffect(w) ==
    /\ At(w, "lookup")
    /\ \/ /\ I(w) \notin Registered[ProcOf[w]]
          /\ Done(w)
          /\ UNCHANGED <<run, step, ended>>
       \/ /\ I(w) \in Registered[ProcOf[w]]
          /\ I(w) \in Idempotent /\ effect[Key(w)] # None
          /\ Done(w)
          /\ IF Conflict(w) \/ CompletionThrows(w, R(w), I(w))
             THEN UNCHANGED <<run, step, ended>>
             ELSE CompleteStep(w, R(w), I(w), Recorded(w))
       \/ /\ I(w) \in Registered[ProcOf[w]]
          /\ I(w) \in Idempotent => effect[Key(w)] = None
          /\ Goto(w, "begin")
          /\ UNCHANGED <<run, step, ended>>
    /\ UNCHANGED <<approval, effect, others>>

\* The step.started transaction, fenced; the handler is invoked whether or
\* not the fence let it through.
BeginAttempt(w) ==
    LET n == wk[w].attempt + 1 IN
    /\ At(w, "begin")
    /\ IF Holds(w, R(w))
       THEN /\ step' = [step EXCEPT ![R(w)][I(w)].status = "running",
                                    ![R(w)][I(w)].attempt = n]
            /\ run' = [run EXCEPT ![R(w)].status = "running"]
       ELSE UNCHANGED <<step, run>>
    /\ wk' = [wk EXCEPT ![w].pc = "handler", ![w].attempt = n]
    /\ active' = [active EXCEPT ![ProcOf[w]][R(w)] = w]
    /\ UNCHANGED <<approval, effect, ended, zombie, overruns, crashes>>

\* The handler calls effect(): #commitEffect up to the await of execute().
EffectBegin(w) ==
    /\ At(w, "handler")
    /\ I(w) \in Idempotent
    /\ wk[w].out = None
    /\ \/ /\ ~ActiveStep(w, R(w), I(w), wk[w].aborted)
          /\ Leave(w)
       \/ /\ ActiveStep(w, R(w), I(w), wk[w].aborted)
          /\ effect[Key(w)] = None
          /\ Goto(w, "effect") /\ UNCHANGED active
       \/ /\ ActiveStep(w, R(w), I(w), wk[w].aborted)
          /\ effect[Key(w)] # None
          /\ IF Conflict(w)
             THEN Fail(w, TRUE)
             ELSE wk' = [wk EXCEPT ![w].out = Recorded(w)] /\ UNCHANGED active
    /\ UNCHANGED <<tables, zombie, overruns, crashes>>

\* execute() resolved: the rest of #commitEffect.  When another invocation
\* recorded the key meanwhile, this one still returns its own output.
EffectCommit(w) ==
    /\ At(w, "effect")
    /\ \/ /\ ~ActiveStep(w, R(w), I(w), wk[w].aborted)
          /\ Leave(w)
          /\ UNCHANGED effect
       \/ /\ ActiveStep(w, R(w), I(w), wk[w].aborted)
          /\ \/ I(w) \in Oversized
             \/ Conflict(w)
          /\ Fail(w, TRUE)
          /\ UNCHANGED effect
       \/ /\ ActiveStep(w, R(w), I(w), wk[w].aborted)
          /\ I(w) \notin Oversized
          /\ ~Conflict(w)
          /\ wk' = [wk EXCEPT ![w].pc = "handler", ![w].out = Own(w)]
          /\ effect' = IF effect[Key(w)] # None THEN effect
                       ELSE [effect EXCEPT ![Key(w)] =
                               [fp |-> Fp(w), by |-> Own(w)]]
          /\ UNCHANGED active
    /\ UNCHANGED <<run, step, approval, ended, zombie, overruns, crashes>>

\* The handler resolves; a handler of an idempotent step returns what effect()
\* gave it.  A rollback of #completeStep is caught and handled as a failure.
HandlerReturns(w) ==
    /\ At(w, "handler")
    /\ I(w) \in Idempotent => wk[w].out # None
    /\ IF CompletionThrows(w, R(w), I(w))
       THEN Fail(w, TRUE) /\ UNCHANGED <<run, step, ended>>
       ELSE /\ CompleteStep(w, R(w), I(w), IF I(w) \in Idempotent THEN wk[w].out ELSE Own(w))
            /\ Leave(w)
    /\ UNCHANGED <<approval, effect, zombie, overruns, crashes>>

\* The handler (or the execute() it awaits) rejects; with the reason of an
\* aborted signal, run_cancelled, #handleFailure does nothing.
HandlerThrows(w, retryable) ==
    /\ MayStep(w)
    /\ wk[w].pc \in {"handler", "effect"}
    /\ Fail(w, retryable) \/ (wk[w].aborted /\ Leave(w))
    /\ UNCHANGED <<tables, zombie, overruns, crashes>>

\* timeoutPromise wins the race: the signal is aborted, the invocation goes on
\* unobserved.
Timeout(w) ==
    /\ MayStep(w)
    /\ wk[w].pc \in {"handler", "effect"}
    /\ zombie' = IF I(w) \in Idempotent /\ wk[w].out = None
                 THEN zombie \cup {[worker |-> w, run |-> R(w), step |-> I(w),
                                    attempt |-> wk[w].attempt, aborted |-> TRUE,
                                    executing |-> wk[w].pc = "effect"]}
                 ELSE zombie
    /\ Fail(w, TRUE)
    /\ UNCHANGED <<tables, overruns, crashes>>

\* A timed-out invocation reaches #commitEffect's checks.
ZombieReturns(z) ==
    LET k == KeyOf[z.run][z.step] IN
    /\ MayStep(z.worker) /\ wk[z.worker].pc \in Async
    /\ zombie' = zombie \ {z}
    /\ effect' = IF /\ ActiveStep(z.worker, z.run, z.step, z.aborted)
                    /\ effect[k] = None
                 THEN [effect EXCEPT ![k] = [fp |-> Fingerprint[z.run][z.step],
                         by |-> [run |-> z.run, step |-> z.step, attempt |-> z.attempt]]]
                 ELSE effect
    /\ UNCHANGED <<run, step, approval, ended, wk, active, overruns, crashes>>

\* The transaction of #handleFailure: no check of lease or status.
FailCommit(w) ==
    /\ At(w, "failing")
    /\ \/ /\ wk[w].retry
          /\ step' = [step EXCEPT ![R(w)][I(w)].status = "waiting_retry",
                                  ![R(w)][I(w)].due = FALSE]
          /\ run' = Unleased(R(w), "waiting_retry")
          /\ UNCHANGED ended
       \/ /\ ~wk[w].retry
          /\ step' = [step EXCEPT ![R(w)][I(w)].status = "failed"]
          /\ run' = Unleased(R(w), "failed")
          /\ Record(R(w), "failed")
    /\ Leave(w)
    /\ UNCHANGED <<approval, effect, zombie, overruns, crashes>>

-----------------------------------------------------------------------------
(* The environment: deadlines pass, processes die. *)

TimerDue(r, i) ==
    /\ step[r][i].status \in {"waiting_retry", "waiting_timer"}
    /\ ~step[r][i].due
    /\ step' = [step EXCEPT ![r][i].due = TRUE]
    /\ UNCHANGED <<run, approval, effect, ended, wk, others>>

ApprovalDue(a) ==
    /\ approval[a].state = "pending"
    /\ ~approval[a].due
    /\ approval' = [approval EXCEPT ![a].due = TRUE]
    /\ UNCHANGED <<run, step, effect, ended, wk, others>>

\* Some worker with the owner's id is still at work on the run.
Attended(r) == \E w \in Workers : /\ IdOf[w] = run[r].owner
                                  /\ wk[w].run = r
                                  /\ wk[w].pc # "cas"

\* lease_expires_at passes with nobody at work: after a crash or a thrown tick.
LeaseLapse(r) ==
    /\ run[r].owner # None
    /\ ~run[r].lapsed
    /\ ~Attended(r)
    /\ run' = [run EXCEPT ![r].lapsed = TRUE]
    /\ UNCHANGED <<step, approval, effect, ended, wk, others>>

\* lease_expires_at passes under a worker: a step longer than leaseMs, or a
\* stalled process.  Leases are not renewed.
LeaseOverrun(r) ==
    /\ run[r].owner # None
    /\ ~run[r].lapsed
    /\ Attended(r)
    /\ overruns < MaxOverruns
    /\ run' = [run EXCEPT ![r].lapsed = TRUE]
    /\ overruns' = overruns + 1
    /\ UNCHANGED <<step, approval, effect, ended, wk, active, zombie, crashes>>

\* A process dies (or close() ends it) and is started again: what it held in
\* memory is gone.
Crash(p) ==
    /\ crashes < MaxCrashes
    /\ \E w \in Workers : ProcOf[w] = p /\ wk[w].pc # "idle"
    /\ wk' = [w \in Workers |-> IF ProcOf[w] = p THEN IdleLocal ELSE wk[w]]
    /\ active' = [active EXCEPT ![p] = [r \in Runs |-> None]]
    /\ zombie' = {z \in zombie : ProcOf[z.worker] # p}
    /\ crashes' = crashes + 1
    /\ UNCHANGED <<tables, overruns>>

-----------------------------------------------------------------------------

\* One step of the tick of worker w, up to the handler.
Tick(w) ==
    \/ TickBegin(w) \/ Scan(w) \/ ScanDone(w) \/ Claim(w) \/ WorkRead(w)
    \/ MarkStarted(w) \/ MarkResumed(w) \/ ScheduleTimer(w) \/ CompleteWait(w)
    \/ LookupEffect(w) \/ BeginAttempt(w) \/ FailCommit(w)
    \/ \E a \in Approvals : ExpireOne(w, a) \/ RequestApproval(w, a)
    \/ \E r \in Runs : TryRow(w, r)

\* What the handler invoked by worker w may do.
Handler(w) ==
    \/ EffectBegin(w) \/ EffectCommit(w) \/ HandlerReturns(w) \/ Timeout(w)
    \/ \E retryable \in BOOLEAN : HandlerThrows(w, retryable)

Client(p) ==
    \/ \E r \in Runs : Start(p, r) \/ Cancel(p, r)
    \/ \E a \in Approvals, d \in {"approved", "rejected"} : Resolve(p, a, d)

Deadline ==
    \/ \E r \in Runs : LeaseLapse(r)
    \/ \E r \in Runs, i \in Steps : TimerDue(r, i)
    \/ \E a \in Approvals : ApprovalDue(a)

Next ==
    \/ \E w \in Workers : Tick(w) \/ Handler(w)
    \/ \E z \in zombie : ZombieReturns(z)
    \/ \E p \in Procs : Client(p) \/ Crash(p)
    \/ Deadline
    \/ \E r \in Runs : LeaseOverrun(r)

Spec == Init /\ [][Next]_vars

\* runWorker keeps ticking, every invocation settles or is timed out, and
\* deadlines pass.  Fairness of a worker is strong because its siblings disable
\* it while they hold the event loop, which serves every callback in its turn.
Fairness ==
    /\ \A w \in Workers : SF_vars(Tick(w)) /\ SF_vars(Handler(w))
    /\ \A r \in Runs : WF_vars(LeaseLapse(r))
    /\ \A r \in Runs, i \in Steps : WF_vars(TimerDue(r, i))
    /\ \A a \in Approvals : WF_vars(ApprovalDue(a))

FairSpec == Spec /\ Fairness

-----------------------------------------------------------------------------
(* Properties. *)

\* Every row and every local variable has its type: an approval names its run
\* and step, a worker past #claim knows its run, past #workClaim its step.
TypeOK ==
    /\ run \in [Runs -> RunRow]
    /\ step \in [Runs -> [Steps -> StepRow]]
    /\ approval \in [Approvals -> ApprovalRow]
    /\ effect \in [EffectKeys -> EffectRow \cup {None}]
    /\ ended \in [Runs -> Seq(Terminal)]
    /\ wk \in [Workers -> Local]
    /\ active \in [Procs -> [Runs -> Workers \cup {None}]]
    /\ zombie \subseteq Zombies
    /\ overruns \in 0 .. MaxOverruns
    /\ crashes \in 0 .. MaxCrashes

\* A run is 'completed' only while every one of its steps is: no transaction
\* that reopens or fails a step forgets the run, whatever worker it is from.
CompletedMeansAll ==
    \A r \in Runs : run[r].status = "completed" =>
        \A i \in Steps : step[r][i].status = "completed"

\* Steps are worked in definition order: nothing has happened to a step while
\* an earlier one is not completed.
StepsInOrder ==
    \A r \in Runs, i, j \in Steps :
        i < j /\ step[r][j].status \notin {"queued", "cancelled"} =>
            step[r][i].status = "completed"

\* A suspended run has something that will wake it: a pending approval of a
\* waiting step, or a first open step that waits for its due time.
SuspendedHasWaker ==
    \A r \in Runs :
        /\ run[r].status = "waiting_approval" =>
              \E a \in Approvals :
                  /\ approval[a].state = "pending"
                  /\ approval[a].run = r
                  /\ step[r][approval[a].step].status = "waiting_approval"
        /\ run[r].status \in {"waiting_timer", "waiting_retry"} =>
              \E i \in Open(r) : /\ \A j \in Open(r) : i <= j
                                 /\ step[r][i].status = run[r].status

\* The recorded output of a completed activity is that of its latest attempt:
\* no attempt that was superseded after losing its lease got its result in.
NoStaleCommit ==
    \A r \in Runs, i \in Steps :
        Kind[i] = "activity" /\ i \notin Idempotent /\ step[r][i].status = "completed" =>
            step[r][i].out = [run |-> r, step |-> i, attempt |-> step[r][i].attempt]

\* A completed idempotent step reports the output in the effects table, also
\* when a crash, a timeout or a reclaim came between effect and completion.
EffectOutputAgrees ==
    \A r \in Runs, i \in Idempotent :
        step[r][i].status = "completed" =>
            /\ effect[KeyOf[r][i]] # None
            /\ step[r][i].out = effect[KeyOf[r][i]].by

\* A completed idempotent step never rests on the record of another operation
\* that used the same key.
KeyKeepsOperation ==
    \A r \in Runs, i \in Idempotent :
        step[r][i].status = "completed" /\ effect[KeyOf[r][i]] # None =>
            effect[KeyOf[r][i]].fp = Fingerprint[r][i]

\* An approval step asks once: no second approval whose rejection could fail a
\* run that the first one let through.
OneApprovalPerStep ==
    \A a, b \in Approvals :
        approval[a].state # "none" /\ approval[b].state # "none"
        /\ approval[a].run = approval[b].run /\ approval[a].step = approval[b].step
        => a = b

\* Retries are bounded by maxAttempts, but for one attempt more for each crash
\* and each overrun: a reclaimed 'running' step is tried again unchecked.
AttemptBudget ==
    \A r \in Runs, i \in Steps :
        step[r][i].attempt <= MaxAttempts[i] + overruns + crashes

\* Only the current attempt of a step records an effect: not a timed-out
\* invocation, not one whose run was cancelled or reclaimed.
EffectByLiveAttempt ==
    [][\A k \in EffectKeys :
          effect'[k] # effect[k] =>
             LET o == effect'[k].by IN
             /\ effect[k] = None
             /\ run[o.run].status \notin Terminal
             /\ step[o.run][o.step].status = "running"
             /\ step[o.run][o.step].attempt = o.attempt]_vars

\* The history of a run has at most one terminal event, and the run is in a
\* terminal status exactly when it has one.  Nothing is said of a cancelled
\* run one of whose approvals was answered or expired: an answer that comes
\* after the cancellation brings the run back (TerminalIsFinal), and the state
\* does not tell whether it came before or after.
OneTerminalEvent ==
    \A r \in Runs :
        \/ /\ Len(ended[r]) <= 1
           /\ run[r].status \in Terminal <=> ended[r] # <<>>
        \/ /\ ended[r] # <<>> /\ Head(ended[r]) = "cancelled"
           /\ \E a \in Approvals : /\ approval[a].run = r
                                    /\ approval[a].state \notin {"none", "pending"}

\* Two workers are inside handlers of the same run.
Overlap ==
    \E v, w \in Workers :
        /\ v # w
        /\ wk[v].pc \in {"handler", "effect"} /\ wk[w].pc \in {"handler", "effect"}
        /\ wk[v].run = wk[w].run

\* As long as no step outlasted its lease, a run has one handler at work at a
\* time, also when a dead process's run is reclaimed, so that the one controller
\* per run which cancel looks up is enough: a handler of a cancelled run has
\* been told to abort.
AbortDelivered ==
    overruns = 0 =>
        /\ ~Overlap
        /\ \A w \in Workers :
              wk[w].pc \in {"handler", "effect"} /\ run[wk[w].run].status = "cancelled" =>
                  wk[w].aborted

\* A run that is cancelled, failed or completed stays so.
TerminalIsFinal ==
    [][\A r \in Runs : run[r].status \in Terminal => run'[r].status = run[r].status]_vars

\* Every started run reaches a terminal event.
EventuallyEnds ==
    \A r \in Runs : run[r].status # "none" ~> ended[r] # <<>>
=============================================================================
