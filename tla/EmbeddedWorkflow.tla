--------------------------- MODULE EmbeddedWorkflow ---------------------------
(***************************************************************************)
(* The embedded workflow runtime of one process                            *)
(* (providers/native/workflow-embedded/src/index.mjs), the loop that runs  *)
(* its steps (packages/workflow-runtime/src/index.mjs) and the state file  *)
(* they are recorded in (packages/storage/src/file-store.mjs).             *)
(*                                                                         *)
(* A call is one start(); an action is what runs between two awaits.       *)
(* Updates of the file are queued one after the other, so that each is one *)
(* action; one that fails leaves a rejected promise at the head of the     *)
(* queue, and no later update of the process is even tried.  Handlers may  *)
(* return, fail, declare the run cancelled, time out, or go on after they  *)
(* were given up; an event that one emits is not of the loop's own types.  *)
(***************************************************************************)
EXTENDS Integers, Sequences, FiniteSets

CONSTANTS
    Calls,
    Runs,
    RunOf,          \* [Calls -> Runs]
    Steps,          \* number of steps
    MaxAttempts,    \* [1 .. Steps -> step.retry.maxAttempts]
    MaxStarts,      \* bound: calls that are made
    MaxFaults,      \* bound: failed writes and crashes
    MaxNotes,       \* bound: events that handlers emit themselves
    None

ASSUME EmbeddedAssumption ==
    /\ RunOf \in [Calls -> Runs]
    /\ Steps \in Nat \ {0}
    /\ MaxAttempts \in [1 .. Steps -> Nat \ {0}]
    /\ MaxStarts \in Nat
    /\ MaxFaults \in Nat
    /\ MaxNotes \in Nat
    /\ None \notin Calls

VARIABLES
    rows,           \* [Runs -> statuses of the rows with that id, first found first]
    history,        \* [Calls -> types of the events it has recorded]
    call,           \* [Calls -> where the call is]
    controllers,    \* [Runs -> the call whose controller is registered, or None]
    aborted,        \* calls whose controller was aborted
    resigned,       \* calls that a handler has declared cancelled itself
    abandoned,      \* calls with a handler that was given up and goes on
    broken,         \* the update queue is rejected
    faults          \* faults so far

vars == <<rows, history, call, controllers, aborted, resigned, abandoned, broken, faults>>

Idle == [at |-> "idle", step |-> 1, attempt |-> 1]
Over == {"returned", "threw", "refused", "lost"}

Init ==
    /\ rows = [r \in Runs |-> <<>>]
    /\ history = [c \in Calls |-> <<>>]
    /\ call = [c \in Calls |-> Idle]
    /\ controllers = [r \in Runs |-> None]
    /\ aborted = {}
    /\ resigned = {}
    /\ abandoned = {}
    /\ broken = FALSE
    /\ faults = 0

At(c, place) == call[c].at = place
Go(c, place) == call' = [call EXCEPT ![c].at = place]
Recorded(c, type) == \E i \in DOMAIN history[c] : history[c][i] = type
Count(c, type) == Cardinality({i \in DOMAIN history[c] : history[c][i] = type})

-----------------------------------------------------------------------------
(* start *)

Start(c) ==
    /\ At(c, "idle")
    /\ Cardinality({d \in Calls : ~At(d, "idle")}) < MaxStarts
    /\ Go(c, IF controllers[RunOf[c]] # None THEN "refused" ELSE "reading")
    /\ UNCHANGED <<rows, history, controllers, aborted, resigned, abandoned, broken, faults>>

\* The read has been answered: the controller is registered, over one that
\* another call of the same id may have registered meanwhile.
Register(c) ==
    /\ At(c, "reading")
    /\ \/ /\ rows[RunOf[c]] # <<>>
          /\ Go(c, "refused")
          /\ UNCHANGED controllers
       \/ /\ rows[RunOf[c]] = <<>>
          /\ Go(c, "creating")
          /\ controllers' = [controllers EXCEPT ![RunOf[c]] = c]
    /\ UNCHANGED <<rows, history, aborted, resigned, abandoned, broken, faults>>

CreateRow(c) ==
    /\ At(c, "creating")
    /\ ~broken
    /\ rows' = [rows EXCEPT ![RunOf[c]] = Append(@, "running")]
    /\ Go(c, "created")
    /\ UNCHANGED <<history, controllers, aborted, resigned, abandoned, broken, faults>>

SaveResult_NoFinally(c) ==
    /\ At(c, "completed") \/ At(c, "failed") \/ At(c, "cancelled")
    /\ ~broken
    /\ rows' = [rows EXCEPT ![RunOf[c]][1] = call[c].at]
    /\ Go(c, "returned")
    /\ UNCHANGED <<history, controllers, aborted, resigned, abandoned, broken, faults>>

\* run.status of the first row of that id.
SaveResult(c) ==
    /\ At(c, "completed") \/ At(c, "failed") \/ At(c, "cancelled")
    /\ ~broken
    /\ rows' = [rows EXCEPT ![RunOf[c]][1] = call[c].at]
    /\ controllers' = [controllers EXCEPT ![RunOf[c]] = None]
    /\ Go(c, "returned")
    /\ UNCHANGED <<history, aborted, resigned, abandoned, broken, faults>>

-----------------------------------------------------------------------------
(* executeSteps *)

\* A call is about to record an event: its type, and where it goes on.
Emits ==
    [created |-> "run.created", started |-> "run.started",
     stepping |-> "step.started", stepped |-> "step.completed",
     retrying |-> "step.failed", giving_up |-> "step.failed",
     stopping |-> "step.cancelled", completing |-> "run.completed",
     failing |-> "run.failed", cancelling |-> "run.cancelled"]

Then(now) ==
    CASE now.at = "created" -> [now EXCEPT !.at = "started"]
      [] now.at = "started" -> [now EXCEPT !.at = "loop"]
      [] now.at = "stepping" -> [now EXCEPT !.at = "invoking"]
      [] now.at = "stepped" -> [at |-> "loop", step |-> now.step + 1, attempt |-> 1]
      [] now.at = "retrying" -> [now EXCEPT !.at = "loop", !.attempt = @ + 1]
      [] now.at = "giving_up" -> [now EXCEPT !.at = "failing"]
      [] now.at = "stopping" -> [now EXCEPT !.at = "cancelling"]
      [] now.at = "completing" -> [now EXCEPT !.at = "completed"]
      [] now.at = "failing" -> [now EXCEPT !.at = "failed"]
      [] now.at = "cancelling" -> [now EXCEPT !.at = "cancelled"]

Emit(c) ==
    /\ call[c].at \in DOMAIN Emits
    /\ ~broken
    /\ history' = [history EXCEPT ![c] = Append(@, Emits[call[c].at])]
    /\ call' = [call EXCEPT ![c] = Then(@)]
    /\ UNCHANGED <<rows, controllers, aborted, resigned, abandoned, broken, faults>>

\* The top of the loops over steps and attempts.
Loop(c) ==
    /\ At(c, "loop")
    /\ Go(c, IF call[c].step > Steps THEN "completing"
             ELSE IF c \in aborted THEN "cancelling" ELSE "stepping")
    /\ UNCHANGED <<rows, history, controllers, aborted, resigned, abandoned, broken, faults>>

\* withTimeout looks at the signal once more before it calls the handler.
Invoke_Unguarded(c) ==
    /\ At(c, "invoking")
    /\ Go(c, "handling")
    /\ UNCHANGED <<rows, history, controllers, aborted, resigned, abandoned, broken, faults>>

Invoke(c) ==
    /\ At(c, "invoking")
    /\ Go(c, IF c \in aborted THEN "stopping" ELSE "handling")
    /\ UNCHANGED <<rows, history, controllers, aborted, resigned, abandoned, broken, faults>>

HandlerReturns(c) ==
    /\ At(c, "handling")
    /\ Go(c, "stepped")
    /\ UNCHANGED <<rows, history, controllers, aborted, resigned, abandoned, broken, faults>>

\* The attempt failed: once more, or not.
Failure(c, retryable) ==
    IF retryable /\ call[c].attempt < MaxAttempts[call[c].step] THEN "retrying" ELSE "giving_up"

\* An error with the code run_cancelled ends the run as cancelled, whoever
\* threw it: the loop does not ask whether the call was aborted.
HandlerThrows(c) ==
    /\ At(c, "handling")
    /\ \/ /\ \E retryable \in BOOLEAN : Go(c, Failure(c, retryable))
          /\ UNCHANGED resigned
       \/ /\ Go(c, "stopping")
          /\ resigned' = resigned \cup {c}
    /\ UNCHANGED <<rows, history, controllers, aborted, abandoned, broken, faults>>

Timeout_AsCancel(c) ==
    /\ At(c, "handling")
    /\ Go(c, "stopping")
    /\ abandoned' = abandoned \cup {c}
    /\ UNCHANGED <<rows, history, controllers, aborted, resigned, broken, faults>>

Timeout(c) ==
    /\ At(c, "handling")
    /\ Go(c, Failure(c, TRUE))
    /\ abandoned' = abandoned \cup {c}
    /\ UNCHANGED <<rows, history, controllers, aborted, resigned, broken, faults>>

\* The abort listener of a call whose handler is running.
StopHandler(c) ==
    /\ At(c, "handling")
    /\ c \in aborted
    /\ Go(c, "stopping")
    /\ abandoned' = abandoned \cup {c}
    /\ UNCHANGED <<rows, history, controllers, aborted, resigned, broken, faults>>

\* emitEvent, by a handler that runs or that was given up.
HandlerEmits(c) ==
    /\ At(c, "handling") \/ c \in abandoned
    /\ Cardinality({d \in Calls : Recorded(d, "note")}) < MaxNotes
    /\ ~broken
    /\ history' = [history EXCEPT ![c] = Append(@, "note")]
    /\ UNCHANGED <<rows, call, controllers, aborted, resigned, abandoned, broken, faults>>

AbandonedEnds(c) ==
    /\ c \in abandoned
    /\ abandoned' = abandoned \ {c}
    /\ UNCHANGED <<rows, history, call, controllers, aborted, resigned, broken, faults>>

-----------------------------------------------------------------------------
(* cancel, failures of the state file, and the end of the process *)

Cancel(r) ==
    /\ controllers[r] # None
    /\ aborted' = aborted \cup {controllers[r]}
    /\ UNCHANGED <<rows, history, call, controllers, resigned, abandoned, broken, faults>>

\* A write fails: the queue is rejected from now on.
WriteFails ==
    /\ ~broken
    /\ faults < MaxFaults
    /\ broken' = TRUE
    /\ faults' = faults + 1
    /\ UNCHANGED <<rows, history, call, controllers, aborted, resigned, abandoned>>

Updating == DOMAIN Emits \cup {"creating", "completed", "failed", "cancelled"}

\* An update is rejected.  So is every later one of the call, its error
\* events included, and start throws; the controller is deregistered unless
\* not even the row could be written.
Rejected(c) ==
    /\ broken
    /\ call[c].at \in Updating
    /\ Go(c, "threw")
    /\ controllers' = IF At(c, "creating") THEN controllers
                      ELSE [controllers EXCEPT ![RunOf[c]] = None]
    /\ UNCHANGED <<rows, history, aborted, resigned, abandoned, broken, faults>>

\* The process dies and another one takes its place.
Crash ==
    /\ faults < MaxFaults
    /\ faults' = faults + 1
    /\ call' = [c \in Calls |-> IF call[c].at \in Over \cup {"idle"} THEN call[c]
                                ELSE [call[c] EXCEPT !.at = "lost"]]
    /\ controllers' = [r \in Runs |-> None]
    /\ abandoned' = {}
    /\ broken' = FALSE
    /\ UNCHANGED <<rows, history, aborted, resigned>>

-----------------------------------------------------------------------------
Step(c) ==
    \/ Register(c) \/ CreateRow(c) \/ SaveResult(c) \/ Emit(c) \/ Loop(c)
    \/ Invoke(c) \/ HandlerReturns(c) \/ HandlerThrows(c) \/ Timeout(c)
    \/ StopHandler(c) \/ Rejected(c)

Next ==
    \/ \E c \in Calls : Start(c) \/ Step(c) \/ HandlerEmits(c) \/ AbandonedEnds(c)
    \/ \E r \in Runs : Cancel(r)
    \/ WriteFails \/ Crash

Spec == Init /\ [][Next]_vars

-----------------------------------------------------------------------------
(* Properties. *)

\* The runs that one call only ever starts.
OwnRuns == {RunOf[c] : c \in {d \in Calls : \A e \in Calls \ {d} : RunOf[e] # RunOf[d]}}
CallOf(r) == CHOOSE c \in Calls : RunOf[c] = r

\* What the state file shows of a run is the life of a run: whatever its
\* handlers, their timeouts, cancellations, failing writes, crashes and the
\* calls beside it do, it ends once, as completed only with all its steps
\* completed, and as cancelled only if that was asked for or one of its own
\* handlers said so, by throwing an error with the code run_cancelled.
Lifecycle == INSTANCE RunLifecycle WITH
    Runs <- OwnRuns,
    status <- [r \in OwnRuns |-> IF rows[r] = <<>> THEN "absent" ELSE rows[r][1]],
    done <- [r \in OwnRuns |-> Count(CallOf(r), "step.completed")],
    asked <- [r \in OwnRuns |-> CallOf(r) \in aborted \cup resigned]

ImplementsLifecycle == Lifecycle!LifecycleSpec

\* No handler is called once its call is aborted, whichever of its awaits the
\* abortion fell into.
NoHandlerAfterAbort ==
    [][\A c \in Calls : c \in aborted /\ ~At(c, "handling") => call'[c].at # "handling"]_vars

\* A run that is shown as running after its call is over was left so by a
\* failed write or a crash; and only a call whose row could not be written
\* leaves its controller registered.
LeftBehindByFaults ==
    \A c \in Calls :
       /\ At(c, "returned") /\ RunOf[c] \in OwnRuns => rows[RunOf[c]][1] # "running"
       /\ At(c, "threw") => faults > 0
       /\ controllers[RunOf[c]] = c /\ call[c].at \in Over =>
             history[c] = <<>> /\ faults > 0
=============================================================================
