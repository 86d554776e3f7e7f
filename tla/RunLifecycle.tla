----------------------------- MODULE RunLifecycle -----------------------------
(***************************************************************************)
(* What a workflow runtime promises of the run that a caller sees: it is   *)
(* created running, its steps complete one after the other, it ends once,  *)
(* as completed only after its last step and as cancelled only when        *)
(* someone asked for that, a caller or one of the run's own steps, and     *)
(* what it ended with stands.                                              *)
(***************************************************************************)
EXTENDS Naturals

CONSTANTS
    Runs,
    Steps       \* number of steps of a run

VARIABLES
    status,     \* [Runs -> what the run is seen as]
    done,       \* [Runs -> completed steps]
    asked       \* [Runs -> a cancellation was accepted, or a step declared one]

lifecycleVars == <<status, done, asked>>

Ended == {"completed", "failed", "cancelled"}

LifecycleInit ==
    /\ status = [r \in Runs |-> "absent"]
    /\ done = [r \in Runs |-> 0]
    /\ asked = [r \in Runs |-> FALSE]

Create(r) ==
    /\ status[r] = "absent"
    /\ status' = [status EXCEPT ![r] = "running"]
    /\ UNCHANGED <<done, asked>>

Advance(r) ==
    /\ status[r] = "running"
    /\ done[r] < Steps
    /\ done' = [done EXCEPT ![r] = @ + 1]
    /\ UNCHANGED <<status, asked>>

\* A cancellation may be accepted from the moment the caller has the run,
\* before it can be seen, until after it has ended; a step may declare the
\* run cancelled while it runs.
Ask(r) ==
    /\ asked' = [asked EXCEPT ![r] = TRUE]
    /\ UNCHANGED <<status, done>>

End(r, outcome) ==
    /\ status[r] = "running"
    /\ outcome = "completed" => done[r] = Steps
    /\ outcome = "cancelled" => asked[r]
    /\ status' = [status EXCEPT ![r] = outcome]
    /\ UNCHANGED <<done, asked>>

LifecycleNext ==
    \E r \in Runs :
       Create(r) \/ Advance(r) \/ Ask(r) \/ \E outcome \in Ended : End(r, outcome)

LifecycleSpec == LifecycleInit /\ [][LifecycleNext]_lifecycleVars
===============================================================================
