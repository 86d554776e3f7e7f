-------------------------- MODULE MCDurableWorkflow --------------------------
(***************************************************************************)
(* Small instances of DurableWorkflow: deployments (which worker runs in   *)
(* which process under which id) and workflow definitions.                 *)
(***************************************************************************)
EXTENDS DurableWorkflow, TLC

CONSTANTS w1, w2, p1, p2, r1, r2, a1, a2

\* Deployments.
OneProcess == w1 :> p1 @@ w2 :> p1
TwoProcesses == w1 :> p1 @@ w2 :> p2
DistinctWorkerIds == w1 :> "w1" @@ w2 :> "w2"
AllRegistered == [p \in Procs |-> Steps]
SecondLacksLastHandler == p1 :> Steps @@ p2 :> Steps \ {NSteps}

\* Start keys, effect keys and operation fingerprints.
OwnStartKeys == [r \in Runs |-> r]
OwnEffectKeys == [r \in Runs |-> [i \in Steps |-> <<r, i>>]]
SharedEffectKey == [r \in Runs |-> [i \in Steps |-> "k"]]
OneFingerprint == [r \in Runs |-> [i \in Steps |-> "f"]]
FingerprintPerRun == [r \in Runs |-> [i \in Steps |-> r]]

\* Definitions.
ActivityTimerApproval == <<"activity", "timer", "approval">>
ApprovalFirst == <<"approval", "activity">>
Activities == [i \in Steps |-> "activity"]
Once == [i \in Steps |-> 1]
Twice == [i \in Steps |-> 2]
=============================================================================
