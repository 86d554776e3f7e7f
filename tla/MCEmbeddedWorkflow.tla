-------------------------- MODULE MCEmbeddedWorkflow --------------------------
(***************************************************************************)
(* A small instance of EmbeddedWorkflow: a run of its own beside one that  *)
(* two calls start.                                                        *)
(***************************************************************************)
EXTENDS EmbeddedWorkflow, TLC

CONSTANTS c1, c2, c3, r1, r2

SecondTwice == (c1 :> r1) @@ (c2 :> r2) @@ (c3 :> r2)
RetrySecond == <<1, 2>>
SecondsAlike == Permutations({c2, c3})
=============================================================================
