---------------------------- MODULE MCMemoryReview ----------------------------
(***************************************************************************)
(* Small instances of MemoryReview: two facts about one subject and        *)
(* predicate with different objects that supersede what is known, and a    *)
(* third that does not.                                                    *)
(***************************************************************************)
EXTENDS MemoryReview, TLC

CONSTANTS p1, p2, p3,       \* proposals
          f1, f2, f3, g1,   \* fact ids
          c1, c2            \* processes

OwnFingerprints == [p \in Proposals |-> p]
OneSlot == [p \in Proposals |-> "s"]
OwnObjects == [p \in Proposals |-> p]
FirstObserved == p1 :> 2 @@ p2 :> None @@ p3 :> 1
FactOfProposal == p1 :> f1 @@ p2 :> f2 @@ p3 :> f3
FirstThrice == p1 :> 3 @@ p2 :> 1 @@ p3 :> 1

\* Every run of the command line reviews as 'memory-review'.
OneReviewerId == [c \in Callers |-> "memory-review"]

CallersAlike == Permutations(Callers)
=============================================================================
