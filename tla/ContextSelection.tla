-------------------------- MODULE ContextSelection --------------------------
(***************************************************************************)
(* What selectContextCandidates and buildAssembly of the context compiler  *)
(* compute: which candidates go into the context of a model call, which    *)
(* are left out, and in which order they are assembled.  Pure operators;   *)
(* a record is abstracted to the attributes the algorithm reads, its text  *)
(* to a topic (two records of one topic are duplicates, others share       *)
(* nothing), and utilities are integers in units of 1/20, the grain of the *)
(* thresholds of CONTEXT_SELECTION_POLICY.                                 *)
(***************************************************************************)
EXTENDS Integers, Sequences, FiniteSets, SequencesExt, FiniteSetsExt

CONSTANTS
    None,
    Ids,            \* the ids of records
    Rec,            \* what is fixed of each record
    Cap,            \* the cap of each category
    MaxSelected,    \* limits.maxSelectedCandidates
    MinEvidence,    \* thresholds.minimumEvidenceCount
    MaxComparisons  \* similarity.maxPairwiseComparisons

\* what is no error is not the code of one
ASSUME NoneAssumption ==
    None \notin {"required_context_unresolved", "required_context_conflict",
                 "required_context_over_budget", "similarity_comparison_limit_exceeded",
                 "candidate_generation_unavailable"}

\* records have ids that sort one way, and estimates that are numbers
ASSUME RecordAssumption ==
    /\ IsFiniteSet(Ids)
    /\ \A i \in Ids: Rec[i].tokens \in Nat /\ Rec[i].base \in Int /\ Rec[i].order \in Nat
    /\ \A i, j \in Ids: Rec[i].order = Rec[j].order => i = j

MinimumUtility == 7     \* thresholds.minimumUtility, 0.35
MarginalUtility == 4    \* thresholds.marginalUtility, 0.2
DiversityWeight == 25   \* diversity.diversityWeight, 1.25
CoverageBonus == 15     \* diversity.coverageBonus, 0.75
KindBonus == 3          \* diversity.kindCoverageBonus, 0.15

\* weight 12 of the fused rank times sourceWeights / (rrfK + 1)
Fusion == [direct |-> 7, exact |-> 31, lexical |-> 15]

Category(i) ==
    CASE Rec[i].kind \in {"policy", "constraint"} -> "governance"
      [] Rec[i].kind \in {"observation", "evidence", "fact", "claim"} -> "evidence"
      [] OTHER -> "other"

Governance(i) == Rec[i].kind \in {"policy", "constraint"}

\* op(x): the singleton makes TLC evaluate x once
Once(x, op(_)) == CHOOSE y \in {op(z): z \in {x}}: TRUE

\* the place of i in S; an order gives for each element those that come before it
Rank(i, S, before) == Cardinality(S \cap before[i]) + 1

Sorted(S, before) == [n \in 1..Cardinality(S) |-> CHOOSE i \in S: Rank(i, S, before) = n]

ById == [i \in Ids |-> {j \in Ids: Rec[j].order < Rec[i].order}]

Tokens(S) == SumFunctionOnSet([i \in Ids |-> Rec[i].tokens], S)

-----------------------------------------------------------------------------
(* A candidate set is a function from ids to what was read of them: the    *)
(* version, the status and the kinds of the sources that hit it.           *)

\* any record that names i retires it, one that is itself ineligible included
Eligible(cands, i) ==
    /\ Rec[i].access = "ok"
    /\ cands[i].status \notin {"expired", "retracted", "quarantined", "superseded"}
    /\ \A j \in DOMAIN cands: Rec[j].supersedes # i

\* detectConflicts: eligible records that make different claims under one key
Conflicting(E) ==
    {i \in E: Rec[i].claim # None
              /\ \E j \in E: /\ Rec[j].claim # None /\ Rec[j].claim[1] = Rec[i].claim[1]
                             /\ Rec[j].claim[2] # Rec[i].claim[2]}

\* the utility before diversity; without a task signal (a match, or an entity
\* asked for) it stays under the minimum
RawUtility(cands, req, i) ==
    LET total == Rec[i].base + SumFunctionOnSet(Fusion, DOMAIN cands[i].hits)
    IN  IF /\ Rec[i].lexical = 0 /\ Rec[i].entities \cap req.entities = {}
               /\ total > MinimumUtility \div 2
        THEN MinimumUtility \div 2 ELSE total

Redundant(i, sel) == \E j \in Range(sel): Rec[j].topic = Rec[i].topic

Covered(sel, req) == UNION {Rec[j].entities: j \in Range(sel)} \cap req.entities

Marginal(cands, sel, req, i) ==
    RawUtility(cands, req, i)
    - (IF Redundant(i, sel) THEN DiversityWeight ELSE 0)
    + (IF (Rec[i].entities \cap req.entities) \ Covered(sel, req) # {} THEN CoverageBonus ELSE 0)
    + (IF \A j \in Range(sel): Category(j) # Category(i) THEN KindBonus ELSE 0)

\* highest marginal utility, then fewest tokens, then the first id
Best(cands, sel, req, S) ==
    LET first(value) == CHOOSE i \in S: \A j \in S \ {i}:
            \/ value[i] > value[j]
            \/ value[i] = value[j] /\ Rec[i].tokens < Rec[j].tokens
            \/ value[i] = value[j] /\ Rec[i].tokens = Rec[j].tokens /\ Rec[i].order < Rec[j].order
    IN  Once([i \in S |-> Marginal(cands, sel, req, i)], first)

EvidenceCount(sel) == Cardinality({i \in Range(sel): Category(i) = "evidence"})

\* isSufficient: open are the records in conflict; minimumBudgetUtilization is 0 in the default policy
Sufficient(open, sel, req) ==
    /\ req.required \subseteq Range(sel)
    /\ req.entities \subseteq Covered(sel, req)
    /\ EvidenceCount(sel) >= MinEvidence
    /\ open \subseteq Range(sel)

\* mutant: a candidate is compared with the budget before its own tokens count
Refused_OneOver(cands, st, req, i) ==
    \/ RawUtility(cands, req, i) < MinimumUtility
    \/ Redundant(i, st.sel)
    \/ Cardinality({j \in Range(st.sel): Category(j) = Category(i)}) >= Cap[Category(i)]
    \/ st.used >= req.budget
    \/ Marginal(cands, st.sel, req, i) < MarginalUtility

\* why the best of the optional candidates is refused
Refused(cands, st, req, i) ==
    \/ RawUtility(cands, req, i) < MinimumUtility
    \/ Redundant(i, st.sel)
    \/ Cardinality({j \in Range(st.sel): Category(j) = Category(i)}) >= Cap[Category(i)]
    \/ st.used + Rec[i].tokens > req.budget
    \/ Marginal(cands, st.sel, req, i) < MarginalUtility

Running(st) == st.left # {} /\ ~st.stop /\ Len(st.sel) < MaxSelected

\* one iteration: every remaining candidate is compared with what was selected
\* since the last one, and the best is selected or refused
Iterate(cands, open, req, st) ==
    LET compared == st.compared + Cardinality(st.left) * (Len(st.sel) - st.seen)
        on(i) ==
            LET now == [st EXCEPT !.left = @ \ {i}, !.compared = compared, !.seen = Len(st.sel)]
                took == [now EXCEPT !.sel = Append(@, i), !.used = @ + Rec[i].tokens]
            IN  IF Refused(cands, st, req, i) THEN [now EXCEPT !.out = @ \cup {i}]
                ELSE IF Sufficient(open, took.sel, req)
                     THEN [took EXCEPT !.stop = TRUE, !.left = {}, !.out = @ \cup took.left,
                                       !.compared = @ + Cardinality(took.left)]
                     ELSE took
    IN  Once(Best(cands, st.sel, req, st.left), on)

\* the loop over the optional candidates, from the forced ones on
Greedy(cands, open, req, start) ==
    LET turn(st) == IF Running(st) THEN Iterate(cands, open, req, st) ELSE st
        after[n \in 0..Cardinality(start.left)] == IF n = 0 THEN start ELSE Once(after[n - 1], turn)
        rest(end) == [end EXCEPT !.out = @ \cup end.left, !.left = {}]
    IN  Once(after[Cardinality(start.left)], rest)

\* required records first, then governance, each by id
ForcedOrder(req, F) ==
    Sorted(req.required, ById) \o Sorted(F \ req.required, ById)

\* from the eligible candidates, those of them that are forced and those in
\* conflict to the selection or the code of the error thrown
SelectFrom(cands, req, all) ==
    LET throws(e) == [error |-> e, sel |-> <<>>, out |-> {}, used |-> 0]
        start == [sel |-> ForcedOrder(req, all.forced), left |-> all.eligible \ all.forced,
                  out |-> DOMAIN cands \ all.eligible, used |-> Tokens(all.forced),
                  stop |-> FALSE, compared |-> 0, seen |-> 0]
        done(end) == IF end.compared > MaxComparisons
                     THEN throws("similarity_comparison_limit_exceeded")
                     ELSE [error |-> None, sel |-> end.sel, out |-> end.out, used |-> end.used]
        optional(st) == Once(Greedy(cands, all.open, req, st), done)
    IN  IF ~(req.required \subseteq all.eligible) THEN throws("required_context_unresolved")
        ELSE IF req.required \cap all.open # {} THEN throws("required_context_conflict")
        ELSE IF Tokens(all.forced) > req.budget THEN throws("required_context_over_budget")
        ELSE Once(start, optional)

\* selectContextCandidates
Select(cands, req) ==
    LET of(E) == [eligible |-> E, forced |-> {i \in E: i \in req.required \/ Governance(i)},
                  open |-> Conflicting(E)]
        from(all) == SelectFrom(cands, req, all)
    IN  Once(Once({i \in DOMAIN cands: Eligible(cands, i)}, of), from)

-----------------------------------------------------------------------------
(* Assembly: sections in a fixed order, within a section the order of      *)
(* selection, policies before constraints.                                 *)

Sections == [policy |-> 1, constraint |-> 2, evidence |-> 3, other |-> 4]

Section(i) == Sections[IF Governance(i) THEN Rec[i].kind ELSE Category(i)]

Assemble(sel) ==
    LET at == 1..Len(sel)
        before == [p \in at |-> {q \in at: \/ Section(sel[q]) < Section(sel[p])
                                           \/ Section(sel[q]) = Section(sel[p]) /\ q < p}]
        sorted == Sorted(at, before)
    IN  [n \in at |-> sel[sorted[n]]]

\* a tier other than full replaces the text by a line whose length does not
\* depend on the record: a short record may grow
Represented(i) == IF Rec[i].outline = 0 THEN Rec[i].tokens ELSE Rec[i].outline

=============================================================================
