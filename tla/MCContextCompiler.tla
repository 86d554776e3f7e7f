-------------------------- MODULE MCContextCompiler --------------------------
(* A small instance of ContextCompiler for TLC. *)
EXTENDS ContextCompiler

CONSTANTS policy, need, fact, echo, note, newer, hidden, c1, c2

Record(kind, tokens, order, lexical, base, topic) ==
    [kind |-> kind, tokens |-> tokens, order |-> order, lexical |-> lexical, base |-> base,
     topic |-> topic, entities |-> {}, supersedes |-> None, claim |-> None, access |-> "ok",
     outline |-> 0, unsafe |-> {}]

\* a policy, a required fact, a fact and its echo, a note about the entity
\* asked for, the successor of the fact, and a record of another data class
Records ==
    (policy :> Record("policy", 2, 1, 1, 10, "p"))
    @@ (need :> Record("fact", 2, 2, 1, 10, "n"))
    @@ (fact :> [Record("fact", 2, 3, 3, 20, "f") EXCEPT !.claim = <<"k", 1>>])
    @@ (echo :> [Record("evidence", 1, 4, 2, 20, "f") EXCEPT !.claim = <<"k", 2>>])
    @@ (note :> [Record("note", 1, 5, 1, 5, "o") EXCEPT !.entities = {"e"}, !.outline = 3, !.unsafe = {2}])
    @@ (newer :> [Record("fact", 1, 6, 0, 20, "g") EXCEPT !.supersedes = fact])
    @@ (hidden :> [Record("fact", 1, 7, 4, 20, "h") EXCEPT !.access = "secret"])

Caps == [governance |-> 6, evidence |-> 2, other |-> 2]

Entry1(kind, required) == [kind |-> kind, required |-> required, limit |-> 6]

FromSources ==
    [key |-> "r", plan |-> <<Entry1("exact", TRUE), Entry1("lexical", FALSE), Entry1("vector", FALSE)>>,
     denied |-> {}, direct |-> {}, required |-> {need}, entities |-> {"e"}, budget |-> 8, total |-> 4]

\* records handed in by the caller: some, all, and too few tokens for what is required
Given(ids, required, budget) ==
    [FromSources EXCEPT !.key = "g", !.plan = <<>>, !.direct = ids, !.required = required,
                        !.budget = budget]

\* the policy denies the only source asked, optional or required; a required source has no provider
Denied == [FromSources EXCEPT !.plan = <<Entry1("lexical", FALSE)>>, !.denied = {"lexical"},
                              !.required = {}]
Forbidden == [Denied EXCEPT !.plan[1].required = TRUE]
Missing == [FromSources EXCEPT !.plan = <<Entry1("vector", TRUE)>>, !.required = {}]

\* both compilations may serve any request, at different times or with a clock
\* the caller has fixed
Offered == {FromSources, Denied, Forbidden, Missing, Given(Ids \ {newer}, {}, 6), Given(Ids, {}, 9),
            Given({policy, fact, echo, note}, {echo}, 2)}
Clocks == [c \in Compiles |-> [r |-> IF c = c1 THEN 1 ELSE 2, g |-> 1]]

=============================================================================
