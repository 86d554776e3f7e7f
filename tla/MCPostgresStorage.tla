-------------------------- MODULE MCPostgresStorage --------------------------
(***************************************************************************)
(* A small instance of PostgresStorage: two migrating processes, and two   *)
(* processes that use the repositories, one with two calls on its session. *)
(***************************************************************************)
EXTENDS PostgresStorage, TLC

CONSTANTS m1, m2, r1, r2, r3, s1, s2

OwnSessions == (m1 :> m1) @@ (m2 :> m2) @@ (r1 :> s1) @@ (r2 :> s1) @@ (r3 :> s2)

\* Migrations and repository calls touch different rows: one or the other.
TwoCrews == {{m1, m2}, {r1, r2, r3}}

F(sum, sql) == [sum |-> sum, sql |-> sql]

\* A release, one with a faulty second file, one with a file that cannot be
\* sent, and one whose first file was changed.
Releases ==
    {<<F("a", "good"), F("b", "good")>>, <<F("a", "good"), F("c", "bad")>>,
     <<F("a", "good"), F("d", "unbound")>>, <<F("e", "good"), F("b", "good")>>}

SomeJobs ==
    {[kind |-> "put", key |-> 0, val |-> "run"], [kind |-> "event", key |-> 0, val |-> "first"],
     [kind |-> "event", key |-> 1, val |-> "second"],
     [kind |-> "manifest", key |-> 0, val |-> "f"], [kind |-> "manifest", key |-> 0, val |-> "g"]}
=============================================================================
